------------------------------ MODULE Actions -------------------------------
(***************************************************************************)
(* The action engine (actions.cpp, actions.h) and the primitives of        *)
(* simple_switch (primitives.cpp, core/primitives.cpp).  P4Objects         *)
(* flattens an action of the JSON into an ActionFn: one vector of          *)
(* parameters for all its primitive calls, with separate vectors for       *)
(* constants, strings and the elements of parameter lists.  A packet       *)
(* thread runs the calls one by one; the arguments of a call are found by  *)
(* their offset in the vector and converted to references, of which an     *)
(* expression's points into a thread-local vector of temporaries.          *)
(* The reference model runs the JSON's calls on values.                    *)
(*                                                                         *)
(* A Data is a natural number, a field has AcBits bits, and an expression  *)
(* is the sum of a field and a constant (Expressions models them).  The    *)
(* register arrays an action names stay locked while it runs (Registers    *)
(* models that lock).                                                      *)
(***************************************************************************)
EXTENDS Integers, Sequences, SequencesExt, Bitwise

CONSTANTS
  AcThreads,    \* threads that run actions: simple_switch's egress workers
  AcActions,    \* the actions of the JSON, each a sequence of calls
  AcDatas,      \* the action data a table entry can hold
  AcHoles,      \* the number of {} in each format string
  AcBits,       \* width of a field
  AcFlagBits,   \* width of a packet register's part, 16 in the code
  AcCells,      \* size of the register and counter arrays
  AcHdrLen,     \* bytes of the header that is added and removed
  AcMaxRuns     \* bound: executions of actions

ASSUME AcAssumption ==
  /\ AcBits \in Nat \ {0} /\ AcFlagBits \in Nat \ {0, 1}
  /\ AcCells \in Nat \ {0} /\ AcHdrLen \in Nat /\ AcMaxRuns \in Nat

VARIABLES
  acPkt,      \* [thread -> its packet as the engine leaves it]
  acRef,      \* [thread -> the packet as the reference leaves it]
  acCells,    \* contents of the register array
  acRefCells, \* the same in the reference
  acTemps,    \* [thread -> data_temps, thread_local]
  acThread,   \* [thread -> action, action data, position in the action and in
              \*  the reference, in the middle of mark_to_drop]
  acOffset,   \* [call of mark_to_drop -> which cached offsets are set]
  acRuns      \* executions started

acVars == <<acPkt, acRef, acCells, acRefCells, acTemps, acThread, acOffset, acRuns>>

AcField(v) == v % 2 ^ AcBits
AcDrop == 2 ^ AcBits - 1

-----------------------------------------------------------------------------
(* Building an ActionFn.                                                   *)

EmptyFn == [prims |-> <<>>, params |-> <<>>, sub |-> <<>>, consts |-> <<>>,
            strings |-> <<>>]

\* A mutation of ExprOffset: every expression gets the first temporary.
ExprOffsetFirst(params) == 1

\* The temporary of the next expression.  Temporary 0 is for register indices.
ExprOffset(params) ==
  1 + Len(SelectSeq(params, LAMBDA p : p.tag = "expr"))

\* The pointers to strings after strings.push_back may have moved them: a
\* pointer is the position of a string and the size of the vector it is of.
Repoint(params, n) ==
  LET nth(i) == Len(SelectSeq(SubSeq(params, 1, i), LAMBDA p : p.tag = "str"))
  IN  [i \in DOMAIN params |->
        IF params[i].tag = "str" THEN [tag |-> "str", at |-> nth(i), of |-> n]
                                 ELSE params[i]]

\* parameter_push_back_*, for one argument of the JSON that is not a list.
PushScalar(fn, x) ==
  LET push(p) == [fn EXCEPT !.params = Append(@, p)]
  IN  CASE x.type = "hexstr" ->
             [push([tag |-> "const", at |-> Len(fn.consts) + 1])
               EXCEPT !.consts = Append(@, x.value)]
        [] x.type = "string" ->
             LET n == Len(fn.strings) + 1
             IN  [fn EXCEPT !.strings = Append(@, x.value),
                            !.params = Append(Repoint(@, n),
                                              [tag |-> "str", at |-> n, of |-> n])]
        [] x.type = "expression" ->
             push([tag |-> "expr", at |-> ExprOffset(fn.params), e |-> x.value])
        [] x.type = "field" -> push([tag |-> "field", f |-> x.value])
        [] x.type = "runtime_data" -> push([tag |-> "data", at |-> x.value])
        [] x.type = "register" -> push([tag |-> "reg", i |-> x.value])
        [] x.type = "register_gen" -> push([tag |-> "gen", e |-> x.value])
        [] x.type = "header" -> push([tag |-> "header", h |-> x.value])
        [] OTHER -> push([tag |-> "object", o |-> x.value])

\* parameter_start_vector / parameter_start_field_list: the two vectors trade
\* places, so that the elements are pushed to sub_params.
StartVector(fn) ==
  [fn EXCEPT !.params = fn.sub,
             !.sub = Append(fn.params, [tag |-> "vec", start |-> Len(fn.sub),
                                        end |-> Len(fn.sub)])]

\* parameter_end_vector / parameter_end_field_list.
EndVector(fn) ==
  [fn EXCEPT !.sub = fn.params,
             !.params = [fn.sub EXCEPT ![Len(fn.sub)].end = Len(fn.params)]]

PushParam(fn, x) ==
  IF x.type = "parameters_vector"
  THEN EndVector(FoldLeft(PushScalar, StartVector(fn), x.value))
  ELSE PushScalar(fn, x)

\* push_back_primitive, then the arguments (their number has been checked).
AddPrimitive(fn, call) ==
  LET off == IF fn.prims = <<>> THEN 0
             ELSE Last(fn.prims).off + Last(fn.prims).n
      new == [fn EXCEPT !.prims = Append(@, [op |-> call.op, off |-> off,
                                             n |-> Len(call.args)])]
  IN  FoldLeft(PushParam, new, call.args)

AcFns == [i \in DOMAIN AcActions |-> FoldLeft(AddPrimitive, EmptyFn, AcActions[i])]

-----------------------------------------------------------------------------
(* ActionParam::to<T>: the reference a primitive is called with.  <<"f",x>> *)
(* is a field, <<"r",i>> a register, <<"t",i>> a temporary, <<"v",x>> any   *)
(* object that the call cannot change.                                      *)

EvalExpr(e, pkt) == pkt.f[e.f] + e.k

AcDeref(ref, pkt, cells, temps) ==
  CASE ref[1] = "f" -> pkt.f[ref[2]]
    [] ref[1] = "r" -> cells[ref[2]]
    [] ref[1] = "t" -> temps[ref[2]]
    [] OTHER -> ref[2]

\* to<Header &> and the stacks and unions of the packet's PHV.
ConvertHeader(p) == <<"v", p.h>>

\* to<MeterArray &>, to<CounterArray &>, to<const NamedCalculation &>...
ConvertObject(p) == <<"v", p.o>>

\* to<Data &>, to<const Data &>, to<Field &>, to<const std::string &> or one of
\* the above, for a parameter that is not a list: the temporaries that the
\* conversion leaves, and the reference.
ConvertScalar(fn, p, data, pkt, temps) ==
  LET same(ref) == [temps |-> temps, ref |-> ref]
  IN  CASE p.tag = "const" -> same(<<"v", fn.consts[p.at]>>)
        [] p.tag = "field" -> same(<<"f", p.f>>)
        [] p.tag = "data" -> same(<<"v", data[p.at]>>)
        [] p.tag = "reg" -> same(<<"r", p.i>>)
        [] p.tag = "gen" ->
             [temps |-> [temps EXCEPT ![0] = EvalExpr(p.e, pkt)],
              ref |-> <<"r", EvalExpr(p.e, pkt)>>]
        [] p.tag = "expr" ->
             [temps |-> [i \in DOMAIN temps \cup {p.at} |->
                           IF i = p.at THEN EvalExpr(p.e, pkt) ELSE temps[i]],
              ref |-> <<"t", p.at>>]
        [] p.tag = "str" ->
             same(<<"v", IF p.of = Len(fn.strings) THEN fn.strings[p.at]
                                                   ELSE "dangling">>)
        [] p.tag = "header" -> same(ConvertHeader(p))
        [] OTHER -> same(ConvertObject(p))

\* to<const std::vector<Data>> copies the value of each element as it goes.
ConvertVector(fn, p, data, pkt, cells, temps) ==
  LET step(acc, q) ==
        LET c == ConvertScalar(fn, q, data, pkt, acc.temps)
        IN  [temps |-> c.temps,
             ref |-> <<"v", Append(acc.ref[2], AcDeref(c.ref, pkt, cells, c.temps))>>]
  IN  FoldLeft(step, [temps |-> temps, ref |-> <<"v", <<>>>>],
               SubSeq(fn.sub, p.start + 1, p.end))

\* unpack_caller::call: every argument is converted before the primitive runs,
\* so a reference to a temporary is read after all the conversions.
UnpackCall(fn, c, data, pkt, cells, temps) ==
  LET step(acc, p) ==
        LET r == IF p.tag = "vec"
                 THEN ConvertVector(fn, p, data, pkt, cells, acc.temps)
                 ELSE ConvertScalar(fn, p, data, pkt, acc.temps)
        IN  [temps |-> r.temps, refs |-> Append(acc.refs, r.ref)]
      done == FoldLeft(step, [temps |-> temps, refs |-> <<>>],
                       SubSeq(fn.params, c.off + 1, c.off + c.n))
  IN  [temps |-> done.temps,
       args |-> [i \in 1..c.n |->
                  [at |-> done.refs[i],
                   v |-> AcDeref(done.refs[i], pkt, cells, done.temps)]]]

\* What an argument of the JSON stands for, in the reference.
RECURSIVE AcMeaning(_, _, _, _)
AcMeaning(x, data, pkt, cells) ==
  LET ref == CASE x.type = "field" -> <<"f", x.value>>
               [] x.type = "register" -> <<"r", x.value>>
               [] x.type = "register_gen" -> <<"r", EvalExpr(x.value, pkt)>>
               [] x.type = "expression" -> <<"v", EvalExpr(x.value, pkt)>>
               [] x.type = "runtime_data" -> <<"v", data[x.value]>>
               [] x.type = "parameters_vector" ->
                    <<"v", [i \in DOMAIN x.value |->
                              AcMeaning(x.value[i], data, pkt, cells).v]>>
               [] OTHER -> <<"v", x.value>>
  IN  [at |-> ref, v |-> AcDeref(ref, pkt, cells, <<>>)]

-----------------------------------------------------------------------------
(* The primitives.  A machine is a packet and the register cells; a is the  *)
(* list of arguments.                                                       *)

Flags == {"session", "clist", "digest", "resubmit", "recirc"}

\* The packet register of a flag and its place there (the _REG_IDX and _SHIFT
\* constants of RegisterAccess).
FlagPlace(flag) ==
  CASE flag = "session" -> <<1, 0>> [] flag = "clist" -> <<1, 1>>
    [] flag = "digest" -> <<1, 2>> [] flag = "resubmit" -> <<1, 3>>
    [] OTHER -> <<2, 0>>

GetFlag(regs, flag) ==
  (regs[FlagPlace(flag)[1]] \div 2 ^ (FlagPlace(flag)[2] * AcFlagBits))
    % 2 ^ AcFlagBits

\* set_*: the part is cleared and the new value, cut to 16 bits, put there.
SetFlag(regs, flag, v) ==
  LET unit == 2 ^ (FlagPlace(flag)[2] * AcFlagBits)
      old == GetFlag(regs, flag)
  IN  [regs EXCEPT ![FlagPlace(flag)[1]] =
         (@ - (old * unit)) + ((v % 2 ^ AcFlagBits) * unit)]

\* The same in the reference: one value per flag.
PutFlag(flags, flag, v) == [flags EXCEPT ![flag] = v % 2 ^ AcFlagBits]

\* Data::set through a reference; a field cuts the value to its width.
Store(m, ref, v) ==
  IF ref[1] = "f" THEN [m EXCEPT !.p.f[ref[2]] = AcField(v)]
                  ELSE [m EXCEPT !.cells[ref[2]] = AcField(v)]

\* add, subtract, bit_and, bit_or, bit_xor, shift_left, shift_right.
AcArith(op, x, y) ==
  CASE op = "add" -> x + y
    [] op = "subtract" -> x - y
    [] op = "bit_and" -> x & y
    [] op = "bit_or" -> x | y
    [] op = "bit_xor" -> x ^^ y
    [] op = "shift_left" -> x * 2 ^ y
    [] OTHER -> x \div 2 ^ y
ArithOps == {"add", "subtract", "bit_and", "bit_or", "bit_xor", "shift_left",
             "shift_right"}

\* modify_field_rng_uniform: nothing is written when lo > hi; o is the draw.
RngUniform(m, a, o) ==
  IF a[2].v > a[3].v THEN m
  ELSE Store(m, a[1].at, a[2].v + (o % (a[3].v - a[2].v + 1)))

\* modify_field_with_hash_based_offset; o is the calculation's output.
HashOffset(m, a, o) ==
  Store(m, a[1].at, (o % (IF a[4].v = 0 THEN 1 ELSE a[4].v)) + a[2].v)

\* drop, and mark_to_drop once it knows the field offsets.
MarkDrop(m, group) ==
  [m EXCEPT !.p.spec = AcDrop, !.p.grp = IF group THEN 0 ELSE @]

\* add_header and remove_header keep the packet length register in step;
\* add_header_fast does not.
AddHeader(m) ==
  IF m.p.valid THEN m
  ELSE [m EXCEPT !.p.valid = TRUE, !.p.len = @ + AcHdrLen]
AddHeaderFast(m) == [m EXCEPT !.p.valid = TRUE]
RemoveHeader(m) ==
  IF m.p.valid THEN [m EXCEPT !.p.valid = FALSE, !.p.len = @ - AcHdrLen] ELSE m

\* register_read, register_write and count refuse an index out of bounds;
\* execute_meter does too, and o is the colour.
RegisterRead(m, a) ==
  IF a[3].v >= AcCells THEN m ELSE Store(m, a[1].at, m.cells[a[3].v])
RegisterWriteOp(m, a) ==
  IF a[2].v >= AcCells THEN m ELSE Store(m, <<"r", a[2].v>>, a[3].v)
CountOp(m, a) ==
  IF a[2].v >= AcCells THEN m ELSE [m EXCEPT !.p.counted = Append(@, a[2].v)]
AcExecuteMeter(m, a, o) ==
  IF a[2].v >= AcCells THEN m ELSE Store(m, a[3].at, o)

\* log_msg: the process exits when the format has not one {} per value.
LogMsg(m, a) ==
  IF a[1].v \notin DOMAIN AcHoles \/ AcHoles[a[1].v] # Len(a[2].v)
  THEN [m EXCEPT !.p.dead = TRUE]
  ELSE [m EXCEPT !.p.log = Append(@, <<a[1].v, a[2].v>>)]

\* clone_*, generate_digest, resubmit and recirculate.  The highest bit of a
\* mirror session says that there is one.  In the reference model (not packed)
\* every flag has a place of its own.
FlagOp(m, op, a, packed) ==
  LET set(flags, x, v) == IF packed THEN SetFlag(flags, x, v) ELSE PutFlag(flags, x, v)
      id == (a[1].v % 2 ^ AcFlagBits) | 2 ^ (AcFlagBits - 1)
  IN CASE op = "clone" ->
            [m EXCEPT !.p.flags = set(set(@, "session", id), "clist", a[2].v)]
       [] op = "generate_digest" -> [m EXCEPT !.p.flags = set(@, "digest", a[2].v)]
       [] op = "resubmit" -> [m EXCEPT !.p.flags = set(@, "resubmit", a[1].v)]
       [] OTHER -> [m EXCEPT !.p.flags = set(@, "recirc", a[1].v)]
FlagOps == {"clone", "generate_digest", "resubmit", "recirculate"}

Primitive(m, op, a, o, packed) ==
  CASE op \in ArithOps -> Store(m, a[1].at, AcArith(op, a[2].v, a[3].v))
    [] op = "add_to_field" -> Store(m, a[1].at, a[1].v + a[2].v)
    [] op = "subtract_from_field" -> Store(m, a[1].at, a[1].v - a[2].v)
    [] op \in {"modify_field", "assign"} -> Store(m, a[1].at, a[2].v)
    [] op = "modify_field_rng_uniform" -> RngUniform(m, a, o)
    [] op = "modify_field_with_hash_based_offset" -> HashOffset(m, a, o)
    [] op = "drop" -> MarkDrop(m, TRUE)
    [] op \in FlagOps -> FlagOp(m, op, a, packed)
    [] op = "add_header" -> AddHeader(m)
    [] op = "add_header_fast" -> AddHeaderFast(m)
    [] op = "remove_header" -> RemoveHeader(m)
    [] op = "register_read" -> RegisterRead(m, a)
    [] op = "register_write" -> RegisterWriteOp(m, a)
    [] op = "count" -> CountOp(m, a)
    [] op = "execute_meter" -> AcExecuteMeter(m, a, o)
    [] op = "truncate" -> [m EXCEPT !.p.trunc = a[1].v]
    [] op = "exit" -> [m EXCEPT !.p.exit = TRUE]
    [] op \in {"assert", "assume"} -> [m EXCEPT !.p.dead = @ \/ (a[1].v = 0)]
    [] op = "log_msg" -> LogMsg(m, a)
    [] OTHER -> m

\* get_jump_offset of the primitives; positions count from 0 in the code.
JumpOffset(op, a, idx) ==
  CASE op = "_jump" -> a[1].v + 1
    [] op = "_jump_if_zero" /\ a[1].v = 0 -> a[2].v + 1
    [] OTHER -> idx + 1

-----------------------------------------------------------------------------
(* Running actions.                                                        *)

NewPacket(flags) ==
  [f |-> [x \in {"f", "g"} |-> IF x = "f" THEN 1 ELSE 2], spec |-> 0, grp |-> 1,
   valid |-> FALSE, len |-> AcHdrLen, flags |-> flags, trunc |-> 0,
   exit |-> FALSE, dead |-> FALSE, log |-> <<>>, counted |-> <<>>]
EmptyRegs == [i \in 1..2 |-> 0]
AcIdle == [act |-> 0, data |-> <<>>, idx |-> 0, want |-> 0, half |-> FALSE]

\* Calls of mark_to_drop: each has a functor of its own, whose two cached
\* field offsets all the threads that run the action share.
DropCalls ==
  UNION {{<<i, j>> : j \in {k \in DOMAIN AcActions[i] :
                              AcActions[i][k].op = "mark_to_drop"}} :
         i \in DOMAIN AcActions}

UsesCells(i) ==
  \E j \in DOMAIN AcActions[i] :
    \/ AcActions[i][j].op \in {"register_read", "register_write"}
    \/ \E k \in DOMAIN AcActions[i][j].args :
         AcActions[i][j].args[k].type \in {"register", "register_gen"}

AcInit ==
  /\ acPkt = [t \in AcThreads |-> NewPacket(EmptyRegs)]
  /\ acRef = [t \in AcThreads |-> NewPacket([x \in Flags |-> 0])]
  /\ acCells = [i \in 0..AcCells - 1 |-> i]
  /\ acRefCells = acCells
  /\ acTemps = [t \in AcThreads |-> [i \in 0..3 |-> 0]]
  /\ acThread = [t \in AcThreads |-> AcIdle]
  /\ acOffset = [c \in DropCalls |-> "none"]
  /\ acRuns = 0

\* ActionFnEntry::operator(): the registers are locked, execute begins.
ActionBegin(t, i, data) ==
  /\ acThread[t].act = 0 /\ acRuns < AcMaxRuns
  /\ \A u \in AcThreads : ~acPkt[u].dead
  /\ ~(UsesCells(i) /\ \E u \in AcThreads : acThread[u].act # 0 /\ UsesCells(acThread[u].act))
  /\ acThread' = [acThread EXCEPT ![t] = [act |-> i, data |-> data, idx |-> 1,
                                          want |-> 1, half |-> FALSE]]
  /\ acRuns' = acRuns + 1
  /\ UNCHANGED <<acPkt, acRef, acCells, acRefCells, acTemps, acOffset>>

AcRunning(t) == acThread[t].act # 0 /\ \A u \in AcThreads : ~acPkt[u].dead
AcCall(t) == AcFns[acThread[t].act].prims[acThread[t].idx]

\* One round of the loop of ActionFnEntry::execute, for any primitive but
\* mark_to_drop.  o is what a random draw, a hash or a meter yields.
ExecuteCall(t, o) ==
  /\ AcRunning(t) /\ acThread[t].idx <= Len(AcFns[acThread[t].act].prims)
  /\ AcCall(t).op # "mark_to_drop"
  /\ LET th == acThread[t]
         call == AcActions[th.act][th.idx]
         u == UnpackCall(AcFns[th.act], AcCall(t), th.data, acPkt[t], acCells, acTemps[t])
         m == Primitive([p |-> acPkt[t], cells |-> acCells], call.op, u.args, o, TRUE)
         a == [i \in DOMAIN call.args |->
                 AcMeaning(call.args[i], th.data, acRef[t], acRefCells)]
         r == Primitive([p |-> acRef[t], cells |-> acRefCells], call.op, a, o, FALSE)
     IN  /\ acPkt' = [acPkt EXCEPT ![t] = m.p] /\ acCells' = m.cells
         /\ acRef' = [acRef EXCEPT ![t] = r.p] /\ acRefCells' = r.cells
         /\ acTemps' = [acTemps EXCEPT ![t] = u.temps]
         /\ acThread' = [acThread EXCEPT ![t].idx = JumpOffset(call.op, u.args, @),
                                         ![t].want = JumpOffset(call.op, a, @)]
  /\ UNCHANGED <<acOffset, acRuns>>

AcDropRef(t) == [acRef EXCEPT ![t] = MarkDrop([p |-> acRef[t]], TRUE).p]

\* mark_to_drop on a functor that has no offsets yet: the first is stored,
\* then the second, and another thread may run the functor in between.
DropLookup(t) ==
  LET c == <<acThread[t].act, acThread[t].idx>>
  IN  /\ AcRunning(t) /\ c \in DropCalls /\ ~acThread[t].half
      /\ acOffset[c] = "none"
      /\ acOffset' = [acOffset EXCEPT ![c] = "spec"]
      /\ acThread' = [acThread EXCEPT ![t].half = TRUE]
      /\ UNCHANGED <<acPkt, acRef, acCells, acRefCells, acTemps, acRuns>>

\* The rest of mark_to_drop: mcast_grp is cleared if its offset is known.
DropWrite(t) ==
  LET c == <<acThread[t].act, acThread[t].idx>>
      known == acThread[t].half \/ acOffset[c] = "both"
  IN  /\ AcRunning(t) /\ c \in DropCalls
      /\ acThread[t].half \/ acOffset[c] # "none"
      /\ acOffset' = IF acThread[t].half THEN [acOffset EXCEPT ![c] = "both"]
                                         ELSE acOffset
      /\ acPkt' = [acPkt EXCEPT ![t] = MarkDrop([p |-> @], known).p]
      /\ acRef' = AcDropRef(t)
      /\ acThread' = [acThread EXCEPT ![t].half = FALSE, ![t].idx = @ + 1,
                                      ![t].want = @ + 1]
      /\ UNCHANGED <<acCells, acRefCells, acTemps, acRuns>>

\* The end of the loop; the register locks go out of scope.
ActionReturns(t) ==
  /\ AcRunning(t) /\ acThread[t].idx > Len(AcFns[acThread[t].act].prims)
  /\ acThread' = [acThread EXCEPT ![t] = AcIdle]
  /\ UNCHANGED <<acPkt, acRef, acCells, acRefCells, acTemps, acOffset, acRuns>>

AcNext ==
  \E t \in AcThreads :
    \/ \E i \in DOMAIN AcActions, d \in AcDatas : ActionBegin(t, i, d)
    \/ \E o \in 0..2 : ExecuteCall(t, o)
    \/ DropLookup(t) \/ DropWrite(t) \/ ActionReturns(t)

AcSpec == AcInit /\ [][AcNext]_acVars

-----------------------------------------------------------------------------
AcTypeOK ==
  /\ acRuns \in 0..AcMaxRuns
  /\ \A t \in AcThreads :
       /\ acThread[t].act \in 0..Len(AcActions) /\ acThread[t].half \in BOOLEAN
       /\ acPkt[t].f \in [{"f", "g"} -> 0..2 ^ AcBits - 1]
       /\ acPkt[t].flags \in [1..2 -> Nat] /\ 0..3 \subseteq DOMAIN acTemps[t]
  /\ acCells \in [0..AcCells - 1 -> 0..2 ^ AcBits - 1]
  /\ acOffset \in [DropCalls -> {"none", "spec", "both"}]

\* An action does what its JSON says: however its arguments are laid out in
\* the vectors of the ActionFn, whichever temporaries, strings and packet
\* registers they pass through and whatever the other threads run, the packet
\* and the registers are those of the calls executed on their own arguments.
\* (All but the multicast group, for which mark_to_drop has a race: README.)
ActionDoesAsWritten ==
  /\ acCells = acRefCells
  /\ \A t \in AcThreads :
       /\ acThread[t].idx = acThread[t].want
       /\ \A x \in Flags : GetFlag(acPkt[t].flags, x) = acRef[t].flags[x]
       /\ [acPkt[t] EXCEPT !.flags = 0, !.grp = 0]
            = [acRef[t] EXCEPT !.flags = 0, !.grp = 0]

=============================================================================
