---------------------------- MODULE Expressions ----------------------------
(***************************************************************************)
(* Expressions: P4Objects::build_expression turns the tree of the JSON file *)
(* into a sequence of operations, expressions.cpp gives every operation    *)
(* that computes a new value a temporary register and evaluates the        *)
(* sequence with one stack for each type of value.  The stack of data      *)
(* holds pointers: to fields, constants and registers.                     *)
(*                                                                         *)
(* A tree is a record: its operation, an integer argument (the value of a  *)
(* constant, the number of a header, stack, union, local or register       *)
(* array, a member offset) and its subtrees.                               *)
(***************************************************************************)
EXTENDS Integers, Sequences, FiniteSets
LOCAL INSTANCE SequencesExt
LOCAL INSTANCE FiniteSetsExt
LOCAL INSTANCE Bitwise

CONSTANTS
  ExTrees,        \* the trees to build and evaluate
  ExHeaders,      \* the headers of the PHV: [valid, field]
  ExStacks,       \* the header stacks: [of: numbers of the elements, count]
  ExUnions,       \* the unions: [of: numbers of the headers, valid: 0 or index]
  ExLocals,       \* the values of the runtime data
  ExArrays        \* the register arrays

VARIABLES
  exTree,         \* the tree, or NoTree
  exOps,          \* the operations: [op, arg, dest]
  exPc,           \* the next operation
  exTemps,        \* the stacks of ExpressionTemps
  exRegs,         \* data_temps
  exFault         \* a value was popped off an empty stack

exVars == <<exTree, exOps, exPc, exTemps, exRegs, exFault>>

NoTree == [op |-> "none", arg |-> 0, kids |-> <<>>]
Types == {"data", "bool", "header", "stack", "union"}
StaleValue == 7
NoTemps == [ty \in Types |-> <<>>]

ExInit ==
  /\ exTree = NoTree /\ exOps = <<>> /\ exPc = 1
  /\ exTemps = NoTemps /\ exFault = FALSE
  /\ exRegs = [i \in 0..3 |-> StaleValue]

-----------------------------------------------------------------------------
\* What an operation pops and what it pushes.
DataLoads == {"load_field", "load_const", "load_local", "load_register_ref", "load_last"}
Arith == {"+", "-", "%", "/", "*", "<<", ">>", "&", "|", "^",
          "two_comp_mod", "usat_cast", "sat_cast"}
Compare == {"==", "!=", ">", "<", ">=", "<="}

Pops(op) ==
  CASE op \in Arith \cup Compare -> <<"data", "data">>
    [] op \in {"~", "d2b", "load_register_gen"} -> <<"data">>
    [] op \in {"and", "or", "==b", "!=b"} -> <<"bool", "bool">>
    [] op \in {"not", "b2d"} -> <<"bool">>
    [] op \in {"==h", "!=h"} -> <<"header", "header">>
    [] op \in {"valid", "access_field"} -> <<"header">>
    [] op \in {"==u", "!=u"} -> <<"union", "union">>
    [] op \in {"valid_union", "access_union_header"} -> <<"union">>
    [] op \in {"dereference_header_stack", "dereference_union_stack"} -> <<"stack", "data">>
    [] op \in {"size_stack", "last_stack_index"} -> <<"stack">>
    [] OTHER -> <<>>

\* ExprOpcodesUtils::get_opcode_type.
OpcodeType(op) ==
  CASE op \in DataLoads \cup Arith \cup {"~", "b2d", "load_register_gen", "access_field",
                 "size_stack", "last_stack_index"} -> "data"
    [] op \in {"load_header", "dereference_header_stack", "access_union_header"} -> "header"
    [] op = "load_stack" -> "stack"
    [] op \in {"load_union", "dereference_union_stack"} -> "union"
    [] OTHER -> "bool"

\* The operations that compute into a register.
Dests == Arith \cup {"~", "b2d", "size_stack", "last_stack_index"}

-----------------------------------------------------------------------------
\* The type of a tree; a ternary has the type of its branches.
RECURSIVE TypeOfTree(_)
TypeOfTree(tree) ==
  IF tree.op = "?" THEN TypeOfTree(tree.kids[2]) ELSE OpcodeType(tree.op)

Instr(op, arg) == [op |-> op, arg |-> arg, dest |-> 0]

\* A mutation of PushTernary: the first skip forgets the second one.
PushTernaryShort(cond, left, right) ==
  cond \o <<Instr("?", 0), Instr("skip", Len(left))>> \o left
       \o <<Instr("skip", Len(right))>> \o right

\* Expression::push_back_ternary_op, append_expression.
PushTernary(cond, left, right) ==
  cond \o <<Instr("?", 0), Instr("skip", Len(left) + 1)>> \o left
       \o <<Instr("skip", Len(right))>> \o right

\* get_eq_opcode, get_neq_opcode.
EqOpcode(op, type) ==
  CASE type = "data" -> op
    [] type = "bool" -> IF op = "==" THEN "==b" ELSE "!=b"
    [] type = "header" -> IF op = "==" THEN "==h" ELSE "!=h"
    [] type = "union" -> IF op = "==" THEN "==u" ELSE "!=u"

\* P4Objects::build_expression.  A unary minus loads 0 first; the member of a
\* union is pushed with push_back_access_field.
RECURSIVE Build(_)
Build(tree) ==
  LET kid(i) == Build(tree.kids[i])
      kids == FlattenSeq([i \in 1..Len(tree.kids) |-> kid(i)])
  IN CASE tree.op = "?" -> PushTernary(kid(1), kid(2), kid(3))
       [] tree.op \in {"==", "!="} ->
            Append(kids, Instr(EqOpcode(tree.op, TypeOfTree(tree.kids[1])), 0))
       [] tree.op = "access_union_header" -> Append(kids, Instr("access_field", tree.arg))
       [] tree.op = "-" /\ Len(tree.kids) = 1 ->
            <<Instr("load_const", 0)>> \o kids \o <<Instr("-", 0)>>
       [] OTHER -> Append(kids, Instr(tree.op, tree.arg))

\* Expression::assign_dest_registers: how many values the operation takes off
\* new_registers, and what it adds to it.
Frees(op) ==
  CASE op \in Arith \cup Compare -> 2
    [] op \in {"~", "d2b", "load_register_gen",
               "dereference_header_stack", "dereference_union_stack"} -> 1
    [] OTHER -> 0
Adds(op) ==
  CASE op \in Dests -> <<1>>
    [] op \in DataLoads \cup {"access_field", "load_register_gen"} -> <<0>>
    [] OTHER -> <<>>

Total(s) == FoldSeq(LAMBDA x, n : x + n, 0, s)

AssignOne(acc, op) ==
  LET left == SubSeq(acc.new, 1, Len(acc.new) - Frees(op.op))
      curr == acc.curr - Total(SubSeq(acc.new, Len(left) + 1, Len(acc.new)))
  IN [ops |-> Append(acc.ops, [op EXCEPT !.dest = curr]),
      new |-> left \o Adds(op.op),
      curr |-> curr + Total(Adds(op.op))]

AssignDest(ops) ==
  FoldLeft(AssignOne, [ops |-> <<>>, new |-> <<>>, curr |-> 0], ops).ops

-----------------------------------------------------------------------------
\* Data: the arithmetic.  min and max of a signed value of w bits.
SMax(w) == 2 ^ (w - 1) - 1
SMin(w) == - (2 ^ (w - 1))

\* Data::two_comp_mod; the mask of a Bignum is a remainder.
TwoCompMod(x, w) ==
  IF x < SMin(w) \/ x > SMax(w)
  THEN LET v == x % 2 ^ w IN IF v > SMax(w) THEN v - 2 ^ w ELSE v
  ELSE x

USatCast(x, w) ==
  CASE x > 2 ^ w - 1 -> 2 ^ w - 1 [] x < 0 -> 0 [] OTHER -> x
SatCast(x, w) ==
  CASE x > SMax(w) -> SMax(w) [] x < SMin(w) -> SMin(w) [] OTHER -> x

DataOp(op, l, r) ==
  CASE op = "+" -> l + r [] op = "-" -> l - r [] op = "*" -> l * r
    [] op = "%" -> l % r [] op = "/" -> l \div r
    [] op = "<<" -> l * 2 ^ r [] op = ">>" -> l \div 2 ^ r
    [] op = "&" -> l & r [] op = "|" -> l | r [] op = "^" -> l ^^ r
    [] op = "two_comp_mod" -> TwoCompMod(l, r)
    [] op = "usat_cast" -> USatCast(l, r)
    [] op = "sat_cast" -> SatCast(l, r)

CompareOp(op, l, r) ==
  CASE op = "==" -> l = r [] op = "!=" -> l # r [] op = ">" -> l > r
    [] op = "<" -> l < r [] op = ">=" -> l >= r [] op = "<=" -> l <= r

\* Header::cmp and HeaderUnion::cmp.
HeaderCmp(g, h) ==
  ExHeaders[g].valid /\ ExHeaders[h].valid /\ ExHeaders[g].field = ExHeaders[h].field
UnionCmp(u, v) ==
  LET i == ExUnions[u].valid
  IN i # 0 /\ i = ExUnions[v].valid /\ HeaderCmp(ExUnions[u].of[i], ExUnions[v].of[i])

\* The value an operation pushes, from the values it pops.
Value(op, arg, a) ==
  CASE op \in {"load_const", "load_bool", "load_header", "load_stack", "load_union"} -> arg
    [] op = "load_field" -> ExHeaders[arg].field
    [] op = "load_local" -> ExLocals[arg]
    [] op = "load_last" -> ExHeaders[ExStacks[arg].of[ExStacks[arg].count]].field
    [] op = "load_register_ref" -> ExArrays[arg][1]
    [] op = "load_register_gen" -> ExArrays[arg][a[1] + 1]
    [] op = "access_field" -> ExHeaders[a[1]].field
    [] op = "access_union_header" -> ExUnions[a[1]].of[arg]
    [] op \in {"dereference_header_stack", "dereference_union_stack"} ->
         ExStacks[a[1]].of[a[2] + 1]
    [] op = "size_stack" -> ExStacks[a[1]].count
    [] op = "last_stack_index" -> ExStacks[a[1]].count - 1
    [] op \in Arith -> DataOp(op, a[1], a[2])
    [] op = "~" -> - a[1] - 1
    [] op = "b2d" -> a[1]
    [] OTHER -> IF (CASE op \in Compare -> CompareOp(op, a[1], a[2])
                      [] op = "==b" -> a[1] = a[2] [] op = "!=b" -> a[1] # a[2]
                      [] op = "and" -> a[1] * a[2] = 1 [] op = "or" -> a[1] + a[2] > 0
                      [] op = "not" -> a[1] = 0 [] op = "d2b" -> a[1] # 0
                      [] op = "==h" -> HeaderCmp(a[1], a[2])
                      [] op = "!=h" -> ~HeaderCmp(a[1], a[2])
                      [] op = "==u" -> UnionCmp(a[1], a[2])
                      [] op = "!=u" -> ~UnionCmp(a[1], a[2])
                      [] op = "valid" -> ExHeaders[a[1]].valid
                      [] op = "valid_union" -> ExUnions[a[1]].valid # 0) THEN 1 ELSE 0

-----------------------------------------------------------------------------
\* A data pointer: a register, or a value that does not change meanwhile.
Register(i) == [reg |-> i, val |-> 0]
Constant(v) == [reg |-> -1, val |-> v]
Deref(p) == IF p.reg = -1 THEN p.val ELSE exRegs[p.reg]

\* Popping the operands, the last one first.
PopAll(temps, types) ==
  FoldRight(LAMBDA ty, acc :
              IF acc.temps[ty] = <<>> THEN [acc EXCEPT !.ok = FALSE]
              ELSE [acc EXCEPT !.args = <<Last(acc.temps[ty])>> \o @,
                               !.temps[ty] = Front(@)],
            types, [temps |-> temps, args |-> <<>>, ok |-> TRUE])

\* Expression::build, then eval_ prepares the temporaries: the stacks are empty
\* and the registers hold what the evaluations before left in them.
Begin ==
  /\ exTree = NoTree
  /\ \E tree \in ExTrees : exTree' = tree /\ exOps' = AssignDest(Build(tree))
  /\ exPc' = 1
  /\ UNCHANGED <<exTemps, exRegs, exFault>>

\* One operation of the loop of Expression::eval_.
EvalOp ==
  LET o == exOps[exPc]
      popped == PopAll(exTemps, Pops(o.op))
      args == [i \in 1..Len(popped.args) |->
                IF Pops(o.op)[i] = "data" THEN Deref(popped.args[i]) ELSE popped.args[i]]
      ty == OpcodeType(o.op)
      v == Value(o.op, o.arg, args)
      top == CASE o.op \in Dests -> Register(o.dest)
               [] ty = "data" /\ o.op \notin Dests -> Constant(v)
               [] OTHER -> v
  IN /\ exPc \in 1..Len(exOps) /\ ~exFault
     /\ o.op \notin {"?", "skip"}
     /\ IF ~popped.ok
        THEN exFault' = TRUE /\ UNCHANGED <<exTemps, exRegs, exPc>>
        ELSE /\ exTemps' = [popped.temps EXCEPT ![ty] = Append(@, top)]
             /\ exRegs' = IF o.op \in Dests THEN [exRegs EXCEPT ![o.dest] = v] ELSE exRegs
             /\ exPc' = exPc + 1
             /\ UNCHANGED exFault
     /\ UNCHANGED <<exTree, exOps>>

\* TERNARY_OP leaps over the skip when the condition holds.
EvalTernary ==
  /\ exPc \in 1..Len(exOps) /\ ~exFault
  /\ exOps[exPc].op = "?"
  /\ exPc' = exPc + (IF Last(exTemps["bool"]) = 1 THEN 2 ELSE 1)
  /\ exTemps' = [exTemps EXCEPT !["bool"] = Front(@)]
  /\ UNCHANGED <<exTree, exOps, exRegs, exFault>>

EvalSkip ==
  /\ exPc \in 1..Len(exOps) /\ ~exFault
  /\ exOps[exPc].op = "skip"
  /\ exPc' = exPc + exOps[exPc].arg + 1
  /\ UNCHANGED <<exTree, exOps, exTemps, exRegs, exFault>>

\* eval_bool, eval_arith, eval_header...: the value left on the stack of the type.
EvalResult(ty) ==
  CASE exOps = <<>> -> 0
    [] ty = "data" -> Deref(Last(exTemps[ty]))
    [] OTHER -> Last(exTemps[ty])

ExNext == Begin \/ EvalOp \/ EvalTernary \/ EvalSkip

ExSpec == ExInit /\ [][ExNext]_exVars

-----------------------------------------------------------------------------
\* What the casts are meant to be.
Signed(x, w) == CHOOSE y \in SMin(w)..SMax(w) : (y - x) % 2 ^ w = 0
Clamp(x, lo, hi) == Max({lo, Min({x, hi})})

\* What a tree means: only the branch that is chosen counts.
RECURSIVE Meaning(_)
Meaning(tree) ==
  LET kid(i) == Meaning(tree.kids[i])
      kids == [i \in 1..Len(tree.kids) |-> kid(i)]
  IN CASE tree.op = "?" -> IF kid(1) = 1 THEN kid(2) ELSE kid(3)
       [] tree.op \in {"==", "!="} ->
            Value(EqOpcode(tree.op, TypeOfTree(tree.kids[1])), 0, kids)
       [] tree.op = "-" /\ Len(tree.kids) = 1 -> - kid(1)
       [] tree.op = "two_comp_mod" -> Signed(kid(1), kid(2))
       [] tree.op = "usat_cast" -> Clamp(kid(1), 0, 2 ^ kid(2) - 1)
       [] tree.op = "sat_cast" -> Clamp(kid(1), SMin(kid(2)), SMax(kid(2)))
       [] OTHER -> Value(tree.op, tree.arg, kids)

ExTypeOK ==
  /\ exPc \in 1..Len(exOps) + 1
  /\ exFault \in BOOLEAN

\* When the operations of a tree have run, one value is left, of the type of the
\* tree, and it is what the tree means: no register was written while its old
\* value was still needed, and only one branch of every ternary was evaluated
\* ("nothing special needs to be done here", Expression::assign_dest_registers).
EvalIsMeaning ==
  exTree # NoTree /\ exPc = Len(exOps) + 1 =>
    LET ty == TypeOfTree(exTree)
    IN /\ \A other \in Types : Len(exTemps[other]) = (IF other = ty THEN 1 ELSE 0)
       /\ EvalResult(ty) = Meaning(exTree)

=============================================================================
