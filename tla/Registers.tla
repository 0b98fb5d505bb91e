----------------------------- MODULE Registers -----------------------------
(***************************************************************************)
(* Register arrays and the execution of actions: stateful.h, stateful.cpp, *)
(* actions.cpp, and the register requests of context.cpp.                  *)
(*                                                                         *)
(* An action is a list of primitives with their parameters.  Building it   *)
(* collects in register_sync every array its parameters refer to; running  *)
(* it takes the mutexes of all of them, executes the primitives one after  *)
(* the other with their jumps, and gives the mutexes back.  Packet threads *)
(* and the threads of the runtime server interleave between any two        *)
(* primitives.                                                             *)
(***************************************************************************)
EXTENDS Naturals, FiniteSets, Sequences

CONSTANTS
  RgThreads,      \* packet threads
  RgArrays,       \* register arrays (each with one register)
  RgActions,      \* the actions: sequences of primitives, see below
  RgBits,         \* bitwidth of the registers
  RgRuns          \* bound on the actions a thread executes

\* A primitive: [op, array, via, target].  op is "load" (the register into a
\* temporary), "store" (the temporary plus one into the register), "jump_if_zero"
\* (on the temporary) or "jump".  via says how the parameter names the array:
\* "ref" (a register or a register array) or "expr" (inside an expression).

\* Loads and stores name an array; a jump past the last primitive ends the action.
ASSUME RgAssumption ==
  /\ 2 ^ RgBits \in Nat \ {0} /\ RgRuns \in Nat /\ "free" \notin RgThreads
  /\ \A act \in RgActions :
       /\ act \in Seq({act[i] : i \in 1..Len(act)})
       /\ \A i \in 1..Len(act) :
            /\ act[i].op \in {"load", "store"} => act[i].array \in RgArrays
            /\ act[i].op \in {"jump", "jump_if_zero"} => act[i].target \in Nat \ {0}

VARIABLES
  rgValue,        \* the value of each register
  rgOwner,        \* who holds the mutex of each array
  rgThread        \* [act, idx, tmp, left] of each packet thread

rgVars == <<rgValue, rgOwner, rgThread>>

RgFree == "free"
RgIdle == [act |-> <<>>, idx |-> 0, tmp |-> 0, left |-> RgRuns]

RgInit ==
  /\ rgValue = [a \in RgArrays |-> 0]
  /\ rgOwner = [a \in RgArrays |-> RgFree]
  /\ rgThread = [t \in RgThreads |-> RgIdle]

\* A mutation of RegisterSync: the arrays read by expressions are not grabbed.
RegisterSyncRefsOnly(act) ==
  {act[i].array : i \in {i \in 1..Len(act) : act[i].op \in {"load", "store"}
                                             /\ act[i].via = "ref"}}

\* register_sync: parameter_push_back_register_ref, _register_gen and
\* _register_array add their array; expressions add those they read.
RegisterSync(act) ==
  {act[i].array : i \in {i \in 1..Len(act) : act[i].op \in {"load", "store"}}}

\* ActionFnEntry::operator(): boost::lock takes all the mutexes or none.
ActionLock(t, act) ==
  /\ rgThread[t].idx = 0 /\ rgThread[t].left > 0
  /\ \A a \in RegisterSync(act) : rgOwner[a] = RgFree
  /\ rgOwner' = [a \in RgArrays |-> IF a \in RegisterSync(act) THEN t
                                    ELSE rgOwner[a]]
  /\ rgThread' = [rgThread EXCEPT ![t] =
                    [act |-> act, idx |-> 1, tmp |-> 0, left |-> @.left - 1]]
  /\ UNCHANGED rgValue

\* get_jump_offset of the primitive at idx.
NextIdx(prim, idx, tmp) ==
  CASE prim.op = "jump" -> prim.target
    [] prim.op = "jump_if_zero" -> IF tmp = 0 THEN prim.target ELSE idx + 1
    [] OTHER -> idx + 1

\* Register::export_bytes masks what is stored to the width of the register.
Masked(v) == v % (2 ^ RgBits)

\* One turn of the loop of ActionFnEntry::execute.
ExecutePrimitive(t) ==
  LET act == rgThread[t].act
      idx == rgThread[t].idx
      prim == act[idx]
  IN /\ idx \in 1..Len(act)
     /\ rgThread' = [rgThread EXCEPT
          ![t].idx = NextIdx(prim, idx, rgThread[t].tmp),
          ![t].tmp = IF prim.op = "load" THEN rgValue[prim.array] ELSE @]
     /\ rgValue' = IF prim.op = "store"
                   THEN [rgValue EXCEPT ![prim.array] = Masked(rgThread[t].tmp + 1)]
                   ELSE rgValue
     /\ UNCHANGED rgOwner

\* The end of the loop; the destructor of RegisterLocks releases the mutexes.
ActionUnlock(t) ==
  /\ rgThread[t].idx > Len(rgThread[t].act)
  /\ rgOwner' = [a \in RgArrays |-> IF rgOwner[a] = t THEN RgFree ELSE rgOwner[a]]
  /\ rgThread' = [rgThread EXCEPT ![t] = [RgIdle EXCEPT !.left = rgThread[t].left]]
  /\ UNCHANGED rgValue

\* Context::register_write and register_write_range, under the array's mutex.
RegisterWrite(a, v) ==
  /\ rgOwner[a] = RgFree
  /\ rgValue' = [rgValue EXCEPT ![a] = Masked(v)]
  /\ UNCHANGED <<rgOwner, rgThread>>

\* RegisterArray::reset_state: `auto lock = UniqueLock();' makes a lock of no
\* mutex, so the new registers are swapped in whoever holds the array's mutex.
RegisterReset(a) ==
  /\ rgValue' = [rgValue EXCEPT ![a] = 0]
  /\ UNCHANGED <<rgOwner, rgThread>>

RgNext ==
  \/ \E t \in RgThreads : ExecutePrimitive(t) \/ ActionUnlock(t)
  \/ \E t \in RgThreads, act \in RgActions : ActionLock(t, act)
  \/ \E a \in RgArrays, v \in 0..2 ^ RgBits : RegisterWrite(a, v)
  \/ \E a \in RgArrays : RegisterReset(a)

RgSpec == RgInit /\ [][RgNext]_rgVars

-----------------------------------------------------------------------------
RgTypeOK ==
  /\ rgValue \in [RgArrays -> 0..2 ^ RgBits - 1]
  /\ rgOwner \in [RgArrays -> RgThreads \cup {RgFree}]
  /\ \A t \in RgThreads : rgThread[t].act \in RgActions \cup {<<>>}

\* While an action runs, a register it refers to changes only by its own
\* primitives ("this action is given exclusive access to all the registers it
\* is referring to", stateful.h RegisterSync), or is zeroed by reset_state,
\* which does not take the mutex.
ExclusiveAccess ==
  \/ \E a \in RgArrays : RegisterReset(a)
  \/ \A t \in RgThreads :
     rgThread[t].idx # 0 /\ rgThread'[t] = rgThread[t] =>
       \A i \in 1..Len(rgThread[t].act) :
         LET prim == rgThread[t].act[i]
         IN prim.op \in {"load", "store"} =>
              rgValue'[prim.array] = rgValue[prim.array]

\* No other action changes a register an action in progress refers to (stateful.h).
RegistersExclusive == [][RgTypeOK' /\ ExclusiveAccess]_rgVars

-----------------------------------------------------------------------------
(* The inductive invariant behind RegistersExclusive.                      *)

\* A running action holds the mutexes of all the arrays it refers to.
RgInv ==
  /\ RgTypeOK
  /\ rgThread \in [RgThreads -> [act : RgActions \cup {<<>>}, idx : Nat,
                                 tmp : 0..2 ^ RgBits - 1, left : Nat]]
  /\ \A t \in RgThreads :
       rgThread[t].idx # 0 => /\ rgThread[t].act \in RgActions
                              /\ \A a \in RegisterSync(rgThread[t].act) : rgOwner[a] = t
=============================================================================
