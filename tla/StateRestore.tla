---------------------------- MODULE StateRestore ----------------------------
(***************************************************************************)
(* The life of one HandleMgr across a restart: entries are added and       *)
(* deleted, the state is saved (serialize_ writes every live handle in     *)
(* increasing order) and a new process restores it, one set_handle per     *)
(* saved handle (MatchUnitGeneric::deserialize_, ActionProfile's too).     *)
(***************************************************************************)
EXTENDS HandleMgr, FiniteSets

CONSTANT MaxHandles    \* bound on the handles in use at once

VARIABLES
  handles,     \* the HandleMgr
  pending,     \* handles of the saved state not yet restored
  given        \* history: the handles the clients hold, with the number of
               \* clients each was given to

vars == <<handles, pending, given>>

Init ==
  /\ handles = NewMgr
  /\ pending = {}
  /\ given = [h \in 0..MaxHandles |-> 0]

Add ==
  /\ pending = {}
  /\ Cardinality(handles.set) < MaxHandles
  /\ given[handles.first_unset] < 2
  /\ handles' = GetHandle(handles)
  /\ given' = [given EXCEPT ![handles.first_unset] = @ + 1]
  /\ UNCHANGED pending

Delete(h) ==
  /\ pending = {}
  /\ ValidHandle(handles, h)
  /\ handles' = ReleaseHandle(handles, h)
  /\ given' = [given EXCEPT ![h] = 0]
  /\ UNCHANGED pending

Restart ==
  /\ pending = {}
  /\ pending' = handles.set
  /\ handles' = NewMgr
  /\ UNCHANGED given

RestoreOne ==
  /\ pending # {}
  /\ LET h == CHOOSE i \in pending : \A j \in pending : i <= j
     IN  /\ handles' = SetHandle(handles, h)
         /\ pending' = pending \ {h}
  /\ UNCHANGED given

Next == Add \/ (\E h \in 0..MaxHandles : Delete(h)) \/ Restart \/ RestoreOne

Spec == Init /\ [][Next]_vars

\* set_handle keeps first_unset up to date, as HandleMgrTest's
\* FirstUnsetUpdateSetHandle says it does: a handle given out is not the
\* handle of an entry that is still there.
HandlesUnique == \A h \in 0..MaxHandles : given[h] <= 1
=============================================================================
