------------------------------ MODULE RateQueue ------------------------------
(***************************************************************************)
(* QueueingLogicPriRL of queueing.h, the egress buffers of the switches    *)
(* (with one priority: QueueingLogicRL): logical queues with priorities, a *)
(* capacity and a rate for each, on the priority queues of one worker.  A  *)
(* push to a full queue is dropped; every element gets the time at which   *)
(* it may leave.  The clock is the system's: it may be set back.           *)
(* BlockingQueue is extended for what is said of both kinds of queues.     *)
(***************************************************************************)
EXTENDS BlockingQueue, FiniteSetsExt

CONSTANTS
  RqQueues, RqPriorities,  \* the logical queues; priorities 0, 1, ...
  RqCapacity,              \* the capacity given to the constructor
  RqCapacities, RqDelays,  \* what set_capacity and set_rate set later
  RqMaxTime,               \* bound: the clock
  RqMaxPush, RqMaxSets     \* bounds: the number of calls

ASSUME RqAssumption ==
  /\ RqPriorities \in Nat \ {0} /\ RqCapacity \in Nat
  /\ RqCapacities \subseteq Nat /\ RqDelays \subseteq Nat /\ RqMaxTime \in Nat

VARIABLES
  rqNow,          \* the clock
  rqElems,        \* the elements of the worker's queues: [queue, pri, send, id]
  rqInfo,         \* queues_info: queue -> (priority -> [size, capacity, delay, last])
  rqDefault,      \* capacity and rate of a queue that does not exist yet
  rqWorker,       \* pop_back: "idle", "pop", "wait" (for a push), "until"
  rqUntil,        \* the time the worker waits until
  rqPopped,       \* the id each queue and priority gave out last (history)
  rqCount         \* [push, set]

rqVars == <<rqNow, rqElems, rqInfo, rqDefault, rqWorker, rqUntil, rqPopped, rqCount>>

RqPris == 0..RqPriorities - 1

RqInit ==
  /\ rqNow = 0 /\ rqElems = {} /\ rqInfo = <<>>
  /\ rqDefault = [capacity |-> RqCapacity, delay |-> 0]
  /\ rqWorker = "idle" /\ rqUntil = 0
  /\ rqPopped = [q \in RqQueues |-> [p \in RqPris |-> 0]]
  /\ rqCount = [push |-> 0, set |-> 0]

\* get_queue: a queue is created when it is first named, as one that has just
\* sent something.
RqGet(q) ==
  IF q \in DOMAIN rqInfo THEN rqInfo[q]
  ELSE [p \in RqPris |-> [size |-> 0, capacity |-> rqDefault.capacity,
                          delay |-> rqDefault.delay, last |-> rqNow]]
RqPut(q, info) == [r \in DOMAIN rqInfo \cup {q} |-> IF r = q THEN info ELSE rqInfo[r]]

\* get_next_tp: not before now, and a packet's delay after the one before it.
RqNextTp(info) == LET next == info.last + info.delay IN IF rqNow > next THEN rqNow ELSE next

\* QEComp: the order in a priority queue; the id decides between equal times.
RqBefore(a, b) == a.send < b.send \/ (a.send = b.send /\ a.id < b.id)
RqTop(pri) ==
  CHOOSE e \in rqElems : e.pri = pri /\ \A f \in rqElems : f.pri = pri /\ f # e => RqBefore(e, f)

\* push_front: 0 for a full queue; the worker is notified.
RqPush(q, pri) ==
  LET info == RqGet(q)
      send == RqNextTp(info[pri])
  IN /\ rqCount.push < RqMaxPush /\ rqCount' = [rqCount EXCEPT !.push = @ + 1]
     /\ IF info[pri].size >= info[pri].capacity
        THEN rqInfo' = RqPut(q, info) /\ UNCHANGED <<rqElems, rqWorker>>
        ELSE /\ rqElems' = rqElems \cup
                  {[queue |-> q, pri |-> pri, send |-> send, id |-> rqCount.push + 1]}
             /\ rqInfo' = RqPut(q, [info EXCEPT ![pri].size = @ + 1, ![pri].last = send])
             /\ rqWorker' = IF rqWorker = "idle" THEN "idle" ELSE "pop"
     /\ UNCHANGED <<rqNow, rqDefault, rqUntil, rqPopped>>

RqCallPop ==
  /\ rqWorker = "idle" /\ rqWorker' = "pop"
  /\ UNCHANGED <<rqNow, rqElems, rqInfo, rqDefault, rqUntil, rqPopped, rqCount>>

\* The priorities whose first element may leave.
RqEligible == {e.pri : e \in {f \in rqElems : f = RqTop(f.pri) /\ f.send <= rqNow}}

\* pop_back: the highest priority whose first element may leave; otherwise it
\* waits for a push, or until the first element of some priority may leave.
RqPop ==
  /\ rqWorker = "pop"
  /\ \/ /\ rqElems = {}
        /\ rqWorker' = "wait" /\ UNCHANGED <<rqElems, rqInfo, rqUntil, rqPopped>>
     \/ /\ rqElems # {} /\ RqEligible = {}
        /\ rqWorker' = "until" /\ rqUntil' = Min({e.send : e \in rqElems})
        /\ UNCHANGED <<rqElems, rqInfo, rqPopped>>
     \/ /\ RqEligible # {}
        /\ LET e == RqTop(Max(RqEligible))
           IN /\ rqElems' = rqElems \ {e}
              /\ rqInfo' = [rqInfo EXCEPT ![e.queue][e.pri].size = @ - 1]
              /\ rqPopped' = [rqPopped EXCEPT ![e.queue][e.pri] = e.id]
        /\ rqWorker' = "idle" /\ UNCHANGED rqUntil
  /\ UNCHANGED <<rqNow, rqDefault, rqCount>>

\* wait_until is over.
RqTimeout ==
  /\ rqWorker = "until" /\ rqNow >= rqUntil
  /\ rqWorker' = "pop"
  /\ UNCHANGED <<rqNow, rqElems, rqInfo, rqDefault, rqUntil, rqPopped, rqCount>>

\* set_capacity and set_rate, for one priority, for a queue, and for everything;
\* elements that are in a queue keep their time.
RqSetOne(q, pri, key, v) ==
  /\ rqInfo' = RqPut(q, [RqGet(q) EXCEPT ![pri][key] = v]) /\ UNCHANGED rqDefault
RqSetEach(q, key, v) ==
  /\ rqInfo' = RqPut(q, [p \in RqPris |-> [RqGet(q)[p] EXCEPT ![key] = v]]) /\ UNCHANGED rqDefault
RqSetAll(key, v) ==
  /\ rqInfo' = [q \in DOMAIN rqInfo |-> [p \in RqPris |-> [rqInfo[q][p] EXCEPT ![key] = v]]]
  /\ rqDefault' = [rqDefault EXCEPT ![key] = v]
RqSet ==
  /\ rqCount.set < RqMaxSets /\ rqCount' = [rqCount EXCEPT !.set = @ + 1]
  /\ \E kv \in ({"capacity"} \X RqCapacities) \cup ({"delay"} \X RqDelays) :
       \/ \E q \in RqQueues, pri \in RqPris : RqSetOne(q, pri, kv[1], kv[2])
       \/ \E q \in RqQueues : RqSetEach(q, kv[1], kv[2])
       \/ RqSetAll(kv[1], kv[2])
  /\ UNCHANGED <<rqNow, rqElems, rqWorker, rqUntil, rqPopped>>

RqClock ==
  /\ rqNow' \in 0..RqMaxTime \cap {rqNow - 1, rqNow + 1}
  /\ UNCHANGED <<rqElems, rqInfo, rqDefault, rqWorker, rqUntil, rqPopped, rqCount>>

RqNext ==
  \/ \E q \in RqQueues, pri \in RqPris : RqPush(q, pri)
  \/ RqCallPop \/ RqPop \/ RqTimeout \/ RqSet \/ RqClock

RqSpec == RqInit /\ [][RqNext]_rqVars

-----------------------------------------------------------------------------
RqTypeOK ==
  /\ rqNow \in 0..RqMaxTime /\ DOMAIN rqInfo \subseteq RqQueues
  /\ \A e \in rqElems : e.queue \in RqQueues /\ e.pri \in RqPris
  /\ rqWorker \in {"idle", "pop", "wait", "until"}

\* The elements of a queue and priority.
RqOf(elems, q, p) == {e \in elems : e.queue = q /\ e.pri = p}

\* Whatever rates and capacities are set between pushes, and also when the clock
\* is set back: the elements of a queue and priority leave in the order they
\* came in (all that are there came after the last one out), the sizes are right,
\* and a worker that waits does so for nothing that is there: for a push only
\* with no element, until a time only with no element that may leave earlier.
RateQueueKeepsOrder ==
  /\ \A e \in rqElems : e.id > rqPopped[e.queue][e.pri]
  /\ \A e, f \in rqElems : e.queue = f.queue /\ e.pri = f.pri /\ e.id < f.id => RqBefore(e, f)
  /\ \A q \in DOMAIN rqInfo, p \in RqPris :
       rqInfo[q][p].size = Cardinality(RqOf(rqElems, q, p))
  /\ rqWorker = "wait" => rqElems = {}
  /\ rqWorker = "until" => \A e \in rqElems : e.send >= rqUntil

\* No thread is left asleep in a queue that could serve it, and priorities, rates
\* and capacities never reorder what was accepted (queueing.h).
QueuesSound == BqTypeOK /\ NobodySleepsThrough /\ RqTypeOK /\ RateQueueKeepsOrder

-----------------------------------------------------------------------------
(* The inductive invariant behind RateQueueKeepsOrder.                     *)

RqTypes ==
  /\ rqNow \in 0..RqMaxTime
  /\ DOMAIN rqInfo \subseteq RqQueues
  /\ rqInfo \in [DOMAIN rqInfo -> [RqPris -> [size : Nat, capacity : Nat, delay : Nat, last : Nat]]]
  /\ rqDefault \in [capacity : Nat, delay : Nat]
  /\ rqElems \subseteq [queue : RqQueues, pri : RqPris, send : Nat, id : Nat]
  /\ IsFiniteSet(rqElems)
  /\ rqWorker \in {"idle", "pop", "wait", "until"} /\ rqUntil \in Nat
  /\ rqPopped \in [RqQueues -> [RqPris -> Nat]]
  /\ rqCount \in [push : Nat, set : Nat]

\* Every element has its queue, leaves no later than the queue's last one, and has
\* its own id.
RqElemsFit ==
  /\ \A e \in rqElems :
       /\ e.queue \in DOMAIN rqInfo /\ e.send <= rqInfo[e.queue][e.pri].last
       /\ e.id <= rqCount.push
  /\ \A e, f \in rqElems : e.id = f.id => e = f
  /\ \A q \in RqQueues, p \in RqPris : rqPopped[q][p] <= rqCount.push

RqInv == RqTypes /\ RqElemsFit /\ RateQueueKeepsOrder
=============================================================================
