---------------------------- MODULE BlockingQueue ----------------------------
(***************************************************************************)
(* QueueingLogic of queueing.h: logical queues with a capacity each, on    *)
(* one physical queue per worker, blocking for those who push and for the  *)
(* worker who pops.  One lock protects all of it; a thread that waits on a *)
(* condition variable gives it up, and must get it back once woken.        *)
(***************************************************************************)
EXTENDS Integers, Sequences, FiniteSets

CONSTANTS
  BqPushers, BqWorkers,    \* the threads; workers are 0, 1, ...
  BqQueues,                \* the ids of the logical queues
  BqCapacity,              \* the capacity given to the constructor
  BqCapacities,            \* the capacities set later
  BqMaxPush,               \* bound: the number of push_front
  BqMaxSets                \* bound: the number of set_capacity

ASSUME BqAssumption ==
  /\ BqCapacity \in Nat /\ BqCapacities \subseteq Nat /\ BqQueues \subseteq Nat
  /\ IsFiniteSet(BqWorkers) /\ BqWorkers # {} /\ BqWorkers = 0..Cardinality(BqWorkers) - 1
  /\ IsFiniteSet(BqPushers) /\ BqPushers \subseteq Nat \ BqWorkers
  /\ BqMaxPush \in Nat

VARIABLES
  bqQueue,        \* the physical queue of every worker: the elements' queue ids, oldest first
  bqInfo,         \* queues_info: queue id -> [size, capacity]
  bqDefault,      \* capacity: the one of a queue that does not exist yet
  bqElements,     \* element_count
  bqPc,           \* the threads: "idle", "push" / "pop" (wants the lock), "wait"
  bqArg,          \* the queue a pusher pushes to
  bqPushed,       \* bound, and the elements
  bqSets          \* [count, raised]: has a capacity been raised (history)

bqVars == <<bqQueue, bqInfo, bqDefault, bqElements, bqPc, bqArg, bqPushed, bqSets>>

BqMapper(q) == q % Cardinality(BqWorkers)
BqThreads == BqPushers \cup BqWorkers

BqInit ==
  /\ bqQueue = [w \in BqWorkers |-> <<>>] /\ bqInfo = <<>> /\ bqDefault = BqCapacity
  /\ bqElements = 0
  /\ bqPc = [t \in BqThreads |-> "idle"] /\ bqArg = [t \in BqPushers |-> 0]
  /\ bqPushed = 0
  /\ bqSets = [count |-> 0, raised |-> FALSE]

\* get_queue: a queue is created when it is first named.
BqGet(q) == IF q \in DOMAIN bqInfo THEN bqInfo[q] ELSE [size |-> 0, capacity |-> bqDefault]
BqPut(q, info) == [r \in DOMAIN bqInfo \cup {q} |-> IF r = q THEN info ELSE bqInfo[r]]

\* notify_one: one of the threads that wait, if there is one.
BqNotifyOne(pc, waiting) ==
  IF waiting = {} THEN {pc}
  ELSE {[pc EXCEPT ![t] = IF t \in BqPushers THEN "push" ELSE "pop"] : t \in waiting}

BqCall(t, q) ==
  /\ bqPc[t] = "idle"
  /\ \/ t \in BqPushers /\ bqPushed < BqMaxPush
        /\ bqPc' = [bqPc EXCEPT ![t] = "push"] /\ bqArg' = [bqArg EXCEPT ![t] = q]
        /\ bqPushed' = bqPushed + 1
     \/ t \in BqWorkers /\ bqPc' = [bqPc EXCEPT ![t] = "pop"] /\ UNCHANGED <<bqArg, bqPushed>>
  /\ UNCHANGED <<bqQueue, bqInfo, bqDefault, bqElements, bqSets>>

\* push_front: waits while the queue is full; the worker is notified.
BqPush(t) ==
  LET q == bqArg[t]
      w == BqMapper(q)
      info == BqGet(q)
  IN /\ t \in BqPushers /\ bqPc[t] = "push"
     /\ IF info.size >= info.capacity
        THEN /\ bqPc' = [bqPc EXCEPT ![t] = "wait"]
             /\ bqInfo' = BqPut(q, info)
             /\ UNCHANGED <<bqQueue, bqElements>>
        ELSE /\ bqQueue' = [bqQueue EXCEPT ![w] = Append(@, q)]
             /\ bqInfo' = BqPut(q, [info EXCEPT !.size = @ + 1])
             /\ bqElements' = bqElements + 1
             /\ bqPc' \in BqNotifyOne([bqPc EXCEPT ![t] = "idle"],
                                      {v \in {w} : bqPc[v] = "wait"})
     /\ UNCHANGED <<bqDefault, bqArg, bqPushed, bqSets>>

\* A mutation of BqPop: the physical queue's pushers are not told.
BqPopSilent(w) ==
  LET q == Head(bqQueue[w])
  IN /\ w \in BqWorkers /\ bqPc[w] = "pop"
     /\ IF bqQueue[w] = <<>>
        THEN bqPc' = [bqPc EXCEPT ![w] = "wait"] /\ UNCHANGED <<bqQueue, bqInfo, bqElements>>
        ELSE /\ bqQueue' = [bqQueue EXCEPT ![w] = Tail(@)]
             /\ bqInfo' = BqPut(q, [bqInfo[q] EXCEPT !.size = @ - 1])
             /\ bqElements' = bqElements - 1
             /\ bqPc' = [bqPc EXCEPT ![w] = "idle"]
     /\ UNCHANGED <<bqDefault, bqArg, bqPushed, bqSets>>

\* pop_back: waits for an element; one of those who wait for the element's
\* logical queue is notified.
BqPop(w) ==
  LET q == Head(bqQueue[w])
  IN /\ w \in BqWorkers /\ bqPc[w] = "pop"
     /\ IF bqQueue[w] = <<>>
        THEN bqPc' = [bqPc EXCEPT ![w] = "wait"] /\ UNCHANGED <<bqQueue, bqInfo, bqElements>>
        ELSE /\ bqQueue' = [bqQueue EXCEPT ![w] = Tail(@)]
             /\ bqInfo' = BqPut(q, [bqInfo[q] EXCEPT !.size = @ - 1])
             /\ bqElements' = bqElements - 1
             /\ bqPc' \in BqNotifyOne([bqPc EXCEPT ![w] = "idle"],
                                      {t \in BqPushers : bqPc[t] = "wait" /\ bqArg[t] = q})
     /\ UNCHANGED <<bqDefault, bqArg, bqPushed, bqSets>>

\* set_capacity, set_capacity_for_all: nobody is notified.
BqSetCapacity(q, c) ==
  /\ bqSets.count < BqMaxSets
  /\ bqSets' = [count |-> bqSets.count + 1, raised |-> bqSets.raised \/ c > BqGet(q).capacity]
  /\ bqInfo' = BqPut(q, [BqGet(q) EXCEPT !.capacity = c])
  /\ UNCHANGED <<bqQueue, bqDefault, bqElements, bqPc, bqArg, bqPushed>>

BqSetCapacityForAll(c) ==
  /\ bqSets.count < BqMaxSets
  /\ bqSets' = [count |-> bqSets.count + 1,
                raised |-> bqSets.raised \/ \E q \in BqQueues : c > BqGet(q).capacity]
  /\ bqInfo' = [q \in DOMAIN bqInfo |-> [bqInfo[q] EXCEPT !.capacity = c]]
  /\ bqDefault' = c
  /\ UNCHANGED <<bqQueue, bqElements, bqPc, bqArg, bqPushed>>

BqNext ==
  \/ \E t \in BqThreads, q \in BqQueues : BqCall(t, q)
  \/ \E t \in BqPushers : BqPush(t)
  \/ \E w \in BqWorkers : BqPop(w)
  \/ \E q \in BqQueues, c \in BqCapacities : BqSetCapacity(q, c)
  \/ \E c \in BqCapacities : BqSetCapacityForAll(c)

BqSpec == BqInit /\ [][BqNext]_bqVars

-----------------------------------------------------------------------------
BqTypeOK ==
  /\ \A w \in BqWorkers : \A i \in 1..Len(bqQueue[w]) : BqMapper(bqQueue[w][i]) = w
  /\ DOMAIN bqInfo \subseteq BqQueues /\ bqElements \in 0..BqMaxPush

\* Where the elements of logical queue q are in a physical queue.
BqPositions(s, q) == {i \in 1..Len(s) : s[i] = q}

\* Nobody sleeps through what it waits for, with several threads pushing to one
\* logical queue and capacities being lowered: a worker waits only while it has
\* no element, and while a pusher waits for a queue that has room, another one
\* has been woken for it.  (After a capacity has been raised this need not hold:
\* set_capacity wakes nobody.)  The sizes are those of the queues, and empty()
\* is about all of them.
NobodySleepsThrough ==
  /\ \A w \in BqWorkers : bqPc[w] = "wait" => bqQueue[w] = <<>>
  /\ ~bqSets.raised =>
       \A t \in BqPushers :
         bqPc[t] = "wait" /\ bqInfo[bqArg[t]].size < bqInfo[bqArg[t]].capacity =>
           \E u \in BqPushers : bqPc[u] = "push" /\ bqArg[u] = bqArg[t]
  /\ \A q \in DOMAIN bqInfo :
       bqInfo[q].size = Cardinality(BqPositions(bqQueue[BqMapper(q)], q))
  /\ bqElements = 0 <=> \A w \in BqWorkers : bqQueue[w] = <<>>

-----------------------------------------------------------------------------
(* The inductive invariant behind NobodySleepsThrough.                     *)

BqPlaces == UNION {{w} \X (1..Len(bqQueue[w])) : w \in BqWorkers}
BqInFlight == {t \in BqPushers : bqPc[t] \in {"push", "wait"}}
BqWoken(q) == {t \in BqPushers : bqPc[t] = "push" /\ bqArg[t] = q}

BqTypes ==
  /\ bqQueue \in [BqWorkers -> Seq(BqQueues)]
  /\ DOMAIN bqInfo \subseteq BqQueues /\ bqInfo \in [DOMAIN bqInfo -> [size : Nat, capacity : Nat]]
  /\ bqDefault \in Nat /\ bqElements \in Nat /\ bqPushed \in 0..BqMaxPush
  /\ bqPc \in [BqThreads -> {"idle", "push", "pop", "wait"}]
  /\ bqArg \in [BqPushers -> Nat] /\ bqSets.raised \in BOOLEAN

\* Elements are with the worker of their queue, which exists, and so does the
\* queue a pusher waits for.
BqPlaced ==
  /\ \A w \in BqWorkers : \A i \in 1..Len(bqQueue[w]) :
       BqMapper(bqQueue[w][i]) = w /\ bqQueue[w][i] \in DOMAIN bqInfo
  /\ \A w \in BqWorkers : bqPc[w] = "wait" => bqQueue[w] = <<>>
  /\ \A t \in BqInFlight : bqArg[t] \in BqQueues /\ (bqPc[t] = "wait" => bqArg[t] \in DOMAIN bqInfo)

\* What is counted is there; every element and every pusher is one of the pushes.
BqCounted ==
  /\ \A q \in DOMAIN bqInfo : bqInfo[q].size = Cardinality(BqPositions(bqQueue[BqMapper(q)], q))
  /\ IsFiniteSet(BqPlaces) /\ bqElements = Cardinality(BqPlaces)
  /\ bqElements + Cardinality(BqInFlight) <= bqPushed

\* A queue somebody waits for is full, or as many have been woken as there is room.
BqRoomIsOffered ==
  ~bqSets.raised =>
    \A t \in BqPushers : bqPc[t] = "wait" =>
      bqInfo[bqArg[t]].size + Cardinality(BqWoken(bqArg[t])) >= bqInfo[bqArg[t]].capacity

BqInv == BqTypes /\ BqPlaced /\ BqCounted /\ BqRoomIsOffered
=============================================================================
