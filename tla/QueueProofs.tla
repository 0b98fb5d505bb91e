---------------------------- MODULE QueueProofs -----------------------------
(* Proofs about the queues of queueing.h, for every value of their         *)
(* constants: any number of threads, queues, priorities and elements, and  *)
(* any capacities and rates.                                               *)
EXTENDS RateQueue, FiniteSetTheorems, WellFoundedInduction, TLAPS

(* Counting what is in a queue.                                            *)

\* The positions of a logical queue's elements in a physical queue.
LEMMA PositionsFinite ==
  ASSUME NEW S, NEW s \in Seq(S), NEW q
  PROVE  IsFiniteSet(BqPositions(s, q)) /\ Cardinality(BqPositions(s, q)) \in Nat
<1>1. IsFiniteSet(1..Len(s))
  BY FS_Interval
<1>2. BqPositions(s, q) \in SUBSET (1..Len(s))
  BY DEF BqPositions
<1>3. QED
  BY <1>1, <1>2, FS_Subset, FS_CardinalityType

\* An element more at the end.
LEMMA PositionsAppend ==
  ASSUME NEW S, NEW s \in Seq(S), NEW x \in S, NEW q
  PROVE  Cardinality(BqPositions(Append(s, x), q)) =
           Cardinality(BqPositions(s, q)) + IF x = q THEN 1 ELSE 0
<1>1. IsFiniteSet(BqPositions(s, q)) /\ Cardinality(BqPositions(s, q)) \in Nat
  BY PositionsFinite
<1>2. CASE x = q
  <2>1. BqPositions(Append(s, x), q) = BqPositions(s, q) \cup {Len(s) + 1}
    BY <1>2 DEF BqPositions
  <2>2. Len(s) + 1 \notin BqPositions(s, q)
    BY DEF BqPositions
  <2>3. QED
    BY <1>1, <1>2, <2>1, <2>2, FS_AddElement
<1>3. CASE x # q
  <2>1. BqPositions(Append(s, x), q) = BqPositions(s, q)
    BY <1>3 DEF BqPositions
  <2>2. QED
    BY <1>1, <1>3, <2>1
<1>4. QED
  BY <1>2, <1>3

\* The first element goes and the others move up.
LEMMA PositionsTail ==
  ASSUME NEW S, NEW s \in Seq(S), s # <<>>, NEW q
  PROVE  Cardinality(BqPositions(s, q)) =
           Cardinality(BqPositions(Tail(s), q)) + IF Head(s) = q THEN 1 ELSE 0
<1> DEFINE rest == BqPositions(Tail(s), q)
           later == BqPositions(s, q) \ {1}
           up == [i \in rest |-> i + 1]
<1>1. Tail(s) \in Seq(S) /\ Len(Tail(s)) = Len(s) - 1 /\ Len(s) \in Nat \ {0}
      /\ \A i \in 1..Len(s) - 1 : Tail(s)[i] = s[i + 1]
  OBVIOUS
<1>2. IsFiniteSet(rest) /\ Cardinality(rest) \in Nat
  BY <1>1, PositionsFinite
<1>3. ExistsBijection(rest, later)
  <2>1. \A i \in rest : i \in Nat /\ i + 1 \in later
    BY <1>1 DEF BqPositions
  <2>2. \A j \in later : j - 1 \in rest /\ (j - 1) + 1 = j
    BY <1>1 DEF BqPositions
  <2>3. up \in [rest -> later]
    BY <2>1
  <2>4. \A a, b \in rest : up[a] = up[b] => a = b
    BY <2>1
  <2>5. \A j \in later : \E i \in rest : up[i] = j
    BY <2>2
  <2> HIDE DEF up, rest, later
  <2>6. up \in Bijection(rest, later)
    BY <2>3, <2>4, <2>5 DEF Bijection, Injection, IsInjective, Surjection
  <2>7. QED
    BY <2>6 DEF ExistsBijection
<1>4. Cardinality(later) = Cardinality(rest)
  BY <1>2, <1>3, FS_Bijection
<1>5. IsFiniteSet(BqPositions(s, q)) /\ Cardinality(BqPositions(s, q)) \in Nat
  BY PositionsFinite
<1>6. 1 \in BqPositions(s, q) <=> Head(s) = q
  BY <1>1 DEF BqPositions
<1>7. Cardinality(later) = IF 1 \in BqPositions(s, q) THEN Cardinality(BqPositions(s, q)) - 1
                                                        ELSE Cardinality(BqPositions(s, q))
  BY <1>5, FS_RemoveElement
<1> HIDE DEF rest, later
<1>8. QED
  BY <1>2, <1>4, <1>5, <1>6, <1>7 DEF rest

-----------------------------------------------------------------------------
(* BlockingQueue.                                                          *)

\* The logical queues are spread over the workers.
LEMMA MapperIs == ASSUME NEW q \in BqQueues PROVE BqMapper(q) \in BqWorkers
<1>1. Cardinality(BqWorkers) \in Nat /\ Cardinality(BqWorkers) # 0 /\ q \in Nat
  BY BqAssumption, FS_CardinalityType, FS_EmptySet
<1>2. q % Cardinality(BqWorkers) \in 0..Cardinality(BqWorkers) - 1
  BY <1>1
<1>3. QED
  BY <1>2, BqAssumption DEF BqMapper

\* The record of a queue that exists or that is created now, and putting it back.
LEMMA BqGetIs ==
  ASSUME BqTypes, NEW q \in BqQueues
  PROVE  BqGet(q) \in [size : Nat, capacity : Nat]
  BY DEF BqTypes, BqGet

\* The record of one queue is written, the others stay.
LEMMA BqPutIs ==
  ASSUME BqTypes, NEW q \in BqQueues, NEW info \in [size : Nat, capacity : Nat]
  PROVE  /\ DOMAIN BqPut(q, info) = DOMAIN bqInfo \cup {q}
         /\ DOMAIN BqPut(q, info) \subseteq BqQueues
         /\ BqPut(q, info) \in [DOMAIN BqPut(q, info) -> [size : Nat, capacity : Nat]]
         /\ BqPut(q, info)[q] = info
         /\ \A r \in DOMAIN bqInfo : r # q => BqPut(q, info)[r] = bqInfo[r]
  BY DEF BqTypes, BqPut

\* A queue that does not exist has no elements.
LEMMA BqSizeIs ==
  ASSUME BqInv, NEW q \in BqQueues
  PROVE  BqGet(q).size = Cardinality(BqPositions(bqQueue[BqMapper(q)], q))
<1>1. CASE q \in DOMAIN bqInfo
  BY <1>1 DEF BqInv, BqCounted, BqGet
<1>2. CASE q \notin DOMAIN bqInfo
  <2>1. BqMapper(q) \in BqWorkers
    BY MapperIs
  <2>2. BqPositions(bqQueue[BqMapper(q)], q) = {}
    BY <1>2, <2>1 DEF BqInv, BqPlaced, BqPositions
  <2>3. QED
    BY <1>2, <2>2, FS_EmptySet DEF BqGet
<1>3. QED
  BY <1>1, <1>2

\* The elements of all the queues, counted by their places.
LEMMA PlacesAre ==
  ASSUME NEW queue \in [BqWorkers -> Seq(BqQueues)], NEW w \in BqWorkers, NEW i
  PROVE  <<w, i>> \in UNION {{v} \X (1..Len(queue[v])) : v \in BqWorkers} <=> i \in 1..Len(queue[w])
<1> DEFINE places == UNION {{v} \X (1..Len(queue[v])) : v \in BqWorkers}
<1>1. ASSUME i \in 1..Len(queue[w]) PROVE <<w, i>> \in places
  <2>1. <<w, i>> \in {w} \X (1..Len(queue[w]))
    BY <1>1
  <2>2. QED
    BY <2>1, Zenon
<1>2. ASSUME <<w, i>> \in places PROVE i \in 1..Len(queue[w])
  <2>1. PICK v \in BqWorkers : <<w, i>> \in {v} \X (1..Len(queue[v]))
    BY <1>2, Zenon
  <2>2. QED
    BY <2>1
<1>3. QED
  BY <1>1, <1>2

\* A place of a queue is a worker with a position.
LEMMA PlacesArePairs ==
  ASSUME NEW queue \in [BqWorkers -> Seq(BqQueues)],
         NEW e \in UNION {{v} \X (1..Len(queue[v])) : v \in BqWorkers}
  PROVE  \E w \in BqWorkers : \E i \in 1..Len(queue[w]) : e = <<w, i>>
<1>1. PICK v \in BqWorkers : e \in {v} \X (1..Len(queue[v]))
  BY Zenon
<1>2. QED
  BY <1>1

\* One element more or less at a worker is one place more or less.
LEMMA PlacesChange ==
  ASSUME BqTypes, bqQueue' \in [BqWorkers -> Seq(BqQueues)], NEW w \in BqWorkers,
         \A v \in BqWorkers : v # w => bqQueue'[v] = bqQueue[v]
  PROVE  /\ Len(bqQueue'[w]) = Len(bqQueue[w]) + 1 =>
              BqPlaces' = BqPlaces \cup {<<w, Len(bqQueue[w]) + 1>>}
         /\ Len(bqQueue'[w]) = Len(bqQueue[w]) - 1 =>
              BqPlaces' = BqPlaces \ {<<w, Len(bqQueue[w])>>}
<1> DEFINE n == Len(bqQueue[w])
<1>1. bqQueue \in [BqWorkers -> Seq(BqQueues)]
  BY DEF BqTypes
<1>2. \A v \in BqWorkers : \A i : <<v, i>> \in BqPlaces <=> i \in 1..Len(bqQueue[v])
  BY <1>1, PlacesAre DEF BqPlaces
<1>3. \A v \in BqWorkers : \A i : <<v, i>> \in BqPlaces' <=> i \in 1..Len(bqQueue'[v])
  BY PlacesAre DEF BqPlaces
<1>4. \A e \in BqPlaces : \E v \in BqWorkers : \E i : e = <<v, i>>
  BY <1>1, PlacesArePairs DEF BqPlaces
<1>5. \A e \in BqPlaces' : \E v \in BqWorkers : \E i : e = <<v, i>>
  BY PlacesArePairs DEF BqPlaces
<1>6. n \in Nat /\ Len(bqQueue'[w]) \in Nat
  BY <1>1
<1>7. ASSUME Len(bqQueue'[w]) = n + 1 PROVE BqPlaces' = BqPlaces \cup {<<w, n + 1>>}
  <2>1. \A i : i \in 1..(n + 1) <=> i \in 1..n \/ i = n + 1
    BY <1>6
  <2> HIDE DEF n
  <2>2. \A v \in BqWorkers : \A i : <<v, i>> \in BqPlaces' <=> <<v, i>> \in BqPlaces \/ <<v, i>> = <<w, n + 1>>
    <3> TAKE v \in BqWorkers
    <3> TAKE i
    <3>1. CASE v = w
      BY <1>2, <1>3, <1>7, <2>1, <3>1 DEF n
    <3>2. CASE v # w
      BY <1>2, <1>3, <3>2
    <3>3. QED
      BY <3>1, <3>2
  <2>3. QED
    BY <1>4, <1>5, <2>2
<1>8. ASSUME Len(bqQueue'[w]) = n - 1 PROVE BqPlaces' = BqPlaces \ {<<w, n>>}
  <2>1. \A i : i \in 1..(n - 1) <=> i \in 1..n /\ i # n
    BY <1>6
  <2> HIDE DEF n
  <2>2. \A v \in BqWorkers : \A i : <<v, i>> \in BqPlaces' <=> <<v, i>> \in BqPlaces /\ <<v, i>> # <<w, n>>
    <3> TAKE v \in BqWorkers
    <3> TAKE i
    <3>1. CASE v = w
      BY <1>2, <1>3, <1>8, <2>1, <3>1 DEF n
    <3>2. CASE v # w
      BY <1>2, <1>3, <3>2
    <3>3. QED
      BY <3>1, <3>2
  <2>3. QED
    BY <1>4, <1>5, <2>2
<1>9. QED
  BY <1>7, <1>8

\* Sets of pushers are finite.
LEMMA PushersFinite ==
  /\ IsFiniteSet(BqInFlight) /\ Cardinality(BqInFlight) \in Nat
  /\ \A q : IsFiniteSet(BqWoken(q)) /\ Cardinality(BqWoken(q)) \in Nat
<1>1. IsFiniteSet(BqPushers) /\ BqInFlight \in SUBSET BqPushers
      /\ \A q : BqWoken(q) \in SUBSET BqPushers
  BY BqAssumption DEF BqInFlight, BqWoken
<1>2. QED
  BY <1>1, FS_Subset, FS_CardinalityType

\* When no pusher moves, their sets stay.
LEMMA PushersStay ==
  ASSUME \A u \in BqPushers : bqPc'[u] = bqPc[u], bqArg' = bqArg
  PROVE  BqInFlight' = BqInFlight /\ \A q : BqWoken(q)' = BqWoken(q)
  BY DEF BqInFlight, BqWoken

\* A thread pushes or pops, never both.
LEMMA ThreadsApart ==
  /\ \A w \in BqWorkers : w \in BqThreads /\ w \notin BqPushers
  /\ \A t \in BqPushers : t \in BqThreads /\ t \notin BqWorkers
  BY BqAssumption DEF BqThreads

\* A thread calls push_front or pop_back.
LEMMA BqCallKeeps ==
  ASSUME BqInv, NEW t \in BqThreads, NEW q \in BqQueues, BqCall(t, q)
  PROVE  BqInv'
<1>1. /\ bqPc[t] = "idle" /\ UNCHANGED <<bqQueue, bqInfo, bqDefault, bqElements, bqSets>>
      /\ bqPc \in [BqThreads -> {"idle", "push", "pop", "wait"}]
      /\ bqArg \in [BqPushers -> Nat] /\ bqPushed \in 0..BqMaxPush /\ bqElements \in Nat
  BY DEF BqCall, BqInv, BqTypes
<1>2. BqPlaces' = BqPlaces
  BY <1>1 DEF BqPlaces
<1>3. CASE /\ t \in BqPushers /\ bqPushed < BqMaxPush
           /\ bqPc' = [bqPc EXCEPT ![t] = "push"] /\ bqArg' = [bqArg EXCEPT ![t] = q]
           /\ bqPushed' = bqPushed + 1
  <2>1. /\ bqPc' \in [BqThreads -> {"idle", "push", "pop", "wait"}] /\ bqPc'[t] = "push"
        /\ \A u \in BqThreads : u # t => bqPc'[u] = bqPc[u]
    BY <1>1, <1>3
  <2>2. /\ bqArg' \in [BqPushers -> Nat] /\ bqArg'[t] = q
        /\ \A u \in BqPushers : u # t => bqArg'[u] = bqArg[u]
    BY <1>1, <1>3, BqAssumption
  <2>3. bqPushed' \in 0..BqMaxPush
    BY <1>1, <1>3, BqAssumption
  <2>4. BqTypes'
    BY <1>1, <2>1, <2>2, <2>3 DEF BqInv, BqTypes
  <2>5. BqPlaced'
    BY <1>1, <1>3, <2>1, <2>2, ThreadsApart DEF BqInv, BqPlaced, BqInFlight
  <2>6. BqInFlight' = BqInFlight \cup {t} /\ t \notin BqInFlight
    BY <1>1, <1>3, <2>1, ThreadsApart DEF BqInFlight
  <2>7. BqCounted'
    <3>1. Cardinality(BqInFlight') = Cardinality(BqInFlight) + 1 /\ Cardinality(BqInFlight) \in Nat
      BY <2>6, PushersFinite, FS_AddElement
    <3>2. bqElements + Cardinality(BqInFlight) <= bqPushed
      BY DEF BqInv, BqCounted
    <3>3. bqElements + Cardinality(BqInFlight') <= bqPushed'
      BY <1>1, <1>3, <3>1, <3>2
    <3>4. QED
      BY <1>1, <1>2, <3>3 DEF BqInv, BqCounted
  <2>8. \A r : Cardinality(BqWoken(r)') >= Cardinality(BqWoken(r))
    <3> TAKE r
    <3>1. BqWoken(r) \subseteq BqWoken(r)'
      BY <1>1, <2>1, <2>2, ThreadsApart DEF BqWoken
    <3>2. IsFiniteSet(BqWoken(r)')
      <4>1. BqWoken(r)' \in SUBSET BqPushers
        BY DEF BqWoken
      <4>2. QED
        BY <4>1, BqAssumption, FS_Subset
    <3>3. QED
      BY <3>1, <3>2, PushersFinite, FS_Subset, FS_CardinalityType
  <2>9. BqRoomIsOffered'
    <3> SUFFICES ASSUME ~bqSets.raised, NEW u \in BqPushers, bqPc'[u] = "wait",
                        NEW r, r = bqArg'[u]
                 PROVE  bqInfo[r].size + Cardinality(BqWoken(r)') >= bqInfo[r].capacity
      BY <1>1 DEF BqRoomIsOffered, BqWoken
    <3>1. u # t /\ bqPc[u] = "wait" /\ r = bqArg[u]
      BY <2>1, <2>2, ThreadsApart
    <3>2. /\ bqInfo[r].size + Cardinality(BqWoken(r)) >= bqInfo[r].capacity
          /\ bqInfo[r] \in [size : Nat, capacity : Nat]
      BY <3>1 DEF BqInv, BqRoomIsOffered, BqPlaced, BqInFlight, BqTypes
    <3>3. Cardinality(BqWoken(r)') \in Nat
      <4>1. BqWoken(r)' \in SUBSET BqPushers
        BY DEF BqWoken
      <4>2. QED
        BY <4>1, BqAssumption, FS_Subset, FS_CardinalityType
    <3>4. QED
      BY <2>8, <3>1, <3>2, <3>3, PushersFinite
  <2>10. QED
    BY <2>4, <2>5, <2>7, <2>9 DEF BqInv
<1>4. CASE t \in BqWorkers /\ bqPc' = [bqPc EXCEPT ![t] = "pop"] /\ UNCHANGED <<bqArg, bqPushed>>
  <2>1. /\ bqPc' \in [BqThreads -> {"idle", "push", "pop", "wait"}] /\ bqPc'[t] = "pop"
        /\ \A u \in BqThreads : u # t => bqPc'[u] = bqPc[u]
    BY <1>1, <1>4
  <2>2. \A u \in BqPushers : bqPc'[u] = bqPc[u]
    BY <1>4, <2>1, ThreadsApart
  <2>3. BqInFlight' = BqInFlight /\ \A r : BqWoken(r)' = BqWoken(r)
    BY <1>4, <2>2, PushersStay
  <2>4. BqTypes'
    BY <1>1, <1>4, <2>1 DEF BqInv, BqTypes
  <2>5. BqPlaced'
    BY <1>1, <1>4, <2>1, <2>2, <2>3, ThreadsApart DEF BqInv, BqPlaced, BqInFlight
  <2>6. BqCounted'
    BY <1>1, <1>2, <1>4, <2>3 DEF BqInv, BqCounted
  <2>7. BqRoomIsOffered'
    BY <1>1, <1>4, <2>2, <2>3 DEF BqInv, BqRoomIsOffered
  <2>8. QED
    BY <2>4, <2>5, <2>6, <2>7 DEF BqInv
<1>5. QED
  BY <1>3, <1>4 DEF BqCall

\* The sizes after a step that changes the elements of one logical queue, q, at
\* its worker, w.
LEMMA SizesKept ==
  ASSUME BqInv, bqQueue' \in [BqWorkers -> Seq(BqQueues)],
         NEW q \in BqQueues, NEW w \in BqWorkers, w = BqMapper(q),
         \A v \in BqWorkers : v # w => bqQueue'[v] = bqQueue[v],
         \A r \in BqQueues : r # q => Cardinality(BqPositions(bqQueue'[w], r)) =
                                      Cardinality(BqPositions(bqQueue[w], r)),
         DOMAIN bqInfo' = DOMAIN bqInfo \cup {q}, DOMAIN bqInfo' \subseteq BqQueues,
         \A r \in DOMAIN bqInfo : r # q => bqInfo'[r] = bqInfo[r],
         bqInfo'[q].size = Cardinality(BqPositions(bqQueue'[w], q))
  PROVE  \A r \in DOMAIN bqInfo' :
           bqInfo'[r].size = Cardinality(BqPositions(bqQueue'[BqMapper(r)], r))
<1> TAKE r \in DOMAIN bqInfo'
<1>1. CASE r = q
  BY <1>1
<1>2. CASE r # q
  <2>1. r \in DOMAIN bqInfo /\ r \in BqQueues /\ bqInfo'[r] = bqInfo[r] /\ BqMapper(r) \in BqWorkers
    BY <1>2, MapperIs
  <2>2. bqInfo[r].size = Cardinality(BqPositions(bqQueue[BqMapper(r)], r))
    BY <2>1 DEF BqInv, BqCounted
  <2>3. CASE BqMapper(r) = w
    BY <1>2, <2>1, <2>2, <2>3
  <2>4. CASE BqMapper(r) # w
    BY <2>1, <2>2, <2>4
  <2>5. QED
    BY <2>3, <2>4
<1>3. QED
  BY <1>1, <1>2

\* push_front to a full queue: the pusher waits.
LEMMA BqPushWaits ==
  ASSUME BqInv, NEW t \in BqPushers, BqPush(t),
         BqGet(bqArg[t]).size >= BqGet(bqArg[t]).capacity
  PROVE  BqInv'
<1> DEFINE q == bqArg[t]
           info == BqGet(q)
<1>1. /\ bqPc[t] = "push" /\ bqPc' = [bqPc EXCEPT ![t] = "wait"] /\ bqInfo' = BqPut(q, info)
      /\ UNCHANGED <<bqQueue, bqElements, bqDefault, bqArg, bqPushed, bqSets>>
  BY DEF BqPush
<1>2. q \in BqQueues /\ t \in BqInFlight
  BY <1>1 DEF BqInv, BqPlaced, BqInFlight
<1>3. info \in [size : Nat, capacity : Nat]
  BY <1>2, BqGetIs DEF BqInv
<1>4. info.size >= info.capacity
  OBVIOUS
<1>5. info.size = Cardinality(BqPositions(bqQueue[BqMapper(q)], q))
  BY <1>2, BqSizeIs
<1>6. q \in DOMAIN bqInfo => bqInfo[q] = info
  BY DEF BqGet
<1> HIDE DEF info, q
<1>7. /\ DOMAIN bqInfo' = DOMAIN bqInfo \cup {q} /\ DOMAIN bqInfo' \subseteq BqQueues
      /\ bqInfo' \in [DOMAIN bqInfo' -> [size : Nat, capacity : Nat]]
      /\ bqInfo'[q] = info /\ \A r \in DOMAIN bqInfo : bqInfo'[r] = bqInfo[r]
  <2>1. BqTypes /\ q \in BqQueues /\ info \in [size : Nat, capacity : Nat]
    BY <1>2, <1>3 DEF BqInv
  <2>2. /\ DOMAIN BqPut(q, info) = DOMAIN bqInfo \cup {q}
        /\ DOMAIN BqPut(q, info) \subseteq BqQueues
        /\ BqPut(q, info) \in [DOMAIN BqPut(q, info) -> [size : Nat, capacity : Nat]]
        /\ BqPut(q, info)[q] = info
        /\ \A r \in DOMAIN bqInfo : r # q => BqPut(q, info)[r] = bqInfo[r]
    BY <2>1, BqPutIs
  <2>3. QED
    BY <1>1, <1>6, <2>2
<1>8. /\ bqPc' \in [BqThreads -> {"idle", "push", "pop", "wait"}] /\ bqPc'[t] = "wait"
      /\ \A u \in BqThreads : u # t => bqPc'[u] = bqPc[u]
  BY <1>1, ThreadsApart DEF BqInv, BqTypes
<1>9. BqTypes'
  BY <1>1, <1>7, <1>8 DEF BqInv, BqTypes
<1>10. BqInFlight' = BqInFlight /\ BqPlaces' = BqPlaces
  BY <1>1, <1>2, <1>8, ThreadsApart DEF BqInFlight, BqPlaces
<1>11. BqPlaced'
  BY <1>1, <1>2, <1>7, <1>8, <1>10, ThreadsApart DEF BqInv, BqPlaced, BqInFlight, q
<1>12. BqCounted'
  BY <1>1, <1>5, <1>7, <1>10 DEF BqInv, BqCounted
<1>13. BqRoomIsOffered'
  <2> SUFFICES ASSUME ~bqSets.raised, NEW u \in BqPushers, bqPc'[u] = "wait",
                      NEW r, r = bqArg[u]
               PROVE  bqInfo'[r].size + Cardinality(BqWoken(r)') >= bqInfo'[r].capacity
    BY <1>1 DEF BqRoomIsOffered, BqWoken
  <2>1. CASE r = q
    <3>1. BqWoken(r)' \in SUBSET BqPushers
      BY DEF BqWoken
    <3>2. Cardinality(BqWoken(r)') \in Nat
      BY <3>1, BqAssumption, FS_Subset, FS_CardinalityType
    <3>3. QED
      BY <1>3, <1>4, <1>7, <2>1, <3>2
  <2>2. CASE r # q
    <3>1. BqWoken(r)' = BqWoken(r)
      BY <1>1, <1>8, <2>2, ThreadsApart DEF BqWoken, q
    <3>2. bqPc[u] = "wait" /\ r \in DOMAIN bqInfo
      BY <1>8, <2>2, ThreadsApart DEF BqInv, BqPlaced, BqInFlight, q
    <3>3. QED
      BY <1>7, <3>1, <3>2 DEF BqInv, BqRoomIsOffered
  <2>3. QED
    BY <2>1, <2>2
<1>14. QED
  BY <1>9, <1>11, <1>12, <1>13 DEF BqInv

\* push_front to a queue with room: the element goes in and the worker is woken.
LEMMA BqPushGoesIn ==
  ASSUME BqInv, NEW t \in BqPushers, BqPush(t),
         ~(BqGet(bqArg[t]).size >= BqGet(bqArg[t]).capacity)
  PROVE  BqInv'
<1> DEFINE q == bqArg[t]
           w == BqMapper(q)
           info == BqGet(q)
           more == [info EXCEPT !.size = @ + 1]
           pc == [bqPc EXCEPT ![t] = "idle"]
<1>1. /\ bqPc[t] = "push" /\ bqQueue' = [bqQueue EXCEPT ![w] = Append(@, q)]
      /\ bqInfo' = BqPut(q, more) /\ bqElements' = bqElements + 1
      /\ bqPc' \in BqNotifyOne(pc, {v \in {w} : bqPc[v] = "wait"})
      /\ UNCHANGED <<bqDefault, bqArg, bqPushed, bqSets>>
  BY DEF BqPush
<1>2. q \in BqQueues /\ t \in BqInFlight /\ t \in BqWoken(q)
  BY <1>1 DEF BqInv, BqPlaced, BqInFlight, BqWoken
<1>3. w \in BqWorkers
  BY <1>2, MapperIs
<1>4. info \in [size : Nat, capacity : Nat]
  BY <1>2, BqGetIs DEF BqInv
<1>5. info.size = Cardinality(BqPositions(bqQueue[w], q))
  BY <1>2, BqSizeIs
<1>6. q \in DOMAIN bqInfo => bqInfo[q] = info
  BY DEF BqGet
<1> HIDE DEF info
<1>7. more \in [size : Nat, capacity : Nat] /\ more.size = info.size + 1 /\ more.capacity = info.capacity
  <2> DEFINE n == info.size + 1
  <2>1. n \in Nat
    BY <1>4
  <2> HIDE DEF n
  <2>2. more = [info EXCEPT !.size = n]
    BY DEF n
  <2> HIDE DEF more
  <2>3. more \in [size : Nat, capacity : Nat] /\ more.size = n /\ more.capacity = info.capacity
    BY <1>4, <2>1, <2>2
  <2>4. QED
    BY <2>3 DEF n
<1>8. /\ pc \in [BqThreads -> {"idle", "push", "pop", "wait"}] /\ pc[t] = "idle"
      /\ \A u \in BqThreads : u # t => pc[u] = bqPc[u]
  BY ThreadsApart DEF BqInv, BqTypes
<1> HIDE DEF q, w, more, pc
<1>9. /\ bqPc' \in [BqThreads -> {"idle", "push", "pop", "wait"}]
      /\ \A u \in BqThreads : u # w => bqPc'[u] = pc[u]
      /\ bqPc'[w] # "wait"
  <2>1. CASE bqPc[w] = "wait"
    <3>1. {v \in {w} : bqPc[v] = "wait"} = {w}
      BY <2>1
    <3>2. bqPc' = [pc EXCEPT ![w] = "pop"]
      BY <1>1, <1>3, <3>1, ThreadsApart DEF BqNotifyOne
    <3>3. QED
      BY <1>3, <1>8, <3>2, ThreadsApart
  <2>2. CASE bqPc[w] # "wait"
    <3>1. {v \in {w} : bqPc[v] = "wait"} = {}
      BY <2>2
    <3>2. bqPc' = pc
      BY <1>1, <3>1 DEF BqNotifyOne
    <3>3. QED
      BY <1>3, <1>8, <2>2, <3>2, ThreadsApart
  <2>3. QED
    BY <2>1, <2>2
<1>10. bqPc'[t] = "idle" /\ \A u \in BqPushers : u # t => bqPc'[u] = bqPc[u]
  BY <1>3, <1>8, <1>9, ThreadsApart
<1>11. /\ DOMAIN bqInfo' = DOMAIN bqInfo \cup {q} /\ DOMAIN bqInfo' \subseteq BqQueues
       /\ bqInfo' \in [DOMAIN bqInfo' -> [size : Nat, capacity : Nat]]
       /\ bqInfo'[q] = more /\ \A r \in DOMAIN bqInfo : r # q => bqInfo'[r] = bqInfo[r]
  <2>1. BqTypes /\ q \in BqQueues /\ more \in [size : Nat, capacity : Nat]
    BY <1>2, <1>7 DEF BqInv
  <2>2. /\ DOMAIN BqPut(q, more) = DOMAIN bqInfo \cup {q}
        /\ DOMAIN BqPut(q, more) \subseteq BqQueues
        /\ BqPut(q, more) \in [DOMAIN BqPut(q, more) -> [size : Nat, capacity : Nat]]
        /\ BqPut(q, more)[q] = more
        /\ \A r \in DOMAIN bqInfo : r # q => BqPut(q, more)[r] = bqInfo[r]
    BY <2>1, BqPutIs
  <2>3. QED
    BY <1>1, <1>6, <2>2
<1>12. /\ bqQueue \in [BqWorkers -> Seq(BqQueues)] /\ bqQueue[w] \in Seq(BqQueues)
       /\ bqQueue' \in [BqWorkers -> Seq(BqQueues)]
       /\ bqQueue'[w] = Append(bqQueue[w], q)
       /\ \A v \in BqWorkers : v # w => bqQueue'[v] = bqQueue[v]
  BY <1>1, <1>2, <1>3 DEF BqInv, BqTypes
<1>13. BqTypes'
  BY <1>1, <1>9, <1>11, <1>12 DEF BqInv, BqTypes
<1>14. BqInFlight' = BqInFlight \ {t} /\ \A r : BqWoken(r)' = BqWoken(r) \ {t}
  BY <1>1, <1>10 DEF BqInFlight, BqWoken
<1>15. BqPlaced'
  <2>1. ASSUME NEW v \in BqWorkers, NEW i \in 1..Len(bqQueue'[v])
        PROVE  BqMapper(bqQueue'[v][i]) = v /\ bqQueue'[v][i] \in DOMAIN bqInfo'
    <3>1. CASE v # w
      BY <1>11, <1>12, <3>1 DEF BqInv, BqPlaced
    <3>2. CASE v = w /\ i \in 1..Len(bqQueue[w])
      <4>1. bqQueue'[v][i] = bqQueue[w][i]
        BY <1>12, <3>2
      <4>2. QED
        BY <1>3, <1>11, <3>2, <4>1 DEF BqInv, BqPlaced
    <3>3. CASE v = w /\ i = Len(bqQueue[w]) + 1
      <4>1. bqQueue'[v][i] = q
        BY <1>12, <3>3
      <4>2. QED
        BY <1>11, <3>3, <4>1 DEF w
    <3>4. QED
      BY <1>12, <3>1, <3>2, <3>3
  <2>2. ASSUME NEW v \in BqWorkers, bqPc'[v] = "wait" PROVE bqQueue'[v] = <<>>
    BY <1>8, <1>9, <1>12, <2>2, ThreadsApart DEF BqInv, BqPlaced
  <2>3. \A u \in BqInFlight' : bqArg'[u] \in BqQueues /\ (bqPc'[u] = "wait" => bqArg'[u] \in DOMAIN bqInfo')
    BY <1>1, <1>10, <1>11, <1>14 DEF BqInv, BqPlaced, BqInFlight
  <2>4. QED
    BY <2>1, <2>2, <2>3 DEF BqPlaced
<1>16. BqCounted'
  <2>1. bqElements' = Cardinality(BqPlaces') /\ IsFiniteSet(BqPlaces')
    <3>1. Len(bqQueue'[w]) = Len(bqQueue[w]) + 1
      BY <1>12
    <3>2. BqPlaces' = BqPlaces \cup {<<w, Len(bqQueue[w]) + 1>>}
      BY <1>3, <1>12, <3>1, PlacesChange DEF BqInv
    <3>3. <<w, Len(bqQueue[w]) + 1>> \notin BqPlaces
      <4>1. Len(bqQueue[w]) + 1 \notin 1..Len(bqQueue[w])
        BY <1>12
      <4>2. QED
        BY <1>3, <1>12, <4>1, PlacesAre DEF BqPlaces
    <3>4. QED
      BY <1>1, <3>2, <3>3, FS_AddElement DEF BqInv, BqCounted
  <2>2. bqElements' + Cardinality(BqInFlight') <= bqPushed'
    <3>1. Cardinality(BqInFlight') = Cardinality(BqInFlight) - 1 /\ Cardinality(BqInFlight) \in Nat
      BY <1>2, <1>14, PushersFinite, FS_RemoveElement
    <3>2. bqElements + Cardinality(BqInFlight) <= bqPushed /\ bqElements \in Nat /\ bqPushed \in Int
      BY DEF BqInv, BqCounted, BqTypes
    <3>3. QED
      BY <1>1, <3>1, <3>2
  <2>3. \A r \in BqQueues : Cardinality(BqPositions(bqQueue'[w], r)) =
                              Cardinality(BqPositions(bqQueue[w], r)) + IF q = r THEN 1 ELSE 0
    BY <1>2, <1>12, PositionsAppend
  <2>4. bqInfo'[q].size = Cardinality(BqPositions(bqQueue'[w], q))
    BY <1>2, <1>5, <1>7, <1>11, <2>3
  <2>5. \A r \in BqQueues : r # q => Cardinality(BqPositions(bqQueue'[w], r)) =
                                      Cardinality(BqPositions(bqQueue[w], r))
    BY <1>12, <2>3, PositionsFinite
  <2>6. \A r \in DOMAIN bqInfo' :
           bqInfo'[r].size = Cardinality(BqPositions(bqQueue'[BqMapper(r)], r))
    BY <1>2, <1>3, <1>11, <1>12, <2>4, <2>5, SizesKept DEF w
  <2>7. QED
    BY <2>1, <2>2, <2>6 DEF BqCounted, BqPositions, BqMapper
<1>17. BqRoomIsOffered'
  <2> SUFFICES ASSUME ~bqSets.raised, NEW u \in BqPushers, bqPc'[u] = "wait",
                      NEW r, r = bqArg[u]
               PROVE  bqInfo'[r].size + Cardinality(BqWoken(r)') >= bqInfo'[r].capacity
    BY <1>1 DEF BqRoomIsOffered, BqWoken
  <2>1. bqPc[u] = "wait" /\ r \in DOMAIN bqInfo
    BY <1>10 DEF BqInv, BqPlaced, BqInFlight
  <2>2. bqInfo[r].size + Cardinality(BqWoken(r)) >= bqInfo[r].capacity
    BY <2>1 DEF BqInv, BqRoomIsOffered
  <2>3. CASE r = q
    <3>1. Cardinality(BqWoken(r)') = Cardinality(BqWoken(r)) - 1 /\ Cardinality(BqWoken(r)) \in Nat
      BY <1>2, <1>14, <2>3, PushersFinite, FS_RemoveElement
    <3>2. bqInfo'[r] = more /\ bqInfo[r] = info
      BY <1>6, <1>11, <2>1, <2>3
    <3>3. QED
      BY <1>4, <1>7, <2>2, <3>1, <3>2
  <2>4. CASE r # q
    <3>1. BqWoken(r)' = BqWoken(r)
      BY <1>14, <2>4 DEF BqWoken, q
    <3>2. QED
      BY <1>11, <2>1, <2>2, <2>4, <3>1
  <2>5. QED
    BY <2>3, <2>4
<1>18. QED
  BY <1>13, <1>15, <1>16, <1>17 DEF BqInv

\* pop_back from an empty queue: the worker waits.
LEMMA BqPopWaits ==
  ASSUME BqInv, NEW w \in BqWorkers, BqPop(w), bqQueue[w] = <<>>
  PROVE  BqInv'
<1>1. /\ bqPc' = [bqPc EXCEPT ![w] = "wait"]
      /\ UNCHANGED <<bqQueue, bqInfo, bqElements, bqDefault, bqArg, bqPushed, bqSets>>
  BY DEF BqPop
<1>2. /\ bqPc' \in [BqThreads -> {"idle", "push", "pop", "wait"}]
      /\ \A u \in BqThreads : u # w => bqPc'[u] = bqPc[u]
  BY <1>1, ThreadsApart DEF BqInv, BqTypes
<1>3. \A u \in BqPushers : bqPc'[u] = bqPc[u]
  BY <1>2, ThreadsApart
<1>4. BqInFlight' = BqInFlight /\ (\A r : BqWoken(r)' = BqWoken(r)) /\ BqPlaces' = BqPlaces
  BY <1>1, <1>3, PushersStay DEF BqPlaces
<1>5. BqTypes'
  BY <1>1, <1>2 DEF BqInv, BqTypes
<1>6. BqPlaced'
  BY <1>1, <1>2, <1>3, <1>4, ThreadsApart DEF BqInv, BqPlaced, BqInFlight
<1>7. BqCounted'
  BY <1>1, <1>4 DEF BqInv, BqCounted
<1>8. BqRoomIsOffered'
  BY <1>1, <1>3, <1>4 DEF BqInv, BqRoomIsOffered
<1>9. QED
  BY <1>5, <1>6, <1>7, <1>8 DEF BqInv

\* pop_back of an element: one of the pushers that wait for its queue is woken.
LEMMA BqPopGoesOut ==
  ASSUME BqInv, NEW w \in BqWorkers, BqPop(w), bqQueue[w] # <<>>
  PROVE  BqInv'
<1> DEFINE q == Head(bqQueue[w])
           less == [bqInfo[q] EXCEPT !.size = @ - 1]
           pc == [bqPc EXCEPT ![w] = "idle"]
           waiting == {t \in BqPushers : bqPc[t] = "wait" /\ bqArg[t] = q}
<1>1. /\ bqQueue' = [bqQueue EXCEPT ![w] = Tail(@)] /\ bqInfo' = BqPut(q, less)
      /\ bqElements' = bqElements - 1 /\ bqPc' \in BqNotifyOne(pc, waiting)
      /\ UNCHANGED <<bqDefault, bqArg, bqPushed, bqSets>>
  BY DEF BqPop
<1>2. /\ bqQueue \in [BqWorkers -> Seq(BqQueues)] /\ bqQueue[w] \in Seq(BqQueues)
      /\ Len(bqQueue[w]) \in Nat \ {0} /\ q = bqQueue[w][1] /\ q \in BqQueues
  BY DEF BqInv, BqTypes
<1>3. q \in DOMAIN bqInfo /\ BqMapper(q) = w
  BY <1>2 DEF BqInv, BqPlaced
<1>4. bqInfo[q] \in [size : Nat, capacity : Nat]
  BY <1>3 DEF BqInv, BqTypes
<1>5. bqInfo[q].size = Cardinality(BqPositions(bqQueue[w], q))
  BY <1>3 DEF BqInv, BqCounted
<1>6. \A r : Cardinality(BqPositions(bqQueue[w], r)) =
               Cardinality(BqPositions(Tail(bqQueue[w]), r)) + IF q = r THEN 1 ELSE 0
  BY <1>2, PositionsTail
<1>7. Tail(bqQueue[w]) \in Seq(BqQueues) /\ Len(Tail(bqQueue[w])) = Len(bqQueue[w]) - 1
      /\ \A i \in 1..Len(Tail(bqQueue[w])) : Tail(bqQueue[w])[i] = bqQueue[w][i + 1]
                                             /\ i + 1 \in 1..Len(bqQueue[w])
  BY <1>2
<1>8. \A r : Cardinality(BqPositions(Tail(bqQueue[w]), r)) \in Nat
  BY <1>7, PositionsFinite
<1>9. /\ bqInfo[q].size = Cardinality(BqPositions(Tail(bqQueue[w]), q)) + 1
      /\ bqInfo[q].size - 1 \in Nat
  <2>1. Cardinality(BqPositions(bqQueue[w], q)) = Cardinality(BqPositions(Tail(bqQueue[w]), q)) + 1
    BY <1>6
  <2>2. Cardinality(BqPositions(Tail(bqQueue[w]), q)) \in Nat
    BY <1>8
  <2> HIDE DEF q
  <2>3. QED
    BY <1>5, <2>1, <2>2
<1>10. /\ pc \in [BqThreads -> {"idle", "push", "pop", "wait"}] /\ pc[w] = "idle"
       /\ \A u \in BqThreads : u # w => pc[u] = bqPc[u]
  BY ThreadsApart DEF BqInv, BqTypes
<1> HIDE DEF q
<1>11. /\ less \in [size : Nat, capacity : Nat] /\ less.size = bqInfo[q].size - 1
       /\ less.capacity = bqInfo[q].capacity
  <2> DEFINE n == bqInfo[q].size - 1
  <2>1. n \in Nat
    BY <1>9
  <2>2. less = [bqInfo[q] EXCEPT !.size = n]
    OBVIOUS
  <2> HIDE DEF n, less
  <2>3. less \in [size : Nat, capacity : Nat] /\ less.size = n /\ less.capacity = bqInfo[q].capacity
    BY <1>4, <2>1, <2>2
  <2>4. QED
    BY <2>3 DEF n
<1> HIDE DEF less, pc
<1>12. /\ DOMAIN bqInfo' = DOMAIN bqInfo \cup {q} /\ DOMAIN bqInfo' \subseteq BqQueues
       /\ bqInfo' \in [DOMAIN bqInfo' -> [size : Nat, capacity : Nat]]
       /\ bqInfo'[q] = less /\ \A r \in DOMAIN bqInfo : r # q => bqInfo'[r] = bqInfo[r]
  <2>1. BqTypes /\ q \in BqQueues /\ less \in [size : Nat, capacity : Nat]
    BY <1>2, <1>11 DEF BqInv
  <2>2. /\ DOMAIN BqPut(q, less) = DOMAIN bqInfo \cup {q}
        /\ DOMAIN BqPut(q, less) \subseteq BqQueues
        /\ BqPut(q, less) \in [DOMAIN BqPut(q, less) -> [size : Nat, capacity : Nat]]
        /\ BqPut(q, less)[q] = less
        /\ \A r \in DOMAIN bqInfo : r # q => BqPut(q, less)[r] = bqInfo[r]
    BY <2>1, BqPutIs
  <2>3. QED
    BY <1>1, <2>2
<1>13. /\ bqQueue' \in [BqWorkers -> Seq(BqQueues)] /\ bqQueue'[w] = Tail(bqQueue[w])
       /\ \A v \in BqWorkers : v # w => bqQueue'[v] = bqQueue[v]
  BY <1>1, <1>2, <1>7
\* Who is woken: nobody, or one that waits for q.
<1>14. \/ waiting = {} /\ bqPc' = pc
       \/ \E u \in waiting : bqPc' = [pc EXCEPT ![u] = "push"]
  <2>1. CASE waiting = {}
    BY <1>1, <2>1 DEF BqNotifyOne
  <2>2. CASE waiting # {}
    <3> HIDE DEF waiting
    <3>1. PICK u \in waiting : bqPc' = [pc EXCEPT ![u] = IF u \in BqPushers THEN "push" ELSE "pop"]
      BY <1>1, <2>2 DEF BqNotifyOne
    <3>2. u \in BqPushers
      BY DEF waiting
    <3>3. QED
      BY <3>1, <3>2
  <2>3. QED
    BY <2>1, <2>2
<1>15. /\ bqPc' \in [BqThreads -> {"idle", "push", "pop", "wait"}] /\ bqPc'[w] # "wait"
       /\ \A v \in BqWorkers : v # w => bqPc'[v] = bqPc[v]
       /\ \A u \in BqPushers : bqPc'[u] = bqPc[u] \/ (u \in waiting /\ bqPc'[u] = "push")
  BY <1>10, <1>14, ThreadsApart
<1>16. BqTypes'
  <2>1. bqElements' \in Nat
    <3>1. Len(bqQueue[w]) \in 1..Len(bqQueue[w])
      BY <1>2
    <3>2. <<w, Len(bqQueue[w])>> \in BqPlaces
      BY <1>2, <3>1, PlacesAre DEF BqPlaces
    <3>3. Cardinality(BqPlaces) \in Nat /\ Cardinality(BqPlaces) # 0
      BY <3>2, FS_EmptySet, FS_CardinalityType DEF BqInv, BqCounted
    <3>4. QED
      BY <1>1, <3>3 DEF BqInv, BqCounted
  <2>2. QED
    BY <1>1, <1>12, <1>13, <1>15, <2>1 DEF BqInv, BqTypes
<1>17. BqInFlight' = BqInFlight
  BY <1>15 DEF BqInFlight
<1>18. BqPlaced'
  <2>1. ASSUME NEW v \in BqWorkers, NEW i \in 1..Len(bqQueue'[v])
        PROVE  BqMapper(bqQueue'[v][i]) = v /\ bqQueue'[v][i] \in DOMAIN bqInfo'
    <3>1. CASE v # w
      BY <1>12, <1>13, <3>1 DEF BqInv, BqPlaced
    <3>2. CASE v = w
      <4>1. i \in 1..Len(Tail(bqQueue[w])) /\ bqQueue'[v][i] = Tail(bqQueue[w])[i]
        BY <1>13, <3>2
      <4>2. bqQueue'[v][i] = bqQueue[w][i + 1] /\ i + 1 \in 1..Len(bqQueue[w])
        BY <1>7, <4>1
      <4>3. BqMapper(bqQueue[w][i + 1]) = w /\ bqQueue[w][i + 1] \in DOMAIN bqInfo
        BY <4>2 DEF BqInv, BqPlaced
      <4>4. QED
        BY <1>12, <3>2, <4>2, <4>3
    <3>3. QED
      BY <3>1, <3>2
  <2>2. ASSUME NEW v \in BqWorkers, bqPc'[v] = "wait" PROVE bqQueue'[v] = <<>>
    BY <1>13, <1>15, <2>2 DEF BqInv, BqPlaced
  <2>3. \A u \in BqInFlight' : bqArg'[u] \in BqQueues /\ (bqPc'[u] = "wait" => bqArg'[u] \in DOMAIN bqInfo')
    BY <1>1, <1>12, <1>15, <1>17 DEF BqInv, BqPlaced, BqInFlight
  <2>4. QED
    BY <2>1, <2>2, <2>3 DEF BqPlaced
<1>19. BqCounted'
  <2>1. bqElements' = Cardinality(BqPlaces') /\ IsFiniteSet(BqPlaces')
    <3>1. Len(bqQueue'[w]) = Len(bqQueue[w]) - 1
      BY <1>7, <1>13
    <3>2. BqPlaces' = BqPlaces \ {<<w, Len(bqQueue[w])>>}
      BY <1>13, <3>1, PlacesChange DEF BqInv
    <3>3. <<w, Len(bqQueue[w])>> \in BqPlaces
      <4>1. Len(bqQueue[w]) \in 1..Len(bqQueue[w])
        BY <1>2
      <4>2. QED
        BY <1>2, <4>1, PlacesAre DEF BqPlaces
    <3>4. QED
      BY <1>1, <3>2, <3>3, FS_RemoveElement DEF BqInv, BqCounted
  <2>2. bqElements' + Cardinality(BqInFlight') <= bqPushed'
    <3>1. bqElements + Cardinality(BqInFlight) <= bqPushed /\ bqElements \in Nat /\ bqPushed \in Int
          /\ Cardinality(BqInFlight) \in Nat
      BY PushersFinite DEF BqInv, BqCounted, BqTypes
    <3>2. QED
      BY <1>1, <1>17, <3>1
  <2>4. bqInfo'[q].size = Cardinality(BqPositions(bqQueue'[w], q))
    BY <1>8, <1>9, <1>11, <1>12, <1>13
  <2>5. \A r \in BqQueues : r # q => Cardinality(BqPositions(bqQueue'[w], r)) =
                                      Cardinality(BqPositions(bqQueue[w], r))
    BY <1>6, <1>8, <1>13
  <2>6. \A r \in DOMAIN bqInfo' :
           bqInfo'[r].size = Cardinality(BqPositions(bqQueue'[BqMapper(r)], r))
    BY <1>2, <1>3, <1>12, <1>13, <2>4, <2>5, SizesKept
  <2>7. QED
    BY <2>1, <2>2, <2>6 DEF BqCounted, BqPositions, BqMapper
<1>20. BqRoomIsOffered'
  <2> SUFFICES ASSUME ~bqSets.raised, NEW t \in BqPushers, bqPc'[t] = "wait",
                      NEW r, r = bqArg[t]
               PROVE  bqInfo'[r].size + Cardinality(BqWoken(r)') >= bqInfo'[r].capacity
    BY <1>1 DEF BqRoomIsOffered, BqWoken
  <2>1. bqPc[t] = "wait" /\ r \in DOMAIN bqInfo
    BY <1>15 DEF BqInv, BqPlaced, BqInFlight
  <2>2. bqInfo[r].size + Cardinality(BqWoken(r)) >= bqInfo[r].capacity
    BY <2>1 DEF BqInv, BqRoomIsOffered
  <2>3. CASE r = q
    <3>1. t \in waiting
      BY <2>1, <2>3
    <3>2. PICK u \in waiting : bqPc' = [pc EXCEPT ![u] = "push"]
      BY <1>14, <3>1
    <3>3. /\ u \in BqPushers /\ bqPc[u] = "wait" /\ bqArg[u] = q /\ bqPc'[u] = "push"
          /\ \A v \in BqPushers : v # u => bqPc'[v] = bqPc[v]
      BY <1>10, <3>2, ThreadsApart
    <3>4. BqWoken(r)' = BqWoken(r) \cup {u} /\ u \notin BqWoken(r)
      BY <1>1, <2>3, <3>3 DEF BqWoken
    <3>5. Cardinality(BqWoken(r)') = Cardinality(BqWoken(r)) + 1 /\ Cardinality(BqWoken(r)) \in Nat
      BY <3>4, PushersFinite, FS_AddElement
    <3>6. bqInfo'[r] = less
      BY <1>12, <2>3
    <3>7. QED
      BY <1>4, <1>11, <2>2, <2>3, <3>5, <3>6
  <2>4. CASE r # q
    <3>1. BqWoken(r)' = BqWoken(r)
      BY <1>1, <1>15, <2>4 DEF BqWoken
    <3>2. QED
      BY <1>12, <2>1, <2>2, <2>4, <3>1
  <2>5. QED
    BY <2>3, <2>4
<1>21. QED
  BY <1>16, <1>18, <1>19, <1>20 DEF BqInv

\* set_capacity and set_capacity_for_all: the sizes stay, and unless a capacity
\* is raised so does what was promised to those who wait.
LEMMA BqCapacitiesKeep ==
  ASSUME BqInv, UNCHANGED <<bqQueue, bqElements, bqPc, bqArg, bqPushed>>,
         bqDefault' \in Nat, bqSets'.raised \in BOOLEAN,
         ~bqSets'.raised => ~bqSets.raised,
         DOMAIN bqInfo \subseteq DOMAIN bqInfo', DOMAIN bqInfo' \subseteq BqQueues,
         bqInfo' \in [DOMAIN bqInfo' -> [size : Nat, capacity : Nat]],
         \A r \in DOMAIN bqInfo' : bqInfo'[r].size = BqGet(r).size,
         ~bqSets'.raised => \A r \in DOMAIN bqInfo : bqInfo'[r].capacity <= bqInfo[r].capacity
  PROVE  BqInv'
<1>1. /\ BqInFlight' = BqInFlight /\ (\A r : BqWoken(r)' = BqWoken(r)) /\ BqPlaces' = BqPlaces
  BY PushersStay DEF BqPlaces
<1>2. BqTypes'
  BY DEF BqInv, BqTypes
<1>3. BqPlaced'
  BY <1>1 DEF BqInv, BqPlaced
<1>4. BqCounted'
  <2>1. \A r \in DOMAIN bqInfo' : bqInfo'[r].size = Cardinality(BqPositions(bqQueue[BqMapper(r)], r))
    BY BqSizeIs
  <2>2. QED
    BY <1>1, <2>1 DEF BqInv, BqCounted
<1>5. BqRoomIsOffered'
  <2> SUFFICES ASSUME ~bqSets'.raised, NEW t \in BqPushers, bqPc[t] = "wait", NEW r, r = bqArg[t]
               PROVE  bqInfo'[r].size + Cardinality(BqWoken(r)) >= bqInfo'[r].capacity
    BY <1>1 DEF BqRoomIsOffered
  <2>1. r \in DOMAIN bqInfo /\ bqInfo[r] \in [size : Nat, capacity : Nat]
    BY DEF BqInv, BqPlaced, BqInFlight, BqTypes
  <2>2. bqInfo[r].size + Cardinality(BqWoken(r)) >= bqInfo[r].capacity
    BY <2>1 DEF BqInv, BqRoomIsOffered
  <2>3. /\ bqInfo'[r].size = bqInfo[r].size /\ bqInfo'[r].capacity <= bqInfo[r].capacity
        /\ bqInfo'[r] \in [size : Nat, capacity : Nat]
    BY <2>1 DEF BqGet
  <2>4. QED
    BY <2>1, <2>2, <2>3, PushersFinite
<1>6. QED
  BY <1>2, <1>3, <1>4, <1>5 DEF BqInv

\* set_capacity of a queue wakes nobody: a raised capacity ends the claim.
LEMMA BqSetCapacityKeeps ==
  ASSUME BqInv, NEW q \in BqQueues, NEW c \in BqCapacities, BqSetCapacity(q, c)
  PROVE  BqInv'
<1> DEFINE info == [BqGet(q) EXCEPT !.capacity = c]
<1>1. /\ bqInfo' = BqPut(q, info) /\ bqSets'.raised = (bqSets.raised \/ c > BqGet(q).capacity)
      /\ UNCHANGED <<bqQueue, bqDefault, bqElements, bqPc, bqArg, bqPushed>>
  BY DEF BqSetCapacity
<1>2. BqGet(q) \in [size : Nat, capacity : Nat] /\ c \in Nat /\ BqTypes
  BY BqGetIs, BqAssumption DEF BqInv
<1>3. info \in [size : Nat, capacity : Nat] /\ info.size = BqGet(q).size /\ info.capacity = c
  BY <1>2
<1> HIDE DEF info
<1>4. /\ DOMAIN bqInfo' = DOMAIN bqInfo \cup {q} /\ DOMAIN bqInfo' \subseteq BqQueues
      /\ bqInfo' \in [DOMAIN bqInfo' -> [size : Nat, capacity : Nat]]
      /\ bqInfo'[q] = info /\ \A r \in DOMAIN bqInfo : r # q => bqInfo'[r] = bqInfo[r]
  <2>1. /\ DOMAIN BqPut(q, info) = DOMAIN bqInfo \cup {q}
        /\ DOMAIN BqPut(q, info) \subseteq BqQueues
        /\ BqPut(q, info) \in [DOMAIN BqPut(q, info) -> [size : Nat, capacity : Nat]]
        /\ BqPut(q, info)[q] = info
        /\ \A r \in DOMAIN bqInfo : r # q => BqPut(q, info)[r] = bqInfo[r]
    BY <1>2, <1>3, BqPutIs
  <2>2. QED
    BY <1>1, <2>1
<1>5. bqSets'.raised \in BOOLEAN /\ (~bqSets'.raised => ~bqSets.raised /\ ~(c > BqGet(q).capacity))
  BY <1>1, Zenon DEF BqInv, BqTypes
<1>6. \A r \in DOMAIN bqInfo' : bqInfo'[r].size = BqGet(r).size
  BY <1>3, <1>4 DEF BqGet
<1>7. ASSUME ~bqSets'.raised, NEW r \in DOMAIN bqInfo
      PROVE  bqInfo'[r].capacity <= bqInfo[r].capacity
  <2>0. bqInfo[r] \in [size : Nat, capacity : Nat]
    BY <1>2 DEF BqTypes
  <2>1. CASE r = q
    BY <1>2, <1>3, <1>4, <1>5, <1>7, <2>1 DEF BqGet
  <2>2. CASE r # q
    BY <1>4, <2>0, <2>2
  <2>3. QED
    BY <2>1, <2>2
<1>8. bqDefault' \in Nat
  BY <1>1, <1>2 DEF BqTypes
<1>9. QED
  BY <1>1, <1>4, <1>5, <1>6, <1>7, <1>8, BqCapacitiesKeep

\* set_capacity_for_all wakes nobody either.
LEMMA BqSetCapacityForAllKeeps ==
  ASSUME BqInv, NEW c \in BqCapacities, BqSetCapacityForAll(c)
  PROVE  BqInv'
<1>1. /\ bqInfo' = [q \in DOMAIN bqInfo |-> [bqInfo[q] EXCEPT !.capacity = c]] /\ bqDefault' = c
      /\ bqSets'.raised = (bqSets.raised \/ \E q \in BqQueues : c > BqGet(q).capacity)
      /\ UNCHANGED <<bqQueue, bqElements, bqPc, bqArg, bqPushed>>
  BY DEF BqSetCapacityForAll
<1>2. c \in Nat /\ BqTypes
  BY BqAssumption DEF BqInv
<1>3. \A r \in DOMAIN bqInfo : bqInfo[r] \in [size : Nat, capacity : Nat] /\ BqGet(r) = bqInfo[r]
                               /\ r \in BqQueues
  BY <1>2 DEF BqTypes, BqGet
<1>4. /\ DOMAIN bqInfo' = DOMAIN bqInfo
      /\ \A r \in DOMAIN bqInfo : /\ bqInfo'[r] \in [size : Nat, capacity : Nat]
                                  /\ bqInfo'[r].size = bqInfo[r].size /\ bqInfo'[r].capacity = c
  BY <1>1, <1>2, <1>3
<1>5. bqInfo' \in [DOMAIN bqInfo' -> [size : Nat, capacity : Nat]]
  <2>1. bqInfo' = [q \in DOMAIN bqInfo' |-> bqInfo'[q]]
    BY <1>1
  <2>2. QED
    BY <1>4, <2>1
<1>6. bqSets'.raised \in BOOLEAN
      /\ (~bqSets'.raised => ~bqSets.raised /\ \A q \in BqQueues : ~(c > BqGet(q).capacity))
  BY <1>1, Zenon DEF BqInv, BqTypes
<1>7. ~bqSets'.raised => \A r \in DOMAIN bqInfo : bqInfo'[r].capacity <= bqInfo[r].capacity
  BY <1>2, <1>3, <1>4, <1>6
<1>8. DOMAIN bqInfo' \subseteq BqQueues /\ bqDefault' \in Nat
      /\ \A r \in DOMAIN bqInfo' : bqInfo'[r].size = BqGet(r).size
  BY <1>1, <1>2, <1>3, <1>4
<1>9. QED
  BY <1>1, <1>4, <1>5, <1>6, <1>7, <1>8, BqCapacitiesKeep

\* Sizes, counts and wake-ups of the blocking queues agree with the queues: while
\* somebody waits for a logical queue, it is full or as many pushers have been
\* woken for it as there is room.
THEOREM BlockingInvariant == BqSpec => []BqInv
<1>1. BqInit => BqInv
  <2> SUFFICES ASSUME BqInit PROVE BqInv
    OBVIOUS
  <2>1. bqSets.raised = FALSE /\ bqInfo = <<>> /\ bqElements = 0 /\ bqPushed = 0
        /\ bqQueue = [w \in BqWorkers |-> <<>>]
    BY DEF BqInit
  <2>2. bqSets.raised \in BOOLEAN
    BY <2>1, Zenon
  <2>3. DOMAIN bqInfo = {} /\ bqInfo = [q \in {} |-> q]
    BY <2>1
  <2>4. bqPushed \in 0..BqMaxPush
    BY <2>1, BqAssumption
  <2>5. BqTypes
    BY <2>1, <2>2, <2>3, <2>4, BqAssumption DEF BqInit, BqTypes
  <2>6. BqInFlight = {} /\ BqPlaces = {}
    BY <2>1 DEF BqInit, BqInFlight, BqPlaces, BqThreads
  <2>7. BqPlaced
    BY <2>1, <2>6, ThreadsApart DEF BqInit, BqPlaced
  <2>8. BqCounted
    BY <2>1, <2>3, <2>6, FS_EmptySet DEF BqCounted
  <2>9. BqRoomIsOffered
    BY ThreadsApart DEF BqInit, BqRoomIsOffered
  <2>10. QED
    BY <2>5, <2>7, <2>8, <2>9 DEF BqInv
<1>2. BqInv /\ [BqNext]_bqVars => BqInv'
  <2> SUFFICES ASSUME BqInv, [BqNext]_bqVars PROVE BqInv'
    OBVIOUS
  <2>1. CASE UNCHANGED bqVars
    BY <2>1 DEF bqVars, BqInv, BqTypes, BqPlaced, BqCounted, BqRoomIsOffered, BqInFlight,
                BqWoken, BqPlaces
  <2>2. ASSUME NEW t \in BqPushers, BqPush(t) PROVE BqInv'
    BY <2>2, BqPushWaits, BqPushGoesIn
  <2>3. ASSUME NEW w \in BqWorkers, BqPop(w) PROVE BqInv'
    BY <2>3, BqPopWaits, BqPopGoesOut
  <2>4. CASE BqNext
    BY <2>2, <2>3, <2>4, BqCallKeeps, BqSetCapacityKeeps, BqSetCapacityForAllKeeps DEF BqNext
  <2>5. QED
    BY <2>1, <2>4
<1>3. QED
  BY <1>1, <1>2, PTL DEF BqSpec

\* The invariant is strong enough.
LEMMA BqInvSuffices == BqInv => BqTypeOK /\ NobodySleepsThrough
<1> SUFFICES ASSUME BqInv PROVE BqTypeOK /\ NobodySleepsThrough
  OBVIOUS
<1>1. BqTypeOK
  <2>1. /\ bqElements + Cardinality(BqInFlight) <= bqPushed /\ bqElements \in Nat
        /\ bqPushed \in 0..BqMaxPush /\ Cardinality(BqInFlight) \in Nat
    BY PushersFinite DEF BqInv, BqCounted, BqTypes
  <2>2. bqElements \in 0..BqMaxPush
    BY <2>1, BqAssumption
  <2>3. QED
    BY <2>2 DEF BqTypeOK, BqInv, BqTypes, BqPlaced
<1>2. ASSUME ~bqSets.raised, NEW t \in BqPushers, bqPc[t] = "wait",
             bqInfo[bqArg[t]].size < bqInfo[bqArg[t]].capacity
      PROVE  \E u \in BqPushers : bqPc[u] = "push" /\ bqArg[u] = bqArg[t]
  <2>1. bqArg[t] \in DOMAIN bqInfo /\ bqInfo[bqArg[t]] \in [size : Nat, capacity : Nat]
    BY <1>2 DEF BqInv, BqPlaced, BqInFlight, BqTypes
  <2>2. bqInfo[bqArg[t]].size + Cardinality(BqWoken(bqArg[t])) >= bqInfo[bqArg[t]].capacity
    BY <1>2 DEF BqInv, BqRoomIsOffered
  <2>3. Cardinality(BqWoken(bqArg[t])) # 0
    BY <1>2, <2>1, <2>2, PushersFinite
  <2>4. BqWoken(bqArg[t]) # {}
    BY <2>3, FS_EmptySet
  <2>5. QED
    BY <2>4 DEF BqWoken
<1>3. bqElements = 0 <=> \A w \in BqWorkers : bqQueue[w] = <<>>
  <2>1. bqElements = 0 <=> BqPlaces = {}
    BY FS_EmptySet DEF BqInv, BqCounted
  <2>2. bqQueue \in [BqWorkers -> Seq(BqQueues)]
    BY DEF BqInv, BqTypes
  <2>3. ASSUME NEW w \in BqWorkers, bqQueue[w] # <<>> PROVE BqPlaces # {}
    <3>1. 1 \in 1..Len(bqQueue[w])
      BY <2>2, <2>3
    <3>2. <<w, 1>> \in BqPlaces
      BY <2>2, <3>1, PlacesAre DEF BqPlaces
    <3>3. QED
      BY <3>2
  <2>4. ASSUME BqPlaces # {} PROVE \E w \in BqWorkers : bqQueue[w] # <<>>
    <3>1. PICK e \in BqPlaces : TRUE
      BY <2>4
    <3>2. PICK w \in BqWorkers : \E i \in 1..Len(bqQueue[w]) : e = <<w, i>>
      BY <2>2, <3>1, PlacesArePairs DEF BqPlaces
    <3>3. QED
      BY <2>2, <3>2
  <2>5. QED
    BY <2>1, <2>3, <2>4
<1>4. NobodySleepsThrough
  BY <1>2, <1>3 DEF NobodySleepsThrough, BqInv, BqPlaced, BqCounted
<1>5. QED
  BY <1>1, <1>4

-----------------------------------------------------------------------------
(* RateQueue.                                                              *)

\* Every set of numbers that is not empty has a smallest one.
LEMMA LeastNatural ==
  ASSUME NEW S, S \subseteq Nat, S # {}
  PROVE  \E n \in S : \A m \in S : n <= m
<1> DEFINE R == OpToRel(<, Nat)
<1>1. \A x, y \in Nat : <<x, y>> \in R <=> x < y
  BY DEF OpToRel
<1>2. IsWellFoundedOn(R, Nat)
  BY NatLessThanWellFounded
<1> HIDE DEF R
<1>3. PICK n \in S : \A m \in S : ~(<<m, n>> \in R)
  BY <1>2, WFMin
<1>4. ASSUME NEW m \in S PROVE n <= m
  <2>1. n \in Nat /\ m \in Nat /\ ~(m < n)
    BY <1>1, <1>3
  <2>2. QED
    BY <2>1
<1>5. QED
  BY <1>3, <1>4

\* Hence a smallest element for Min, and, below a bound, a greatest for Max.
LEMMA MinIs ==
  ASSUME NEW S, S \subseteq Nat, S # {}
  PROVE  Min(S) \in S /\ \A m \in S : Min(S) <= m
<1>1. PICK n \in S : \A m \in S : n <= m
  BY LeastNatural
<1>2. \E x \in S : \A y \in S : x <= y
  BY <1>1
<1>3. QED
  BY <1>2 DEF Min

\* The maximum of a bounded set of numbers is one of them.
LEMMA MaxIs ==
  ASSUME NEW b \in Nat, NEW S, S \subseteq 0..b, S # {}
  PROVE  Max(S) \in S
<1> DEFINE T == {b - x : x \in S}
<1>1. T \subseteq Nat /\ T # {}
  OBVIOUS
<1>2. PICK n \in T : \A m \in T : n <= m
  BY <1>1, LeastNatural
<1>3. PICK x \in S : n = b - x
  BY <1>2
<1>4. \A y \in S : x >= y
  BY <1>2, <1>3
<1>5. \E z \in S : \A y \in S : z >= y
  BY <1>4
<1>6. QED
  BY <1>5 DEF Max

\* The records of the queues and priorities.
RqRec == [size : Nat, capacity : Nat, delay : Nat, last : Nat]

\* The record of a queue that exists or that is created now, and putting it back.
LEMMA RqGetIs ==
  ASSUME RqInv, NEW q \in RqQueues
  PROVE  /\ RqGet(q) \in [RqPris -> RqRec]
         /\ \A p \in RqPris : RqGet(q)[p].size = Cardinality(RqOf(rqElems, q, p))
         /\ \A e \in rqElems : e.queue = q => e.send <= RqGet(q)[e.pri].last
         /\ q \in DOMAIN rqInfo => RqGet(q) = rqInfo[q]
<1>1. CASE q \in DOMAIN rqInfo
  BY <1>1 DEF RqInv, RqTypes, RqElemsFit, RateQueueKeepsOrder, RqGet, RqRec
<1>2. CASE q \notin DOMAIN rqInfo
  <2>1. \A e \in rqElems : e.queue # q
    BY <1>2 DEF RqInv, RqElemsFit
  <2>2. \A p \in RqPris : RqOf(rqElems, q, p) = {}
    BY <2>1 DEF RqOf
  <2>3. RqGet(q) = [p \in RqPris |-> [size |-> 0, capacity |-> rqDefault.capacity,
                                     delay |-> rqDefault.delay, last |-> rqNow]]
    BY <1>2 DEF RqGet
  <2>4. rqNow \in Nat /\ rqDefault.capacity \in Nat /\ rqDefault.delay \in Nat
    BY RqAssumption DEF RqInv, RqTypes
  <2>5. RqGet(q) \in [RqPris -> RqRec] /\ \A p \in RqPris : RqGet(q)[p].size = 0
    BY <2>3, <2>4 DEF RqRec
  <2>6. QED
    BY <1>2, <2>1, <2>2, <2>5, FS_EmptySet
<1>3. QED
  BY <1>1, <1>2

\* The record of one rate-limited queue is written, the others stay.
LEMMA RqPutIs ==
  ASSUME RqTypes, NEW q \in RqQueues, NEW info \in [RqPris -> RqRec]
  PROVE  /\ DOMAIN RqPut(q, info) = DOMAIN rqInfo \cup {q}
         /\ DOMAIN RqPut(q, info) \subseteq RqQueues
         /\ RqPut(q, info) \in [DOMAIN RqPut(q, info) -> [RqPris -> RqRec]]
         /\ RqPut(q, info)[q] = info
         /\ \A r \in DOMAIN rqInfo : r # q => RqPut(q, info)[r] = rqInfo[r]
  BY DEF RqTypes, RqPut, RqRec

\* A step that leaves the elements, their sizes and their last times alone.
LEMMA RqSettingsKeep ==
  ASSUME RqInv, UNCHANGED <<rqNow, rqElems, rqWorker, rqUntil, rqPopped>>,
         rqDefault' \in [capacity : Nat, delay : Nat],
         rqCount' \in [push : Nat, set : Nat], rqCount'.push >= rqCount.push,
         DOMAIN rqInfo \subseteq DOMAIN rqInfo', DOMAIN rqInfo' \subseteq RqQueues,
         rqInfo' \in [DOMAIN rqInfo' -> [RqPris -> RqRec]],
         \A q \in DOMAIN rqInfo', p \in RqPris :
           rqInfo'[q][p].size = RqGet(q)[p].size /\ rqInfo'[q][p].last = RqGet(q)[p].last
  PROVE  RqInv'
<1>1. RqTypes'
  BY DEF RqInv, RqTypes, RqRec
<1>2. \A q \in DOMAIN rqInfo', p \in RqPris :
        /\ rqInfo'[q][p].size = Cardinality(RqOf(rqElems, q, p))
        /\ \A e \in rqElems : e.queue = q /\ e.pri = p => e.send <= rqInfo'[q][p].last
  BY RqGetIs
<1>3. \A e \in rqElems : e.queue \in DOMAIN rqInfo' /\ e.pri \in RqPris /\ e.id \in Nat
                         /\ e.id <= rqCount.push
  BY DEF RqInv, RqElemsFit, RqTypes
<1>4. rqCount.push \in Nat /\ rqCount'.push \in Nat /\ rqPopped \in [RqQueues -> [RqPris -> Nat]]
  BY DEF RqInv, RqTypes
<1>5. RqElemsFit'
  <2>1. \A e \in rqElems : e.send <= rqInfo'[e.queue][e.pri].last
    BY <1>2, <1>3
  <2>2. \A e \in rqElems : e.id <= rqCount'.push
    BY <1>3, <1>4
  <2>3. \A q \in RqQueues, p \in RqPris : rqPopped[q][p] <= rqCount'.push
    BY <1>4 DEF RqInv, RqElemsFit
  <2>4. QED
    BY <1>3, <2>1, <2>2, <2>3 DEF RqInv, RqElemsFit
<1>6. RateQueueKeepsOrder'
  BY <1>2 DEF RqInv, RateQueueKeepsOrder, RqOf, RqBefore
<1>7. QED
  BY <1>1, <1>5, <1>6 DEF RqInv

\* What an element is.
LEMMA ElemIs ==
  ASSUME RqInv, NEW e \in rqElems
  PROVE  /\ e \in [queue : RqQueues, pri : RqPris, send : Nat, id : Nat]
         /\ e.queue \in RqQueues /\ e.pri \in RqPris /\ e.send \in Nat /\ e.id \in Nat
         /\ e.queue \in DOMAIN rqInfo
  BY DEF RqInv, RqTypes, RqElemsFit

\* push_front to a full queue drops the element.
LEMMA RqPushDrops ==
  ASSUME RqInv, NEW q \in RqQueues, NEW pri \in RqPris, RqPush(q, pri),
         RqGet(q)[pri].size >= RqGet(q)[pri].capacity
  PROVE  RqInv'
<1> DEFINE info == RqGet(q)
           n == rqCount.push + 1
<1>1. /\ rqInfo' = RqPut(q, info) /\ rqCount' = [rqCount EXCEPT !.push = n]
      /\ UNCHANGED <<rqElems, rqWorker, rqNow, rqDefault, rqUntil, rqPopped>>
  BY DEF RqPush
<1>2. info \in [RqPris -> RqRec] /\ (q \in DOMAIN rqInfo => rqInfo[q] = info)
  BY RqGetIs
<1>3. rqCount \in [push : Nat, set : Nat] /\ rqCount.push \in Nat /\ RqTypes
  BY DEF RqInv, RqTypes
<1>4. n \in Nat /\ n >= rqCount.push
  BY <1>3
<1> HIDE DEF n
<1>5. rqCount' \in [push : Nat, set : Nat] /\ rqCount'.push >= rqCount.push
  BY <1>1, <1>3, <1>4
<1>6. info = RqGet(q)
  OBVIOUS
<1> HIDE DEF info
<1>7. /\ DOMAIN rqInfo' = DOMAIN rqInfo \cup {q} /\ DOMAIN rqInfo' \subseteq RqQueues
      /\ rqInfo' \in [DOMAIN rqInfo' -> [RqPris -> RqRec]]
      /\ rqInfo'[q] = info /\ \A r \in DOMAIN rqInfo : r # q => rqInfo'[r] = rqInfo[r]
  <2>1. /\ DOMAIN RqPut(q, info) = DOMAIN rqInfo \cup {q}
        /\ DOMAIN RqPut(q, info) \subseteq RqQueues
        /\ RqPut(q, info) \in [DOMAIN RqPut(q, info) -> [RqPris -> RqRec]]
        /\ RqPut(q, info)[q] = info
        /\ \A r \in DOMAIN rqInfo : r # q => RqPut(q, info)[r] = rqInfo[r]
    BY <1>2, <1>3, RqPutIs
  <2>2. QED
    BY <1>1, <2>1
<1>8. \A r \in DOMAIN rqInfo' : rqInfo'[r] = RqGet(r)
  BY <1>6, <1>7 DEF RqGet
<1>9. rqDefault' \in [capacity : Nat, delay : Nat]
  BY <1>1, <1>3 DEF RqTypes
<1>10. QED
  BY <1>1, <1>5, <1>7, <1>8, <1>9, RqSettingsKeep

\* push_front to a queue with room: the element leaves no earlier than those of
\* its queue and priority that are there.
LEMMA RqPushGoesIn ==
  ASSUME RqInv, NEW q \in RqQueues, NEW pri \in RqPris, RqPush(q, pri),
         ~(RqGet(q)[pri].size >= RqGet(q)[pri].capacity)
  PROVE  RqInv'
<1> DEFINE info == RqGet(q)
           send == RqNextTp(info[pri])
           n == rqCount.push + 1
           elem == [queue |-> q, pri |-> pri, send |-> send, id |-> n]
           k == info[pri].size + 1
           rec == [info[pri] EXCEPT !.size = k, !.last = send]
           after == [info EXCEPT ![pri] = rec]
<1>1. info \in [RqPris -> RqRec] /\ info[pri] \in RqRec
      /\ info[pri].size = Cardinality(RqOf(rqElems, q, pri))
      /\ (\A p \in RqPris : info[p].size = Cardinality(RqOf(rqElems, q, p)))
      /\ (\A e \in rqElems : e.queue = q => e.send <= info[e.pri].last)
  BY RqGetIs
<1>2. /\ rqElems' = rqElems \cup {elem}
      /\ rqInfo' = RqPut(q, [info EXCEPT ![pri].size = @ + 1, ![pri].last = send])
      /\ rqWorker' = (IF rqWorker = "idle" THEN "idle" ELSE "pop")
      /\ rqCount' = [rqCount EXCEPT !.push = n]
      /\ UNCHANGED <<rqNow, rqDefault, rqUntil, rqPopped>>
  BY DEF RqPush
<1>3. rqCount \in [push : Nat, set : Nat] /\ rqCount.push \in Nat /\ RqTypes /\ rqNow \in Nat
  BY RqAssumption DEF RqInv, RqTypes
<1>4. n \in Nat /\ n > rqCount.push
  BY <1>3
<1>5. /\ info[pri].last \in Nat /\ info[pri].delay \in Nat /\ info[pri].size \in Nat
      /\ info[pri].capacity \in Nat
  BY <1>1 DEF RqRec
<1> HIDE DEF info
<1>6. send \in Nat /\ send >= info[pri].last
  BY <1>3, <1>5 DEF RqNextTp
<1>7. k \in Nat
  BY <1>5
<1>8. [info EXCEPT ![pri].size = @ + 1, ![pri].last = send] = after
  BY <1>1
<1> HIDE DEF send, n, k
<1>9. rec \in RqRec /\ rec.size = k /\ rec.last = send
  BY <1>1, <1>6, <1>7 DEF RqRec
<1> HIDE DEF rec
<1>10. after \in [RqPris -> RqRec] /\ after[pri] = rec /\ \A p \in RqPris : p # pri => after[p] = info[p]
  BY <1>1, <1>9
<1>11. /\ elem \in [queue : RqQueues, pri : RqPris, send : Nat, id : Nat]
       /\ elem.queue = q /\ elem.pri = pri /\ elem.send = send /\ elem.id = n
  BY <1>4, <1>6
<1>12. rqInfo' = RqPut(q, after)
  BY <1>2, <1>8
<1> HIDE DEF after, elem
<1>13. /\ DOMAIN rqInfo' = DOMAIN rqInfo \cup {q} /\ DOMAIN rqInfo' \subseteq RqQueues
       /\ rqInfo' \in [DOMAIN rqInfo' -> [RqPris -> RqRec]]
       /\ rqInfo'[q] = after /\ \A r \in DOMAIN rqInfo : r # q => rqInfo'[r] = rqInfo[r]
  <2>1. /\ DOMAIN RqPut(q, after) = DOMAIN rqInfo \cup {q}
        /\ DOMAIN RqPut(q, after) \subseteq RqQueues
        /\ RqPut(q, after) \in [DOMAIN RqPut(q, after) -> [RqPris -> RqRec]]
        /\ RqPut(q, after)[q] = after
        /\ \A r \in DOMAIN rqInfo : r # q => RqPut(q, after)[r] = rqInfo[r]
    BY <1>3, <1>10, RqPutIs
  <2>2. QED
    BY <1>12, <2>1
<1>14. rqCount' \in [push : Nat, set : Nat] /\ rqCount'.push = n
  BY <1>2, <1>3, <1>4
<1>15. \A e \in rqElems : e.id < n /\ e.id \in Nat
  BY <1>3, <1>4, ElemIs DEF RqInv, RqElemsFit
<1>16. elem \notin rqElems
  BY <1>4, <1>11, <1>15
<1>17. RqTypes'
  <2>1. IsFiniteSet(rqElems') /\ rqElems' \subseteq [queue : RqQueues, pri : RqPris, send : Nat, id : Nat]
    BY <1>2, <1>3, <1>11, FS_AddElement DEF RqTypes
  <2>2. rqWorker' \in {"idle", "pop", "wait", "until"}
    BY <1>2
  <2>3. QED
    BY <1>2, <1>3, <1>13, <1>14, <2>1, <2>2 DEF RqTypes, RqRec
<1>18. \A e \in rqElems : e.queue = q /\ e.pri = pri => e.send <= send /\ e.send \in Nat
  BY <1>1, <1>5, <1>6, ElemIs
<1>19. RqElemsFit'
  <2>1. ASSUME NEW e \in rqElems'
        PROVE  /\ e.queue \in DOMAIN rqInfo' /\ e.send <= rqInfo'[e.queue][e.pri].last
               /\ e.id <= rqCount'.push
    <3>1. CASE e = elem
      BY <1>4, <1>6, <1>9, <1>10, <1>11, <1>13, <1>14, <3>1
    <3>2. CASE e \in rqElems
      <4>1. e.queue \in DOMAIN rqInfo /\ e.pri \in RqPris /\ e.send <= rqInfo[e.queue][e.pri].last
        BY <3>2, ElemIs DEF RqInv, RqElemsFit
      <4>2. e.id <= rqCount'.push
        BY <1>4, <1>14, <1>15, <3>2
      <4>3. CASE e.queue = q
        <5>1. e.send <= info[e.pri].last
          BY <1>1, <3>2, <4>3
        <5>2. CASE e.pri = pri
          BY <1>9, <1>10, <1>13, <1>18, <3>2, <4>2, <4>3, <5>2
        <5>3. CASE e.pri # pri
          BY <1>10, <1>13, <4>1, <4>2, <4>3, <5>1, <5>3
        <5>4. QED
          BY <5>2, <5>3
      <4>4. CASE e.queue # q
        BY <1>13, <4>1, <4>2, <4>4
      <4>5. QED
        BY <4>3, <4>4
    <3>3. QED
      BY <1>2, <3>1, <3>2
  <2>2. ASSUME NEW e \in rqElems', NEW f \in rqElems', e.id = f.id PROVE e = f
    BY <1>2, <1>4, <1>11, <1>15, <2>2 DEF RqInv, RqElemsFit
  <2>3. ASSUME NEW r \in RqQueues, NEW p \in RqPris PROVE rqPopped'[r][p] <= rqCount'.push
    <3>1. rqPopped[r][p] \in Nat /\ rqPopped[r][p] <= rqCount.push
      BY DEF RqInv, RqTypes, RqElemsFit
    <3>2. QED
      BY <1>2, <1>3, <1>4, <1>14, <3>1
  <2>4. QED
    BY <2>1, <2>2, <2>3 DEF RqElemsFit
<1>20. RateQueueKeepsOrder'
  <2>1. \A e \in rqElems' : e.id > rqPopped'[e.queue][e.pri]
    <3>1. rqPopped[q][pri] \in Nat /\ rqPopped[q][pri] <= rqCount.push
      BY DEF RqInv, RqTypes, RqElemsFit
    <3>2. n > rqPopped[q][pri]
      BY <1>3, <1>4, <3>1
    <3>3. QED
      BY <1>2, <1>11, <3>2 DEF RqInv, RateQueueKeepsOrder
  <2>2. ASSUME NEW e \in rqElems', NEW f \in rqElems', e.queue = f.queue, e.pri = f.pri, e.id < f.id
        PROVE  RqBefore(e, f)
    <3>1. CASE e \in rqElems /\ f \in rqElems
      BY <2>2, <3>1 DEF RqInv, RateQueueKeepsOrder
    <3>2. CASE e \in rqElems /\ f = elem
      BY <1>6, <1>11, <1>18, <2>2, <3>2 DEF RqBefore
    <3>3. CASE e = elem
      BY <1>2, <1>4, <1>11, <1>15, <2>2, <3>3
    <3>4. QED
      BY <1>2, <3>1, <3>2, <3>3
  <2>3. ASSUME NEW r \in DOMAIN rqInfo', NEW p \in RqPris
        PROVE  rqInfo'[r][p].size = Cardinality(RqOf(rqElems', r, p))
    <3>1. CASE r = q /\ p = pri
      <4>1. RqOf(rqElems', q, pri) = RqOf(rqElems, q, pri) \cup {elem}
        BY <1>2, <1>11 DEF RqOf
      <4>2. IsFiniteSet(RqOf(rqElems, q, pri)) /\ elem \notin RqOf(rqElems, q, pri)
        <5>1. RqOf(rqElems, q, pri) \in SUBSET rqElems
          BY DEF RqOf
        <5>2. QED
          BY <1>3, <1>16, <5>1, FS_Subset DEF RqTypes
      <4>3. Cardinality(RqOf(rqElems', q, pri)) = info[pri].size + 1
        BY <1>1, <4>1, <4>2, FS_AddElement
      <4>4. QED
        BY <1>9, <1>10, <1>13, <3>1, <4>3 DEF k
    <3>2. CASE ~(r = q /\ p = pri)
      <4>1. RqOf(rqElems', r, p) = RqOf(rqElems, r, p)
        BY <1>2, <1>11, <3>2 DEF RqOf
      <4>2. CASE r = q
        BY <1>1, <1>10, <1>13, <3>2, <4>1, <4>2
      <4>3. CASE r # q
        BY <1>13, <4>1, <4>3 DEF RqInv, RateQueueKeepsOrder
      <4>4. QED
        BY <4>2, <4>3
    <3>3. QED
      BY <3>1, <3>2
  <2>4. rqWorker' \notin {"wait", "until"}
    BY <1>2
  <2>5. QED
    BY <2>1, <2>2, <2>3, <2>4 DEF RateQueueKeepsOrder, RqBefore, RqOf
<1>21. QED
  BY <1>17, <1>19, <1>20 DEF RqInv

\* The first element of a priority comes before every other one of it.
LEMMA TopIs ==
  ASSUME RqInv, NEW pri, \E e \in rqElems : e.pri = pri
  PROVE  /\ RqTop(pri) \in rqElems /\ RqTop(pri).pri = pri
         /\ \A f \in rqElems : f.pri = pri /\ f # RqTop(pri) => RqBefore(RqTop(pri), f)
<1> DEFINE mine == {e \in rqElems : e.pri = pri}
           sends == {e.send : e \in mine}
<1>1. \A e \in mine : e.send \in Nat /\ e.id \in Nat
  BY ElemIs
<1>2. sends \subseteq Nat /\ sends # {}
  BY <1>1
<1>3. PICK s \in sends : \A x \in sends : s <= x
  BY <1>2, LeastNatural
<1> DEFINE first == {e \in mine : e.send = s}
           ids == {e.id : e \in first}
<1>4. ids \subseteq Nat /\ ids # {}
  BY <1>1
<1>5. PICK i \in ids : \A x \in ids : i <= x
  BY <1>4, LeastNatural
<1>6. PICK e \in first : e.id = i
  BY <1>5
<1>7. ASSUME NEW f \in rqElems, f.pri = pri, f # e PROVE RqBefore(e, f)
  <2>1. f \in mine /\ e \in mine /\ e.send = s /\ f.id # e.id
    BY <1>6, <1>7 DEF RqInv, RqElemsFit
  <2>2. s <= f.send
    BY <1>3, <2>1
  <2>3. CASE f.send = s
    <3>1. i <= f.id
      BY <1>5, <2>1, <2>3
    <3>2. QED
      BY <1>1, <1>6, <2>1, <2>3, <3>1 DEF RqBefore
  <2>4. CASE f.send # s
    BY <1>1, <2>1, <2>2, <2>4 DEF RqBefore
  <2>5. QED
    BY <2>3, <2>4
<1>8. \E x \in rqElems : x.pri = pri /\ \A f \in rqElems : f.pri = pri /\ f # x => RqBefore(x, f)
  BY <1>6, <1>7
<1>9. QED
  BY <1>8 DEF RqTop

\* pop_back of an element: it was the oldest of its queue and priority.
LEMMA RqPopGoesOut ==
  ASSUME RqInv, RqPop, RqEligible # {}
  PROVE  RqInv'
<1> DEFINE e == RqTop(Max(RqEligible))
<1>1. /\ rqElems' = rqElems \ {e} /\ rqInfo' = [rqInfo EXCEPT ![e.queue][e.pri].size = @ - 1]
      /\ rqPopped' = [rqPopped EXCEPT ![e.queue][e.pri] = e.id] /\ rqWorker' = "idle"
      /\ UNCHANGED <<rqUntil, rqNow, rqDefault, rqCount>>
  <2>1. rqElems # {}
    BY DEF RqEligible
  <2>2. QED
    BY <2>1 DEF RqPop
<1>2. /\ e \in rqElems
      /\ \A f \in rqElems : f.pri = e.pri /\ f # e => RqBefore(e, f)
  <2>1. RqEligible \subseteq 0..RqPriorities
    BY RqAssumption, ElemIs DEF RqEligible, RqPris
  <2>2. Max(RqEligible) \in RqEligible
    BY <2>1, MaxIs, RqAssumption
  <2>3. \E f \in rqElems : f.pri = Max(RqEligible)
    BY <2>2 DEF RqEligible
  <2>4. QED
    BY <2>3, TopIs
<1> HIDE DEF e
<1>3. /\ e.queue \in RqQueues /\ e.pri \in RqPris /\ e.send \in Nat /\ e.id \in Nat
      /\ e.queue \in DOMAIN rqInfo /\ RqTypes
  BY <1>2, ElemIs DEF RqInv
<1> DEFINE q == e.queue
           pri == e.pri
           k == rqInfo[q][pri].size - 1
           rec == [rqInfo[q][pri] EXCEPT !.size = k]
           info == [rqInfo[q] EXCEPT ![pri] = rec]
<1>4. /\ rqInfo[q] \in [RqPris -> RqRec] /\ rqInfo[q][pri] \in RqRec
      /\ rqInfo \in [DOMAIN rqInfo -> [RqPris -> RqRec]] /\ DOMAIN rqInfo \subseteq RqQueues
  BY <1>3 DEF RqTypes, RqRec
<1>5. /\ RqOf(rqElems', q, pri) = RqOf(rqElems, q, pri) \ {e} /\ e \in RqOf(rqElems, q, pri)
      /\ IsFiniteSet(RqOf(rqElems, q, pri))
  <2>1. RqOf(rqElems, q, pri) \in SUBSET rqElems
    BY DEF RqOf
  <2>2. IsFiniteSet(RqOf(rqElems, q, pri))
    BY <1>3, <2>1, FS_Subset DEF RqTypes
  <2>3. QED
    BY <1>1, <1>2, <2>2 DEF RqOf
<1>6. rqInfo[q][pri].size = Cardinality(RqOf(rqElems, q, pri))
  BY <1>3 DEF RqInv, RateQueueKeepsOrder
<1>7. Cardinality(RqOf(rqElems', q, pri)) = k /\ k \in Nat
  <2>1. Cardinality(RqOf(rqElems, q, pri)) \in Nat /\ Cardinality(RqOf(rqElems, q, pri)) # 0
    BY <1>5, FS_CardinalityType, FS_EmptySet
  <2>2. Cardinality(RqOf(rqElems', q, pri)) = Cardinality(RqOf(rqElems, q, pri)) - 1
    <3> DEFINE mine == RqOf(rqElems, q, pri)
    <3>1. IsFiniteSet(mine) /\ e \in mine
      BY <1>5
    <3> HIDE DEF mine
    <3>2. Cardinality(mine \ {e}) = Cardinality(mine) - 1
      BY <3>1, FS_RemoveElement
    <3>3. QED
      BY <1>5, <3>2 DEF mine
  <2>3. QED
    BY <1>6, <2>1, <2>2
<1>8. rqInfo' = [rqInfo EXCEPT ![q] = info]
  BY <1>1, <1>3, <1>4
<1>9. rqPopped' = [rqPopped EXCEPT ![q] = [rqPopped[q] EXCEPT ![pri] = e.id]]
  BY <1>1
<1> HIDE DEF k
<1>10. rec \in RqRec /\ rec.size = k /\ rec.last = rqInfo[q][pri].last
  BY <1>4, <1>7 DEF RqRec
<1> HIDE DEF rec
<1>11. info \in [RqPris -> RqRec] /\ info[pri] = rec /\ \A p \in RqPris : p # pri => info[p] = rqInfo[q][p]
  BY <1>3, <1>4, <1>10
<1> HIDE DEF info
<1>12. /\ DOMAIN rqInfo' = DOMAIN rqInfo /\ rqInfo' \in [DOMAIN rqInfo' -> [RqPris -> RqRec]]
       /\ rqInfo'[q] = info /\ \A r \in DOMAIN rqInfo : r # q => rqInfo'[r] = rqInfo[r]
  BY <1>3, <1>4, <1>8, <1>11
<1>13. /\ rqPopped' \in [RqQueues -> [RqPris -> Nat]] /\ rqPopped'[q][pri] = e.id
       /\ \A r \in RqQueues, p \in RqPris : ~(r = q /\ p = pri) => rqPopped'[r][p] = rqPopped[r][p]
  BY <1>3, <1>9 DEF RqTypes
<1>14. RqTypes'
  <2>1. IsFiniteSet(rqElems') /\ rqElems' \subseteq [queue : RqQueues, pri : RqPris, send : Nat, id : Nat]
    BY <1>1, <1>3, FS_RemoveElement DEF RqTypes
  <2>2. QED
    BY <1>1, <1>3, <1>4, <1>12, <1>13, <2>1 DEF RqTypes, RqRec
<1>15. \A r \in DOMAIN rqInfo, p \in RqPris : rqInfo'[r][p].last = rqInfo[r][p].last
  BY <1>10, <1>11, <1>12
<1>16. RqElemsFit'
  <2>1. \A f \in rqElems' : /\ f.queue \in DOMAIN rqInfo' /\ f.id <= rqCount'.push
                            /\ f.send <= rqInfo'[f.queue][f.pri].last
    BY <1>1, <1>12, <1>15, ElemIs DEF RqInv, RqElemsFit
  <2>2. \A f, g \in rqElems' : f.id = g.id => f = g
    BY <1>1 DEF RqInv, RqElemsFit
  <2>3. \A r \in RqQueues, p \in RqPris : rqPopped'[r][p] <= rqCount'.push
    BY <1>1, <1>2, <1>13 DEF RqInv, RqElemsFit
  <2>4. QED
    BY <2>1, <2>2, <2>3 DEF RqElemsFit
<1>17. RateQueueKeepsOrder'
  <2>1. ASSUME NEW f \in rqElems' PROVE f.id > rqPopped'[f.queue][f.pri]
    <3>1. f \in rqElems /\ f # e /\ f.queue \in RqQueues /\ f.pri \in RqPris /\ f.id \in Nat
          /\ f.send \in Nat
      BY <1>1, <2>1, ElemIs
    <3>2. CASE f.queue = q /\ f.pri = pri
      <4>1. RqBefore(e, f) /\ f.id # e.id
        BY <1>2, <3>1, <3>2 DEF RqInv, RqElemsFit
      <4>2. f.id < e.id => RqBefore(f, e)
        BY <1>2, <3>1, <3>2 DEF RqInv, RateQueueKeepsOrder
      <4>3. ~(f.id < e.id)
        BY <1>3, <3>1, <4>1, <4>2 DEF RqBefore
      <4>4. rqPopped'[f.queue][f.pri] = e.id
        BY <1>13, <3>2
      <4>5. QED
        BY <1>3, <3>1, <4>1, <4>3, <4>4
    <3>3. CASE ~(f.queue = q /\ f.pri = pri)
      BY <1>13, <3>1, <3>3 DEF RqInv, RateQueueKeepsOrder
    <3>4. QED
      BY <3>2, <3>3
  <2>2. \A f, g \in rqElems' : f.queue = g.queue /\ f.pri = g.pri /\ f.id < g.id => RqBefore(f, g)
    BY <1>1 DEF RqInv, RateQueueKeepsOrder
  <2>3. ASSUME NEW r \in DOMAIN rqInfo', NEW p \in RqPris
        PROVE  rqInfo'[r][p].size = Cardinality(RqOf(rqElems', r, p))
    <3>1. CASE r = q /\ p = pri
      BY <1>7, <1>10, <1>11, <1>12, <3>1
    <3>2. CASE ~(r = q /\ p = pri)
      <4>1. RqOf(rqElems', r, p) = RqOf(rqElems, r, p)
        BY <1>1, <3>2 DEF RqOf
      <4>2. rqInfo'[r][p] = rqInfo[r][p]
        BY <1>11, <1>12, <3>2
      <4>3. QED
        BY <1>12, <4>1, <4>2 DEF RqInv, RateQueueKeepsOrder
    <3>3. QED
      BY <3>1, <3>2
  <2>4. QED
    BY <1>1, <2>1, <2>2, <2>3 DEF RateQueueKeepsOrder, RqBefore, RqOf
<1>18. QED
  BY <1>14, <1>16, <1>17 DEF RqInv

\* The worker calls, waits, or has waited long enough; the clock moves.
LEMMA RqWorkerKeeps ==
  ASSUME RqInv, RqCallPop \/ (RqPop /\ RqEligible = {}) \/ RqTimeout \/ RqClock
  PROVE  RqInv'
<1>1. UNCHANGED <<rqElems, rqInfo, rqDefault, rqPopped, rqCount>>
  BY DEF RqCallPop, RqPop, RqTimeout, RqClock
<1>2. /\ rqNow' \in 0..RqMaxTime /\ rqUntil' \in Nat /\ rqWorker' \in {"idle", "pop", "wait", "until"}
      /\ rqWorker' = "wait" => rqElems = {}
      /\ rqWorker' = "until" => \A e \in rqElems : e.send >= rqUntil'
  <2>0. /\ rqNow \in 0..RqMaxTime /\ rqUntil \in Nat /\ rqWorker \in {"idle", "pop", "wait", "until"}
        /\ rqWorker = "wait" => rqElems = {}
        /\ rqWorker = "until" => \A e \in rqElems : e.send >= rqUntil
    BY DEF RqInv, RqTypes, RateQueueKeepsOrder
  <2>1. CASE RqCallPop \/ RqTimeout
    BY <2>0, <2>1 DEF RqCallPop, RqTimeout
  <2>2. CASE RqClock
    BY <2>0, <2>2 DEF RqClock
  <2>3. CASE RqPop /\ RqEligible = {}
    <3>1. CASE rqElems = {}
      BY <2>0, <2>3, <3>1 DEF RqPop
    <3>2. CASE rqElems # {}
      <4> DEFINE sends == {e.send : e \in rqElems}
      <4>1. sends \subseteq Nat /\ sends # {}
        BY <3>2, ElemIs
      <4>2. Min(sends) \in sends /\ \A x \in sends : Min(sends) <= x
        BY <4>1, MinIs
      <4>3. rqUntil' = Min(sends) /\ rqWorker' = "until" /\ rqNow' = rqNow
        BY <2>3, <3>2 DEF RqPop
      <4>4. ASSUME NEW e \in rqElems PROVE e.send >= rqUntil'
        <5>1. e.send \in sends
          OBVIOUS
        <5>2. Min(sends) <= e.send /\ e.send \in Nat /\ Min(sends) \in Nat
          BY <4>1, <4>2, <5>1
        <5>3. QED
          BY <4>3, <5>2
      <4>5. rqUntil' \in Nat
        BY <4>1, <4>2, <4>3
      <4>6. QED
        BY <2>0, <4>3, <4>4, <4>5
    <3>3. QED
      BY <3>1, <3>2
  <2>4. QED
    BY <2>1, <2>2, <2>3
<1>3. RqTypes'
  BY <1>1, <1>2 DEF RqInv, RqTypes
<1>4. RqElemsFit'
  BY <1>1 DEF RqInv, RqElemsFit
<1>5. RateQueueKeepsOrder'
  BY <1>1, <1>2 DEF RqInv, RateQueueKeepsOrder
<1>6. QED
  BY <1>3, <1>4, <1>5 DEF RqInv

\* A rate or a capacity is set in a record.
LEMMA RecordSet ==
  ASSUME NEW rec \in RqRec,
         NEW kv \in ({"capacity"} \X RqCapacities) \cup ({"delay"} \X RqDelays)
  PROVE  /\ [rec EXCEPT ![kv[1]] = kv[2]] \in RqRec
         /\ [rec EXCEPT ![kv[1]] = kv[2]].size = rec.size
         /\ [rec EXCEPT ![kv[1]] = kv[2]].last = rec.last
<1>1. kv[2] \in Nat /\ kv[1] \in {"capacity", "delay"}
  BY RqAssumption
<1>2. CASE kv[1] = "capacity"
  <2> DEFINE v == kv[2]
  <2> HIDE DEF v
  <2>1. /\ [rec EXCEPT !.capacity = v] \in RqRec /\ [rec EXCEPT !.capacity = v].size = rec.size
        /\ [rec EXCEPT !.capacity = v].last = rec.last
    BY <1>1 DEF RqRec, v
  <2>2. QED
    BY <1>2, <2>1 DEF v
<1>3. CASE kv[1] = "delay"
  <2> DEFINE v == kv[2]
  <2> HIDE DEF v
  <2>1. /\ [rec EXCEPT !.delay = v] \in RqRec /\ [rec EXCEPT !.delay = v].size = rec.size
        /\ [rec EXCEPT !.delay = v].last = rec.last
    BY <1>1 DEF RqRec, v
  <2>2. QED
    BY <1>3, <2>1 DEF v
<1>4. QED
  BY <1>1, <1>2, <1>3

\* set_capacity and set_rate, for a priority, a queue or everything.
LEMMA RqSetKeeps == ASSUME RqInv, RqSet PROVE RqInv'
<1> DEFINE n == rqCount.set + 1
<1>1. /\ rqCount' = [rqCount EXCEPT !.set = n]
      /\ UNCHANGED <<rqNow, rqElems, rqWorker, rqUntil, rqPopped>>
  BY DEF RqSet
<1>2. rqCount \in [push : Nat, set : Nat] /\ rqCount.set \in Nat /\ rqCount.push \in Nat /\ RqTypes
  BY DEF RqInv, RqTypes
<1>3. n \in Nat
  BY <1>2
<1> HIDE DEF n
<1>4. rqCount' \in [push : Nat, set : Nat] /\ rqCount'.push >= rqCount.push
  BY <1>1, <1>2, <1>3
<1>5. rqDefault \in [capacity : Nat, delay : Nat]
  BY <1>2 DEF RqTypes
<1>6. PICK kv \in ({"capacity"} \X RqCapacities) \cup ({"delay"} \X RqDelays) :
        \/ \E q \in RqQueues, pri \in RqPris : RqSetOne(q, pri, kv[1], kv[2])
        \/ \E q \in RqQueues : RqSetEach(q, kv[1], kv[2])
        \/ RqSetAll(kv[1], kv[2])
  BY DEF RqSet
\* One queue gets a new record, with the sizes and last times it had.
<1>7. ASSUME NEW q \in RqQueues, NEW info \in [RqPris -> RqRec],
             rqInfo' = RqPut(q, info), rqDefault' = rqDefault,
             \A p \in RqPris : info[p].size = RqGet(q)[p].size /\ info[p].last = RqGet(q)[p].last
      PROVE  RqInv'
  <2>1. /\ DOMAIN RqPut(q, info) = DOMAIN rqInfo \cup {q}
        /\ DOMAIN RqPut(q, info) \subseteq RqQueues
        /\ RqPut(q, info) \in [DOMAIN RqPut(q, info) -> [RqPris -> RqRec]]
        /\ RqPut(q, info)[q] = info
        /\ \A r \in DOMAIN rqInfo : r # q => RqPut(q, info)[r] = rqInfo[r]
    BY <1>2, RqPutIs
  <2>2. /\ DOMAIN rqInfo' = DOMAIN rqInfo \cup {q} /\ DOMAIN rqInfo' \subseteq RqQueues
        /\ rqInfo' \in [DOMAIN rqInfo' -> [RqPris -> RqRec]]
        /\ rqInfo'[q] = info /\ \A r \in DOMAIN rqInfo : r # q => rqInfo'[r] = rqInfo[r]
    BY <1>7, <2>1
  <2>3. \A r \in DOMAIN rqInfo', p \in RqPris :
          rqInfo'[r][p].size = RqGet(r)[p].size /\ rqInfo'[r][p].last = RqGet(r)[p].last
    <3>1. \A r \in DOMAIN rqInfo : RqGet(r) = rqInfo[r]
      BY DEF RqGet
    <3>2. QED
      BY <1>7, <2>2, <3>1
  <2>4. QED
    BY <1>1, <1>4, <1>5, <1>7, <2>2, <2>3, RqSettingsKeep
<1>8. ASSUME NEW q \in RqQueues, NEW pri \in RqPris, RqSetOne(q, pri, kv[1], kv[2])
      PROVE  RqInv'
  <2> DEFINE old == RqGet(q)
             rec == [old[pri] EXCEPT ![kv[1]] = kv[2]]
             info == [old EXCEPT ![pri] = rec]
  <2>1. old \in [RqPris -> RqRec]
    BY RqGetIs
  <2>2. rqInfo' = RqPut(q, info) /\ rqDefault' = rqDefault
    BY <1>8 DEF RqSetOne
  <2>3. rec \in RqRec /\ rec.size = old[pri].size /\ rec.last = old[pri].last
    <3>1. old[pri] \in RqRec
      BY <2>1
    <3> HIDE DEF old
    <3>2. QED
      BY <1>6, <3>1, RecordSet
  <2>4. \A p \in RqPris : RqGet(q)[p] = old[p]
    OBVIOUS
  <2> HIDE DEF old, rec
  <2>5. info \in [RqPris -> RqRec]
        /\ \A p \in RqPris : info[p].size = old[p].size /\ info[p].last = old[p].last
    BY <2>1, <2>3
  <2> HIDE DEF info
  <2>6. QED
    BY <1>7, <2>2, <2>4, <2>5
<1>9. ASSUME NEW q \in RqQueues, RqSetEach(q, kv[1], kv[2]) PROVE RqInv'
  <2> DEFINE old == RqGet(q)
             info == [p \in RqPris |-> [old[p] EXCEPT ![kv[1]] = kv[2]]]
  <2>1. old \in [RqPris -> RqRec]
    BY RqGetIs
  <2>2. rqInfo' = RqPut(q, info) /\ rqDefault' = rqDefault
    BY <1>9 DEF RqSetEach
  <2>3. \A p \in RqPris : RqGet(q)[p] = old[p]
    OBVIOUS
  <2> HIDE DEF old
  <2>4. ASSUME NEW p \in RqPris
        PROVE  info[p] \in RqRec /\ info[p].size = old[p].size /\ info[p].last = old[p].last
    <3>1. old[p] \in RqRec /\ info[p] = [old[p] EXCEPT ![kv[1]] = kv[2]]
      BY <2>1
    <3>2. QED
      BY <1>6, <3>1, RecordSet
  <2>5. info = [p \in RqPris |-> info[p]]
    OBVIOUS
  <2> HIDE DEF info
  <2>6. info \in [RqPris -> RqRec]
    BY <2>4, <2>5
  <2>7. QED
    BY <1>7, <2>2, <2>3, <2>4, <2>6
<1>10. CASE RqSetAll(kv[1], kv[2])
  <2>1. /\ rqInfo' = [q \in DOMAIN rqInfo |-> [p \in RqPris |-> [rqInfo[q][p] EXCEPT ![kv[1]] = kv[2]]]]
        /\ rqDefault' = [rqDefault EXCEPT ![kv[1]] = kv[2]]
    BY <1>10 DEF RqSetAll
  <2>2. rqDefault' \in [capacity : Nat, delay : Nat]
    <3>1. kv[2] \in Nat /\ kv[1] \in {"capacity", "delay"}
      BY <1>6, RqAssumption
    <3>2. CASE kv[1] = "capacity"
      BY <1>5, <2>1, <3>1, <3>2
    <3>3. CASE kv[1] = "delay"
      BY <1>5, <2>1, <3>1, <3>3
    <3>4. QED
      BY <3>1, <3>2, <3>3
  <2>3. DOMAIN rqInfo' = DOMAIN rqInfo /\ DOMAIN rqInfo \subseteq RqQueues
        /\ \A q \in DOMAIN rqInfo : RqGet(q) = rqInfo[q]
    BY <1>2, <2>1 DEF RqTypes, RqGet
  <2>4. ASSUME NEW q \in DOMAIN rqInfo, NEW p \in RqPris
        PROVE  /\ rqInfo'[q][p] \in RqRec /\ rqInfo'[q][p].size = rqInfo[q][p].size
               /\ rqInfo'[q][p].last = rqInfo[q][p].last
    <3>1. rqInfo[q][p] \in RqRec
      BY <1>2 DEF RqTypes, RqRec
    <3>2. rqInfo'[q][p] = [rqInfo[q][p] EXCEPT ![kv[1]] = kv[2]]
      BY <2>1
    <3>3. QED
      BY <1>6, <3>1, <3>2, RecordSet
  <2>5. /\ rqInfo' = [q \in DOMAIN rqInfo |-> rqInfo'[q]]
        /\ \A q \in DOMAIN rqInfo : rqInfo'[q] = [p \in RqPris |-> rqInfo'[q][p]]
    BY <2>1
  <2>6. rqInfo' \in [DOMAIN rqInfo' -> [RqPris -> RqRec]]
    <3>1. ASSUME NEW q \in DOMAIN rqInfo PROVE rqInfo'[q] \in [RqPris -> RqRec]
      <4>1. rqInfo'[q] = [p \in RqPris |-> rqInfo'[q][p]]
        BY <2>5
      <4>2. \A p \in RqPris : rqInfo'[q][p] \in RqRec
        BY <2>4
      <4>3. QED
        BY <4>1, <4>2
    <3>2. QED
      BY <2>3, <2>5, <3>1
  <2>7. \A q \in DOMAIN rqInfo', p \in RqPris :
          rqInfo'[q][p].size = RqGet(q)[p].size /\ rqInfo'[q][p].last = RqGet(q)[p].last
    BY <2>3, <2>4
  <2>8. QED
    BY <1>1, <1>4, <2>2, <2>3, <2>6, <2>7, RqSettingsKeep
<1>11. QED
  BY <1>6, <1>8, <1>9, <1>10

\* The rate queues keep their elements, sizes and times together: no element is
\* to leave later than its queue's last one, which is what keeps the order of
\* those that come after it.
THEOREM RateInvariant == RqSpec => []RqInv
<1>1. RqInit => RqInv
  <2> SUFFICES ASSUME RqInit PROVE RqInv
    OBVIOUS
  <2>1. rqElems = {} /\ rqInfo = <<>> /\ rqNow = 0 /\ rqWorker = "idle" /\ rqUntil = 0
    BY DEF RqInit
  <2>2. DOMAIN rqInfo = {} /\ rqInfo = [q \in {} |-> q]
    BY <2>1
  <2>3. RqTypes
    <3>1. rqNow \in 0..RqMaxTime /\ IsFiniteSet(rqElems) /\ rqUntil \in Nat
      BY <2>1, RqAssumption, FS_EmptySet
    <3>2. rqDefault \in [capacity : Nat, delay : Nat]
      BY RqAssumption DEF RqInit
    <3>3. rqPopped \in [RqQueues -> [RqPris -> Nat]] /\ rqCount \in [push : Nat, set : Nat]
      BY DEF RqInit
    <3>4. rqInfo \in [DOMAIN rqInfo -> [RqPris -> [size : Nat, capacity : Nat, delay : Nat, last : Nat]]]
      BY <2>2
    <3>5. QED
      BY <2>1, <2>2, <3>1, <3>2, <3>3, <3>4 DEF RqTypes
  <2>4. RqElemsFit
    BY <2>1 DEF RqInit, RqElemsFit
  <2>5. RateQueueKeepsOrder
    BY <2>1, <2>2 DEF RateQueueKeepsOrder
  <2>6. QED
    BY <2>3, <2>4, <2>5 DEF RqInv
<1>2. RqInv /\ [RqNext]_rqVars => RqInv'
  <2> SUFFICES ASSUME RqInv, [RqNext]_rqVars PROVE RqInv'
    OBVIOUS
  <2>1. CASE UNCHANGED rqVars
    BY <2>1 DEF rqVars, RqInv, RqTypes, RqElemsFit, RateQueueKeepsOrder, RqOf, RqBefore
  <2>2. ASSUME NEW q \in RqQueues, NEW pri \in RqPris, RqPush(q, pri) PROVE RqInv'
    BY <2>2, RqPushDrops, RqPushGoesIn
  <2>3. CASE RqPop
    BY <2>3, RqPopGoesOut, RqWorkerKeeps
  <2>4. CASE RqNext
    BY <2>2, <2>3, <2>4, RqWorkerKeeps, RqSetKeeps DEF RqNext
  <2>5. QED
    BY <2>1, <2>4
<1>3. QED
  BY <1>1, <1>2, PTL DEF RqSpec

\* No thread is left asleep in a queue that could serve it, and priorities, rates
\* and capacities never reorder what was accepted (queueing.h), for any number
\* of threads, queues, priorities, capacities and rates.
THEOREM QueuesAreSound == BqSpec /\ RqSpec => []QueuesSound
<1>1. BqInv /\ RqInv => QueuesSound
  <2> SUFFICES ASSUME BqInv, RqInv PROVE QueuesSound
    OBVIOUS
  <2>1. RqTypeOK
    BY DEF RqInv, RqTypes, RqTypeOK
  <2>2. QED
    BY <2>1, BqInvSuffices DEF QueuesSound, RqInv
<1>2. QED
  BY <1>1, BlockingInvariant, RateInvariant, PTL
====
