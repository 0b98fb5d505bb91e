------------------------ MODULE TrafficManagerProofs ------------------------
(* Proofs about TrafficManager, for every set of packets and producers and *)
(* every number of workers, capacity and queue size.                       *)
EXTENDS TrafficManager, FiniteSetTheorems, WellFoundedInduction, TLAPS

\* The egress mapper maps every packet's port to a worker.
LEMMA WorkerOfType == ASSUME NEW p \in Pkts PROVE WorkerOf(p) \in Workers
  BY ConstAssumption DEF WorkerOf, Workers

\* A non-empty set of naturals has a least element.
LEMMA NatSetHasMin ==
  ASSUME NEW T, T \subseteq Nat, T # {}
  PROVE  \E u \in T : \A v \in T : u <= v
<1>1. PICK u \in T : \A v \in T : ~(<<v, u>> \in OpToRel(<, Nat))
  BY NatLessThanWellFounded, WFMin
<1>2. \A v \in T : ~(v < u)
  BY <1>1 DEF OpToRel
<1>3. QED
  BY <1>2

\* The lowest time of a day is the time of an item of that day, or 0 when the
\* day holds no item with a positive time.
LEMMA LowestTimeSpec ==
  ASSUME TypeOK, NEW cal \in SUBSET Pkts, NEW d
  PROVE  \/ LowestTime(cal, d) = 0
            /\ \A q \in cal : rank[q][1] = d => rank[q][2] = 0
         \/ \E q \in cal : rank[q][1] = d /\ rank[q][2] >= 1
                           /\ LowestTime(cal, d) = rank[q][2]
<1> DEFINE X == {x \in cal : rank[x][1] = d /\ rank[x][2] >= 1}
           T == {rank[q][2] : q \in X}
<1>1. \A q \in cal : rank[q][2] \in Nat
  BY DEF TypeOK, NodeType, Ranks
<1>2. CASE T = {}
  <2>1. X = {}
    BY <1>2
  <2>2. \A q \in cal : rank[q][1] = d => rank[q][2] = 0
    BY <1>1, <2>1
  <2>3. LowestTime(cal, d) = 0
    BY <1>2 DEF LowestTime
  <2>4. QED
    BY <2>2, <2>3
<1>3. CASE T # {}
  <2>1. T \subseteq Nat
    BY <1>1
  <2>2. \E u \in T : \A v \in T : u <= v
    BY <1>3, <2>1, NatSetHasMin
  <2>3. LowestTime(cal, d) \in T
    BY <1>3, <2>2 DEF LowestTime
  <2>4. QED
    BY <2>3
<1>4. QED
  BY <1>2, <1>3

\* The first non-empty day is a day that holds an item, or 0 when none does.
LEMMA FirstDaySpec ==
  ASSUME NEW cal
  PROVE  \/ FirstDay(cal) = 0 /\ \A q \in cal : rank[q][1] \notin Days
         \/ FirstDay(cal) \in Days /\ \E q \in cal : rank[q][1] = FirstDay(cal)
<1> DEFINE used == {d \in Days : \E q \in cal : rank[q][1] = d}
<1>1. CASE used = {}
  BY <1>1 DEF FirstDay
<1>2. CASE used # {}
  <2>1. \E d \in used : \A e \in used : d <= e
    BY <1>2, NatSetHasMin DEF Days
  <2>2. FirstDay(cal) \in used
    BY <1>2, <2>1 DEF FirstDay
  <2>3. QED
    BY <2>2
<1>3. QED
  BY <1>1, <1>2

\* The predicate a P4 action sets is a pair of naturals.
LEMMA P4PredicateType ==
  ASSUME TypeOK, NEW cal \in SUBSET Pkts, NEW s
  PROVE  P4Predicate(s, cal) \in Ranks
<1>1. ASSUME NEW d \in Nat PROVE LowestTime(cal, d) \in Nat
  <2>1. \A q \in cal : rank[q][2] \in Nat
    BY DEF TypeOK, NodeType, Ranks
  <2>2. QED
    BY <2>1, LowestTimeSpec
<1>2. FirstDay(cal) \in Nat
  BY FirstDaySpec DEF Days
<1>3. QED
  BY <1>1, <1>2 DEF P4Predicate, Ranks

\* The rank a P4 action computes, and the node it is computed for.
LEMMA RankTypes ==
  ASSUME TypeOK
  PROVE  /\ NoRank \in Ranks
         /\ CurNode \in Nodes
         /\ 1 \in Nodes /\ ConfNodes \in Nodes
         /\ \A s : \A p \in Pkts : DayOf(s, p) \in Days
         /\ \A s : \A p \in Pkts : /\ NewRank(s, p) \in Ranks
                                   /\ NewRank(s, p)[1] \in Days
                                   /\ NewRank(s, p)[2] \in Nat
<1>1. NoRank \in Ranks
  BY DEF NoRank, Ranks
<1>2. CurNode \in Nodes /\ 1 \in Nodes /\ ConfNodes \in Nodes
  BY ConstAssumption DEF CurNode, Nodes
<1>3. ASSUME NEW s, NEW p \in Pkts
      PROVE  DayOf(s, p) \in Days
  BY ConstAssumption DEF DayOf, Days
<1>4. ASSUME NEW s, NEW p \in Pkts
      PROVE  /\ NewRank(s, p) \in Ranks
             /\ NewRank(s, p)[1] \in Days
             /\ NewRank(s, p)[2] \in Nat
  <2>1. DayOf(s, p) \in Days /\ DayOf(s, p) \in Nat
    BY <1>3 DEF Days
  <2>2. rankreg[DayOf(s, p)] + 1 \in Nat
    BY <2>1 DEF TypeOK, P4Type
  <2>3. QED
    BY <2>1, <2>2 DEF NewRank, Ranks
<1>5. QED
  BY <1>1, <1>2, <1>3, <1>4

-----------------------------------------------------------------------------
\* What a busy thread holds is a packet's item.
LEMMA Hands ==
  ASSUME StoreInv
  PROVE  /\ \A t \in Producers : pc[t] # "idle" => inhand[t] \in Pkts
         /\ \A n \in Nodes : wpc[n] # "idle" => hand[n] \in Pkts
         /\ dq = "pop" => dq_item \in Pkts
  BY DEF StoreInv, TypeOK, ProdType, StoreType, NodeType, DequeueType,
         ProducerInv, CalendarInv, TaskInv, Ranked

\* A group of variables that does not change keeps its type.
LEMMA UnchangedTypes ==
  ASSUME TypeOK
  PROVE  /\ UNCHANGED prodVars => ProdType'
         /\ UNCHANGED storeVars => StoreType'
         /\ UNCHANGED p4Vars => P4Type'
         /\ UNCHANGED nodeVars => NodeType'
         /\ UNCHANGED tqVars => TaskType'
         /\ UNCHANGED dqVars => DequeueType'
         /\ UNCHANGED rcVars => ReconfType'
<1>1. UNCHANGED prodVars => ProdType'
  BY DEF TypeOK, ProdType, prodVars
<1>2. UNCHANGED storeVars => StoreType'
  BY DEF TypeOK, StoreType, storeVars
<1>3. UNCHANGED p4Vars => P4Type'
  BY DEF TypeOK, P4Type, p4Vars
<1>4. UNCHANGED nodeVars => NodeType'
  BY DEF TypeOK, NodeType, nodeVars
<1>5. UNCHANGED tqVars => TaskType'
  BY DEF TypeOK, TaskType, tqVars
<1>6. UNCHANGED dqVars => DequeueType'
  BY DEF TypeOK, DequeueType, dqVars
<1>7. UNCHANGED rcVars => ReconfType'
  BY DEF TypeOK, ReconfType, rcVars
<1>8. QED
  BY <1>1, <1>2, <1>3, <1>4, <1>5, <1>6, <1>7

\* Every step of every thread keeps the variables in their types.
LEMMA TypeStep == StoreInv /\ [Next]_vars => TypeOK'
<1> SUFFICES ASSUME StoreInv, [Next]_vars PROVE TypeOK'
  OBVIOUS
<1>0. TypeOK
  BY DEF StoreInv
<1>1. ASSUME NEW t \in Producers, NEW p \in Pkts, EnqueueLock(t, p)
      PROVE  TypeOK'
  <2>1. ProdType'
    BY <1>0, <1>1 DEF EnqueueLock, TypeOK, ProdType
  <2>2. QED
    BY <1>0, <1>1, <2>1, UnchangedTypes DEF EnqueueLock, TypeOK
<1>2. ASSUME NEW t \in Producers, EnqueueStore(t) PROVE TypeOK'
  <2>1. inhand[t] \in Pkts
    BY <1>2, Hands DEF EnqueueStore
  <2>2. store' \in [Workers -> Seq(Pkts)]
    BY <1>0, <1>2, <2>1, WorkerOfType DEF EnqueueStore, TypeOK, StoreType
  <2>3. StoreType'
    BY <1>0, <1>2, <2>1, <2>2 DEF EnqueueStore, TypeOK, StoreType
  <2>4. ProdType'
    BY <1>0, <1>2 DEF EnqueueStore, TypeOK, ProdType
  <2>5. DequeueType'
    BY <1>0, <1>2 DEF EnqueueStore, NotifyDequeue, TypeOK, DequeueType
  <2>6. QED
    BY <1>0, <1>2, <2>3, <2>4, <2>5, UnchangedTypes DEF EnqueueStore, TypeOK
<1>3. ASSUME NEW t \in Producers, EnqueueRank(t) PROVE TypeOK'
  <2> DEFINE new == NewRank(SchedOf(CurNode), inhand[t])
             r == IF p4iface = CurNode THEN new ELSE ifrank[CurNode]
  <2>1. inhand[t] \in Pkts
    BY <1>3, Hands DEF EnqueueRank
  <2>2. CurNode \in Nodes /\ new \in Ranks /\ new[1] \in Days /\ new[2] \in Nat
    BY <1>0, <2>1, RankTypes
  <2>3. r \in Ranks
    BY <1>0, <2>2 DEF TypeOK, P4Type
  <2>4. /\ rankreg' = [rankreg EXCEPT ![new[1]] = new[2]]
        /\ ifrank' = [ifrank EXCEPT ![p4iface] = new]
        /\ ifpred' = ifpred
        /\ rank' = [rank EXCEPT ![inhand[t]] = r]
        /\ \/ calendar' = calendar
           \/ calendar' = [calendar EXCEPT ![CurNode] = @ \cup {inhand[t]}]
        /\ UNCHANGED <<evals, pred, parent, wpc, hand, wend>>
    BY <1>3 DEF EnqueueRank
  <2> HIDE DEF new, r
  <2>5. P4Type'
    BY <1>0, <2>2, <2>4 DEF TypeOK, P4Type
  <2>6. NodeType'
    <3>1. rank' \in [Pkts -> Ranks]
      BY <1>0, <2>1, <2>3, <2>4 DEF TypeOK, NodeType
    <3>2. calendar' \in [Nodes -> SUBSET Pkts]
      BY <1>0, <2>1, <2>2, <2>4 DEF TypeOK, NodeType
    <3>3. QED
      BY <1>0, <2>4, <3>1, <3>2 DEF TypeOK, NodeType
  <2>7. ProdType'
    BY <1>0, <1>3 DEF EnqueueRank, TypeOK, ProdType
  <2>8. QED
    BY <1>0, <1>3, <2>5, <2>6, <2>7, UnchangedTypes DEF EnqueueRank, TypeOK
<1>4. ASSUME NEW t \in Producers, EnqueueCallback(t) PROVE TypeOK'
  <2>1. evals' \in [Nodes -> Nat]
    BY <1>0, <1>4, RankTypes DEF EnqueueCallback, TypeOK, NodeType
  <2>2. NodeType'
    BY <1>0, <1>4, <2>1 DEF EnqueueCallback, TypeOK, NodeType
  <2>3. ProdType'
    BY <1>0, <1>4 DEF EnqueueCallback, TypeOK, ProdType
  <2>4. QED
    BY <1>0, <1>4, <2>2, <2>3, UnchangedTypes DEF EnqueueCallback, TypeOK
<1>5. ASSUME NEW n \in Nodes, EvalEmpty(n) PROVE TypeOK'
  <2>1. evals' \in [Nodes -> Nat]
    BY <1>0, <1>5 DEF EvalEmpty, TypeOK, NodeType
  <2>2. pred' \in [Nodes -> Ranks]
    BY <1>0, <1>5, RankTypes DEF EvalEmpty, TypeOK, NodeType
  <2>3. NodeType'
    BY <1>0, <1>5, <2>1, <2>2 DEF EvalEmpty, TypeOK, NodeType
  <2>4. QED
    BY <1>0, <1>5, <2>3, UnchangedTypes DEF EvalEmpty, TypeOK
<1>6. ASSUME NEW n \in Nodes, EvalPredicate(n) PROVE TypeOK'
  <2> DEFINE new == P4Predicate(SchedOf(n), calendar[p4iface])
  <2>1. new \in Ranks
    BY <1>0, P4PredicateType DEF TypeOK, NodeType, ReconfType
  <2>2. /\ evals' = [evals EXCEPT ![n] = @ - 1] /\ evals[n] > 0
        /\ ifpred' = [ifpred EXCEPT ![p4iface] = new]
        /\ UNCHANGED <<rankreg, ifrank, rank, parent, wend>>
    BY <1>6 DEF EvalPredicate
  <2>3. \E r \in Ranks : pred' = [pred EXCEPT ![n] = r]
    BY <1>0, <1>6, <2>1 DEF EvalPredicate, TypeOK, P4Type
  <2>4. \E e : calendar' = [calendar EXCEPT ![n] = @ \ e]
    BY <1>6 DEF EvalPredicate
  <2>5. \/ UNCHANGED <<wpc, hand>>
        \/ /\ wpc' = [wpc EXCEPT ![n] = "push"]
           /\ \E q \in Pkts : hand' = [hand EXCEPT ![n] = q]
    BY <1>0, <1>6 DEF EvalPredicate, TypeOK, NodeType
  <2> HIDE DEF new
  <2>6. P4Type'
    BY <1>0, <2>1, <2>2 DEF TypeOK, P4Type
  <2>7. NodeType'
    <3>1. evals' \in [Nodes -> Nat]
      BY <1>0, <2>2 DEF TypeOK, NodeType
    <3>2. pred' \in [Nodes -> Ranks]
      BY <1>0, <2>3 DEF TypeOK, NodeType
    <3>3. calendar' \in [Nodes -> SUBSET Pkts]
      BY <1>0, <2>4 DEF TypeOK, NodeType
    <3>4. /\ wpc' \in [Nodes -> {"idle", "push", "pushing", "erase"}]
          /\ hand' \in [Nodes -> Pkts \cup {None}]
      BY <1>0, <2>5 DEF TypeOK, NodeType
    <3>5. QED
      BY <1>0, <2>2, <3>1, <3>2, <3>3, <3>4 DEF TypeOK, NodeType
  <2>8. QED
    BY <1>0, <1>6, <2>6, <2>7, UnchangedTypes DEF EvalPredicate, TypeOK
<1>7. ASSUME NEW n \in Nodes, PushTask(n) PROVE TypeOK'
  <2>1. TaskType'
    BY <1>0, <1>7, Hands DEF PushTask, Slots, TypeOK, NodeType, TaskType
  <2>2. NodeType'
    BY <1>0, <1>7, ConstAssumption DEF PushTask, TypeOK, NodeType, TaskType
  <2>3. QED
    BY <1>0, <1>7, <2>1, <2>2, UnchangedTypes DEF PushTask, TypeOK
<1>8. ASSUME NEW n \in Nodes, PushTaskEnd(n) PROVE TypeOK'
  <2>1. TaskType'
    BY <1>0, <1>8 DEF PushTaskEnd, TypeOK, NodeType, TaskType
  <2>2. NodeType'
    BY <1>0, <1>8, ConstAssumption DEF PushTaskEnd, TypeOK, NodeType
  <2>3. DequeueType'
    BY <1>0, <1>8 DEF PushTaskEnd, NotifyDequeue, TypeOK, DequeueType
  <2>4. QED
    BY <1>0, <1>8, <2>1, <2>2, <2>3, UnchangedTypes DEF PushTaskEnd, TypeOK
<1>9. ASSUME NEW n \in Nodes, EraseItem(n) PROVE TypeOK'
  <2>1. evals' \in [Nodes -> Nat]
    BY <1>0, <1>9 DEF EraseItem, TypeOK, NodeType
  <2>2. pred' \in [Nodes -> Ranks]
    BY <1>0, <1>9, RankTypes DEF EraseItem, TypeOK, NodeType
  <2>3. calendar' \in [Nodes -> SUBSET Pkts]
    BY <1>0, <1>9 DEF EraseItem, TypeOK, NodeType
  <2>4. NodeType'
    BY <1>0, <1>9, <2>1, <2>2, <2>3 DEF EraseItem, TypeOK, NodeType
  <2>5. QED
    BY <1>0, <1>9, <2>4, UnchangedTypes DEF EraseItem, TypeOK
<1>10. ASSUME NEW n \in Nodes, RunWakeup(n) PROVE TypeOK'
  <2>1. NodeType'
    BY <1>0, <1>10 DEF RunWakeup, TypeOK, NodeType
  <2>2. QED
    BY <1>0, <1>10, <2>1, UnchangedTypes DEF RunWakeup, TypeOK
<1>11. CASE DequeueIdle \/ DequeueBlock \/ DequeueExit \/ Destroy
  <2>1. DequeueType'
    BY <1>0, <1>11 DEF DequeueIdle, DequeueBlock, DequeueExit, Destroy, TypeOK,
                       DequeueType
  <2>2. QED
    BY <1>0, <1>11, <2>1, UnchangedTypes
       DEF DequeueIdle, DequeueBlock, DequeueExit, Destroy, TypeOK
<1>12. CASE DequeueTake
  <2>1. DequeueType'
    BY <1>0, <1>12, ConstAssumption DEF DequeueTake, Slots, TypeOK, TaskType, DequeueType
  <2>2. TaskType'
    BY <1>0, <1>12, ConstAssumption DEF DequeueTake, Slots, TypeOK, TaskType
  <2>3. QED
    BY <1>0, <1>12, <2>1, <2>2, UnchangedTypes DEF DequeueTake, TypeOK
<1>13. CASE DequeueTaken
  <2>1. DequeueType' /\ TaskType'
    BY <1>0, <1>13, ConstAssumption DEF DequeueTaken, TypeOK, TaskType, DequeueType
  <2>2. QED
    BY <1>0, <1>13, <2>1, UnchangedTypes DEF DequeueTaken, TypeOK
<1>14. CASE DequeuePop
  <2>1. dq_item \in Pkts /\ WorkerOf(dq_item) \in Workers
    BY <1>14, Hands, WorkerOfType DEF DequeuePop
  <2>2. store[WorkerOf(dq_item)] \in Seq(Pkts) /\ store[WorkerOf(dq_item)] # <<>>
    BY <1>0, <1>14, <2>1 DEF DequeuePop, TypeOK, StoreType
  <2>3. /\ Head(store[WorkerOf(dq_item)]) \in Pkts
        /\ Tail(store[WorkerOf(dq_item)]) \in Seq(Pkts)
    BY <2>2
  <2>4. store' \in [Workers -> Seq(Pkts)]
    BY <1>0, <1>14, <2>1, <2>3 DEF DequeuePop, TypeOK, StoreType
  <2>5. egress' \in [Workers -> Seq(Pkts)]
    BY <1>0, <1>14, <2>1, <2>3 DEF DequeuePop, TypeOK, StoreType
  <2>6. StoreType'
    BY <1>0, <1>14, <2>1, <2>4, <2>5 DEF DequeuePop, TypeOK, StoreType
  <2>7. DequeueType'
    BY <1>0, <1>14, <2>3 DEF DequeuePop, TypeOK, DequeueType
  <2>8. QED
    BY <1>0, <1>14, <2>6, <2>7, UnchangedTypes DEF DequeuePop, TypeOK
<1>15. CASE DequeueNotify
  <2>1. DequeueType'
    BY <1>0, <1>15 DEF DequeueNotify, TypeOK, DequeueType
  <2>2. ReconfType'
    BY <1>0, <1>15 DEF DequeueNotify, TypeOK, ReconfType
  <2>3. QED
    BY <1>0, <1>15, <2>1, <2>2, UnchangedTypes DEF DequeueNotify, TypeOK
<1>16. CASE ReceiveConfig \/ ReconfStep
  <2>1. ReconfType'
    BY <1>0, <1>16, RankTypes
       DEF ReceiveConfig, ReconfStep, ReconfPause, ReconfTest, ReconfBlock,
           ReconfSwap, ReconfResume, TypeOK, ReconfType
  <2>2. QED
    BY <1>0, <1>16, <2>1, UnchangedTypes
       DEF ReceiveConfig, ReconfStep, ReconfPause, ReconfTest, ReconfBlock,
           ReconfSwap, ReconfResume, TypeOK
<1>17. CASE UNCHANGED vars
  BY <1>0, <1>17, UnchangedTypes DEF vars, TypeOK
<1>18. QED
  BY <1>1, <1>2, <1>3, <1>4, <1>5, <1>6, <1>7, <1>8, <1>9, <1>10, <1>11,
     <1>12, <1>13, <1>14, <1>15, <1>16, <1>17
     DEF Next, EnqueueStep, PredicateStep, DequeueStep

-----------------------------------------------------------------------------
\* enqueue_mutex keeps the producers out of each other's way.
LEMMA OneProducer ==
  ASSUME ProducerInv, NEW t \in Producers, NEW u \in Producers,
         pc[t] # "idle", pc[u] # "idle"
  PROVE  t = u
  BY DEF ProducerInv

\* ProducerInv is about the producers and the store only.
LEMMA ProducerStep == StoreInv /\ [Next]_vars => ProducerInv'
<1> SUFFICES ASSUME StoreInv, [Next]_vars PROVE ProducerInv'
  OBVIOUS
<1>0. ProducerInv /\ ProdType /\ StoreType
  BY DEF StoreInv, TypeOK
<1>1. ASSUME NEW t \in Producers, NEW p \in Pkts, EnqueueLock(t, p)
      PROVE  ProducerInv'
  <2>1. \A u \in Producers : pc[u] = "idle"
    BY <1>0, <1>1, ConstAssumption DEF EnqueueLock, ProducerInv
  <2>2. QED
    BY <1>0, <1>1, <2>1 DEF EnqueueLock, ProducerInv, ProdType, storeVars
<1>2. ASSUME NEW t \in Producers, EnqueueStore(t) PROVE ProducerInv'
  <2>1. \A u \in Producers : u # t => pc[u] = "idle"
    BY <1>0, <1>2, OneProducer DEF EnqueueStore
  <2>2. QED
    BY <1>0, <1>2, <2>1 DEF EnqueueStore, ProducerInv, ProdType
<1>3. ASSUME NEW t \in Producers, EnqueueRank(t) PROVE ProducerInv'
  BY <1>0, <1>3 DEF EnqueueRank, ProducerInv, ProdType, storeVars
<1>4. ASSUME NEW t \in Producers, EnqueueCallback(t) PROVE ProducerInv'
  <2>1. \A u \in Producers : u # t => pc[u] = "idle"
    BY <1>0, <1>4, OneProducer DEF EnqueueCallback
  <2>2. QED
    BY <1>0, <1>4, <2>1 DEF EnqueueCallback, ProducerInv, ProdType, storeVars
<1>5. CASE UNCHANGED <<prodVars, stored>>
  BY <1>0, <1>5 DEF prodVars, ProducerInv
<1>6. CASE DequeuePop
  BY <1>5, <1>6 DEF DequeuePop
<1>7. CASE UNCHANGED <<prodVars, storeVars>>
  BY <1>5, <1>7 DEF storeVars
<1>8. ASSUME NEW n \in Nodes, PredicateStep(n) \/ RunWakeup(n)
      PROVE  UNCHANGED <<prodVars, storeVars>>
  BY <1>8 DEF PredicateStep, EvalEmpty, EvalPredicate, PushTask, PushTaskEnd,
              EraseItem, RunWakeup
<1>9. CASE DequeueStep
  BY <1>6, <1>7, <1>9
     DEF DequeueStep, DequeueIdle, DequeueBlock, DequeueTake, DequeueTaken,
         DequeueNotify, DequeueExit
<1>10. CASE ReconfStep \/ ReceiveConfig \/ Destroy
  BY <1>7, <1>10
     DEF ReconfStep, ReconfPause, ReconfTest, ReconfBlock, ReconfSwap,
         ReconfResume, ReceiveConfig, Destroy
<1>11. CASE UNCHANGED vars
  BY <1>7, <1>11 DEF vars
<1>12. QED
  BY <1>1, <1>2, <1>3, <1>4, <1>7, <1>8, <1>9, <1>10, <1>11 DEF Next, EnqueueStep

\* EnqueueRank makes its producer's item known to the schedulers.
LEMMA RankedByRank ==
  ASSUME StoreInv, NEW t \in Producers, EnqueueRank(t)
  PROVE  /\ Ranked' = Ranked \cup {inhand[t]}
         /\ inhand[t] \in Pkts
         /\ inhand[t] \notin Ranked
<1>0. ProducerInv /\ ProdType /\ StoreType
  BY DEF StoreInv, TypeOK
<1>1. \A u \in Producers : u # t => pc[u] = "idle"
  BY <1>0, OneProducer DEF EnqueueRank
<1>2. \A u \in Producers : pc[u] = "rank" <=> u = t
  BY <1>1 DEF EnqueueRank
<1>3. \A u \in Producers : pc'[u] # "rank"
  BY <1>0, <1>1 DEF EnqueueRank, ProdType
<1>4. Ranked = stored \ {inhand[t]}
  BY <1>2 DEF Ranked
<1>5. Ranked' = stored
  BY <1>3 DEF EnqueueRank, Ranked, storeVars
<1>6. inhand[t] \in stored
  BY <1>0 DEF EnqueueRank, ProducerInv
<1>7. QED
  BY <1>0, <1>4, <1>5, <1>6 DEF StoreType

\* Nothing else changes the set of items the schedulers know.
LEMMA RankedStep ==
  ASSUME StoreInv, [Next]_vars
  PROVE  Ranked' = Ranked \/ \E t \in Producers : EnqueueRank(t)
<1>0. ProducerInv /\ ProdType /\ StoreType
  BY DEF StoreInv, TypeOK
<1>1. ASSUME NEW t \in Producers, NEW p \in Pkts, EnqueueLock(t, p)
      PROVE  Ranked' = Ranked
  <2>1. \A u \in Producers : pc[u] = "idle"
    BY <1>0, <1>1, ConstAssumption DEF EnqueueLock, ProducerInv
  <2>2. \A u \in Producers : pc'[u] # "rank"
    BY <1>0, <1>1, <2>1 DEF EnqueueLock, ProdType
  <2>3. QED
    BY <1>1, <2>1, <2>2 DEF EnqueueLock, Ranked, storeVars
<1>2. ASSUME NEW t \in Producers, EnqueueStore(t) PROVE Ranked' = Ranked
  <2>1. \A u \in Producers : u # t => pc[u] = "idle"
    BY <1>0, <1>2, OneProducer DEF EnqueueStore
  <2>2. \A u \in Producers : pc'[u] = "rank" <=> u = t
    BY <1>0, <1>2, <2>1 DEF EnqueueStore, ProdType
  <2>3. Ranked = stored
    BY <1>2, <2>1 DEF EnqueueStore, Ranked
  <2>4. Ranked' = stored' \ {inhand[t]}
    BY <1>2, <2>2 DEF EnqueueStore, Ranked
  <2>5. inhand[t] \notin stored
    BY <1>0, <1>2 DEF EnqueueStore, ProducerInv
  <2>6. QED
    BY <1>2, <2>3, <2>4, <2>5 DEF EnqueueStore
<1>3. ASSUME NEW t \in Producers, EnqueueCallback(t) PROVE Ranked' = Ranked
  <2>1. \A u \in Producers : u # t => pc[u] = "idle"
    BY <1>0, <1>3, OneProducer DEF EnqueueCallback
  <2>2. \A u \in Producers : pc[u] # "rank" /\ pc'[u] # "rank"
    BY <1>0, <1>3, <2>1 DEF EnqueueCallback, ProdType
  <2>3. QED
    BY <1>3, <2>2 DEF EnqueueCallback, Ranked, storeVars
<1>4. CASE UNCHANGED <<prodVars, stored>>
  BY <1>4 DEF prodVars, Ranked
<1>5. ASSUME NEW n \in Nodes, PredicateStep(n) \/ RunWakeup(n)
      PROVE  UNCHANGED <<prodVars, stored>>
  BY <1>5 DEF PredicateStep, EvalEmpty, EvalPredicate, PushTask, PushTaskEnd,
              EraseItem, RunWakeup, storeVars
<1>6. CASE DequeueStep
  BY <1>4, <1>6
     DEF DequeueStep, DequeueIdle, DequeueBlock, DequeueTake, DequeueTaken,
         DequeuePop, DequeueNotify, DequeueExit, storeVars
<1>7. CASE ReconfStep \/ ReceiveConfig \/ Destroy
  BY <1>4, <1>7
     DEF ReconfStep, ReconfPause, ReconfTest, ReconfBlock, ReconfSwap,
         ReconfResume, ReceiveConfig, Destroy, storeVars
<1>8. CASE UNCHANGED vars
  BY <1>4, <1>8 DEF vars, storeVars
<1>9. QED
  BY <1>1, <1>2, <1>3, <1>4, <1>5, <1>6, <1>7, <1>8 DEF Next, EnqueueStep

\* Unless an item is ranked, calendars only shrink, and Ranked stays.
LEMMA CalendarStep == StoreInv /\ [Next]_vars => CalendarInv'
<1> SUFFICES ASSUME StoreInv, [Next]_vars PROVE CalendarInv'
  OBVIOUS
<1>0. CalendarInv /\ TaskInv /\ CountInv /\ NodeType /\ StoreType /\ TaskType /\ DequeueType
  BY DEF StoreInv, TypeOK
<1> DEFINE Busy(p) == p \in consumed \/ p = dq_item \/ (\E i \in Slots : slot[i] = p)
<1>a. ASSUME NEW n \in Nodes, NEW p \in calendar[n], Busy(p)
      PROVE  hand[n] = p /\ Tasked(n)
  BY <1>0, <1>a DEF CalendarInv
<1>b. ASSUME Ranked' = Ranked, UNCHANGED <<calendar, wpc, hand>>,
             \A p \in Pkts : Busy(p)' => Busy(p)
      PROVE  CalendarInv'
  BY <1>0, <1>b DEF CalendarInv, NodeType, Tasked
<1>1. ASSUME NEW t \in Producers, EnqueueRank(t) PROVE CalendarInv'
  <2>1. /\ Ranked' = Ranked \cup {inhand[t]}
        /\ inhand[t] \in Pkts /\ inhand[t] \notin Ranked
    BY <1>1, RankedByRank
  <2>2. inhand[t] # None
    BY <2>1, ConstAssumption
  <2>3. ~Busy(inhand[t]) /\ \A n \in Nodes : inhand[t] \notin calendar[n]
    BY <1>0, <2>1, <2>2 DEF CalendarInv, TaskInv, CountInv
  <2>4. /\ UNCHANGED <<wpc, hand, consumed, dq_item, slot>>
        /\ \/ calendar' = calendar
           \/ calendar' = [calendar EXCEPT ![CurNode] = @ \cup {inhand[t]}]
    BY <1>1 DEF EnqueueRank, storeVars, tqVars, dqVars
  <2>5. CASE calendar' = calendar
    BY <1>0, <2>1, <2>4, <2>5 DEF CalendarInv, Tasked
  <2>6. CASE calendar' = [calendar EXCEPT ![CurNode] = @ \cup {inhand[t]}]
    <3>1. CurNode \in Nodes
      BY RankTypes DEF StoreInv
    <3>2. \A n \in Nodes : calendar'[n] = IF n = CurNode
                              THEN calendar[n] \cup {inhand[t]} ELSE calendar[n]
      BY <1>0, <2>6, <3>1 DEF NodeType
    <3>3. \A n \in Nodes : calendar'[n] \subseteq Ranked'
      <4>1. ASSUME NEW n \in Nodes, NEW x \in calendar'[n] PROVE x \in Ranked'
        <5>1. calendar[n] \subseteq Ranked
          BY <1>0 DEF CalendarInv
        <5>2. x \in calendar[n] \/ x = inhand[t]
          BY <3>2, <4>1
        <5>3. QED
          BY <2>1, <5>1, <5>2
      <4>2. QED
        BY <4>1
    <3>4. \A n \in Nodes : wpc'[n] # "idle" => hand'[n] \in calendar'[n]
      BY <1>0, <2>4, <3>2 DEF CalendarInv
    <3>5. \A m, n \in Nodes : m # n => calendar'[m] \cap calendar'[n] = {}
      <4>1. ASSUME NEW m \in Nodes, NEW n \in Nodes, m # n,
                   NEW x \in calendar'[m], x \in calendar'[n]
            PROVE  FALSE
        <5>1. x # inhand[t]
          BY <2>3, <3>2, <4>1
        <5>2. x \in calendar[m] /\ x \in calendar[n]
          BY <3>2, <4>1, <5>1
        <5>3. QED
          BY <1>0, <4>1, <5>2 DEF CalendarInv
      <4>2. QED
        BY <4>1
    <3>6. ASSUME NEW n \in Nodes, NEW p \in calendar'[n], Busy(p)'
          PROVE  hand'[n] = p /\ Tasked(n)'
      <4>1. Busy(p)
        BY <2>4, <3>6
      <4>2. p \in calendar[n]
        BY <2>3, <3>2, <4>1
      <4>3. QED
        BY <1>a, <2>4, <4>1, <4>2 DEF Tasked
    <3>7. QED
      BY <3>3, <3>4, <3>5, <3>6 DEF CalendarInv
  <2>7. QED
    BY <2>4, <2>5, <2>6
<1>c. CASE \A t \in Producers : ~EnqueueRank(t)
  <2>0. Ranked' = Ranked
    BY <1>c, RankedStep
  <2>1. ASSUME NEW n \in Nodes, EvalPredicate(n) PROVE CalendarInv'
    <3>1. PICK e : calendar' = [calendar EXCEPT ![n] = @ \ e]
                   /\ \/ UNCHANGED <<wpc, hand>>
                      \/ /\ wpc' = [wpc EXCEPT ![n] = "push"]
                         /\ \E q \in calendar[n] \ e : hand' = [hand EXCEPT ![n] = q]
      BY <2>1 DEF EvalPredicate
    <3>2. wpc[n] = "idle" /\ UNCHANGED <<consumed, dq_item, slot>>
      BY <2>1 DEF EvalPredicate, storeVars, tqVars, dqVars
    <3>3. \A p \in calendar[n] : ~Busy(p)
      BY <1>a, <3>2 DEF Tasked
    <3>4. \A m \in Nodes : calendar'[m] = IF m = n THEN calendar[m] \ e ELSE calendar[m]
      BY <1>0, <3>1 DEF NodeType
    <3>5. \A m \in Nodes : m # n => wpc'[m] = wpc[m] /\ hand'[m] = hand[m]
      BY <1>0, <3>1 DEF NodeType
    <3>6. wpc'[n] # "idle" => hand'[n] \in calendar'[n]
      BY <1>0, <3>1, <3>2, <3>4 DEF NodeType
    <3>7. ASSUME NEW m \in Nodes, NEW p \in calendar'[m], Busy(p)'
          PROVE  hand'[m] = p /\ Tasked(m)'
      BY <1>a, <3>2, <3>3, <3>4, <3>5, <3>7 DEF Tasked
    <3>8. \A m \in Nodes : calendar'[m] \subseteq calendar[m]
      BY <3>4
    <3>9. \A m \in Nodes : wpc'[m] # "idle" => hand'[m] \in calendar'[m]
      BY <1>0, <3>4, <3>5, <3>6 DEF CalendarInv
    <3>10. /\ \A m \in Nodes : calendar'[m] \subseteq Ranked'
           /\ \A m, k \in Nodes : m # k => calendar'[m] \cap calendar'[k] = {}
      BY <1>0, <2>0, <3>8 DEF CalendarInv
    <3>11. QED
      BY <3>7, <3>9, <3>10 DEF CalendarInv
  <2>2. ASSUME NEW n \in Nodes, PushTask(n) PROVE CalendarInv'
    <3>1. /\ UNCHANGED <<calendar, hand, consumed, dq_item>>
          /\ wpc[n] = "push" /\ wpc' = [wpc EXCEPT ![n] = "pushing"]
          /\ \A i \in Slots : slot'[i] = slot[i] \/ slot'[i] = hand[n]
      BY <1>0, <2>2 DEF PushTask, storeVars, dqVars, TaskType
    <3>2. hand[n] \in calendar[n]
      BY <1>0, <3>1 DEF CalendarInv
    <3>3. \A m \in Nodes : wpc'[m] = IF m = n THEN "pushing" ELSE wpc[m]
      BY <1>0, <3>1 DEF NodeType
    <3>4. ASSUME NEW m \in Nodes, NEW p \in calendar'[m], Busy(p)'
          PROVE  hand'[m] = p /\ Tasked(m)'
      <4>1. CASE Busy(p)
        BY <1>a, <3>1, <3>3, <4>1 DEF Tasked
      <4>2. CASE ~Busy(p)
        <5>1. p = hand[n] /\ p \in calendar[m]
          BY <3>1, <3>4, <4>2
        <5>2. m = n
          BY <1>0, <3>2, <5>1 DEF CalendarInv
        <5>3. QED
          BY <3>1, <3>3, <5>1, <5>2 DEF Tasked
      <4>3. QED
        BY <4>1, <4>2
    <3>5. QED
      BY <1>0, <2>0, <3>1, <3>3, <3>4 DEF CalendarInv
  <2>3. ASSUME NEW n \in Nodes, PushTaskEnd(n) PROVE CalendarInv'
    <3>1. /\ UNCHANGED <<calendar, hand, consumed, dq_item, slot>>
          /\ wpc[n] = "pushing" /\ wpc' = [wpc EXCEPT ![n] = "erase"]
      BY <2>3 DEF PushTaskEnd, storeVars
    <3>2. \A m \in Nodes : wpc'[m] = IF m = n THEN "erase" ELSE wpc[m]
      BY <1>0, <3>1 DEF NodeType
    <3>3. QED
      BY <1>0, <2>0, <3>1, <3>2 DEF CalendarInv, Tasked
  <2>4. ASSUME NEW n \in Nodes, EraseItem(n) PROVE CalendarInv'
    <3>1. /\ UNCHANGED <<consumed, dq_item, slot>>
          /\ wpc' = [wpc EXCEPT ![n] = "idle"]
          /\ hand' = [hand EXCEPT ![n] = None]
          /\ calendar' = [calendar EXCEPT ![n] = @ \ {hand[n]}]
      BY <2>4 DEF EraseItem, storeVars, tqVars, dqVars
    <3>2. \A m \in Nodes : /\ wpc'[m] = IF m = n THEN "idle" ELSE wpc[m]
                           /\ m # n => hand'[m] = hand[m]
                           /\ calendar'[m] = IF m = n THEN calendar[m] \ {hand[m]}
                                             ELSE calendar[m]
      BY <1>0, <3>1 DEF NodeType
    <3>3. ASSUME NEW m \in Nodes, NEW p \in calendar'[m], Busy(p)'
          PROVE  hand'[m] = p /\ Tasked(m)'
      BY <1>a, <3>1, <3>2, <3>3 DEF Tasked
    <3>4. \A m \in Nodes : calendar'[m] \subseteq calendar[m]
      BY <3>2
    <3>5. /\ \A m \in Nodes : calendar'[m] \subseteq Ranked'
          /\ \A m, k \in Nodes : m # k => calendar'[m] \cap calendar'[k] = {}
      BY <1>0, <2>0, <3>4 DEF CalendarInv
    <3>6. \A m \in Nodes : wpc'[m] # "idle" => hand'[m] \in calendar'[m]
      BY <1>0, <3>2 DEF CalendarInv
    <3>7. QED
      BY <3>3, <3>5, <3>6 DEF CalendarInv
  <2>5. CASE DequeueTake
    <3>1. /\ UNCHANGED <<calendar, wpc, hand, consumed>>
          /\ dq_item' = slot[1] /\ 1 \in Slots
          /\ \A i \in Slots : slot'[i] = None \/ \E j \in Slots : slot'[i] = slot[j]
      BY <1>0, <2>5, ConstAssumption DEF DequeueTake, Slots, TaskType, nodeVars, storeVars
    <3>2. \A p \in Pkts : Busy(p)' => Busy(p)
      BY <3>1, ConstAssumption
    <3>3. QED
      BY <1>b, <2>0, <3>1, <3>2
  <2>6. CASE DequeuePop
    BY <1>b, <2>0, <2>6 DEF DequeuePop, nodeVars, tqVars
  <2>7. CASE DequeueNotify
    BY <1>b, <2>0, <2>7, ConstAssumption DEF DequeueNotify, nodeVars, tqVars, storeVars
  <2>8. CASE UNCHANGED <<calendar, wpc, hand, consumed, dq_item, slot>>
    BY <1>b, <2>0, <2>8
  <2>9. ASSUME NEW t \in Producers, NEW p \in Pkts,
               EnqueueLock(t, p) \/ EnqueueStore(t) \/ EnqueueCallback(t)
        PROVE  CalendarInv'
    BY <2>8, <2>9 DEF EnqueueLock, EnqueueStore, EnqueueCallback, nodeVars,
                      storeVars, tqVars, dqVars
  <2>10. ASSUME NEW n \in Nodes, EvalEmpty(n) \/ RunWakeup(n) PROVE CalendarInv'
    BY <2>8, <2>10 DEF EvalEmpty, RunWakeup, storeVars, tqVars, dqVars
  <2>11. CASE DequeueIdle \/ DequeueBlock \/ DequeueTaken \/ DequeueExit \/ Destroy
    BY <2>8, <2>11 DEF DequeueIdle, DequeueBlock, DequeueTaken, DequeueExit, Destroy,
                       nodeVars, storeVars, tqVars
  <2>12. CASE ReconfStep \/ ReceiveConfig
    BY <2>8, <2>12
       DEF ReconfStep, ReconfPause, ReconfTest, ReconfBlock, ReconfSwap,
           ReconfResume, ReceiveConfig, nodeVars, storeVars, tqVars, dqVars
  <2>13. CASE UNCHANGED vars
    BY <2>8, <2>13 DEF vars, nodeVars, storeVars, tqVars, dqVars
  <2>14. ASSUME NEW t \in Producers, EnqueueStore(t) \/ EnqueueCallback(t)
         PROVE  CalendarInv'
    BY <2>8, <2>14 DEF EnqueueStore, EnqueueCallback, nodeVars,
                      storeVars, tqVars, dqVars
  <2>15. QED
    BY <1>c, <2>1, <2>2, <2>3, <2>4, <2>5, <2>6, <2>7, <2>9, <2>10, <2>11,
       <2>12, <2>13, <2>14
       DEF Next, EnqueueStep, PredicateStep, DequeueStep
<1>2. QED
  BY <1>1, <1>c

\* The task queue: what PushTask adds is new to it, and what DequeueTake
\* takes is gone from it.
LEMMA TaskStep == StoreInv /\ [Next]_vars => TaskInv'
<1> SUFFICES ASSUME StoreInv, [Next]_vars PROVE TaskInv'
  OBVIOUS
<1>0. CalendarInv /\ TaskInv /\ NodeType /\ TaskType /\ DequeueType
  BY DEF StoreInv, TypeOK
<1>a. Ranked \subseteq Ranked'
  BY RankedStep, RankedByRank
<1>1. ASSUME NEW n \in Nodes, PushTask(n) PROVE TaskInv'
  <2>1. /\ UNCHANGED <<consumed, dq, dq_item>>
        /\ wpc[n] = "push" /\ fin + 1 \in Slots
        /\ \A i \in Slots : slot'[i] = IF i = fin + 1 THEN hand[n] ELSE slot[i]
    BY <1>0, <1>1, ConstAssumption DEF PushTask, storeVars, dqVars, TaskType, Slots
  <2>2. hand[n] \in calendar[n] /\ hand[n] \in Ranked /\ ~Tasked(n)
    BY <1>0, <2>1 DEF CalendarInv, Tasked
  <2>3. /\ hand[n] \notin consumed /\ hand[n] # dq_item
        /\ \A i \in Slots : slot[i] # hand[n]
    BY <1>0, <2>2 DEF CalendarInv
  <2>4. \A i \in Slots : slot'[i] # None => slot'[i] \in Ranked' \ consumed'
    BY <1>0, <1>a, <2>1, <2>2, <2>3 DEF TaskInv
  <2>5. \A i, j \in Slots : slot'[i] = slot'[j] /\ slot'[i] # None => i = j
    BY <1>0, <2>1, <2>3 DEF TaskInv
  <2>6. dq_item' # None => dq_item' \in Ranked' /\ \A i \in Slots : slot'[i] # dq_item'
    BY <1>0, <1>a, <2>1, <2>3 DEF TaskInv
  <2>7. QED
    BY <1>0, <2>1, <2>4, <2>5, <2>6 DEF TaskInv
<1>2. CASE DequeueTake
  <2>1. /\ consumed' = consumed /\ dq' = "taking"
        /\ dq_item' = slot[1] /\ 1 \in Slots /\ fin \in Slots
        /\ slot' = [i \in Slots |-> IF i < fin THEN slot[i + 1]
                                    ELSE IF i = fin THEN None ELSE slot[i]]
    BY <1>0, <1>2, ConstAssumption DEF DequeueTake, storeVars, TaskType, Slots
  <2>2. DEFINE from(i) == IF i < fin THEN i + 1 ELSE i
  <2>3. \A i \in Slots : slot'[i] # None =>
           i # fin /\ from(i) \in Slots /\ from(i) # 1 /\ slot'[i] = slot[from(i)]
    BY <2>1, ConstAssumption DEF Slots
  <2>4. \A i, j \in Slots : i # fin /\ j # fin /\ from(i) = from(j) => i = j
    BY <2>1, ConstAssumption DEF Slots
  <2> HIDE DEF from
  <2>5. \A i \in Slots : slot'[i] # None => slot'[i] \in Ranked' \ consumed'
    BY <1>0, <1>a, <2>1, <2>3 DEF TaskInv
  <2>6. \A i, j \in Slots : slot'[i] = slot'[j] /\ slot'[i] # None => i = j
    BY <1>0, <2>3, <2>4 DEF TaskInv
  <2>7. dq_item' # None => /\ dq_item' \in Ranked' /\ dq_item' \notin consumed'
                           /\ \A i \in Slots : slot'[i] # dq_item'
    BY <1>0, <1>a, <2>1, <2>3 DEF TaskInv
  <2>8. None \notin consumed'
    BY <2>1, ConstAssumption DEF StoreInv, TypeOK, StoreType
  <2>9. QED
    BY <2>1, <2>5, <2>6, <2>7, <2>8 DEF TaskInv
<1>3. CASE DequeueTaken
  BY <1>0, <1>3, <1>a DEF DequeueTaken, TaskInv, storeVars
<1>4. CASE DequeuePop
  <2>1. /\ UNCHANGED <<slot, dq_item>> /\ dq = "pop" /\ dq' = "notify"
        /\ consumed' = consumed \cup {dq_item}
    BY <1>4 DEF DequeuePop, tqVars
  <2>2. QED
    BY <1>0, <1>a, <2>1 DEF TaskInv
<1>5. CASE DequeueNotify
  BY <1>0, <1>5, <1>a DEF DequeueNotify, TaskInv, storeVars, tqVars
<1>6. ASSUME UNCHANGED <<slot, consumed, dq_item>>,
             \/ dq' = dq
             \/ dq' \in {"wake", "towait", "blocked", "exited"} /\ dq_item = None
      PROVE  TaskInv'
  BY <1>0, <1>6, <1>a DEF TaskInv
<1>7. ASSUME NEW n \in Nodes, PushTaskEnd(n) PROVE TaskInv'
  BY <1>0, <1>6, <1>7 DEF PushTaskEnd, NotifyDequeue, TaskInv, storeVars
<1>8. ASSUME NEW t \in Producers, EnqueueStore(t) PROVE TaskInv'
  BY <1>0, <1>6, <1>8 DEF EnqueueStore, NotifyDequeue, TaskInv, tqVars
<1>9. CASE DequeueIdle \/ DequeueBlock \/ DequeueExit \/ Destroy
  BY <1>0, <1>6, <1>9 DEF DequeueIdle, DequeueBlock, DequeueExit, Destroy, Testing,
                          TaskInv, storeVars, tqVars
<1>10. CASE UNCHANGED <<tqVars, storeVars, dqVars>>
  BY <1>6, <1>10 DEF tqVars, storeVars, dqVars
<1>11. ASSUME NEW t \in Producers, NEW p \in Pkts, EnqueueLock(t, p) PROVE TaskInv'
  BY <1>10, <1>11 DEF EnqueueLock
<1>12. ASSUME NEW t \in Producers, EnqueueRank(t) \/ EnqueueCallback(t) PROVE TaskInv'
  BY <1>10, <1>12 DEF EnqueueRank, EnqueueCallback
<1>13. ASSUME NEW n \in Nodes,
              EvalEmpty(n) \/ EvalPredicate(n) \/ EraseItem(n) \/ RunWakeup(n)
       PROVE  TaskInv'
  BY <1>10, <1>13 DEF EvalEmpty, EvalPredicate, EraseItem, RunWakeup
<1>14. CASE ReconfStep \/ ReceiveConfig
  BY <1>10, <1>14 DEF ReconfStep, ReconfPause, ReconfTest, ReconfBlock,
                      ReconfSwap, ReconfResume, ReceiveConfig
<1>15. CASE UNCHANGED vars
  BY <1>10, <1>15 DEF vars
<1>16. QED
  BY <1>1, <1>2, <1>3, <1>4, <1>5, <1>7, <1>8, <1>9, <1>11, <1>12, <1>13,
     <1>14, <1>15 DEF Next, EnqueueStep, PredicateStep, DequeueStep

\* How a new packet changes the number of packets of a worker.
LEMMA CountAdd ==
  ASSUME NEW S \in SUBSET Pkts, NEW x \in Pkts, x \notin S, NEW w
  PROVE  Cardinality(OfWorker(S \cup {x}, w))
           = Cardinality(OfWorker(S, w)) + (IF WorkerOf(x) = w THEN 1 ELSE 0)
<1> DEFINE A == OfWorker(S, w)
           B == OfWorker(S \cup {x}, w)
<1>1. IsFiniteSet(A)
  BY ConstAssumption, FS_Subset DEF OfWorker
<1>2. Cardinality(A) \in Nat
  BY <1>1, FS_CardinalityType
<1>3. CASE WorkerOf(x) = w
  <2>1. B = A \cup {x} /\ x \notin A
    BY <1>3 DEF OfWorker
  <2>2. QED
    BY <1>1, <1>2, <1>3, <2>1, FS_AddElement
<1>4. CASE WorkerOf(x) # w
  <2>1. B = A
    BY <1>4 DEF OfWorker
  <2>2. QED
    BY <1>2, <1>4, <2>1
<1>5. QED
  BY <1>3, <1>4

\* A set of packets of a worker is finite.
LEMMA CountNat ==
  ASSUME NEW S \in SUBSET Pkts, NEW w
  PROVE  IsFiniteSet(OfWorker(S, w)) /\ Cardinality(OfWorker(S, w)) \in Nat
<1>1. IsFiniteSet(OfWorker(S, w))
  BY ConstAssumption, FS_Subset DEF OfWorker
<1>2. QED
  BY <1>1, FS_CardinalityType

\* A packet enters the store when it is stored, and one leaves it when a
\* task is consumed.
LEMMA CountStep == StoreInv /\ [Next]_vars => CountInv'
<1> SUFFICES ASSUME StoreInv, [Next]_vars PROVE CountInv'
  OBVIOUS
<1>0. CountInv /\ TaskInv /\ StoreType /\ ProducerInv
  BY DEF StoreInv, TypeOK
<1>a. Ranked \subseteq Ranked'
  BY RankedStep, RankedByRank
<1>b. \A w \in Workers : /\ Len(store[w]) \in Nat
                         /\ Cardinality(OfWorker(consumed, w)) \in Nat
                         /\ Cardinality(OfWorker(stored, w)) \in Nat
  BY <1>0, CountNat DEF StoreType
<1>1. ASSUME NEW t \in Producers, EnqueueStore(t) PROVE CountInv'
  <2>1. inhand[t] \in Pkts /\ inhand[t] \notin stored
    BY <1>0, <1>1, Hands DEF EnqueueStore, ProducerInv
  <2>2. /\ consumed' = consumed /\ stored' = stored \cup {inhand[t]}
        /\ store' = [store EXCEPT ![WorkerOf(inhand[t])] = Append(@, inhand[t])]
    BY <1>1 DEF EnqueueStore
  <2>3. ASSUME NEW w \in Workers
        PROVE  Len(store'[w]) + Cardinality(OfWorker(consumed', w))
                 = Cardinality(OfWorker(stored', w))
    <3>1. Cardinality(OfWorker(stored', w))
            = Cardinality(OfWorker(stored, w)) + (IF WorkerOf(inhand[t]) = w THEN 1 ELSE 0)
      BY <1>0, <2>1, <2>2, CountAdd DEF StoreType
    <3>2. Len(store'[w]) = Len(store[w]) + (IF WorkerOf(inhand[t]) = w THEN 1 ELSE 0)
      BY <1>0, <2>1, <2>2 DEF StoreType
    <3>3. Len(store[w]) + Cardinality(OfWorker(consumed, w)) = Cardinality(OfWorker(stored, w))
      BY <1>0 DEF CountInv
    <3>4. CASE WorkerOf(inhand[t]) = w
      BY <1>b, <2>2, <3>1, <3>2, <3>3, <3>4
    <3>5. CASE WorkerOf(inhand[t]) # w
      BY <1>b, <2>2, <3>1, <3>2, <3>3, <3>5
    <3>6. QED
      BY <3>4, <3>5
  <2>4. QED
    BY <1>0, <1>a, <2>2, <2>3 DEF CountInv
<1>2. CASE DequeuePop
  <2>1. dq_item \in Pkts /\ dq_item \notin consumed /\ dq_item \in Ranked
    BY <1>0, <1>2, Hands, ConstAssumption DEF DequeuePop, TaskInv
  <2>2. /\ stored' = stored /\ consumed' = consumed \cup {dq_item}
        /\ store' = [store EXCEPT ![WorkerOf(dq_item)] = Tail(@)]
        /\ store[WorkerOf(dq_item)] # <<>>
    BY <1>2 DEF DequeuePop
  <2>3. ASSUME NEW w \in Workers
        PROVE  Len(store'[w]) + Cardinality(OfWorker(consumed', w))
                 = Cardinality(OfWorker(stored', w))
    <3>1. Cardinality(OfWorker(consumed', w))
            = Cardinality(OfWorker(consumed, w)) + (IF WorkerOf(dq_item) = w THEN 1 ELSE 0)
      BY <1>0, <2>1, <2>2, CountAdd DEF StoreType
    <3>2. CASE WorkerOf(dq_item) = w
      <4>1. store[w] \in Seq(Pkts) /\ store[w] # <<>> /\ store'[w] = Tail(store[w])
        BY <1>0, <2>2, <3>2 DEF StoreType
      <4>2. Len(store'[w]) = Len(store[w]) - 1
        BY <4>1
      <4>3. QED
        BY <1>0, <1>b, <2>2, <3>1, <3>2, <4>2 DEF CountInv
    <3>3. CASE WorkerOf(dq_item) # w
      <4>1. store'[w] = store[w]
        BY <1>0, <2>2, <3>3 DEF StoreType
      <4>2. QED
        BY <1>0, <1>b, <2>2, <3>1, <3>3, <4>1 DEF CountInv
    <3>4. QED
      BY <3>2, <3>3
  <2>4. consumed' \subseteq Ranked'
    BY <1>0, <1>a, <2>1, <2>2 DEF CountInv
  <2>5. QED
    BY <2>3, <2>4 DEF CountInv
<1>3. CASE UNCHANGED storeVars
  BY <1>0, <1>3, <1>a DEF CountInv, storeVars
<1>4. ASSUME NEW t \in Producers, NEW p \in Pkts, EnqueueLock(t, p) PROVE CountInv'
  BY <1>3, <1>4 DEF EnqueueLock
<1>5. ASSUME NEW t \in Producers, EnqueueRank(t) \/ EnqueueCallback(t) PROVE CountInv'
  BY <1>3, <1>5 DEF EnqueueRank, EnqueueCallback
<1>6. ASSUME NEW n \in Nodes, PredicateStep(n) \/ RunWakeup(n) PROVE CountInv'
  BY <1>3, <1>6 DEF PredicateStep, EvalEmpty, EvalPredicate, PushTask,
                    PushTaskEnd, EraseItem, RunWakeup
<1>7. CASE DequeueStep
  BY <1>2, <1>3, <1>7 DEF DequeueStep, DequeueIdle, DequeueBlock, DequeueTake,
                          DequeueTaken, DequeueNotify, DequeueExit
<1>8. CASE ReconfStep \/ ReceiveConfig \/ Destroy
  BY <1>3, <1>8 DEF ReconfStep, ReconfPause, ReconfTest, ReconfBlock,
                    ReconfSwap, ReconfResume, ReceiveConfig, Destroy
<1>9. CASE UNCHANGED vars
  BY <1>3, <1>9 DEF vars
<1>10. QED
  BY <1>1, <1>4, <1>5, <1>6, <1>7, <1>8, <1>9 DEF Next, EnqueueStep

\* The invariant holds when the traffic manager is constructed.
LEMMA StoreInit == Init => StoreInv
<1> SUFFICES ASSUME Init PROVE StoreInv
  OBVIOUS
<1>1. TypeOK
  <2>1. ProdType /\ StoreType
    BY DEF Init, ProdType, StoreType
  <2>2. P4Type
    BY DEF Init, P4Type, NoRank, Ranks
  <2>3. NodeType
    BY ConstAssumption DEF Init, NodeType, NoRank, Ranks
  <2>4. TaskType /\ DequeueType /\ ReconfType
    <3>1. TaskType
      BY ConstAssumption DEF Init, TaskType
    <3>2. DequeueType
      <4>1. stop \in BOOLEAN
        BY DEF Init
      <4>2. QED
        BY <4>1, ConstAssumption DEF Init, DequeueType
    <3>3. ReconfType
      <4>1. ready_to_enqueue \in BOOLEAN /\ swapped \in BOOLEAN
        BY DEF Init
      <4>2. QED
        BY <4>1, ConstAssumption DEF Init, ReconfType, Nodes
    <3>4. QED
      BY <3>1, <3>2, <3>3
  <2>5. QED
    BY <2>1, <2>2, <2>3, <2>4 DEF TypeOK
<1>2. ProducerInv
  BY DEF Init, ProducerInv
<1>3. CalendarInv
  BY DEF Init, CalendarInv
<1>4. TaskInv
  BY DEF Init, TaskInv
<1>5. CountInv
  <2>1. consumed = stored /\ stored \in SUBSET Pkts
    BY DEF Init
  <2>2. \A w \in Workers : Len(store[w]) = 0
    BY DEF Init
  <2>3. consumed \subseteq Ranked
    BY DEF Init
  <2>4. \A w \in Workers : Len(store[w]) + Cardinality(OfWorker(consumed, w))
                              = Cardinality(OfWorker(stored, w))
    BY <2>1, <2>2, CountNat
  <2>5. QED
    BY <2>3, <2>4 DEF CountInv
<1>6. QED
  BY <1>1, <1>2, <1>3, <1>4, <1>5 DEF StoreInv

\* StoreInv is an invariant: the producers, the predicate threads and the
\* dequeue thread agree on which items are queued and how many packets the
\* store holds, although task_queue is changed without a common lock.
THEOREM StoreInvariant == Spec => []StoreInv
<1>1. StoreInv /\ [Next]_vars => StoreInv'
  BY TypeStep, ProducerStep, CalendarStep, TaskStep, CountStep DEF StoreInv
<1>2. QED
  BY <1>1, StoreInit, PTL DEF Spec

\* Every variable keeps its type.
THEOREM TypeCorrect == Spec => []TypeOK
  BY StoreInvariant, PTL DEF StoreInv

\* The dequeue thread never blocks in pkt_store.pop_back: the item it holds
\* was stored and not consumed, so by CountInv its worker's store is not empty.
THEOREM PopNeverStarvesAlways == Spec => []PopNeverStarves
<1>1. StoreInv => PopNeverStarves
  <2> SUFFICES ASSUME StoreInv, dq = "pop" PROVE store[WorkerOf(dq_item)] # <<>>
    BY DEF PopNeverStarves
  <2> DEFINE w == WorkerOf(dq_item)
             C == OfWorker(consumed, w)
             S == OfWorker(stored, w)
  <2>1. dq_item \in Pkts /\ dq_item \in stored /\ dq_item \notin consumed
    BY Hands DEF StoreInv, TaskInv, Ranked
  <2>2. w \in Workers
    BY <2>1, WorkerOfType
  <2>3. C \subseteq S /\ dq_item \in S /\ dq_item \notin C
    BY <2>1 DEF StoreInv, CountInv, Ranked, OfWorker
  <2>4. IsFiniteSet(S) /\ IsFiniteSet(C)
    BY CountNat DEF StoreInv, TypeOK, StoreType
  <2>5. Cardinality(C) < Cardinality(S)
    BY <2>3, <2>4, FS_Subset, FS_CardinalityType
  <2>6. Cardinality(C) \in Nat /\ Cardinality(S) \in Nat
    BY <2>4, FS_CardinalityType
  <2>7. Len(store[w]) + Cardinality(C) = Cardinality(S)
    BY <2>2 DEF StoreInv, CountInv
  <2> HIDE DEF w, C, S
  <2>8. store[w] # <<>>
    BY <2>5, <2>6, <2>7
  <2>9. QED
    BY <2>8 DEF w
<1>2. QED
  BY <1>1, StoreInvariant, PTL

-----------------------------------------------------------------------------
\* A step of the traffic manager puts one packet in, releases the oldest
\* packet of one worker, or is invisible from outside.
LEMMA FifoStep == StoreInv /\ [Next]_vars => [Fifo!Next]_<<store, egress>>
<1> SUFFICES ASSUME StoreInv, [Next]_vars
             PROVE  Fifo!Next \/ UNCHANGED <<store, egress>>
  OBVIOUS
<1>1. ASSUME NEW t \in Producers, EnqueueStore(t) PROVE Fifo!Next
  <2>1. inhand[t] \in Pkts /\ WorkerOf(inhand[t]) \in Workers
    BY <1>1, Hands, WorkerOfType DEF EnqueueStore
  <2>2. Fifo!Put(WorkerOf(inhand[t]), inhand[t])
    BY <1>1 DEF EnqueueStore, Fifo!Put
  <2>3. QED
    BY <2>1, <2>2 DEF Fifo!Next
<1>2. CASE DequeuePop
  <2>1. WorkerOf(dq_item) \in Workers
    BY <1>2, Hands, WorkerOfType DEF DequeuePop
  <2>2. Fifo!Release(WorkerOf(dq_item))
    BY <1>2 DEF DequeuePop, Fifo!Release
  <2>3. QED
    BY <2>1, <2>2 DEF Fifo!Next
<1>3. CASE UNCHANGED storeVars
  BY <1>3 DEF storeVars
<1>4. ASSUME NEW t \in Producers, NEW p \in Pkts, EnqueueLock(t, p)
      PROVE  UNCHANGED storeVars
  BY <1>4 DEF EnqueueLock
<1>5. ASSUME NEW t \in Producers, EnqueueRank(t) \/ EnqueueCallback(t)
      PROVE  UNCHANGED storeVars
  BY <1>5 DEF EnqueueRank, EnqueueCallback
<1>6. ASSUME NEW n \in Nodes, PredicateStep(n) \/ RunWakeup(n)
      PROVE  UNCHANGED storeVars
  BY <1>6 DEF PredicateStep, EvalEmpty, EvalPredicate, PushTask,
              PushTaskEnd, EraseItem, RunWakeup
<1>7. ASSUME DequeueStep, ~DequeuePop PROVE UNCHANGED storeVars
  BY <1>7 DEF DequeueStep, DequeueIdle, DequeueBlock, DequeueTake,
              DequeueTaken, DequeueNotify, DequeueExit
<1>8. ASSUME ReconfStep \/ ReceiveConfig \/ Destroy PROVE UNCHANGED storeVars
  BY <1>8 DEF ReconfStep, ReconfPause, ReconfTest, ReconfBlock,
              ReconfSwap, ReconfResume, ReceiveConfig, Destroy
<1>9. CASE UNCHANGED vars
  BY <1>3, <1>9 DEF vars
<1>10. QED
  BY <1>1, <1>2, <1>3, <1>4, <1>5, <1>6, <1>7, <1>8, <1>9 DEF Next, EnqueueStep

\* The traffic manager implements TmFifo: however the programmable
\* schedulers rank packets, the packets of a worker are released in the
\* order in which TrafficManager::enqueue stored them.
THEOREM RefinesFifo == Spec => ImplementsFifo
<1>1. Init => Fifo!Init
  BY DEF Init, Fifo!Init
<1>2. QED
  BY <1>1, StoreInvariant, FifoStep, PTL DEF Spec, ImplementsFifo, Fifo!Spec

-----------------------------------------------------------------------------
(* The scheduling of TrafficManager loses nothing, for a configuration of  *)
(* one node (with more, the P4 actions write the interface of the last     *)
(* node while packets enter the first): SchedInv is inductive, for every   *)
(* set of packets and producers, and what follows from it.                 *)

\* A configuration of one node: the old node 0 and the new node 1.
LEMMA OneNode ==
  ASSUME ConfNodes = 1
  PROVE  /\ \A n \in Nodes : n = 0 \/ n = 1
         /\ 0 \in Nodes /\ 1 \in Nodes /\ CurNode \in Nodes
  BY DEF Nodes, CurNode

\* Whatever follows from the types and from how one step changes Ranked.
LEMMA SchedTypes ==
  ASSUME SchedInv
  PROVE  /\ StoreInv /\ TypeOK
         /\ ProdType /\ StoreType /\ P4Type /\ NodeType /\ TaskType
         /\ DequeueType /\ ReconfType
         /\ ProducerInv /\ CalendarInv /\ TaskInv /\ CountInv
         /\ RankInv /\ PredicateInv /\ PushInv /\ ReconfInv
         /\ EvaluationPending /\ OldHierarchyDrained
  BY DEF SchedInv, StoreInv, TypeOK

\* Only the node in force evaluates and pushes: a replaced node is at most
\* erasing its last item, and the new one has none before the swap.
LEMMA PushingNode ==
  ASSUME ConfNodes = 1, SchedInv, NEW n \in Nodes, wpc[n] \in {"push", "pushing"}
  PROVE  /\ n = CurNode
         /\ \A m \in Nodes : m # n => wpc[m] \notin {"push", "pushing"}
<1>0. CalendarInv /\ ReconfInv /\ OldHierarchyDrained
  BY SchedTypes
<1>1. ASSUME NEW m \in Nodes, wpc[m] \in {"push", "pushing"} PROVE m = CurNode
  <2>1. hand[m] \in calendar[m]
    BY <1>0, <1>1 DEF CalendarInv
  <2>2. CASE m = 0
    BY <1>0, <1>1, <2>1, <2>2 DEF OldHierarchyDrained, CurNode
  <2>3. CASE m = 1
    BY <1>0, <1>1, <2>1, <2>3 DEF ReconfInv, CurNode
  <2>4. QED
    BY <2>2, <2>3, OneNode
<1>2. QED
  BY <1>1

\* Given in the next state, of a rank of this one.
NextGiven(r) == r[1] \in Days /\ 1 <= r[2] /\ r[2] <= rankreg'[r[1]]

\* A rank that was given out stays given out, and is no null rank.
LEMMA GivenStep ==
  ASSUME SchedInv, [Next]_vars
  PROVE  \A r \in Ranks : Given(r) => NextGiven(r) /\ r # NoRank
<1> SUFFICES ASSUME NEW r \in Ranks, Given(r) PROVE NextGiven(r) /\ r # NoRank
  OBVIOUS
<1>0. P4Type /\ StoreInv
  BY SchedTypes
<1>1. r # NoRank
  BY DEF Given, NoRank
<1>2. CASE rankreg' = rankreg
  BY <1>1, <1>2 DEF Given, NextGiven
<1>3. ASSUME NEW t \in Producers, EnqueueRank(t) PROVE NextGiven(r)
  <2> DEFINE new == NewRank(SchedOf(CurNode), inhand[t])
             d == DayOf(SchedOf(CurNode), inhand[t])
  <2>1. inhand[t] \in Pkts
    BY <1>0, <1>3, RankedByRank
  <2>2. d \in Days /\ new = <<d, rankreg[d] + 1>>
    BY <1>0, <2>1, RankTypes DEF NewRank, StoreInv
  <2>3. rankreg' = [rankreg EXCEPT ![new[1]] = new[2]]
    BY <1>3 DEF EnqueueRank
  <2> HIDE DEF new, d
  <2>4. rankreg' = [rankreg EXCEPT ![d] = rankreg[d] + 1]
    BY <2>2, <2>3
  <2>5. \A e \in Days : rankreg[e] \in Nat /\ rankreg[e] <= rankreg'[e]
    BY <1>0, <2>2, <2>4 DEF P4Type
  <2>6. r[1] \in Days /\ 1 <= r[2] /\ r[2] <= rankreg[r[1]]
    BY DEF Given
  <2>7. r[2] \in Nat
    BY DEF Ranks
  <2>8. rankreg'[r[1]] \in Nat
    BY <1>0, <2>2, <2>4, <2>6 DEF P4Type
  <2>9. r[2] <= rankreg'[r[1]]
    BY <2>5, <2>6, <2>7, <2>8
  <2>10. QED
    BY <2>6, <2>9 DEF NextGiven
<1>4. rankreg' = rankreg \/ \E t \in Producers : EnqueueRank(t)
  BY DEF Next, vars, EnqueueStep, EnqueueLock, EnqueueStore, EnqueueCallback,
         PredicateStep, EvalEmpty, EvalPredicate, PushTask, PushTaskEnd,
         EraseItem, RunWakeup, DequeueStep, DequeueIdle, DequeueBlock,
         DequeueTake, DequeueTaken, DequeuePop, DequeueNotify, DequeueExit,
         ReconfStep, ReconfPause, ReconfTest, ReconfBlock, ReconfSwap,
         ReconfResume, ReceiveConfig, Destroy, p4Vars
<1>5. QED
  BY <1>1, <1>2, <1>3, <1>4

\* The predicate that a P4 action evaluates over a calendar is the rank of
\* one of its items: of the first day under SP, of day 0 under FIFO.
LEMMA PredicateSelects ==
  ASSUME SchedInv, NEW n \in Nodes, calendar[n] # {}
  PROVE  \E q \in calendar[n] : P4Predicate(SchedOf(n), calendar[n]) = rank[q]
<1> DEFINE cal == calendar[n]
           day == IF SchedOf(n) = "SP" THEN FirstDay(cal) ELSE 0
<1>0. TypeOK /\ NodeType /\ CalendarInv /\ RankInv
  BY SchedTypes
<1>1. cal \in SUBSET Pkts /\ cal \subseteq Ranked
  BY <1>0 DEF NodeType, CalendarInv
<1>2. \A q \in cal : /\ rank[q] \in Ranks /\ rank[q][1] \in Days
                     /\ rank[q][2] \in Nat /\ rank[q][2] # 0
  BY <1>0, <1>1 DEF NodeType, RankInv, Given, Ranks
<1>3. \E q \in cal : rank[q][1] = day
  <2>1. CASE SchedOf(n) = "SP"
    BY <1>2, <2>1, FirstDaySpec
  <2>2. CASE SchedOf(n) # "SP"
    <3>1. SchedOf(n) = "FIFO"
      BY <2>2, ConstAssumption DEF SchedOf
    <3>2. QED
      BY <1>0, <2>2, <3>1 DEF RankInv
  <2>3. QED
    BY <2>1, <2>2
<1>4. \E q \in cal : rank[q][1] = day /\ LowestTime(cal, day) = rank[q][2]
  BY <1>0, <1>1, <1>2, <1>3, LowestTimeSpec
<1>5. PICK q \in cal : rank[q][1] = day /\ LowestTime(cal, day) = rank[q][2]
  BY <1>4
<1>6. rank[q] = <<day, LowestTime(cal, day)>>
  BY <1>2, <1>5 DEF Ranks
<1>7. QED
  BY <1>6 DEF P4Predicate

\* An evaluation selects an item of the node in force and takes nothing out
\* of its calendar: the predicate always changes, and the (garbage) parent
\* has no former item to erase.
LEMMA EvalSelects ==
  ASSUME ConfNodes = 1, SchedInv, NEW n \in Nodes, EvalPredicate(n)
  PROVE  \E q \in calendar[n] :
           /\ pred' = [pred EXCEPT ![n] = rank[q]]
           /\ wpc' = [wpc EXCEPT ![n] = "push"]
           /\ hand' = [hand EXCEPT ![n] = q]
           /\ calendar' = calendar
<1> DEFINE new == P4Predicate(SchedOf(n), calendar[n])
<1>0. NodeType /\ CalendarInv /\ ReconfInv /\ OldHierarchyDrained /\ RankInv /\ PredicateInv
  BY SchedTypes
<1>1. n = CurNode /\ wpc[n] = "idle" /\ calendar[n] # {}
  <2>1. wpc[n] = "idle" /\ calendar[n] # {}
    BY DEF EvalPredicate
  <2>2. CASE n = 0
    BY <1>0, <2>1, <2>2 DEF OldHierarchyDrained, CurNode
  <2>3. CASE n = 1
    BY <1>0, <2>1, <2>3 DEF ReconfInv, CurNode
  <2>4. QED
    BY <2>1, <2>2, <2>3, OneNode
<1>2. p4iface = n
  BY <1>0, <1>1 DEF RankInv
<1>3. PICK q \in calendar[n] : new = rank[q]
  BY <1>1, PredicateSelects
<1>4. \A p \in calendar[n] : rank[p] # pred[n]
  BY <1>0, <1>1 DEF PredicateInv
<1>5. new # NoRank /\ new # pred[n]
  BY <1>0, <1>3, <1>4 DEF RankInv, CalendarInv, Given, NoRank
<1>6. \A p \in calendar[n] : rank[p] = new => p = q
  BY <1>0, <1>3 DEF RankInv, CalendarInv
<1> DEFINE erased == IF new # NoRank /\ new # pred[n] /\ pred[n][2] # 0 /\ parent[n]
                     THEN {x \in calendar[n] : rank[x] = pred[n]} ELSE {}
           chosen == {x \in calendar[n] \ erased : rank[x] = new}
<1>7. erased = {}
  BY <1>4
<1>8. chosen = {q}
  BY <1>3, <1>6, <1>7
<1>9. /\ pred' = [pred EXCEPT ![n] = new]
      /\ calendar' = [calendar EXCEPT ![n] = @ \ erased]
      /\ wpc' = [wpc EXCEPT ![n] = "push"]
      /\ hand' = [hand EXCEPT ![n] = CHOOSE x \in chosen : TRUE]
  BY <1>2, <1>5, <1>8 DEF EvalPredicate
<1>10. calendar' = calendar
  BY <1>0, <1>7, <1>9 DEF NodeType
<1>11. (CHOOSE x \in chosen : TRUE) = q
  BY <1>8
<1>12. QED
  BY <1>3, <1>9, <1>10, <1>11

\* The rank that Node::enqueue gives an item is new, so that emplace inserts
\* the item into the calendar of the node in force.
LEMMA RankIsNew ==
  ASSUME ConfNodes = 1, SchedInv, NEW t \in Producers, EnqueueRank(t)
  PROVE  \E r \in Ranks :
           /\ rank' = [rank EXCEPT ![inhand[t]] = r]
           /\ calendar' = [calendar EXCEPT ![CurNode] = @ \cup {inhand[t]}]
           /\ NextGiven(r) /\ ~Given(r) /\ r # NoRank
           /\ SchedOf(CurNode) = "FIFO" => r[1] = 0
<1> DEFINE d == DayOf(SchedOf(CurNode), inhand[t])
           r == NewRank(SchedOf(CurNode), inhand[t])
<1>0. TypeOK /\ P4Type /\ CalendarInv /\ RankInv /\ StoreInv
  BY SchedTypes
<1>1. inhand[t] \in Pkts
  BY <1>0, RankedByRank
<1>2. d \in Days /\ r \in Ranks /\ r = <<d, rankreg[d] + 1>> /\ CurNode \in Nodes
  BY <1>0, <1>1, RankTypes DEF NewRank
<1>3. p4iface = CurNode
  BY <1>0 DEF RankInv
<1>4. /\ rank' = [rank EXCEPT ![inhand[t]] = r]
      /\ rankreg' = [rankreg EXCEPT ![r[1]] = r[2]]
      /\ (~\E q \in calendar[CurNode] : rank[q] = r) =>
           calendar' = [calendar EXCEPT ![CurNode] = @ \cup {inhand[t]}]
  BY <1>3 DEF EnqueueRank
<1>5. SchedOf(CurNode) = "FIFO" => d = 0
  BY DEF DayOf
<1> HIDE DEF d, r
<1>6. rankreg[d] \in Nat /\ rankreg'[d] = rankreg[d] + 1
  BY <1>0, <1>2, <1>4 DEF P4Type
<1>7. NextGiven(r) /\ ~Given(r) /\ r # NoRank
  BY <1>2, <1>6 DEF Given, NextGiven, NoRank
<1>8. ~\E q \in calendar[CurNode] : rank[q] = r
  BY <1>0, <1>2, <1>7 DEF RankInv, CalendarInv
<1>9. QED
  BY <1>2, <1>4, <1>5, <1>7, <1>8

\* What the steps of the threads other than the nodes' leave alone.
LEMMA NodeFrame ==
  ASSUME [Next]_vars,
         \A t \in Producers : ~EnqueueRank(t) /\ ~EnqueueCallback(t),
         \A n \in Nodes : ~PredicateStep(n) /\ ~RunWakeup(n)
  PROVE  UNCHANGED nodeVars
  BY DEF Next, vars, EnqueueStep, EnqueueLock, EnqueueStore,
         DequeueStep, DequeueIdle, DequeueBlock,
         DequeueTake, DequeueTaken, DequeuePop, DequeueNotify, DequeueExit,
         ReconfStep, ReconfPause, ReconfTest, ReconfBlock, ReconfSwap,
         ReconfResume, ReceiveConfig, Destroy

\* Only the swap changes the hierarchy in force.
LEMMA SwapFrame ==
  ASSUME [Next]_vars
  PROVE  ReconfSwap \/ UNCHANGED <<p4iface, swapped>>
  BY DEF Next, vars, EnqueueStep, EnqueueLock, EnqueueStore, EnqueueRank,
         EnqueueCallback, PredicateStep, EvalEmpty, EvalPredicate, PushTask,
         PushTaskEnd, EraseItem, RunWakeup, DequeueStep, DequeueIdle,
         DequeueBlock, DequeueTake, DequeueTaken, DequeuePop, DequeueNotify,
         DequeueExit, ReconfStep, ReconfPause, ReconfTest, ReconfBlock,
         ReconfResume, ReceiveConfig, Destroy, rcVars

\* The swap gives the P4 actions the interface of the node that receives the
\* packets from then on; ranks stay unique and given.
LEMMA RankInvStep ==
  ASSUME ConfNodes = 1, SchedInv, [Next]_vars
  PROVE  RankInv'
<1>0. StoreInv /\ NodeType /\ StoreType /\ CalendarInv /\ RankInv
  BY SchedTypes
<1>1. p4iface' = CurNode'
  <2>1. CASE ReconfSwap
    <3>1. p4iface' = 1 /\ swapped'
      BY <2>1 DEF ReconfSwap
    <3>2. QED
      BY <3>1 DEF CurNode
  <2>2. CASE UNCHANGED <<p4iface, swapped>>
    BY <1>0, <2>2 DEF RankInv, CurNode
  <2>3. QED
    BY <2>1, <2>2, SwapFrame
<1>a. Ranked \subseteq Pkts
  BY <1>0 DEF StoreType, Ranked
<1>2. ASSUME NEW t \in Producers, EnqueueRank(t) PROVE RankInv'
  <2>1. /\ Ranked' = Ranked \cup {inhand[t]}
        /\ inhand[t] \in Pkts /\ inhand[t] \notin Ranked
    BY <1>0, <1>2, RankedByRank
  <2>2. PICK r \in Ranks :
           /\ rank' = [rank EXCEPT ![inhand[t]] = r]
           /\ calendar' = [calendar EXCEPT ![CurNode] = @ \cup {inhand[t]}]
           /\ NextGiven(r) /\ ~Given(r) /\ r # NoRank
           /\ SchedOf(CurNode) = "FIFO" => r[1] = 0
    BY <1>2, RankIsNew
  <2>3. /\ rank'[inhand[t]] = r
        /\ \A p \in Ranked : rank'[p] = rank[p] /\ rank[p] \in Ranks /\ Given(rank[p])
    BY <1>0, <1>a, <2>1, <2>2 DEF NodeType, RankInv
  <2>4. \A p \in Ranked' : NextGiven(rank'[p])
    BY <2>1, <2>2, <2>3, GivenStep
  <2>5. \A p, q \in Ranked' : rank'[p] = rank'[q] => p = q
    BY <1>0, <2>1, <2>2, <2>3 DEF RankInv
  <2>6. CurNode \in Nodes
    BY OneNode
  <2>7. \A n \in Nodes : SchedOf(n) = "FIFO" => \A p \in calendar'[n] : rank'[p][1] = 0
    <3>1. ASSUME NEW n \in Nodes, SchedOf(n) = "FIFO", NEW p \in calendar'[n]
          PROVE  rank'[p][1] = 0
      <4>1. CASE p \in calendar[n]
        BY <1>0, <2>3, <3>1, <4>1 DEF RankInv, CalendarInv
      <4>2. CASE p \notin calendar[n]
        <5>1. p = inhand[t] /\ n = CurNode
          BY <1>0, <2>2, <2>6, <3>1, <4>2 DEF NodeType
        <5>2. QED
          BY <2>2, <2>3, <3>1, <5>1
      <4>3. QED
        BY <4>1, <4>2
    <3>2. QED
      BY <3>1
  <2>8. QED
    BY <1>1, <2>4, <2>5, <2>7 DEF RankInv, Given, NextGiven
<1>3. ASSUME rank' = rank, Ranked' = Ranked,
             \A n \in Nodes : calendar'[n] \subseteq calendar[n]
      PROVE  RankInv'
  <2>1. \A p \in Ranked : rank[p] \in Ranks /\ Given(rank[p])
    BY <1>0, <1>a DEF NodeType, RankInv
  <2>2. \A p \in Ranked : NextGiven(rank[p])
    BY <2>1, GivenStep
  <2>3. \A n \in Nodes : SchedOf(n) = "FIFO" => \A p \in calendar'[n] : rank[p][1] = 0
    BY <1>0, <1>3 DEF RankInv
  <2>4. QED
    BY <1>0, <1>1, <1>3, <2>2, <2>3 DEF RankInv, Given, NextGiven
<1>4. CASE \A t \in Producers : ~EnqueueRank(t)
  <2>1. Ranked' = Ranked
    BY <1>0, <1>4, RankedStep
  <2>2. ASSUME NEW n \in Nodes, PredicateStep(n) \/ RunWakeup(n) PROVE RankInv'
    <3>1. rank' = rank
      BY <2>2 DEF PredicateStep, EvalEmpty, EvalPredicate, PushTask,
                  PushTaskEnd, EraseItem, RunWakeup
    <3>2. calendar' = calendar \/ \E e : calendar' = [calendar EXCEPT ![n] = @ \ e]
      BY <2>2 DEF PredicateStep, EvalEmpty, EvalPredicate, PushTask,
                  PushTaskEnd, EraseItem, RunWakeup
    <3>3. \A m \in Nodes : calendar'[m] \subseteq calendar[m]
      BY <1>0, <3>2 DEF NodeType
    <3>4. QED
      BY <1>3, <2>1, <3>1, <3>3
  <2>3. ASSUME NEW t \in Producers, EnqueueCallback(t) PROVE RankInv'
    BY <1>3, <2>1, <2>3 DEF EnqueueCallback
  <2>4. CASE UNCHANGED nodeVars
    BY <1>3, <2>1, <2>4 DEF nodeVars
  <2>5. QED
    BY <1>4, <2>2, <2>3, <2>4, NodeFrame
<1>5. QED
  BY <1>2, <1>4

\* predicate_rank follows the item in hand: a selection sets both, and the
\* erased item takes its rank with it, which no other item has.
LEMMA PredicateInvStep ==
  ASSUME ConfNodes = 1, SchedInv, [Next]_vars
  PROVE  PredicateInv'
<1>0. /\ StoreInv /\ NodeType /\ StoreType /\ CalendarInv /\ RankInv
      /\ PredicateInv /\ TypeOK
  BY SchedTypes
<1>a. /\ Ranked \subseteq Pkts
      /\ \A n \in Nodes : calendar[n] \subseteq Ranked
      /\ \A n \in Nodes : wpc[n] # "idle" => hand[n] \in Ranked
  BY <1>0 DEF StoreType, Ranked, CalendarInv
<1>b. \A n \in Nodes : pred[n] \in Ranks /\ (pred[n] # NoRank => NextGiven(pred[n]))
  BY <1>0, GivenStep DEF NodeType, PredicateInv
<1>c. \A p \in Ranked : rank[p] \in Ranks /\ NextGiven(rank[p])
  BY <1>0, <1>a, GivenStep DEF NodeType, RankInv
<1>1. ASSUME NEW t \in Producers, EnqueueRank(t) PROVE PredicateInv'
  <2>1. inhand[t] \in Pkts /\ inhand[t] \notin Ranked
    BY <1>0, <1>1, RankedByRank
  <2>2. PICK r \in Ranks :
           /\ rank' = [rank EXCEPT ![inhand[t]] = r]
           /\ calendar' = [calendar EXCEPT ![CurNode] = @ \cup {inhand[t]}]
           /\ ~Given(r) /\ r # NoRank
    BY <1>1, RankIsNew
  <2>3. UNCHANGED <<pred, wpc, hand>>
    BY <1>1 DEF EnqueueRank
  <2>4. \A p \in Ranked : rank'[p] = rank[p]
    BY <1>0, <1>a, <2>1, <2>2 DEF NodeType
  <2>5. \A n \in Nodes : pred[n] # r
    BY <1>0, <2>2 DEF PredicateInv
  <2>6. ASSUME NEW n \in Nodes, wpc[n] = "idle", NEW p \in calendar'[n]
        PROVE  rank'[p] # pred[n]
    <3>1. CASE p \in calendar[n]
      BY <1>0, <1>a, <2>4, <2>6, <3>1 DEF PredicateInv
    <3>2. CASE p \notin calendar[n]
      <4>1. p = inhand[t]
        BY <1>0, <2>2, <2>6, <3>2, OneNode DEF NodeType
      <4>2. QED
        BY <1>0, <2>1, <2>2, <2>5, <4>1 DEF NodeType
    <3>3. QED
      BY <3>1, <3>2
  <2>7. \A n \in Nodes : wpc[n] # "idle" => pred[n] = rank'[hand[n]]
    BY <1>0, <1>a, <2>4 DEF PredicateInv
  <2>8. QED
    BY <1>b, <2>3, <2>6, <2>7 DEF PredicateInv, Given, NextGiven
<1>2. ASSUME NEW n \in Nodes, EvalPredicate(n) PROVE PredicateInv'
  <2>1. PICK q \in calendar[n] :
           /\ pred' = [pred EXCEPT ![n] = rank[q]]
           /\ wpc' = [wpc EXCEPT ![n] = "push"]
           /\ hand' = [hand EXCEPT ![n] = q]
           /\ calendar' = calendar
    BY <1>2, EvalSelects
  <2>2. rank' = rank
    BY <1>2 DEF EvalPredicate
  <2>3. q \in Ranked
    BY <1>a
  <2>4. /\ pred'[n] = rank[q] /\ wpc'[n] = "push" /\ hand'[n] = q
        /\ \A m \in Nodes : m # n => /\ pred'[m] = pred[m] /\ wpc'[m] = wpc[m]
                                     /\ hand'[m] = hand[m]
    BY <1>0, <2>1 DEF NodeType
  <2>5. \A m \in Nodes : pred'[m] # NoRank => NextGiven(pred'[m])
    BY <1>b, <1>c, <2>3, <2>4
  <2>6. QED
    BY <1>0, <2>1, <2>2, <2>4, <2>5 DEF PredicateInv, Given, NextGiven
<1>3. ASSUME NEW n \in Nodes, EraseItem(n) PROVE PredicateInv'
  <2> DEFINE left == calendar[n] \ {hand[n]}
  <2>1. /\ wpc[n] = "erase" /\ rank' = rank
        /\ calendar' = [calendar EXCEPT ![n] = left]
        /\ pred' = [pred EXCEPT ![n] = IF left = {} THEN NoRank ELSE @]
        /\ wpc' = [wpc EXCEPT ![n] = "idle"]
        /\ hand' = [hand EXCEPT ![n] = None]
    BY <1>3 DEF EraseItem
  <2>2. pred[n] = rank[hand[n]] /\ hand[n] \in Ranked
    BY <1>0, <1>a, <2>1 DEF PredicateInv
  <2>3. \A p \in left : rank[p] # pred[n]
    BY <1>0, <1>a, <2>2 DEF RankInv
  <2> HIDE DEF left
  <2>4. /\ calendar'[n] = left /\ wpc'[n] = "idle"
        /\ pred'[n] = IF left = {} THEN NoRank ELSE pred[n]
        /\ \A m \in Nodes : m # n => /\ pred'[m] = pred[m] /\ wpc'[m] = wpc[m]
                                     /\ hand'[m] = hand[m] /\ calendar'[m] = calendar[m]
    BY <1>0, <2>1 DEF NodeType
  <2>5. \A m \in Nodes : pred'[m] # NoRank => NextGiven(pred'[m])
    BY <1>b, <2>4
  <2>6. \A p \in calendar'[n] : rank'[p] # pred'[n]
    BY <2>1, <2>3, <2>4
  <2>7. QED
    BY <1>0, <2>1, <2>4, <2>5, <2>6 DEF PredicateInv, Given, NextGiven
<1>4. ASSUME NEW n \in Nodes, EvalEmpty(n) PROVE PredicateInv'
  <2>1. /\ UNCHANGED <<rank, calendar, wpc, hand>> /\ calendar[n] = {}
        /\ wpc[n] = "idle" /\ pred' = [pred EXCEPT ![n] = NoRank]
    BY <1>4 DEF EvalEmpty
  <2>2. /\ pred'[n] = NoRank
        /\ \A m \in Nodes : m # n => pred'[m] = pred[m]
    BY <1>0, <2>1 DEF NodeType
  <2>3. \A m \in Nodes : pred'[m] # NoRank => NextGiven(pred'[m])
    BY <1>b, <2>2
  <2>4. QED
    BY <1>0, <2>1, <2>2, <2>3 DEF PredicateInv, Given, NextGiven
<1>5. ASSUME UNCHANGED <<rank, calendar, hand, pred>>,
             \A n \in Nodes : wpc'[n] = "idle" <=> wpc[n] = "idle"
      PROVE  PredicateInv'
  BY <1>0, <1>b, <1>5 DEF PredicateInv, Given, NextGiven
<1>6. ASSUME NEW n \in Nodes, PushTask(n) \/ PushTaskEnd(n) PROVE PredicateInv'
  <2>1. UNCHANGED <<rank, calendar, hand, pred>>
    BY <1>6 DEF PushTask, PushTaskEnd
  <2>2. \A m \in Nodes : wpc'[m] = "idle" <=> wpc[m] = "idle"
    BY <1>0, <1>6 DEF PushTask, PushTaskEnd, NodeType
  <2>3. QED
    BY <1>5, <2>1, <2>2
<1>7. ASSUME NEW n \in Nodes, RunWakeup(n) PROVE PredicateInv'
  BY <1>5, <1>7 DEF RunWakeup
<1>8. ASSUME NEW t \in Producers, EnqueueCallback(t) PROVE PredicateInv'
  BY <1>5, <1>8 DEF EnqueueCallback
<1>9. CASE UNCHANGED nodeVars
  BY <1>5, <1>9 DEF nodeVars
<1>10. QED
  BY <1>1, <1>2, <1>3, <1>4, <1>6, <1>7, <1>8, <1>9, NodeFrame DEF PredicateStep

\* Between the halves of push_task the end pointer stays below the new slot:
\* no other node pushes, and the dequeue thread only lowers it.
LEMMA PushInvStep ==
  ASSUME ConfNodes = 1, SchedInv, [Next]_vars
  PROVE  PushInv'
<1>0. /\ StoreInv /\ NodeType /\ TaskType /\ DequeueType /\ CalendarInv
      /\ TaskInv /\ PushInv
  BY SchedTypes
<1>a. \A n \in Nodes : wend[n] \in 0..TqCap
  BY <1>0 DEF NodeType
<1>1. ASSUME NEW n \in Nodes, PushTask(n) PROVE PushInv'
  <2>1. /\ wpc[n] = "push" /\ fin < TqCap /\ fin \in Nat
        /\ slot' = [slot EXCEPT ![fin + 1] = hand[n]]
        /\ wend' = [wend EXCEPT ![n] = fin + 1]
        /\ wpc' = [wpc EXCEPT ![n] = "pushing"]
        /\ UNCHANGED <<hand, fin, consumed, dq, dq_end>>
    BY <1>0, <1>1 DEF PushTask, storeVars, dqVars, TaskType
  <2>2. \A m \in Nodes : m # n => wpc'[m] # "pushing"
    BY <1>0, <2>1, PushingNode DEF NodeType
  <2>3. fin + 1 \in Slots
    BY <2>1, ConstAssumption DEF Slots
  <2>4. wend'[n] = fin + 1 /\ slot'[fin + 1] = hand[n]
    BY <1>0, <2>1, <2>3 DEF NodeType, TaskType
  <2>5. hand[n] \notin consumed
    BY <1>0, <2>1 DEF CalendarInv, Tasked
  <2>6. QED
    BY <1>0, <2>1, <2>2, <2>4, <2>5 DEF PushInv
<1>2. ASSUME NEW n \in Nodes, PushTaskEnd(n) PROVE PushInv'
  <2>1. /\ wpc[n] = "pushing" /\ fin' = wend[n]
        /\ wpc' = [wpc EXCEPT ![n] = "erase"] /\ UNCHANGED dq_end
        /\ dq' = "taking" => dq = "taking"
    BY <1>2 DEF PushTaskEnd, NotifyDequeue
  <2>2. \A m \in Nodes : wpc'[m] # "pushing"
    BY <1>0, <2>1, PushingNode DEF NodeType
  <2>3. fin < wend[n] /\ (dq = "taking" => dq_end <= fin)
    BY <1>0, <2>1 DEF PushInv
  <2>4. fin \in Nat /\ dq_end \in Nat /\ wend[n] \in Nat
    BY <1>0 DEF TaskType, DequeueType, NodeType
  <2>5. dq' = "taking" => dq_end' <= fin'
    BY <2>1, <2>3, <2>4
  <2>6. QED
    BY <2>2, <2>5 DEF PushInv
<1>3. CASE DequeueTake
  <2>1. /\ fin \in Nat /\ fin' = fin /\ dq_end' = fin - 1
        /\ UNCHANGED <<wpc, wend, hand, consumed>>
        /\ slot' = [i \in Slots |-> IF i < fin THEN slot[i + 1]
                                    ELSE IF i = fin THEN None ELSE slot[i]]
    BY <1>0, <1>3 DEF DequeueTake, nodeVars, storeVars, TaskType
  <2>2. ASSUME NEW n \in Nodes, wpc[n] = "pushing" PROVE slot'[wend[n]] = slot[wend[n]]
    <3>1. fin < wend[n] /\ wend[n] \in Slots
      BY <1>0, <1>a, <2>1, <2>2, ConstAssumption DEF PushInv, Slots
    <3>2. QED
      BY <2>1, <3>1 DEF Slots
  <2>3. dq_end' <= fin'
    BY <2>1
  <2>4. QED
    BY <1>0, <2>1, <2>2, <2>3 DEF PushInv
<1>4. CASE DequeueTaken
  <2>1. /\ dq = "taking" /\ fin' = dq_end /\ dq' # "taking"
        /\ UNCHANGED <<wpc, wend, hand, slot, consumed>>
    BY <1>4 DEF DequeueTaken, nodeVars, storeVars
  <2>2. fin \in Nat /\ dq_end \in Nat /\ dq_end <= fin
    BY <1>0, <2>1 DEF TaskType, DequeueType, PushInv
  <2>3. \A n \in Nodes : wpc[n] = "pushing" => dq_end < wend[n]
    BY <1>0, <1>a, <2>2 DEF PushInv
  <2>4. QED
    BY <1>0, <2>1, <2>3 DEF PushInv
<1>5. CASE DequeuePop
  <2>1. /\ dq = "pop" /\ dq' = "notify" /\ consumed' = consumed \cup {dq_item}
        /\ UNCHANGED <<wpc, wend, hand, slot, fin>>
    BY <1>5 DEF DequeuePop, nodeVars, tqVars
  <2>2. ASSUME NEW n \in Nodes, wpc[n] = "pushing" PROVE hand[n] # dq_item
    <3>1. wend[n] \in Slots /\ slot[wend[n]] = hand[n]
      BY <1>0, <1>a, <2>2, ConstAssumption DEF PushInv, Slots, TaskType
    <3>2. QED
      BY <1>0, <2>1, <3>1 DEF TaskInv
  <2>3. QED
    BY <1>0, <2>1, <2>2 DEF PushInv
<1>6. ASSUME UNCHANGED <<wend, hand, slot, fin, consumed, dq_end>>,
             dq' = "taking" => dq = "taking",
             \A n \in Nodes : wpc'[n] = "pushing" => wpc[n] = "pushing"
      PROVE  PushInv'
  BY <1>0, <1>6 DEF PushInv
<1>7. ASSUME NEW n \in Nodes, EvalEmpty(n) \/ RunWakeup(n) PROVE PushInv'
  BY <1>6, <1>7 DEF EvalEmpty, RunWakeup, storeVars, tqVars, dqVars
<1>8. ASSUME NEW n \in Nodes, EvalPredicate(n) \/ EraseItem(n) PROVE PushInv'
  <2>1. \A m \in Nodes : wpc'[m] = "pushing" => /\ wpc[m] = "pushing"
                                                /\ hand'[m] = hand[m]
    BY <1>0, <1>8 DEF EvalPredicate, EraseItem, NodeType
  <2>2. UNCHANGED <<wend, slot, fin, consumed, dq, dq_end>>
    BY <1>8 DEF EvalPredicate, EraseItem, storeVars, tqVars, dqVars
  <2>3. QED
    BY <1>0, <2>1, <2>2 DEF PushInv
<1>9. ASSUME NEW t \in Producers, EnqueueStep(t) PROVE PushInv'
  BY <1>6, <1>9 DEF EnqueueStep, EnqueueStore, EnqueueRank, EnqueueCallback,
                    NotifyDequeue, nodeVars, storeVars, tqVars, dqVars
<1>10. ASSUME NEW t \in Producers, NEW p \in Pkts, EnqueueLock(t, p) PROVE PushInv'
  BY <1>6, <1>10 DEF EnqueueLock, nodeVars, storeVars, tqVars, dqVars
<1>11. CASE DequeueIdle \/ DequeueBlock \/ DequeueNotify \/ DequeueExit \/ Destroy
  BY <1>6, <1>11 DEF DequeueIdle, DequeueBlock, DequeueNotify, DequeueExit,
                     Destroy, nodeVars, storeVars, tqVars
<1>12. CASE ReconfStep \/ ReceiveConfig \/ UNCHANGED vars
  BY <1>6, <1>12 DEF ReconfStep, ReconfPause, ReconfTest, ReconfBlock, ReconfSwap,
                     ReconfResume, ReceiveConfig, vars, nodeVars, storeVars,
                     tqVars, dqVars
<1>13. QED
  BY <1>1, <1>2, <1>3, <1>4, <1>5, <1>7, <1>8, <1>9, <1>10, <1>11, <1>12
     DEF Next, PredicateStep, DequeueStep

\* A reconfiguration keeps the producers out from the pause to the
\* resumption, so the store it found empty stays empty.
LEMMA ReconfInvStep ==
  ASSUME ConfNodes = 1, SchedInv, [Next]_vars
  PROVE  ReconfInv'
<1>0. /\ StoreInv /\ ProdType /\ StoreType /\ NodeType /\ CalendarInv
      /\ ProducerInv /\ ReconfInv /\ OldHierarchyDrained
  BY SchedTypes
<1>1. rc' # "poll" => ~ready_to_enqueue' /\ \A t \in Producers : pc'[t] = "idle"
  <2>1. ASSUME NEW t \in Producers, NEW p \in Pkts, EnqueueLock(t, p)
        PROVE  rc' = "poll"
    BY <1>0, <2>1 DEF EnqueueLock, ReconfInv, rcVars
  <2>2. ASSUME NEW t \in Producers, EnqueueStep(t) PROVE rc' = "poll"
    BY <1>0, <2>2 DEF EnqueueStep, EnqueueStore, EnqueueRank, EnqueueCallback,
                      ReconfInv, rcVars
  <2>3. CASE ReconfPause
    <3>1. \A t \in Producers : pc[t] = "idle"
      BY <1>0, <2>3, ConstAssumption DEF ReconfPause, ProducerInv
    <3>2. QED
      BY <2>3, <3>1 DEF ReconfPause, prodVars
  <2>4. CASE ReconfResume
    BY <2>4 DEF ReconfResume
  <2>5. ASSUME UNCHANGED <<ready_to_enqueue, pc>>, rc' # "poll" => rc # "poll"
        PROVE  rc' # "poll" => ~ready_to_enqueue' /\ \A t \in Producers : pc'[t] = "idle"
    BY <1>0, <2>5 DEF ReconfInv
  <2>6. CASE ReconfTest \/ ReconfBlock \/ ReconfSwap \/ ReceiveConfig
    BY <2>5, <2>6 DEF ReconfTest, ReconfBlock, ReconfSwap, ReceiveConfig, prodVars
  <2>7. ASSUME NEW n \in Nodes, PredicateStep(n) \/ RunWakeup(n)
        PROVE  UNCHANGED <<ready_to_enqueue, pc, rc>>
    BY <2>7 DEF PredicateStep, EvalEmpty, EvalPredicate, PushTask,
                PushTaskEnd, EraseItem, RunWakeup, prodVars, rcVars
  <2>8. CASE DequeueStep \/ Destroy
    BY <2>5, <2>8 DEF DequeueStep, DequeueIdle, DequeueBlock, DequeueTake,
                      DequeueTaken, DequeuePop, DequeueNotify, DequeueExit,
                      Destroy, prodVars, rcVars
  <2>9. CASE UNCHANGED vars
    BY <2>5, <2>9 DEF vars, prodVars, rcVars
  <2>10. QED
    BY <2>1, <2>2, <2>3, <2>4, <2>5, <2>6, <2>7, <2>8, <2>9 DEF Next, ReconfStep
<1>2. rc' = "swap" => StoreEmpty'
  <2>1. CASE ReconfTest
    BY <2>1 DEF ReconfTest, StoreEmpty, storeVars
  <2>2. ASSUME NEW t \in Producers, EnqueueStore(t) PROVE rc' # "swap"
    BY <1>0, <2>2 DEF EnqueueStore, ReconfInv, rcVars
  <2>3. CASE DequeuePop
    <3>1. rc' = rc /\ store[WorkerOf(dq_item)] # <<>> /\ WorkerOf(dq_item) \in Workers
      BY <1>0, <2>3, Hands, WorkerOfType DEF DequeuePop, rcVars
    <3>2. rc # "swap"
      BY <1>0, <3>1 DEF ReconfInv, StoreEmpty
    <3>3. QED
      BY <3>1, <3>2
  <2>4. ASSUME store' = store, rc' = "swap" => rc = "swap"
        PROVE  rc' = "swap" => StoreEmpty'
    BY <1>0, <2>4 DEF ReconfInv, StoreEmpty
  <2>5. ASSUME NEW t \in Producers, NEW p \in Pkts, EnqueueLock(t, p)
        PROVE  UNCHANGED <<store, rc>>
    BY <2>5 DEF EnqueueLock, storeVars, rcVars
  <2>6. ASSUME NEW t \in Producers, EnqueueRank(t) \/ EnqueueCallback(t)
        PROVE  UNCHANGED <<store, rc>>
    BY <2>6 DEF EnqueueRank, EnqueueCallback, storeVars, rcVars
  <2>7. ASSUME NEW n \in Nodes, PredicateStep(n) \/ RunWakeup(n)
        PROVE  UNCHANGED <<store, rc>>
    BY <2>7 DEF PredicateStep, EvalEmpty, EvalPredicate, PushTask,
                PushTaskEnd, EraseItem, RunWakeup, storeVars, rcVars
  <2>8. CASE ReconfPause \/ ReconfBlock \/ ReconfSwap \/ ReconfResume \/ ReceiveConfig
    BY <2>4, <2>8 DEF ReconfPause, ReconfBlock, ReconfSwap, ReconfResume,
                      ReceiveConfig, storeVars
  <2>9. ASSUME DequeueStep \/ Destroy, ~DequeuePop
        PROVE  rc' = "swap" => StoreEmpty'
    BY <2>4, <2>9 DEF DequeueStep, DequeueIdle, DequeueBlock, DequeueTake,
                      DequeueTaken, DequeueNotify, DequeueExit,
                      Destroy, storeVars, rcVars
  <2>10. CASE UNCHANGED vars
    BY <2>4, <2>10 DEF vars, storeVars, rcVars
  <2>11. QED
    BY <2>1, <2>2, <2>3, <2>4, <2>5, <2>6, <2>7, <2>8, <2>9, <2>10
       DEF Next, EnqueueStep, ReconfStep
<1>3. ~swapped' => calendar'[1] = {} /\ wpc'[1] = "idle"
  <2>1. SUFFICES ASSUME ~swapped' PROVE calendar'[1] = {} /\ wpc'[1] = "idle"
    OBVIOUS
  <2>2. ~swapped /\ CurNode = 0 /\ calendar[1] = {} /\ wpc[1] = "idle"
    <3>1. ~swapped
      BY <2>1, SwapFrame DEF ReconfSwap
    <3>2. QED
      BY <1>0, <3>1 DEF ReconfInv, CurNode
  <2>3. ASSUME NEW t \in Producers, EnqueueRank(t)
        PROVE  calendar'[1] = {} /\ wpc'[1] = "idle"
    BY <1>0, <2>2, <2>3, RankIsNew DEF EnqueueRank, NodeType
  <2>4. ASSUME NEW n \in Nodes, PredicateStep(n)
        PROVE  calendar'[1] = {} /\ wpc'[1] = "idle"
    <3>1. CASE n = 1
      BY <2>2, <2>4, <3>1 DEF PredicateStep, EvalEmpty, EvalPredicate, PushTask,
                              PushTaskEnd, EraseItem
    <3>2. CASE n = 0
      <4>1. \/ calendar' = calendar
            \/ \E c : calendar' = [calendar EXCEPT ![n] = c]
        BY <2>4 DEF PredicateStep, EvalEmpty, EvalPredicate, PushTask,
                    PushTaskEnd, EraseItem
      <4>2. \/ wpc' = wpc
            \/ \E c : wpc' = [wpc EXCEPT ![n] = c]
        BY <2>4 DEF PredicateStep, EvalEmpty, EvalPredicate, PushTask,
                    PushTaskEnd, EraseItem
      <4>3. QED
        BY <1>0, <2>2, <3>2, <4>1, <4>2, OneNode DEF NodeType
    <3>3. QED
      BY <3>1, <3>2, OneNode
  <2>5. ASSUME NEW n \in Nodes, RunWakeup(n) PROVE UNCHANGED <<calendar, wpc>>
    BY <2>5 DEF RunWakeup
  <2>6. ASSUME NEW t \in Producers, EnqueueCallback(t) PROVE UNCHANGED <<calendar, wpc>>
    BY <2>6 DEF EnqueueCallback
  <2>7. CASE UNCHANGED nodeVars
    BY <2>2, <2>7 DEF nodeVars
  <2>8. QED
    BY <2>2, <2>3, <2>4, <2>5, <2>6, <2>7, NodeFrame
<1>4. QED
  BY <1>1, <1>2, <1>3 DEF ReconfInv

\* When the store is empty, every item the schedulers know was consumed.
LEMMA EmptyMeansConsumed ==
  ASSUME StoreInv, StoreEmpty, NEW p \in Ranked
  PROVE  p \in consumed
<1> DEFINE w == WorkerOf(p)
           C == OfWorker(consumed, w)
           S == OfWorker(stored, w)
<1>1. p \in Pkts /\ p \in stored /\ w \in Workers
  BY WorkerOfType DEF StoreInv, TypeOK, StoreType, Ranked
<1>2. C \subseteq S /\ p \in S
  BY <1>1 DEF StoreInv, CountInv, Ranked, OfWorker
<1>3. IsFiniteSet(S) /\ IsFiniteSet(C) /\ Cardinality(C) \in Nat /\ Cardinality(S) \in Nat
  BY CountNat DEF StoreInv, TypeOK, StoreType
<1>4. Len(store[w]) = 0
  BY <1>1 DEF StoreEmpty
<1>5. Cardinality(C) = Cardinality(S)
  BY <1>1, <1>3, <1>4 DEF StoreInv, CountInv
<1> HIDE DEF C, S
<1>6. C = S
  BY <1>2, <1>3, <1>5, FS_Subset
<1>7. QED
  BY <1>2, <1>6 DEF C, OfWorker

\* At the swap an item still in the old calendar was consumed, so its
\* predicate thread has only to erase it; nothing enters that calendar after.
LEMMA DrainedStep ==
  ASSUME ConfNodes = 1, SchedInv, [Next]_vars
  PROVE  OldHierarchyDrained'
<1>0. /\ StoreInv /\ NodeType /\ CalendarInv /\ PushInv /\ ReconfInv
      /\ OldHierarchyDrained
  BY SchedTypes
<1>1. SUFFICES ASSUME swapped', NEW p \in calendar'[0]
               PROVE  wpc'[0] = "erase" /\ hand'[0] = p /\ p \in consumed'
  BY DEF OldHierarchyDrained
<1>2. CASE ReconfSwap
  <2>1. StoreEmpty /\ UNCHANGED <<calendar, wpc, hand, consumed>>
    BY <1>0, <1>2 DEF ReconfSwap, ReconfInv, nodeVars, storeVars
  <2>2. p \in Ranked /\ p \in calendar[0] /\ 0 \in Nodes
    BY <1>0, <1>1, <2>1, OneNode DEF CalendarInv
  <2>3. p \in consumed
    BY <1>0, <2>1, <2>2, EmptyMeansConsumed
  <2>4. hand[0] = p /\ Tasked(0)
    BY <1>0, <2>2, <2>3 DEF CalendarInv
  <2>5. wpc[0] = "erase"
    BY <1>0, <2>2, <2>3, <2>4 DEF PushInv, Tasked
  <2>6. QED
    BY <2>1, <2>3, <2>4, <2>5
<1>3. CASE UNCHANGED <<p4iface, swapped>>
  <2>0. swapped /\ CurNode = 1
    BY <1>1, <1>3 DEF CurNode
  <2>1. consumed \subseteq consumed'
    BY DEF Next, vars, EnqueueStep, EnqueueLock, EnqueueStore, EnqueueRank,
           EnqueueCallback, PredicateStep, EvalEmpty, EvalPredicate, PushTask,
           PushTaskEnd, EraseItem, RunWakeup, DequeueStep, DequeueIdle,
           DequeueBlock, DequeueTake, DequeueTaken, DequeuePop, DequeueNotify,
           DequeueExit, ReconfStep, ReconfPause, ReconfTest, ReconfBlock,
           ReconfSwap, ReconfResume, ReceiveConfig, Destroy, storeVars
  <2>2. ASSUME p \in calendar[0], wpc'[0] = wpc[0], hand'[0] = hand[0]
        PROVE  wpc'[0] = "erase" /\ hand'[0] = p /\ p \in consumed'
    BY <1>0, <2>0, <2>1, <2>2 DEF OldHierarchyDrained
  <2>3. ASSUME NEW t \in Producers, EnqueueRank(t)
        PROVE  wpc'[0] = "erase" /\ hand'[0] = p /\ p \in consumed'
    <3>a. calendar' = [calendar EXCEPT ![1] = @ \cup {inhand[t]}]
      BY <2>0, <2>3, RankIsNew
    <3>1. p \in calendar[0]
      BY <1>0, <1>1, <3>a, OneNode DEF NodeType
    <3>2. QED
      BY <2>2, <2>3, <3>1 DEF EnqueueRank
  <2>4. ASSUME NEW n \in Nodes, PredicateStep(n)
        PROVE  wpc'[0] = "erase" /\ hand'[0] = p /\ p \in consumed'
    <3>1. CASE n = 1
      <4>1. \/ calendar' = calendar
            \/ \E c : calendar' = [calendar EXCEPT ![n] = c]
        BY <2>4 DEF PredicateStep, EvalEmpty, EvalPredicate, PushTask,
                    PushTaskEnd, EraseItem
      <4>2. wpc' = wpc \/ \E c : wpc' = [wpc EXCEPT ![n] = c]
        BY <2>4 DEF PredicateStep, EvalEmpty, EvalPredicate, PushTask,
                    PushTaskEnd, EraseItem
      <4>3. hand' = hand \/ \E c : hand' = [hand EXCEPT ![n] = c]
        BY <2>4 DEF PredicateStep, EvalEmpty, EvalPredicate, PushTask,
                    PushTaskEnd, EraseItem
      <4>4. calendar'[0] = calendar[0] /\ wpc'[0] = wpc[0] /\ hand'[0] = hand[0]
        BY <1>0, <3>1, <4>1, <4>2, <4>3, OneNode DEF NodeType
      <4>5. QED
        BY <1>1, <2>2, <4>4
    <3>2. CASE n = 0
      <4>1. p \in calendar[0]
        BY <1>0, <1>1, <2>4, <3>2 DEF PredicateStep, EvalEmpty, EvalPredicate,
                     PushTask, PushTaskEnd, EraseItem, NodeType
      <4>2. wpc[0] = "erase" /\ hand[0] = p
        BY <1>0, <2>0, <4>1 DEF OldHierarchyDrained
      <4>3. EraseItem(0)
        BY <2>4, <3>2, <4>2 DEF PredicateStep, EvalEmpty, EvalPredicate,
                                PushTask, PushTaskEnd
      <4>4. p \notin calendar'[0]
        BY <1>0, <4>2, <4>3, OneNode DEF EraseItem, NodeType
      <4>5. QED
        BY <1>1, <4>4
    <3>3. QED
      BY <3>1, <3>2, OneNode
  <2>5. ASSUME NEW n \in Nodes, RunWakeup(n) PROVE UNCHANGED <<calendar, wpc, hand>>
    BY <2>5 DEF RunWakeup
  <2>6. ASSUME NEW t \in Producers, EnqueueCallback(t)
        PROVE  UNCHANGED <<calendar, wpc, hand>>
    BY <2>6 DEF EnqueueCallback
  <2>7. ASSUME UNCHANGED nodeVars PROVE UNCHANGED <<calendar, wpc, hand>>
    BY <2>7 DEF nodeVars
  <2>8. QED
    BY <1>1, <2>2, <2>3, <2>4, <2>5, <2>6, <2>7, NodeFrame
<1>4. QED
  BY <1>2, <1>3, SwapFrame

\* A calendar that holds an item keeps an evaluation coming: the producer
\* that added the item queues one, the evaluation that takes the last one
\* selects an item, and erasing an item queues the next.
LEMMA PendingStep ==
  ASSUME ConfNodes = 1, SchedInv, [Next]_vars
  PROVE  EvaluationPending'
<1>0. /\ StoreInv /\ ProdType /\ NodeType /\ ProducerInv /\ ReconfInv
      /\ EvaluationPending
  BY SchedTypes
<1>a. CurNode \in Nodes
  BY OneNode
<1> DEFINE Pending(n) == \/ evals[n] > 0
                         \/ wpc[n] # "idle"
                         \/ n = CurNode /\ \E t \in Producers : pc[t] = "callback"
<1>1. ASSUME NEW t \in Producers, EnqueueRank(t) PROVE EvaluationPending'
  <2>1. /\ UNCHANGED <<evals, wpc, swapped>> /\ pc[t] = "rank"
        /\ pc' = [pc EXCEPT ![t] = "callback"]
    BY <1>1 DEF EnqueueRank, rcVars
  <2>2. pc'[t] = "callback" /\ \A u \in Producers : u # t => pc'[u] = pc[u]
    BY <1>0, <2>1 DEF ProdType
  <2>3. CurNode' = CurNode
    BY <2>1 DEF CurNode
  <2>4. \A n \in Nodes : n # CurNode => calendar'[n] = calendar[n]
    BY <1>0, <1>1, RankIsNew DEF NodeType
  <2>5. QED
    BY <1>0, <2>1, <2>2, <2>3, <2>4 DEF EvaluationPending
<1>2. ASSUME NEW t \in Producers, EnqueueCallback(t) PROVE EvaluationPending'
  <2>1. /\ UNCHANGED <<calendar, wpc, swapped>>
        /\ evals' = [evals EXCEPT ![CurNode] = @ + 1]
    BY <1>2 DEF EnqueueCallback, rcVars
  <2>2. /\ evals'[CurNode] > 0
        /\ \A n \in Nodes : n # CurNode => evals'[n] = evals[n]
    BY <1>0, <1>a, <2>1 DEF NodeType
  <2>3. QED
    BY <1>0, <2>1, <2>2 DEF EvaluationPending
<1>3. ASSUME NEW n \in Nodes, NEW c, calendar' = [calendar EXCEPT ![n] = c],
             c # {} => evals'[n] > 0 \/ wpc'[n] # "idle",
             UNCHANGED <<pc, swapped>>,
             \A m \in Nodes : m # n => evals'[m] = evals[m] /\ wpc'[m] = wpc[m]
      PROVE  EvaluationPending'
  <2>1. \A m \in Nodes : m # n => calendar'[m] = calendar[m]
    BY <1>0, <1>3 DEF NodeType
  <2>2. calendar'[n] = c /\ CurNode' = CurNode
    BY <1>0, <1>3 DEF NodeType, CurNode
  <2>3. QED
    BY <1>0, <1>3, <2>1, <2>2 DEF EvaluationPending
<1>b. \A n \in Nodes : calendar = [calendar EXCEPT ![n] = calendar[n]]
  BY <1>0 DEF NodeType
<1>4. ASSUME NEW n \in Nodes, PredicateStep(n) \/ RunWakeup(n)
      PROVE  EvaluationPending'
  <2>0. /\ UNCHANGED <<pc, swapped>>
        /\ \A m \in Nodes : m # n => evals'[m] = evals[m] /\ wpc'[m] = wpc[m]
    BY <1>0, <1>4 DEF PredicateStep, EvalEmpty, EvalPredicate, PushTask,
                      PushTaskEnd, EraseItem, RunWakeup, NodeType, prodVars, rcVars
  <2>1. CASE EvalEmpty(n)
    BY <1>3, <1>b, <2>0, <2>1 DEF EvalEmpty
  <2>2. CASE EvalPredicate(n)
    <3>1. calendar' = calendar /\ wpc' = [wpc EXCEPT ![n] = "push"]
      BY <2>2, EvalSelects
    <3>2. wpc'[n] # "idle"
      BY <1>0, <3>1 DEF NodeType
    <3>3. QED
      BY <1>3, <1>b, <2>0, <3>1, <3>2
  <2>3. CASE PushTask(n) \/ PushTaskEnd(n)
    <3>1. calendar' = calendar /\ wpc'[n] # "idle"
      BY <1>0, <2>3 DEF PushTask, PushTaskEnd, NodeType
    <3>2. QED
      BY <1>3, <1>b, <2>0, <3>1
  <2>4. CASE EraseItem(n)
    <3> DEFINE left == calendar[n] \ {hand[n]}
    <3>1. /\ calendar' = [calendar EXCEPT ![n] = left]
          /\ evals' = [evals EXCEPT ![n] = IF left = {} THEN @ ELSE @ + 1]
      BY <2>4 DEF EraseItem
    <3> HIDE DEF left
    <3>2. left # {} => evals'[n] > 0
      BY <1>0, <3>1 DEF NodeType
    <3>3. QED
      BY <1>3, <2>0, <3>1, <3>2
  <2>5. CASE RunWakeup(n)
    <3>1. calendar' = calendar /\ evals'[n] > 0
      BY <1>0, <2>5 DEF RunWakeup, NodeType
    <3>2. QED
      BY <1>3, <1>b, <2>0, <3>1
  <2>6. QED
    BY <1>4, <2>1, <2>2, <2>3, <2>4, <2>5 DEF PredicateStep
<1>5. CASE ReconfSwap
  <2>1. \A t \in Producers : pc[t] = "idle"
    BY <1>0, <1>5 DEF ReconfSwap, ReconfInv
  <2>2. UNCHANGED <<calendar, evals, wpc>>
    BY <1>5 DEF ReconfSwap, nodeVars
  <2>3. QED
    BY <1>0, <2>1, <2>2 DEF EvaluationPending
<1>6. ASSUME UNCHANGED <<calendar, evals, wpc, swapped>>,
             \A t \in Producers : pc[t] = "callback" => pc'[t] = "callback"
      PROVE  EvaluationPending'
  BY <1>0, <1>6 DEF EvaluationPending, CurNode
<1>7. ASSUME NEW t \in Producers, NEW p \in Pkts, EnqueueLock(t, p)
      PROVE  EvaluationPending'
  BY <1>0, <1>6, <1>7 DEF EnqueueLock, ProdType, nodeVars, rcVars
<1>8. ASSUME NEW t \in Producers, EnqueueStore(t) PROVE EvaluationPending'
  BY <1>0, <1>6, <1>8 DEF EnqueueStore, ProdType, nodeVars, rcVars
<1>9. CASE DequeueStep \/ Destroy
  BY <1>6, <1>9 DEF DequeueStep, DequeueIdle, DequeueBlock, DequeueTake,
                    DequeueTaken, DequeuePop, DequeueNotify, DequeueExit,
                    Destroy, prodVars, nodeVars, rcVars
<1>10. CASE ReconfPause \/ ReconfTest \/ ReconfBlock \/ ReconfResume \/ ReceiveConfig
  BY <1>6, <1>10 DEF ReconfPause, ReconfTest, ReconfBlock, ReconfResume,
                     ReceiveConfig, prodVars, nodeVars
<1>11. CASE UNCHANGED vars
  BY <1>6, <1>11 DEF vars, prodVars, nodeVars, rcVars
<1>12. QED
  BY <1>1, <1>2, <1>4, <1>5, <1>7, <1>8, <1>9, <1>10, <1>11
     DEF Next, EnqueueStep, ReconfStep

-----------------------------------------------------------------------------
\* The invariant holds when the traffic manager is constructed.
LEMMA SchedInit == Init => SchedInv
<1> SUFFICES ASSUME Init PROVE SchedInv
  OBVIOUS
<1>1. StoreInv
  BY StoreInit
<1>2. 1 \in Nodes
  BY ConstAssumption DEF Nodes
<1>3. RankInv
  <2>1. Ranked = {} /\ CurNode = 0
    BY DEF Init, Ranked, CurNode
  <2>2. QED
    BY <2>1 DEF Init, RankInv
<1>4. PredicateInv /\ PushInv
  BY DEF Init, PredicateInv, PushInv
<1>5. ReconfInv
  BY <1>2 DEF Init, ReconfInv
<1>6. EvaluationPending /\ OldHierarchyDrained
  BY DEF Init, EvaluationPending, OldHierarchyDrained
<1>7. QED
  BY <1>1, <1>3, <1>4, <1>5, <1>6 DEF SchedInv

\* Every step keeps every part of the invariant.
LEMMA SchedStep ==
  ASSUME ConfNodes = 1
  PROVE  SchedInv /\ [Next]_vars => SchedInv'
<1> SUFFICES ASSUME SchedInv, [Next]_vars PROVE SchedInv'
  OBVIOUS
<1>1. StoreInv'
  BY SchedTypes, TypeStep, ProducerStep, CalendarStep, TaskStep, CountStep DEF StoreInv
<1>2. QED
  BY <1>1, RankInvStep, PredicateInvStep, PushInvStep, ReconfInvStep,
     PendingStep, DrainedStep DEF SchedInv

\* SchedInv is an invariant of a traffic manager that is sent a
\* configuration of one node: ranks are unique, predicates name the item
\* being dequeued, and push_task is not disturbed by the dequeue thread.
THEOREM SchedInvariant == ASSUME ConfNodes = 1 PROVE Spec => []SchedInv
<1>1. SchedInv /\ [Next]_vars => SchedInv'
  BY SchedStep
<1>2. QED
  BY <1>1, SchedInit, PTL DEF Spec

\* No predicate evaluation is lost.
THEOREM EvaluationPendingAlways ==
  ASSUME ConfNodes = 1 PROVE Spec => []EvaluationPending
  BY SchedInvariant, PTL DEF SchedInv

\* A reconfiguration leaves no packet behind in the replaced hierarchy.
THEOREM OldHierarchyDrainedAlways ==
  ASSUME ConfNodes = 1 PROVE Spec => []OldHierarchyDrained
  BY SchedInvariant, PTL DEF SchedInv

\* Node::enqueue never drops an item for a rank that is already a key: a step
\* that takes a producer from "rank" to "callback" is its EnqueueRank.
THEOREM EmplaceInsertsAlways ==
  ASSUME ConfNodes = 1 PROVE Spec => EmplaceInserts
<1> DEFINE Inserts == \A t \in Producers : pc[t] = "rank" /\ pc'[t] = "callback" =>
                         inhand[t] \in calendar'[CurNode]
<1>1. SchedInv /\ [Next]_vars => [Inserts]_vars
  <2> SUFFICES ASSUME SchedInv, [Next]_vars,
                      NEW t \in Producers, pc[t] = "rank", pc'[t] = "callback"
               PROVE  inhand[t] \in calendar'[CurNode]
    OBVIOUS
  <2>0. ProdType /\ NodeType
    BY SchedTypes
  <2>1. EnqueueRank(t)
    <3>1. ASSUME NEW u \in Producers, NEW p \in Pkts, EnqueueLock(u, p) PROVE FALSE
      BY <2>0, <3>1 DEF EnqueueLock, ProdType
    <3>2. ASSUME NEW u \in Producers, EnqueueStore(u) \/ EnqueueCallback(u) PROVE FALSE
      BY <2>0, <3>2 DEF EnqueueStore, EnqueueCallback, ProdType
    <3>3. ASSUME NEW u \in Producers, EnqueueRank(u) PROVE u = t
      BY <2>0, <3>3 DEF EnqueueRank, ProdType
    <3>4. pc' = pc => FALSE
      OBVIOUS
    <3>5. ASSUME NEW n \in Nodes, PredicateStep(n) \/ RunWakeup(n) PROVE pc' = pc
      BY <3>5 DEF PredicateStep, EvalEmpty, EvalPredicate, PushTask, PushTaskEnd,
                  EraseItem, RunWakeup, prodVars
    <3>6. ASSUME DequeueStep \/ ReconfStep \/ ReceiveConfig \/ Destroy \/ UNCHANGED vars
          PROVE  pc' = pc
      BY <3>6 DEF DequeueStep, DequeueIdle, DequeueBlock, DequeueTake, DequeueTaken,
                  DequeuePop, DequeueNotify, DequeueExit, ReconfStep, ReconfPause,
                  ReconfTest, ReconfBlock, ReconfSwap, ReconfResume, ReceiveConfig,
                  Destroy, vars, prodVars
    <3>7. QED
      BY <3>1, <3>2, <3>3, <3>4, <3>5, <3>6 DEF Next, EnqueueStep
  <2>2. calendar' = [calendar EXCEPT ![CurNode] = @ \cup {inhand[t]}]
    BY <2>1, RankIsNew
  <2>3. QED
    BY <2>0, <2>2, OneNode DEF NodeType
<1>2. QED
  BY <1>1, SchedInvariant, PTL DEF Spec, EmplaceInserts
=============================================================================
