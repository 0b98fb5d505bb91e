--------------------------- MODULE TrafficManager ---------------------------
(***************************************************************************)
(* The programmable traffic manager of this fork of bmv2: the packet store *)
(* and task queue of bm::TrafficManager, the calendars and predicate       *)
(* threads of bm::Node, and the scheduling actions the P4 program supplies *)
(* (papers_results/forwarding.p4) through the TrafficManagerInterface      *)
(* extern.                                                                 *)
(*                                                                         *)
(* Threads: the producers (the ingress thread and the egress threads, all  *)
(* of which call TrafficManager::enqueue), one predicate thread per node,  *)
(* the dequeue thread, the configuration server and the reconfiguration    *)
(* thread.                                                                 *)
(*                                                                         *)
(* A packet and the CalendarItem that describes it have the same name p:   *)
(* the store holds packets, everything else holds items (the item only     *)
(* points to the packet).  A condition variable is modelled with the       *)
(* window between a failed test of its predicate ("towait") and the wait   *)
(* ("blocked"): a notification that does not hold the mutex and falls into *)
(* the window wakes nobody.  task_queue is a std::vector that push_task    *)
(* and dequeue_ change without a common lock, so it is modelled by its     *)
(* slots and its end pointer, each change reading the pointer in one step  *)
(* and writing it back in another.                                         *)
(***************************************************************************)
EXTENDS Integers, Sequences, FiniteSets

CONSTANTS
  Pkts,       \* packets handed to the traffic manager
  Producers,  \* threads that call TrafficManager::enqueue
  PortOf,     \* egress port of each packet
  ColorOf,    \* meta.color of each packet: the day SP ranks it under
  NbWorkers,  \* EGRESS_PORT_NUMBER
  Capacity,   \* packets per port in pkt_store (1024)
  ConfNodes,  \* nodes in the configuration that is sent
  ConfSched,  \* "scheduler" of its first node
  TqCap,      \* slots of task_queue (reserved: 1024)
  MaxEvals,   \* bound on the evaluations a spurious wake-up queues
  None        \* a null calendar item

Days == 0..2    \* MAX_DAY = 3 in forwarding.p4

ASSUME ConstAssumption ==
  /\ NbWorkers \in Nat \ {0}
  /\ Capacity \in Nat \ {0}
  /\ TqCap \in Nat \ {0}
  /\ MaxEvals \in Nat
  /\ ConfNodes \in Nat \ {0}
  /\ ConfSched \in {"SP", "FIFO"}
  /\ PortOf \in [Pkts -> Nat]
  /\ ColorOf \in [Pkts -> Days]
  /\ None \notin Pkts
  /\ None \notin Producers
  /\ IsFiniteSet(Pkts)

Workers == 0 .. NbWorkers - 1

\* TrafficManagerEgressThreadMapper
WorkerOf(p) == PortOf[p] % NbWorkers

\* Node 0 is nodes_hierarchy[0]; node i > 0 is reconf_hierarchy[i - 1].
Nodes == 0..ConfNodes
SchedOf(n) == IF n = 0 THEN "SP" ELSE ConfSched

NoRank == <<0, 0>>
Ranks == Nat \X Nat
Slots == 1..TqCap

VARIABLES
  arrived,    \* packets some producer has brought
  pc, inhand, \* per producer: where it is in enqueue, and its packet
  enq_mutex, ready_to_enqueue,
  store,      \* pkt_store: per worker, oldest first
  stored,     \* history: packets ever put in pkt_store
  rankreg,    \* the P4 register "rank"
  ifrank, ifpred, \* per node: rank and predicate registers of its interface
  p4iface,    \* the node whose interface the P4 actions were given last
  rank,       \* CalendarItem::rank
  calendar,   \* per node: items in calendar_store, keyed by rank
  evals,      \* per node: length of predicate_tasks
  pred,       \* per node: predicate_rank; predicate_set is pred # NoRank
  parent,     \* per node: whether the uninitialised parent pointer is not null
  wpc, hand, wend, \* per predicate thread: position, item, end pointer read
  slot, fin,  \* task_queue: its slots and the number of elements
  dq, dq_item, dq_pkt, dq_end, \* dequeue thread: position, task, packet
  consumed,   \* history: items whose dequeue task was carried out
  egress,     \* history: per worker, packets given to the egress buffers
  stop,       \* stop_dequeue_thread
  conf, rc, swapped \* received configuration, reconfiguration thread

prodVars == <<arrived, pc, inhand, enq_mutex>>
storeVars == <<store, stored, consumed, egress>>
p4Vars == <<rankreg, ifrank, ifpred>>
nodeVars == <<rank, calendar, evals, pred, parent, wpc, hand, wend>>
tqVars == <<slot, fin>>
dqVars == <<dq, dq_item, dq_pkt, dq_end, stop>>
rcVars == <<ready_to_enqueue, p4iface, conf, rc, swapped>>
vars == <<prodVars, storeVars, p4Vars, nodeVars, tqVars, dqVars, rcVars>>

ProdType ==
  /\ arrived \subseteq Pkts
  /\ pc \in [Producers -> {"idle", "store", "rank", "callback"}]
  /\ inhand \in [Producers -> Pkts \cup {None}]
  /\ enq_mutex \in Producers \cup {None}

StoreType ==
  /\ store \in [Workers -> Seq(Pkts)]
  /\ egress \in [Workers -> Seq(Pkts)]
  /\ stored \subseteq Pkts
  /\ consumed \subseteq Pkts

P4Type ==
  /\ rankreg \in [Days -> Nat]
  /\ ifrank \in [Nodes -> Ranks]
  /\ ifpred \in [Nodes -> Ranks]

NodeType ==
  /\ rank \in [Pkts -> Ranks]
  /\ calendar \in [Nodes -> SUBSET Pkts]
  /\ evals \in [Nodes -> Nat]
  /\ pred \in [Nodes -> Ranks]
  /\ parent \in [Nodes -> BOOLEAN]
  /\ wpc \in [Nodes -> {"idle", "push", "pushing", "erase"}]
  /\ hand \in [Nodes -> Pkts \cup {None}]
  /\ wend \in [Nodes -> 0..TqCap]

TaskType ==
  /\ slot \in [Slots -> Pkts \cup {None}]
  /\ fin \in 0..TqCap

DequeueType ==
  /\ dq \in {"loop", "wake", "towait", "blocked", "taking", "pop", "notify", "exited"}
  /\ dq_item \in Pkts \cup {None}
  /\ dq_pkt \in Pkts \cup {None}
  /\ dq_end \in 0..TqCap
  /\ stop \in BOOLEAN

ReconfType ==
  /\ ready_to_enqueue \in BOOLEAN
  /\ p4iface \in Nodes
  /\ conf \in {"none", "good", "bad"}
  /\ rc \in {"poll", "wait", "towait", "blocked", "swap", "resume"}
  /\ swapped \in BOOLEAN

TypeOK ==
  /\ ProdType /\ StoreType /\ P4Type /\ NodeType /\ TaskType
  /\ DequeueType /\ ReconfType

Init ==
  /\ arrived = {} /\ stored = {} /\ consumed = {}
  /\ pc = [t \in Producers |-> "idle"]
  /\ inhand = [t \in Producers |-> None]
  /\ enq_mutex = None
  /\ ready_to_enqueue = TRUE
  /\ store = [w \in Workers |-> <<>>]
  /\ egress = [w \in Workers |-> <<>>]
  /\ rankreg = [d \in Days |-> 0]
  /\ ifrank = [n \in Nodes |-> NoRank]
  /\ ifpred = [n \in Nodes |-> NoRank]
  /\ p4iface = 0
  /\ rank = [p \in Pkts |-> NoRank]
  /\ calendar = [n \in Nodes |-> {}]
  /\ evals = [n \in Nodes |-> 0]
  /\ pred = [n \in Nodes |-> NoRank]
  /\ parent \in [Nodes -> BOOLEAN]
  /\ wpc = [n \in Nodes |-> "idle"]
  /\ hand = [n \in Nodes |-> None]
  /\ wend = [n \in Nodes |-> 0]
  /\ slot = [i \in Slots |-> None]
  /\ fin = 0
  /\ dq = "loop"
  /\ dq_item = None /\ dq_pkt = None /\ dq_end = 0
  /\ stop = FALSE
  /\ conf = "none"
  /\ rc = "poll"
  /\ swapped = FALSE

\* cv.notify_one(): only a dequeue thread that is really waiting notices.
NotifyDequeue == dq' = IF dq = "blocked" THEN "wake" ELSE dq

-----------------------------------------------------------------------------
(* TrafficManager::enqueue, run by a producer under enqueue_mutex.         *)

\* The node that receives packets: the first of the hierarchy in force.
CurNode == IF swapped THEN 1 ELSE 0

\* Mutant: enqueue without its lock.
EnqueueLockNoMutex(t, p) ==
  /\ pc[t] = "idle"
  /\ p \notin arrived
  /\ ready_to_enqueue
  /\ ~stop
  /\ arrived' = arrived \cup {p}
  /\ enq_mutex' = t
  /\ pc' = [pc EXCEPT ![t] = "store"]
  /\ inhand' = [inhand EXCEPT ![t] = p]
  /\ UNCHANGED <<storeVars, p4Vars, nodeVars, tqVars, dqVars, rcVars>>

\* Lock enqueue_mutex and wait for ready_to_enqueue (enqueue_cv is notified
\* under the mutex, so the wait is just its condition).
EnqueueLock(t, p) ==
  /\ pc[t] = "idle"
  /\ p \notin arrived
  /\ enq_mutex = None
  /\ ready_to_enqueue
  /\ ~stop
  /\ arrived' = arrived \cup {p}
  /\ enq_mutex' = t
  /\ pc' = [pc EXCEPT ![t] = "store"]
  /\ inhand' = [inhand EXCEPT ![t] = p]
  /\ UNCHANGED <<storeVars, p4Vars, nodeVars, tqVars, dqVars, rcVars>>

\* QueueingLogic::size(queue_id): occupancy of one port's logical queue
QueueSize(port) ==
  LET q == store[port % NbWorkers]
  IN  Cardinality({i \in DOMAIN q : PortOf[q[i]] = port})

\* pkt_store.push_front, which blocks while the port's queue is full, and
\* the notification of the dequeue thread.
EnqueueStore(t) ==
  /\ pc[t] = "store"
  /\ QueueSize(PortOf[inhand[t]]) < Capacity
  /\ store' = [store EXCEPT ![WorkerOf(inhand[t])] = Append(@, inhand[t])]
  /\ stored' = stored \cup {inhand[t]}
  /\ NotifyDequeue
  /\ pc' = [pc EXCEPT ![t] = "rank"]
  /\ UNCHANGED <<arrived, inhand, enq_mutex, consumed, egress, p4Vars,
                 nodeVars, tqVars, dq_item, dq_pkt, dq_end, stop, rcVars>>

\* The P4 actions SP_calculate_rank and FIFO_calculate_rank: the day they
\* choose; its time is the incremented register.
DayOf(sched, p) == IF sched = "SP" THEN ColorOf[p] ELSE 0

\* Mutant: the rank register is read but not incremented.
NewRankNoIncrement(sched, p) ==
  <<DayOf(sched, p), rankreg[DayOf(sched, p)]>>

NewRank(sched, p) ==
  <<DayOf(sched, p), rankreg[DayOf(sched, p)] + 1>>

\* Node::enqueue: calculate_rank, set_rank and calendar_store.emplace, which
\* inserts nothing when the rank is already a key.
EnqueueRank(t) ==
  LET n == CurNode
      p == inhand[t]
      new == NewRank(SchedOf(n), p)
      r == IF p4iface = n THEN new ELSE ifrank[n]
  IN
  /\ pc[t] = "rank"
  /\ rankreg' = [rankreg EXCEPT ![new[1]] = new[2]]
  /\ ifrank' = [ifrank EXCEPT ![p4iface] = new]
  /\ rank' = [rank EXCEPT ![p] = r]
  /\ calendar' = IF \E q \in calendar[n] : rank[q] = r
                 THEN calendar
                 ELSE [calendar EXCEPT ![n] = @ \cup {p}]
  /\ pc' = [pc EXCEPT ![t] = "callback"]
  /\ UNCHANGED <<arrived, inhand, enq_mutex, storeVars, ifpred, evals, pred,
                 parent, wpc, hand, wend, tqVars, dqVars, rcVars>>

\* Mutant: enqueue returns without predicate_callback().
EnqueueNoCallback(t) ==
  /\ pc[t] = "callback"
  /\ pc' = [pc EXCEPT ![t] = "idle"]
  /\ inhand' = [inhand EXCEPT ![t] = None]
  /\ enq_mutex' = None
  /\ UNCHANGED <<arrived, storeVars, p4Vars, nodeVars, tqVars, dqVars, rcVars>>

\* predicate_callback(), then enqueue returns and unlocks enqueue_mutex.
EnqueueCallback(t) ==
  /\ pc[t] = "callback"
  /\ evals' = [evals EXCEPT ![CurNode] = @ + 1]
  /\ pc' = [pc EXCEPT ![t] = "idle"]
  /\ inhand' = [inhand EXCEPT ![t] = None]
  /\ enq_mutex' = None
  /\ UNCHANGED <<arrived, storeVars, p4Vars, rank, calendar, pred, parent,
                 wpc, hand, wend, tqVars, dqVars, rcVars>>

-----------------------------------------------------------------------------
(* A node's predicate thread (predicate_worker, eval_predicate, dequeue).  *)

\* TrafficManagerInterface::find_non_empty_day(0, MAX_DAY)
FirstDay(cal) ==
  LET used == {d \in Days : \E q \in cal : rank[q][1] = d}
  IN  IF used = {} THEN 0 ELSE CHOOSE d \in used : \A e \in used : d <= e

\* get_lowest_priority_for_day: 0 when the day holds nothing
LowestTime(cal, d) ==
  LET times == {rank[q][2] : q \in {x \in cal : rank[x][1] = d /\ rank[x][2] >= 1}}
  IN  IF times = {} THEN 0 ELSE CHOOSE u \in times : \A v \in times : u <= v

\* The P4 actions SP_evaluate_predicate and FIFO_evaluate_predicate
P4Predicate(sched, cal) ==
  LET day == IF sched = "SP" THEN FirstDay(cal) ELSE 0
  IN  <<day, LowestTime(cal, day)>>

\* Mutant: predicate_tasks is popped without testing that it holds a task.
EvalEmptyNoTask(n) ==
  /\ wpc[n] = "idle"
  /\ calendar[n] = {}
  /\ evals' = [evals EXCEPT ![n] = @ - 1]
  /\ pred' = [pred EXCEPT ![n] = NoRank]
  /\ UNCHANGED <<prodVars, storeVars, p4Vars, rank, calendar, parent, wpc,
                 hand, wend, tqVars, dqVars, rcVars>>

\* A task taken while the calendar is empty only clears the predicate.
EvalEmpty(n) ==
  /\ wpc[n] = "idle"
  /\ evals[n] > 0
  /\ calendar[n] = {}
  /\ evals' = [evals EXCEPT ![n] = @ - 1]
  /\ pred' = [pred EXCEPT ![n] = NoRank]
  /\ UNCHANGED <<prodVars, storeVars, p4Vars, rank, calendar, parent, wpc,
                 hand, wend, tqVars, dqVars, rcVars>>

\* eval_predicate up to the look-up in dequeue.  The P4 action writes the
\* interface it was given; the node reads its own.  A predicate that did not
\* change dequeues nothing.  With a (garbage) parent the item of the former
\* predicate is erased from the calendar.
EvalPredicate(n) ==
  LET new == P4Predicate(SchedOf(n), calendar[p4iface])
      np == IF p4iface = n THEN new ELSE ifpred[n]
      old == pred[n]
      changed == np # NoRank /\ np # old
      erased == IF changed /\ old[2] # 0 /\ parent[n]
                THEN {q \in calendar[n] : rank[q] = old} ELSE {}
      chosen == IF changed
                THEN {q \in calendar[n] \ erased : rank[q] = np} ELSE {}
  IN
  /\ wpc[n] = "idle"
  /\ evals[n] > 0
  /\ calendar[n] # {}
  /\ evals' = [evals EXCEPT ![n] = @ - 1]
  /\ ifpred' = [ifpred EXCEPT ![p4iface] = new]
  /\ pred' = [pred EXCEPT ![n] = np]
  /\ calendar' = [calendar EXCEPT ![n] = @ \ erased]
  /\ IF chosen = {}
     THEN UNCHANGED <<wpc, hand>>
     ELSE /\ wpc' = [wpc EXCEPT ![n] = "push"]
          /\ hand' = [hand EXCEPT ![n] = CHOOSE q \in chosen : TRUE]
  /\ UNCHANGED <<prodVars, storeVars, rankreg, ifrank, rank, parent, wend,
                 tqVars, dqVars, rcVars>>

\* push_task, first half: the element is built at the end of the vector.
PushTask(n) ==
  /\ wpc[n] = "push"
  /\ fin < TqCap
  /\ slot' = [slot EXCEPT ![fin + 1] = hand[n]]
  /\ wend' = [wend EXCEPT ![n] = fin + 1]
  /\ wpc' = [wpc EXCEPT ![n] = "pushing"]
  /\ UNCHANGED <<prodVars, storeVars, p4Vars, rank, calendar, evals, pred,
                 parent, hand, fin, dqVars, rcVars>>

\* push_task, second half: the end pointer is written, cv is notified.
PushTaskEnd(n) ==
  /\ wpc[n] = "pushing"
  /\ fin' = wend[n]
  /\ NotifyDequeue
  /\ wpc' = [wpc EXCEPT ![n] = "erase"]
  /\ wend' = [wend EXCEPT ![n] = 0]
  /\ UNCHANGED <<prodVars, storeVars, p4Vars, rank, calendar, evals, pred,
                 parent, hand, slot, dq_item, dq_pkt, dq_end, stop, rcVars>>

\* The rest of dequeue: the item leaves the calendar, the (empty) P4 action
\* <scheduler>_dequeued runs, and the next evaluation is queued.
EraseItem(n) ==
  LET left == calendar[n] \ {hand[n]}
  IN
  /\ wpc[n] = "erase"
  /\ calendar' = [calendar EXCEPT ![n] = left]
  /\ evals' = [evals EXCEPT ![n] = IF left = {} THEN @ ELSE @ + 1]
  /\ pred' = [pred EXCEPT ![n] = IF left = {} THEN NoRank ELSE @]
  /\ wpc' = [wpc EXCEPT ![n] = "idle"]
  /\ hand' = [hand EXCEPT ![n] = None]
  /\ UNCHANGED <<prodVars, storeVars, p4Vars, rank, parent, wend, tqVars,
                 dqVars, rcVars>>

\* Node::run: nothing ever notifies its condition variable or fills its task
\* queue, so it acts only after a spurious wake-up.
RunWakeup(n) ==
  /\ calendar[n] # {}
  /\ evals[n] < MaxEvals
  /\ evals' = [evals EXCEPT ![n] = @ + 1]
  /\ UNCHANGED <<prodVars, storeVars, p4Vars, rank, calendar, pred, parent,
                 wpc, hand, wend, tqVars, dqVars, rcVars>>

-----------------------------------------------------------------------------
(* The dequeue thread (TrafficManager::dequeue_) and the destructor.       *)

\* The wait's predicate is tested on entry and after every wake-up; the
\* loop condition only between two tasks.
Testing == dq = "wake" \/ (dq = "loop" /\ ~stop)

DequeueIdle ==
  /\ Testing
  /\ fin = 0
  /\ dq' = "towait"
  /\ UNCHANGED <<prodVars, storeVars, p4Vars, nodeVars, tqVars, dq_item,
                 dq_pkt, dq_end, stop, rcVars>>

DequeueBlock ==
  /\ dq = "towait"
  /\ dq' = "blocked"
  /\ UNCHANGED <<prodVars, storeVars, p4Vars, nodeVars, tqVars, dq_item,
                 dq_pkt, dq_end, stop, rcVars>>

\* Mutant: task_queue.front() is copied and not erased.
DequeueTakeNoErase ==
  /\ Testing
  /\ fin > 0
  /\ dq_item' = slot[1]
  /\ dq_end' = fin
  /\ dq' = "taking"
  /\ UNCHANGED <<prodVars, storeVars, p4Vars, nodeVars, tqVars, dq_pkt, stop, rcVars>>

\* task_queue.front() is moved out and erased: the elements move down, the
\* last one is left null, and the end pointer is written back afterwards.
DequeueTake ==
  /\ Testing
  /\ fin > 0
  /\ dq_item' = slot[1]
  /\ slot' = [i \in Slots |-> IF i < fin THEN slot[i + 1]
                              ELSE IF i = fin THEN None ELSE slot[i]]
  /\ dq_end' = fin - 1
  /\ dq' = "taking"
  /\ UNCHANGED <<prodVars, storeVars, p4Vars, nodeVars, fin, dq_pkt, stop, rcVars>>

DequeueTaken ==
  /\ dq = "taking"
  /\ fin' = dq_end
  /\ dq_end' = 0
  /\ dq' = IF dq_item = None THEN "notify" ELSE "pop"
  /\ UNCHANGED <<prodVars, storeVars, p4Vars, nodeVars, slot, dq_item,
                 dq_pkt, stop, rcVars>>

\* Mutant: the store is popped at the end that was pushed last.
DequeuePopNewest ==
  LET w == WorkerOf(dq_item)
      n == Len(store[w])
  IN
  /\ dq = "pop"
  /\ store[w] # <<>>
  /\ store' = [store EXCEPT ![w] = SubSeq(@, 1, n - 1)]
  /\ egress' = [egress EXCEPT ![w] = Append(@, store[w][n])]
  /\ consumed' = consumed \cup {dq_item}
  /\ dq_pkt' = store[w][n]
  /\ dq' = "notify"
  /\ UNCHANGED <<prodVars, stored, p4Vars, nodeVars, tqVars, dq_item, dq_end,
                 stop, rcVars>>

\* pkt_store.pop_back(worker of the item's port), which blocks while that
\* worker has no packet, and egress_buf->push_front of what it returned.
DequeuePop ==
  LET w == WorkerOf(dq_item)
  IN
  /\ dq = "pop"
  /\ store[w] # <<>>
  /\ store' = [store EXCEPT ![w] = Tail(@)]
  /\ egress' = [egress EXCEPT ![w] = Append(@, Head(store[w]))]
  /\ consumed' = consumed \cup {dq_item}
  /\ dq_pkt' = Head(store[w])
  /\ dq' = "notify"
  /\ UNCHANGED <<prodVars, stored, p4Vars, nodeVars, tqVars, dq_item, dq_end,
                 stop, rcVars>>

\* pkt_store.empty(): element_count = 0
StoreEmpty == \A w \in Workers : store[w] = <<>>

\* An empty store is announced to the reconfiguration thread, without
\* pkt_store_mutex.
DequeueNotify ==
  /\ dq = "notify"
  /\ rc' = IF StoreEmpty /\ rc = "blocked" THEN "wait" ELSE rc
  /\ dq' = "loop"
  /\ dq_item' = None
  /\ dq_pkt' = None
  /\ UNCHANGED <<prodVars, storeVars, p4Vars, nodeVars, tqVars, dq_end, stop,
                 ready_to_enqueue, p4iface, conf, swapped>>

\* ~TrafficManager, once the threads of the switch are joined: the flag is
\* set, cv is not notified.
Destroy ==
  /\ ~stop
  /\ \A t \in Producers : pc[t] = "idle"
  /\ stop' = TRUE
  /\ UNCHANGED <<prodVars, storeVars, p4Vars, nodeVars, tqVars, dq, dq_item,
                 dq_pkt, dq_end, rcVars>>

DequeueExit ==
  /\ dq = "loop"
  /\ stop
  /\ dq' = "exited"
  /\ UNCHANGED <<prodVars, storeVars, p4Vars, nodeVars, tqVars, dq_item,
                 dq_pkt, dq_end, stop, rcVars>>

-----------------------------------------------------------------------------
(* The configuration server and TrafficManager::run.                       *)

\* accept_and_read accepts one connection, ever.  A configuration that does
\* not parse is never cleared and keeps run() looping.
ReceiveConfig ==
  /\ conf = "none"
  /\ rc = "poll"
  /\ ~swapped
  /\ conf' \in {"good", "bad"}
  /\ UNCHANGED <<prodVars, storeVars, p4Vars, nodeVars, tqVars, dqVars,
                 ready_to_enqueue, p4iface, rc, swapped>>

\* The nodes are created (their predicate threads start idle) and enqueuing
\* is paused.
ReconfPause ==
  /\ rc = "poll"
  /\ conf = "good"
  /\ enq_mutex = None
  /\ ready_to_enqueue' = FALSE
  /\ rc' = "wait"
  /\ UNCHANGED <<prodVars, storeVars, p4Vars, nodeVars, tqVars, dqVars,
                 p4iface, conf, swapped>>

\* Mutant: the hierarchy is swapped without waiting for an empty store.
ReconfTestNoWait ==
  /\ rc = "wait"
  /\ rc' = "swap"
  /\ UNCHANGED <<prodVars, storeVars, p4Vars, nodeVars, tqVars, dqVars,
                 ready_to_enqueue, p4iface, conf, swapped>>

ReconfTest ==
  /\ rc = "wait"
  /\ rc' = IF StoreEmpty THEN "swap" ELSE "towait"
  /\ UNCHANGED <<prodVars, storeVars, p4Vars, nodeVars, tqVars, dqVars,
                 ready_to_enqueue, p4iface, conf, swapped>>

ReconfBlock ==
  /\ rc = "towait"
  /\ rc' = "blocked"
  /\ UNCHANGED <<prodVars, storeVars, p4Vars, nodeVars, tqVars, dqVars,
                 ready_to_enqueue, p4iface, conf, swapped>>

\* swapped = true; set_actions(true) gives the P4 actions, which all nodes
\* share, the interface of each new node in turn.
ReconfSwap ==
  /\ rc = "swap"
  /\ swapped' = TRUE
  /\ p4iface' = ConfNodes
  /\ rc' = "resume"
  /\ UNCHANGED <<prodVars, storeVars, p4Vars, nodeVars, tqVars, dqVars,
                 ready_to_enqueue, conf>>

ReconfResume ==
  /\ rc = "resume"
  /\ enq_mutex = None
  /\ ready_to_enqueue' = TRUE
  /\ conf' = "none"
  /\ rc' = "poll"
  /\ UNCHANGED <<prodVars, storeVars, p4Vars, nodeVars, tqVars, dqVars,
                 p4iface, swapped>>

-----------------------------------------------------------------------------
EnqueueStep(t) == EnqueueStore(t) \/ EnqueueRank(t) \/ EnqueueCallback(t)
PredicateStep(n) ==
  EvalEmpty(n) \/ EvalPredicate(n) \/ PushTask(n) \/ PushTaskEnd(n) \/ EraseItem(n)
DequeueStep ==
  \/ DequeueIdle \/ DequeueBlock \/ DequeueTake \/ DequeueTaken
  \/ DequeuePop \/ DequeueNotify \/ DequeueExit
ReconfStep ==
  ReconfPause \/ ReconfTest \/ ReconfBlock \/ ReconfSwap \/ ReconfResume

Next ==
  \/ \E t \in Producers, p \in Pkts : EnqueueLock(t, p)
  \/ \E t \in Producers : EnqueueStep(t)
  \/ \E n \in Nodes : PredicateStep(n) \/ RunWakeup(n)
  \/ DequeueStep
  \/ ReconfStep
  \/ ReceiveConfig
  \/ Destroy

\* The operating system runs every thread that can run; packets,
\* configurations, spurious wake-ups and the destruction are not promised.
Fairness ==
  /\ \A t \in Producers : WF_vars(EnqueueStep(t))
  /\ \A n \in Nodes : WF_vars(PredicateStep(n))
  /\ WF_vars(DequeueStep)
  /\ WF_vars(ReconfStep)

Spec == Init /\ [][Next]_vars
FairSpec == Spec /\ Fairness

-----------------------------------------------------------------------------
(* Properties.                                                             *)

\* dequeue_ never blocks in pkt_store.pop_back: whenever it has a task whose
\* item is not null, the store of the item's worker holds a packet, however
\* the unsynchronised accesses to task_queue interleave.
PopNeverStarves ==
  dq = "pop" => store[WorkerOf(dq_item)] # <<>>

\* No predicate evaluation is lost: as long as a calendar holds an item, an
\* evaluation of that node is queued, running, or about to be queued by the
\* producer that is inside Node::enqueue.
EvaluationPending ==
  \A n \in Nodes : calendar[n] # {} =>
    \/ evals[n] > 0
    \/ wpc[n] # "idle"
    \/ n = CurNode /\ \E t \in Producers : pc[t] = "callback"

\* calendar_store.emplace always inserts the item: with the ranks the P4
\* actions compute, no item is silently dropped for a key that exists.
EmplaceInserts ==
  [][\A t \in Producers : pc[t] = "rank" /\ pc'[t] = "callback" =>
        inhand[t] \in calendar'[CurNode]]_vars

\* A reconfiguration leaves no packet behind in the replaced hierarchy: once
\* swapped, the old node's calendar holds at most the item it has finished.
OldHierarchyDrained ==
  swapped => \A p \in calendar[0] : wpc[0] = "erase" /\ hand[0] = p /\ p \in consumed

\* Whatever the schedulers decide, the packets of one worker leave in the
\* order in which they were enqueued: the traffic manager implements a FIFO.
Fifo == INSTANCE TmFifo WITH q <- store, out <- egress
ImplementsFifo == Fifo!Spec

Released(p) == \E w \in Workers : \E i \in DOMAIN egress[w] : egress[w][i] = p

\* The two ways dequeue_ can miss work: a notification that fell between
\* the test and the wait, and a task overwritten by the racing end pointer.
WakeupLost == dq = "blocked" /\ fin > 0
TaskLost ==
  \E p \in stored \ consumed :
    /\ \A t \in Producers : inhand[t] # p
    /\ \A n \in Nodes : p \notin calendar[n]
    /\ dq_item # p
    /\ \A i \in 1..fin : slot[i] # p

\* Every stored packet is released to the egress buffers, unless dequeue_
\* missed a notification or a task for good, or the switch is destroyed.
EventuallyReleased ==
  \A p \in Pkts : p \in stored ~> (Released(p) \/ []WakeupLost \/ []TaskLost \/ stop)

\* What the comment in run() promises of waiting for an empty store, "avoid
\* potential deadlocks": a reconfiguration that paused enqueuing resumes it.
EnqueuingResumes == ~ready_to_enqueue ~> ready_to_enqueue

\* What the interface promises of rank and predicate, "used for scheduling
\* and prioritizing packets": the packet that a dequeue task releases is the
\* packet of the calendar item the predicate selected.
ReleasedAsScheduled == dq_pkt # None => dq_pkt = dq_item

\* What the comment in the destructor says, "Signal the TM run loop to stop
\* and join the thread": the dequeue thread ends, so that join returns.
DequeueThreadJoins == stop ~> dq = "exited"

-----------------------------------------------------------------------------
(* The inductive invariant behind PopNeverStarves.                         *)

\* The items that left the "rank" stage of Node::enqueue; only these are
\* ever in a calendar, in the task queue or with the dequeue thread.
Ranked == stored \ {inhand[t] : t \in {u \in Producers : pc[u] = "rank"}}

\* The predicate thread has given its item to push_task.
Tasked(n) == wpc[n] \in {"pushing", "erase"}

\* enqueue_mutex is held by the only producer inside enqueue, whose packet
\* enters the store once.
ProducerInv ==
  /\ stored \subseteq arrived
  /\ \A t \in Producers :
       /\ pc[t] # "idle" => enq_mutex = t /\ inhand[t] \in arrived
       /\ pc[t] = "store" => inhand[t] \notin stored
       /\ pc[t] \in {"rank", "callback"} => inhand[t] \in stored

\* An item of a calendar that is queued, taken or consumed is the one its
\* predicate thread is about to erase.
CalendarInv ==
  /\ \A n \in Nodes : calendar[n] \subseteq Ranked
  /\ \A n \in Nodes : wpc[n] # "idle" => hand[n] \in calendar[n]
  /\ \A m, n \in Nodes : m # n => calendar[m] \cap calendar[n] = {}
  /\ \A n \in Nodes : \A p \in calendar[n] :
       p \in consumed \/ p = dq_item \/ (\E i \in Slots : slot[i] = p)
         => hand[n] = p /\ Tasked(n)

\* An item is queued at most once and not consumed before it is taken.
TaskInv ==
  /\ \A i \in Slots : slot[i] # None => slot[i] \in Ranked \ consumed
  /\ \A i, j \in Slots : slot[i] = slot[j] /\ slot[i] # None => i = j
  /\ dq_item # None => dq_item \in Ranked /\ \A i \in Slots : slot[i] # dq_item
  /\ dq \in {"taking", "pop"} => dq_item \notin consumed
  /\ dq = "pop" => dq_item # None
  /\ dq \in {"loop", "wake", "towait", "blocked"} => dq_item = None

\* The packets among S that go to worker w
OfWorker(S, w) == {p \in S : WorkerOf(p) = w}

\* One packet leaves the store of a worker per consumed item of that worker.
CountInv ==
  /\ consumed \subseteq Ranked
  /\ \A w \in Workers :
       Len(store[w]) + Cardinality(OfWorker(consumed, w))
         = Cardinality(OfWorker(stored, w))

StoreInv == TypeOK /\ ProducerInv /\ CalendarInv /\ TaskInv /\ CountInv

-----------------------------------------------------------------------------
(* The inductive invariant behind EvaluationPending, EmplaceInserts and    *)
(* OldHierarchyDrained, for a configuration of one node.                   *)

\* A rank that the rank registers have given out.
Given(r) == r[1] \in Days /\ 1 <= r[2] /\ r[2] <= rankreg[r[1]]

\* Ranks are given out once, and FIFO uses day 0 only.
RankInv ==
  /\ p4iface = CurNode
  /\ \A p \in Ranked : Given(rank[p])
  /\ \A p, q \in Ranked : rank[p] = rank[q] => p = q
  /\ \A n \in Nodes : SchedOf(n) = "FIFO" =>
       \A p \in calendar[n] : rank[p][1] = 0

\* predicate_rank is the rank of the item being dequeued, else a rank that
\* no item in the calendar has; an evaluation therefore always changes it.
PredicateInv ==
  \A n \in Nodes :
    /\ pred[n] # NoRank => Given(pred[n])
    /\ wpc[n] = "idle" => \A p \in calendar[n] : rank[p] # pred[n]
    /\ wpc[n] # "idle" => pred[n] = rank[hand[n]]

\* Between the two halves of push_task nobody reaches the new slot.
PushInv ==
  /\ \A n \in Nodes : wpc[n] = "pushing" =>
       fin < wend[n] /\ slot[wend[n]] = hand[n] /\ hand[n] \notin consumed
  /\ dq = "taking" => dq_end <= fin

\* Enqueuing is paused from the pause to the resumption, and the swap
\* happens on an empty store.
ReconfInv ==
  /\ rc # "poll" => ~ready_to_enqueue /\ \A t \in Producers : pc[t] = "idle"
  /\ rc = "swap" => StoreEmpty
  /\ ~swapped => calendar[1] = {} /\ wpc[1] = "idle"

SchedInv ==
  /\ StoreInv /\ RankInv /\ PredicateInv /\ PushInv /\ ReconfInv
  /\ EvaluationPending /\ OldHierarchyDrained
=============================================================================
