---------------------------- MODULE BasicTargets ---------------------------
(***************************************************************************)
(* The targets with one pipeline thread between two bounded queues:        *)
(* l2_switch, simple_router and pna_nic.  l2_switch multicasts,            *)
(* simple_router keeps pointers into the configuration that swap_notify_   *)
(* tells it to renew, and pna_nic has a destructor that stops its threads. *)
(* The P4 program is a free choice.  Queue (queue.h) blocks; popping a     *)
(* packet and sending it out is one step of the transmit thread.           *)
(***************************************************************************)
EXTENDS Integers, Sequences, FiniteSets

CONSTANTS
  BtPorts,       \* ports
  BtGroup,       \* the ports of multicast group 1, in the order of replicate
  BtInCap, BtOutCap,   \* capacities of the buffers
  BtMaxPackets, BtMaxSwaps   \* bounds

\* The copies of the group for a packet from this port: l2_switch prunes the
\* port itself.
BtCopies(port) == SelectSeq(BtGroup, LAMBDA q : q # port)

\* BtCopies is in Seq(Nat) whenever BtGroup is: SelectSeq is defined by recursion,
\* which the provers cannot follow, so that much of it is stated here.
ASSUME BtAssumption ==
  /\ BtInCap \in Nat \ {0} /\ BtOutCap \in Nat \ {0}
  /\ BtPorts \subseteq Nat /\ BtGroup \in Seq(Nat)
  /\ BtMaxPackets \in Nat /\ BtMaxSwaps \in Nat
  /\ \A port \in BtPorts : BtCopies(port) \in Seq(Nat)

VARIABLES
  btTarget,      \* the target
  btRecv,        \* the packet receive_ has made and not yet queued, if any
  btIn, btOut,   \* input_buffer and output_buffer, oldest first
  btPc,          \* the pipeline thread: "start", "pop", "update", "push", "done"
  btPkt,         \* the packet it has taken, if any
  btTodo,        \* ports it still has to queue the packet for
  btTransmit,    \* the transmit thread runs
  btConfig,      \* the running configuration
  btPointers,    \* the configuration the pipeline thread's pointers are of
  btNotified,    \* swap_happened
  btSwapping,    \* do_swap holds process_packet_mutex
  btStop,        \* the destructor: "no", "input", "output", "joined"
  btSent,        \* packets sent out: [id, port] (history)
  btPromised,    \* what the program chose: [id, port] (history)
  btMade         \* packets received so far

btVars == <<btTarget, btRecv, btIn, btOut, btPc, btPkt, btTodo, btTransmit, btConfig,
            btPointers, btNotified, btSwapping, btStop, btSent, btPromised, btMade>>

BtNull == [id |-> 0, port |-> 0]        \* nullptr in a buffer

BtInit ==
  /\ btTarget \in {"l2_switch", "simple_router", "pna_nic"}
  /\ btRecv = {} /\ btIn = <<>> /\ btOut = <<>>
  /\ btPc = "start" /\ btPkt = {} /\ btTodo = <<>> /\ btTransmit = TRUE
  /\ btConfig = 0 /\ btPointers = 0 /\ btNotified = FALSE /\ btSwapping = FALSE
  /\ btStop = "no" /\ btSent = <<>> /\ btPromised = <<>> /\ btMade = 0

-----------------------------------------------------------------------------
\* receive_: new_packet_ptr needs process_packet_mutex, and takes a PHV.
BtReceive(port) ==
  /\ btRecv = {} /\ ~btSwapping
  /\ btMade < BtMaxPackets /\ btMade' = btMade + 1
  /\ btRecv' = {[id |-> btMade + 1, port |-> port]}
  /\ UNCHANGED <<btTarget, btIn, btOut, btPc, btPkt, btTodo, btTransmit, btConfig,
                 btPointers, btNotified, btSwapping, btStop, btSent, btPromised>>

\* input_buffer.push_front, once there is room.
BtQueueIn ==
  /\ btRecv # {} /\ Len(btIn) < BtInCap
  /\ \E p \in btRecv : btIn' = Append(btIn, p)
  /\ btRecv' = {}
  /\ UNCHANGED <<btTarget, btOut, btPc, btPkt, btTodo, btTransmit, btConfig, btPointers,
                 btNotified, btSwapping, btStop, btSent, btPromised, btMade>>

\* pipeline_thread: l2_switch and simple_router take their pointers when it
\* begins.
BtThreadStart ==
  /\ btPc = "start" /\ btPc' = "pop"
  /\ btPointers' = btConfig
  /\ UNCHANGED <<btTarget, btRecv, btIn, btOut, btPkt, btTodo, btTransmit, btConfig,
                 btNotified, btSwapping, btStop, btSent, btPromised, btMade>>

\* input_buffer.pop_back; nullptr ends the main thread of pna_nic.
BtPop ==
  /\ btPc = "pop" /\ btIn # <<>>
  /\ btIn' = Tail(btIn)
  /\ IF Head(btIn) = BtNull THEN btPc' = "done" /\ UNCHANGED btPkt
     ELSE btPc' = "update" /\ btPkt' = {Head(btIn)}
  /\ UNCHANGED <<btTarget, btRecv, btOut, btTodo, btTransmit, btConfig, btPointers,
                 btNotified, btSwapping, btStop, btSent, btPromised, btMade>>

\* The pointers: simple_router renews its own after a swap, pna_nic asks for
\* them with every packet.
BtUpdate ==
  /\ btPointers' = IF btTarget = "pna_nic" \/ (btTarget = "simple_router" /\ btNotified)
                   THEN btConfig ELSE btPointers
  /\ btNotified' = (btNotified /\ btTarget # "simple_router")

\* The parser and the ingress control have chosen these ports for the packet.
BtForward(ports) ==
  LET p == CHOOSE q \in btPkt : TRUE
  IN /\ btTodo' = ports
     /\ btPromised' = btPromised \o [i \in DOMAIN ports |-> [id |-> p.id, port |-> ports[i]]]
     /\ btPc' = "push" /\ UNCHANGED btPkt
BtDrop ==
  /\ btPc' = "pop" /\ btPkt' = {} /\ UNCHANGED <<btTodo, btPromised>>

L2Ingress ==
  \/ BtDrop
  \/ \E port \in BtPorts : BtForward(<<port>>)
  \/ \E p \in btPkt : IF BtCopies(p.port) = <<>> THEN BtDrop ELSE BtForward(BtCopies(p.port))
RouterIngress == BtDrop \/ \E port \in BtPorts : BtForward(<<port>>)
PnaMain == \E port \in BtPorts : BtForward(<<port>>)

BtProcess ==
  /\ btPc = "update"
  /\ BtUpdate
  /\ \/ btTarget = "l2_switch" /\ L2Ingress
     \/ btTarget = "simple_router" /\ RouterIngress
     \/ btTarget = "pna_nic" /\ PnaMain
  /\ UNCHANGED <<btTarget, btRecv, btIn, btOut, btTransmit, btConfig, btSwapping, btStop,
                 btSent, btMade>>

\* The egress control and the deparser, then output_buffer.push_front, for one
\* copy; the packet is gone after the last.
BtPush ==
  /\ btPc = "push" /\ Len(btOut) < BtOutCap
  /\ \E p \in btPkt : btOut' = Append(btOut, [id |-> p.id, port |-> Head(btTodo)])
  /\ btTodo' = Tail(btTodo)
  /\ IF btTodo' = <<>> THEN btPc' = "pop" /\ btPkt' = {} ELSE UNCHANGED <<btPc, btPkt>>
  /\ UNCHANGED <<btTarget, btRecv, btIn, btTransmit, btConfig, btPointers, btNotified,
                 btSwapping, btStop, btSent, btPromised, btMade>>

\* transmit_thread; nullptr ends that of pna_nic.
BtTransmit ==
  /\ btTransmit /\ btOut # <<>>
  /\ btOut' = Tail(btOut)
  /\ IF Head(btOut) = BtNull THEN btTransmit' = FALSE /\ UNCHANGED btSent
     ELSE btSent' = Append(btSent, Head(btOut)) /\ UNCHANGED btTransmit
  /\ UNCHANGED <<btTarget, btRecv, btIn, btPc, btPkt, btTodo, btConfig, btPointers,
                 btNotified, btSwapping, btStop, btPromised, btMade>>

-----------------------------------------------------------------------------
\* Packets that hold a PHV.
InSwitch == btRecv # {} \/ btPkt # {} \/ btIn # <<>> \/ btOut # <<>>

\* do_swap takes process_packet_mutex (only simple_router enables swapping).
BtSwapLock ==
  /\ btTarget = "simple_router" /\ ~btSwapping /\ btConfig < BtMaxSwaps
  /\ btSwapping' = TRUE
  /\ UNCHANGED <<btTarget, btRecv, btIn, btOut, btPc, btPkt, btTodo, btTransmit, btConfig,
                 btPointers, btNotified, btStop, btSent, btPromised, btMade>>

\* A mutation of BtSwap: packets in the output buffer and at the threads are not
\* waited for.
BtSwapEarly ==
  /\ btSwapping /\ btIn = <<>>
  /\ btConfig' = btConfig + 1 /\ btNotified' = TRUE /\ btSwapping' = FALSE
  /\ UNCHANGED <<btTarget, btRecv, btIn, btOut, btPc, btPkt, btTodo, btTransmit, btPointers,
                 btStop, btSent, btPromised, btMade>>

\* No more packets: the configurations are swapped, and swap_notify_ sets
\* swap_happened.
BtSwap ==
  /\ btSwapping /\ ~InSwitch
  /\ btConfig' = btConfig + 1 /\ btNotified' = TRUE /\ btSwapping' = FALSE
  /\ UNCHANGED <<btTarget, btRecv, btIn, btOut, btPc, btPkt, btTodo, btTransmit, btPointers,
                 btStop, btSent, btPromised, btMade>>

\* ~PnaNic: a nullptr for each thread, then the joins.
BtStopInput ==
  /\ btTarget = "pna_nic" /\ btStop = "no" /\ Len(btIn) < BtInCap
  /\ btStop' = "input" /\ btIn' = Append(btIn, BtNull)
  /\ UNCHANGED <<btTarget, btRecv, btOut, btPc, btPkt, btTodo, btTransmit, btConfig,
                 btPointers, btNotified, btSwapping, btSent, btPromised, btMade>>

BtStopOutput ==
  /\ btStop = "input" /\ Len(btOut) < BtOutCap
  /\ btStop' = "output" /\ btOut' = Append(btOut, BtNull)
  /\ UNCHANGED <<btTarget, btRecv, btIn, btPc, btPkt, btTodo, btTransmit, btConfig,
                 btPointers, btNotified, btSwapping, btSent, btPromised, btMade>>

BtJoined ==
  /\ btStop = "output" /\ btPc = "done" /\ ~btTransmit
  /\ btStop' = "joined"
  /\ UNCHANGED <<btTarget, btRecv, btIn, btOut, btPc, btPkt, btTodo, btTransmit, btConfig,
                 btPointers, btNotified, btSwapping, btSent, btPromised, btMade>>

BtNext ==
  \/ \E port \in BtPorts : BtReceive(port)
  \/ BtQueueIn \/ BtThreadStart \/ BtPop \/ BtProcess \/ BtPush \/ BtTransmit
  \/ BtSwapLock \/ BtSwap
  \/ BtStopInput \/ BtStopOutput \/ BtJoined

BtSpec == BtInit /\ [][BtNext]_btVars

-----------------------------------------------------------------------------
BtTypeOK ==
  /\ Len(btIn) <= BtInCap /\ Len(btOut) <= BtOutCap
  /\ Cardinality(btRecv) <= 1 /\ Cardinality(btPkt) <= 1
  /\ (btPkt # {}) = (btPc \in {"update", "push"})

\* The nullptr of the destructor ahead of place i of the output buffer.
Skipped(i) == IF \E j \in DOMAIN btOut : j < i /\ btOut[j] = BtNull THEN 1 ELSE 0

\* What left, what is queued and what is still to be queued is what the programs
\* chose, in order: no packet is lost, doubled or overtaken, a sentinel or a full
\* buffer included, and packets leave in the order they came.
NothingLost ==
  /\ \A i \in DOMAIN btSent : btSent[i] = btPromised[i]
  /\ \A i \in DOMAIN btOut :
       btOut[i] # BtNull => btOut[i] = btPromised[Len(btSent) + i - Skipped(i)]
  /\ \A i \in DOMAIN btTodo, p \in btPkt :
       btPromised[Len(btPromised) - Len(btTodo) + i] = [id |-> p.id, port |-> btTodo[i]]
  /\ Len(btPromised) = Len(btSent) + Len(btOut) - Skipped(Len(btOut) + 1) + Len(btTodo)
  /\ \A i, j \in DOMAIN btPromised : i < j => btPromised[i].id <= btPromised[j].id

\* No packet is processed with pointers into a configuration that a swap has
\* replaced: the swap waits for the packets, and swap_happened is seen by the
\* first one after it.
PointersAreCurrent == btPc = "push" => btPointers = btConfig

-----------------------------------------------------------------------------
(* Why NothingLost and PointersAreCurrent hold.                            *)
BtPacket == [id : Nat \ {0}, port : Nat]

BtTypes ==
  /\ btTarget \in {"l2_switch", "simple_router", "pna_nic"}
  /\ btMade \in Nat /\ btConfig \in Nat /\ btPointers \in Nat
  /\ btPc \in {"start", "pop", "update", "push", "done"}
  /\ btRecv \subseteq BtPacket /\ btPkt \subseteq BtPacket
  /\ \A p, q \in btRecv : p = q
  /\ \A p \in btRecv : p.id = btMade /\ p.port \in BtPorts
  /\ \A p, q \in btPkt : p = q
  /\ \A p \in btPkt : p.port \in BtPorts
  /\ (btPkt # {}) = (btPc \in {"update", "push"})
  /\ btIn \in Seq(BtPacket \cup {BtNull}) /\ Len(btIn) <= BtInCap
  /\ \A i \in DOMAIN btIn : btIn[i] = BtNull \/ btIn[i].port \in BtPorts
  /\ btOut \in Seq(BtPacket \cup {BtNull}) /\ Len(btOut) <= BtOutCap
  /\ btTodo \in Seq(Nat) /\ (btTodo = <<>>) = (btPc # "push")
  /\ btSent \in Seq(BtPacket) /\ btPromised \in Seq(BtPacket)
  /\ btStop \in {"no", "input", "output", "joined"}

\* The destructor puts one nullptr into the output buffer.
OneSentinel ==
  /\ btStop \in {"no", "input"} => \A i \in DOMAIN btOut : btOut[i] # BtNull
  /\ \A i, j \in DOMAIN btOut : btOut[i] = BtNull /\ btOut[j] = BtNull => i = j

\* Packets are numbered as they come, and stay in that order.
BtOrdered ==
  /\ \A k \in DOMAIN btPromised : btPromised[k].id <= btMade
  /\ \A p \in btPkt : p.id <= btMade /\ \A k \in DOMAIN btPromised : btPromised[k].id <= p.id
  /\ \A i \in DOMAIN btIn : btIn[i] # BtNull =>
       /\ btIn[i].id <= btMade
       /\ \A k \in DOMAIN btPromised : btPromised[k].id < btIn[i].id
       /\ \A p \in btPkt : p.id < btIn[i].id
       /\ \A j \in DOMAIN btIn : i < j /\ btIn[j] # BtNull => btIn[i].id < btIn[j].id
  /\ \A r \in btRecv :
       /\ \A k \in DOMAIN btPromised : btPromised[k].id < r.id
       /\ \A p \in btPkt : p.id < r.id
       /\ \A i \in DOMAIN btIn : btIn[i] # BtNull => btIn[i].id < r.id

\* Pointers that are not current are going to be renewed.
BtPointed ==
  /\ btTarget # "simple_router" => btConfig = 0 /\ btPointers = 0
  /\ btNotified \/ btPointers = btConfig

\* Only simple_router enables swapping.
OnlyRouterSwaps == btSwapping => btTarget = "simple_router"

BtInv ==
  BtTypes /\ OneSentinel /\ BtOrdered /\ NothingLost /\ BtPointed /\ PointersAreCurrent
=============================================================================
