---------------------------- MODULE SimpleSwitch ----------------------------
(***************************************************************************)
(* The packet path of targets/simple_switch: the two-level input buffer,   *)
(* the ingress thread, the traffic manager, the egress buffers and the     *)
(* egress threads, the output buffer and the transmit thread, and the      *)
(* destructor that stops the threads with sentinels.                       *)
(*                                                                         *)
(* The traffic manager is the FIFO of TmFifo, which TrafficManager is      *)
(* proved to implement, with its blocking capacity.  The P4 program is a   *)
(* free choice of what happens to each packet.  A thread that handles a    *)
(* packet works off a list of calls (todo), because each of them may block *)
(* or fail on its own.  Every queue here waits in a loop under its mutex   *)
(* and is notified after each change, so a wait is a guard.                *)
(***************************************************************************)
EXTENDS Integers, Sequences, FiniteSets

CONSTANTS
  NbPkts,       \* packets the devices deliver
  NbEgress,     \* nb_egress_threads (4)
  Ports,        \* egress ports in use
  CapHi, CapLo, \* InputBuffer capacities (1024)
  TmCap,        \* packets per port in the traffic manager (1024)
  EgressCap,    \* packets per port in egress_buffers (64)
  OutCap,       \* output_buffer capacity (128)
  NbQueues,     \* nb_queues_per_port
  McastPorts,   \* what pre->replicate returns for the group in use
  Sessions,     \* configurations of the mirroring session in use
  MaxCopies     \* bound on the copies the P4 program makes

NoPort == -1
NoSession == [mgid_valid |-> FALSE, egress_port |-> NoPort]

ASSUME SwitchAssumption ==
  /\ NbPkts \in Nat
  /\ {NbEgress, CapHi, CapLo, TmCap, EgressCap, OutCap, NbQueues} \subseteq Nat \ {0}
  /\ 0..NbEgress - 1 \subseteq Ports /\ Ports \subseteq Nat
  /\ McastPorts \in Seq(Ports)
  /\ Sessions \subseteq [mgid_valid : BOOLEAN, egress_port : Ports \cup {NoPort}]
  /\ MaxCopies \in Nat

SwWorkers == 0 .. NbEgress - 1
Ingress == NbEgress             \* the ingress thread, next to the egress ones
Threads == 0 .. NbEgress

\* EgressThreadMapper, and the traffic manager's mapper
EgressThreadMapper(port) == port % NbEgress

\* A packet: its packet_id, instance_type, egress_port, and whether it was
\* resubmitted or recirculated on its way.
Types == {"NORMAL", "INGRESS_CLONE", "EGRESS_CLONE", "RECIRC", "REPLICATION", "RESUBMIT"}
Packet == [id : 1..NbPkts, type : Types, port : Ports \cup {NoPort}, again : BOOLEAN]
Sentinel == [id |-> 0, type |-> "NORMAL", port |-> NoPort, again |-> FALSE]
Call(op, pkt) == [op |-> op, pkt |-> pkt]

VARIABLES
  received,             \* packets delivered by the devices so far
  queue_hi, queue_lo,   \* InputBuffer, oldest first
  todo,                 \* per thread: the calls it has still to make
  exited,               \* ingress and egress threads that left their loop
  tm,                   \* per worker: packets in the traffic manager
  egress_buffers,       \* per port: its queue, oldest first
  output_buffer, transmit_exited,
  sent,                 \* history: per port, the packets transmitted that went
                        \* straight through (no copy, no second pass)
  session,              \* configuration of the mirroring session
  copies,               \* copies made so far
  down                  \* progress of ~SimpleSwitch, 0 when not called

inVars == <<queue_hi, queue_lo>>
outVars == <<output_buffer, transmit_exited, sent>>

swVars == <<received, inVars, todo, exited, tm, egress_buffers, outVars, session,
          copies, down>>

\* ~SimpleSwitch: 1 the ingress sentinel, 2 .. NbEgress + 1 the egress
\* sentinels, then the output sentinel, then the joins.
OutputStage == NbEgress + 2
JoinStage == NbEgress + 3

\* Types, and the capacities nobody may exceed.
SwTypeOK ==
  /\ received \in 0..NbPkts
  /\ queue_hi \in Seq(Packet \cup {Sentinel}) /\ Len(queue_hi) <= CapHi
  /\ queue_lo \in Seq(Packet) /\ Len(queue_lo) <= CapLo
  /\ todo \in [Threads -> Seq([op : {"enqueue", "input", "output"}, pkt : Packet])]
  /\ exited \subseteq Threads
  /\ tm \in [SwWorkers -> Seq(Packet)]
  /\ egress_buffers \in [Ports -> Seq(Packet \cup {Sentinel})]
  /\ \A p \in Ports : Len(egress_buffers[p]) <= EgressCap
  /\ output_buffer \in Seq(Packet \cup {Sentinel}) /\ Len(output_buffer) <= OutCap
  /\ transmit_exited \in BOOLEAN
  /\ sent \in [Ports -> Seq(1..NbPkts)]
  /\ session \in Sessions \cup {NoSession}
  /\ copies \in 0..MaxCopies
  /\ down \in 0..JoinStage

SwInit ==
  /\ received = 0
  /\ queue_hi = <<>> /\ queue_lo = <<>>
  /\ todo = [t \in Threads |-> <<>>]
  /\ exited = {}
  /\ tm = [w \in SwWorkers |-> <<>>]
  /\ egress_buffers = [p \in Ports |-> <<>>]
  /\ output_buffer = <<>> /\ transmit_exited = FALSE
  /\ sent = [p \in Ports |-> <<>>]
  /\ session = NoSession
  /\ copies = 0
  /\ down = 0

-----------------------------------------------------------------------------
(* InputBuffer::push_front; the new tail of the queue *)
PushLo(pkt) == Append(queue_lo, pkt)
PushHi(pkt) == Append(queue_hi, pkt)

\* receive_: the packet enters the low-priority queue, which blocks.
Receive ==
  /\ received < NbPkts
  /\ Len(queue_lo) < CapLo
  /\ received' = received + 1
  /\ queue_lo' = PushLo([id |-> received + 1, type |-> "NORMAL",
                         port |-> NoPort, again |-> FALSE])
  /\ UNCHANGED <<queue_hi, todo, exited, tm, egress_buffers, outVars, session,
                 copies, down>>

\* mirroring_add_session and mirroring_delete_session
MirroringSession(s) ==
  /\ session # s
  /\ session' = s
  /\ UNCHANGED <<received, inVars, todo, exited, tm, egress_buffers, outVars,
                 copies, down>>

-----------------------------------------------------------------------------
(* What the P4 program makes a thread do with a packet.                    *)

\* multicast: one copy per port of the group
Multicast(pkt) ==
  [i \in DOMAIN McastPorts |-> Call("enqueue", [pkt EXCEPT !.port = McastPorts[i]])]

\* Cloning: nothing when the session is not configured.
Clone(pkt) ==
  (IF session.mgid_valid THEN Multicast(pkt) ELSE <<>>)
  \o (IF session.egress_port = NoPort THEN <<>>
      ELSE <<Call("enqueue", [pkt EXCEPT !.port = session.egress_port])>>)

\* Some calls first and then some others.
Then(first, second) == {c \o m : c \in first, m \in second}

\* ingress_thread: resubmit, multicast, drop or unicast
IngressMains(pkt) ==
  {<<Call("input", [pkt EXCEPT !.type = "RESUBMIT", !.again = TRUE])>>,
   Multicast([pkt EXCEPT !.type = "REPLICATION"]),
   <<>>}
  \cup {<<Call("enqueue", [pkt EXCEPT !.type = "NORMAL", !.port = p])>> : p \in Ports}

\* ingress_thread: clone or not, and then
IngressCalls(pkt) ==
  Then({<<>>, Clone([pkt EXCEPT !.type = "INGRESS_CLONE"])}, IngressMains(pkt))

\* egress_thread: drop, recirculate or output
EgressMains(pkt) ==
  {<<>>,
   <<Call("input", [pkt EXCEPT !.type = "RECIRC", !.again = TRUE])>>,
   <<Call("output", pkt)>>}

\* egress_thread: clone or not, and then
EgressCalls(pkt) ==
  Then({<<>>, Clone([pkt EXCEPT !.type = "EGRESS_CLONE"])}, EgressMains(pkt))

\* Calls that make a packet out of another one: bounded by MaxCopies.
NewCopies(calls) ==
  Cardinality({i \in DOMAIN calls :
    \/ calls[i].op = "input"
    \/ calls[i].op = "enqueue" /\ calls[i].pkt.type # "NORMAL"})

Handle(t, allowed) ==
  \E calls \in allowed :
    /\ copies + NewCopies(calls) <= MaxCopies
    /\ copies' = copies + NewCopies(calls)
    /\ todo' = [todo EXCEPT ![t] = calls]

\* The ingress thread takes a packet, from the high-priority queue first.
IngressPop ==
  LET hi == queue_hi # <<>>
      pkt == IF hi THEN Head(queue_hi) ELSE Head(queue_lo)
  IN
  /\ Ingress \notin exited
  /\ todo[Ingress] = <<>>
  /\ hi \/ queue_lo # <<>>
  /\ queue_hi' = IF hi THEN Tail(queue_hi) ELSE queue_hi
  /\ queue_lo' = IF hi THEN queue_lo ELSE Tail(queue_lo)
  /\ \/ /\ pkt = Sentinel
        /\ exited' = exited \cup {Ingress}
        /\ UNCHANGED <<todo, copies>>
     \/ /\ pkt # Sentinel
        /\ Handle(Ingress, IngressCalls(pkt))
        /\ UNCHANGED exited
  /\ UNCHANGED <<received, tm, egress_buffers, outVars, session, down>>

\* Mutant: an egress thread takes packets of every port.
EgressPopAnyPort(w, p) ==
  LET pkt == Head(egress_buffers[p])
  IN
  /\ w \notin exited
  /\ todo[w] = <<>>
  /\ egress_buffers[p] # <<>>
  /\ egress_buffers' = [egress_buffers EXCEPT ![p] = Tail(@)]
  /\ \/ /\ pkt = Sentinel
        /\ exited' = exited \cup {w}
        /\ UNCHANGED <<todo, copies>>
     \/ /\ pkt # Sentinel
        /\ Handle(w, EgressCalls(pkt))
        /\ UNCHANGED exited
  /\ UNCHANGED <<received, inVars, tm, outVars, session, down>>

\* An egress thread takes a packet of one of its ports.  Rate limits decide
\* between ports; the packets of one port are served in order.
EgressPop(w, p) ==
  LET pkt == Head(egress_buffers[p])
  IN
  /\ w \notin exited
  /\ todo[w] = <<>>
  /\ EgressThreadMapper(p) = w
  /\ egress_buffers[p] # <<>>
  /\ egress_buffers' = [egress_buffers EXCEPT ![p] = Tail(@)]
  /\ \/ /\ pkt = Sentinel
        /\ exited' = exited \cup {w}
        /\ UNCHANGED <<todo, copies>>
     \/ /\ pkt # Sentinel
        /\ Handle(w, EgressCalls(pkt))
        /\ UNCHANGED exited
  /\ UNCHANGED <<received, inVars, tm, outVars, session, down>>

-----------------------------------------------------------------------------
(* The calls.                                                              *)

\* packets of one port in the traffic manager
InTm(port) ==
  LET q == tm[EgressThreadMapper(port)]
  IN  Cardinality({i \in DOMAIN q : q[i].port = port})

\* enqueue: a priority that is out of range drops the packet; else it goes
\* to the traffic manager, which blocks while the port's queue is full.
Enqueue(t) ==
  LET pkt == Head(todo[t]).pkt
      w == EgressThreadMapper(pkt.port)
  IN
  /\ todo[t] # <<>>
  /\ Head(todo[t]).op = "enqueue"
  /\ \E priority \in 0..NbQueues :
       \/ priority >= NbQueues /\ UNCHANGED tm
       \/ /\ priority < NbQueues
          /\ InTm(pkt.port) < TmCap
          /\ tm' = [tm EXCEPT ![w] = Append(@, pkt)]
  /\ todo' = [todo EXCEPT ![t] = Tail(@)]
  /\ UNCHANGED <<received, inVars, exited, egress_buffers, outVars, session,
                 copies, down>>

\* Mutant: resubmit and recirculate wait for room, as received packets do.
PushInputBlocking(t) ==
  /\ todo[t] # <<>>
  /\ Head(todo[t]).op = "input"
  /\ Len(queue_hi) < CapHi
  /\ queue_hi' = PushHi(Head(todo[t]).pkt)
  /\ todo' = [todo EXCEPT ![t] = Tail(@)]
  /\ UNCHANGED <<received, queue_lo, exited, tm, egress_buffers, outVars,
                 session, copies, down>>

\* Resubmit and recirculate: the packet is dropped when the queue is full.
PushInput(t) ==
  /\ todo[t] # <<>>
  /\ Head(todo[t]).op = "input"
  /\ queue_hi' = IF Len(queue_hi) = CapHi THEN queue_hi ELSE PushHi(Head(todo[t]).pkt)
  /\ todo' = [todo EXCEPT ![t] = Tail(@)]
  /\ UNCHANGED <<received, queue_lo, exited, tm, egress_buffers, outVars,
                 session, copies, down>>

\* output_buffer.push_front blocks while the queue is full.
PushOutput(t) ==
  /\ todo[t] # <<>>
  /\ Head(todo[t]).op = "output"
  /\ Len(output_buffer) < OutCap
  /\ output_buffer' = Append(output_buffer, Head(todo[t]).pkt)
  /\ todo' = [todo EXCEPT ![t] = Tail(@)]
  /\ UNCHANGED <<received, inVars, exited, tm, egress_buffers,
                 transmit_exited, sent, session, copies, down>>

\* The traffic manager releases the oldest packet of a worker to the egress
\* buffers, which drop it when the port's queue is full.
TmRelease(w) ==
  LET pkt == Head(tm[w])
      full == Len(egress_buffers[pkt.port]) >= EgressCap
  IN
  /\ tm[w] # <<>>
  /\ tm' = [tm EXCEPT ![w] = Tail(@)]
  /\ egress_buffers' = IF full THEN egress_buffers
                       ELSE [egress_buffers EXCEPT ![pkt.port] = Append(@, pkt)]
  /\ UNCHANGED <<received, inVars, todo, exited, outVars, session, copies, down>>

\* transmit_thread
Transmit ==
  LET pkt == Head(output_buffer)
  IN
  /\ ~transmit_exited
  /\ output_buffer # <<>>
  /\ output_buffer' = Tail(output_buffer)
  /\ transmit_exited' = (pkt = Sentinel)
  /\ sent' = IF pkt = Sentinel \/ pkt.type # "NORMAL" \/ pkt.again THEN sent
             ELSE [sent EXCEPT ![pkt.port] = Append(@, pkt.id)]
  /\ UNCHANGED <<received, inVars, todo, exited, tm, egress_buffers, session,
                 copies, down>>

-----------------------------------------------------------------------------
(* ~SimpleSwitch.                                                          *)

SwDestroy ==
  /\ down = 0
  /\ down' = 1
  /\ UNCHANGED <<received, inVars, todo, exited, tm, egress_buffers, outVars,
                 session, copies>>

\* The ingress sentinel: a blocking push to the high-priority queue.
DestroyInput ==
  /\ down = 1
  /\ Len(queue_hi) < CapHi
  /\ queue_hi' = PushHi(Sentinel)
  /\ down' = 2
  /\ UNCHANGED <<received, queue_lo, todo, exited, tm, egress_buffers, outVars,
                 session, copies>>

\* Mutant: one attempt to push the sentinel, whether it is queued or not.
DestroyEgressOnce ==
  LET i == down - 2
  IN
  /\ i \in SwWorkers
  /\ egress_buffers' = IF Len(egress_buffers[i]) >= EgressCap THEN egress_buffers
                       ELSE [egress_buffers EXCEPT ![i] = Append(@, Sentinel)]
  /\ down' = down + 1
  /\ UNCHANGED <<received, inVars, todo, exited, tm, outVars, session, copies>>

\* The sentinel of egress thread i, pushed until port i's queue has room.
DestroyEgress ==
  LET i == down - 2
  IN
  /\ i \in SwWorkers
  /\ Len(egress_buffers[i]) < EgressCap
  /\ egress_buffers' = [egress_buffers EXCEPT ![i] = Append(@, Sentinel)]
  /\ down' = down + 1
  /\ UNCHANGED <<received, inVars, todo, exited, tm, outVars, session, copies>>

\* The output sentinel: a blocking push.
DestroyOutput ==
  /\ down = OutputStage
  /\ Len(output_buffer) < OutCap
  /\ output_buffer' = Append(output_buffer, Sentinel)
  /\ down' = JoinStage
  /\ UNCHANGED <<received, inVars, todo, exited, tm, egress_buffers,
                 transmit_exited, sent, session, copies>>

-----------------------------------------------------------------------------
IngressStep == IngressPop \/ Enqueue(Ingress) \/ PushInput(Ingress)
EgressStep(w) ==
  \/ \E p \in Ports : EgressPop(w, p)
  \/ Enqueue(w) \/ PushInput(w) \/ PushOutput(w)
DestroyStep == DestroyInput \/ DestroyEgress \/ DestroyOutput

SwNext ==
  \/ Receive
  \/ \E s \in Sessions \cup {NoSession} : MirroringSession(s)
  \/ IngressStep
  \/ \E w \in SwWorkers : EgressStep(w) \/ TmRelease(w)
  \/ Transmit
  \/ SwDestroy
  \/ DestroyStep

\* What TrafficManager's EventuallyReleased promises, barring the lost
\* notification and the lost task it names: every worker is served.
TmServes == \A w \in SwWorkers : WF_swVars(TmRelease(w))

\* Every thread runs as long as it can, and the traffic manager serves.
\* Packets, sessions and the destruction are not promised.
SwFairness ==
  /\ WF_swVars(IngressStep)
  /\ \A w \in SwWorkers : WF_swVars(EgressStep(w))
  /\ TmServes
  /\ WF_swVars(Transmit)
  /\ WF_swVars(DestroyStep)

SwSpec == SwInit /\ [][SwNext]_swVars
SwFairSpec == SwSpec /\ SwFairness

-----------------------------------------------------------------------------
(* Properties.                                                             *)

\* The unicast packets of one port are transmitted in the order in which
\* they were received, and once: four threads per packet and packets in
\* every stage do not reorder a port.
InOrder ==
  \A p \in Ports : \A i, j \in DOMAIN sent[p] : i < j => sent[p][i] < sent[p][j]

InFlight(id) ==
  LET here(s) == \E i \in DOMAIN s : s[i].id = id
  IN  \/ here(queue_hi) \/ here(queue_lo) \/ here(output_buffer)
      \/ \E t \in Threads : \E i \in DOMAIN todo[t] : todo[t][i].pkt.id = id
      \/ \E w \in SwWorkers : here(tm[w])
      \/ \E p \in Ports : here(egress_buffers[p])

\* "in order to make sure the ingress thread cannot deadlock": whatever
\* loops a packet and its copies take through the queues, all of them leave
\* the switch or are dropped, unless the switch is destroyed.
EventuallyOut ==
  \A id \in 1..NbPkts : InFlight(id) ~> (~InFlight(id) \/ down > 0)

\* Once ~SimpleSwitch has been called every thread ends, so that the joins
\* return, unless an egress thread is left with a full output buffer that
\* the transmit thread has stopped emptying.
Stopped == exited = Threads /\ transmit_exited
OutputStuck == transmit_exited /\ Len(output_buffer) = OutCap
EventuallyStopped == down > 0 ~> (Stopped \/ OutputStuck)

\* The comment in ~SimpleSwitch: once the ingress thread has been sent its
\* sentinel, "only egress clones can be sent to the buffer".
OnlyEgressClones ==
  [][down >= 2 =>
       \A p \in Ports :
         Len(egress_buffers'[p]) > Len(egress_buffers[p]) =>
           LET new == egress_buffers'[p][Len(egress_buffers'[p])]
           IN  new = Sentinel \/ new.type = "EGRESS_CLONE"]_swVars

\* The packets of a port stay in order through every stage of the switch.
PathsInOrder == SwTypeOK /\ InOrder

-----------------------------------------------------------------------------
(* The inductive invariant behind PathsInOrder.                            *)

\* A packet on its first way through the switch, which is no copy of another.
Straight(pkt) == pkt.id # 0 /\ pkt.type = "NORMAL" /\ ~pkt.again

\* The straight packets of port p in a queue: their ids, and that they are in
\* the order of their ids.
StraightIds(s, p) ==
  {s[i].id : i \in {j \in DOMAIN s : Straight(s[j]) /\ s[j].port = p}}
Increasing(s, p) ==
  \A i, j \in DOMAIN s :
    /\ i < j /\ Straight(s[i]) /\ Straight(s[j]) /\ s[i].port = p /\ s[j].port = p
    => s[i].id < s[j].id

\* The same of the calls a thread has still to make.
CallIds(calls, p) ==
  {calls[i].pkt.id : i \in {j \in DOMAIN calls :
                              Straight(calls[j].pkt) /\ calls[j].pkt.port = p}}

Before(A, B) == \A a \in A, b \in B : a < b

\* Seven stages from the wire back to the wire, and no id above n.
StagesInOrder(out, buf, eth, egr, man, ing, in, n) ==
  /\ Before(out, buf) /\ Before(out \cup buf, eth)
  /\ Before(out \cup buf \cup eth, egr)
  /\ Before(out \cup buf \cup eth \cup egr, man)
  /\ Before(out \cup buf \cup eth \cup egr \cup man, ing)
  /\ Before(out \cup buf \cup eth \cup egr \cup man \cup ing, in)
  /\ out \cup buf \cup eth \cup egr \cup man \cup ing \cup in \subseteq 1..n

\* Where each queue and each thread takes its packets from.
QueuesRouted ==
  /\ \A i \in DOMAIN queue_hi : queue_hi[i] = Sentinel \/ queue_hi[i].again
  /\ \A i \in DOMAIN queue_lo : Straight(queue_lo[i]) /\ queue_lo[i].port = NoPort
  /\ \A w \in SwWorkers : \A i \in DOMAIN tm[w] :
       tm[w][i].port \in Ports /\ EgressThreadMapper(tm[w][i].port) = w
  /\ \A p \in Ports : \A i \in DOMAIN egress_buffers[p] :
       egress_buffers[p][i] = Sentinel \/ egress_buffers[p][i].port = p
  /\ \A i \in DOMAIN output_buffer :
       output_buffer[i] = Sentinel \/ output_buffer[i].port \in Ports

\* A thread has one straight packet at most, and it is the one it handles.
CallOK(t, call) ==
  /\ call.op = "input" => call.pkt.again
  /\ call.op # "input" => call.pkt.port \in Ports
  /\ Straight(call.pkt) =>
       \/ t = Ingress /\ call.op = "enqueue"
       \/ t # Ingress /\ call.op = "output" /\ EgressThreadMapper(call.pkt.port) = t
CallsOK(t, calls) ==
  /\ \A i \in DOMAIN calls : CallOK(t, calls[i])
  /\ \A i, j \in DOMAIN calls : Straight(calls[i].pkt) /\ Straight(calls[j].pkt) => i = j
CallsRouted == \A t \in Threads : CallsOK(t, todo[t])

\* Every queue a port's packets pass has them in order, and so have the stages.
PortInOrder(p) ==
  LET w == EgressThreadMapper(p)
  IN  /\ Increasing(queue_lo, NoPort) /\ Increasing(tm[w], p)
      /\ Increasing(egress_buffers[p], p) /\ Increasing(output_buffer, p)
      /\ StagesInOrder({sent[p][i] : i \in DOMAIN sent[p]}, StraightIds(output_buffer, p),
           CallIds(todo[w], p), StraightIds(egress_buffers[p], p), StraightIds(tm[w], p),
           CallIds(todo[Ingress], p), StraightIds(queue_lo, NoPort), received)

PathInv ==
  SwTypeOK /\ QueuesRouted /\ CallsRouted /\ InOrder /\ \A p \in Ports : PortInOrder(p)
=============================================================================
