--------------------------- MODULE PacketDebugger ---------------------------
(***************************************************************************)
(* The packet debugger of debugger.cpp.  The threads that process packets  *)
(* call it for every packet that comes in and goes out and for every field *)
(* or control point; a call waits while the client has stopped the switch, *)
(* and stops it when it meets a breakpoint.  A request thread serves one   *)
(* client (p4dbg.py), one request and one reply at a time; the reply to    *)
(* CONTINUE and NEXT is the next event, a KEEP_ALIVE, or the news that the *)
(* configuration has changed.                                              *)
(***************************************************************************)
EXTENDS Integers, Sequences, FiniteSets

CONSTANTS
  DgPackets,      \* the packets: <<packet id, copy id>>
  DgRequests,     \* the requests of the client
  DgMaxRequests,  \* bound: their number
  DgMaxUpdates,   \* bound: the updates of a packet
  DgMaxChanges    \* bound: the changes of configuration

ASSUME DgAssumption == DgMaxUpdates \in Nat

VARIABLES
  dgFlags,        \* can_continue, attached, break_next, break_packet_in, stop_packet_in
  dgWatch,        \* the watchpoint is set
  dgFilter,       \* filter: a set of packets
  dgRegs,         \* packet_registers_map, packet_ctr_stacks: packet -> [known, stack]
  dgReply,        \* reply_ready
  dgReq,          \* the request thread: [pc, type]
  dgPkt,          \* the packets: [pc, n]
  dgFault,        \* an assertion has failed
  dgCount         \* [requests, changes]

dgVars == <<dgFlags, dgWatch, dgFilter, dgRegs, dgReply, dgReq, dgPkt, dgFault, dgCount>>

DgInit ==
  /\ dgFlags = [can_continue |-> TRUE, attached |-> FALSE, break_next |-> FALSE,
                break_packet_in |-> FALSE, stop_packet_in |-> FALSE]
  /\ dgWatch = FALSE /\ dgFilter = {} /\ dgRegs = <<>> /\ dgReply = FALSE
  /\ dgReq = [pc |-> "recv", type |-> "NONE"]
  /\ dgPkt = [p \in DgPackets |-> [pc |-> "none", n |-> 0]]
  /\ dgFault = FALSE /\ dgCount = [requests |-> 0, changes |-> 0]

\* in_filters, packet_ids_count_get
InFilters(p) == dgFilter = {} \/ p \in dgFilter
IdsCount(p) == Cardinality({q \in DOMAIN dgRegs : q[1] = p[1]})

\* notify_all on cvar_continue, on cvar_stop_packet_in
WakeContinue(pkt) ==
  [p \in DgPackets |-> IF pkt[p].pc = "wait continue" THEN [pkt[p] EXCEPT !.pc = "call"] ELSE pkt[p]]
WakeResume(pkt) ==
  [p \in DgPackets |-> IF pkt[p].pc = "wait resume" THEN [pkt[p] EXCEPT !.pc = "call"] ELSE pkt[p]]

\* reset_state: break_next stays.
ResetFlags(flags) == [flags EXCEPT !.break_packet_in = FALSE, !.stop_packet_in = FALSE]

\* send_...: the storage of the reply must be free.
SendReply == dgReply' = TRUE /\ dgFault' = (dgFault \/ dgReply)

-----------------------------------------------------------------------------
(* The packets *)

\* A packet calls the debugger: packet_in_, notify_update_ or notify_ctr_, and
\* packet_out_ at the end.  n counts its calls.
DgCall(p) ==
  /\ dgPkt[p].pc = "none"
  /\ dgPkt' = [dgPkt EXCEPT ![p].pc = "call"]
  /\ UNCHANGED <<dgFlags, dgWatch, dgFilter, dgRegs, dgReply, dgReq, dgFault, dgCount>>

DgReturns(p) ==
  dgPkt' = [dgPkt EXCEPT ![p] = [pc |-> IF @.n = DgMaxUpdates + 1 THEN "gone" ELSE "none",
                                 n |-> @.n + 1]]

\* wait_for_continue, wait_for_resume_packet_in: a packet of an id that is not
\* in the switch waits also while packets may not come in.
DgWait(p) ==
  /\ dgPkt[p].pc = "call"
  /\ \/ ~dgFlags.can_continue /\ dgPkt' = [dgPkt EXCEPT ![p].pc = "wait continue"]
     \/ /\ dgFlags.can_continue /\ dgPkt[p].n = 0 /\ IdsCount(p) = 0 /\ dgFlags.stop_packet_in
        /\ dgPkt' = [dgPkt EXCEPT ![p].pc = "wait resume"]
  /\ UNCHANGED <<dgFlags, dgWatch, dgFilter, dgRegs, dgReply, dgReq, dgFault, dgCount>>

\* The switch stops, and the client is told.
DgBreak(hit) ==
  IF hit THEN /\ dgFlags' = [dgFlags EXCEPT !.can_continue = FALSE, !.break_next = FALSE]
              /\ SendReply
  ELSE UNCHANGED <<dgFlags, dgReply, dgFault>>

PacketIn(p) ==
  /\ dgPkt[p].pc = "call" /\ dgPkt[p].n = 0
  /\ dgFlags.can_continue /\ (~dgFlags.stop_packet_in \/ IdsCount(p) > 0)
  /\ dgRegs' = [q \in DOMAIN dgRegs \cup {p} |->
                  IF q = p THEN [known |-> FALSE, stack |-> 0] ELSE dgRegs[q]]
  /\ DgBreak(InFilters(p) /\ (dgFlags.break_next \/ dgFlags.break_packet_in))
  /\ DgReturns(p)
  /\ UNCHANGED <<dgWatch, dgFilter, dgReq, dgCount>>

\* notify_update_ of a field, notify_ctr_ on entering and leaving a control
\* point, both through notify_update_generic.
NotifyUpdate(p) ==
  /\ dgPkt[p].pc = "call" /\ dgPkt[p].n \in 1..DgMaxUpdates /\ dgFlags.can_continue
  /\ \/ dgRegs' = [dgRegs EXCEPT ![p].known = TRUE]
     \/ dgRegs' = [dgRegs EXCEPT ![p].stack = 1 - @]
  /\ DgBreak(InFilters(p) /\ (dgFlags.break_next \/ dgWatch))
  /\ DgReturns(p)
  /\ UNCHANGED <<dgWatch, dgFilter, dgReq, dgCount>>

PacketOut(p) ==
  /\ dgPkt[p].pc = "call" /\ dgPkt[p].n = DgMaxUpdates + 1 /\ dgFlags.can_continue
  /\ dgRegs' = [q \in DOMAIN dgRegs \ {p} |-> dgRegs[q]]
  /\ DgReturns(p)
  /\ UNCHANGED <<dgFlags, dgWatch, dgFilter, dgReply, dgReq, dgFault, dgCount>>

\* A packet has no PHV: it has not come, or its destructor has released the PHV
\* and is about to call packet_out_.
NoPhv(p) == (dgPkt[p].n = 0 /\ dgPkt[p].pc = "none") \/ dgPkt[p].n > DgMaxUpdates

\* config_change_, called by do_swap with no PHV in use; the reply waits for the
\* request thread to look, and packets go on.
ConfigChange ==
  /\ \A p \in DgPackets : NoPhv(p)
  /\ dgCount.changes < DgMaxChanges
  /\ dgFlags.attached /\ dgFlags.can_continue
  /\ dgCount' = [dgCount EXCEPT !.changes = @ + 1]
  /\ dgFlags' = ResetFlags(dgFlags) /\ dgWatch' = FALSE /\ dgFilter' = {}
  /\ SendReply
  /\ UNCHANGED <<dgRegs, dgReq, dgPkt>>

-----------------------------------------------------------------------------
(* The request thread *)

\* request_in: a request of the client, which attaches before anything else.
RequestIn(type) ==
  /\ dgReq.pc = "recv" /\ dgCount.requests < DgMaxRequests
  /\ type = "ATTACH" \/ dgFlags.attached
  /\ dgCount' = [dgCount EXCEPT !.requests = @ + 1]
  /\ dgReply' = FALSE
  /\ dgReq' = [pc |-> "dispatch", type |-> type]
  /\ UNCHANGED <<dgFlags, dgWatch, dgFilter, dgRegs, dgPkt, dgFault>>

\* The handler of a request, under the mutex: the flags after it, who is woken
\* and whether it replies at once.
Handler(flags, pkt, replies) ==
  /\ dgReq.pc = "dispatch" /\ dgReq' = [dgReq EXCEPT !.pc = "reply"]
  /\ dgFlags' = flags /\ dgPkt' = pkt
  /\ IF replies THEN SendReply ELSE UNCHANGED <<dgReply, dgFault>>
  /\ UNCHANGED <<dgRegs, dgCount>>

ReqContinue ==
  /\ dgReq.type = "CONTINUE"
  /\ Handler([dgFlags EXCEPT !.can_continue = TRUE], WakeContinue(dgPkt), FALSE)
  /\ UNCHANGED <<dgWatch, dgFilter>>

ReqNext ==
  /\ dgReq.type = "NEXT"
  /\ Handler([dgFlags EXCEPT !.can_continue = TRUE, !.break_next = TRUE], WakeContinue(dgPkt), FALSE)
  /\ UNCHANGED <<dgWatch, dgFilter>>

\* req_get_value, req_get_backtrace: a value, or the status that says that there
\* is no such packet or value.
ReqGetValue ==
  /\ dgReq.type = "GET_VALUE"
  /\ Handler(dgFlags, dgPkt, TRUE) /\ UNCHANGED <<dgWatch, dgFilter>>
ReqGetBacktrace ==
  /\ dgReq.type = "GET_BACKTRACE"
  /\ Handler(dgFlags, dgPkt, TRUE) /\ UNCHANGED <<dgWatch, dgFilter>>

ReqBreakPacketIn ==
  /\ dgReq.type = "BREAK_PACKET_IN"
  /\ Handler([dgFlags EXCEPT !.break_packet_in = TRUE], dgPkt, TRUE)
  /\ UNCHANGED <<dgWatch, dgFilter>>
ReqRemovePacketIn ==
  /\ dgReq.type = "REMOVE_PACKET_IN"
  /\ Handler([dgFlags EXCEPT !.break_packet_in = FALSE], dgPkt, TRUE)
  /\ UNCHANGED <<dgWatch, dgFilter>>
ReqStopPacketIn ==
  /\ dgReq.type = "STOP_PACKET_IN"
  /\ Handler([dgFlags EXCEPT !.stop_packet_in = TRUE], dgPkt, TRUE)
  /\ UNCHANGED <<dgWatch, dgFilter>>
ReqResume ==
  /\ dgReq.type = "RESUME_PACKET_IN"
  /\ Handler([dgFlags EXCEPT !.stop_packet_in = FALSE], WakeResume(dgPkt), TRUE)
  /\ UNCHANGED <<dgWatch, dgFilter>>

ReqFilter ==
  /\ dgReq.type = "FILTER_NOTIFICATIONS"
  /\ \E p \in DgPackets : dgFilter' \in {{}, {p}, {q \in DgPackets : q[1] = p[1]}}
  /\ Handler(dgFlags, dgPkt, TRUE) /\ UNCHANGED dgWatch

ReqSetWatchpoint ==
  /\ dgReq.type = "SET_WATCHPOINT" /\ dgWatch' = TRUE
  /\ Handler(dgFlags, dgPkt, TRUE) /\ UNCHANGED dgFilter
ReqUnsetWatchpoint ==
  /\ dgReq.type = "UNSET_WATCHPOINT" /\ dgWatch' = FALSE
  /\ Handler(dgFlags, dgPkt, TRUE) /\ UNCHANGED dgFilter

ReqReset ==
  /\ dgReq.type = "RESET"
  /\ dgWatch' = FALSE /\ dgFilter' = {}
  /\ Handler(ResetFlags(dgFlags), WakeResume(dgPkt), TRUE)

\* A mutation of ReqAttach: the switch goes on.
ReqAttachRunning ==
  /\ dgReq.type = "ATTACH"
  /\ IF dgFlags.attached THEN Handler(dgFlags, dgPkt, TRUE) /\ UNCHANGED <<dgWatch, dgFilter>>
     ELSE /\ dgWatch' = FALSE /\ dgFilter' = {}
          /\ Handler([ResetFlags(dgFlags) EXCEPT !.attached = TRUE], WakeResume(dgPkt), TRUE)

ReqAttach ==
  /\ dgReq.type = "ATTACH"
  /\ IF dgFlags.attached THEN Handler(dgFlags, dgPkt, TRUE) /\ UNCHANGED <<dgWatch, dgFilter>>
     ELSE /\ dgWatch' = FALSE /\ dgFilter' = {}
          /\ Handler([ResetFlags(dgFlags) EXCEPT !.attached = TRUE, !.can_continue = FALSE],
                     WakeResume(dgPkt), TRUE)

ReqDetach ==
  /\ dgReq.type = "DETACH"
  /\ dgWatch' = FALSE /\ dgFilter' = {}
  /\ Handler([ResetFlags(dgFlags) EXCEPT !.attached = FALSE, !.can_continue = TRUE],
             WakeContinue(WakeResume(dgPkt)), TRUE)

\* request_in: the reply goes out; after about 90 ms without one the switch is
\* stopped and the reply is a KEEP_ALIVE.
SendToClient ==
  /\ dgReq.pc = "reply" /\ dgReply
  /\ dgReq' = [pc |-> "recv", type |-> "NONE"]
  /\ UNCHANGED <<dgFlags, dgWatch, dgFilter, dgRegs, dgReply, dgPkt, dgFault, dgCount>>

KeepAlive ==
  /\ dgReq.pc = "reply" /\ ~dgReply
  /\ dgFlags' = [dgFlags EXCEPT !.can_continue = FALSE, !.break_next = FALSE]
  /\ SendReply
  /\ UNCHANGED <<dgWatch, dgFilter, dgRegs, dgReq, dgPkt, dgCount>>

DgNext ==
  \/ \E p \in DgPackets : DgCall(p) \/ DgWait(p) \/ PacketIn(p) \/ NotifyUpdate(p) \/ PacketOut(p)
  \/ ConfigChange
  \/ \E type \in DgRequests : RequestIn(type)
  \/ ReqContinue \/ ReqNext \/ ReqGetValue \/ ReqGetBacktrace
  \/ ReqBreakPacketIn \/ ReqRemovePacketIn \/ ReqStopPacketIn \/ ReqResume
  \/ ReqFilter \/ ReqSetWatchpoint \/ ReqUnsetWatchpoint \/ ReqReset \/ ReqAttach \/ ReqDetach
  \/ SendToClient \/ KeepAlive

DgSpec == DgInit /\ [][DgNext]_dgVars

-----------------------------------------------------------------------------
DgTypeOK ==
  /\ DOMAIN dgRegs \subseteq DgPackets /\ dgFilter \subseteq DgPackets
  /\ \A p \in DgPackets : dgPkt[p].pc \in {"none", "call", "wait continue", "wait resume", "gone"}
  /\ dgReq.pc \in {"recv", "dispatch", "reply"}

\* As long as the configuration has not changed: no event of a packet and no
\* answer to a request overwrites a reply that has not been sent (the assertion
\* of every send_... function), whichever of the packets, the client and the
\* KEEP_ALIVE timer comes first; an attached client that is not waiting for an
\* event has stopped the switch; and no packet sleeps through a wake-up.
OneReplyPerRequest ==
  /\ dgCount.changes = 0 =>
       /\ ~dgFault
       /\ dgFlags.attached /\ dgReq.pc = "recv" => ~dgFlags.can_continue
  /\ \A p \in DgPackets :
       /\ dgPkt[p].pc = "wait continue" => ~dgFlags.can_continue
       /\ dgPkt[p].pc = "wait resume" => dgFlags.stop_packet_in

\* The client and the packet threads keep in step, one reply per request
\* (debugger.cpp).
DebuggerSound == DgTypeOK /\ OneReplyPerRequest

-----------------------------------------------------------------------------
(* The inductive invariant behind DebuggerSound.                           *)

DgTypes ==
  /\ DgTypeOK
  /\ dgFlags \in [can_continue : BOOLEAN, attached : BOOLEAN, break_next : BOOLEAN,
                  break_packet_in : BOOLEAN, stop_packet_in : BOOLEAN]
  /\ dgWatch \in BOOLEAN /\ dgReply \in BOOLEAN /\ dgFault \in BOOLEAN
  /\ dgReq \in [pc : {"recv", "dispatch", "reply"}, type : DgRequests \cup {"NONE"}]
  /\ dgPkt \in [DgPackets -> [pc : {"none", "call", "wait continue", "wait resume", "gone"},
                              n : Nat]]
  /\ dgCount \in [requests : Nat, changes : Nat]

\* Without a client nothing can break; with one the switch runs only while the
\* request thread waits for the event that will be the reply.
InStep ==
  /\ ~dgFault
  /\ ~dgFlags.attached =>
       /\ ~dgWatch /\ ~dgFlags.break_packet_in /\ ~dgFlags.break_next
       /\ dgReq.pc = "dispatch" => dgReq.type = "ATTACH"
       /\ dgReq.pc = "reply" => dgReply
  /\ dgFlags.attached /\ dgFlags.can_continue => dgReq.pc = "reply" /\ ~dgReply
  /\ dgReq.pc = "dispatch" => ~dgReply
  /\ dgFlags.break_next => dgFlags.can_continue

\* Who waits has something to wait for.
NobodyAsleep ==
  \A p \in DgPackets :
    /\ dgPkt[p].pc = "wait continue" => ~dgFlags.can_continue
    /\ dgPkt[p].pc = "wait resume" => dgFlags.stop_packet_in /\ dgPkt[p].n = 0

DgInv == DgTypes /\ (dgCount.changes = 0 => InStep) /\ NobodyAsleep
=============================================================================
