----------------------------- MODULE PacketPipe -----------------------------
(***************************************************************************)
(* Ports and packets over a message socket: the packet-in device manager   *)
(* (dev_mgr_packet_in.cpp) with its passive port monitor, and the          *)
(* PacketInject application (packet_pipe.cpp) at the other end.  The peer  *)
(* adds, removes and sets ports with messages, on the same socket as its   *)
(* packets; ports are enforced.  The runtime server's port_add and         *)
(* port_remove are not supported, but they reach the monitor.              *)
(***************************************************************************)
EXTENDS Integers, Sequences

CONSTANTS
  PkPorts,
  PkMaxSent,      \* bound: the messages the peer sends
  PkMaxOut,       \* bound: the messages to the peer when the switch sends one
  PkMaxCalls      \* bound: the port_add and port_remove of the runtime server

ASSUME PkAssumption == PkMaxSent \in Nat /\ PkMaxCalls \in Nat

VARIABLES
  pkIn,           \* the socket, to the switch: messages [type, port, more]
  pkOut,          \* the socket, to the peer
  pkInfo,         \* port_info: port -> is_up
  pkCurr,         \* curr_ports of the monitor
  pkTodo,         \* the receive thread: the notifications it has to make
  pkEvents,       \* the events reported last, by port
  pkPeer,         \* the ports as the peer set them (history)
  pkTaken,        \* the last packet: [sent up, handed to the handler] (history)
  pkReq,          \* request_info of the peer: "idle", "wait"
  pkCount         \* [sent, calls]

pkVars == <<pkIn, pkOut, pkInfo, pkCurr, pkTodo, pkEvents, pkPeer, pkTaken, pkReq, pkCount>>

PkInit ==
  /\ pkIn = <<>> /\ pkOut = <<>> /\ pkInfo = <<>> /\ pkCurr = <<>> /\ pkTodo = <<>>
  /\ pkEvents = [p \in PkPorts |-> "NONE"]
  /\ pkPeer = <<>> /\ pkTaken = [up |-> FALSE, handed |-> FALSE]
  /\ pkReq = "idle" /\ pkCount = [sent |-> 0, calls |-> 0]

PkWith(f, p, v) == [q \in DOMAIN f \cup {p} |-> IF q = p THEN v ELSE f[q]]
PkWithout(f, p) == [q \in DOMAIN f \ {p} |-> f[q]]

\* A mutation of PortAdded: adding a port that exists starts it again.
PortAddedAgain(info, p) == PkWith(info, p, TRUE)

\* do_port_add, do_port_remove, do_port_set_status: the part under the mutex.
\* A new port is up.
PortAdded(info, p) == IF p \in DOMAIN info THEN info ELSE PkWith(info, p, TRUE)
PortRemoved(info, p) == PkWithout(info, p)
PortSet(info, p, up) == IF p \in DOMAIN info THEN PkWith(info, p, up) ELSE info

-----------------------------------------------------------------------------
(* The peer *)

PkSend(type, p, more, peer) ==
  /\ pkCount.sent < PkMaxSent
  /\ pkCount' = [pkCount EXCEPT !.sent = @ + 1]
  /\ pkIn' = Append(pkIn, [type |-> type, port |-> p, more |-> more])
  /\ pkPeer' = peer
  /\ UNCHANGED <<pkOut, pkInfo, pkCurr, pkTodo, pkEvents, pkTaken>>

\* What the peer wants its ports to be.
PeerAdd(p) ==
  PkSend("PORT_ADD", p, "0",
         IF p \in DOMAIN pkPeer THEN pkPeer ELSE PkWith(pkPeer, p, TRUE)) /\ UNCHANGED pkReq
PeerRemove(p) == PkSend("PORT_REMOVE", p, "0", PkWithout(pkPeer, p)) /\ UNCHANGED pkReq
PeerBring(p, up) ==
  PkSend("PORT_SET_STATUS", p, IF up THEN "UP" ELSE "DOWN", PortSet(pkPeer, p, up))
  /\ UNCHANGED pkReq

\* send: a packet; the message carries, for the property, whether the port is up.
PeerPacket(p) ==
  PkSend("PACKET_IN", p, IF p \in DOMAIN pkPeer /\ pkPeer[p] THEN "up" ELSE "not up", pkPeer)
  /\ UNCHANGED pkReq

\* request_info: the caller waits for the reply, one at a time.
PeerRequest(p) ==
  /\ pkReq = "idle" /\ PkSend("INFO_REQ", p, "0", pkPeer) /\ pkReq' = "wait"

\* receive_loop of the peer.
PeerReceive ==
  /\ pkOut # <<>>
  /\ pkOut' = Tail(pkOut)
  /\ pkReq' = IF Head(pkOut) = "INFO_REP" THEN "idle" ELSE pkReq
  /\ UNCHANGED <<pkIn, pkInfo, pkCurr, pkTodo, pkEvents, pkPeer, pkTaken, pkCount>>

-----------------------------------------------------------------------------
(* The monitor *)

\* PortMonitorPassive::notify_: what the monitor knows after an event, the same
\* for an event that does not fit.
NotifyFits(p, evt) ==
  IF evt = "ADDED" THEN p \notin DOMAIN pkCurr
  ELSE p \in DOMAIN pkCurr /\ (evt = "UP" => ~pkCurr[p]) /\ (evt = "DOWN" => pkCurr[p])

Notify(p, evt) ==
  IF NotifyFits(p, evt)
  THEN /\ pkCurr' = IF evt = "REMOVED" THEN PkWithout(pkCurr, p)
                    ELSE PkWith(pkCurr, p, evt = "UP")
       /\ pkEvents' = [pkEvents EXCEPT ![p] = evt]
  ELSE UNCHANGED <<pkCurr, pkEvents>>

-----------------------------------------------------------------------------
(* The receive thread of the switch *)

\* handle_msg: the change of port_info; the notifications follow, without the
\* mutex.
HandlePortMsg ==
  LET m == Head(pkIn)
      known == m.port \in DOMAIN pkInfo
  IN /\ pkTodo = <<>> /\ pkIn # <<>> /\ m.type \in {"PORT_ADD", "PORT_REMOVE", "PORT_SET_STATUS"}
     /\ pkIn' = Tail(pkIn)
     /\ \/ /\ m.type = "PORT_ADD"
           /\ pkInfo' = PortAdded(pkInfo, m.port)
           /\ pkTodo' = IF known THEN <<>> ELSE <<<<m.port, "ADDED">>, <<m.port, "UP">>>>
        \/ /\ m.type = "PORT_REMOVE"
           /\ pkInfo' = PortRemoved(pkInfo, m.port)
           /\ pkTodo' = IF known THEN <<<<m.port, "REMOVED">>>> ELSE <<>>
        \/ /\ m.type = "PORT_SET_STATUS"
           /\ pkInfo' = PortSet(pkInfo, m.port, m.more = "UP")
           /\ pkTodo' = IF known THEN <<<<m.port, m.more>>>> ELSE <<>>
     /\ UNCHANGED <<pkOut, pkCurr, pkEvents, pkPeer, pkTaken, pkReq, pkCount>>

HandleNotify ==
  /\ pkTodo # <<>>
  /\ Notify(Head(pkTodo)[1], Head(pkTodo)[2])
  /\ pkTodo' = Tail(pkTodo)
  /\ UNCHANGED <<pkIn, pkOut, pkInfo, pkPeer, pkTaken, pkReq, pkCount>>

\* A packet of a port that is up goes to the handler.
HandlePacketIn ==
  LET m == Head(pkIn)
      up == m.port \in DOMAIN pkInfo /\ pkInfo[m.port]
  IN /\ pkTodo = <<>> /\ pkIn # <<>> /\ m.type = "PACKET_IN"
     /\ pkIn' = Tail(pkIn)
     /\ pkTaken' = [up |-> m.more = "up", handed |-> up]
     /\ UNCHANGED <<pkOut, pkInfo, pkCurr, pkTodo, pkEvents, pkPeer, pkReq, pkCount>>

\* transmit_fn_, from the switch's transmit thread: the port is not looked at.
PkTransmit ==
  /\ Len(pkOut) < PkMaxOut
  /\ pkOut' = Append(pkOut, "PACKET_OUT")
  /\ UNCHANGED <<pkIn, pkInfo, pkCurr, pkTodo, pkEvents, pkPeer, pkTaken, pkReq, pkCount>>

HandleInfoReq ==
  /\ pkTodo = <<>> /\ pkIn # <<>> /\ Head(pkIn).type = "INFO_REQ"
  /\ pkIn' = Tail(pkIn) /\ pkOut' = Append(pkOut, "INFO_REP")
  /\ UNCHANGED <<pkInfo, pkCurr, pkTodo, pkEvents, pkPeer, pkTaken, pkReq, pkCount>>

\* DevMgrIface::port_add, port_remove of the runtime server: the monitor is
\* told, then the call fails as unsupported.
PkCall(p, evt) ==
  /\ pkCount.calls < PkMaxCalls
  /\ pkCount' = [pkCount EXCEPT !.calls = @ + 1]
  /\ Notify(p, evt)
  /\ UNCHANGED <<pkIn, pkOut, pkInfo, pkTodo, pkPeer, pkTaken, pkReq>>

PkNext ==
  \/ \E p \in PkPorts : PeerAdd(p) \/ PeerRemove(p) \/ PeerPacket(p) \/ PeerRequest(p)
  \/ \E p \in PkPorts, up \in BOOLEAN : PeerBring(p, up)
  \/ PeerReceive
  \/ HandlePortMsg \/ HandleNotify \/ HandlePacketIn \/ HandleInfoReq \/ PkTransmit
  \/ \E p \in PkPorts, evt \in {"ADDED", "REMOVED"} : PkCall(p, evt)

PkSpec == PkInit /\ [][PkNext]_pkVars

-----------------------------------------------------------------------------
PkTypeOK ==
  /\ DOMAIN pkInfo \subseteq PkPorts /\ DOMAIN pkCurr \subseteq PkPorts
  /\ pkReq \in {"idle", "wait"} /\ Len(pkIn) <= PkMaxSent

\* A packet is handed to the switch exactly when its port was up at the peer as
\* it was sent, however far the receive thread is behind and whatever the
\* runtime server calls; and as long as the runtime server has made no call, a
\* monitor that has been told everything knows the ports as they are, up or
\* down, and has reported that last.
PacketsFollowTheirPorts ==
  /\ pkTaken.up = pkTaken.handed
  /\ pkTodo = <<>> /\ pkCount.calls = 0 =>
       /\ pkCurr = pkInfo
       /\ \A p \in DOMAIN pkInfo : pkEvents[p] = IF pkInfo[p] THEN "UP" ELSE "DOWN"
-----------------------------------------------------------------------------
(* Why PacketsFollowTheirPorts holds.                                      *)
PkEventNames == {"ADDED", "REMOVED", "UP", "DOWN"}
PkMaps == UNION {[S -> BOOLEAN] : S \in SUBSET PkPorts}
PkMsgs == [type : {"PORT_ADD", "PORT_REMOVE", "PORT_SET_STATUS", "PACKET_IN", "INFO_REQ"},
           port : PkPorts, more : {"0", "UP", "DOWN", "up", "not up"}]

PkTypes ==
  /\ pkIn \in Seq(PkMsgs) /\ Len(pkIn) <= pkCount.sent
  /\ \A i \in DOMAIN pkIn : pkIn[i].type = "PORT_SET_STATUS" => pkIn[i].more \in {"UP", "DOWN"}
  /\ pkInfo \in PkMaps /\ pkCurr \in PkMaps /\ pkPeer \in PkMaps
  /\ pkTodo \in Seq(PkPorts \X PkEventNames)
  /\ pkEvents \in [PkPorts -> PkEventNames \cup {"NONE"}]
  /\ pkTaken \in [up : BOOLEAN, handed : BOOLEAN]
  /\ pkReq \in {"idle", "wait"}
  /\ pkCount \in [sent : 0..PkMaxSent, calls : Nat]

\* What a message makes of the ports, and whether a packet finds its port up.
PkApply(m, info) ==
  CASE m.type = "PORT_ADD" -> PortAdded(info, m.port)
    [] m.type = "PORT_REMOVE" -> PortRemoved(info, m.port)
    [] m.type = "PORT_SET_STATUS" -> PortSet(info, m.port, m.more = "UP")
    [] OTHER -> info
PkIsUp(info, p) == p \in DOMAIN info /\ info[p]

\* The messages in the socket lead from the ports the switch has to those the
\* peer wants: v[i] are the ports after the first i of them.
PkLeads(v, in, info, peer) ==
  /\ v[0] = info /\ v[Len(in)] = peer
  /\ \A i \in 1..Len(in) :
       /\ v[i] = PkApply(in[i], v[i - 1])
       /\ in[i].type = "PACKET_IN" => (in[i].more = "up") = PkIsUp(v[i - 1], in[i].port)
PkCatchesUp == \E v \in [0..Len(pkIn) -> PkMaps] : PkLeads(v, pkIn, pkInfo, pkPeer)

\* The notifications the receive thread still has to make lead from what the
\* monitor knows to the ports as they are, unless the runtime server interfered.
PkReported(p) == pkEvents[p] = IF pkCurr[p] THEN "UP" ELSE "DOWN"
PkOwes(p) ==
  /\ \A q \in DOMAIN pkCurr \ {p} : PkReported(q)
  /\ \/ /\ pkTodo = <<<<p, "ADDED">>, <<p, "UP">>>>
        /\ p \notin DOMAIN pkCurr /\ pkInfo = PkWith(pkCurr, p, TRUE)
     \/ /\ pkTodo = <<<<p, "REMOVED">>>>
        /\ p \in DOMAIN pkCurr /\ pkInfo = PkWithout(pkCurr, p)
     \/ \E up \in BOOLEAN :
          /\ pkTodo = <<<<p, IF up THEN "UP" ELSE "DOWN">>>>
          /\ p \in DOMAIN pkCurr /\ pkInfo = PkWith(pkCurr, p, up)
          /\ pkCurr[p] = up => PkReported(p)
PkTold ==
  pkCount.calls = 0 =>
    \/ pkTodo = <<>> /\ pkCurr = pkInfo /\ \A q \in DOMAIN pkCurr : PkReported(q)
    \/ \E p \in PkPorts : PkOwes(p)

PkInv == PkTypes /\ pkTaken.up = pkTaken.handed /\ PkCatchesUp /\ PkTold
=============================================================================
