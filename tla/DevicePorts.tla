----------------------------- MODULE DevicePorts -----------------------------
(***************************************************************************)
(* The ports of a switch on real interfaces: the BMI port manager          *)
(* (bmi_port.c), its device manager (dev_mgr_bmi.cpp) and the active port  *)
(* monitor (port_monitor.cpp).  A select thread receives packets from the  *)
(* interfaces; threads of the runtime server add and remove ports; the     *)
(* monitor thread polls the status of the interfaces and reports changes.  *)
(* Removing a port sends a byte to the select thread over a socket pair    *)
(* and waits for it to come back, so that the thread is not in select      *)
(* with the descriptor when it is closed.                                  *)
(***************************************************************************)
EXTENDS Integers, Sequences, FiniteSets

CONSTANTS
  DpThreads,      \* the threads of the runtime server
  DpNums,         \* the port numbers clients use
  DpFdNums,       \* the file descriptors the process can have
  DpCtlFd,        \* the one of the select thread's end of the socket pair
  DpMaxPorts,     \* max_port_count
  DpMaxOps,       \* bound: the number of port_add and port_remove
  DpMaxPolls      \* bound: the number of polls of the monitor

ASSUME DpAssumption ==
  /\ DpCtlFd \in DpFdNums /\ DpFdNums \subseteq Nat \ {0}
  /\ DpNums \subseteq Int /\ "none" \notin DpThreads

VARIABLES
  dpPorts,        \* port_mgr->ports: the sorted array of [num, fd]
  dpFds,          \* port_mgr->fds and max_fd: [set, max]
  dpWriter,       \* the thread that holds the write lock, or "none"
  dpByte,         \* the socket pair: "none", "asked", "answered"
  dpReady,        \* the descriptors with a packet to be read
  dpSel,          \* the select thread: [pc, fds, max]
  dpOp,           \* the threads: [pc, num, evt]
  dpCurr,         \* the monitor's curr_ports: port -> was it up
  dpMon,          \* the monitor thread: [pc, todo]
  dpLast,         \* the last event reported for every port (history)
  dpUp,           \* the interfaces that are up
  dpCount         \* [ops, polls]

dpVars == <<dpPorts, dpFds, dpWriter, dpByte, dpReady, dpSel, dpOp, dpCurr, dpMon, dpLast,
            dpUp, dpCount>>

DpIdle == [pc |-> "idle", num |-> 0, evt |-> "NONE"]

\* bmi_port_create_mgr; max_fd is 0 until a port is added.
DpInit ==
  /\ dpPorts = <<>> /\ dpFds = [set |-> {DpCtlFd}, max |-> 0]
  /\ dpWriter = "none" /\ dpByte = "none" /\ dpReady = {}
  /\ dpSel = [pc |-> "copy", fds |-> {}, max |-> 0]
  /\ dpOp = [t \in DpThreads |-> DpIdle]
  /\ dpCurr = <<>> /\ dpMon = [pc |-> "sleep", todo |-> <<>>]
  /\ dpLast = [n \in DpNums |-> "NONE"]
  /\ dpUp = {} /\ dpCount = [ops |-> 0, polls |-> 0]

-----------------------------------------------------------------------------
(* The array of ports *)

\* One round of the binary search for a port number among the places from r.a
\* up to, and not including, r.b; a port that is found ends it.
DpHalve(ports, num, r) ==
  LET i == r.a + (r.b - r.a) \div 2
  IN IF r.a >= r.b THEN r
     ELSE IF num < ports[i].num THEN [r EXCEPT !.b = i]
     ELSE IF num > ports[i].num THEN [r EXCEPT !.a = i + 1]
     ELSE [a |-> i, b |-> i]

\* get_port, insert_port: the place where the port is or would be; every round
\* leaves fewer places.
DpSearch(ports, num) ==
  LET r[k \in 0..Len(ports)] ==
        IF k = 0 THEN [a |-> 1, b |-> Len(ports) + 1] ELSE DpHalve(ports, num, r[k - 1])
  IN r[Len(ports)].a

\* insert_port, delete_port: the ports behind the place are moved.
DpInserted(ports, i, port) ==
  [j \in 1..Len(ports) + 1 |-> IF j < i THEN ports[j] ELSE IF j = i THEN port ELSE ports[j - 1]]
DpDeleted(ports, i) == [j \in 1..Len(ports) - 1 |-> IF j < i THEN ports[j] ELSE ports[j + 1]]

DpHas(ports, num) ==
  LET i == DpSearch(ports, num) IN i <= Len(ports) /\ ports[i].num = num

DpOpenFds == {DpCtlFd} \cup {dpPorts[i].fd : i \in 1..Len(dpPorts)}

-----------------------------------------------------------------------------
(* The select thread *)

\* The copy of the set of descriptors, under the read lock; after
\* bmi_port_destroy_mgr the thread would end here.
SelectCopy ==
  /\ dpSel.pc = "copy" /\ dpWriter = "none"
  /\ dpSel' = [pc |-> "select", fds |-> dpFds.set, max |-> dpFds.max]
  /\ UNCHANGED <<dpPorts, dpFds, dpWriter, dpByte, dpReady, dpOp, dpCurr, dpMon, dpLast,
                 dpUp, dpCount>>

\* select returns with the descriptors that have something to read, of those
\* up to max_fd, or after 100 ms with none; the byte of the socket pair is sent
\* back.
SelectReturns ==
  LET ready == {f \in dpSel.fds : f <= dpSel.max
                                  /\ (f \in dpReady \/ (f = DpCtlFd /\ dpByte = "asked"))}
  IN /\ dpSel.pc = "select"
     /\ dpByte' = IF DpCtlFd \in ready THEN "answered" ELSE dpByte
     /\ dpSel' = IF ready \ {DpCtlFd} = {}
                 THEN [pc |-> "copy", fds |-> {}, max |-> 0]
                 ELSE [pc |-> "dispatch", fds |-> ready, max |-> 0]
     /\ UNCHANGED <<dpPorts, dpFds, dpWriter, dpReady, dpOp, dpCurr, dpMon, dpLast, dpUp,
                    dpCount>>

\* bmi_interface_recv on every port of the array whose descriptor is in the set.
DpReceived(fds) == {dpPorts[i].fd : i \in {j \in 1..Len(dpPorts) : dpPorts[j].fd \in fds}}

\* The packets of the ports whose descriptor is in the result go to the packet
\* handler, under the read lock.
SelectDispatch ==
  /\ dpSel.pc = "dispatch" /\ dpWriter = "none"
  /\ dpReady' = dpReady \ DpReceived(dpSel.fds)
  /\ dpSel' = [pc |-> "copy", fds |-> {}, max |-> 0]
  /\ UNCHANGED <<dpPorts, dpFds, dpWriter, dpByte, dpOp, dpCurr, dpMon, dpLast, dpUp,
                 dpCount>>

\* A packet arrives at an interface.
DpArrive(fd) ==
  /\ fd \in DpOpenFds \ (dpReady \cup {DpCtlFd})
  /\ dpReady' = dpReady \cup {fd}
  /\ UNCHANGED <<dpPorts, dpFds, dpWriter, dpByte, dpSel, dpOp, dpCurr, dpMon, dpLast, dpUp,
                 dpCount>>

-----------------------------------------------------------------------------
(* port_add and port_remove *)

\* PortMonitorPassive::notify_, up to the end of port_mutex: an event that does
\* not fit what the monitor knows of the port is dropped.
DpAccepts(curr, num, evt) ==
  \/ evt = "ADDED" /\ num \notin DOMAIN curr
  \/ evt = "REMOVED" /\ num \in DOMAIN curr

DpNotified(curr, num, evt) ==
  IF ~DpAccepts(curr, num, evt) THEN curr
  ELSE IF evt = "ADDED" THEN [n \in DOMAIN curr \cup {num} |-> IF n = num THEN FALSE ELSE curr[n]]
  ELSE [n \in DOMAIN curr \ {num} |-> curr[n]]

\* DevMgrIface::port_add, port_remove: the monitor is told first.
DpCall(t, num, evt) ==
  /\ dpOp[t].pc = "idle" /\ dpCount.ops < DpMaxOps
  /\ dpCount' = [dpCount EXCEPT !.ops = @ + 1]
  /\ dpCurr' = DpNotified(dpCurr, num, evt)
  /\ dpOp' = [dpOp EXCEPT ![t] =
       [pc |-> IF DpAccepts(dpCurr, num, evt) THEN "event" ELSE "apply", num |-> num, evt |-> evt]]
  /\ UNCHANGED <<dpPorts, dpFds, dpWriter, dpByte, dpReady, dpSel, dpMon, dpLast, dpUp>>

\* event_handler: the callbacks, without port_mutex.
DpEvent(t) ==
  /\ dpOp[t].pc = "event"
  /\ dpLast' = [dpLast EXCEPT ![dpOp[t].num] = dpOp[t].evt]
  /\ dpOp' = [dpOp EXCEPT ![t].pc = "apply"]
  /\ UNCHANGED <<dpPorts, dpFds, dpWriter, dpByte, dpReady, dpSel, dpCurr, dpMon, dpUp,
                 dpCount>>

\* bmi_port_interface_add: fails for a port that exists, for one too many and
\* for an interface that cannot be opened.
BmiAdd(t) ==
  LET num == dpOp[t].num
      i == DpSearch(dpPorts, num)
  IN /\ dpOp[t].pc = "apply" /\ dpOp[t].evt = "ADDED" /\ dpWriter = "none"
     /\ \/ /\ ~DpHas(dpPorts, num) /\ Len(dpPorts) < DpMaxPorts
           /\ \E fd \in DpFdNums \ DpOpenFds :
                /\ dpPorts' = DpInserted(dpPorts, i, [num |-> num, fd |-> fd])
                /\ dpFds' = [set |-> dpFds.set \cup {fd},
                             max |-> IF fd > dpFds.max THEN fd ELSE dpFds.max]
        \/ UNCHANGED <<dpPorts, dpFds>>
     /\ dpOp' = [dpOp EXCEPT ![t] = DpIdle]
     /\ UNCHANGED <<dpWriter, dpByte, dpReady, dpSel, dpCurr, dpMon, dpLast, dpUp, dpCount>>

\* A mutation of BmiRemoveAsk: nobody is asked, and the port goes at once.
BmiRemoveAskNobody(t) ==
  LET num == dpOp[t].num
      i == DpSearch(dpPorts, num)
  IN /\ dpOp[t].pc = "apply" /\ dpOp[t].evt = "REMOVED" /\ dpWriter = "none"
     /\ IF DpHas(dpPorts, num)
        THEN /\ dpFds' = [dpFds EXCEPT !.set = @ \ {dpPorts[i].fd}]
             /\ dpPorts' = DpDeleted(dpPorts, i)
             /\ dpReady' = dpReady \ {dpPorts[i].fd}
        ELSE UNCHANGED <<dpFds, dpPorts, dpReady>>
     /\ dpOp' = [dpOp EXCEPT ![t] = DpIdle]
     /\ UNCHANGED <<dpWriter, dpByte, dpSel, dpCurr, dpMon, dpLast, dpUp, dpCount>>

\* bmi_port_interface_remove, up to the read: the write lock is held from here.
BmiRemoveAsk(t) ==
  LET num == dpOp[t].num
  IN /\ dpOp[t].pc = "apply" /\ dpOp[t].evt = "REMOVED" /\ dpWriter = "none"
     /\ IF DpHas(dpPorts, num)
        THEN /\ dpFds' = [dpFds EXCEPT !.set = @ \ {dpPorts[DpSearch(dpPorts, num)].fd}]
             /\ dpWriter' = t /\ dpByte' = "asked"
             /\ dpOp' = [dpOp EXCEPT ![t].pc = "wait"]
        ELSE /\ dpOp' = [dpOp EXCEPT ![t] = DpIdle]
             /\ UNCHANGED <<dpFds, dpWriter, dpByte>>
     /\ UNCHANGED <<dpPorts, dpReady, dpSel, dpCurr, dpMon, dpLast, dpUp, dpCount>>

\* The byte is back: the interface is closed and the port deleted.
BmiRemoveEnd(t) ==
  LET i == DpSearch(dpPorts, dpOp[t].num)
  IN /\ dpOp[t].pc = "wait" /\ dpByte = "answered"
     /\ dpByte' = "none" /\ dpWriter' = "none"
     /\ dpPorts' = DpDeleted(dpPorts, i)
     /\ dpReady' = dpReady \ {dpPorts[i].fd}
     /\ dpOp' = [dpOp EXCEPT ![t] = DpIdle]
     /\ UNCHANGED <<dpFds, dpSel, dpCurr, dpMon, dpLast, dpUp, dpCount>>

-----------------------------------------------------------------------------
(* The monitor thread *)

DpLink(num) ==
  /\ dpUp' = (dpUp \cup {num}) \ (dpUp \cap {num})
  /\ UNCHANGED <<dpPorts, dpFds, dpWriter, dpByte, dpReady, dpSel, dpOp, dpCurr, dpMon,
                 dpLast, dpCount>>

\* port_is_up_, bmi_port_interface_is_up: FALSE for a port that is not there.
DpIsUp(num) == DpHas(dpPorts, num) /\ num \in dpUp

\* monitor: every port is asked, under port_mutex; the changes are kept.
MonitorPoll ==
  /\ dpMon.pc = "sleep" /\ dpCount.polls < DpMaxPolls
  /\ dpCurr # <<>> => dpWriter = "none"
  /\ dpCurr' = [n \in DOMAIN dpCurr |-> DpIsUp(n)]
  /\ dpMon' = [pc |-> "report",
               todo |-> [n \in {m \in DOMAIN dpCurr : dpCurr[m] # DpIsUp(m)} |->
                           IF DpIsUp(n) THEN "UP" ELSE "DOWN"]]
  /\ dpCount' = [dpCount EXCEPT !.polls = @ + 1]
  /\ UNCHANGED <<dpPorts, dpFds, dpWriter, dpByte, dpReady, dpSel, dpOp, dpLast, dpUp>>

\* monitor: the callbacks and the notification, without the lock.
MonitorReport ==
  /\ dpMon.pc = "report"
  /\ dpLast' = [n \in DpNums |-> IF n \in DOMAIN dpMon.todo THEN dpMon.todo[n] ELSE dpLast[n]]
  /\ dpMon' = [pc |-> "sleep", todo |-> <<>>]
  /\ UNCHANGED <<dpPorts, dpFds, dpWriter, dpByte, dpReady, dpSel, dpOp, dpCurr, dpUp,
                 dpCount>>

-----------------------------------------------------------------------------
SelectStep == SelectCopy \/ SelectReturns \/ SelectDispatch

DpThreadStep(t) == DpEvent(t) \/ BmiAdd(t) \/ BmiRemoveAsk(t) \/ BmiRemoveEnd(t)

DpNext ==
  \/ SelectStep
  \/ \E fd \in DpFdNums : DpArrive(fd)
  \/ \E t \in DpThreads, num \in DpNums, evt \in {"ADDED", "REMOVED"} : DpCall(t, num, evt)
  \/ \E t \in DpThreads : DpThreadStep(t)
  \/ \E num \in DpNums : DpLink(num)
  \/ MonitorPoll \/ MonitorReport

DpSpec == DpInit /\ [][DpNext]_dpVars

-----------------------------------------------------------------------------
DpTypeOK ==
  /\ \A i \in 1..Len(dpPorts) : dpPorts[i] \in [num : DpNums, fd : DpFdNums \ {DpCtlFd}]
  /\ dpWriter \in DpThreads \cup {"none"} /\ dpByte \in {"none", "asked", "answered"}
  /\ dpSel.pc \in {"copy", "select", "dispatch"} /\ dpFds.set \subseteq DpFdNums
  /\ DOMAIN dpCurr \subseteq DpNums

\* While the select thread is in select, every descriptor it waits for is open:
\* no port that is removed meanwhile has closed one, whichever thread removes
\* it, and none has been closed and opened again for another port.  And outside
\* port_remove the manager's set is that of the ports in its array, which is
\* sorted so that every port is found.
SelectsOnOpenPorts ==
  /\ dpSel.pc = "select" => dpSel.fds \subseteq DpOpenFds
  /\ dpWriter = "none" => dpFds.set = DpOpenFds
  /\ \A i \in 1..Len(dpPorts) : dpFds.max >= dpPorts[i].fd /\ DpSearch(dpPorts, dpPorts[i].num) = i

\* The array is sorted, and no two ports share a descriptor.
DpPortsInv ==
  /\ dpPorts \in Seq([num : DpNums, fd : DpFdNums \ {DpCtlFd}])
  /\ \A i, j \in 1..Len(dpPorts) :
       /\ i < j => dpPorts[i].num < dpPorts[j].num
       /\ dpPorts[i].fd = dpPorts[j].fd => i = j
  /\ \A i \in 1..Len(dpPorts) : dpFds.max >= dpPorts[i].fd

\* The thread that waits for the byte is the one with the write lock; the port it
\* removes is still in the array and its descriptor no longer in the set.
DpRemovalInv ==
  /\ \A t \in DpThreads : dpOp[t].pc = "wait" <=> dpWriter = t
  /\ dpWriter = "none" <=> dpByte = "none"
  /\ \A t \in DpThreads : dpWriter = t => DpHas(dpPorts, dpOp[t].num)
       /\ dpFds.set = DpOpenFds \ {dpPorts[DpSearch(dpPorts, dpOp[t].num)].fd}

\* Why the select thread waits for open ports only: from the time it has sent the
\* byte back until the port is gone, it cannot copy the set.
DpInv ==
  /\ DpTypeOK
  /\ dpOp \in [DpThreads -> [pc : {"idle", "event", "apply", "wait"}, num : DpNums \cup {0},
                            evt : {"NONE", "ADDED", "REMOVED"}]]
  /\ \A t \in DpThreads : dpOp[t].pc # "idle" => dpOp[t].num \in DpNums
  /\ dpFds \in [set : SUBSET DpFdNums, max : Nat]
  /\ DpPortsInv /\ DpRemovalInv
  /\ dpWriter = "none" => dpFds.set = DpOpenFds
  /\ dpSel.pc = "select" => dpSel.fds \subseteq DpOpenFds
  /\ DpCtlFd \notin dpReady
  /\ dpByte = "answered" => dpSel.pc # "select"

\* The select thread has come for the read lock after port_remove took the
\* write lock, and port_remove keeps it until the select thread answers: the
\* two wait for each other.
SelectStuck == dpWriter # "none" /\ dpSel.pc \in {"copy", "dispatch"}

\* A removal ends ("adding / removing a port will block send & receive for all
\* ports", bmi_port.c: not the other way round), unless the two threads are
\* stuck on each other.
RemovalEnds ==
  \A t \in DpThreads : dpOp[t].pc = "wait" ~> dpOp[t].pc = "idle" \/ SelectStuck
=============================================================================
