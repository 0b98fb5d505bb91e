------------------------------ MODULE PsaSwitch ------------------------------
(* targets/psa_switch: the ingress thread, the egress threads and the      *)
(* transmit thread of the PSA target, its buffers, its mirroring sessions, *)
(* its counters and its destructor.  What the P4 program decides (clone,   *)
(* drop, resubmit, multicast group, port) is a choice over PsOutcomes.     *)
(* Of a packet the model keeps the version of its bytes (each deparser     *)
(* writes a new one), whether the parser has lifted headers off its        *)
(* buffer, whether its PHV holds valid headers, and the metadata fields    *)
(* the threads hand to one another; entry and port are the bytes and the   *)
(* port it had when it last entered ingress other than by a resubmission.  *)
EXTENDS BasicTargets, SequencesExt

CONSTANTS PsPorts,      \* egress ports of the switch
          PsaGroups,     \* multicast group -> its copies <<port, rid>> (pre->replicate)
          PsConfigs,    \* mirroring session configurations of the RPCs
          PsOutcomes,   \* what the ingress and egress programs may decide
          PsWorkers,    \* nb_egress_threads
          PsInCap, PsEgCap, PsOutCap,  \* capacities of the three buffers
          PsCells,      \* cells of the counter extern
          PsMaxPkts, PsMaxMade, PsMaxRpcs

PsMgids == {0} \cup DOMAIN PsaGroups    \* 0 is no group

ASSUME PsAssumption ==
  /\ PsWorkers \in Nat \ {0} /\ PsPorts \subseteq Nat
  /\ PsInCap \in Nat /\ PsOutCap \in Nat /\ PsMaxMade \in Nat
  /\ \A g \in DOMAIN PsaGroups : PsaGroups[g] \in Seq(Nat \X Nat)
  /\ PsConfigs \subseteq [mgid : PsMgids, port : Nat]
  /\ PsOutcomes \subseteq [clone : BOOLEAN, drop : BOOLEAN, resubmit : BOOLEAN,
                          mgid : PsMgids, port : Nat]

VARIABLES psIn, psEg, psOut,  \* input_buffer, egress_buffers, output_buffer
          psIgCalls,          \* pushes the ingress thread still has to make
          psEgCalls,          \* and those of each egress thread
          psEnded,            \* threads that have left their loop
          psSession,          \* mirroring_sessions: the one session, or PsNoSession
          psCap,              \* capacity of each port's egress queue
          psCount,            \* the counter extern
          psNext, psMade,     \* packet_id; packets created since the start
          psRpcs,             \* RPCs served so far
          psOwner             \* where the destructor is

psaVars == <<psIn, psEg, psOut, psIgCalls, psEgCalls, psEnded, psSession, psCap,
            psCount, psNext, psMade, psRpcs, psOwner>>

PsNull == [null |-> TRUE]
PsRecirculate == 99   \* PSA_PORT_RECIRCULATE
PsNoPort == 98        \* egress_port_valid is false
PsNoSession == [mgid |-> 0, port |-> PsNoPort]
PsThreads == 0..PsWorkers - 1
PsIngressThread == <<"ingress", 0>>
PsTransmitThread == <<"transmit", 0>>
PsAllThreads == {PsIngressThread, PsTransmitThread} \cup {<<"egress", w>> : w \in PsThreads}
PsMapper(port) == port % PsWorkers

PsaInit ==
  /\ psIn = <<>> /\ psOut = <<>>
  /\ psEg = [w \in PsThreads |-> <<>>]
  /\ psIgCalls = <<>>
  /\ psEgCalls = [w \in PsThreads |-> <<>>]
  /\ psEnded = {}
  /\ psSession = PsNoSession
  /\ psCap = [p \in PsPorts \cup PsThreads \cup {PsRecirculate} |-> PsEgCap]
  /\ psCount = [i \in 0..PsCells - 1 |-> 0]
  /\ psNext = 0 /\ psMade = 0 /\ psRpcs = 0
  /\ psOwner = "run"

\* phv->reset_metadata(): every metadata field of the PHV becomes 0.
PsResetMetadata(p) == [p EXCEPT !.inPort = 0, !.inPath = "NORMAL",
                              !.egPath = "NORMAL", !.instance = 0]

\* receive_: a packet from the wire, pushed to the input buffer (blocking).
PsReceive(port) ==
  /\ psOwner = "run" /\ psNext < PsMaxPkts /\ psMade < PsMaxMade
  /\ Len(psIn) < PsInCap
  /\ psIn' = Append(psIn, [null |-> FALSE, bytes |-> 0, lifted |-> FALSE, valid |-> FALSE,
                           inPort |-> port, inPath |-> "NORMAL", egPath |-> "NORMAL",
                           instance |-> 0, entry |-> 0, port |-> port])
  /\ psNext' = psNext + 1 /\ psMade' = psMade + 1
  /\ UNCHANGED <<psEg, psOut, psIgCalls, psEgCalls, psEnded, psSession, psCap, psCount,
                 psRpcs, psOwner>>

PsParse(p) == [p EXCEPT !.lifted = TRUE, !.valid = TRUE]
PsDeparse(p) == [p EXCEPT !.lifted = FALSE, !.bytes = @ + 1]
PsPush(to, port, p) == [to |-> to, port |-> port, pkt |-> p]

\* PsaSwitch::multicast: one copy, with the PHV, for each pair of the PRE.
PsMulticast(p, mgid, path) ==
  [i \in 1..Len(PsaGroups[mgid]) |->
     PsPush("egress", PsaGroups[mgid][i][1],
            [p EXCEPT !.egPath = path, !.instance = PsaGroups[mgid][i][2]])]

\* A clone to the configured session: to its group, then to its port.  The
\* unicast copy is the packet multicast has written its fields to.
PsClone(p, path) ==
  LET copy == [PsResetMetadata([p EXCEPT !.valid = FALSE]) EXCEPT !.egPath = path]
      copies == IF psSession.mgid = 0 THEN <<>> ELSE PsMulticast(copy, psSession.mgid, path)
      after == IF copies = <<>> THEN copy ELSE Last(copies).pkt
      unicast == IF psSession.port = PsNoPort THEN <<>>
                 ELSE <<PsPush("egress", psSession.port, after)>>
  IN  copies \o unicast

\* The ingress clone: restore_buffer_state(packet_in_state) first, so it is
\* of the packet before parsing.
IngressClones(p, q) == PsClone(p, "CLONE_I2E")

\* The body of ingress_thread after the parser and the pipeline: a drop, a
\* resubmission, a multicast and a unicast exclude one another, in this
\* order; the clone does not depend on them.
PsIngress(p, o) ==
  LET q == PsParse(p)
      out == PsDeparse(q)
      clones == IF o.clone THEN IngressClones(p, q) ELSE <<>>
      rest == CASE o.drop -> <<>>
                [] ~o.drop /\ o.resubmit ->
                     <<PsPush("input", 0, [PsResetMetadata(q) EXCEPT !.lifted = p.lifted,
                                                                    !.inPath = "RESUBMIT"])>>
                [] ~o.drop /\ ~o.resubmit /\ o.mgid # 0 ->
                     PsMulticast(out, o.mgid, "NORMAL_MULTICAST")
                [] OTHER -> <<PsPush("egress", o.port, [out EXCEPT !.egPath = "NORMAL_UNICAST",
                                                                   !.instance = 0])>>
  IN  clones \o rest

PsIngressPop ==
  /\ PsIngressThread \notin psEnded /\ psIgCalls = <<>> /\ psIn # <<>>
  /\ psIn' = Tail(psIn)
  /\ IF Head(psIn).null
     THEN psEnded' = psEnded \cup {PsIngressThread} /\ UNCHANGED <<psIgCalls, psMade>>
     ELSE \E o \in PsOutcomes :
            LET p == Head(psIn)
                first == IF p.inPath = "RESUBMIT" THEN p
                         ELSE [p EXCEPT !.entry = p.bytes, !.port = p.inPort]
                calls == PsIngress(first, o)
            IN  /\ psMade + Len(calls) <= PsMaxMade
                /\ psIgCalls' = calls /\ psMade' = psMade + Len(calls)
                /\ UNCHANGED psEnded
  /\ UNCHANGED <<psEg, psOut, psEgCalls, psSession, psCap, psCount, psNext, psRpcs, psOwner>>

\* The body of egress_thread: headers are invalidated, the packet parsed,
\* processed and deparsed again; the clone is of what the deparser wrote.
PsEgress(port, p, o) ==
  LET out == PsDeparse(PsParse([p EXCEPT !.valid = FALSE]))
      clones == IF o.clone THEN PsClone(out, "CLONE_E2E") ELSE <<>>
      rest == CASE o.drop -> <<>>
                [] ~o.drop /\ port = PsRecirculate ->
                     <<PsPush("input", 0, [PsResetMetadata(out) EXCEPT !.valid = FALSE,
                                 !.inPort = PsRecirculate, !.inPath = "RECIRCULATE"])>>
                [] OTHER -> <<PsPush("output", port, out)>>
  IN  clones \o rest

PsEgressPop(w) ==
  /\ <<"egress", w>> \notin psEnded /\ psEgCalls[w] = <<>> /\ psEg[w] # <<>>
  /\ psEg' = [psEg EXCEPT ![w] = Tail(@)]
  /\ IF Head(psEg[w]).pkt.null
     THEN psEnded' = psEnded \cup {<<"egress", w>>} /\ UNCHANGED <<psEgCalls, psMade>>
     ELSE \E o \in {x \in PsOutcomes : ~x.resubmit /\ x.mgid = 0} :
            LET calls == PsEgress(Head(psEg[w]).port, Head(psEg[w]).pkt, o)
            IN  /\ psMade + Len(calls) <= PsMaxMade
                /\ psEgCalls' = [psEgCalls EXCEPT ![w] = calls]
                /\ psMade' = psMade + Len(calls)
                /\ UNCHANGED psEnded
  /\ UNCHANGED <<psIn, psOut, psIgCalls, psSession, psCap, psCount, psNext, psRpcs, psOwner>>

\* QueueingLogicRL::push_front drops what its queue has no room for.
PsHasRoom(port) ==
  LET w == PsMapper(port)
  IN  Cardinality({i \in 1..Len(psEg[w]) : psEg[w][i].port = port}) < psCap[port]

PsEgressPushed(port, p) ==
  LET w == PsMapper(port)
  IN  IF PsHasRoom(port) THEN [psEg EXCEPT ![w] = Append(@, [port |-> port, pkt |-> p])]
      ELSE psEg

\* One push of a thread; the input and output buffers make it wait.
PsCall(c) ==
  \/ /\ c.to = "egress" /\ psEg' = PsEgressPushed(c.port, c.pkt) /\ UNCHANGED <<psIn, psOut>>
  \/ /\ c.to = "input" /\ Len(psIn) < PsInCap
     /\ psIn' = Append(psIn, c.pkt) /\ UNCHANGED <<psEg, psOut>>
  \/ /\ c.to = "output" /\ Len(psOut) < PsOutCap
     /\ psOut' = Append(psOut, c.pkt) /\ UNCHANGED <<psEg, psIn>>

PsIngressCall ==
  /\ psIgCalls # <<>> /\ PsCall(Head(psIgCalls)) /\ psIgCalls' = Tail(psIgCalls)
  /\ UNCHANGED <<psEgCalls, psEnded, psSession, psCap, psCount, psNext, psMade, psRpcs, psOwner>>

PsEgressCall(w) ==
  /\ psEgCalls[w] # <<>> /\ PsCall(Head(psEgCalls[w]))
  /\ psEgCalls' = [psEgCalls EXCEPT ![w] = Tail(@)]
  /\ UNCHANGED <<psIgCalls, psEnded, psSession, psCap, psCount, psNext, psMade, psRpcs, psOwner>>

\* transmit_thread: the packet leaves, or the null packet ends the thread.
PsTransmit ==
  /\ PsTransmitThread \notin psEnded /\ psOut # <<>> /\ psOut' = Tail(psOut)
  /\ psEnded' = IF Head(psOut).null THEN psEnded \cup {PsTransmitThread} ELSE psEnded
  /\ UNCHANGED <<psIn, psEg, psIgCalls, psEgCalls, psSession, psCap, psCount, psNext,
                 psMade, psRpcs, psOwner>>

\* mirroring_session_add and _delete; the handler answers a delete of a
\* session that is not there with SESSION_NOT_FOUND and changes nothing.
PsMirrorAdd(c) == psSession' = c /\ UNCHANGED <<psCap, psCount>>
PsMirrorDelete == psSession # PsNoSession /\ psSession' = PsNoSession /\ UNCHANGED <<psCap, psCount>>

\* set_egress_queue_depth and set_all_egress_queue_depths.
PsSetDepth(port, n) == psCap' = [psCap EXCEPT ![port] = n] /\ UNCHANGED <<psSession, psCount>>
PsSetAllDepths(n) == psCap' = [p \in DOMAIN psCap |-> n] /\ UNCHANGED <<psSession, psCount>>

\* write_counters and reset_counters of the counter extern; an index past
\* its size is refused.
PsWriteCounter(i, n) ==
  /\ i < PsCells /\ psCount' = [psCount EXCEPT ![i] = n] /\ UNCHANGED <<psSession, psCap>>
PsResetCounters ==
  /\ \E i \in DOMAIN psCount : psCount[i] # 0
  /\ psCount' = [i \in DOMAIN psCount |-> 0] /\ UNCHANGED <<psSession, psCap>>

PsRpc ==
  /\ psRpcs < PsMaxRpcs /\ psOwner = "run" /\ psRpcs' = psRpcs + 1
  /\ \/ \E c \in PsConfigs : PsMirrorAdd(c)
     \/ PsMirrorDelete
     \/ \E port \in PsPorts : PsSetDepth(port, 0)
     \/ PsSetAllDepths(PsEgCap)
     \/ \E i \in 0..PsCells : PsWriteCounter(i, 0)
     \/ PsResetCounters
  /\ UNCHANGED <<psIn, psEg, psOut, psIgCalls, psEgCalls, psEnded, psNext, psMade, psOwner>>

\* PSA_Counter::count, called by the pipeline a thread is running.
PsCounted(i) ==
  /\ psIgCalls # <<>> /\ psCount[i] = 0 /\ psCount' = [psCount EXCEPT ![i] = 1]
  /\ UNCHANGED <<psIn, psEg, psOut, psIgCalls, psEgCalls, psEnded, psSession, psCap, psNext,
                 psMade, psRpcs, psOwner>>

\* ~PsaSwitch: a null packet for every thread, then join.
PsDestroy ==
  /\ \/ /\ psOwner = "run" /\ Len(psIn) < PsInCap /\ psIn' = Append(psIn, PsNull)
        /\ psOwner' = "egress" /\ UNCHANGED <<psEg, psOut>>
     \/ /\ psOwner = "egress"
        /\ psEg' = [w \in PsThreads |->
             IF PsHasRoom(w) THEN Append(psEg[w], [port |-> w, pkt |-> PsNull]) ELSE psEg[w]]
        /\ psOwner' = "output" /\ UNCHANGED <<psIn, psOut>>
     \/ /\ psOwner = "output" /\ Len(psOut) < PsOutCap /\ psOut' = Append(psOut, PsNull)
        /\ psOwner' = "join" /\ UNCHANGED <<psIn, psEg>>
     \/ /\ psOwner = "join" /\ psEnded = PsAllThreads
        /\ psOwner' = "gone" /\ UNCHANGED <<psIn, psEg, psOut>>
  /\ UNCHANGED <<psIgCalls, psEgCalls, psEnded, psSession, psCap, psCount, psNext, psMade,
                 psRpcs>>

PsaNext ==
  \/ \E port \in PsPorts : PsReceive(port)
  \/ PsIngressPop \/ PsIngressCall \/ PsTransmit \/ PsRpc \/ PsDestroy
  \/ \E w \in PsThreads : PsEgressPop(w) \/ PsEgressCall(w)
  \/ \E i \in DOMAIN psCount : PsCounted(i)

PsaSpec == PsaInit /\ [][PsaNext]_psaVars
-----------------------------------------------------------------------------
PsInputs == {psIn[i] : i \in 1..Len(psIn)}
PsQueued == UNION {{psEg[w][i] : i \in 1..Len(psEg[w])} : w \in PsThreads}
PsPaths == {"NORMAL", "NORMAL_UNICAST", "NORMAL_MULTICAST", "CLONE_I2E", "CLONE_E2E",
          "RESUBMIT", "RECIRCULATE"}

\* The buffers hold packets within their bounds, the null packet included.
PsaTypeOK ==
  /\ Len(psIn) <= PsInCap /\ Len(psOut) <= PsOutCap
  /\ \A p \in PsInputs \cup {q.pkt : q \in PsQueued} :
       p = PsNull \/ (p.bytes \in Nat /\ p.lifted \in BOOLEAN /\ {p.inPath, p.egPath} \subseteq PsPaths)
  /\ psEnded \subseteq PsAllThreads
  /\ psMade \in 0..PsMaxMade

\* A packet at egress has the bytes its packet_path promises, in wire form.
CarriesItsBytes(p) ==
  /\ ~p.lifted
  /\ CASE p.egPath = "CLONE_I2E" -> p.bytes = p.entry
       [] p.egPath \in {"NORMAL_UNICAST", "NORMAL_MULTICAST"} -> p.bytes = p.entry + 1
       [] p.egPath = "CLONE_E2E" -> p.bytes > p.entry
       [] OTHER -> FALSE

\* So has a packet at ingress, whichever way it came.
ComesBackRight(p) ==
  /\ ~p.lifted
  /\ p.inPath = "RESUBMIT" => p.bytes = p.entry
  /\ p.inPath = "RECIRCULATE" => p.inPort = PsRecirculate /\ ~p.valid /\ p.bytes > p.entry

\* Whatever sequence of clones, resubmissions, recirculations and
\* multicasts a packet went through, each copy that waits for egress is in
\* wire form and carries the bytes its packet_path promises: an ingress
\* clone those with which the packet entered the ingress parser, a unicast
\* or multicast packet what the ingress deparser wrote, an egress clone
\* what the egress deparser wrote; and a recirculated packet comes back
\* from the recirculation port with no header valid.
PathsCarryTheirBytes ==
  /\ \A q \in PsQueued : q.pkt = PsNull \/ CarriesItsBytes(q.pkt)
  /\ \A p \in PsInputs : p = PsNull \/ ComesBackRight(p)

\* Every packet on every path of the PSA switch is the one that path promises
\* (psa_switch.cpp), and the small targets lose none and use the running
\* configuration (l2_switch.cpp, simple_router.cpp, pna_nic.cpp).
TargetsSound ==
  /\ PsaTypeOK /\ PathsCarryTheirBytes
  /\ BtTypeOK /\ NothingLost /\ PointersAreCurrent

-----------------------------------------------------------------------------
(* Why PathsCarryTheirBytes holds: the pushes a thread still has to make   *)
(* are of packets that are right for where they go.                        *)
PsPacket == [null : {FALSE}, bytes : Nat, lifted : BOOLEAN, valid : BOOLEAN, inPort : Nat,
             inPath : PsPaths, egPath : PsPaths, instance : Nat, entry : Nat, port : Nat]
PsInItem == {p \in PsPacket : ComesBackRight(p)} \cup {PsNull}
PsEgItem == [port : Nat, pkt : {p \in PsPacket : CarriesItsBytes(p)} \cup {PsNull}]
PsRightCall ==
  {c \in [to : {"input", "egress", "output"}, port : Nat, pkt : PsPacket] :
     /\ c.to = "input" => ComesBackRight(c.pkt)
     /\ c.to = "egress" => CarriesItsBytes(c.pkt)}

PsaInv ==
  /\ psIn \in Seq(PsInItem) /\ Len(psIn) <= PsInCap
  /\ psEg \in [PsThreads -> Seq(PsEgItem)]
  /\ psOut \in Seq(PsPacket \cup {PsNull}) /\ Len(psOut) <= PsOutCap
  /\ psIgCalls \in Seq(PsRightCall) /\ psEgCalls \in [PsThreads -> Seq(PsRightCall)]
  /\ psSession.mgid \in PsMgids /\ psSession.port \in Nat
  /\ psEnded \subseteq PsAllThreads /\ psMade \in 0..PsMaxMade
=============================================================================
