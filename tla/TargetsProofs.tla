--------------------------- MODULE TargetsProofs ---------------------------
(***************************************************************************)
(* The targets other than simple_switch, for every number of ports,        *)
(* threads and packets and every capacity of their buffers: the bytes of   *)
(* every packet path of psa_switch, and the order of packets and the       *)
(* configuration pointers of l2_switch, simple_router and pna_nic.  And    *)
(* the device managers that bring packets in: from a message socket, from  *)
(* capture files, and from interfaces, whose ports come and go; and the    *)
(* calls of the PI server, by which a controller writes and reads the      *)
(* tables of a target.                                                     *)
(***************************************************************************)
EXTENDS PsaSwitch, PcapReplay, PiTables, DevicePorts, FiniteSetTheorems,
        WellFoundedInduction, TLAPS

-----------------------------------------------------------------------------
(* PsaSwitch: what the threads push.                                       *)

\* A packet's metadata are reset, its bytes stay.
LEMMA ResetMetadataIs ==
  ASSUME NEW p \in PsPacket
  PROVE  /\ PsResetMetadata(p) \in PsPacket
         /\ PsResetMetadata(p).lifted = p.lifted /\ PsResetMetadata(p).bytes = p.bytes
         /\ PsResetMetadata(p).entry = p.entry /\ PsResetMetadata(p).valid = p.valid
BY DEF PsResetMetadata, PsPacket, PsPaths

\* The parser lifts headers off the buffer and the deparser writes new bytes.
LEMMA DeparseIs ==
  ASSUME NEW p \in PsPacket, NEW out, out = PsDeparse(PsParse(p))
  PROVE  /\ out \in PsPacket /\ ~out.lifted /\ out.bytes = p.bytes + 1 /\ out.entry = p.entry
         /\ PsParse(p) \in PsPacket /\ PsParse(p).bytes = p.bytes /\ PsParse(p).entry = p.entry
<1> DEFINE q == PsParse(p)
<1>1. q \in PsPacket /\ q.bytes = p.bytes /\ q.entry = p.entry
  BY DEF PsParse, PsPacket
<1> HIDE DEF q
<1> DEFINE written == q.bytes + 1
<1>2. out = [q EXCEPT !.lifted = FALSE, !.bytes = written]
  BY DEF PsDeparse, q
<1>3. q.bytes \in Nat
  BY <1>1 DEF PsPacket
<1>4. written \in Nat /\ written = p.bytes + 1
  BY <1>1, <1>3
<1> HIDE DEF written
<1>5. out \in PsPacket /\ ~out.lifted /\ out.bytes = written /\ out.entry = q.entry
  BY <1>1, <1>2, <1>4 DEF PsPacket
<1> QED  BY <1>1, <1>4, <1>5 DEF q

\* A path whose promise the packet keeps.
PathKept(p, path) ==
  \/ path = "CLONE_I2E" /\ p.bytes = p.entry
  \/ path = "NORMAL_MULTICAST" /\ p.bytes = p.entry + 1
  \/ path = "CLONE_E2E" /\ p.bytes > p.entry

\* A packet on such a path is right for egress.
LEMMA EgressCallIs ==
  ASSUME NEW p \in PsPacket, ~p.lifted, PathKept(p, p.egPath), NEW port \in Nat
  PROVE  PsPush("egress", port, p) \in PsRightCall
<1>1. CarriesItsBytes(p)
  BY DEF CarriesItsBytes, PathKept
<1>2. QED
  BY <1>1 DEF PsPush, PsRightCall

\* Every copy of a multicast is right for egress, the last one too.
LEMMA MulticastIs ==
  ASSUME NEW p \in PsPacket, ~p.lifted, NEW path \in PsPaths, PathKept(p, path),
         NEW mgid \in DOMAIN PsaGroups
  PROVE  /\ PsMulticast(p, mgid, path) \in Seq(PsRightCall)
         /\ \A i \in 1 .. Len(PsMulticast(p, mgid, path)) :
              LET q == PsMulticast(p, mgid, path)[i].pkt
              IN q \in PsPacket /\ ~q.lifted /\ q.egPath = path /\ PathKept(q, path)
<1> DEFINE group == PsaGroups[mgid]
           Copy(i) == [p EXCEPT !.egPath = path, !.instance = group[i][2]]
<1>1. group \in Seq(Nat \X Nat)
  BY PsAssumption
<1>2. ASSUME NEW i \in 1 .. Len(group)
      PROVE  /\ group[i][1] \in Nat /\ group[i][2] \in Nat
             /\ Copy(i) \in PsPacket /\ ~Copy(i).lifted /\ Copy(i).egPath = path
             /\ PathKept(Copy(i), path)
  <2>1. group[i] \in Nat \X Nat
    BY <1>1
  <2>2. group[i][1] \in Nat /\ group[i][2] \in Nat
    BY <2>1
  <2>3. /\ Copy(i) \in PsPacket /\ ~Copy(i).lifted /\ Copy(i).egPath = path
        /\ Copy(i).bytes = p.bytes /\ Copy(i).entry = p.entry
    BY <2>2 DEF PsPacket
  <2> QED  BY <2>2, <2>3 DEF PathKept
<1>3. ASSUME NEW i \in 1 .. Len(group)
      PROVE  PsPush("egress", group[i][1], Copy(i)) \in PsRightCall
  BY <1>2, EgressCallIs
<1>4. PsMulticast(p, mgid, path) =
        [i \in 1 .. Len(group) |-> PsPush("egress", group[i][1], Copy(i))]
  BY DEF PsMulticast
<1> HIDE DEF group, Copy
<1>5. Len(group) \in Nat
  BY <1>1
<1>6. PsMulticast(p, mgid, path) \in Seq(PsRightCall)
  BY <1>3, <1>4, <1>5
<1>7. Len(PsMulticast(p, mgid, path)) = Len(group)
  BY <1>4, <1>5
<1>8. \A i \in 1 .. Len(group) : PsMulticast(p, mgid, path)[i].pkt = Copy(i)
  BY <1>4 DEF PsPush
<1> QED  BY <1>2, <1>6, <1>7, <1>8

\* A clone session pushes packets that keep the promise of its path.
LEMMA CloneIs ==
  ASSUME PsaInv, NEW p \in PsPacket, ~p.lifted, NEW path \in {"CLONE_I2E", "CLONE_E2E"},
         PathKept(p, path)
  PROVE  PsClone(p, path) \in Seq(PsRightCall)
<1> DEFINE plain == [p EXCEPT !.valid = FALSE]
           copy == [PsResetMetadata(plain) EXCEPT !.egPath = path]
           copies == IF psSession.mgid = 0 THEN <<>>
                     ELSE PsMulticast(copy, psSession.mgid, path)
           after == IF copies = <<>> THEN copy ELSE Last(copies).pkt
           unicast == IF psSession.port = PsNoPort THEN <<>>
                      ELSE <<PsPush("egress", psSession.port, after)>>
<1>1. plain \in PsPacket /\ plain.lifted = p.lifted /\ plain.bytes = p.bytes /\ plain.entry = p.entry
  BY DEF PsPacket
<1>2. /\ copy \in PsPacket /\ ~copy.lifted /\ copy.egPath = path
      /\ copy.bytes = p.bytes /\ copy.entry = p.entry
  <2>1. /\ PsResetMetadata(plain) \in PsPacket /\ ~PsResetMetadata(plain).lifted
        /\ PsResetMetadata(plain).bytes = p.bytes /\ PsResetMetadata(plain).entry = p.entry
    BY <1>1, ResetMetadataIs
  <2> QED  BY <2>1 DEF PsPacket, PsPaths
<1>3. PathKept(copy, path) /\ path \in PsPaths
  BY <1>2 DEF PathKept, PsPaths
<1> HIDE DEF copy
<1>4. psSession.mgid \in PsMgids /\ psSession.port \in Nat
  BY DEF PsaInv
<1>5. /\ copies \in Seq(PsRightCall)
      /\ \A i \in 1 .. Len(copies) :
           /\ copies[i].pkt \in PsPacket /\ ~copies[i].pkt.lifted
           /\ copies[i].pkt.egPath = path /\ PathKept(copies[i].pkt, path)
  <2>1. CASE psSession.mgid = 0
    BY <2>1
  <2>2. CASE psSession.mgid # 0
    <3>1. psSession.mgid \in DOMAIN PsaGroups
      BY <1>4, <2>2 DEF PsMgids
    <3> QED  BY <1>2, <1>3, <2>2, <3>1, MulticastIs
  <2> QED  BY <2>1, <2>2
<1> HIDE DEF copies
<1>6. after \in PsPacket /\ ~after.lifted /\ after.egPath = path /\ PathKept(after, path)
  <2>1. CASE copies = <<>>
    BY <1>2, <1>3, <2>1
  <2>2. CASE copies # <<>>
    <3>1. Len(copies) \in 1 .. Len(copies)
      BY <1>5, <2>2
    <3> QED  BY <1>5, <2>2, <3>1 DEF Last
  <2> QED  BY <2>1, <2>2
<1> HIDE DEF after
<1>7. unicast \in Seq(PsRightCall)
  BY <1>4, <1>6, EgressCallIs
<1>8. PsClone(p, path) = copies \o unicast
  BY DEF PsClone, copies, after, copy
<1> QED  BY <1>5, <1>7, <1>8

\* Whatever the ingress program decides, the ingress thread pushes packets that
\* are right for where they go.
LEMMA IngressIs ==
  ASSUME PsaInv, NEW p \in PsPacket, ~p.lifted, p.bytes = p.entry, NEW o \in PsOutcomes
  PROVE  PsIngress(p, o) \in Seq(PsRightCall)
<1> DEFINE q == PsParse(p)
           out == PsDeparse(q)
           clones == IF o.clone THEN IngressClones(p, q) ELSE <<>>
           again == [PsResetMetadata(q) EXCEPT !.lifted = p.lifted, !.inPath = "RESUBMIT"]
           one == [out EXCEPT !.egPath = "NORMAL_UNICAST", !.instance = 0]
           rest == CASE o.drop -> <<>>
                     [] ~o.drop /\ o.resubmit -> <<PsPush("input", 0, again)>>
                     [] ~o.drop /\ ~o.resubmit /\ o.mgid # 0 ->
                          PsMulticast(out, o.mgid, "NORMAL_MULTICAST")
                     [] OTHER -> <<PsPush("egress", o.port, one)>>
<1>1. /\ out \in PsPacket /\ ~out.lifted /\ out.bytes = p.bytes + 1 /\ out.entry = p.entry
      /\ q \in PsPacket /\ q.bytes = p.bytes /\ q.entry = p.entry
  BY DeparseIs
<1>2. clones \in Seq(PsRightCall)
  <2>1. PathKept(p, "CLONE_I2E")
    BY DEF PathKept
  <2>2. PsClone(p, "CLONE_I2E") \in Seq(PsRightCall)
    BY <2>1, CloneIs
  <2> QED  BY <2>2 DEF IngressClones
<1>3. PsPush("input", 0, again) \in PsRightCall
  <2> DEFINE r == PsResetMetadata(q)
  <2>1. r \in PsPacket /\ r.bytes = p.bytes /\ r.entry = p.entry
    BY <1>1, ResetMetadataIs
  <2> HIDE DEF r
  <2>2. p.lifted \in BOOLEAN
    BY DEF PsPacket
  <2>3. again = [r EXCEPT !.lifted = p.lifted, !.inPath = "RESUBMIT"]
    BY DEF r
  <2>4. /\ again \in PsPacket /\ again.lifted = p.lifted /\ again.inPath = "RESUBMIT"
        /\ again.bytes = r.bytes /\ again.entry = r.entry
    BY <2>1, <2>2, <2>3 DEF PsPacket, PsPaths
  <2>5. ComesBackRight(again)
    BY <2>1, <2>4 DEF ComesBackRight
  <2> HIDE DEF again
  <2> QED  BY <2>4, <2>5 DEF PsPush, PsRightCall
<1>4. o.mgid \in PsMgids /\ o.port \in Nat /\ o.drop \in BOOLEAN /\ o.resubmit \in BOOLEAN
  BY PsAssumption
<1> HIDE DEF out, q, clones, again
<1>5. PsPush("egress", o.port, one) \in PsRightCall
  <2>1. /\ one \in PsPacket /\ ~one.lifted /\ one.egPath = "NORMAL_UNICAST"
        /\ one.bytes = out.bytes /\ one.entry = out.entry
    BY <1>1 DEF PsPacket, PsPaths
  <2>2. CarriesItsBytes(one)
    BY <1>1, <2>1 DEF CarriesItsBytes
  <2> HIDE DEF one
  <2> QED  BY <1>4, <2>1, <2>2 DEF PsPush, PsRightCall
<1> HIDE DEF one
<1>6. o.mgid # 0 => PsMulticast(out, o.mgid, "NORMAL_MULTICAST") \in Seq(PsRightCall)
  <2>1. PathKept(out, "NORMAL_MULTICAST") /\ "NORMAL_MULTICAST" \in PsPaths
    BY <1>1 DEF PathKept, PsPaths
  <2>2. o.mgid # 0 => o.mgid \in DOMAIN PsaGroups
    BY <1>4 DEF PsMgids
  <2> QED  BY <1>1, <2>1, <2>2, MulticastIs
<1>7. rest \in Seq(PsRightCall)
  <2>1. CASE o.drop
    BY <2>1
  <2>2. CASE ~o.drop /\ o.resubmit
    BY <1>3, <2>2
  <2>3. CASE ~o.drop /\ ~o.resubmit /\ o.mgid # 0
    BY <1>6, <2>3
  <2>4. CASE ~o.drop /\ ~o.resubmit /\ o.mgid = 0
    BY <1>5, <2>4
  <2> QED  BY <2>1, <2>2, <2>3, <2>4
<1>8. PsIngress(p, o) = clones \o rest
  BY DEF PsIngress, clones, q, out, again, one
<1> HIDE DEF rest
<1> QED  BY <1>2, <1>7, <1>8

\* So does an egress thread.
LEMMA EgressIs ==
  ASSUME PsaInv, NEW port \in Nat, NEW p \in PsPacket, CarriesItsBytes(p), NEW o \in PsOutcomes
  PROVE  PsEgress(port, p, o) \in Seq(PsRightCall)
<1> DEFINE plain == [p EXCEPT !.valid = FALSE]
           out == PsDeparse(PsParse(plain))
           clones == IF o.clone THEN PsClone(out, "CLONE_E2E") ELSE <<>>
           back == [PsResetMetadata(out) EXCEPT !.valid = FALSE,
                       !.inPort = PsRecirculate, !.inPath = "RECIRCULATE"]
           rest == CASE o.drop -> <<>>
                     [] ~o.drop /\ port = PsRecirculate -> <<PsPush("input", 0, back)>>
                     [] OTHER -> <<PsPush("output", port, out)>>
<1>1. plain \in PsPacket /\ plain.bytes = p.bytes /\ plain.entry = p.entry
  BY DEF PsPacket
<1>2. p.bytes \in Nat /\ p.entry \in Nat /\ p.bytes >= p.entry
  <2>1. p.bytes \in Nat /\ p.entry \in Nat
    BY DEF PsPacket
  <2> QED  BY <2>1 DEF CarriesItsBytes
<1> HIDE DEF plain
<1>3. out \in PsPacket /\ ~out.lifted /\ out.bytes = p.bytes + 1 /\ out.entry = p.entry
  BY <1>1, DeparseIs
<1> HIDE DEF out
<1>4. out.bytes > out.entry
  BY <1>2, <1>3
<1>5. clones \in Seq(PsRightCall)
  <2>1. PathKept(out, "CLONE_E2E")
    BY <1>4 DEF PathKept
  <2>2. PsClone(out, "CLONE_E2E") \in Seq(PsRightCall)
    BY <1>3, <2>1, CloneIs
  <2> QED  BY <2>2
<1>6. PsPush("input", 0, back) \in PsRightCall
  <2> DEFINE r == PsResetMetadata(out)
  <2>1. r \in PsPacket /\ r.bytes = out.bytes /\ r.entry = out.entry /\ ~r.lifted
    BY <1>3, ResetMetadataIs
  <2> HIDE DEF r
  <2>2. back = [r EXCEPT !.valid = FALSE, !.inPort = PsRecirculate, !.inPath = "RECIRCULATE"]
    BY DEF r
  <2>3. /\ back \in PsPacket /\ ~back.lifted /\ back.inPath = "RECIRCULATE" /\ ~back.valid
        /\ back.inPort = PsRecirculate /\ back.bytes = r.bytes /\ back.entry = r.entry
    BY <2>1, <2>2 DEF PsPacket, PsPaths, PsRecirculate
  <2>4. ComesBackRight(back)
    BY <1>4, <2>1, <2>3 DEF ComesBackRight
  <2> HIDE DEF back
  <2> QED  BY <2>3, <2>4 DEF PsPush, PsRightCall
<1>7. PsPush("output", port, out) \in PsRightCall
  BY <1>3 DEF PsPush, PsRightCall
<1> HIDE DEF back, clones
<1>8. rest \in Seq(PsRightCall)
  <2>1. CASE o.drop
    BY <2>1
  <2>2. CASE ~o.drop /\ port = PsRecirculate
    BY <1>6, <2>2
  <2>3. CASE ~o.drop /\ port # PsRecirculate
    BY <1>7, <2>3
  <2> QED  BY <2>1, <2>2, <2>3
<1>9. PsEgress(port, p, o) = clones \o rest
  BY DEF PsEgress, clones, out, plain, back
<1> HIDE DEF rest
<1> QED  BY <1>5, <1>8, <1>9

-----------------------------------------------------------------------------
(* PsaSwitch: the steps.                                                   *)

\* A null packet is told by its flag, in each of the buffers.
LEMMA NullIs ==
  /\ \A p \in PsInItem : p.null \in BOOLEAN /\ (~p.null => p \in PsPacket /\ ComesBackRight(p))
  /\ \A q \in PsEgItem : /\ q.port \in Nat
                         /\ ~q.pkt.null => q.pkt \in PsPacket /\ CarriesItsBytes(q.pkt)
<1>1. PsNull.null /\ \A p \in PsPacket : ~p.null
  BY DEF PsNull, PsPacket
<1>2. \A p \in PsPacket : p.null \in BOOLEAN
  BY DEF PsPacket
<1>3. PsNull.null \in BOOLEAN
  BY DEF PsNull
<1>4. \A p \in PsInItem : p.null \in BOOLEAN /\ (~p.null => p \in PsPacket /\ ComesBackRight(p))
  BY <1>1, <1>2, <1>3 DEF PsInItem
<1>5. \A q \in PsEgItem : q.port \in Nat /\ (~q.pkt.null => q.pkt \in PsPacket /\ CarriesItsBytes(q.pkt))
  BY <1>1 DEF PsEgItem
<1> QED  BY <1>4, <1>5

\* The switch starts with empty buffers.
LEMMA PsaBegins == PsaInit => PsaInv
BY PsAssumption DEF PsaInit, PsaInv, PsNoSession, PsNoPort, PsMgids

\* A packet comes in from the wire.
LEMMA ReceiveKeeps ==
  ASSUME PsaInv, NEW port \in PsPorts, PsReceive(port)
  PROVE  PsaInv'
<1> DEFINE p == [null |-> FALSE, bytes |-> 0, lifted |-> FALSE, valid |-> FALSE,
                 inPort |-> port, inPath |-> "NORMAL", egPath |-> "NORMAL",
                 instance |-> 0, entry |-> 0, port |-> port]
<1>1. p \in PsPacket /\ ~p.lifted /\ p.inPath = "NORMAL"
  BY PsAssumption DEF PsPacket, PsPaths
<1> HIDE DEF p
<1>2. p \in PsInItem
  BY <1>1 DEF PsInItem, ComesBackRight
<1>3. psIn' = Append(psIn, p) /\ Len(psIn) < PsInCap
  BY DEF PsReceive, p
<1>4. psIn' \in Seq(PsInItem) /\ Len(psIn') <= PsInCap
  BY <1>2, <1>3, PsAssumption DEF PsaInv
<1>5. psMade' \in 0 .. PsMaxMade
  BY PsAssumption DEF PsReceive, PsaInv
<1> QED  BY <1>4, <1>5 DEF PsReceive, PsaInv

\* The ingress thread takes a packet and knows what to push, or ends.
LEMMA IngressPopKeeps ==
  ASSUME PsaInv, PsIngressPop
  PROVE  PsaInv'
<1> DEFINE p == Head(psIn)
<1>1. /\ psIn # <<>> /\ psIn' = Tail(psIn)
      /\ UNCHANGED <<psEg, psOut, psEgCalls, psSession>>
  BY DEF PsIngressPop
<1>2. p \in PsInItem /\ psIn' \in Seq(PsInItem) /\ Len(psIn') <= PsInCap
  BY <1>1, PsAssumption DEF PsaInv
<1>3. CASE p.null
  <2>1. psEnded' = psEnded \cup {PsIngressThread} /\ UNCHANGED <<psIgCalls, psMade>>
    BY <1>3 DEF PsIngressPop
  <2> QED  BY <1>1, <1>2, <2>1 DEF PsaInv, PsAllThreads
<1>4. CASE ~p.null
  <2> DEFINE first == IF p.inPath = "RESUBMIT" THEN p
                      ELSE [p EXCEPT !.entry = p.bytes, !.port = p.inPort]
  <2>1. p \in PsPacket /\ ComesBackRight(p)
    BY <1>2, <1>4, NullIs
  <2>2. first \in PsPacket /\ ~first.lifted /\ first.bytes = first.entry
    <3>1. CASE p.inPath = "RESUBMIT"
      BY <2>1, <3>1 DEF ComesBackRight
    <3>2. CASE p.inPath # "RESUBMIT"
      BY <2>1, <3>2 DEF ComesBackRight, PsPacket
    <3> QED  BY <3>1, <3>2
  <2>3. PICK o \in PsOutcomes :
          LET calls == PsIngress(first, o)
          IN  /\ psMade + Len(calls) <= PsMaxMade
              /\ psIgCalls' = calls /\ psMade' = psMade + Len(calls)
              /\ UNCHANGED psEnded
    BY <1>4 DEF PsIngressPop
  <2> HIDE DEF first
  <2>4. psIgCalls' \in Seq(PsRightCall)
    BY <2>2, <2>3, IngressIs
  <2>5. psMade' \in 0 .. PsMaxMade
    <3>1. Len(psIgCalls') \in Nat /\ psMade \in 0 .. PsMaxMade
      BY <2>4 DEF PsaInv
    <3> QED  BY <2>3, <3>1, PsAssumption
  <2>6. UNCHANGED psEnded
    BY <2>3
  <2> QED  BY <1>1, <1>2, <2>4, <2>5, <2>6 DEF PsaInv
<1> QED  BY <1>3, <1>4

\* An egress thread likewise.
LEMMA EgressPopKeeps ==
  ASSUME PsaInv, NEW w \in PsThreads, PsEgressPop(w)
  PROVE  PsaInv'
<1> DEFINE q == Head(psEg[w])
<1>1. /\ psEg[w] # <<>> /\ psEg' = [psEg EXCEPT ![w] = Tail(@)]
      /\ UNCHANGED <<psIn, psOut, psIgCalls, psSession>>
  BY DEF PsEgressPop
<1>2. psEg[w] \in Seq(PsEgItem)
  BY DEF PsaInv
<1>3. q \in PsEgItem /\ Tail(psEg[w]) \in Seq(PsEgItem)
  BY <1>1, <1>2
<1>4. psEg' \in [PsThreads -> Seq(PsEgItem)]
  BY <1>1, <1>3 DEF PsaInv
<1>5. CASE q.pkt.null
  <2>1. psEnded' = psEnded \cup {<<"egress", w>>} /\ UNCHANGED <<psEgCalls, psMade>>
    BY <1>5 DEF PsEgressPop
  <2> QED  BY <1>1, <1>4, <2>1 DEF PsaInv, PsAllThreads
<1>6. CASE ~q.pkt.null
  <2>1. q.port \in Nat /\ q.pkt \in PsPacket /\ CarriesItsBytes(q.pkt)
    BY <1>3, <1>6, NullIs
  <2>2. PICK o \in PsOutcomes :
          LET calls == PsEgress(q.port, q.pkt, o)
          IN  /\ psMade + Len(calls) <= PsMaxMade
              /\ psEgCalls' = [psEgCalls EXCEPT ![w] = calls]
              /\ psMade' = psMade + Len(calls)
              /\ UNCHANGED psEnded
    BY <1>6 DEF PsEgressPop
  <2> DEFINE calls == PsEgress(q.port, q.pkt, o)
  <2>3. calls \in Seq(PsRightCall)
    BY <2>1, EgressIs
  <2>4. psEgCalls' = [psEgCalls EXCEPT ![w] = calls] /\ psMade' = psMade + Len(calls)
        /\ psMade + Len(calls) <= PsMaxMade /\ UNCHANGED psEnded
    BY <2>2
  <2> HIDE DEF calls
  <2>5. psEgCalls' \in [PsThreads -> Seq(PsRightCall)]
    BY <2>3, <2>4 DEF PsaInv
  <2>6. psMade' \in 0 .. PsMaxMade
    <3>1. Len(calls) \in Nat /\ psMade \in 0 .. PsMaxMade
      BY <2>3 DEF PsaInv
    <3> QED  BY <2>4, <3>1, PsAssumption
  <2> QED  BY <1>1, <1>4, <2>4, <2>5, <2>6 DEF PsaInv
<1> QED  BY <1>5, <1>6

\* One push puts a packet where it is right.
LEMMA CallKeeps ==
  ASSUME PsaInv, NEW c \in PsRightCall, PsCall(c)
  PROVE  /\ psIn' \in Seq(PsInItem) /\ Len(psIn') <= PsInCap
         /\ psEg' \in [PsThreads -> Seq(PsEgItem)]
         /\ psOut' \in Seq(PsPacket \cup {PsNull}) /\ Len(psOut') <= PsOutCap
<1>1. c.pkt \in PsPacket /\ c.port \in Nat
  BY DEF PsRightCall
<1>2. CASE c.to = "egress" /\ psEg' = PsEgressPushed(c.port, c.pkt) /\ UNCHANGED <<psIn, psOut>>
  <2> DEFINE w == PsMapper(c.port)
             item == [port |-> c.port, pkt |-> c.pkt]
  <2>1. item \in PsEgItem
    BY <1>1, <1>2 DEF PsRightCall, PsEgItem
  <2>2. w \in PsThreads
    BY <1>1, PsAssumption DEF PsMapper, PsThreads
  <2>3. psEg[w] \in Seq(PsEgItem)
    BY <2>2 DEF PsaInv
  <2>4. psEg' = psEg \/ psEg' = [psEg EXCEPT ![w] = Append(@, item)]
    BY <1>2 DEF PsEgressPushed
  <2> HIDE DEF w, item
  <2>5. Append(psEg[w], item) \in Seq(PsEgItem)
    BY <2>1, <2>3
  <2>6. psEg' \in [PsThreads -> Seq(PsEgItem)]
    BY <2>2, <2>4, <2>5 DEF PsaInv
  <2> QED  BY <1>2, <2>6 DEF PsaInv
<1>3. CASE /\ c.to = "input" /\ Len(psIn) < PsInCap
           /\ psIn' = Append(psIn, c.pkt) /\ UNCHANGED <<psEg, psOut>>
  <2>1. c.pkt \in PsInItem
    BY <1>1, <1>3 DEF PsRightCall, PsInItem
  <2>2. psIn' \in Seq(PsInItem) /\ Len(psIn') <= PsInCap
    BY <1>3, <2>1, PsAssumption DEF PsaInv
  <2> QED  BY <1>3, <2>2 DEF PsaInv
<1>4. CASE /\ c.to = "output" /\ Len(psOut) < PsOutCap
           /\ psOut' = Append(psOut, c.pkt) /\ UNCHANGED <<psEg, psIn>>
  <2>1. psOut' \in Seq(PsPacket \cup {PsNull}) /\ Len(psOut') <= PsOutCap
    BY <1>1, <1>4, PsAssumption DEF PsaInv
  <2> QED  BY <1>4, <2>1 DEF PsaInv
<1> QED  BY <1>2, <1>3, <1>4 DEF PsCall

\* Every step of the switch keeps its packets right.
LEMMA PsaSteps == PsaInv /\ [PsaNext]_psaVars => PsaInv'
<1> SUFFICES ASSUME PsaInv, [PsaNext]_psaVars PROVE PsaInv'  OBVIOUS
<1>1. CASE PsIngressCall
  <2>1. Head(psIgCalls) \in PsRightCall /\ Tail(psIgCalls) \in Seq(PsRightCall)
    BY <1>1 DEF PsIngressCall, PsaInv
  <2>2. /\ psIn' \in Seq(PsInItem) /\ Len(psIn') <= PsInCap
        /\ psEg' \in [PsThreads -> Seq(PsEgItem)]
        /\ psOut' \in Seq(PsPacket \cup {PsNull}) /\ Len(psOut') <= PsOutCap
    BY <1>1, <2>1, CallKeeps DEF PsIngressCall
  <2> QED  BY <1>1, <2>1, <2>2 DEF PsIngressCall, PsaInv
<1>2. ASSUME NEW w \in PsThreads, PsEgressCall(w) PROVE PsaInv'
  <2>0. psEgCalls[w] \in Seq(PsRightCall)
    BY DEF PsaInv
  <2>1. Head(psEgCalls[w]) \in PsRightCall /\ Tail(psEgCalls[w]) \in Seq(PsRightCall)
    BY <1>2, <2>0 DEF PsEgressCall
  <2>2. /\ psIn' \in Seq(PsInItem) /\ Len(psIn') <= PsInCap
        /\ psEg' \in [PsThreads -> Seq(PsEgItem)]
        /\ psOut' \in Seq(PsPacket \cup {PsNull}) /\ Len(psOut') <= PsOutCap
    BY <1>2, <2>1, CallKeeps DEF PsEgressCall
  <2>3. psEgCalls' \in [PsThreads -> Seq(PsRightCall)]
    BY <1>2, <2>1 DEF PsEgressCall, PsaInv
  <2> QED  BY <1>2, <2>2, <2>3 DEF PsEgressCall, PsaInv
<1>3. CASE PsTransmit
  <2>1. psOut' \in Seq(PsPacket \cup {PsNull}) /\ Len(psOut') <= PsOutCap
    BY <1>3, PsAssumption DEF PsTransmit, PsaInv
  <2> QED  BY <1>3, <2>1 DEF PsTransmit, PsaInv, PsAllThreads
<1>4. CASE PsRpc
  <2>1. psSession'.mgid \in PsMgids /\ psSession'.port \in Nat
    BY <1>4, PsAssumption DEF PsRpc, PsMirrorAdd, PsMirrorDelete, PsSetDepth, PsSetAllDepths,
       PsWriteCounter, PsResetCounters, PsNoSession, PsNoPort, PsMgids, PsaInv
  <2> QED  BY <1>4, <2>1 DEF PsRpc, PsaInv
<1>5. CASE PsDestroy
  <2>1. PsNull \in PsInItem /\ \A w \in PsThreads : w \in Nat /\ [port |-> w, pkt |-> PsNull] \in PsEgItem
    BY PsAssumption DEF PsInItem, PsEgItem, PsThreads
  <2>2. psIn' \in Seq(PsInItem) /\ Len(psIn') <= PsInCap
    <3>1. psIn' = psIn \/ (Len(psIn) < PsInCap /\ psIn' = Append(psIn, PsNull))
      BY <1>5 DEF PsDestroy
    <3>2. psIn \in Seq(PsInItem) /\ Len(psIn) <= PsInCap
      BY DEF PsaInv
    <3> QED  BY <2>1, <3>1, <3>2, PsAssumption
  <2>3. psEg' \in [PsThreads -> Seq(PsEgItem)]
    <3>1. ASSUME psEg' = [w \in PsThreads |->
                 IF PsHasRoom(w) THEN Append(psEg[w], [port |-> w, pkt |-> PsNull]) ELSE psEg[w]]
          PROVE  psEg' \in [PsThreads -> Seq(PsEgItem)]
      <4>1. \A w \in PsThreads : psEg[w] \in Seq(PsEgItem)
        BY DEF PsaInv
      <4>2. \A w \in PsThreads : Append(psEg[w], [port |-> w, pkt |-> PsNull]) \in Seq(PsEgItem)
        BY <2>1, <4>1
      <4> QED  BY <3>1, <4>1, <4>2
    <3> QED  BY <1>5, <3>1 DEF PsDestroy, PsaInv
  <2>4. psOut' \in Seq(PsPacket \cup {PsNull}) /\ Len(psOut') <= PsOutCap
    <3>1. psOut' = psOut \/ (Len(psOut) < PsOutCap /\ psOut' = Append(psOut, PsNull))
      BY <1>5 DEF PsDestroy
    <3>2. psOut \in Seq(PsPacket \cup {PsNull}) /\ Len(psOut) <= PsOutCap
      BY DEF PsaInv
    <3> QED  BY <3>1, <3>2, PsAssumption
  <2> QED  BY <1>5, <2>2, <2>3, <2>4 DEF PsDestroy, PsaInv
<1>6. CASE (\E i \in DOMAIN psCount : PsCounted(i)) \/ UNCHANGED psaVars
  BY <1>6 DEF PsCounted, psaVars, PsaInv
<1> QED
  BY <1>1, <1>2, <1>3, <1>4, <1>5, <1>6, ReceiveKeeps, IngressPopKeeps, EgressPopKeeps DEF PsaNext

\* The packets of psa_switch are right for every buffer they wait in, for every
\* number of ports, groups and egress threads.
THEOREM PsaInvariant == PsaSpec => []PsaInv
BY PsaBegins, PsaSteps, PTL DEF PsaSpec

\* The invariant says what the buffers hold.
LEMMA PsaInvSuffices == PsaInv => PsaTypeOK /\ PathsCarryTheirBytes
<1> SUFFICES ASSUME PsaInv PROVE PsaTypeOK /\ PathsCarryTheirBytes  OBVIOUS
<1>1. \A p \in PsInputs : p \in PsInItem
  BY DEF PsInputs, PsaInv
<1>2. ASSUME NEW q \in PsQueued PROVE q \in PsEgItem
  <2>1. PICK w \in PsThreads : q \in {psEg[w][i] : i \in 1..Len(psEg[w])}
    BY DEF PsQueued
  <2>2. psEg[w] \in Seq(PsEgItem)
    BY DEF PsaInv
  <2> QED  BY <2>1, <2>2
<1>3. \A p \in PsPacket : /\ p.bytes \in Nat /\ p.lifted \in BOOLEAN
                          /\ p.inPath \in PsPaths /\ p.egPath \in PsPaths
  BY DEF PsPacket
<1>4. \A p \in PsInItem : p = PsNull \/ (p \in PsPacket /\ ComesBackRight(p))
  BY DEF PsInItem
<1>5. \A q \in PsEgItem : q.pkt = PsNull \/ (q.pkt \in PsPacket /\ CarriesItsBytes(q.pkt))
  BY DEF PsEgItem
<1>6. PathsCarryTheirBytes
  BY <1>1, <1>2, <1>4, <1>5 DEF PathsCarryTheirBytes
<1>7. ASSUME NEW p \in PsInputs \cup {q.pkt : q \in PsQueued}
      PROVE  p = PsNull \/ p \in PsPacket
  BY <1>1, <1>2, <1>4, <1>5
<1>8. PsaTypeOK
  BY <1>3, <1>7 DEF PsaTypeOK, PsaInv
<1> QED  BY <1>6, <1>8

-----------------------------------------------------------------------------
(* BasicTargets: places in the output buffer.                              *)

\* The nullptr counted is none or one.
LEMMA SkippedIs == \A i : Skipped(i) \in {0, 1}
BY DEF Skipped

\* A packet's place in what was promised is within it.
LEMMA PlaceIs ==
  ASSUME BtTypes, NothingLost, NEW i \in DOMAIN btOut, btOut[i] # BtNull
  PROVE  Len(btSent) + i - Skipped(i) \in 1 .. Len(btPromised) - Len(btTodo)
<1>1. /\ Len(btSent) \in Nat /\ Len(btOut) \in Nat /\ Len(btTodo) \in Nat
      /\ Len(btPromised) \in Nat /\ DOMAIN btOut = 1 .. Len(btOut)
  BY DEF BtTypes
<1>2. Len(btPromised) - Len(btTodo) = Len(btSent) + Len(btOut) - Skipped(Len(btOut) + 1)
  BY <1>1, SkippedIs DEF NothingLost
<1>3. Skipped(i) = 1 => i > 1
  BY <1>1 DEF Skipped
<1>4. Skipped(Len(btOut) + 1) = 1 => Skipped(i) = 1 \/ i < Len(btOut)
  <2> SUFFICES ASSUME Skipped(Len(btOut) + 1) = 1, Skipped(i) # 1 PROVE i < Len(btOut)
    OBVIOUS
  <2>1. PICK j \in DOMAIN btOut : btOut[j] = BtNull
    BY DEF Skipped
  <2>2. ~(j < i) /\ j # i
    BY <2>1 DEF Skipped
  <2> QED  BY <1>1, <2>2
<1>5. Skipped(i) \in {0, 1} /\ Skipped(Len(btOut) + 1) \in {0, 1} /\ i \in 1 .. Len(btOut)
  BY <1>1, SkippedIs
<1> QED  BY <1>1, <1>2, <1>3, <1>4, <1>5, SMTT(40)

\* Nothing is counted that is not there.
LEMMA NoneSkipped ==
  ASSUME \A j \in DOMAIN btOut : btOut[j] # BtNull
  PROVE  \A i : Skipped(i) = 0
BY DEF Skipped

\* What the buffers hold, packet by packet.
LEMMA BtElements ==
  ASSUME BtTypes
  PROVE  /\ \A k \in DOMAIN btPromised : btPromised[k] \in BtPacket /\ btPromised[k].id \in Nat
         /\ \A p \in btPkt : p \in BtPacket /\ p.id \in Nat /\ p.id # 0 /\ p.port \in BtPorts
         /\ \A r \in btRecv : r \in BtPacket /\ r.id \in Nat
         /\ \A i \in DOMAIN btIn : btIn[i] # BtNull =>
              btIn[i] \in BtPacket /\ btIn[i].id \in Nat /\ btIn[i].port \in BtPorts
<1>1. \A p \in BtPacket : p.id \in Nat /\ p.id # 0
  BY DEF BtPacket
<1>2. ASSUME NEW k \in DOMAIN btPromised PROVE btPromised[k] \in BtPacket
  BY DEF BtTypes
<1>3. ASSUME NEW i \in DOMAIN btIn PROVE btIn[i] \in BtPacket \cup {BtNull}
  BY DEF BtTypes
<1>4. \A i \in DOMAIN btIn : btIn[i] = BtNull \/ btIn[i].port \in BtPorts
  BY DEF BtTypes
<1>5. \A p \in btPkt \cup btRecv : p \in BtPacket /\ p.port \in BtPorts
  BY DEF BtTypes
<1> QED  BY <1>1, <1>2, <1>3, <1>4, <1>5

\* Steps that leave the output side alone lose nothing.
LEMMA OutputKept ==
  ASSUME BtInv, UNCHANGED <<btSent, btPromised, btOut, btTodo>>,
         btTodo = <<>> \/ btPkt' = btPkt
  PROVE  NothingLost'
<1>1. \A i : Skipped(i)' = Skipped(i)
  BY DEF Skipped
<1>2. \A i \in DOMAIN btTodo', p \in btPkt' :
        btPromised'[Len(btPromised') - Len(btTodo') + i] = [id |-> p.id, port |-> btTodo'[i]]
  BY SMTT(40) DEF BtInv, NothingLost
<1> QED  BY <1>1, <1>2 DEF BtInv, NothingLost

\* The buffers start empty.
LEMMA BtBegins == BtInit => BtInv
<1> SUFFICES ASSUME BtInit PROVE BtInv  OBVIOUS
<1>1. BtTypes
  BY BtAssumption DEF BtInit, BtTypes
<1>2. OneSentinel /\ BtOrdered /\ BtPointed /\ PointersAreCurrent
  BY DEF BtInit, OneSentinel, BtOrdered, BtPointed, PointersAreCurrent
<1>3. NothingLost
  BY NoneSkipped DEF BtInit, NothingLost
<1> QED  BY <1>1, <1>2, <1>3 DEF BtInv

\* A packet is received, with the next number.
LEMMA BtReceiveKeeps ==
  ASSUME BtInv, NEW port \in BtPorts, BtReceive(port)
  PROVE  BtInv'
<1> DEFINE r == [id |-> btMade + 1, port |-> port]
<1>1. /\ btRecv = {} /\ btMade' = btMade + 1 /\ btRecv' = {r} /\ btMade \in Nat
      /\ UNCHANGED <<btTarget, btIn, btOut, btPc, btPkt, btTodo, btConfig, btPointers,
                     btNotified, btStop, btSent, btPromised>>
  BY DEF BtReceive, BtInv, BtTypes
<1>2. r \in BtPacket /\ r.id = btMade + 1 /\ r.port = port
  BY <1>1, BtAssumption DEF BtPacket
<1> HIDE DEF r
<1>3. BtTypes'
  BY <1>1, <1>2 DEF BtInv, BtTypes
<1>4. OneSentinel' /\ BtPointed' /\ PointersAreCurrent'
  BY <1>1 DEF BtInv, OneSentinel, BtPointed, PointersAreCurrent
<1>5. BtOrdered'
  <2>1. /\ \A k \in DOMAIN btPromised : btPromised[k].id \in Nat
        /\ \A p \in btPkt : p.id \in Nat
        /\ \A i \in DOMAIN btIn : btIn[i] # BtNull => btIn[i].id \in Nat
    BY BtElements DEF BtInv
  <2>2. BtOrdered
    BY DEF BtInv
  <2>3. \A k \in DOMAIN btPromised : btPromised[k].id < r.id /\ btPromised[k].id <= btMade'
    BY <1>1, <1>2, <2>1, <2>2 DEF BtOrdered
  <2>4. \A p \in btPkt : p.id < r.id /\ p.id <= btMade'
    BY <1>1, <1>2, <2>1, <2>2 DEF BtOrdered
  <2>5. \A i \in DOMAIN btIn : btIn[i] # BtNull => btIn[i].id < r.id /\ btIn[i].id <= btMade'
    BY <1>1, <1>2, <2>1, <2>2 DEF BtOrdered
  <2> QED  BY <1>1, <2>2, <2>3, <2>4, <2>5 DEF BtOrdered
<1>6. NothingLost'
  BY <1>1, OutputKept
<1> QED  BY <1>3, <1>4, <1>5, <1>6 DEF BtInv

\* It goes to the end of the input buffer, and is the newest there.
LEMMA BtQueueInKeeps ==
  ASSUME BtInv, BtQueueIn
  PROVE  BtInv'
<1>1. PICK r \in btRecv : btIn' = Append(btIn, r)
  BY DEF BtQueueIn
<1>2. /\ Len(btIn) < BtInCap /\ btRecv' = {}
      /\ UNCHANGED <<btTarget, btOut, btPc, btPkt, btTodo, btConfig, btPointers,
                     btNotified, btStop, btSent, btPromised, btMade>>
  BY DEF BtQueueIn
<1>3. /\ r \in BtPacket /\ r.id = btMade /\ r.port \in BtPorts
      /\ btIn \in Seq(BtPacket \cup {BtNull}) /\ btMade \in Nat
  BY DEF BtInv, BtTypes
<1>4. /\ btIn' \in Seq(BtPacket \cup {BtNull}) /\ Len(btIn') = Len(btIn) + 1
      /\ DOMAIN btIn = 1 .. Len(btIn) /\ DOMAIN btIn' = 1 .. Len(btIn) + 1
      /\ \A i \in 1 .. Len(btIn) : btIn'[i] = btIn[i]
      /\ btIn'[Len(btIn) + 1] = r /\ Len(btIn) \in Nat
  BY <1>1, <1>3
<1>5. BtTypes'
  <2>1. Len(btIn') <= BtInCap
    BY <1>2, <1>4, BtAssumption
  <2>2. ASSUME NEW i \in DOMAIN btIn' PROVE btIn'[i] = BtNull \/ btIn'[i].port \in BtPorts
    <3>1. CASE i \in 1 .. Len(btIn)
      BY <1>4, <3>1, BtElements DEF BtInv
    <3>2. CASE i = Len(btIn) + 1
      BY <1>3, <1>4, <3>2
    <3> QED  BY <1>4, <3>1, <3>2
  <2> QED  BY <1>2, <1>4, <2>1, <2>2 DEF BtInv, BtTypes
<1>6. OneSentinel' /\ BtPointed' /\ PointersAreCurrent'
  BY <1>2 DEF BtInv, OneSentinel, BtPointed, PointersAreCurrent
<1>7. BtOrdered'
  <2>1. BtOrdered
    BY DEF BtInv
  <2>2. ASSUME NEW i \in DOMAIN btIn', btIn'[i] # BtNull
        PROVE  /\ btIn'[i].id <= btMade
               /\ \A k \in DOMAIN btPromised : btPromised[k].id < btIn'[i].id
               /\ \A p \in btPkt : p.id < btIn'[i].id
               /\ \A j \in DOMAIN btIn' : i < j /\ btIn'[j] # BtNull => btIn'[i].id < btIn'[j].id
    <3>1. CASE i \in 1 .. Len(btIn)
      <4>1. i \in DOMAIN btIn /\ btIn'[i] = btIn[i] /\ btIn[i].id < r.id
        BY <1>4, <2>1, <2>2, <3>1 DEF BtOrdered
      <4>2. ASSUME NEW j \in DOMAIN btIn', i < j, btIn'[j] # BtNull
            PROVE  btIn'[i].id < btIn'[j].id
        BY <1>4, <2>1, <2>2, <4>1, <4>2 DEF BtOrdered
      <4> QED  BY <2>1, <2>2, <4>1, <4>2 DEF BtOrdered
    <3>2. CASE i = Len(btIn) + 1
      <4>1. btIn'[i] = r /\ \A j \in DOMAIN btIn' : ~(i < j)
        BY <1>4, <3>2
      <4>2. btIn'[i].id <= btMade
        BY <1>3, <4>1
      <4> QED  BY <2>1, <4>1, <4>2 DEF BtOrdered
    <3> QED  BY <1>4, <3>1, <3>2
  <2> QED  BY <1>2, <2>1, <2>2 DEF BtOrdered
<1>8. NothingLost'
  BY <1>2, OutputKept
<1> QED  BY <1>5, <1>6, <1>7, <1>8 DEF BtInv

\* The pipeline thread takes the oldest packet of the input buffer.
LEMMA BtPopKeeps ==
  ASSUME BtInv, BtPop
  PROVE  BtInv'
<1> DEFINE h == Head(btIn)
<1>1. /\ btPc = "pop" /\ btIn # <<>> /\ btIn' = Tail(btIn)
      /\ UNCHANGED <<btTarget, btRecv, btOut, btTodo, btConfig, btPointers, btNotified,
                     btStop, btSent, btPromised, btMade>>
      /\ \/ h = BtNull /\ btPc' = "done" /\ btPkt' = btPkt
         \/ h # BtNull /\ btPc' = "update" /\ btPkt' = {h}
  BY DEF BtPop
<1>2. btIn \in Seq(BtPacket \cup {BtNull}) /\ btPkt = {} /\ btTodo = <<>>
  BY <1>1 DEF BtInv, BtTypes
<1>3. /\ btIn' \in Seq(BtPacket \cup {BtNull}) /\ Len(btIn) \in Nat /\ Len(btIn) > 0
      /\ h = btIn[1] /\ Len(btIn') = Len(btIn) - 1
      /\ DOMAIN btIn = 1 .. Len(btIn) /\ DOMAIN btIn' = 1 .. Len(btIn) - 1
      /\ \A i \in DOMAIN btIn' : i + 1 \in DOMAIN btIn /\ btIn'[i] = btIn[i + 1]
      /\ 1 \in DOMAIN btIn
  BY <1>1, <1>2
<1>4. h # BtNull => h \in BtPacket /\ h.port \in BtPorts
  BY <1>3, BtElements DEF BtInv
<1> HIDE DEF h
<1>5. BtTypes'
  <2>1. Len(btIn') <= BtInCap
    BY <1>3, BtAssumption DEF BtInv, BtTypes
  <2>2. \A i \in DOMAIN btIn' : btIn'[i] = BtNull \/ btIn'[i].port \in BtPorts
    BY <1>3 DEF BtInv, BtTypes
  <2>3. /\ btPkt' \subseteq BtPacket /\ \A p, q \in btPkt' : p = q
        /\ \A p \in btPkt' : p.port \in BtPorts
        /\ (btPkt' # {}) = (btPc' \in {"update", "push"})
        /\ btPc' \in {"start", "pop", "update", "push", "done"}
        /\ (btTodo' = <<>>) = (btPc' # "push")
    <3>1. CASE h = BtNull
      BY <1>1, <1>2, <3>1
    <3>2. CASE h # BtNull
      BY <1>1, <1>2, <1>4, <3>2
    <3> QED  BY <3>1, <3>2
  <2> QED  BY <1>1, <1>3, <2>1, <2>2, <2>3 DEF BtInv, BtTypes
<1>6. OneSentinel' /\ BtPointed' /\ PointersAreCurrent'
  BY <1>1 DEF BtInv, OneSentinel, BtPointed, PointersAreCurrent
<1>7. BtOrdered'
  <2>1. BtOrdered
    BY DEF BtInv
  <2>2. ASSUME NEW p \in btPkt' PROVE
          /\ p.id <= btMade
          /\ \A k \in DOMAIN btPromised : btPromised[k].id <= p.id
          /\ \A i \in DOMAIN btIn' : btIn'[i] # BtNull => p.id < btIn'[i].id
          /\ \A r \in btRecv : p.id < r.id
    <3>1. p = btIn[1] /\ p # BtNull /\ p \in BtPacket
      BY <1>1, <1>2, <1>3, <1>4
    <3>2. p.id <= btMade /\ \A r \in btRecv : p.id < r.id
      BY <1>3, <2>1, <3>1 DEF BtOrdered
    <3>3. ASSUME NEW k \in DOMAIN btPromised PROVE btPromised[k].id <= p.id
      <4>1. btPromised[k].id < p.id
        BY <1>3, <2>1, <3>1 DEF BtOrdered
      <4>2. btPromised[k].id \in Nat /\ p.id \in Nat
        BY <3>1, BtElements DEF BtInv, BtPacket
      <4> QED  BY <4>1, <4>2
    <3>4. ASSUME NEW i \in DOMAIN btIn', btIn'[i] # BtNull PROVE p.id < btIn'[i].id
      <4>1. i + 1 \in DOMAIN btIn /\ 1 < i + 1 /\ btIn[i + 1] # BtNull
        BY <1>3, <3>4
      <4> QED  BY <1>3, <2>1, <3>1, <4>1 DEF BtOrdered
    <3> QED  BY <3>2, <3>3, <3>4
  <2>3. ASSUME NEW i \in DOMAIN btIn', btIn'[i] # BtNull
        PROVE  /\ btIn'[i].id <= btMade
               /\ \A k \in DOMAIN btPromised : btPromised[k].id < btIn'[i].id
               /\ \A j \in DOMAIN btIn' : i < j /\ btIn'[j] # BtNull => btIn'[i].id < btIn'[j].id
               /\ \A r \in btRecv : btIn'[i].id < r.id
    <3>1. i + 1 \in DOMAIN btIn /\ btIn'[i] = btIn[i + 1]
      BY <1>3
    <3>2. ASSUME NEW j \in DOMAIN btIn', i < j, btIn'[j] # BtNull
          PROVE  btIn'[i].id < btIn'[j].id
      <4>1. j + 1 \in DOMAIN btIn /\ btIn'[j] = btIn[j + 1] /\ i + 1 < j + 1
        BY <1>3, <3>2
      <4> QED  BY <2>1, <2>3, <3>1, <3>2, <4>1 DEF BtOrdered
    <3> QED  BY <2>1, <2>3, <3>1, <3>2 DEF BtOrdered
  <2> QED  BY <1>1, <2>1, <2>2, <2>3 DEF BtOrdered
<1>8. NothingLost'
  BY <1>1, <1>2, OutputKept
<1> QED  BY <1>5, <1>6, <1>7, <1>8 DEF BtInv

\* The length of one sequence after another.
LEMMA ConcatLength ==
  ASSUME NEW S, NEW a \in Seq(S), NEW b \in Seq(S) PROVE Len(a \o b) = Len(a) + Len(b)
OBVIOUS

\* What the ingress control of each target can do with the packet.
LEMMA ProcessIs ==
  ASSUME BtInv, BtProcess
  PROVE  /\ btPc = "update" /\ BtUpdate
         /\ UNCHANGED <<btTarget, btRecv, btIn, btOut, btConfig, btStop, btSent, btMade>>
         /\ BtDrop \/ \E ports \in Seq(Nat) : ports # <<>> /\ BtForward(ports)
<1>1. /\ btPc = "update" /\ BtUpdate
      /\ UNCHANGED <<btTarget, btRecv, btIn, btOut, btConfig, btStop, btSent, btMade>>
  BY DEF BtProcess
<1>2. ASSUME NEW port \in BtPorts, BtForward(<<port>>)
      PROVE  \E ports \in Seq(Nat) : ports # <<>> /\ BtForward(ports)
  <2>1. <<port>> \in Seq(Nat) /\ <<port>> # <<>>
    BY BtAssumption
  <2> QED  BY <1>2, <2>1
<1>3. ASSUME NEW p \in btPkt,
             IF BtCopies(p.port) = <<>> THEN BtDrop ELSE BtForward(BtCopies(p.port))
      PROVE  BtDrop \/ \E ports \in Seq(Nat) : ports # <<>> /\ BtForward(ports)
  <2>1. BtCopies(p.port) \in Seq(Nat)
    BY BtElements, BtAssumption DEF BtInv
  <2> QED  BY <1>3, <2>1
<1>4. L2Ingress \/ RouterIngress \/ PnaMain
  BY DEF BtProcess
<1> QED  BY <1>1, <1>2, <1>3, <1>4 DEF L2Ingress, RouterIngress, PnaMain

\* The pointers are renewed whenever they have to be.
LEMMA UpdateRenews ==
  ASSUME BtInv, BtUpdate, UNCHANGED <<btTarget, btConfig>>
  PROVE  BtPointed' /\ btPointers' = btConfig' /\ btPointers' \in Nat
BY DEF BtInv, BtTypes, BtUpdate, BtPointed

\* A dropped packet leaves no trace.
LEMMA DropKeeps ==
  ASSUME BtInv, BtProcess, BtDrop
  PROVE  BtInv'
<1>1. /\ btPc = "update" /\ btPkt' = {} /\ btPc' = "pop" /\ btTodo = <<>>
      /\ UNCHANGED <<btTarget, btRecv, btIn, btOut, btConfig, btStop, btSent, btMade, btTodo, btPromised>>
  BY ProcessIs DEF BtDrop, BtInv, BtTypes
<1>2. BtPointed' /\ btPointers' = btConfig' /\ btPointers' \in Nat
  BY ProcessIs, UpdateRenews
<1>3. BtTypes'
  BY <1>1, <1>2 DEF BtInv, BtTypes
<1>4. OneSentinel' /\ BtOrdered' /\ PointersAreCurrent'
  BY <1>1, <1>2 DEF BtInv, OneSentinel, BtOrdered, PointersAreCurrent
<1>5. NothingLost'
  BY <1>1, OutputKept
<1> QED  BY <1>2, <1>3, <1>4, <1>5 DEF BtInv

\* A packet that is forwarded is promised, after all that were promised before.
LEMMA ForwardKeeps ==
  ASSUME BtInv, BtProcess, NEW ports \in Seq(Nat), ports # <<>>, BtForward(ports)
  PROVE  BtInv'
<1>1. /\ btPc = "update" /\ BtUpdate /\ btPc' = "push" /\ btTodo' = ports /\ btPkt' = btPkt
      /\ UNCHANGED <<btTarget, btRecv, btIn, btOut, btConfig, btStop, btSent, btMade>>
  BY ProcessIs DEF BtForward
<1>2. BtTypes /\ BtOrdered /\ NothingLost /\ OneSentinel /\ btTodo = <<>> /\ btPkt # {}
  BY <1>1 DEF BtInv, BtTypes
<1> DEFINE p == CHOOSE q \in btPkt : TRUE
           new == [i \in DOMAIN ports |-> [id |-> p.id, port |-> ports[i]]]
           n == Len(btPromised)
<1>3. p \in btPkt /\ \A q \in btPkt : q = p
  BY <1>2 DEF BtTypes
<1>4. btPromised' = btPromised \o new
  BY DEF BtForward
<1>5. p \in BtPacket /\ p.id \in Nat \ {0}
  BY <1>2, <1>3, BtElements
<1> HIDE DEF p
<1>6. /\ Len(ports) \in Nat /\ Len(ports) > 0 /\ DOMAIN ports = 1 .. Len(ports)
      /\ \A i \in DOMAIN ports : ports[i] \in Nat
  OBVIOUS
<1>7. \A i \in DOMAIN ports : [id |-> p.id, port |-> ports[i]] \in BtPacket
  BY <1>5, <1>6 DEF BtPacket
<1>8. new \in Seq(BtPacket) /\ Len(new) = Len(ports)
  BY <1>6, <1>7
<1>9. btPromised \in Seq(BtPacket) /\ n \in Nat /\ DOMAIN btPromised = 1 .. n
  BY <1>2 DEF BtTypes
<1>10. \A i \in 1 .. Len(ports) : new[i] = [id |-> p.id, port |-> ports[i]]
  BY <1>6
<1> HIDE DEF new
<1>11. /\ btPromised' \in Seq(BtPacket) /\ Len(btPromised') = n + Len(ports)
       /\ DOMAIN btPromised' = 1 .. n + Len(ports)
       /\ \A k \in 1 .. n : btPromised'[k] = btPromised[k]
       /\ \A k \in 1 .. Len(ports) : btPromised'[n + k] = new[k]
  <2>1. /\ btPromised' \in Seq(BtPacket) /\ Len(btPromised') = n + Len(ports)
        /\ DOMAIN btPromised' = 1 .. n + Len(ports)
    <3>1. btPromised' \in Seq(BtPacket)
      BY <1>4, <1>8, <1>9
    <3>2. Len(btPromised') = n + Len(new)
      BY <1>4, <1>8, <1>9, ConcatLength
    <3>3. Len(btPromised') = n + Len(ports)
      BY <1>8, <3>2
    <3> QED  BY <3>1, <3>3
  <2>2. \A k \in 1 .. n : btPromised'[k] = btPromised[k]
    BY <1>4, <1>6, <1>8, <1>9
  <2>3. ASSUME NEW k \in 1 .. Len(ports) PROVE btPromised'[n + k] = new[k]
    <3>1. n + k \in 1 .. n + Len(ports) /\ n + k > n /\ (n + k) - n = k
      BY <1>6, <1>9
    <3> QED  BY <1>4, <1>6, <1>8, <1>9, <3>1
  <2> QED  BY <2>1, <2>2, <2>3
<1> HIDE DEF n
<1>12. \A k \in DOMAIN btPromised' : \/ k \in DOMAIN btPromised /\ btPromised'[k] = btPromised[k]
                                     \/ k > n /\ btPromised'[k].id = p.id
  <2> SUFFICES ASSUME NEW k \in DOMAIN btPromised'
               PROVE  \/ k \in DOMAIN btPromised /\ btPromised'[k] = btPromised[k]
                      \/ k > n /\ btPromised'[k].id = p.id
    OBVIOUS
  <2>1. CASE k \in 1 .. n
    BY <1>9, <1>11, <2>1
  <2>2. CASE k \in n + 1 .. n + Len(ports)
    <3>0. k - n \in 1 .. Len(ports) /\ n + (k - n) = k
      BY <1>6, <1>9, <2>2
    <3>1. PICK j \in 1 .. Len(ports) : k = n + j
      BY <3>0
    <3>2. btPromised'[k].id = p.id
      <4>1. btPromised'[k] = new[j]
        BY <1>11, <3>1
      <4>2. new[j] = [id |-> p.id, port |-> ports[j]]
        BY <1>10
      <4> QED  BY <4>1, <4>2
    <3> QED  BY <1>9, <2>2, <3>2
  <2> QED  BY <1>6, <1>9, <1>11, <2>1, <2>2
<1>13. BtPointed' /\ btPointers' = btConfig' /\ btPointers' \in Nat
  BY <1>1, UpdateRenews
<1>14. BtTypes'
  BY <1>1, <1>2, <1>11, <1>13 DEF BtTypes
<1>15. OneSentinel' /\ PointersAreCurrent'
  BY <1>1, <1>2, <1>13 DEF OneSentinel, PointersAreCurrent
<1>16. BtOrdered'
  <2>1. \A k \in DOMAIN btPromised' : btPromised'[k].id <= btMade
    BY <1>2, <1>3, <1>12 DEF BtOrdered
  <2>2. ASSUME NEW k \in DOMAIN btPromised', NEW q \in btPkt PROVE btPromised'[k].id <= q.id
    <3>1. q = p
      BY <1>3
    <3>2. p.id <= p.id
      BY <1>5
    <3> QED  BY <1>2, <1>3, <1>12, <3>1, <3>2 DEF BtOrdered
  <2>3. \A k \in DOMAIN btPromised', i \in DOMAIN btIn :
          btIn[i] # BtNull => btPromised'[k].id < btIn[i].id
    BY <1>2, <1>3, <1>12 DEF BtOrdered
  <2>4. \A k \in DOMAIN btPromised', r \in btRecv : btPromised'[k].id < r.id
    BY <1>2, <1>3, <1>12 DEF BtOrdered
  <2> QED  BY <1>1, <1>2, <2>1, <2>2, <2>3, <2>4 DEF BtOrdered
<1>17. NothingLost'
  <2>1. \A i : Skipped(i)' = Skipped(i)
    BY <1>1 DEF Skipped
  <2>2. /\ Len(btSent) \in Nat /\ DOMAIN btSent = 1 .. Len(btSent) /\ Len(btOut) \in Nat
        /\ Len(btTodo) = 0
    BY <1>2 DEF BtTypes
  <2>3. n = Len(btSent) + Len(btOut) - Skipped(Len(btOut) + 1)
    BY <1>2, <2>2, SkippedIs DEF NothingLost, n
  <2>4. \A i \in DOMAIN btSent' : btSent'[i] = btPromised'[i]
    <3>1. ASSUME NEW i \in DOMAIN btSent PROVE i \in 1 .. n
      <4>1. Skipped(Len(btOut) + 1) = 1 => Len(btOut) > 0
        <5>1. DOMAIN btOut = 1 .. Len(btOut)
          BY <1>2 DEF BtTypes
        <5> QED  BY <2>2, <5>1 DEF Skipped
      <4>2. Skipped(Len(btOut) + 1) \in {0, 1}
        BY SkippedIs
      <4> QED  BY <2>2, <2>3, <4>1, <4>2
    <3> QED  BY <1>1, <1>2, <1>11, <3>1 DEF NothingLost
  <2>5. ASSUME NEW i \in DOMAIN btOut, btOut[i] # BtNull
        PROVE  btOut[i] = btPromised'[Len(btSent) + i - Skipped(i)]
    <3>1. Len(btSent) + i - Skipped(i) \in 1 .. n
      BY <1>2, <1>9, <2>2, <2>5, PlaceIs DEF n
    <3> QED  BY <1>2, <1>11, <2>5, <3>1 DEF NothingLost
  <2>6. ASSUME NEW i \in DOMAIN ports, NEW q \in btPkt
        PROVE  btPromised'[Len(btPromised') - Len(ports) + i] = [id |-> q.id, port |-> ports[i]]
    <3>1. Len(btPromised') - Len(ports) + i = n + i /\ i \in 1 .. Len(ports)
      BY <1>6, <1>9, <1>11
    <3> QED  BY <1>3, <1>10, <1>11, <3>1
  <2>7. Len(btPromised') = Len(btSent) + Len(btOut) - Skipped(Len(btOut) + 1) + Len(ports)
    BY <1>11, <2>3
  <2>8. ASSUME NEW i \in DOMAIN btPromised', NEW j \in DOMAIN btPromised', i < j
        PROVE  btPromised'[i].id <= btPromised'[j].id
    <3>1. CASE i \in DOMAIN btPromised /\ j \in DOMAIN btPromised
      BY <1>2, <1>9, <1>11, <2>8, <3>1 DEF NothingLost
    <3>2. CASE j \notin DOMAIN btPromised
      <4>1. btPromised'[j].id = p.id
        BY <1>12, <3>2
      <4>2. btPromised'[i].id <= p.id
        BY <1>1, <1>3, <1>16 DEF BtOrdered
      <4> QED  BY <4>1, <4>2
    <3>3. CASE i \notin DOMAIN btPromised /\ j \in DOMAIN btPromised
      BY <1>9, <1>11, <2>8, <3>3
    <3> QED  BY <3>1, <3>2, <3>3
  <2> QED  BY <1>1, <2>1, <2>4, <2>5, <2>6, <2>7, <2>8 DEF NothingLost
<1> QED  BY <1>13, <1>14, <1>15, <1>16, <1>17 DEF BtInv

\* The next copy goes to the end of the output buffer, as it was promised.
LEMMA BtPushKeeps ==
  ASSUME BtInv, BtPush
  PROVE  BtInv'
<1>1. BtTypes /\ BtOrdered /\ NothingLost /\ OneSentinel /\ BtPointed /\ PointersAreCurrent
  BY DEF BtInv
<1>2. PICK p \in btPkt : btOut' = Append(btOut, [id |-> p.id, port |-> Head(btTodo)])
  BY DEF BtPush
<1>3. /\ btPc = "push" /\ Len(btOut) < BtOutCap /\ btTodo' = Tail(btTodo)
      /\ \/ btTodo' = <<>> /\ btPc' = "pop" /\ btPkt' = {}
         \/ btTodo' # <<>> /\ btPc' = btPc /\ btPkt' = btPkt
      /\ UNCHANGED <<btTarget, btRecv, btIn, btConfig, btPointers, btNotified, btStop, btSent,
                     btPromised, btMade>>
  BY DEF BtPush
<1> DEFINE item == [id |-> p.id, port |-> Head(btTodo)]
<1>0. PICK n \in Nat : n = Len(btOut)
  BY <1>1 DEF BtTypes
<1>4. /\ btTodo \in Seq(Nat) /\ btTodo # <<>> /\ Len(btTodo) \in Nat /\ Len(btTodo) > 0
      /\ Head(btTodo) = btTodo[1] /\ Head(btTodo) \in Nat
      /\ btTodo' \in Seq(Nat) /\ Len(btTodo') = Len(btTodo) - 1
      /\ DOMAIN btTodo = 1 .. Len(btTodo) /\ DOMAIN btTodo' = 1 .. Len(btTodo) - 1
      /\ \A i \in DOMAIN btTodo' : i + 1 \in DOMAIN btTodo /\ btTodo'[i] = btTodo[i + 1]
  <2>1. btTodo \in Seq(Nat) /\ btTodo # <<>>
    BY <1>1, <1>3 DEF BtTypes
  <2> QED  BY <1>3, <2>1, SMTT(40)
<1>5. item \in BtPacket /\ item # BtNull
  <2>1. p.id \in Nat /\ p.id # 0
    BY <1>1, BtElements
  <2> QED  BY <1>4, <2>1 DEF BtPacket, BtNull
<1> HIDE DEF item
<1>6. btOut \in Seq(BtPacket \cup {BtNull}) /\ n \in Nat /\ DOMAIN btOut = 1 .. n
  BY <1>0, <1>1 DEF BtTypes
<1>7. btOut' = Append(btOut, item)
  BY <1>2 DEF item
<1>8. /\ btOut' \in Seq(BtPacket \cup {BtNull}) /\ Len(btOut') = n + 1
      /\ DOMAIN btOut' = 1 .. n + 1 /\ btOut'[n + 1] = item
      /\ \A i \in 1 .. n : btOut'[i] = btOut[i]
  BY <1>0, <1>5, <1>6, <1>7
<1>9. /\ Len(btSent) \in Nat /\ Len(btPromised) \in Nat /\ Skipped(n + 1) \in {0, 1}
      /\ Len(btPromised) = Len(btSent) + n - Skipped(n + 1) + Len(btTodo)
  BY <1>0, <1>1, SkippedIs DEF BtTypes, NothingLost
<1>10. (\A i \in 1 .. n + 1 : Skipped(i)' = Skipped(i)) /\ Skipped(n + 2)' = Skipped(n + 1)
  <2>1. ASSUME NEW i \in 1 .. n + 1 PROVE Skipped(i)' = Skipped(i)
    <3>1. (\E j \in DOMAIN btOut' : j < i /\ btOut'[j] = BtNull)
            <=> (\E j \in DOMAIN btOut : j < i /\ btOut[j] = BtNull)
      BY <1>6, <1>8
    <3> QED  BY <3>1 DEF Skipped
  <2>2. (\E j \in DOMAIN btOut' : j < n + 2 /\ btOut'[j] = BtNull)
          <=> (\E j \in DOMAIN btOut : j < n + 1 /\ btOut[j] = BtNull)
    BY <1>5, <1>6, <1>8
  <2>3. Skipped(n + 2)' = Skipped(n + 1)
    BY <2>2 DEF Skipped
  <2> QED  BY <2>1, <2>3
<1>11. BtTypes'
  <2>1. Len(btOut') <= BtOutCap
    BY <1>0, <1>3, <1>6, <1>8, BtAssumption
  <2>2. /\ btPkt' \subseteq BtPacket /\ \A x, y \in btPkt' : x = y
        /\ \A x \in btPkt' : x.port \in BtPorts
        /\ (btPkt' # {}) = (btPc' \in {"update", "push"})
        /\ btPc' \in {"start", "pop", "update", "push", "done"}
        /\ (btTodo' = <<>>) = (btPc' # "push")
    BY <1>1, <1>3, SMTT(40) DEF BtTypes
  <2> QED  BY <1>1, <1>3, <1>4, <1>8, <2>1, <2>2 DEF BtTypes
<1>12. OneSentinel'
  BY <1>1, <1>3, <1>5, <1>6, <1>8, SMTT(40) DEF OneSentinel
<1>13. BtOrdered' /\ BtPointed' /\ PointersAreCurrent'
  BY <1>1, <1>3 DEF BtOrdered, BtPointed, PointersAreCurrent
<1>14. NothingLost'
  <2>1. ASSUME NEW i \in DOMAIN btOut', btOut'[i] # BtNull
        PROVE  btOut'[i] = btPromised[Len(btSent) + i - Skipped(i)']
    <3>1. CASE i \in 1 .. n
      <4>1. Skipped(i)' = Skipped(i) /\ btOut'[i] = btOut[i] /\ i \in DOMAIN btOut
        BY <1>6, <1>8, <1>10, <3>1
      <4> QED  BY <1>1, <2>1, <4>1 DEF NothingLost
    <3>2. CASE i = n + 1
      <4>1. Skipped(i)' = Skipped(n + 1) /\ btOut'[i] = item
        BY <1>6, <1>8, <1>10, <3>2
      <4>2. Len(btSent) + i - Skipped(n + 1) = Len(btPromised) - Len(btTodo) + 1
        <5>1. PICK sent \in Nat, promised \in Nat, todo \in Nat, k \in Nat :
                /\ sent = Len(btSent) /\ promised = Len(btPromised) /\ todo = Len(btTodo)
                /\ k = Skipped(n + 1)
          BY <1>4, <1>9
        <5>2. promised = sent + n - k + todo
          BY <1>9, <5>1
        <5>3. sent + (n + 1) - k = promised - todo + 1
          BY <5>2
        <5> QED  BY <3>2, <5>1, <5>3
      <4>3. item = btPromised[Len(btPromised) - Len(btTodo) + 1]
        <5>1. 1 \in DOMAIN btTodo
          BY <1>4
        <5>2. btPromised[Len(btPromised) - Len(btTodo) + 1] = [id |-> p.id, port |-> btTodo[1]]
          BY <1>1, <5>1 DEF NothingLost
        <5> QED  BY <1>4, <5>2 DEF item
      <4> QED  BY <4>1, <4>2, <4>3
    <3> QED  BY <1>6, <1>8, <3>1, <3>2
  <2>2. ASSUME NEW i \in DOMAIN btTodo', NEW q \in btPkt'
        PROVE  btPromised[Len(btPromised) - Len(btTodo') + i] = [id |-> q.id, port |-> btTodo'[i]]
    <3>1. q \in btPkt
      BY <1>3, <2>2
    <3>2. Len(btPromised) - Len(btTodo') + i = Len(btPromised) - Len(btTodo) + (i + 1)
      BY <1>4, <1>9
    <3>3. i + 1 \in DOMAIN btTodo /\ btTodo'[i] = btTodo[i + 1]
      BY <1>4
    <3> QED  BY <1>1, <3>1, <3>2, <3>3 DEF NothingLost
  <2>3. Len(btPromised) = Len(btSent) + Len(btOut') - Skipped(Len(btOut) + 1)' + Len(btTodo')
    <3>1. Len(btOut') + 1 = n + 2
      BY <1>6, <1>8
    <3>2. Skipped(Len(btOut) + 1)' = Skipped(n + 1)
      BY <1>10, <3>1
    <3>3. PICK k \in {0, 1} : k = Skipped(n + 1)
      BY <1>9
    <3>4. Len(btPromised) = Len(btSent) + (n + 1) - k + (Len(btTodo) - 1)
      BY <1>4, <1>6, <1>9, <3>3
    <3> QED  BY <1>4, <1>8, <3>2, <3>3, <3>4
  <2> QED  BY <1>1, <1>3, <2>1, <2>2, <2>3 DEF NothingLost
<1> QED  BY <1>11, <1>12, <1>13, <1>14 DEF BtInv

\* The transmit thread sends the oldest packet of the output buffer, or ends.
LEMMA BtTransmitKeeps ==
  ASSUME BtInv, BtTransmit
  PROVE  BtInv'
<1>1. BtTypes /\ BtOrdered /\ NothingLost /\ OneSentinel /\ BtPointed /\ PointersAreCurrent
  BY DEF BtInv
<1> DEFINE h == Head(btOut)
<1>0. PICK n \in Nat, m \in Nat : n = Len(btOut) /\ m = Len(btSent)
  BY <1>1 DEF BtTypes
<1>2. /\ btOut # <<>> /\ btOut' = Tail(btOut)
      /\ \/ h = BtNull /\ btSent' = btSent
         \/ h # BtNull /\ btSent' = Append(btSent, h)
      /\ UNCHANGED <<btTarget, btRecv, btIn, btPc, btPkt, btTodo, btConfig, btPointers,
                     btNotified, btStop, btPromised, btMade>>
  BY DEF BtTransmit
<1>3. btOut \in Seq(BtPacket \cup {BtNull}) /\ btSent \in Seq(BtPacket)
  BY <1>1 DEF BtTypes
<1>4. /\ n \in Nat /\ n > 0 /\ DOMAIN btOut = 1 .. n /\ h = btOut[1] /\ 1 \in DOMAIN btOut
      /\ btOut' \in Seq(BtPacket \cup {BtNull}) /\ Len(btOut') = n - 1
      /\ DOMAIN btOut' = 1 .. n - 1
      /\ \A i \in DOMAIN btOut' : i + 1 \in DOMAIN btOut /\ btOut'[i] = btOut[i + 1]
      /\ h \in BtPacket \cup {BtNull}
  BY <1>0, <1>2, <1>3
<1>5. m \in Nat /\ DOMAIN btSent = 1 .. m
  BY <1>0, <1>3
<1> HIDE DEF h
<1>6. /\ Len(btPromised) \in Nat /\ Len(btTodo) \in Nat /\ Skipped(n + 1) \in {0, 1}
      /\ Len(btPromised) = m + n - Skipped(n + 1) + Len(btTodo)
  BY <1>0, <1>1, SkippedIs DEF BtTypes, NothingLost
<1>7. OneSentinel'
  <2>1. ASSUME NEW i \in DOMAIN btOut', NEW j \in DOMAIN btOut',
               btOut'[i] = BtNull, btOut'[j] = BtNull
        PROVE  i = j
    <3>1. i + 1 \in DOMAIN btOut /\ j + 1 \in DOMAIN btOut /\ i + 1 = j + 1
      BY <1>1, <1>4, <2>1 DEF OneSentinel
    <3> QED  BY <1>4, <3>1
  <2>2. btStop \in {"no", "input"} => \A i \in DOMAIN btOut' : btOut'[i] # BtNull
    BY <1>1, <1>4 DEF OneSentinel
  <2> QED  BY <1>2, <2>1, <2>2 DEF OneSentinel
<1>8. BtOrdered' /\ BtPointed' /\ PointersAreCurrent'
  BY <1>1, <1>2 DEF BtOrdered, BtPointed, PointersAreCurrent
<1>9. BtTypes'
  <2>1. btSent' \in Seq(BtPacket)
    <3>1. CASE h = BtNull
      BY <1>2, <1>3, <3>1
    <3>2. CASE h # BtNull
      <4>1. h \in BtPacket /\ btSent' = Append(btSent, h)
        BY <1>2, <1>4, <3>2
      <4> QED  BY <1>3, <4>1
    <3> QED  BY <3>1, <3>2
  <2>2. Len(btOut') <= BtOutCap
    BY <1>0, <1>1, <1>4, BtAssumption DEF BtTypes
  <2> QED  BY <1>1, <1>2, <1>4, <2>1, <2>2 DEF BtTypes
<1>10. \A i : Skipped(i)' = IF \E j \in 1 .. n - 1 : j < i /\ btOut[j + 1] = BtNull THEN 1 ELSE 0
  BY <1>4 DEF Skipped
<1>11. CASE h = BtNull
  <2>1. btOut[1] = BtNull /\ \A j \in DOMAIN btOut : j # 1 => btOut[j] # BtNull
    BY <1>1, <1>4, <1>11 DEF OneSentinel
  <2>2. \A i : Skipped(i)' = 0
    BY <1>4, <1>10, <2>1
  <2>3. \A i \in 1 .. n : Skipped(i + 1) = 1
    BY <1>4, <2>1 DEF Skipped
  <2>4. btSent' = btSent
    BY <1>2, <1>11
  <2>5. ASSUME NEW i \in DOMAIN btOut', btOut'[i] # BtNull
        PROVE  btOut'[i] = btPromised[m + i - Skipped(i)']
    <3>1. i + 1 \in DOMAIN btOut /\ btOut'[i] = btOut[i + 1] /\ i \in 1 .. n
      BY <1>4
    <3>2. btOut[i + 1] = btPromised[m + (i + 1) - Skipped(i + 1)]
      BY <1>0, <1>1, <2>5, <3>1 DEF NothingLost
    <3>3. m + (i + 1) - Skipped(i + 1) = m + i - Skipped(i)'
      BY <1>4, <1>5, <2>2, <2>3, <3>1
    <3> QED  BY <3>1, <3>2, <3>3
  <2>6. Len(btPromised) = m + Len(btOut') - Skipped(Len(btOut) + 1)' + Len(btTodo)
    <3>1. Skipped(n + 1) = 1 /\ Skipped(Len(btOut) + 1)' = 0
      BY <1>4, <2>2, <2>3
    <3> QED  BY <1>4, <1>5, <1>6, <3>1
  <2>7. NothingLost'
    BY <1>0, <1>1, <1>2, <2>4, <2>5, <2>6 DEF NothingLost
  <2> QED  BY <1>7, <1>8, <1>9, <2>7 DEF BtInv
<1>12. CASE h # BtNull
  <2>1. btSent' = Append(btSent, h) /\ h \in BtPacket
    BY <1>2, <1>4, <1>12
  <2>2. /\ Len(btSent') = m + 1 /\ DOMAIN btSent' = 1 .. m + 1 /\ btSent'[m + 1] = h
        /\ \A i \in 1 .. m : btSent'[i] = btSent[i]
    BY <1>0, <1>3, <2>1
  <2>3. ASSUME NEW i \in 1 .. n PROVE Skipped(i)' = Skipped(i + 1)
    <3>1. (\E j \in 1 .. n - 1 : j < i /\ btOut[j + 1] = BtNull)
            <=> (\E j \in DOMAIN btOut : j < i + 1 /\ btOut[j] = BtNull)
      <4>1. ASSUME NEW j \in 1 .. n - 1, j < i, btOut[j + 1] = BtNull
            PROVE  \E k \in DOMAIN btOut : k < i + 1 /\ btOut[k] = BtNull
        <5>1. j + 1 \in DOMAIN btOut /\ j + 1 < i + 1
          BY <1>4, <4>1
        <5> QED  BY <4>1, <5>1
      <4>2. ASSUME NEW k \in DOMAIN btOut, k < i + 1, btOut[k] = BtNull
            PROVE  \E j \in 1 .. n - 1 : j < i /\ btOut[j + 1] = BtNull
        <5>1. k # 1
          BY <1>4, <1>12, <4>2
        <5>2. k - 1 \in 1 .. n - 1 /\ k - 1 < i /\ (k - 1) + 1 = k
          BY <1>4, <4>2, <5>1
        <5> QED  BY <4>2, <5>2
      <4> QED  BY <4>1, <4>2
    <3>2. Skipped(i)' = IF \E j \in 1 .. n - 1 : j < i /\ btOut[j + 1] = BtNull THEN 1 ELSE 0
      BY <1>10
    <3> QED  BY <3>1, <3>2 DEF Skipped
  <2>4. h = btPromised[m + 1]
    <3>1. Skipped(1) = 0
      BY <1>4 DEF Skipped
    <3>2. btOut[1] = btPromised[m + 1 - Skipped(1)]
      BY <1>0, <1>1, <1>4, <1>12 DEF NothingLost
    <3>3. m + 1 - Skipped(1) = m + 1
      BY <1>5, <3>1
    <3> QED  BY <1>4, <3>2, <3>3
  <2>5. \A i \in DOMAIN btSent' : btSent'[i] = btPromised[i]
    <3>1. ASSUME NEW i \in DOMAIN btSent' PROVE btSent'[i] = btPromised[i]
      <4>1. CASE i \in 1 .. m
        BY <1>1, <1>5, <2>2, <4>1 DEF NothingLost
      <4>2. CASE i = m + 1
        BY <2>2, <2>4, <4>2
      <4> QED  BY <1>5, <2>2, <4>1, <4>2
    <3> QED  BY <3>1
  <2>6. ASSUME NEW i \in DOMAIN btOut', btOut'[i] # BtNull
        PROVE  btOut'[i] = btPromised[Len(btSent') + i - Skipped(i)']
    <3>1. i + 1 \in DOMAIN btOut /\ btOut'[i] = btOut[i + 1] /\ i \in 1 .. n
      BY <1>4
    <3>2. btOut[i + 1] = btPromised[m + (i + 1) - Skipped(i + 1)]
      BY <1>0, <1>1, <2>6, <3>1 DEF NothingLost
    <3>3. Skipped(i + 1) \in {0, 1} /\ Skipped(i)' = Skipped(i + 1)
      BY <2>3, <3>1, SkippedIs
    <3>4. m + (i + 1) - Skipped(i + 1) = Len(btSent') + i - Skipped(i)'
      <4>1. PICK k \in {0, 1} : k = Skipped(i + 1)
        BY <3>3
      <4>2. m + (i + 1) - k = (m + 1) + i - k
        BY <1>5, <3>1
      <4> QED  BY <2>2, <3>3, <4>1, <4>2
    <3> QED  BY <3>1, <3>2, <3>4
  <2>7. Len(btPromised) = Len(btSent') + Len(btOut') - Skipped(Len(btOut) + 1)' + Len(btTodo)
    <3>1. Len(btOut') + 1 = n /\ n \in 1 .. n
      BY <1>4
    <3>2. Skipped(Len(btOut) + 1)' = Skipped(n + 1)
      BY <2>3, <3>1
    <3>3. PICK k \in {0, 1} : k = Skipped(n + 1)
      BY <1>6
    <3>4. Len(btPromised) = (m + 1) + (n - 1) - k + Len(btTodo)
      <4>1. Len(btPromised) = m + n - k + Len(btTodo) /\ Len(btTodo) \in Nat
        BY <1>6, <3>3
      <4>2. m + n - k = (m + 1) + (n - 1) - k
        OBVIOUS
      <4> QED  BY <4>1, <4>2
    <3> QED  BY <1>4, <2>2, <3>2, <3>3, <3>4
  <2>8. NothingLost'
    BY <1>1, <1>2, <2>5, <2>6, <2>7 DEF NothingLost
  <2> QED  BY <1>7, <1>8, <1>9, <2>8 DEF BtInv
<1> QED  BY <1>11, <1>12

\* The destructor's nullptr goes to the end of the output buffer.
LEMMA BtStopOutputKeeps ==
  ASSUME BtInv, BtStopOutput
  PROVE  BtInv'
<1>1. BtTypes /\ BtOrdered /\ NothingLost /\ OneSentinel /\ BtPointed /\ PointersAreCurrent
  BY DEF BtInv
<1>2. PICK n \in Nat : n = Len(btOut)
  BY <1>1 DEF BtTypes
<1>3. /\ btStop = "input" /\ n < BtOutCap /\ btStop' = "output" /\ btOut' = Append(btOut, BtNull)
      /\ UNCHANGED <<btTarget, btRecv, btIn, btPc, btPkt, btTodo, btConfig, btPointers,
                     btNotified, btSent, btPromised, btMade>>
  BY <1>2 DEF BtStopOutput
<1>4. /\ btOut' \in Seq(BtPacket \cup {BtNull}) /\ Len(btOut') = n + 1
      /\ DOMAIN btOut = 1 .. n /\ DOMAIN btOut' = 1 .. n + 1 /\ btOut'[n + 1] = BtNull
      /\ \A i \in 1 .. n : btOut'[i] = btOut[i] /\ btOut[i] # BtNull
  <2>1. btOut \in Seq(BtPacket \cup {BtNull}) /\ DOMAIN btOut = 1 .. n
    BY <1>1, <1>2 DEF BtTypes
  <2>2. \A i \in 1 .. n : btOut[i] # BtNull
    BY <1>1, <1>3, <2>1 DEF OneSentinel
  <2> QED  BY <1>2, <1>3, <2>1, <2>2
<1>5. (\A i : Skipped(i) = 0) /\ (\A i \in 1 .. n + 1 : Skipped(i)' = 0) /\ Skipped(n + 2)' = 1
  <2>1. \A i : Skipped(i) = 0
    BY <1>4, NoneSkipped
  <2>2. ASSUME NEW i \in 1 .. n + 1 PROVE Skipped(i)' = 0
    BY <1>4 DEF Skipped
  <2>3. Skipped(n + 2)' = 1
    <3>1. n + 1 \in DOMAIN btOut' /\ n + 1 < n + 2
      BY <1>4
    <3> QED  BY <1>4, <3>1 DEF Skipped
  <2> QED  BY <2>1, <2>2, <2>3
<1>6. BtTypes'
  <2>1. Len(btOut') <= BtOutCap
    BY <1>3, <1>4, BtAssumption
  <2> QED  BY <1>1, <1>3, <1>4, <2>1 DEF BtTypes
<1>7. OneSentinel'
  BY <1>3, <1>4 DEF OneSentinel
<1>8. BtOrdered' /\ BtPointed' /\ PointersAreCurrent'
  BY <1>1, <1>3 DEF BtOrdered, BtPointed, PointersAreCurrent
<1>9. NothingLost'
  <2>1. ASSUME NEW i \in DOMAIN btOut', btOut'[i] # BtNull
        PROVE  btOut'[i] = btPromised[Len(btSent) + i - Skipped(i)']
    <3>1. i \in 1 .. n
      BY <1>4, <2>1
    <3>2. Skipped(i)' = Skipped(i) /\ i \in DOMAIN btOut /\ btOut'[i] = btOut[i]
      BY <1>4, <1>5, <3>1
    <3> QED  BY <1>1, <2>1, <3>2 DEF NothingLost
  <2>2. Len(btPromised) = Len(btSent) + Len(btOut') - Skipped(Len(btOut) + 1)' + Len(btTodo)
    <3>1. Len(btPromised) = Len(btSent) + n - 0 + Len(btTodo)
      BY <1>1, <1>2, <1>5 DEF NothingLost
    <3>2. Len(btOut') + 1 = n + 2
      BY <1>4
    <3>3. Skipped(Len(btOut) + 1)' = 1
      BY <1>5, <3>2
    <3>4. Len(btSent) \in Nat /\ Len(btTodo) \in Nat
      BY <1>1 DEF BtTypes
    <3> QED  BY <1>4, <3>1, <3>3, <3>4
  <2> QED  BY <1>1, <1>3, <2>1, <2>2 DEF NothingLost
<1> QED  BY <1>6, <1>7, <1>8, <1>9 DEF BtInv

\* The destructor's nullptr goes to the end of the input buffer.
LEMMA BtStopInputKeeps ==
  ASSUME BtInv, BtStopInput
  PROVE  BtInv'
<1>1. BtTypes /\ BtOrdered /\ NothingLost /\ OneSentinel /\ BtPointed /\ PointersAreCurrent
  BY DEF BtInv
<1>2. PICK n \in Nat : n = Len(btIn)
  BY <1>1 DEF BtTypes
<1>3. /\ btStop = "no" /\ n < BtInCap /\ btStop' = "input" /\ btIn' = Append(btIn, BtNull)
      /\ UNCHANGED <<btTarget, btRecv, btOut, btPc, btPkt, btTodo, btConfig, btPointers,
                     btNotified, btSent, btPromised, btMade>>
  BY <1>2 DEF BtStopInput
<1>4. /\ btIn' \in Seq(BtPacket \cup {BtNull}) /\ Len(btIn') = n + 1
      /\ DOMAIN btIn = 1 .. n /\ DOMAIN btIn' = 1 .. n + 1 /\ btIn'[n + 1] = BtNull
      /\ \A i \in 1 .. n : btIn'[i] = btIn[i]
  <2>1. btIn \in Seq(BtPacket \cup {BtNull})
    BY <1>1 DEF BtTypes
  <2> QED  BY <1>2, <1>3, <2>1
<1>5. \A i \in DOMAIN btIn' : btIn'[i] # BtNull => i \in DOMAIN btIn /\ btIn'[i] = btIn[i]
  BY <1>4
<1>6. BtTypes'
  <2>1. Len(btIn') <= BtInCap
    BY <1>3, <1>4, BtAssumption
  <2>2. \A i \in DOMAIN btIn' : btIn'[i] = BtNull \/ btIn'[i].port \in BtPorts
    BY <1>1, <1>5 DEF BtTypes
  <2> QED  BY <1>1, <1>3, <1>4, <2>1, <2>2 DEF BtTypes
<1>7. BtOrdered'
  BY <1>1, <1>3, <1>5 DEF BtOrdered
<1>8. OneSentinel' /\ BtPointed' /\ PointersAreCurrent'
  BY <1>1, <1>3 DEF OneSentinel, BtPointed, PointersAreCurrent
<1>9. NothingLost'
  BY <1>3, OutputKept
<1> QED  BY <1>6, <1>7, <1>8, <1>9 DEF BtInv

\* A swap finds no packet in the switch, and its notice is kept for the next.
LEMMA BtSwapKeeps ==
  ASSUME BtInv, BtSwap, btTarget = "simple_router"
  PROVE  BtInv'
<1>1. BtTypes /\ BtOrdered /\ NothingLost /\ OneSentinel
  BY DEF BtInv
<1>2. /\ btPkt = {} /\ btConfig' = btConfig + 1 /\ btNotified' = TRUE
      /\ UNCHANGED <<btTarget, btRecv, btIn, btOut, btPc, btPkt, btTodo, btPointers, btStop,
                     btSent, btPromised, btMade>>
  BY DEF BtSwap, InSwitch
<1>3. BtTypes'
  <2>1. btConfig' \in Nat
    BY <1>1, <1>2 DEF BtTypes
  <2> QED  BY <1>1, <1>2, <2>1 DEF BtTypes
<1>4. BtOrdered' /\ OneSentinel'
  BY <1>1, <1>2 DEF BtOrdered, OneSentinel
<1>5. btPc # "push"
  BY <1>1, <1>2 DEF BtTypes
<1>6. BtPointed' /\ PointersAreCurrent'
  BY <1>2, <1>5 DEF BtPointed, PointersAreCurrent
<1>7. NothingLost'
  BY <1>2, OutputKept
<1> QED  BY <1>3, <1>4, <1>6, <1>7 DEF BtInv

\* The remaining steps touch no packet.
LEMMA BtQuietKeeps ==
  ASSUME BtInv, BtThreadStart \/ BtSwapLock \/ BtJoined \/ UNCHANGED btVars
  PROVE  BtInv'
<1>1. BtTypes /\ BtOrdered /\ NothingLost /\ OneSentinel /\ BtPointed /\ PointersAreCurrent
  BY DEF BtInv
<1>2. /\ UNCHANGED <<btTarget, btRecv, btIn, btOut, btPkt, btTodo, btConfig, btNotified, btSent,
                     btPromised, btMade>>
      /\ \/ btPc' = btPc /\ btPointers' = btPointers
         \/ btPc = "start" /\ btPc' = "pop" /\ btPointers' = btConfig
      /\ btStop' = btStop \/ (btStop = "output" /\ btStop' = "joined")
  BY DEF BtThreadStart, BtSwapLock, BtJoined, btVars
<1>3. BtTypes'
  BY <1>1, <1>2 DEF BtTypes
<1>4. BtOrdered' /\ OneSentinel'
  BY <1>1, <1>2 DEF BtOrdered, OneSentinel
<1>5. BtPointed' /\ PointersAreCurrent'
  BY <1>1, <1>2 DEF BtPointed, PointersAreCurrent
<1>6. NothingLost'
  BY <1>2, OutputKept
<1> QED  BY <1>3, <1>4, <1>5, <1>6 DEF BtInv

\* Every step of a small target keeps its packets in order.
LEMMA BtSteps == BtInv /\ OnlyRouterSwaps /\ [BtNext]_btVars => (BtInv /\ OnlyRouterSwaps)'
<1> SUFFICES ASSUME BtInv, OnlyRouterSwaps, [BtNext]_btVars PROVE BtInv' /\ OnlyRouterSwaps'
  OBVIOUS
<1>1. CASE BtProcess
  BY <1>1, ProcessIs, DropKeeps, ForwardKeeps DEF OnlyRouterSwaps, BtProcess
<1>2. ASSUME NEW port \in BtPorts, BtReceive(port) PROVE BtInv' /\ OnlyRouterSwaps'
  BY <1>2, BtReceiveKeeps DEF OnlyRouterSwaps, BtReceive
<1>3. CASE BtQueueIn
  BY <1>3, BtQueueInKeeps DEF OnlyRouterSwaps, BtQueueIn
<1>4. CASE BtPop
  BY <1>4, BtPopKeeps DEF OnlyRouterSwaps, BtPop
<1>5. CASE BtPush
  BY <1>5, BtPushKeeps DEF OnlyRouterSwaps, BtPush
<1>6. CASE BtTransmit
  BY <1>6, BtTransmitKeeps DEF OnlyRouterSwaps, BtTransmit
<1>7. CASE BtSwap
  BY <1>7, BtSwapKeeps DEF OnlyRouterSwaps, BtSwap
<1>8. CASE BtStopInput \/ BtStopOutput
  BY <1>8, BtStopInputKeeps, BtStopOutputKeeps DEF OnlyRouterSwaps, BtStopInput, BtStopOutput
<1>9. CASE BtThreadStart \/ BtSwapLock \/ BtJoined \/ UNCHANGED btVars
  <2>1. BtInv'
    BY <1>9, BtQuietKeeps
  <2>2. btTarget' = btTarget
    BY <1>9 DEF BtThreadStart, BtSwapLock, BtJoined, btVars
  <2>3. btSwapping' = btSwapping \/ btTarget = "simple_router"
    BY <1>9 DEF BtThreadStart, BtSwapLock, BtJoined, btVars
  <2> QED  BY <2>1, <2>2, <2>3 DEF OnlyRouterSwaps
<1> QED
  BY <1>1, <1>2, <1>3, <1>4, <1>5, <1>6, <1>7, <1>8, <1>9 DEF BtNext

\* The small targets keep their packets in order and their pointers current, for
\* every set of ports, every multicast group and every capacity of the buffers.
THEOREM SmallTargetsInvariant == BtSpec => []BtInv
<1>1. BtInit => OnlyRouterSwaps
  BY DEF BtInit, OnlyRouterSwaps
<1>2. QED
  BY <1>1, BtBegins, BtSteps, PTL DEF BtSpec

\* A set all of whose members are equal has at most one.
LEMMA AtMostOne ==
  ASSUME NEW S, \A x, y \in S : x = y PROVE Cardinality(S) <= 1
<1>1. CASE S = {}
  BY <1>1, FS_EmptySet
<1>2. CASE S # {}
  <2>1. PICK x \in S : S = {x}
    BY <1>2
  <2> QED  BY <2>1, FS_Singleton
<1> QED  BY <1>1, <1>2

\* Every packet on every path of psa_switch is the one that path promises, and
\* l2_switch, simple_router and pna_nic lose, double and reorder none and process
\* none with pointers into a configuration that a swap has replaced.
THEOREM TargetsAreSound == PsaSpec /\ BtSpec => []TargetsSound
<1>1. BtInv => BtTypeOK /\ NothingLost /\ PointersAreCurrent
  <2> SUFFICES ASSUME BtInv PROVE BtTypeOK  BY DEF BtInv
  <2>1. Cardinality(btRecv) <= 1 /\ Cardinality(btPkt) <= 1
    BY AtMostOne DEF BtInv, BtTypes
  <2> QED  BY <2>1 DEF BtInv, BtTypes, BtTypeOK
<1>2. PsaInv /\ BtInv => TargetsSound
  BY <1>1, PsaInvSuffices DEF TargetsSound
<1>3. QED
  BY <1>2, PsaInvariant, SmallTargetsInvariant, PTL

-----------------------------------------------------------------------------
(* PacketPipe: the messages in the socket.                                 *)

\* The port maps are functions from a set of ports.
LEMMA PkMapIs ==
  ASSUME NEW f PROVE f \in PkMaps <=> f \in [DOMAIN f -> BOOLEAN] /\ DOMAIN f \subseteq PkPorts
BY DEF PkMaps

\* The empty map, and what a port added, removed or set makes of a map.
LEMMA PkMapOps ==
  ASSUME NEW f \in PkMaps, NEW p \in PkPorts, NEW up \in BOOLEAN
  PROVE  /\ PkWith(f, p, up) \in PkMaps /\ PkWithout(f, p) \in PkMaps
         /\ PortAdded(f, p) \in PkMaps /\ PortRemoved(f, p) \in PkMaps
         /\ PortSet(f, p, up) \in PkMaps
<1>1. f \in [DOMAIN f -> BOOLEAN] /\ DOMAIN f \subseteq PkPorts
  BY PkMapIs
<1>2. ASSUME NEW v \in BOOLEAN PROVE PkWith(f, p, v) \in PkMaps
  <2>1. PkWith(f, p, v) \in [DOMAIN f \cup {p} -> BOOLEAN]
    BY <1>1 DEF PkWith
  <2> QED  BY <1>1, <2>1 DEF PkMaps
<1>3. PkWithout(f, p) \in PkMaps
  <2>1. PkWithout(f, p) \in [DOMAIN f \ {p} -> BOOLEAN]
    BY <1>1 DEF PkWithout
  <2> QED  BY <1>1, <2>1 DEF PkMaps
<1> QED  BY <1>2, <1>3 DEF PortAdded, PortRemoved, PortSet

\* A message keeps the maps maps.
LEMMA PkApplyIs ==
  ASSUME NEW m \in PkMsgs, NEW f \in PkMaps PROVE PkApply(m, f) \in PkMaps
<1>1. m.port \in PkPorts /\ (m.more = "UP") \in BOOLEAN
  BY DEF PkMsgs
<1> QED  BY <1>1, PkMapOps DEF PkApply

\* The empty map.
LEMMA PkEmptyMap == <<>> \in PkMaps
<1>1. <<>> \in [{} -> BOOLEAN]
  OBVIOUS
<1> QED  BY <1>1 DEF PkMaps

\* At the start nothing is on its way.
LEMMA PkBegins == PkInit => PkInv
<1> SUFFICES ASSUME PkInit PROVE PkInv
  OBVIOUS
<1>1. PkTypes
  BY PkAssumption, PkEmptyMap DEF PkInit, PkTypes, PkEventNames
<1>2. PkCatchesUp
  <2> DEFINE v == [i \in 0..0 |-> <<>>]
  <2>1. v \in [0..0 -> PkMaps] /\ v[0] = <<>>
    BY PkEmptyMap
  <2>2. pkIn = <<>> /\ pkInfo = <<>> /\ pkPeer = <<>> /\ Len(pkIn) = 0
    BY DEF PkInit
  <2> HIDE DEF v
  <2>3. PkLeads(v, pkIn, pkInfo, pkPeer)
    BY <2>1, <2>2 DEF PkLeads
  <2> QED  BY <2>1, <2>2, <2>3 DEF PkCatchesUp
<1>3. PkTold
  BY DEF PkInit, PkTold
<1>4. pkTaken.up = pkTaken.handed
  BY DEF PkInit
<1> QED  BY <1>1, <1>2, <1>3, <1>4 DEF PkInv

\* A message the peer sends goes behind the others, and the peer's ports are as
\* it makes them.
LEMMA PkSendKeeps ==
  ASSUME PkInv, NEW type, NEW p, NEW more, NEW peer,
         PkSend(type, p, more, peer), pkReq' \in {"idle", "wait"},
         [type |-> type, port |-> p, more |-> more] \in PkMsgs,
         type = "PORT_SET_STATUS" => more \in {"UP", "DOWN"},
         peer = PkApply([type |-> type, port |-> p, more |-> more], pkPeer),
         type = "PACKET_IN" => (more = "up") = PkIsUp(pkPeer, p)
  PROVE  PkInv'
<1> DEFINE m == [type |-> type, port |-> p, more |-> more]
<1>1. PkTypes /\ pkTaken.up = pkTaken.handed /\ PkCatchesUp /\ PkTold
  BY DEF PkInv
<1>2. /\ pkIn' = Append(pkIn, m) /\ pkPeer' = peer
      /\ UNCHANGED <<pkOut, pkInfo, pkCurr, pkTodo, pkEvents, pkTaken>>
      /\ pkCount.sent < PkMaxSent /\ pkCount' = [pkCount EXCEPT !.sent = @ + 1]
  BY DEF PkSend
<1>3. m \in PkMsgs /\ m.type = type /\ m.port = p /\ m.more = more
  OBVIOUS
<1>a. peer = PkApply(m, pkPeer)
  OBVIOUS
<1> HIDE DEF m
<1>4. PICK n \in Nat : n = Len(pkIn) /\ n <= pkCount.sent
  BY <1>1 DEF PkTypes
<1>5. /\ pkIn' \in Seq(PkMsgs) /\ Len(pkIn') = n + 1 /\ pkIn'[n + 1] = m
      /\ \A i \in 1..n : pkIn'[i] = pkIn[i]
  BY <1>1, <1>2, <1>3, <1>4 DEF PkTypes
<1>6. peer \in PkMaps
  BY <1>1, <1>3, <1>a, PkApplyIs DEF PkTypes
<1>7. PkTypes'
  <2>1. pkCount' \in [sent : 0..PkMaxSent, calls : Nat] /\ pkCount'.sent = pkCount.sent + 1
        /\ pkCount'.calls = pkCount.calls
    BY <1>1, <1>2, PkAssumption DEF PkTypes
  <2>2. \A i \in DOMAIN pkIn' : pkIn'[i].type = "PORT_SET_STATUS" => pkIn'[i].more \in {"UP", "DOWN"}
    <3>1. ASSUME NEW i \in 1..n + 1, pkIn'[i].type = "PORT_SET_STATUS"
          PROVE  pkIn'[i].more \in {"UP", "DOWN"}
      <4>1. CASE i = n + 1
        BY <1>3, <1>5, <3>1, <4>1
      <4>2. CASE i # n + 1
        <5>1. i \in 1..n
          BY <1>4, <4>2
        <5>2. DOMAIN pkIn = 1..n
          BY <1>1, <1>4 DEF PkTypes
        <5> QED  BY <1>1, <1>5, <3>1, <5>1, <5>2 DEF PkTypes
      <4> QED  BY <4>1, <4>2
    <3>2. DOMAIN pkIn' = 1..n + 1
      BY <1>5
    <3> QED  BY <3>1, <3>2
  <2>3. Len(pkIn') <= pkCount'.sent
    <3>1. pkCount.sent \in Int
      BY <1>1 DEF PkTypes
    <3> QED  BY <1>4, <1>5, <2>1, <3>1
  <2>4. UNCHANGED <<pkInfo, pkCurr, pkTodo, pkEvents, pkTaken>> /\ pkPeer' \in PkMaps
    BY <1>2, <1>6
  <2> QED  BY <1>1, <1>5, <2>1, <2>2, <2>3, <2>4 DEF PkTypes
<1>8. PkCatchesUp'
  <2>1. PICK v \in [0..n -> PkMaps] : PkLeads(v, pkIn, pkInfo, pkPeer)
    BY <1>1, <1>4 DEF PkCatchesUp
  <2> DEFINE w == [i \in 0..n + 1 |-> IF i = n + 1 THEN peer ELSE v[i]]
  <2>2. w \in [0..n + 1 -> PkMaps]
    BY <1>4, <1>6
  <2>3. w[n + 1] = peer /\ \A i \in 0..n : w[i] = v[i]
    BY <1>4
  <2> HIDE DEF w
  <2>4. v[0] = pkInfo /\ v[n] = pkPeer
    BY <1>4, <2>1 DEF PkLeads
  <2>5. ASSUME NEW i \in 1..n + 1
        PROVE  /\ w[i] = PkApply(pkIn'[i], w[i - 1])
               /\ pkIn'[i].type = "PACKET_IN" =>
                    (pkIn'[i].more = "up") = PkIsUp(w[i - 1], pkIn'[i].port)
    <3>1. CASE i = n + 1
      <4>1. w[i] = peer /\ w[i - 1] = pkPeer /\ pkIn'[i] = m
        BY <1>4, <1>5, <2>3, <2>4, <3>1
      <4> QED  BY <4>1, <1>3, <1>a
    <3>2. CASE i # n + 1
      <4>1. i \in 1..n /\ i - 1 \in 0..n /\ i \in 0..n
        BY <1>4, <3>2
      <4>2. w[i] = v[i] /\ w[i - 1] = v[i - 1] /\ pkIn'[i] = pkIn[i]
        BY <1>5, <2>3, <4>1
      <4>3. /\ v[i] = PkApply(pkIn[i], v[i - 1])
            /\ pkIn[i].type = "PACKET_IN" =>
                 (pkIn[i].more = "up") = PkIsUp(v[i - 1], pkIn[i].port)
        BY <1>4, <2>1, <4>1 DEF PkLeads
      <4> QED  BY <4>2, <4>3
    <3> QED  BY <3>1, <3>2
  <2>6. w[0] = pkInfo' /\ w[n + 1] = pkPeer'
    BY <1>2, <1>4, <2>3, <2>4
  <2>7. PkLeads(w, pkIn', pkInfo', pkPeer')
    BY <1>5, <2>5, <2>6 DEF PkLeads
  <2> QED  BY <1>5, <2>2, <2>7 DEF PkCatchesUp
<1>9. PkTold'
  <2>1. pkCount'.calls = pkCount.calls
    BY <1>1, <1>2 DEF PkTypes
  <2> QED  BY <1>1, <1>2, <2>1 DEF PkTold, PkOwes, PkReported
<1> QED  BY <1>1, <1>2, <1>7, <1>8, <1>9 DEF PkInv

\* Each of the peer's calls is such a message.
LEMMA PkPeerKeeps ==
  ASSUME PkInv, NEW p \in PkPorts,
         \/ PeerAdd(p) \/ PeerRemove(p) \/ PeerPacket(p) \/ PeerRequest(p)
         \/ \E up \in BOOLEAN : PeerBring(p, up)
  PROVE  PkInv'
<1>1. pkReq \in {"idle", "wait"}
  BY DEF PkInv, PkTypes
<1>2. CASE PeerAdd(p)
  <2>1. pkReq' \in {"idle", "wait"}
    BY <1>1, <1>2 DEF PeerAdd
  <2>2. [type |-> "PORT_ADD", port |-> p, more |-> "0"] \in PkMsgs
    BY DEF PkMsgs
  <2> QED  BY <1>2, <2>1, <2>2, PkSendKeeps DEF PeerAdd, PkApply, PortAdded
<1>3. CASE PeerRemove(p)
  <2>1. pkReq' \in {"idle", "wait"}
    BY <1>1, <1>3 DEF PeerRemove
  <2>2. [type |-> "PORT_REMOVE", port |-> p, more |-> "0"] \in PkMsgs
    BY DEF PkMsgs
  <2> QED  BY <1>3, <2>1, <2>2, PkSendKeeps DEF PeerRemove, PkApply, PortRemoved
<1>4. CASE PeerPacket(p)
  <2> DEFINE more == IF p \in DOMAIN pkPeer /\ pkPeer[p] THEN "up" ELSE "not up"
  <2>1. pkReq' \in {"idle", "wait"} /\ PkSend("PACKET_IN", p, more, pkPeer)
    BY <1>1, <1>4 DEF PeerPacket
  <2>2. more \in {"up", "not up"} /\ (more = "up") = PkIsUp(pkPeer, p)
    <3>1. PkIsUp(pkPeer, p) \in BOOLEAN
      BY DEF PkInv, PkTypes, PkMaps, PkIsUp
    <3> QED  BY <3>1 DEF PkIsUp
  <2> HIDE DEF more
  <2>3. [type |-> "PACKET_IN", port |-> p, more |-> more] \in PkMsgs
    BY <2>2 DEF PkMsgs
  <2>4. pkPeer = PkApply([type |-> "PACKET_IN", port |-> p, more |-> more], pkPeer)
    BY DEF PkApply
  <2> QED  BY <2>1, <2>2, <2>3, <2>4, PkSendKeeps
<1>5. CASE PeerRequest(p)
  <2>1. pkReq' \in {"idle", "wait"} /\ PkSend("INFO_REQ", p, "0", pkPeer)
    BY <1>5 DEF PeerRequest
  <2>2. [type |-> "INFO_REQ", port |-> p, more |-> "0"] \in PkMsgs
    BY DEF PkMsgs
  <2>3. pkPeer = PkApply([type |-> "INFO_REQ", port |-> p, more |-> "0"], pkPeer)
    BY DEF PkApply
  <2> QED  BY <2>1, <2>2, <2>3, PkSendKeeps
<1>6. ASSUME NEW up \in BOOLEAN, PeerBring(p, up) PROVE PkInv'
  <2> DEFINE more == IF up THEN "UP" ELSE "DOWN"
  <2>1. /\ pkReq' \in {"idle", "wait"}
        /\ PkSend("PORT_SET_STATUS", p, more, PortSet(pkPeer, p, up))
    BY <1>1, <1>6 DEF PeerBring
  <2>2. more \in {"UP", "DOWN"} /\ (more = "UP") = up
    BY <1>6
  <2> HIDE DEF more
  <2>3. [type |-> "PORT_SET_STATUS", port |-> p, more |-> more] \in PkMsgs
    BY <2>2 DEF PkMsgs
  <2>4. PortSet(pkPeer, p, up)
          = PkApply([type |-> "PORT_SET_STATUS", port |-> p, more |-> more], pkPeer)
    BY <2>2 DEF PkApply
  <2> QED  BY <2>1, <2>2, <2>3, <2>4, PkSendKeeps
<1> QED  BY <1>2, <1>3, <1>4, <1>5, <1>6

\* The first message leaves: what is left leads from the ports it has made.
LEMMA PkTakeKeeps ==
  ASSUME PkInv, pkIn # <<>>, pkIn' = Tail(pkIn), UNCHANGED <<pkPeer, pkCount>>,
         pkInfo' = PkApply(Head(pkIn), pkInfo)
  PROVE  /\ Head(pkIn) \in PkMsgs /\ pkInfo' \in PkMaps /\ pkIn' \in Seq(PkMsgs)
         /\ Head(pkIn).type = "PORT_SET_STATUS" => Head(pkIn).more \in {"UP", "DOWN"}
         /\ Len(pkIn') <= pkCount'.sent
         /\ \A i \in DOMAIN pkIn' :
              pkIn'[i].type = "PORT_SET_STATUS" => pkIn'[i].more \in {"UP", "DOWN"}
         /\ Head(pkIn).type = "PACKET_IN" =>
              (Head(pkIn).more = "up") = PkIsUp(pkInfo, Head(pkIn).port)
         /\ PkCatchesUp'
<1>1. PkTypes /\ PkCatchesUp
  BY DEF PkInv
<1>2. PICK n \in Nat : n = Len(pkIn) /\ n <= pkCount.sent
  BY <1>1 DEF PkTypes
<1>3. /\ n > 0 /\ Head(pkIn) = pkIn[1] /\ pkIn' \in Seq(PkMsgs) /\ Len(pkIn') = n - 1
      /\ \A i \in 1..n - 1 : pkIn'[i] = pkIn[i + 1]
      /\ DOMAIN pkIn = 1..n /\ DOMAIN pkIn' = 1..n - 1 /\ 1 \in DOMAIN pkIn
  BY <1>1, <1>2 DEF PkTypes
<1>4. Head(pkIn) \in PkMsgs /\ pkInfo' \in PkMaps
  <2>1. Head(pkIn) \in PkMsgs
    BY <1>1, <1>3 DEF PkTypes
  <2> QED  BY <1>1, <2>1, PkApplyIs DEF PkTypes
<1>5. Head(pkIn).type = "PORT_SET_STATUS" => Head(pkIn).more \in {"UP", "DOWN"}
  BY <1>1, <1>3 DEF PkTypes
<1>6. \A i \in DOMAIN pkIn' :
        pkIn'[i].type = "PORT_SET_STATUS" => pkIn'[i].more \in {"UP", "DOWN"}
  <2>1. ASSUME NEW i \in DOMAIN pkIn' PROVE i + 1 \in DOMAIN pkIn /\ pkIn'[i] = pkIn[i + 1]
    BY <1>2, <1>3
  <2> QED  BY <1>1, <2>1 DEF PkTypes
<1>7. Len(pkIn') <= pkCount'.sent
  <2>1. pkCount.sent \in Int
    BY <1>1 DEF PkTypes
  <2> QED  BY <1>2, <1>3, <2>1
<1>8. PICK v \in [0..n -> PkMaps] : PkLeads(v, pkIn, pkInfo, pkPeer)
  BY <1>1, <1>2 DEF PkCatchesUp
<1>9. /\ v[0] = pkInfo /\ v[n] = pkPeer
      /\ \A i \in 1..n : /\ v[i] = PkApply(pkIn[i], v[i - 1])
                         /\ pkIn[i].type = "PACKET_IN" =>
                              (pkIn[i].more = "up") = PkIsUp(v[i - 1], pkIn[i].port)
  BY <1>2, <1>8 DEF PkLeads
<1>10. /\ v[1] = pkInfo'
       /\ Head(pkIn).type = "PACKET_IN" =>
            (Head(pkIn).more = "up") = PkIsUp(pkInfo, Head(pkIn).port)
  <2>1. 1 \in 1..n /\ 1 - 1 = 0
    BY <1>2, <1>3
  <2> QED  BY <1>3, <1>9, <2>1
<1>11. PkCatchesUp'
  <2> DEFINE w == [i \in 0..n - 1 |-> v[i + 1]]
  <2>1. w \in [0..n - 1 -> PkMaps] /\ \A i \in 0..n - 1 : w[i] = v[i + 1]
    BY <1>2, <1>3, <1>8
  <2> HIDE DEF w
  <2>2. w[0] = pkInfo' /\ w[n - 1] = pkPeer'
    <3>1. 0 \in 0..n - 1 /\ n - 1 \in 0..n - 1 /\ 0 + 1 = 1 /\ (n - 1) + 1 = n
      BY <1>2, <1>3
    <3> QED  BY <1>9, <1>10, <2>1, <3>1
  <2>3. ASSUME NEW i \in 1..n - 1
        PROVE  /\ w[i] = PkApply(pkIn'[i], w[i - 1])
               /\ pkIn'[i].type = "PACKET_IN" =>
                    (pkIn'[i].more = "up") = PkIsUp(w[i - 1], pkIn'[i].port)
    <3>1. i \in 0..n - 1 /\ i - 1 \in 0..n - 1 /\ (i - 1) + 1 = i /\ i + 1 \in 1..n /\ (i + 1) - 1 = i
      BY <1>2, <1>3
    <3>2. w[i] = v[i + 1] /\ w[i - 1] = v[i] /\ pkIn'[i] = pkIn[i + 1]
      BY <1>3, <2>1, <3>1
    <3>3. /\ v[i + 1] = PkApply(pkIn[i + 1], v[i])
          /\ pkIn[i + 1].type = "PACKET_IN" =>
                 (pkIn[i + 1].more = "up") = PkIsUp(v[i], pkIn[i + 1].port)
      BY <1>9, <3>1
    <3> QED  BY <3>2, <3>3
  <2>4. PkLeads(w, pkIn', pkInfo', pkPeer')
    BY <1>3, <2>2, <2>3 DEF PkLeads
  <2> QED  BY <1>3, <2>1, <2>4 DEF PkCatchesUp
<1> QED  BY <1>3, <1>4, <1>5, <1>6, <1>7, <1>10, <1>11

\* A message about a port changes the ports, and leaves the thread with the
\* notifications that tell the monitor.
LEMMA HandlePortMsgKeeps ==
  ASSUME PkInv, HandlePortMsg
  PROVE  PkInv'
<1>1. PkTypes /\ PkTold /\ pkTaken.up = pkTaken.handed
  BY DEF PkInv
<1>2. PICK m : m = Head(pkIn)
  OBVIOUS
<1>3. /\ pkTodo = <<>> /\ pkIn # <<>> /\ pkIn' = Tail(pkIn)
      /\ UNCHANGED <<pkOut, pkCurr, pkEvents, pkPeer, pkTaken, pkReq, pkCount>>
  BY DEF HandlePortMsg
<1>4. \/ /\ m.type = "PORT_ADD" /\ pkInfo' = PortAdded(pkInfo, m.port)
         /\ pkTodo' = IF m.port \in DOMAIN pkInfo THEN <<>>
                      ELSE <<<<m.port, "ADDED">>, <<m.port, "UP">>>>
      \/ /\ m.type = "PORT_REMOVE" /\ pkInfo' = PortRemoved(pkInfo, m.port)
         /\ pkTodo' = IF m.port \in DOMAIN pkInfo THEN <<<<m.port, "REMOVED">>>> ELSE <<>>
      \/ /\ m.type = "PORT_SET_STATUS" /\ pkInfo' = PortSet(pkInfo, m.port, m.more = "UP")
         /\ pkTodo' = IF m.port \in DOMAIN pkInfo THEN <<<<m.port, m.more>>>> ELSE <<>>
  BY <1>2 DEF HandlePortMsg
<1>5. pkInfo' = PkApply(Head(pkIn), pkInfo)
  BY <1>2, <1>4 DEF PkApply
<1>6. /\ m \in PkMsgs /\ pkInfo' \in PkMaps /\ pkIn' \in Seq(PkMsgs)
      /\ m.type = "PORT_SET_STATUS" => m.more \in {"UP", "DOWN"}
      /\ Len(pkIn') <= pkCount'.sent
      /\ \A i \in DOMAIN pkIn' :
           pkIn'[i].type = "PORT_SET_STATUS" => pkIn'[i].more \in {"UP", "DOWN"}
      /\ PkCatchesUp'
  BY <1>2, <1>3, <1>5, PkTakeKeeps
<1>7. PICK p \in PkPorts : p = m.port
  BY <1>6 DEF PkMsgs
<1>8. pkTodo' \in Seq(PkPorts \X PkEventNames)
  <2>1. PICK S : S = PkPorts \X PkEventNames
    OBVIOUS
  <2>2. PICK a, u, r, d \in S :
          a = <<p, "ADDED">> /\ u = <<p, "UP">> /\ r = <<p, "REMOVED">> /\ d = <<p, "DOWN">>
    BY <2>1 DEF PkEventNames
  <2>3. \/ pkTodo' = <<>> \/ pkTodo' = <<a, u>> \/ pkTodo' = <<r>> \/ pkTodo' = <<u>>
        \/ pkTodo' = <<d>>
    BY <1>4, <1>6, <1>7, <2>2
  <2>4. <<>> \in Seq(S) /\ <<a, u>> \in Seq(S) /\ <<r>> \in Seq(S) /\ <<u>> \in Seq(S)
        /\ <<d>> \in Seq(S)
    OBVIOUS
  <2> QED  BY <2>1, <2>3, <2>4
<1>9. PkTypes'
  BY <1>1, <1>3, <1>6, <1>8 DEF PkTypes
<1>10. ASSUME pkCount.calls = 0 PROVE PkTold'
  <2>1. pkCurr = pkInfo /\ \A q \in DOMAIN pkCurr : PkReported(q)
    <3>1. ASSUME NEW q \in PkPorts, PkOwes(q) PROVE FALSE
      BY <1>3, <3>1 DEF PkOwes
    <3> QED  BY <1>1, <1>10, <3>1 DEF PkTold
  <2>2. \A q : PkReported(q)' <=> PkReported(q)
    BY <1>3 DEF PkReported
  <2>3. pkCurr' = pkInfo /\ \A q \in DOMAIN pkCurr' : PkReported(q)'
    BY <1>3, <2>1, <2>2
  <2>4. CASE pkTodo' = <<>>
    <3>1. pkInfo' = pkInfo
      <4>1. pkInfo \in [DOMAIN pkInfo -> BOOLEAN]
        BY <1>1, PkMapIs DEF PkTypes
      <4>2. CASE m.type = "PORT_ADD"
        BY <1>4, <2>4, <4>2 DEF PortAdded
      <4>3. CASE m.type = "PORT_REMOVE"
        <5>1. m.port \notin DOMAIN pkInfo /\ pkInfo' = PortRemoved(pkInfo, m.port)
          BY <1>4, <2>4, <4>3
        <5>2. DOMAIN pkInfo \ {m.port} = DOMAIN pkInfo
          BY <5>1
        <5> QED  BY <4>1, <5>1, <5>2 DEF PortRemoved, PkWithout
      <4>4. CASE m.type = "PORT_SET_STATUS"
        BY <1>4, <2>4, <4>4 DEF PortSet
      <4> QED  BY <1>4, <4>2, <4>3, <4>4
    <3> QED  BY <2>3, <2>4, <3>1 DEF PkTold
  <2>5. CASE pkTodo' # <<>>
    <3>1. \A q \in DOMAIN pkCurr' \ {p} : PkReported(q)'
      BY <2>3
    <3>2. CASE m.type = "PORT_ADD"
      <4>1. /\ p \notin DOMAIN pkCurr' /\ pkInfo' = PkWith(pkCurr', p, TRUE)
            /\ pkTodo' = <<<<p, "ADDED">>, <<p, "UP">>>>
        BY <1>4, <1>7, <2>3, <2>5, <3>2 DEF PortAdded
      <4> QED  BY <3>1, <4>1 DEF PkTold, PkOwes
    <3>3. CASE m.type = "PORT_REMOVE"
      <4>1. /\ p \in DOMAIN pkCurr' /\ pkInfo' = PkWithout(pkCurr', p)
            /\ pkTodo' = <<<<p, "REMOVED">>>>
        BY <1>4, <1>7, <2>3, <2>5, <3>3 DEF PortRemoved
      <4> QED  BY <3>1, <4>1 DEF PkTold, PkOwes
    <3>4. CASE m.type = "PORT_SET_STATUS"
      <4>1. PICK up \in BOOLEAN : up = (m.more = "UP")
        OBVIOUS
      <4>2. m.more = IF up THEN "UP" ELSE "DOWN"
        BY <1>6, <3>4, <4>1
      <4>3. /\ p \in DOMAIN pkCurr' /\ pkTodo' = <<<<p, m.more>>>>
            /\ pkInfo' = PkWith(pkCurr', p, m.more = "UP")
        BY <1>4, <1>7, <2>3, <2>5, <3>4 DEF PortSet
      <4>4. PkReported(p)'
        BY <2>3, <4>3
      <4>5. pkTodo' = <<<<p, IF up THEN "UP" ELSE "DOWN">>>> /\ pkInfo' = PkWith(pkCurr', p, up)
        BY <4>1, <4>2, <4>3
      <4>6. PkOwes(p)'
        BY <3>1, <4>3, <4>4, <4>5 DEF PkOwes
      <4> QED  BY <4>6 DEF PkTold
    <3> QED  BY <1>4, <3>2, <3>3, <3>4
  <2> QED  BY <2>4, <2>5
<1>11. PkTold'
  BY <1>3, <1>10 DEF PkTold
<1> QED  BY <1>1, <1>3, <1>6, <1>9, <1>11 DEF PkInv

\* What an event makes of the monitor's ports.
LEMMA NotifyIs ==
  ASSUME PkTypes, NEW p \in PkPorts, NEW e \in {"ADDED", "REMOVED", "UP", "DOWN"},
         Notify(p, e)
  PROVE  /\ pkCurr' \in PkMaps /\ pkEvents' \in [PkPorts -> PkEventNames \cup {"NONE"}]
         /\ ~NotifyFits(p, e) => UNCHANGED <<pkCurr, pkEvents>>
         /\ NotifyFits(p, e) =>
              /\ pkCurr' = IF e = "REMOVED" THEN PkWithout(pkCurr, p)
                           ELSE PkWith(pkCurr, p, e = "UP")
              /\ pkEvents'[p] = e /\ \A q \in PkPorts \ {p} : pkEvents'[q] = pkEvents[q]
<1>1. CASE NotifyFits(p, e)
  <2>1. /\ pkCurr' = IF e = "REMOVED" THEN PkWithout(pkCurr, p) ELSE PkWith(pkCurr, p, e = "UP")
        /\ pkEvents' = [pkEvents EXCEPT ![p] = e]
    BY <1>1 DEF Notify
  <2>2. pkCurr' \in PkMaps
    BY <2>1, PkMapOps DEF PkTypes
  <2>3. /\ pkEvents' \in [PkPorts -> PkEventNames \cup {"NONE"}]
        /\ pkEvents'[p] = e /\ \A q \in PkPorts \ {p} : pkEvents'[q] = pkEvents[q]
    BY <2>1 DEF PkTypes, PkEventNames
  <2> QED  BY <1>1, <2>1, <2>2, <2>3
<1>2. CASE ~NotifyFits(p, e)
  BY <1>2 DEF Notify, PkTypes
<1> QED  BY <1>1, <1>2

\* The receive thread tells the monitor.
LEMMA HandleNotifyKeeps ==
  ASSUME PkInv, HandleNotify
  PROVE  PkInv'
<1>1. PkTypes /\ PkTold /\ PkCatchesUp /\ pkTaken.up = pkTaken.handed
  BY DEF PkInv
<1>2. /\ pkTodo # <<>> /\ Notify(Head(pkTodo)[1], Head(pkTodo)[2]) /\ pkTodo' = Tail(pkTodo)
      /\ UNCHANGED <<pkIn, pkOut, pkInfo, pkPeer, pkTaken, pkReq, pkCount>>
  BY DEF HandleNotify
<1>3. Head(pkTodo) \in PkPorts \X PkEventNames /\ pkTodo' \in Seq(PkPorts \X PkEventNames)
  <2>1. PICK S : S = PkPorts \X PkEventNames
    OBVIOUS
  <2>2. pkTodo \in Seq(S)
    BY <1>1, <2>1 DEF PkTypes
  <2>3. Head(pkTodo) \in S /\ pkTodo' \in Seq(S)
    BY <1>2, <2>2
  <2> QED  BY <2>1, <2>3
<1>4. PICK p \in PkPorts, e \in PkEventNames : Head(pkTodo) = <<p, e>>
  BY <1>3
<1>5. Notify(p, e) /\ Head(pkTodo)[1] = p /\ Head(pkTodo)[2] = e
  BY <1>2, <1>4
<1>6. /\ pkCurr' \in PkMaps /\ pkEvents' \in [PkPorts -> PkEventNames \cup {"NONE"}]
      /\ ~NotifyFits(p, e) => UNCHANGED <<pkCurr, pkEvents>>
      /\ NotifyFits(p, e) =>
           /\ pkCurr' = IF e = "REMOVED" THEN PkWithout(pkCurr, p)
                        ELSE PkWith(pkCurr, p, e = "UP")
           /\ pkEvents'[p] = e /\ \A q \in PkPorts \ {p} : pkEvents'[q] = pkEvents[q]
  BY <1>1, <1>5, NotifyIs DEF PkEventNames
<1>7. PkTypes'
  BY <1>1, <1>2, <1>3, <1>6 DEF PkTypes
<1>8. PkCatchesUp'
  BY <1>1, <1>2 DEF PkCatchesUp
<1>9. ASSUME pkCount.calls = 0 PROVE PkTold'
  <2>1. PkOwes(p)
    <3>1. PICK q \in PkPorts : PkOwes(q)
      BY <1>1, <1>2, <1>9 DEF PkTold
    <3>2. Head(pkTodo)[1] = q
      <4>1. \/ pkTodo = <<<<q, "ADDED">>, <<q, "UP">>>> \/ pkTodo = <<<<q, "REMOVED">>>>
            \/ pkTodo = <<<<q, "UP">>>> \/ pkTodo = <<<<q, "DOWN">>>>
        BY <3>1, Zenon DEF PkOwes
      <4> QED  BY <4>1
    <3> QED  BY <1>5, <3>1, <3>2
  <2>2. pkCurr \in [DOMAIN pkCurr -> BOOLEAN] /\ DOMAIN pkCurr \subseteq PkPorts
    BY <1>1, PkMapIs DEF PkTypes
  <2>3. \A q \in DOMAIN pkCurr \ {p} : PkReported(q)
    BY <2>1 DEF PkOwes
  <2>4. CASE /\ pkTodo = <<<<p, "ADDED">>, <<p, "UP">>>>
             /\ p \notin DOMAIN pkCurr /\ pkInfo = PkWith(pkCurr, p, TRUE)
    <3>1. e = "ADDED" /\ pkTodo' = <<<<p, "UP">>>>
      BY <1>2, <1>4, <2>4
    <3>2. NotifyFits(p, e)
      BY <2>4, <3>1 DEF NotifyFits
    <3>3. /\ pkCurr' = PkWith(pkCurr, p, FALSE)
          /\ pkEvents'[p] = e /\ \A q \in PkPorts \ {p} : pkEvents'[q] = pkEvents[q]
      BY <1>6, <3>1, <3>2
    <3>4. p \in DOMAIN pkCurr' /\ pkCurr'[p] = FALSE
          /\ DOMAIN pkCurr' = DOMAIN pkCurr \cup {p} /\ \A q \in DOMAIN pkCurr : pkCurr'[q] = pkCurr[q]
      BY <2>4, <3>3 DEF PkWith
    <3>5. \A q \in DOMAIN pkCurr' \ {p} : PkReported(q)'
      BY <2>2, <2>3, <3>3, <3>4 DEF PkReported
    <3>6. pkInfo' = PkWith(pkCurr', p, TRUE)
      BY <1>2, <2>4, <3>4 DEF PkWith
    <3>7. pkTodo' = <<<<p, IF TRUE THEN "UP" ELSE "DOWN">>>> /\ (pkCurr'[p] = TRUE => PkReported(p)')
      BY <3>1, <3>4
    <3>8. PkOwes(p)'
      BY <3>4, <3>5, <3>6, <3>7 DEF PkOwes
    <3> QED  BY <3>8 DEF PkTold
  <2>5. CASE /\ pkTodo = <<<<p, "REMOVED">>>>
             /\ p \in DOMAIN pkCurr /\ pkInfo = PkWithout(pkCurr, p)
    <3>1. e = "REMOVED" /\ pkTodo' = <<>>
      BY <1>2, <1>4, <2>5
    <3>2. NotifyFits(p, e)
      BY <2>5, <3>1 DEF NotifyFits
    <3>3. /\ pkCurr' = PkWithout(pkCurr, p)
          /\ \A q \in PkPorts \ {p} : pkEvents'[q] = pkEvents[q]
      BY <1>6, <3>1, <3>2
    <3>4. DOMAIN pkCurr' = DOMAIN pkCurr \ {p} /\ \A q \in DOMAIN pkCurr' : pkCurr'[q] = pkCurr[q]
      BY <3>3 DEF PkWithout
    <3>5. \A q \in DOMAIN pkCurr' : PkReported(q)'
      BY <2>2, <2>3, <3>3, <3>4 DEF PkReported
    <3>6. pkCurr' = pkInfo'
      BY <1>2, <2>5, <3>3
    <3> QED  BY <3>1, <3>5, <3>6 DEF PkTold
  <2>6. ASSUME NEW up \in BOOLEAN,
               pkTodo = <<<<p, IF up THEN "UP" ELSE "DOWN">>>>,
               p \in DOMAIN pkCurr, pkInfo = PkWith(pkCurr, p, up),
               pkCurr[p] = up => PkReported(p)
        PROVE  PkTold'
    <3>1. e = (IF up THEN "UP" ELSE "DOWN") /\ pkTodo' = <<>>
      BY <1>2, <1>4, <2>6
    <3>2. NotifyFits(p, e) <=> pkCurr[p] # up
      BY <2>2, <2>6, <3>1 DEF NotifyFits
    <3>3. CASE pkCurr[p] = up
      <4>1. UNCHANGED <<pkCurr, pkEvents>>
        BY <1>6, <3>2, <3>3
      <4>2. pkInfo = pkCurr
        BY <2>2, <2>6, <3>3 DEF PkWith
      <4>3. \A q \in DOMAIN pkCurr' : PkReported(q)'
        BY <2>3, <2>6, <3>3, <4>1 DEF PkReported
      <4>4. pkInfo' = pkInfo
        BY <1>2
      <4> QED  BY <3>1, <4>1, <4>2, <4>3, <4>4 DEF PkTold
    <3>4. CASE pkCurr[p] # up
      <4>1. /\ pkCurr' = PkWith(pkCurr, p, up)
            /\ pkEvents'[p] = e /\ \A q \in PkPorts \ {p} : pkEvents'[q] = pkEvents[q]
        BY <1>6, <2>6, <3>1, <3>2, <3>4
      <4>2. /\ DOMAIN pkCurr' = DOMAIN pkCurr /\ pkCurr'[p] = up
            /\ \A q \in DOMAIN pkCurr \ {p} : pkCurr'[q] = pkCurr[q]
        BY <2>6, <4>1 DEF PkWith
      <4>3. \A q \in DOMAIN pkCurr' : PkReported(q)'
        BY <2>2, <2>3, <3>1, <4>1, <4>2 DEF PkReported
      <4>4. pkInfo' = pkCurr'
        BY <1>2, <2>6, <4>1
      <4> QED  BY <3>1, <4>3, <4>4 DEF PkTold
    <3> QED  BY <3>3, <3>4
  <2> QED  BY <2>1, <2>4, <2>5, <2>6 DEF PkOwes
<1>10. PkTold'
  BY <1>2, <1>9 DEF PkTold
<1> QED  BY <1>1, <1>2, <1>7, <1>8, <1>10 DEF PkInv

\* A packet is handed over exactly when its port was up at the peer.
LEMMA HandlePacketInKeeps ==
  ASSUME PkInv, HandlePacketIn
  PROVE  PkInv'
<1>1. PkTypes /\ PkTold
  BY DEF PkInv
<1>2. PICK m : m = Head(pkIn)
  OBVIOUS
<1>3. /\ pkTodo = <<>> /\ pkIn # <<>> /\ pkIn' = Tail(pkIn) /\ m.type = "PACKET_IN"
      /\ pkTaken' = [up |-> m.more = "up", handed |-> PkIsUp(pkInfo, m.port)]
      /\ UNCHANGED <<pkOut, pkInfo, pkCurr, pkTodo, pkEvents, pkPeer, pkReq, pkCount>>
  BY <1>2 DEF HandlePacketIn, PkIsUp
<1>4. pkInfo' = PkApply(Head(pkIn), pkInfo)
  BY <1>2, <1>3 DEF PkApply
<1>5. /\ m \in PkMsgs /\ pkIn' \in Seq(PkMsgs) /\ Len(pkIn') <= pkCount'.sent
      /\ \A i \in DOMAIN pkIn' :
           pkIn'[i].type = "PORT_SET_STATUS" => pkIn'[i].more \in {"UP", "DOWN"}
      /\ (m.more = "up") = PkIsUp(pkInfo, m.port)
      /\ PkCatchesUp'
  BY <1>2, <1>3, <1>4, PkTakeKeeps
<1>6. pkTaken' \in [up : BOOLEAN, handed : BOOLEAN] /\ pkTaken'.up = pkTaken'.handed
  <2>1. (m.more = "up") \in BOOLEAN
    OBVIOUS
  <2> QED  BY <1>3, <1>5, <2>1
<1>7. PkTypes'
  BY <1>1, <1>3, <1>5, <1>6 DEF PkTypes
<1>8. PkTold'
  BY <1>1, <1>3 DEF PkTold, PkOwes, PkReported
<1> QED  BY <1>5, <1>6, <1>7, <1>8 DEF PkInv

\* A request for information leaves the ports as they are.
LEMMA HandleInfoReqKeeps ==
  ASSUME PkInv, HandleInfoReq
  PROVE  PkInv'
<1>1. PkTypes /\ PkTold /\ pkTaken.up = pkTaken.handed
  BY DEF PkInv
<1>2. /\ pkIn # <<>> /\ pkIn' = Tail(pkIn) /\ Head(pkIn).type = "INFO_REQ"
      /\ UNCHANGED <<pkInfo, pkCurr, pkTodo, pkEvents, pkPeer, pkTaken, pkReq, pkCount>>
  BY DEF HandleInfoReq
<1>3. pkInfo' = PkApply(Head(pkIn), pkInfo)
  BY <1>2 DEF PkApply
<1>4. /\ pkIn' \in Seq(PkMsgs) /\ Len(pkIn') <= pkCount'.sent
      /\ \A i \in DOMAIN pkIn' :
           pkIn'[i].type = "PORT_SET_STATUS" => pkIn'[i].more \in {"UP", "DOWN"}
      /\ PkCatchesUp'
  BY <1>2, <1>3, PkTakeKeeps
<1>5. PkTypes'
  BY <1>1, <1>2, <1>4 DEF PkTypes
<1>6. PkTold'
  BY <1>1, <1>2 DEF PkTold, PkOwes, PkReported
<1> QED  BY <1>1, <1>2, <1>4, <1>5, <1>6 DEF PkInv

\* A call of the runtime server reaches the monitor only.
LEMMA PkCallKeeps ==
  ASSUME PkInv, NEW p \in PkPorts, NEW e \in {"ADDED", "REMOVED"}, PkCall(p, e)
  PROVE  PkInv'
<1>1. PkTypes /\ PkCatchesUp /\ pkTaken.up = pkTaken.handed
  BY DEF PkInv
<1>2. /\ Notify(p, e) /\ pkCount' = [pkCount EXCEPT !.calls = @ + 1]
      /\ UNCHANGED <<pkIn, pkOut, pkInfo, pkTodo, pkPeer, pkTaken, pkReq>>
  BY DEF PkCall
<1>3. pkCurr' \in PkMaps /\ pkEvents' \in [PkPorts -> PkEventNames \cup {"NONE"}]
  BY <1>1, <1>2, NotifyIs
<1>4. /\ pkCount' \in [sent : 0..PkMaxSent, calls : Nat]
      /\ pkCount'.sent = pkCount.sent /\ pkCount'.calls # 0
  <2>1. pkCount \in [sent : 0..PkMaxSent, calls : Nat]
    BY <1>1 DEF PkTypes
  <2> QED  BY <1>2, <2>1
<1>5. PkTypes'
  BY <1>1, <1>2, <1>3, <1>4 DEF PkTypes
<1>6. PkCatchesUp' /\ PkTold'
  BY <1>1, <1>2, <1>4 DEF PkCatchesUp, PkTold
<1> QED  BY <1>1, <1>2, <1>5, <1>6 DEF PkInv

\* A packet is handed to the switch exactly when its port was up at the peer as
\* it was sent, for every set of ports and every number of messages under way.
THEOREM PacketPipeInvariant == PkSpec => []PkInv
<1>1. PkInv /\ [PkNext]_pkVars => PkInv'
  <2> SUFFICES ASSUME PkInv, [PkNext]_pkVars PROVE PkInv'
    OBVIOUS
  <2>1. CASE PeerReceive \/ PkTransmit \/ UNCHANGED pkVars
    <3>1. PkTypes /\ PkCatchesUp /\ PkTold /\ pkTaken.up = pkTaken.handed
      BY DEF PkInv
    <3>2. /\ UNCHANGED <<pkIn, pkInfo, pkCurr, pkTodo, pkEvents, pkPeer, pkTaken, pkCount>>
          /\ pkReq' \in {pkReq, "idle"}
      BY <2>1 DEF PeerReceive, PkTransmit, pkVars
    <3>3. PkTypes'
      BY <3>1, <3>2 DEF PkTypes
    <3>4. PkCatchesUp' /\ PkTold'
      BY <3>1, <3>2 DEF PkCatchesUp, PkTold, PkOwes, PkReported
    <3> QED  BY <3>1, <3>2, <3>3, <3>4 DEF PkInv
  <2>2. ASSUME NEW p \in PkPorts,
               \/ PeerAdd(p) \/ PeerRemove(p) \/ PeerPacket(p) \/ PeerRequest(p)
               \/ \E up \in BOOLEAN : PeerBring(p, up)
        PROVE  PkInv'
    BY <2>2, PkPeerKeeps
  <2>3. ASSUME NEW p \in PkPorts, NEW e \in {"ADDED", "REMOVED"}, PkCall(p, e) PROVE PkInv'
    BY <2>3, PkCallKeeps
  <2> QED
    BY <2>1, <2>2, <2>3, HandlePortMsgKeeps, HandleNotifyKeeps, HandlePacketInKeeps,
       HandleInfoReqKeeps DEF PkNext
<1> QED  BY <1>1, PkBegins, PTL DEF PkSpec

-----------------------------------------------------------------------------
(* PcapReplay: the files and the packets handed over.                      *)

\* Every set of numbers that is not empty has a smallest one.
LEMMA LeastNatural ==
  ASSUME NEW S, S \subseteq Nat, S # {}
  PROVE  \E n \in S : \A m \in S : n <= m
<1> DEFINE R == OpToRel(<, Nat)
<1>1. \A x, y \in Nat : <<x, y>> \in R <=> x < y
  BY DEF OpToRel
<1>2. IsWellFoundedOn(R, Nat)
  BY NatLessThanWellFounded
<1> HIDE DEF R
<1>3. PICK n \in S : \A m \in S : ~(<<m, n>> \in R)
  BY <1>2, WFMin
<1>4. ASSUME NEW m \in S PROVE n <= m
  <2>1. n \in Nat /\ m \in Nat /\ ~(m < n)
    BY <1>1, <1>3
  <2>2. QED
    BY <2>1
<1>5. QED
  BY <1>3, <1>4

\* A file that is being read is at one of its packets.
LEMMA FileIs ==
  ASSUME ReplayTypes, NEW i \in DOMAIN rpFiles
  PROVE  /\ rpFiles[i] \in ReplayFile /\ rpFiles[i].times \in Seq(Nat)
         /\ rpFiles[i].pos \in 0..Len(rpFiles[i].times)
         /\ i \in ReadingFiles => TimeOf(i) \in Nat
<1>1. rpFiles[i] \in ReplayFile /\ rpFiles[i].pos <= Len(rpFiles[i].times)
  BY DEF ReplayTypes
<1>2. rpFiles[i].times \in Seq(Nat) /\ rpFiles[i].pos \in Nat
  BY <1>1, ReplayAssumption DEF ReplayFile
<1>3. ASSUME i \in ReadingFiles PROVE TimeOf(i) \in Nat
  <2>1. rpFiles[i].pos > 0
    BY <1>3 DEF ReplayTypes, ReadingFiles
  <2>2. PICK f \in Seq(Nat), p \in Nat : f = rpFiles[i].times /\ p = rpFiles[i].pos
    BY <1>2
  <2>3. p \in 1..Len(f)
    BY <1>1, <2>1, <2>2
  <2> QED  BY <2>2, <2>3 DEF TimeOf
<1> QED  BY <1>1, <1>2, <1>3

\* moveNext goes to the next packet, whose time is no earlier, or to the end.
LEMMA MoveNextIs ==
  ASSUME NEW f \in ReplayFile, f.pos <= Len(f.times)
  PROVE  /\ MoveNext(f) \in ReplayFile /\ MoveNext(f).times = f.times
         /\ \/ /\ f.pos < Len(f.times) /\ f.state # "AtEnd"
               /\ MoveNext(f).pos = f.pos + 1 /\ MoveNext(f).state = "Reading"
            \/ /\ f.state = "AtEnd" \/ f.pos = Len(f.times)
               /\ MoveNext(f).pos = f.pos /\ MoveNext(f).state = "AtEnd"
<1>1. f.pos \in Nat /\ Len(f.times) \in Nat
  BY ReplayAssumption DEF ReplayFile
<1>2. CASE f.state # "AtEnd" /\ f.pos < Len(f.times)
  <2>1. MoveNext(f) = [f EXCEPT !.pos = @ + 1, !.state = "Reading"]
    BY <1>2 DEF MoveNext
  <2>2. /\ MoveNext(f).pos = f.pos + 1 /\ MoveNext(f).state = "Reading"
        /\ MoveNext(f).times = f.times /\ MoveNext(f).port = f.port
    BY <2>1 DEF ReplayFile
  <2>3. MoveNext(f) \in ReplayFile
    <3>1. PICK n \in Nat : n = f.pos + 1
      BY <1>1
    <3>2. MoveNext(f) = [f EXCEPT !.pos = n, !.state = "Reading"]
      BY <2>1, <3>1
    <3>3. [f EXCEPT !.pos = n] \in ReplayFile
      BY DEF ReplayFile
    <3> QED  BY <3>2, <3>3 DEF ReplayFile
  <2> QED  BY <1>2, <2>2, <2>3
<1>3. CASE ~(f.state # "AtEnd" /\ f.pos < Len(f.times))
  <2>1. MoveNext(f) = [f EXCEPT !.state = "AtEnd"]
    BY <1>3, Zenon DEF MoveNext
  <2>2. f.state = "AtEnd" \/ f.pos = Len(f.times)
    BY <1>1, <1>3
  <2> QED  BY <1>1, <2>1, <2>2 DEF ReplayFile
<1> QED  BY <1>2, <1>3

\* The files being read, and the packets of a file that were handed over, are
\* finitely many.
LEMMA ReplayFinite ==
  ASSUME ReplayTypes
  PROVE  /\ IsFiniteSet(ReadingFiles) /\ Cardinality(ReadingFiles) \in 0..Len(rpFiles)
         /\ \A i : IsFiniteSet({k \in DOMAIN rpSent : rpSent[k].file = i}) /\ SentOf(i) \in Nat
<1>1. PICK n \in Nat : n = Len(rpFiles) /\ DOMAIN rpFiles = 1..n
  BY DEF ReplayTypes
<1>2. IsFiniteSet(1..n) /\ Cardinality(1..n) = n
  BY FS_Interval
<1>3. ReadingFiles \in SUBSET (1..n)
  BY <1>1 DEF ReadingFiles
<1>4. IsFiniteSet(ReadingFiles) /\ Cardinality(ReadingFiles) <= n
  BY <1>2, <1>3, FS_Subset
<1>5. Cardinality(ReadingFiles) \in Nat
  BY <1>4, FS_CardinalityType
<1>6. PICK m \in Nat : DOMAIN rpSent = 1..m
  BY DEF ReplayTypes
<1>7. ASSUME NEW i PROVE IsFiniteSet({k \in DOMAIN rpSent : rpSent[k].file = i}) /\ SentOf(i) \in Nat
  <2>1. IsFiniteSet(1..m)
    BY FS_Interval
  <2>2. {k \in DOMAIN rpSent : rpSent[k].file = i} \in SUBSET (1..m)
    BY <1>6
  <2> QED  BY <2>1, <2>2, FS_Subset, FS_CardinalityType DEF SentOf
<1>8. Cardinality(ReadingFiles) \in 0..Len(rpFiles)
  BY <1>1, <1>4, <1>5
<1> QED  BY <1>4, <1>7, <1>8

\* A packet handed over counts for its file.
LEMMA SentGrows ==
  ASSUME ReplayTypes, NEW r, rpSent' = Append(rpSent, r), NEW i
  PROVE  SentOf(i)' = SentOf(i) + (IF r.file = i THEN 1 ELSE 0)
<1>1. PICK m \in Nat : m = Len(rpSent) /\ DOMAIN rpSent = 1..m
  BY DEF ReplayTypes
<1>2. /\ DOMAIN rpSent' = 1..m + 1 /\ rpSent'[m + 1] = r
      /\ \A k \in 1..m : rpSent'[k] = rpSent[k]
  BY <1>1 DEF ReplayTypes
<1>3. PICK S : S = {k \in DOMAIN rpSent : rpSent[k].file = i}
  OBVIOUS
<1>4. /\ IsFiniteSet(S) /\ m + 1 \notin S
      /\ SentOf(i) = Cardinality(S) /\ Cardinality(S) \in Nat
  <2>1. IsFiniteSet(S)
    BY <1>3, ReplayFinite
  <2>2. m + 1 \notin S
    BY <1>1, <1>3
  <2>3. SentOf(i) = Cardinality(S) /\ Cardinality(S) \in Nat
    BY <1>3, <2>1, FS_CardinalityType DEF SentOf
  <2> QED  BY <2>1, <2>2, <2>3
<1>5. SentOf(i)' = Cardinality({k \in DOMAIN rpSent' : rpSent'[k].file = i})
  BY DEF SentOf
<1>6. CASE r.file = i
  <2>1. {k \in DOMAIN rpSent' : rpSent'[k].file = i} = S \cup {m + 1}
    BY <1>1, <1>2, <1>3, <1>6
  <2>2. Cardinality(S \cup {m + 1}) = Cardinality(S) + 1
    BY <1>4, FS_AddElement
  <2> QED  BY <1>4, <1>5, <1>6, <2>1, <2>2
<1>7. CASE r.file # i
  <2>1. {k \in DOMAIN rpSent' : rpSent'[k].file = i} = S
    BY <1>1, <1>2, <1>3, <1>7
  <2>2. Cardinality(S) + 0 = Cardinality(S)
    BY <1>4
  <2> QED  BY <1>4, <1>5, <1>7, <2>1, <2>2
<1> QED  BY <1>6, <1>7

\* scan finds the first of the files at the earliest packet.
LEMMA EarliestIs ==
  ASSUME ReplayTypes, ReadingFiles # {}
  PROVE  /\ Earliest(ReadingFiles) \in ReadingFiles
         /\ \A j \in ReadingFiles :
              ComesBefore(Earliest(ReadingFiles), TimeOf(Earliest(ReadingFiles)), j)
<1>1. \A j \in ReadingFiles : TimeOf(j) \in Nat /\ j \in Nat
  <2>1. PICK n \in Nat : DOMAIN rpFiles = 1..n
    BY DEF ReplayTypes
  <2>2. \A j \in ReadingFiles : j \in DOMAIN rpFiles
    BY DEF ReadingFiles
  <2> QED  BY <2>1, <2>2, FileIs
<1>2. PICK R : R = ReadingFiles
  OBVIOUS
<1>3. PICK t \in {TimeOf(j) : j \in R} : \A u \in {TimeOf(j) : j \in R} : t <= u
  <2>1. {TimeOf(j) : j \in R} \subseteq Nat /\ {TimeOf(j) : j \in R} # {}
    BY <1>1, <1>2
  <2> QED  BY <2>1, LeastNatural
<1>4. PICK i \in {j \in R : TimeOf(j) = t} : \A j \in {k \in R : TimeOf(k) = t} : i <= j
  <2>1. {j \in R : TimeOf(j) = t} \subseteq Nat /\ {j \in R : TimeOf(j) = t} # {}
    BY <1>1, <1>2, <1>3
  <2> QED  BY <2>1, LeastNatural
<1>5. i \in R /\ \A j \in R : TimeOf(i) < TimeOf(j) \/ (TimeOf(i) = TimeOf(j) /\ i <= j)
  BY <1>1, <1>2, <1>3, <1>4
<1>6. \E x \in R : \A j \in R : TimeOf(x) < TimeOf(j) \/ (TimeOf(x) = TimeOf(j) /\ x <= j)
  BY <1>5
<1>7. /\ Earliest(R) \in R
      /\ \A j \in R : \/ TimeOf(Earliest(R)) < TimeOf(j)
                      \/ TimeOf(Earliest(R)) = TimeOf(j) /\ Earliest(R) <= j
  BY <1>6, Zenon DEF Earliest
<1> QED  BY <1>2, <1>7 DEF ComesBefore

\* At the start nothing is read.
LEMMA ReplayBegins == ReplayInit => ReplayInv
<1> SUFFICES ASSUME ReplayInit PROVE ReplayInv
  OBVIOUS
<1>1. /\ rpTiming \in BOOLEAN /\ rpFiles = <<>> /\ rpThread = "none" /\ rpNonEmpty = 0
      /\ rpIndex = 0 /\ rpFirst = 0 /\ rpStart = 0 /\ rpNow = 0 /\ rpUntil = 0
      /\ rpSent = <<>> /\ rpLate = {}
  BY DEF ReplayInit
<1>2. ReadingFiles = {} /\ DOMAIN rpFiles = {} /\ DOMAIN rpSent = {}
  BY <1>1 DEF ReadingFiles
<1>3. Cardinality(ReadingFiles) = 0
  BY <1>2, FS_EmptySet
<1>4. ReplayTypes
  BY <1>1, <1>2, <1>3, ReplayAssumption DEF ReplayTypes
<1>5. ReplayBegun /\ ReplayScheduled /\ ReplayAhead
  BY <1>1, <1>2 DEF ReplayBegun, ReplayScheduled, ReplayAhead
<1>6. ReplayedInOrder
  BY <1>1, <1>2 DEF ReplayedInOrder, InTimeOrder, NeverEarly, EachOnce
<1> QED  BY <1>1, <1>4, <1>5, <1>6 DEF ReplayInv

\* A step that leaves the files and the packets handed over alone, and after which
\* the thread may be where it is.
LEMMA ReplaySame ==
  ASSUME ReplayInv, UNCHANGED <<rpTiming, rpFiles, rpNonEmpty, rpFirst, rpStart, rpSent, rpLate>>,
         rpThread' \in {"none", "start", "scan", "sleep", "fire", "end", "exit"},
         (rpThread \in {"none", "start"}) = (rpThread' \in {"none", "start"}),
         rpNow' \in 0..ReplayMaxTime, rpUntil' \in Int, rpIndex' \in 0..Len(rpFiles),
         ReplayScheduled',
         rpThread' = "end" => rpNonEmpty = 0,
         rpThread' = "exit" => rpLate # {}
  PROVE  ReplayInv'
<1>1. /\ ReplayTypes /\ ReplayBegun /\ ReplayAhead
      /\ InTimeOrder /\ NeverEarly /\ EachOnce
  BY DEF ReplayInv, ReplayedInOrder
<1>2. ReadingFiles' = ReadingFiles /\ \A i : SentOf(i)' = SentOf(i) /\ TimeOf(i)' = TimeOf(i)
  BY DEF ReadingFiles, SentOf, TimeOf
<1>3. ReplayTypes'
  BY <1>1, <1>2 DEF ReplayTypes
<1>4. ReplayBegun'
  BY <1>1 DEF ReplayBegun
<1>5. ReplayAhead'
  BY <1>1, <1>2 DEF ReplayAhead, ComesBefore
<1>6. InTimeOrder' /\ NeverEarly' /\ EachOnce'
  BY <1>1, <1>2 DEF InTimeOrder, NeverEarly, EachOnce
<1>7. ASSUME rpThread' = "end", NEW i \in DOMAIN rpFiles \ rpLate
      PROVE  SentOf(i) = Len(rpFiles[i].times)
  <2>1. ReadingFiles = {}
    BY <1>1, <1>7, ReplayFinite, FS_EmptySet DEF ReplayTypes
  <2>2. rpFiles[i].state = "AtEnd"
    <3>1. rpFiles[i].state # "Reading"
      BY <1>7, <2>1 DEF ReadingFiles
    <3>2. rpFiles[i].state # "Opened"
      BY <1>1, <1>7 DEF ReplayBegun
    <3>3. rpFiles[i].state \in {"Opened", "Reading", "AtEnd"}
      BY <1>1, <1>7, FileIs DEF ReplayFile
    <3> QED  BY <3>1, <3>2, <3>3
  <2> QED  BY <1>1, <1>7, <2>2 DEF EachOnce, ReplayTypes
<1>8. ReplayedInOrder'
  BY <1>2, <1>6, <1>7 DEF ReplayedInOrder
<1> QED  BY <1>3, <1>4, <1>5, <1>8 DEF ReplayInv

\* The reader's thread starts, scans, ends or gives up, and time passes.
LEMMA ReplayQuietKeeps ==
  ASSUME ReplayInv,
         \/ ReplayStart \/ ScanEnd \/ ScanFatal \/ ReplayClock
         \/ UNCHANGED <<rpTiming, rpFiles, rpThread, rpNonEmpty, rpIndex, rpFirst, rpStart, rpNow,
                        rpUntil, rpSent, rpLate>>
  PROVE  ReplayInv'
<1>1. /\ ReplayTypes /\ ReplayBegun /\ ReplayScheduled
      /\ rpThread = "end" => rpNonEmpty = 0
      /\ rpThread = "exit" => rpLate # {}
  BY DEF ReplayInv, ReplayedInOrder
<1>2. /\ UNCHANGED <<rpTiming, rpFiles, rpNonEmpty, rpIndex, rpFirst, rpStart, rpUntil, rpSent, rpLate>>
      /\ rpNow' = rpNow \/ (rpNow < ReplayMaxTime /\ rpNow' = rpNow + 1)
  BY DEF ReplayStart, ScanEnd, ScanFatal, ReplayClock
<1>3. rpNow' \in 0..ReplayMaxTime /\ rpNow' >= rpNow /\ rpNow \in Int /\ rpNow' \in Int
  BY <1>1, <1>2, ReplayAssumption DEF ReplayTypes
<1>4. ReadingFiles' = ReadingFiles /\ \A i : TimeOf(i)' = TimeOf(i)
  BY <1>2 DEF ReadingFiles, TimeOf
<1>5. CASE rpThread' = rpThread
  <2>1. rpThread' = rpThread
    BY <1>5
  <2>2. ASSUME rpThread \in {"fire", "sleep"} PROVE ReplayScheduled'
    <3>1. /\ rpIndex \in ReadingFiles
          /\ \A j \in ReadingFiles : ComesBefore(rpIndex, TimeOf(rpIndex), j)
          /\ rpTiming => (IF rpThread = "fire" THEN rpNow ELSE rpUntil) - rpStart
                           >= TimeOf(rpIndex) - rpFirst
      BY <1>1, <2>2 DEF ReplayScheduled
    <3>2. \A j \in ReadingFiles' : ComesBefore(rpIndex, TimeOf(rpIndex), j)'
      BY <1>2, <1>4, <3>1 DEF ComesBefore
    <3>3. rpTiming' => (IF rpThread' = "fire" THEN rpNow' ELSE rpUntil') - rpStart'
                           >= TimeOf(rpIndex)' - rpFirst'
      <4>1. TimeOf(rpIndex) \in Nat /\ rpIndex \in DOMAIN rpFiles
        BY <1>1, <3>1, FileIs DEF ReadingFiles
      <4>2. TimeOf(rpIndex)' = TimeOf(rpIndex)
        BY <1>2 DEF TimeOf
      <4>3. rpStart \in Int /\ rpFirst \in Int /\ rpUntil \in Int
        BY <1>1 DEF ReplayTypes
      <4>4. CASE rpThread = "fire"
        BY <1>2, <1>3, <2>1, <3>1, <4>1, <4>2, <4>3, <4>4
      <4>5. CASE rpThread # "fire"
        BY <1>2, <1>3, <2>1, <3>1, <4>1, <4>2, <4>3, <4>5
      <4> QED  BY <4>4, <4>5
    <3>4. rpIndex' \in ReadingFiles'
      BY <1>2, <1>4, <3>1
    <3> QED  BY <3>2, <3>3, <3>4 DEF ReplayScheduled
  <2>3. ReplayScheduled'
    BY <2>1, <2>2 DEF ReplayScheduled
  <2> QED  BY <1>1, <1>2, <1>3, <2>1, <2>3, ReplaySame DEF ReplayTypes
<1>6. CASE ReplayStart \/ ScanEnd \/ ScanFatal
  <2>1. \/ rpThread = "none" /\ rpThread' = "start"
        \/ rpThread = "scan" /\ rpThread' = "end" /\ rpNonEmpty = 0
        \/ /\ rpThread = "scan" /\ rpThread' = "exit"
           /\ \E i \in DOMAIN rpFiles : rpFiles[i].state = "Opened"
    BY <1>6 DEF ReplayStart, ScanEnd, ScanFatal
  <2>2. rpThread' = "exit" => rpLate # {}
    BY <1>1, <2>1 DEF ReplayBegun
  <2>3. ReplayScheduled'
    BY <2>1 DEF ReplayScheduled
  <2> QED  BY <1>1, <1>2, <1>3, <2>1, <2>2, <2>3, ReplaySame DEF ReplayTypes
<1> QED  BY <1>5, <1>6 DEF ReplayClock

\* scan and schedulePacket.
LEMMA ScanFilesKeeps ==
  ASSUME ReplayInv, ScanFiles
  PROVE  ReplayInv'
<1>1. ReplayTypes
  BY DEF ReplayInv
<1>2. PICK open : open = {i \in DOMAIN rpFiles : rpFiles[i].state # "AtEnd"}
  OBVIOUS
<1>3. PICK next : next = Earliest(open)
  OBVIOUS
<1>4. PICK delay : delay = IF rpTiming THEN (TimeOf(next) - rpFirst) - (rpNow - rpStart) ELSE 0
  OBVIOUS
<1>5. /\ rpThread = "scan" /\ rpNonEmpty > 0
      /\ \A i \in open : rpFiles[i].state = "Reading"
      /\ rpIndex' = next /\ rpThread' = (IF delay <= 0 THEN "fire" ELSE "sleep")
      /\ rpUntil' = rpNow + delay
      /\ UNCHANGED <<rpTiming, rpFiles, rpNonEmpty, rpFirst, rpStart, rpNow, rpSent, rpLate>>
  BY <1>2, <1>3, <1>4 DEF ScanFiles
<1>6. open = ReadingFiles
  BY <1>2, <1>5 DEF ReadingFiles
<1>7. ReadingFiles # {}
  <2>1. Cardinality(ReadingFiles) # 0
    BY <1>1, <1>5 DEF ReplayTypes
  <2>2. Cardinality({}) = 0
    BY FS_EmptySet
  <2> QED  BY <2>1, <2>2
<1>8. next \in ReadingFiles /\ \A j \in ReadingFiles : ComesBefore(next, TimeOf(next), j)
  BY <1>1, <1>3, <1>6, <1>7, EarliestIs
<1>9. next \in DOMAIN rpFiles /\ TimeOf(next) \in Nat
  BY <1>1, <1>8, FileIs DEF ReadingFiles
<1>10. /\ rpNow \in Int /\ rpFirst \in Int /\ rpStart \in Int /\ rpTiming \in BOOLEAN
       /\ rpNow \in 0..ReplayMaxTime
  BY <1>1 DEF ReplayTypes
<1>11. delay \in Int /\ (rpTiming => delay = (TimeOf(next) - rpFirst) - (rpNow - rpStart))
  BY <1>4, <1>9, <1>10
<1>12. rpUntil' \in Int /\ rpNow' \in 0..ReplayMaxTime
  BY <1>5, <1>10, <1>11
<1>13. rpIndex' \in 0..Len(rpFiles)
  BY <1>1, <1>5, <1>9 DEF ReplayTypes
<1>14. ReplayScheduled'
  <2>1. ReadingFiles' = ReadingFiles /\ \A i : TimeOf(i)' = TimeOf(i)
    BY <1>5 DEF ReadingFiles, TimeOf
  <2>2. TimeOf(rpIndex)' = TimeOf(next)
    BY <1>5 DEF TimeOf
  <2>3. \A j \in ReadingFiles' : ComesBefore(rpIndex, TimeOf(rpIndex), j)'
    BY <1>5, <1>8, <2>1, <2>2 DEF ComesBefore
  <2>4. ASSUME rpTiming
        PROVE  (IF rpThread' = "fire" THEN rpNow' ELSE rpUntil') - rpStart'
                 >= TimeOf(rpIndex)' - rpFirst'
    <3>1. CASE delay <= 0
      <4>1. rpThread' = "fire" /\ rpNow' = rpNow /\ rpStart' = rpStart /\ rpFirst' = rpFirst
        BY <1>5, <3>1
      <4> QED  BY <1>9, <1>10, <1>11, <2>2, <2>4, <3>1, <4>1
    <3>2. CASE ~(delay <= 0)
      <4>1. rpThread' # "fire" /\ rpUntil' = rpNow + delay /\ rpStart' = rpStart /\ rpFirst' = rpFirst
        BY <1>5, <3>2
      <4> QED  BY <1>9, <1>10, <1>11, <2>2, <2>4, <4>1
    <3> QED  BY <3>1, <3>2
  <2>5. rpIndex' \in ReadingFiles' /\ rpTiming' = rpTiming
    BY <1>5, <1>8, <2>1
  <2> QED  BY <2>3, <2>4, <2>5 DEF ReplayScheduled
<1>15. rpThread' \in {"fire", "sleep"}
  BY <1>5
<1> QED  BY <1>5, <1>12, <1>13, <1>14, <1>15, ReplaySame

\* A file that is added is not read yet.
LEMMA ReplayPortAddKeeps ==
  ASSUME ReplayInv, NEW p \in ReplayPorts, NEW times \in ReplayInputs, ReplayPortAdd(p, times)
  PROVE  ReplayInv'
<1>1. /\ ReplayTypes /\ ReplayBegun /\ ReplayScheduled /\ ReplayAhead /\ ReplayedInOrder
      /\ rpThread = "end" => rpNonEmpty = 0
  BY DEF ReplayInv
<1>2. PICK f : f = [port |-> p, times |-> times, pos |-> 0, state |-> "Opened"]
  OBVIOUS
<1>3. f \in ReplayFile /\ f.state = "Opened" /\ f.pos = 0 /\ f.times = times
  BY <1>2 DEF ReplayFile
<1>4. PICK n \in Nat : n = Len(rpFiles) /\ DOMAIN rpFiles = 1..n
  BY <1>1 DEF ReplayTypes
<1>5. /\ rpThread # "exit" /\ rpFiles' = Append(rpFiles, f)
      /\ rpLate' = (IF rpThread \in {"none", "start"} THEN rpLate ELSE rpLate \cup {n + 1})
      /\ UNCHANGED <<rpTiming, rpThread, rpNonEmpty, rpIndex, rpFirst, rpStart, rpNow, rpUntil,
                     rpSent>>
  BY <1>2, <1>4 DEF ReplayPortAdd
<1>6. /\ rpFiles' \in Seq(ReplayFile) /\ Len(rpFiles') = n + 1 /\ DOMAIN rpFiles' = 1..n + 1
      /\ rpFiles'[n + 1] = f /\ \A i \in 1..n : rpFiles'[i] = rpFiles[i]
  BY <1>1, <1>3, <1>4, <1>5 DEF ReplayTypes
<1>7. ReadingFiles' = ReadingFiles
  <2>1. \A i \in 1..n + 1 : i = n + 1 \/ i \in 1..n
    BY <1>4
  <2>2. ReadingFiles' = {i \in 1..n : rpFiles[i].state = "Reading"}
    BY <1>3, <1>4, <1>6, <2>1 DEF ReadingFiles
  <2> QED  BY <1>4, <2>2 DEF ReadingFiles
<1>8. \A i \in 1..n : TimeOf(i)' = TimeOf(i)
  BY <1>6 DEF TimeOf
<1>9. \A i : SentOf(i)' = SentOf(i)
  BY <1>5 DEF SentOf
<1>10. ReadingFiles \subseteq 1..n
  BY <1>4 DEF ReadingFiles
<1>11. Len(times) \in Nat
  BY ReplayAssumption
<1>12. ReplayTypes'
  <2>1. ASSUME NEW i \in DOMAIN rpFiles'
        PROVE  /\ rpFiles'[i].pos <= Len(rpFiles'[i].times)
               /\ rpFiles'[i].state = "Opened" => rpFiles'[i].pos = 0
               /\ rpFiles'[i].state = "Reading" => rpFiles'[i].pos > 0
               /\ rpFiles'[i].state = "AtEnd" => rpFiles'[i].pos = Len(rpFiles'[i].times)
    <3>1. CASE i = n + 1
      <4>1. rpFiles'[i] = f
        BY <1>6, <3>1
      <4> QED  BY <1>3, <1>11, <4>1
    <3>2. CASE i # n + 1
      <4>1. i \in 1..n
        BY <1>4, <1>6, <3>2
      <4> QED  BY <1>1, <1>4, <1>6, <4>1 DEF ReplayTypes
    <3> QED  BY <3>1, <3>2
  <2>2. rpNonEmpty' = Cardinality(ReadingFiles)'
    BY <1>1, <1>5, <1>7 DEF ReplayTypes
  <2>3. rpIndex' \in 0..Len(rpFiles')
    BY <1>1, <1>4, <1>5, <1>6 DEF ReplayTypes
  <2>4. \A k \in DOMAIN rpSent' : rpSent'[k].file \in DOMAIN rpFiles'
    BY <1>1, <1>4, <1>5, <1>6 DEF ReplayTypes
  <2> QED  BY <1>1, <1>5, <1>6, <2>1, <2>2, <2>3, <2>4 DEF ReplayTypes
<1>13. ReplayBegun'
  <2>1. CASE rpThread \in {"none", "start"}
    <3>1. \A i \in DOMAIN rpFiles' : rpFiles'[i].state = "Opened"
      BY <1>1, <1>3, <1>4, <1>6, <2>1 DEF ReplayBegun
    <3> QED  BY <1>1, <1>5, <2>1, <3>1 DEF ReplayBegun
  <2>2. CASE rpThread \notin {"none", "start"}
    <3>1. \A i \in DOMAIN rpFiles' : rpFiles'[i].state = "Opened" => i \in rpLate'
      BY <1>1, <1>4, <1>5, <1>6, <2>2 DEF ReplayBegun
    <3> QED  BY <1>5, <2>2, <3>1 DEF ReplayBegun
  <2> QED  BY <2>1, <2>2
<1>14. ASSUME rpThread \in {"fire", "sleep"} PROVE ReplayScheduled'
  <2>1. /\ rpIndex \in ReadingFiles
        /\ \A j \in ReadingFiles : ComesBefore(rpIndex, TimeOf(rpIndex), j)
        /\ rpTiming => (IF rpThread = "fire" THEN rpNow ELSE rpUntil) - rpStart
                         >= TimeOf(rpIndex) - rpFirst
    BY <1>1, <1>14 DEF ReplayScheduled
  <2>2. rpIndex \in 1..n /\ TimeOf(rpIndex)' = TimeOf(rpIndex)
    BY <1>5, <1>6, <1>10, <2>1 DEF TimeOf
  <2>3. \A j \in ReadingFiles' : ComesBefore(rpIndex, TimeOf(rpIndex), j)'
    BY <1>5, <1>7, <1>8, <1>10, <2>1, <2>2 DEF ComesBefore
  <2> QED  BY <1>5, <1>7, <2>1, <2>2, <2>3 DEF ReplayScheduled
<1>15. ReplayScheduled'
  BY <1>5, <1>14 DEF ReplayScheduled
<1>16. ReplayAhead'
  BY <1>1, <1>5, <1>7, <1>8, <1>10 DEF ReplayAhead, ComesBefore
<1>17. InTimeOrder' /\ NeverEarly'
  BY <1>1, <1>5 DEF ReplayedInOrder, InTimeOrder, NeverEarly
<1>18. EachOnce'
  <2>1. SentOf(n + 1) = 0
    <3>1. {k \in DOMAIN rpSent : rpSent[k].file = n + 1} = {}
      BY <1>1, <1>4 DEF ReplayTypes
    <3> QED  BY <3>1, FS_EmptySet DEF SentOf
  <2>2. ASSUME NEW i \in DOMAIN rpFiles'
        PROVE  SentOf(i)' = IF rpFiles'[i].state = "Reading" THEN rpFiles'[i].pos - 1
                            ELSE rpFiles'[i].pos
    <3>1. CASE i = n + 1
      BY <1>3, <1>6, <1>9, <2>1, <3>1
    <3>2. CASE i # n + 1
      <4>1. i \in 1..n
        BY <1>4, <1>6, <3>2
      <4> QED  BY <1>1, <1>4, <1>6, <1>9, <4>1 DEF ReplayedInOrder, EachOnce
    <3> QED  BY <3>1, <3>2
  <2> QED  BY <2>2 DEF EachOnce
<1>19. ASSUME rpThread' = "end", NEW i \in DOMAIN rpFiles' \ rpLate'
       PROVE  SentOf(i)' = Len(rpFiles'[i].times)
  <2>1. i \in 1..n /\ i \notin rpLate /\ rpThread = "end"
    BY <1>4, <1>5, <1>6, <1>19
  <2> QED  BY <1>1, <1>4, <1>6, <1>9, <2>1 DEF ReplayedInOrder
<1>20. ReplayedInOrder'
  BY <1>5, <1>17, <1>18, <1>19 DEF ReplayedInOrder
<1> QED  BY <1>1, <1>5, <1>12, <1>13, <1>15, <1>16, <1>20 DEF ReplayInv

\* start goes over the files, and finds the first packet's time.
LEMMA ReaderStartKeeps ==
  ASSUME ReplayInv, ReaderStart
  PROVE  ReplayInv'
<1>1. /\ ReplayTypes /\ ReplayBegun /\ ReplayedInOrder
  BY DEF ReplayInv
<1>2. PICK moved : moved = [i \in DOMAIN rpFiles |-> MoveNext(rpFiles[i])]
  OBVIOUS
<1>3. PICK reading : reading = {i \in DOMAIN moved : moved[i].state = "Reading"}
  OBVIOUS
<1>4. /\ rpThread = "start" /\ rpThread' = "scan" /\ rpFiles' = moved
      /\ rpNonEmpty' = Cardinality(reading) /\ rpStart' = rpNow
      /\ rpFirst' = IF reading = {} THEN rpFirst ELSE Min({moved[i].times[1] : i \in reading})
      /\ UNCHANGED <<rpTiming, rpOut, rpIndex, rpNow, rpUntil, rpSent, rpLate>>
  BY <1>2, <1>3 DEF ReaderStart
<1>5. PICK n \in Nat : n = Len(rpFiles) /\ DOMAIN rpFiles = 1..n
  BY <1>1 DEF ReplayTypes
<1>6. rpSent = <<>> /\ rpLate = {} /\ \A i \in 1..n : rpFiles[i].state = "Opened" /\ rpFiles[i].pos = 0
  BY <1>1, <1>4, <1>5 DEF ReplayBegun, ReplayTypes
<1>7. ASSUME NEW i \in 1..n
      PROVE  /\ rpFiles'[i] \in ReplayFile /\ rpFiles'[i].times \in Seq(Nat)
             /\ \/ /\ Len(rpFiles'[i].times) > 0
                   /\ rpFiles'[i].pos = 1 /\ rpFiles'[i].state = "Reading"
                \/ /\ Len(rpFiles'[i].times) = 0
                   /\ rpFiles'[i].pos = 0 /\ rpFiles'[i].state = "AtEnd"
  <2>1. rpFiles'[i] = MoveNext(rpFiles[i])
    BY <1>2, <1>4, <1>5
  <2>2. rpFiles[i] \in ReplayFile /\ rpFiles[i].times \in Seq(Nat) /\ rpFiles[i].pos = 0
        /\ rpFiles[i].state = "Opened" /\ rpFiles[i].pos <= Len(rpFiles[i].times)
    BY <1>1, <1>5, <1>6, FileIs
  <2>3. Len(rpFiles[i].times) \in Nat
    BY <2>2
  <2> QED  BY <2>1, <2>2, <2>3, MoveNextIs
<1>8. rpFiles' \in Seq(ReplayFile) /\ DOMAIN rpFiles' = 1..n /\ Len(rpFiles') = n
  <2>1. rpFiles' \in [1..n -> ReplayFile]
    BY <1>2, <1>4, <1>5, <1>7
  <2> QED  BY <2>1
<1>9. reading = ReadingFiles' /\ reading \subseteq 1..n
  BY <1>3, <1>4, <1>8 DEF ReadingFiles
<1>10. rpFirst' \in Nat
  <2>1. CASE reading = {}
    BY <1>1, <1>4, <2>1 DEF ReplayTypes
  <2>2. CASE reading # {}
    <3>1. ASSUME NEW i \in reading PROVE moved[i].times[1] \in Nat
      <4>1. i \in 1..n /\ rpFiles'[i] = moved[i] /\ moved[i].state = "Reading"
        BY <1>3, <1>4, <1>9
      <4>2. PICK f \in Seq(Nat) : f = moved[i].times /\ Len(f) > 0
        BY <1>7, <4>1
      <4> QED  BY <4>2
    <3>2. PICK S : S = {moved[i].times[1] : i \in reading}
      OBVIOUS
    <3>3. S \subseteq Nat /\ S # {}
      BY <2>2, <3>1, <3>2
    <3>4. \E x \in S : \A y \in S : x <= y
      BY <3>3, LeastNatural
    <3>5. Min(S) \in S
      BY <3>4 DEF Min
    <3> QED  BY <1>4, <2>2, <3>2, <3>3, <3>5
  <2> QED  BY <2>1, <2>2
<1>11. ReplayTypes'
  <2>1. ASSUME NEW i \in DOMAIN rpFiles'
        PROVE  /\ rpFiles'[i].pos <= Len(rpFiles'[i].times)
               /\ rpFiles'[i].state = "Opened" => rpFiles'[i].pos = 0
               /\ rpFiles'[i].state = "Reading" => rpFiles'[i].pos > 0
               /\ rpFiles'[i].state = "AtEnd" => rpFiles'[i].pos = Len(rpFiles'[i].times)
    <3>1. i \in 1..n
      BY <1>8
    <3>2. PICK l \in Nat : l = Len(rpFiles'[i].times)
      BY <1>7, <3>1
    <3> QED  BY <1>7, <3>1, <3>2
  <2>2. rpNonEmpty' = Cardinality(ReadingFiles)'
    BY <1>4, <1>9
  <2>3. rpIndex' \in 0..Len(rpFiles') /\ rpStart' \in Nat
    BY <1>1, <1>4, <1>5, <1>8 DEF ReplayTypes
  <2>4. \A k \in DOMAIN rpSent' : rpSent'[k].file \in DOMAIN rpFiles'
    BY <1>4, <1>6
  <2> QED  BY <1>1, <1>4, <1>8, <1>10, <2>1, <2>2, <2>3, <2>4 DEF ReplayTypes
<1>12. ReplayBegun' /\ ReplayScheduled' /\ ReplayAhead'
  BY <1>4, <1>6, <1>7, <1>8 DEF ReplayBegun, ReplayScheduled, ReplayAhead
<1>13. ReplayedInOrder'
  <2>1. rpSent' = <<>> /\ DOMAIN rpSent' = {} /\ Len(rpSent') = 0
    BY <1>4, <1>6
  <2>2. \A i : SentOf(i)' = 0
    <3>1. ASSUME NEW i PROVE {k \in DOMAIN rpSent' : rpSent'[k].file = i} = {}
      BY <2>1
    <3> QED  BY <3>1, FS_EmptySet DEF SentOf
  <2>3. EachOnce'
    BY <1>7, <1>8, <2>2 DEF EachOnce
  <2> QED  BY <1>4, <2>1, <2>3 DEF ReplayedInOrder, InTimeOrder, NeverEarly
<1> QED  BY <1>4, <1>11, <1>12, <1>13 DEF ReplayInv

\* The packet that was scheduled is handed over, and its file moves on.
LEMMA TimerFiredKeeps ==
  ASSUME ReplayInv, TimerFired
  PROVE  ReplayInv'
<1>1. /\ ReplayTypes /\ ReplayBegun /\ ReplayScheduled /\ ReplayAhead
      /\ InTimeOrder /\ NeverEarly /\ EachOnce
  BY DEF ReplayInv, ReplayedInOrder
<1>2. PICK f : f = MoveNext(rpFiles[rpIndex])
  OBVIOUS
<1>3. PICK r : r = [file |-> rpIndex, time |-> TimeOf(rpIndex), at |-> rpNow]
  OBVIOUS
<1>4. /\ rpThread = "fire" \/ (rpThread = "sleep" /\ rpNow >= rpUntil)
      /\ rpSent' = Append(rpSent, r) /\ rpFiles' = [rpFiles EXCEPT ![rpIndex] = f]
      /\ rpNonEmpty' = (IF f.state = "AtEnd" THEN rpNonEmpty - 1 ELSE rpNonEmpty)
      /\ rpThread' = "scan"
      /\ UNCHANGED <<rpTiming, rpOut, rpIndex, rpFirst, rpStart, rpNow, rpUntil, rpLate>>
  BY <1>2, <1>3 DEF TimerFired
<1>5. PICK n \in Nat : n = Len(rpFiles) /\ DOMAIN rpFiles = 1..n
  BY <1>1 DEF ReplayTypes
<1>6. PICK x \in 1..n : x = rpIndex /\ x \in ReadingFiles
  BY <1>1, <1>4, <1>5 DEF ReplayScheduled, ReadingFiles
<1>7. PICK t \in Nat : t = TimeOf(x)
  BY <1>1, <1>5, <1>6, FileIs
<1>8. /\ \A j \in ReadingFiles : ComesBefore(x, t, j)
      /\ rpTiming => (IF rpThread = "fire" THEN rpNow ELSE rpUntil) - rpStart >= t - rpFirst
  BY <1>1, <1>4, <1>6, <1>7 DEF ReplayScheduled
<1>9. /\ rpFiles[x] \in ReplayFile /\ rpFiles[x].times \in Seq(Nat)
      /\ rpFiles[x].pos \in 1..Len(rpFiles[x].times) /\ rpFiles[x].state = "Reading"
      /\ \A i \in 1..Len(rpFiles[x].times) - 1 : rpFiles[x].times[i] <= rpFiles[x].times[i + 1]
  <2>1. /\ rpFiles[x] \in ReplayFile /\ rpFiles[x].times \in Seq(Nat)
        /\ rpFiles[x].pos \in 0..Len(rpFiles[x].times)
    BY <1>1, <1>5, FileIs
  <2>2. rpFiles[x].state = "Reading" /\ rpFiles[x].pos > 0
    BY <1>1, <1>5, <1>6 DEF ReplayTypes, ReadingFiles
  <2>3. rpFiles[x].times \in ReplayInputs
    BY <2>1 DEF ReplayFile
  <2>4. rpFiles[x].pos \in 1..Len(rpFiles[x].times)
    BY <2>1, <2>2
  <2> QED  BY <2>1, <2>2, <2>3, <2>4, ReplayAssumption
<1>10. PICK q \in Nat, l \in Nat : q = rpFiles[x].pos /\ l = Len(rpFiles[x].times) /\ q \in 1..l
  BY <1>9
<1>11. /\ f \in ReplayFile /\ f.times = rpFiles[x].times
       /\ \/ q < l /\ f.pos = q + 1 /\ f.state = "Reading"
          \/ q = l /\ f.pos = q /\ f.state = "AtEnd"
  BY <1>2, <1>6, <1>9, <1>10, MoveNextIs, SMTT(40)
<1>12. /\ rpFiles' \in Seq(ReplayFile) /\ Len(rpFiles') = n /\ DOMAIN rpFiles' = 1..n
       /\ rpFiles'[x] = f /\ \A i \in 1..n : i # x => rpFiles'[i] = rpFiles[i]
  BY <1>1, <1>4, <1>5, <1>6, <1>11 DEF ReplayTypes
<1>13. PICK m \in Nat : m = Len(rpSent) /\ DOMAIN rpSent = 1..m
  BY <1>1 DEF ReplayTypes
<1>14. r \in [file : Nat, time : Nat, at : Nat] /\ r.file = x /\ r.time = t /\ r.at = rpNow
  BY <1>1, <1>3, <1>6, <1>7 DEF ReplayTypes
<1>15. /\ rpSent' \in Seq([file : Nat, time : Nat, at : Nat]) /\ Len(rpSent') = m + 1
       /\ DOMAIN rpSent' = 1..m + 1 /\ rpSent'[m + 1] = r /\ rpSent' # <<>>
       /\ \A k \in 1..m : rpSent'[k] = rpSent[k]
  BY <1>1, <1>4, <1>13, <1>14 DEF ReplayTypes
<1>16. /\ f.state = "Reading" => ReadingFiles' = ReadingFiles
       /\ f.state = "AtEnd" => ReadingFiles' = ReadingFiles \ {x}
  BY <1>5, <1>6, <1>12 DEF ReadingFiles
<1>17. ReplayTypes'
  <2>1. ASSUME NEW i \in DOMAIN rpFiles'
        PROVE  /\ rpFiles'[i].pos <= Len(rpFiles'[i].times)
               /\ rpFiles'[i].state = "Opened" => rpFiles'[i].pos = 0
               /\ rpFiles'[i].state = "Reading" => rpFiles'[i].pos > 0
               /\ rpFiles'[i].state = "AtEnd" => rpFiles'[i].pos = Len(rpFiles'[i].times)
    <3>1. CASE i = x
      BY <1>10, <1>11, <1>12, <3>1
    <3>2. CASE i # x
      BY <1>1, <1>5, <1>12, <3>2 DEF ReplayTypes
    <3> QED  BY <3>1, <3>2
  <2>2. rpNonEmpty' = Cardinality(ReadingFiles)'
    <3>1. rpNonEmpty = Cardinality(ReadingFiles) /\ IsFiniteSet(ReadingFiles)
      BY <1>1, ReplayFinite DEF ReplayTypes
    <3>2. CASE f.state = "Reading"
      BY <1>4, <1>16, <3>1, <3>2
    <3>3. CASE f.state = "AtEnd"
      <4>1. Cardinality(ReadingFiles \ {x}) = Cardinality(ReadingFiles) - 1
        BY <1>6, <3>1, FS_RemoveElement
      <4> QED  BY <1>4, <1>16, <3>1, <3>3, <4>1
    <3> QED  BY <1>11, <3>2, <3>3
  <2>3. rpIndex' \in 0..Len(rpFiles')
    BY <1>1, <1>4, <1>5, <1>12 DEF ReplayTypes
  <2>4. \A k \in DOMAIN rpSent' : rpSent'[k].file \in DOMAIN rpFiles'
    <3>1. ASSUME NEW k \in 1..m + 1 PROVE rpSent'[k].file \in 1..n
      <4>1. CASE k = m + 1
        BY <1>14, <1>15, <4>1
      <4>2. CASE k # m + 1
        <5>1. k \in 1..m
          BY <1>13, <4>2
        <5> QED  BY <1>1, <1>5, <1>13, <1>15, <5>1 DEF ReplayTypes
      <4> QED  BY <4>1, <4>2
    <3> QED  BY <1>12, <1>15, <3>1
  <2> QED  BY <1>1, <1>4, <1>12, <1>15, <2>1, <2>2, <2>3, <2>4 DEF ReplayTypes
<1>18. ReplayBegun'
  <2>1. \A i \in 1..n : rpFiles[i].state = "Opened" => i \in rpLate
    BY <1>1, <1>4, <1>5 DEF ReplayBegun
  <2>2. \A i \in 1..n : rpFiles'[i].state = "Opened" => i \in rpLate'
    BY <1>4, <1>11, <1>12, <2>1
  <2> QED  BY <1>4, <1>12, <2>2 DEF ReplayBegun
<1>19. ReplayScheduled'
  BY <1>4 DEF ReplayScheduled
<1>20. ASSUME NEW j \in ReadingFiles' PROVE ComesBefore(x, t, j)'
  <2>1. j \in 1..n /\ rpFiles'[j].state = "Reading"
    BY <1>12, <1>20 DEF ReadingFiles
  <2>2. CASE j = x
    <3>1. f.state = "Reading" /\ q < l /\ f.pos = q + 1
      BY <1>11, <1>12, <2>1, <2>2
    <3>2. TimeOf(j)' = rpFiles[x].times[q + 1]
      BY <1>11, <1>12, <2>2, <3>1 DEF TimeOf
    <3>3. t = rpFiles[x].times[q]
      BY <1>7, <1>10 DEF TimeOf
    <3>4. q \in 1..l - 1 /\ q \in 1..l /\ q + 1 \in 1..l
      BY <1>10, <3>1
    <3>5. rpFiles[x].times[q] <= rpFiles[x].times[q + 1] /\ rpFiles[x].times[q + 1] \in Nat
      <4>1. PICK g \in Seq(Nat) : g = rpFiles[x].times
        BY <1>9
      <4>2. PICK z \in 1..Len(g) : z = q + 1
        BY <1>10, <3>4, <4>1
      <4>3. g[z] \in Nat
        OBVIOUS
      <4> QED  BY <1>9, <1>10, <3>4, <4>1, <4>2, <4>3
    <3>6. PICK u \in Nat : u = TimeOf(j)' /\ t <= u
      BY <3>2, <3>3, <3>5
    <3> QED  BY <2>2, <3>6 DEF ComesBefore
  <2>3. CASE j # x
    <3>1. rpFiles'[j] = rpFiles[j] /\ j \in ReadingFiles
      BY <1>5, <1>12, <2>1, <2>3 DEF ReadingFiles
    <3>2. TimeOf(j)' = TimeOf(j)
      BY <3>1 DEF TimeOf
    <3> QED  BY <1>8, <3>1, <3>2 DEF ComesBefore
  <2> QED  BY <2>2, <2>3
<1>21. ReplayAhead'
  BY <1>14, <1>15, <1>20 DEF ReplayAhead, ComesBefore
<1>22. InTimeOrder'
  <2>1. ASSUME NEW k \in 1..m
        PROVE  \/ rpSent'[k].time < rpSent'[k + 1].time
               \/ rpSent'[k].time = rpSent'[k + 1].time /\ rpSent'[k].file <= rpSent'[k + 1].file
    <3>1. CASE k = m
      <4>1. rpSent # <<>> /\ rpSent'[k] = rpSent[m] /\ rpSent'[k + 1] = r
        BY <1>13, <1>15, <3>1
      <4>2. ComesBefore(rpSent[m].file, rpSent[m].time, x)
        BY <1>1, <1>6, <1>13, <4>1 DEF ReplayAhead
      <4> QED  BY <1>7, <1>14, <4>1, <4>2 DEF ComesBefore
    <3>2. CASE k # m
      <4>1. k \in 1..Len(rpSent) - 1 /\ k + 1 \in 1..m
        BY <1>13, <3>2
      <4> QED  BY <1>1, <1>15, <4>1 DEF InTimeOrder
    <3> QED  BY <3>1, <3>2
  <2>2. 1..Len(rpSent') - 1 = 1..m
    BY <1>15
  <2> QED  BY <2>1, <2>2 DEF InTimeOrder
<1>23. NeverEarly'
  <2>1. ASSUME rpTiming, NEW k \in 1..m + 1
        PROVE  rpSent'[k].at - rpStart >= rpSent'[k].time - rpFirst
    <3>1. CASE k = m + 1
      <4>1. rpNow \in Int /\ rpUntil \in Int /\ rpStart \in Int /\ rpFirst \in Int
        BY <1>1 DEF ReplayTypes
      <4>2. rpNow - rpStart >= t - rpFirst
        <5>1. CASE rpThread = "fire"
          BY <1>8, <2>1, <5>1
        <5>2. CASE rpThread = "sleep" /\ rpNow >= rpUntil
          BY <1>7, <1>8, <2>1, <4>1, <5>2
        <5> QED  BY <1>4, <5>1, <5>2
      <4> QED  BY <1>14, <1>15, <3>1, <4>2
    <3>2. CASE k # m + 1
      <4>1. k \in 1..m
        BY <1>13, <3>2
      <4> QED  BY <1>1, <1>13, <1>15, <2>1, <4>1 DEF NeverEarly
    <3> QED  BY <3>1, <3>2
  <2> QED  BY <1>4, <1>15, <2>1 DEF NeverEarly
<1>24. EachOnce'
  <2>1. ASSUME NEW i \in 1..n
        PROVE  SentOf(i)' = IF rpFiles'[i].state = "Reading" THEN rpFiles'[i].pos - 1
                            ELSE rpFiles'[i].pos
    <3>1. SentOf(i)' = SentOf(i) + (IF r.file = i THEN 1 ELSE 0)
      BY <1>1, <1>4, SentGrows
    <3>2. SentOf(i) = IF rpFiles[i].state = "Reading" THEN rpFiles[i].pos - 1 ELSE rpFiles[i].pos
      BY <1>1, <1>5 DEF EachOnce
    <3>3. SentOf(i) \in Nat
      BY <1>1, ReplayFinite
    <3>4. CASE i = x
      <4>1. SentOf(i) = q - 1 /\ SentOf(i)' = SentOf(i) + 1
        BY <1>9, <1>10, <1>14, <3>1, <3>2, <3>4
      <4>2. SentOf(i)' = q
        BY <1>10, <4>1
      <4> QED  BY <1>10, <1>11, <1>12, <3>4, <4>2, SMTT(40)
    <3>5. CASE i # x
      <4>1. SentOf(i)' = SentOf(i)
        BY <1>14, <3>1, <3>3, <3>5
      <4> QED  BY <1>12, <3>2, <3>5, <4>1
    <3> QED  BY <3>4, <3>5
  <2> QED  BY <1>12, <2>1 DEF EachOnce
<1>25. ReplayedInOrder'
  BY <1>4, <1>22, <1>23, <1>24 DEF ReplayedInOrder
<1> QED  BY <1>4, <1>17, <1>18, <1>19, <1>21, <1>25 DEF ReplayInv

\* The packets of the capture files are replayed in the order of their times, for
\* any number of files, of any length, with any number of ports added meanwhile.
THEOREM ReplayInvariant == ReplaySpec => []ReplayInv
<1>1. ReplayInv /\ [ReplayNext]_rpVars => ReplayInv'
  <2> SUFFICES ASSUME ReplayInv, [ReplayNext]_rpVars PROVE ReplayInv'
    OBVIOUS
  <2>1. CASE UNCHANGED rpVars
    BY <2>1, ReplayQuietKeeps DEF rpVars
  <2>2. ASSUME NEW p \in ReplayPorts, ReplaySend(p) PROVE ReplayInv'
    BY <2>2, ReplayQuietKeeps DEF ReplaySend
  <2>3. ASSUME NEW p \in ReplayPorts, NEW times \in ReplayInputs, ReplayPortAdd(p, times)
        PROVE  ReplayInv'
    BY <2>3, ReplayPortAddKeeps
  <2> QED
    BY <2>1, <2>2, <2>3, ReplayQuietKeeps, ReaderStartKeeps, ScanFilesKeeps, TimerFiredKeeps
    DEF ReplayNext
<1> QED  BY <1>1, ReplayBegins, PTL DEF ReplaySpec

\* Packets come in through the ports the messages have set, and those of capture
\* files in the order of their times.
THEOREM PipesAreSound == PkSpec /\ ReplaySpec => []PipeSound
<1>1. PkInv => PkTypeOK /\ PacketsFollowTheirPorts
  <2> SUFFICES ASSUME PkInv PROVE PkTypeOK /\ PacketsFollowTheirPorts
    OBVIOUS
  <2>1. PkTypes /\ pkTaken.up = pkTaken.handed /\ PkTold
    BY DEF PkInv
  <2>2. PkTypeOK
    <3>1. DOMAIN pkInfo \subseteq PkPorts /\ DOMAIN pkCurr \subseteq PkPorts
      BY <2>1, PkMapIs DEF PkTypes
    <3>2. Len(pkIn) <= PkMaxSent
      <4>1. Len(pkIn) \in Nat /\ pkCount.sent \in 0..PkMaxSent /\ Len(pkIn) <= pkCount.sent
        BY <2>1 DEF PkTypes
      <4> QED  BY <4>1, PkAssumption
    <3> QED  BY <2>1, <3>1, <3>2 DEF PkTypeOK, PkTypes
  <2>3. ASSUME pkTodo = <<>>, pkCount.calls = 0
        PROVE  /\ pkCurr = pkInfo
               /\ \A p \in DOMAIN pkInfo : pkEvents[p] = IF pkInfo[p] THEN "UP" ELSE "DOWN"
    <3>1. ASSUME NEW q \in PkPorts, PkOwes(q) PROVE FALSE
      BY <2>3, <3>1 DEF PkOwes
    <3> QED  BY <2>1, <2>3, <3>1 DEF PkTold, PkReported
  <2> QED  BY <2>1, <2>2, <2>3 DEF PacketsFollowTheirPorts
<1>2. ReplayInv => ReplayTypeOK /\ ReplayedInOrder
  <2> SUFFICES ASSUME ReplayInv PROVE ReplayTypeOK
    BY DEF ReplayInv
  <2>1. ReplayTypes
    BY DEF ReplayInv
  <2>2. \A i \in DOMAIN rpFiles : rpFiles[i].state \in {"Opened", "Reading", "AtEnd"}
    BY <2>1, FileIs DEF ReplayFile
  <2>3. rpNonEmpty \in 0..Len(rpFiles)
    BY <2>1, ReplayFinite DEF ReplayTypes
  <2> QED  BY <2>1, <2>2, <2>3 DEF ReplayTypeOK, ReplayTypes
<1> QED  BY <1>1, <1>2, PacketPipeInvariant, ReplayInvariant, PTL DEF PipeSound
-----------------------------------------------------------------------------
(* PiTables: from PI to the switch and back.                               *)

\* A parameter without its leading zeros, padded again, is the parameter.
LEMMA ActionDataRoundTrip ==
  ASSUME NEW d \in Seq(Nat), Len(d) = PiBytes
  PROVE  PiDumpActionData(PiBuildActionData(d)) = d
<1>1. PICK b \in Nat \ {0} : b = PiBytes
  BY PiAssumption
<1>2. PICK ones : ones = {i \in 1..Len(d) : d[i] # 0}
  OBVIOUS
<1>3. CASE ones = {}
  <2>1. PiBuildActionData(d) = <<0>>
    BY <1>2, <1>3 DEF PiBuildActionData
  <2>2. \A i \in 1..b : d[i] = 0
    BY <1>1, <1>2, <1>3
  <2>3. PICK z : z = [i \in 1..b - 1 |-> 0]
    OBVIOUS
  <2>4. z \in Seq(Nat) /\ Len(z) = b - 1 /\ \A i \in 1..b - 1 : z[i] = 0
    BY <1>1, <2>3
  <2>5. Len(<<0>>) = 1 /\ PiDumpActionData(<<0>>) = z \o <<0>>
    BY <1>1, <2>3 DEF PiDumpActionData
  <2>6. z \o <<0>> \in Seq(Nat) /\ Len(z \o <<0>>) = b /\ \A i \in 1..b : (z \o <<0>>)[i] = 0
    BY <1>1, <2>4
  <2>7. d \in Seq(Nat) /\ Len(d) = b
    BY <1>1
  <2> QED  BY <2>1, <2>2, <2>5, <2>6, <2>7
<1>4. CASE ones # {}
  <2>1. PICK m \in ones : \A i \in ones : m <= i
    <3>1. ones \subseteq Nat
      BY <1>1, <1>2
    <3> QED  BY <1>4, <3>1, LeastNatural
  <2>2. Min(ones) \in ones /\ \A i \in ones : Min(ones) <= i
    <3>1. \E x \in ones : \A y \in ones : x <= y
      BY <2>1
    <3> QED  BY <3>1 DEF Min
  <2>3. m = Min(ones) /\ m \in 1..b
    BY <1>1, <1>2, <2>1, <2>2
  <2>4. \A i \in 1..m - 1 : d[i] = 0
    BY <1>1, <1>2, <2>1, <2>3, SMTT(40)
  <2>5. PICK v : v = SubSeq(d, m, b)
    OBVIOUS
  <2>6. PiBuildActionData(d) = v
    BY <1>1, <1>2, <1>4, <2>3, <2>5 DEF PiBuildActionData
  <2>7. v \in Seq(Nat) /\ Len(v) = b - m + 1 /\ \A i \in 1..b - m + 1 : v[i] = d[m + i - 1]
    BY <1>1, <2>3, <2>5, SMTT(40)
  <2>8. PICK z : z = [i \in 1..b - Len(v) |-> 0]
    OBVIOUS
  <2>9. z \in Seq(Nat) /\ Len(z) = m - 1 /\ \A i \in 1..m - 1 : z[i] = 0
    BY <1>1, <2>3, <2>7, <2>8
  <2>10. PiDumpActionData(v) = z \o v
    BY <1>1, <2>8 DEF PiDumpActionData
  <2>11. z \o v \in Seq(Nat) /\ Len(z \o v) = b
    <3>1. z \in Seq(Nat) /\ v \in Seq(Nat)
      BY <2>7, <2>9
    <3>2. z \o v \in Seq(Nat) /\ Len(z \o v) = Len(z) + Len(v)
      BY <3>1
    <3>3. (m - 1) + (b - m + 1) = b
      BY <1>1, <2>3
    <3> QED  BY <2>7, <2>9, <3>2, <3>3
  <2>12. ASSUME NEW i \in 1..b PROVE (z \o v)[i] = d[i]
    <3>1. CASE i <= m - 1
      BY <2>3, <2>4, <2>7, <2>9, <3>1, SMTT(40)
    <3>2. CASE ~(i <= m - 1)
      <4>1. PICK j \in 1..b - m + 1 : j = i - (m - 1)
        BY <1>1, <2>3, <3>2
      <4>2. (z \o v)[i] = v[j]
        <5>1. i \in 1..Len(z) + Len(v) /\ i > Len(z) /\ i - Len(z) = j
          <6>1. i \in 1..(m - 1) + (b - m + 1) /\ i > m - 1 /\ i - (m - 1) = j
            BY <1>1, <2>3, <3>2, <4>1, SMTT(40)
          <6> QED  BY <2>7, <2>9, <6>1
        <5>2. z \in Seq(Nat) /\ v \in Seq(Nat)
          BY <2>7, <2>9
        <5> QED  BY <5>1, <5>2
      <4>3. m + j - 1 = i
        BY <1>1, <2>3, <4>1
      <4> QED  BY <2>7, <4>2, <4>3
    <3> QED  BY <3>1, <3>2
  <2>13. d \in Seq(Nat) /\ Len(d) = b
    BY <1>1
  <2> QED  BY <2>6, <2>10, <2>11, <2>12, <2>13
<1> QED  BY <1>3, <1>4

\* What the switch is given for an action reads back as that action.
LEMMA ActionRoundTrip ==
  ASSUME NEW tb \in PiTabs, NEW act, PiActOk(tb, act)
  PROVE  PiActionEntry(tb, PiBuildAction(tb, act)) = act /\ PiBuildAction(tb, act) # <<>>
<1>1. CASE tb = "T"
  <2>1. PiBuildAction(tb, act) = [fn |-> act.fn, data |-> PiBuildActionData(act.data)]
    BY <1>1 DEF PiBuildAction
  <2>2. PiActionEntry(tb, PiBuildAction(tb, act))
          = [fn |-> act.fn, data |-> PiDumpActionData(PiBuildActionData(act.data))]
    BY <1>1, <2>1 DEF PiActionEntry
  <2>3. /\ act = [fn |-> act.fn, data |-> act.data]
        /\ act.data \in Seq(Nat) /\ Len(act.data) = PiBytes
    BY <1>1 DEF PiActOk
  <2>4. PiActionEntry(tb, PiBuildAction(tb, act)) = act
    BY <2>2, <2>3, ActionDataRoundTrip
  <2>5. PiBuildAction(tb, act) # <<>>
    <3>1. "fn" \in DOMAIN PiBuildAction(tb, act)
      BY <2>1
    <3>2. DOMAIN <<>> = {}
      OBVIOUS
    <3> QED  BY <3>1, <3>2
  <2> QED  BY <2>4, <2>5
<1>2. CASE tb = "W"
  <2>1. PICK P \in Nat \ {0} : P = PiGrpPrefix
    BY PiAssumption
  <2>2. act \in 0..2 * P - 1 /\ act # P - 1
    BY <1>2, <2>1 DEF PiActOk, BmMaxHandle
  <2>3. CASE act >= P
    <3>1. PiBuildAction(tb, act) = [mbr |-> P - 1, grp |-> act - P]
      BY <1>2, <2>1, <2>3 DEF PiBuildAction, PiIsGrpH, PiClearGrpH, BmMaxHandle
    <3>2. PiActionEntry(tb, PiBuildAction(tb, act)) = PiMakeGrpH(act - P)
      <4>1. ~(P - 1 < act - P)
        BY <2>1, <2>2
      <4> QED  BY <1>2, <3>1, <4>1 DEF PiActionEntry
    <3>3. PiMakeGrpH(act - P) = act
      BY <2>1, <2>2, <2>3 DEF PiMakeGrpH, PiIsGrpH
    <3>4. "mbr" \in DOMAIN PiBuildAction(tb, act)
      BY <3>1
    <3>5. DOMAIN <<>> = {}
      OBVIOUS
    <3> QED  BY <3>2, <3>3, <3>4, <3>5
  <2>4. CASE ~(act >= P)
    <3>1. PiBuildAction(tb, act) = [mbr |-> act, grp |-> P - 1]
      BY <1>2, <2>1, <2>4 DEF PiBuildAction, PiIsGrpH, BmMaxHandle
    <3>2. act < P - 1
      BY <2>1, <2>2, <2>4
    <3>3. PiActionEntry(tb, PiBuildAction(tb, act)) = act
      BY <1>2, <3>1, <3>2 DEF PiActionEntry
    <3>4. "mbr" \in DOMAIN PiBuildAction(tb, act)
      BY <3>1
    <3>5. DOMAIN <<>> = {}
      OBVIOUS
    <3> QED  BY <3>3, <3>4, <3>5
  <2> QED  BY <2>3, <2>4
<1> QED  BY <1>1, <1>2 DEF PiTabs

\* And so does the priority.
LEMMA PriorityRoundTrip ==
  ASSUME NEW tb \in PiTabs, NEW p, p \in 0..PiMaxPrio \/ tb = "W"
  PROVE  /\ BmToPiPriority(PiToBmPriority(tb, p)) = IF tb = "T" THEN p ELSE 0
         /\ PiToBmPriority(tb, p) \in -1..PiMaxPrio
BY PiAssumption DEF BmToPiPriority, PiToBmPriority, PiTabs

\* An entry that is made is not the mark of a free slot.
LEMMA EntryIsUsed ==
  ASSUME NEW tb \in PiTabs, NEW act, PiActOk(tb, act), NEW k, NEW p
  PROVE  [key |-> k, prio |-> p, act |-> PiBuildAction(tb, act)] # PiNoEntry
<1>1. PiBuildAction(tb, act) # <<>>
  BY ActionRoundTrip
<1> QED  BY <1>1 DEF PiNoEntry

\* What the invariant says of the entries is what a client reads.
LEMMA PiReads ==
  ASSUME PiInv PROVE PiTypeOK /\ EmittedIsAsWritten
<1>1. PiTypes /\ PiWritten /\ PiVersionsFromCalls /\ PiDefaultsRead
  BY DEF PiInv
<1>2. EmittedIsAsWritten
  <2>1. ASSUME NEW tb \in PiTabs, NEW s \in PiUsed(tb)
        PROVE  /\ PiEmit(tb, s).key = piWriter[tb][s].key
               /\ PiEmit(tb, s).act = piWriter[tb][s].act
               /\ PiEmit(tb, s).prio = IF tb = "T" THEN piWriter[tb][s].prio ELSE 0
    <3>1. PICK e, w : e = piEntries[tb][s] /\ w = piWriter[tb][s]
      OBVIOUS
    <3>2. s \in PiSlotSet /\ e # PiNoEntry
      BY <3>1 DEF PiUsed
    <3>3. /\ e = [key |-> w.key, prio |-> PiToBmPriority(tb, w.prio),
                  act |-> PiBuildAction(tb, w.act)]
          /\ w.prio \in 0..PiMaxPrio \/ tb = "W"
          /\ PiActOk(tb, w.act)
      BY <1>1, <3>1, <3>2 DEF PiWritten
    <3>4. /\ PiEmit(tb, s).key = e.key /\ PiEmit(tb, s).prio = BmToPiPriority(e.prio)
          /\ PiEmit(tb, s).act = PiActionEntry(tb, e.act)
      BY <3>1 DEF PiEmit
    <3>5. /\ e.key = w.key /\ e.prio = PiToBmPriority(tb, w.prio)
          /\ e.act = PiBuildAction(tb, w.act)
      BY <3>3
    <3>6. PiActionEntry(tb, PiBuildAction(tb, w.act)) = w.act
      BY <3>3, ActionRoundTrip
    <3>7. BmToPiPriority(PiToBmPriority(tb, w.prio)) = IF tb = "T" THEN w.prio ELSE 0
      BY <3>3, PriorityRoundTrip
    <3> QED  BY <3>1, <3>4, <3>5, <3>6, <3>7
  <2> QED  BY <1>1, <2>1 DEF EmittedIsAsWritten, PiDefaultsRead
<1>3. ASSUME NEW tb \in PiTabs, NEW s \in PiSlotSet
      PROVE  /\ piVersion[tb][s] \in 0..PiMaxCalls
             /\ piMeta[tb][s].packets \in 0..PiMaxCount
             /\ piEntries[tb][s].prio \in -1..PiMaxPrio
  <2>1. piVersion[tb][s] \in 0..PiMaxCalls
    <3>1. IsFiniteSet(PiDeleting)
      BY PiAssumption, FS_Subset DEF PiDeleting
    <3>2. PICK n \in Nat : n = Cardinality(PiDeleting)
      BY <3>1, FS_CardinalityType
    <3>3. PICK v \in Nat : v = piVersion[tb][s]
      BY <1>1 DEF PiTypes
    <3>4. v + n <= piMade /\ piMade \in 0..PiMaxCalls
      BY <1>1, <3>2, <3>3 DEF PiVersionsFromCalls, PiTypes
    <3> QED  BY <3>3, <3>4, PiAssumption
  <2>2. piMeta[tb][s].packets \in 0..PiMaxCount
    BY <1>1 DEF PiTypes, PiMetaType
  <2>3. piEntries[tb][s].prio \in -1..PiMaxPrio
    <3>1. CASE piEntries[tb][s] = PiNoEntry
      BY <3>1, PiAssumption DEF PiNoEntry
    <3>2. CASE piEntries[tb][s] # PiNoEntry
      <4>1. PICK w : w = piWriter[tb][s]
        OBVIOUS
      <4>2. /\ piEntries[tb][s] = [key |-> w.key, prio |-> PiToBmPriority(tb, w.prio),
                                   act |-> PiBuildAction(tb, w.act)]
            /\ w.prio \in 0..PiMaxPrio \/ tb = "W"
        BY <1>1, <3>2, <4>1 DEF PiWritten
      <4>3. PiToBmPriority(tb, w.prio) \in -1..PiMaxPrio
        BY <4>2, PriorityRoundTrip
      <4> QED  BY <4>2, <4>3
    <3> QED  BY <3>1, <3>2
  <2> QED  BY <2>1, <2>2, <2>3
<1>4. piMade \in 0..PiMaxCalls
  BY <1>1 DEF PiTypes
<1> QED  BY <1>2, <1>3, <1>4 DEF PiTypeOK

\* At the start the tables are empty.
LEMMA PiBegins == PiInit => PiInv
<1> SUFFICES ASSUME PiInit PROVE PiInv
  OBVIOUS
<1>1. /\ piEntries = [tb \in PiTabs |-> [s \in PiSlotSet |-> PiNoEntry]]
      /\ piVersion = [tb \in PiTabs |-> [s \in PiSlotSet |-> 0]]
      /\ piMeta = [tb \in PiTabs |-> [s \in PiSlotSet |-> [ttl |-> 0, bytes |-> 0, packets |-> 0]]]
      /\ piDefault = [tb \in PiTabs |-> PiNoDefault]
      /\ piWriter = [tb \in PiTabs |-> [s \in PiSlotSet |-> <<>>]]
      /\ piThread = [t \in PiThreads |-> PiIdleThread] /\ piMade = 0
  BY DEF PiInit
<1>2. PiThreadOk(PiIdleThread) /\ PiIdleThread.pc = "idle"
  BY DEF PiThreadOk, PiIdleThread, PiCalling, PiPcs
<1>3. PiTypes
  <2>1. piMeta \in PiMetaType
    BY <1>1, PiAssumption DEF PiMetaType
  <2>2. piMade \in 0..PiMaxCalls
    BY <1>1, PiAssumption
  <2> QED  BY <1>1, <1>2, <2>1, <2>2 DEF PiTypes
<1>4. PiWritten
  BY <1>1 DEF PiWritten
<1>5. PiFound
  BY <1>1, <1>2 DEF PiFound, PiFoundBy
<1>6. PiVersionsFromCalls
  <2>1. PiDeleting = {}
    BY <1>1, <1>2 DEF PiDeleting
  <2>2. Cardinality(PiDeleting) = 0
    BY <2>1, FS_EmptySet
  <2> QED  BY <1>1, <2>2 DEF PiVersionsFromCalls
<1>7. PiDefaultsRead
  BY <1>1 DEF PiDefaultsRead, PiGetDefault, PiNoDefault
<1> QED  BY <1>3, <1>4, <1>5, <1>6, <1>7 DEF PiInv

\* One thread goes on: what becomes of the threads, and of those in a delete.
LEMMA PiStepIs ==
  ASSUME PiTypes, NEW t \in PiThreads, NEW r, piThread' = [piThread EXCEPT ![t] = r]
  PROVE  /\ DOMAIN piThread' = PiThreads /\ piThread'[t] = r
         /\ \A u \in PiThreads : u # t => piThread'[u] = piThread[u]
         /\ IsFiniteSet(PiDeleting) /\ Cardinality(PiDeleting) \in Nat
         /\ Cardinality(PiDeleting)' \in Nat
         /\ r.pc = "delete" => Cardinality(PiDeleting)' <= Cardinality(PiDeleting) + 1
         /\ r.pc # "delete" /\ piThread[t].pc # "delete" =>
              Cardinality(PiDeleting)' = Cardinality(PiDeleting)
         /\ r.pc # "delete" /\ piThread[t].pc = "delete" =>
              Cardinality(PiDeleting)' = Cardinality(PiDeleting) - 1
<1>1. /\ DOMAIN piThread' = PiThreads /\ piThread'[t] = r
      /\ \A u \in PiThreads : u # t => piThread'[u] = piThread[u]
  BY DEF PiTypes
<1>2. IsFiniteSet(PiDeleting) /\ IsFiniteSet(PiDeleting')
  <2>1. PiDeleting \in SUBSET PiThreads /\ PiDeleting' \in SUBSET PiThreads
    BY DEF PiDeleting
  <2> QED  BY <2>1, PiAssumption, FS_Subset
<1>3. Cardinality(PiDeleting) \in Nat /\ Cardinality(PiDeleting') \in Nat
  BY <1>2, FS_CardinalityType
<1>4. PICK D, E : D = PiDeleting /\ E = PiDeleting'
  OBVIOUS
<1>5. CASE r.pc = "delete"
  <2>1. E = D \cup {t}
    BY <1>1, <1>4, <1>5 DEF PiDeleting
  <2>2. Cardinality(D \cup {t}) = IF t \in D THEN Cardinality(D) ELSE Cardinality(D) + 1
    BY <1>2, <1>4, FS_AddElement
  <2> QED  BY <1>1, <1>2, <1>3, <1>4, <1>5, <2>1, <2>2
<1>6. CASE r.pc # "delete"
  <2>1. E = D \ {t} /\ (t \in D <=> piThread[t].pc = "delete")
    BY <1>1, <1>4, <1>6 DEF PiDeleting
  <2>2. Cardinality(D \ {t}) = IF t \in D THEN Cardinality(D) - 1 ELSE Cardinality(D)
    BY <1>2, <1>4, FS_RemoveElement
  <2> QED  BY <1>1, <1>2, <1>3, <1>4, <1>6, <2>1, <2>2
<1> QED  BY <1>5, <1>6

\* A thread goes on without touching the entries.
LEMMA PiQuietKeeps ==
  ASSUME PiInv, NEW t \in PiThreads, NEW r, piThread' = [piThread EXCEPT ![t] = r],
         UNCHANGED <<piEntries, piVersion, piDefault, piWriter>>,
         piMeta' \in PiMetaType, piMade' \in 0..PiMaxCalls, piMade' \in {piMade, piMade + 1},
         PiThreadOk(r), PiFoundBy(r), r.pc = "delete" => piMade' = piMade + 1
  PROVE  PiInv'
<1>1. PiTypes /\ PiWritten /\ PiFound /\ PiVersionsFromCalls /\ PiDefaultsRead
  BY DEF PiInv
<1>2. /\ DOMAIN piThread' = PiThreads /\ piThread'[t] = r
      /\ \A u \in PiThreads : u # t => piThread'[u] = piThread[u]
  BY <1>1, PiStepIs
<1>3. PiTypes'
  BY <1>1, <1>2 DEF PiTypes
<1>4. PiFound'
  <2>1. ASSUME NEW u \in PiThreads PROVE PiFoundBy(piThread[u])'
    <3>1. CASE u = t
      BY <1>2, <3>1 DEF PiFoundBy
    <3>2. CASE u # t
      BY <1>1, <1>2, <3>2 DEF PiFoundBy, PiFound
    <3> QED  BY <3>1, <3>2
  <2> QED  BY <2>1 DEF PiFound
<1>5. PiVersionsFromCalls'
  <2>1. PICK n \in Nat, n1 \in Nat :
          /\ n = Cardinality(PiDeleting) /\ n1 = Cardinality(PiDeleting)'
          /\ r.pc = "delete" => n1 <= n + 1
          /\ r.pc # "delete" => n1 <= n
    <3>1. PICK n \in Nat, n1 \in Nat : n = Cardinality(PiDeleting) /\ n1 = Cardinality(PiDeleting)'
      BY <1>1, PiStepIs
    <3>2. r.pc = "delete" => n1 <= n + 1
      BY <1>1, <3>1, PiStepIs
    <3>3. r.pc # "delete" => n1 = n \/ n1 = n - 1
      BY <1>1, <3>1, PiStepIs
    <3> QED  BY <3>1, <3>2, <3>3
  <2>2. piMade \in Nat
    BY <1>1, PiAssumption DEF PiTypes
  <2>3. ASSUME NEW tb \in PiTabs, NEW s \in PiSlotSet
        PROVE  piVersion'[tb][s] + Cardinality(PiDeleting)' <= piMade'
    <3>1. PICK v \in Nat : v = piVersion[tb][s] /\ piVersion'[tb][s] = v
      BY <1>1 DEF PiTypes
    <3>2. v + n <= piMade
      BY <1>1, <2>1, <3>1 DEF PiVersionsFromCalls
    <3> QED  BY <2>1, <2>2, <3>1, <3>2
  <2> QED  BY <2>3 DEF PiVersionsFromCalls
<1>6. PiWritten' /\ PiDefaultsRead'
  BY <1>1 DEF PiWritten, PiDefaultsRead, PiGetDefault
<1> QED  BY <1>3, <1>4, <1>5, <1>6 DEF PiInv

\* A thread goes on with its call, or ends it.
LEMMA PiGoKeeps ==
  ASSUME PiInv, NEW t \in PiThreads, NEW p \in PiPcs \ {"delete", "modify", "write_counter"},
         piThread[t].pc # "idle", PiGo(t, p),
         UNCHANGED <<piEntries, piVersion, piDefault, piWriter, piMade>>, piMeta' \in PiMetaType
  PROVE  PiInv'
<1>1. PiTypes
  BY DEF PiInv
<1>2. PICK x : x = piThread[t]
  OBVIOUS
<1>3. PICK r : r = [x EXCEPT !.pc = p]
  OBVIOUS
<1>4. PiThreadOk(x)
  BY <1>1, <1>2 DEF PiTypes
<1>5. r = [pc |-> p, call |-> x.call, h |-> x.h, out |-> x.out, at |-> x.at]
  BY <1>3, <1>4 DEF PiThreadOk
<1>6. PiThreadOk(r) /\ PiFoundBy(r) /\ r.pc # "delete"
  BY <1>2, <1>4, <1>5 DEF PiThreadOk, PiFoundBy
<1>7. piThread' = [piThread EXCEPT ![t] = r]
  BY <1>2, <1>3 DEF PiGo, PiStep
<1>8. piMade' \in 0..PiMaxCalls /\ piMade' \in {piMade, piMade + 1}
  BY <1>1 DEF PiTypes
<1> QED  BY <1>6, <1>7, <1>8, PiQuietKeeps

\* A thread begins a call that keeps the entries.
LEMMA PiCallKeeps ==
  ASSUME PiInv, NEW t \in PiThreads, NEW c \in PiCalls, NEW r, PiStep(t, r), PiMayCall(t, c, c.op),
         UNCHANGED <<piEntries, piVersion, piMeta, piDefault, piWriter>>,
         PiThreadOk(r), PiFoundBy(r)
  PROVE  PiInv'
<1>1. PiTypes
  BY DEF PiInv
<1>2. piMade' \in 0..PiMaxCalls /\ piMade' = piMade + 1
  BY <1>1, PiAssumption DEF PiTypes, PiMayCall
<1>3. piMeta' \in PiMetaType
  BY <1>1 DEF PiTypes
<1>4. piThread' = [piThread EXCEPT ![t] = r]
  BY DEF PiStep
<1> QED  BY <1>2, <1>3, <1>4, PiQuietKeeps

\* The actions, one by one.
LEMMA PiSetTtlKeeps ==
  ASSUME PiInv, NEW t \in PiThreads, PiSetTtl(t) PROVE PiInv'
<1>1. PiTypes
  BY DEF PiInv
<1>2. PICK c, s : c = piThread[t].call /\ s = piThread[t].h[1]
  OBVIOUS
<1>3. /\ piThread[t].pc = "ttl"
      /\ PiGo(t, IF c.ttl # 0 /\ ~(c.ttl # 0 /\ s \in PiUsed(c.tbl)) THEN "idle" ELSE "direct")
      /\ piMeta' = IF c.ttl # 0 /\ s \in PiUsed(c.tbl)
                   THEN [piMeta EXCEPT ![c.tbl][s].ttl = c.ttl] ELSE piMeta
      /\ UNCHANGED <<piEntries, piVersion, piDefault, piWriter, piMade>>
  BY <1>2 DEF PiSetTtl
<1>4. c \in PiCalls
  BY <1>1, <1>2, <1>3 DEF PiTypes, PiThreadOk
<1>5. c.tbl \in PiTabs /\ c.ttl \in Nat /\ piMeta \in PiMetaType
  BY <1>1, <1>4, PiAssumption DEF PiTypes
<1>6. piMeta' \in PiMetaType
  <2>1. CASE c.ttl # 0 /\ s \in PiUsed(c.tbl)
    <3>1. s \in PiSlotSet /\ piMeta' = [piMeta EXCEPT ![c.tbl][s].ttl = c.ttl]
      BY <1>3, <2>1 DEF PiUsed
    <3> QED  BY <1>5, <3>1 DEF PiMetaType
  <2>2. CASE ~(c.ttl # 0 /\ s \in PiUsed(c.tbl))
    BY <1>3, <1>5, <2>2
  <2> QED  BY <2>1, <2>2
<1>7. PICK p \in PiPcs \ {"delete", "modify", "write_counter"} : PiGo(t, p)
  BY <1>3 DEF PiPcs
<1> QED  BY <1>3, <1>6, <1>7, PiGoKeeps

\* The direct counter follows the entry, by slot.
LEMMA PiSetDirectKeeps ==
  ASSUME PiInv, NEW t \in PiThreads, PiSetDirect(t) PROVE PiInv'
<1>1. PiTypes
  BY DEF PiInv
<1>2. PICK c, s : c = piThread[t].call /\ s = piThread[t].h[1]
  OBVIOUS
<1>3. /\ piThread[t].pc = "direct" /\ PiGo(t, "idle")
      /\ piMeta' = IF c.bytes >= 0 /\ s \in PiUsed(c.tbl)
                   THEN [piMeta EXCEPT ![c.tbl][s].bytes = c.bytes, ![c.tbl][s].packets = 0]
                   ELSE piMeta
      /\ UNCHANGED <<piEntries, piVersion, piDefault, piWriter, piMade>>
  BY <1>2 DEF PiSetDirect
<1>4. c \in PiCalls
  BY <1>1, <1>2, <1>3 DEF PiTypes, PiThreadOk
<1>5. c.tbl \in PiTabs /\ c.bytes \in Int /\ piMeta \in PiMetaType /\ 0 \in 0..PiMaxCount
  BY <1>1, <1>4, PiAssumption DEF PiTypes
<1>6. piMeta' \in PiMetaType
  <2>1. CASE ~(c.bytes >= 0 /\ s \in PiUsed(c.tbl))
    BY <1>3, <1>5, <2>1
  <2>2. CASE c.bytes >= 0 /\ s \in PiUsed(c.tbl)
    <3>1. PICK m : m = [piMeta EXCEPT ![c.tbl][s].bytes = c.bytes]
      OBVIOUS
    <3>2. m \in PiMetaType
      BY <1>5, <2>2, <3>1 DEF PiMetaType, PiUsed
    <3>3. piMeta' = [m EXCEPT ![c.tbl][s].packets = 0]
      BY <1>3, <2>2, <3>1
    <3> QED  BY <1>5, <2>2, <3>2, <3>3 DEF PiMetaType, PiUsed
  <2> QED  BY <2>1, <2>2
<1>7. "idle" \in PiPcs \ {"delete", "modify", "write_counter"}
  BY DEF PiPcs
<1> QED  BY <1>3, <1>6, <1>7, PiGoKeeps

\* The handle that is found names an entry of the key.
LEMMA PiFindHandleKeeps ==
  ASSUME PiInv, NEW t \in PiThreads, NEW c \in PiCalls, PiFindHandle(t, c) PROVE PiInv'
<1>1. PiTypes
  BY DEF PiInv
<1>2. PiMayCall(t, c, c.op) /\ c.op \in {"delete", "modify", "fetch"}
  BY DEF PiFindHandle, PiMayCall
<1>3. UNCHANGED <<piEntries, piVersion, piMeta, piDefault, piWriter>>
  BY DEF PiFindHandle
<1>4. c.tbl \in PiTabs
  BY PiAssumption
<1>5. CASE PiSlotOf(c) = {}
  <2>1. PICK r : r = [pc |-> "idle", call |-> c, h |-> <<>>, out |-> <<>>, at |-> 1]
    OBVIOUS
  <2>2. PiStep(t, r)
    BY <1>5, <2>1 DEF PiFindHandle, PiCalling
  <2>3. PiThreadOk(r) /\ PiFoundBy(r)
    BY <2>1 DEF PiThreadOk, PiFoundBy, PiPcs
  <2> QED  BY <1>2, <1>3, <2>2, <2>3, PiCallKeeps
<1>6. CASE PiSlotOf(c) # {}
  <2>1. PICK s \in PiSlotOf(c) : s = CHOOSE x \in PiSlotOf(c) : TRUE
    BY <1>6
  <2>2. PICK r : r = [pc |-> c.op, call |-> c, h |-> <<s, piVersion[c.tbl][s]>>, out |-> <<>>, at |-> 1]
    OBVIOUS
  <2>3. PiStep(t, r)
    BY <1>6, <2>1, <2>2 DEF PiFindHandle, PiCalling
  <2>4. PiThreadOk(r)
    BY <1>2, <2>2 DEF PiThreadOk, PiPcs
  <2>5. /\ s \in PiSlotSet /\ piEntries[c.tbl][s] # PiNoEntry
        /\ piEntries[c.tbl][s].key = c.key
        /\ piEntries[c.tbl][s].prio = PiToBmPriority(c.tbl, c.prio)
    BY <2>1 DEF PiSlotOf, PiUsed
  <2>6. PICK v \in Nat : v = piVersion[c.tbl][s]
    BY <1>1, <1>4, <2>5 DEF PiTypes
  <2>7. r.h[1] = s /\ r.h[2] = v /\ r.call = c
    BY <2>2, <2>6
  <2>8. PiFoundBy(r)
    BY <2>5, <2>6, <2>7 DEF PiFoundBy
  <2> QED  BY <1>2, <1>3, <2>3, <2>4, <2>8, PiCallKeeps
<1> QED  BY <1>5, <1>6

\* The entry of a handle is fetched.
LEMMA PiFetchOneKeeps ==
  ASSUME PiInv, NEW t \in PiThreads, PiFetchOne(t) PROVE PiInv'
<1>1. PiTypes
  BY DEF PiInv
<1>2. PICK x : x = piThread[t]
  OBVIOUS
<1>3. /\ x.pc = "fetch"
      /\ UNCHANGED <<piEntries, piVersion, piMeta, piDefault, piWriter, piMade>>
  BY <1>2 DEF PiFetchOne
<1>4. piMeta' \in PiMetaType /\ piMade' \in 0..PiMaxCalls /\ piMade' \in {piMade, piMade + 1}
  BY <1>1, <1>3 DEF PiTypes
<1>5. PiThreadOk(x)
  BY <1>1, <1>2 DEF PiTypes
<1>6. CASE PiValidHandle(x.call.tbl, x.h)
  <2>1. PICK o : o = <<PiEmit(x.call.tbl, x.h[1])>>
    OBVIOUS
  <2>2. PICK r : r = [x EXCEPT !.pc = "counter", !.out = o]
    OBVIOUS
  <2>3. piThread' = [piThread EXCEPT ![t] = r]
    BY <1>2, <1>6, <2>1, <2>2 DEF PiFetchOne, PiStep
  <2>4. r = [pc |-> "counter", call |-> x.call, h |-> x.h, out |-> o, at |-> x.at]
    BY <1>5, <2>2 DEF PiThreadOk
  <2>5. PiThreadOk(r) /\ PiFoundBy(r) /\ r.pc # "delete"
    BY <1>3, <1>5, <2>4 DEF PiThreadOk, PiFoundBy, PiPcs
  <2> QED  BY <1>3, <1>4, <2>3, <2>5, PiQuietKeeps
<1>7. CASE ~PiValidHandle(x.call.tbl, x.h)
  <2>1. PiGo(t, "idle")
    BY <1>2, <1>7 DEF PiFetchOne
  <2>2. "idle" \in PiPcs \ {"delete", "modify", "write_counter"}
    BY DEF PiPcs
  <2> QED  BY <1>2, <1>3, <1>4, <2>1, <2>2, PiGoKeeps
<1> QED  BY <1>6, <1>7

\* All entries are fetched under one lock.
LEMMA PiFetchAllKeeps ==
  ASSUME PiInv, NEW t \in PiThreads, NEW c \in PiCalls, PiFetchAll(t, c) PROVE PiInv'
<1>1. PICK p, o : p \in {"idle", "counter"} /\ PiStep(t, PiCalling(p, c, <<>>, o))
  <2>1. PICK q, o : PiStep(t, PiCalling(IF q THEN "idle" ELSE "counter", c, <<>>, o))
    BY DEF PiFetchAll
  <2> QED  BY <2>1
<1>2. PICK r : r = [pc |-> p, call |-> c, h |-> <<>>, out |-> o, at |-> 1]
  OBVIOUS
<1>3. PiStep(t, r)
  BY <1>1, <1>2 DEF PiCalling
<1>4. PiThreadOk(r) /\ PiFoundBy(r)
  BY <1>1, <1>2 DEF PiThreadOk, PiFoundBy, PiPcs
<1>5. PiMayCall(t, c, c.op) /\ UNCHANGED <<piEntries, piVersion, piMeta, piDefault, piWriter>>
  BY DEF PiFetchAll, PiMayCall
<1> QED  BY <1>3, <1>4, <1>5, PiCallKeeps

\* The counter of a fetched entry is read.
LEMMA PiFetchCounterKeeps ==
  ASSUME PiInv, NEW t \in PiThreads, PiFetchCounter(t) PROVE PiInv'
<1>1. PiTypes
  BY DEF PiInv
<1>2. PICK x : x = piThread[t]
  OBVIOUS
<1>3. /\ x.pc = "counter"
      /\ UNCHANGED <<piEntries, piVersion, piMeta, piDefault, piWriter, piMade>>
  BY <1>2 DEF PiFetchCounter
<1>4. piMeta' \in PiMetaType /\ piMade' \in 0..PiMaxCalls /\ piMade' \in {piMade, piMade + 1}
  BY <1>1, <1>3 DEF PiTypes
<1>5. PiThreadOk(x)
  BY <1>1, <1>2 DEF PiTypes
<1>6. PICK k : k = IF x.out[x.at].h[1] \in PiUsed(x.call.tbl)
                   THEN piMeta[x.call.tbl][x.out[x.at].h[1]].bytes ELSE -1
  OBVIOUS
<1>7. PICK p \in {"idle", "counter"} : p = IF x.at = Len(x.out) THEN "idle" ELSE "counter"
  OBVIOUS
<1>8. PICK r : r = [x EXCEPT !.out[x.at].counter = k, !.at = @ + 1, !.pc = p]
  OBVIOUS
<1>9. piThread' = [piThread EXCEPT ![t] = r]
  BY <1>2, <1>6, <1>7, <1>8 DEF PiFetchCounter, PiStep
<1>10. /\ r = [pc |-> p, call |-> x.call, h |-> x.h, out |-> r.out, at |-> r.at]
  BY <1>5, <1>8 DEF PiThreadOk
<1>11. PiThreadOk(r) /\ PiFoundBy(r) /\ r.pc # "delete"
  BY <1>3, <1>5, <1>7, <1>10 DEF PiThreadOk, PiFoundBy, PiPcs
<1> QED  BY <1>3, <1>4, <1>9, <1>11, PiQuietKeeps

\* A counter is read before it is written.
LEMMA PiCounterReadKeeps ==
  ASSUME PiInv, NEW t \in PiThreads, NEW c \in PiCalls, PiCounterRead(t, c) PROVE PiInv'
<1>1. PiTypes
  BY DEF PiInv
<1>2. PICK s \in PiUsed(c.tbl) :
        PiStep(t, PiCalling("write_counter", c, <<s, piVersion[c.tbl][s]>>,
                            <<piMeta[c.tbl][s].packets>>))
  BY DEF PiCounterRead
<1>3. PICK h, o : h = <<s, piVersion[c.tbl][s]>> /\ o = <<piMeta[c.tbl][s].packets>>
  OBVIOUS
<1>4. PICK r : r = [pc |-> "write_counter", call |-> c, h |-> h, out |-> o, at |-> 1]
  OBVIOUS
<1>5. PiStep(t, r)
  BY <1>2, <1>3, <1>4 DEF PiCalling
<1>6. o[1] \in 0..PiMaxCount
  <2>1. c.tbl \in PiTabs /\ s \in PiSlotSet
    BY <1>2, PiAssumption DEF PiUsed
  <2>2. piMeta[c.tbl][s].packets \in 0..PiMaxCount
    BY <1>1, <2>1 DEF PiTypes, PiMetaType
  <2> QED  BY <1>3, <2>2
<1>7. PiThreadOk(r) /\ PiFoundBy(r)
  BY <1>4, <1>6 DEF PiThreadOk, PiFoundBy, PiPcs
<1>8. PiMayCall(t, c, c.op) /\ UNCHANGED <<piEntries, piVersion, piMeta, piDefault, piWriter>>
  BY DEF PiCounterRead, PiMayCall
<1> QED  BY <1>5, <1>7, <1>8, PiCallKeeps

\* A counter is written with the packets that were read.
LEMMA PiCounterWriteKeeps ==
  ASSUME PiInv, NEW t \in PiThreads, PiCounterWrite(t) PROVE PiInv'
<1>1. PiTypes
  BY DEF PiInv
<1>2. PICK x, s : x = piThread[t] /\ s = x.h[1]
  OBVIOUS
<1>3. /\ x.pc = "write_counter" /\ PiStep(t, PiIdleThread)
      /\ piMeta' = IF s \in PiUsed(x.call.tbl)
                   THEN [piMeta EXCEPT ![x.call.tbl][s].bytes = x.call.bytes,
                                       ![x.call.tbl][s].packets = x.out[1]]
                   ELSE piMeta
      /\ UNCHANGED <<piEntries, piVersion, piDefault, piWriter, piMade>>
  BY <1>2, ZenonT(40) DEF PiCounterWrite
<1>4. PICK c, n : c = x.call /\ n = x.out[1]
  OBVIOUS
<1>5. c \in PiCalls /\ n \in 0..PiMaxCount
  BY <1>1, <1>2, <1>3, <1>4 DEF PiTypes, PiThreadOk
<1>6. c.tbl \in PiTabs /\ c.bytes \in Int /\ piMeta \in PiMetaType
  BY <1>1, <1>5, PiAssumption DEF PiTypes
<1>7. piMeta' \in PiMetaType
  <2>1. CASE ~(s \in PiUsed(c.tbl))
    BY <1>3, <1>4, <1>6, <2>1
  <2>2. CASE s \in PiUsed(c.tbl)
    <3>1. PICK m : m = [piMeta EXCEPT ![c.tbl][s].bytes = c.bytes]
      OBVIOUS
    <3>2. m \in PiMetaType
      BY <1>6, <2>2, <3>1, SMTT(40) DEF PiMetaType, PiUsed
    <3>3. piMeta' = [m EXCEPT ![c.tbl][s].packets = n]
      BY <1>3, <1>4, <2>2, <3>1
    <3>4. PICK T : T = [ttl : Nat, bytes : Int, packets : 0..PiMaxCount]
      OBVIOUS
    <3>5. PICK tb \in PiTabs : tb = c.tbl
      BY <1>6
    <3>6. s \in PiSlotSet /\ m \in [PiTabs -> [PiSlotSet -> T]]
      BY <2>2, <3>2, <3>4 DEF PiMetaType, PiUsed
    <3>7. [m[tb][s] EXCEPT !.packets = n] \in T
      BY <1>5, <3>4, <3>5, <3>6
    <3>8. piMeta' = [m EXCEPT ![tb] = [m[tb] EXCEPT ![s] = [m[tb][s] EXCEPT !.packets = n]]]
      BY <3>3, <3>5, <3>6
    <3> QED  BY <3>4, <3>5, <3>6, <3>7, <3>8 DEF PiMetaType
  <2> QED  BY <2>1, <2>2
<1>8. piThread' = [piThread EXCEPT ![t] = PiIdleThread]
  BY <1>3 DEF PiStep
<1>9. PiThreadOk(PiIdleThread) /\ PiFoundBy(PiIdleThread) /\ PiIdleThread.pc # "delete"
  BY DEF PiThreadOk, PiFoundBy, PiIdleThread, PiCalling, PiPcs
<1>10. piMade' \in 0..PiMaxCalls /\ piMade' \in {piMade, piMade + 1}
  BY <1>1, <1>3 DEF PiTypes
<1> QED  BY <1>3, <1>7, <1>8, <1>9, <1>10, PiQuietKeeps

\* The ageing monitor reports an entry.
LEMMA PiExpireKeeps ==
  ASSUME PiInv, NEW t \in PiThreads, NEW c \in PiCalls, PiExpire(t, c) PROVE PiInv'
<1>1. PICK s \in PiUsed(c.tbl) :
        PiStep(t, PiCalling("notify", c, <<s, piVersion[c.tbl][s]>>, <<>>))
  BY DEF PiExpire
<1>2. PICK h : h = <<s, piVersion[c.tbl][s]>>
  OBVIOUS
<1>3. PICK r : r = [pc |-> "notify", call |-> c, h |-> h, out |-> <<>>, at |-> 1]
  OBVIOUS
<1>4. PiStep(t, r)
  BY <1>1, <1>2, <1>3 DEF PiCalling
<1>5. PiThreadOk(r) /\ PiFoundBy(r)
  BY <1>3 DEF PiThreadOk, PiFoundBy, PiPcs
<1>6. PiMayCall(t, c, c.op) /\ UNCHANGED <<piEntries, piVersion, piMeta, piDefault, piWriter>>
  BY DEF PiExpire, PiMayCall
<1> QED  BY <1>4, <1>5, <1>6, PiCallKeeps

\* The entry of the report is looked up.
LEMMA PiIdleTimeoutNotifyKeeps ==
  ASSUME PiInv, NEW t \in PiThreads, PiIdleTimeoutNotify(t) PROVE PiInv'
<1>1. PiTypes
  BY DEF PiInv
<1>2. UNCHANGED <<piEntries, piVersion, piMeta, piDefault, piWriter, piMade>>
  BY DEF PiIdleTimeoutNotify
<1>3. piMeta' \in PiMetaType /\ piMade' \in 0..PiMaxCalls /\ piMade' \in {piMade, piMade + 1}
  BY <1>1, <1>2 DEF PiTypes
<1>4. PICK c, o : c = piThread[t].call /\ o = <<PiEmit(piThread[t].call.tbl, piThread[t].h[1])>>
  OBVIOUS
<1>5. PICK r \in {PiIdleThread, PiCalling("idle", c, <<>>, o)} : PiStep(t, r)
  BY <1>4 DEF PiIdleTimeoutNotify
<1>6. PiThreadOk(r) /\ PiFoundBy(r) /\ r.pc # "delete"
  <2>1. CASE r = PiIdleThread
    BY <2>1 DEF PiThreadOk, PiFoundBy, PiIdleThread, PiCalling, PiPcs
  <2>2. CASE r = PiCalling("idle", c, <<>>, o)
    BY <2>2 DEF PiThreadOk, PiFoundBy, PiPcs, PiCalling
  <2> QED  BY <1>5, <2>1, <2>2
<1>7. piThread' = [piThread EXCEPT ![t] = r]
  BY <1>5 DEF PiStep
<1> QED  BY <1>2, <1>3, <1>6, <1>7, PiQuietKeeps

\* One slot of a table is written.
LEMMA PiWriteIs ==
  ASSUME NEW f, DOMAIN f = PiTabs, \A b \in PiTabs : DOMAIN f[b] = PiSlotSet,
         NEW tb \in PiTabs, NEW s \in PiSlotSet, NEW e, NEW g, g = [f EXCEPT ![tb][s] = e]
  PROVE  /\ DOMAIN g = PiTabs /\ \A b \in PiTabs : DOMAIN g[b] = PiSlotSet
         /\ g[tb][s] = e
         /\ \A b \in PiTabs, z \in PiSlotSet : <<b, z>> # <<tb, s>> => g[b][z] = f[b][z]
<1>1. PICK k : k = [f[tb] EXCEPT ![s] = e]
  OBVIOUS
<1>2. g = [f EXCEPT ![tb] = k]
  BY <1>1
<1>3. DOMAIN k = PiSlotSet /\ k[s] = e /\ \A z \in PiSlotSet : z # s => k[z] = f[tb][z]
  BY <1>1
<1>4. g[tb] = k /\ DOMAIN g = PiTabs /\ \A b \in PiTabs : b # tb => g[b] = f[b]
  BY <1>2
<1>5. \A b \in PiTabs : DOMAIN g[b] = PiSlotSet
  BY <1>3, <1>4
<1>6. \A b \in PiTabs, z \in PiSlotSet : <<b, z>> # <<tb, s>> => g[b][z] = f[b][z]
  BY <1>3, <1>4
<1> QED  BY <1>3, <1>4, <1>5, <1>6

\* The entry of a slot changes with its writer: the entries stay as written.
LEMMA PiWrittenKept ==
  ASSUME PiTypes, PiWritten, NEW tb \in PiTabs, NEW s \in PiSlotSet, NEW w,
         w = [key |-> w.key, prio |-> w.prio, act |-> w.act],
         w.prio \in 0..PiMaxPrio \/ tb = "W", PiActOk(tb, w.act),
         piEntries' = [piEntries EXCEPT ![tb][s] =
           [key |-> w.key, prio |-> PiToBmPriority(tb, w.prio), act |-> PiBuildAction(tb, w.act)]],
         piWriter' = [piWriter EXCEPT ![tb][s] = w]
  PROVE  PiWritten'
<1>1. PICK e : e = [key |-> w.key, prio |-> PiToBmPriority(tb, w.prio), act |-> PiBuildAction(tb, w.act)]
  OBVIOUS
<1>2. /\ piEntries'[tb][s] = e
      /\ \A b \in PiTabs, z \in PiSlotSet : <<b, z>> # <<tb, s>> => piEntries'[b][z] = piEntries[b][z]
  BY <1>1, PiWriteIs DEF PiTypes
<1>3. /\ piWriter'[tb][s] = w
      /\ \A b \in PiTabs, z \in PiSlotSet : <<b, z>> # <<tb, s>> => piWriter'[b][z] = piWriter[b][z]
  BY PiWriteIs DEF PiTypes
<1>4. ASSUME NEW b \in PiTabs, NEW z \in PiSlotSet
      PROVE  LET e1 == piEntries'[b][z]
                 w1 == piWriter'[b][z]
             IN e1 = PiNoEntry \/ /\ e1 = [key |-> w1.key, prio |-> PiToBmPriority(b, w1.prio),
                                           act |-> PiBuildAction(b, w1.act)]
                                  /\ w1 = [key |-> w1.key, prio |-> w1.prio, act |-> w1.act]
                                  /\ w1.prio \in 0..PiMaxPrio \/ b = "W"
                                  /\ PiActOk(b, w1.act)
  <2>1. CASE <<b, z>> = <<tb, s>>
    <3>1. b = tb /\ z = s
      BY <2>1
    <3>2. piEntries'[b][z] = e /\ piWriter'[b][z] = w
      BY <1>2, <1>3, <3>1
    <3> QED  BY <1>1, <3>1, <3>2
  <2>2. CASE <<b, z>> # <<tb, s>>
    <3>1. piEntries'[b][z] = piEntries[b][z] /\ piWriter'[b][z] = piWriter[b][z]
      BY <1>2, <1>3, <2>2
    <3> QED  BY <3>1 DEF PiWritten
  <2> QED  BY <2>1, <2>2
<1> QED  BY <1>4 DEF PiWritten

\* The slot of an add is free: a thread that has its handle finds it out of date.
LEMMA PiAddKeeps ==
  ASSUME PiInv, NEW t \in PiThreads, NEW c \in PiCalls, PiAdd(t, c) PROVE PiInv'
<1>1. PiTypes /\ PiWritten /\ PiFound /\ PiVersionsFromCalls /\ PiDefaultsRead
  BY DEF PiInv
<1>2. PICK tb \in PiTabs : tb = c.tbl
  BY PiAssumption
<1>3. PICK s \in PiSlotSet : s = Min(PiSlotSet \ PiUsed(tb)) /\ piEntries[tb][s] = PiNoEntry
  <2>1. PICK F : F = PiSlotSet \ PiUsed(tb)
    OBVIOUS
  <2>2. F # {} /\ F \subseteq Nat
    <3>1. PiUsed(tb) # PiSlotSet
      BY <1>2, Zenon DEF PiAdd
    <3>2. PiUsed(tb) \subseteq PiSlotSet
      BY DEF PiUsed
    <3>3. PiSlotSet \subseteq Nat
      BY PiAssumption DEF PiSlotSet
    <3> QED  BY <2>1, <3>1, <3>2, <3>3
  <2>3. \E x \in F : \A y \in F : x <= y
    BY <2>2, LeastNatural
  <2>4. Min(F) \in F
    BY <2>3 DEF Min
  <2> QED  BY <2>1, <2>4 DEF PiUsed
<1>4. PICK w : w = [key |-> c.key, prio |-> c.prio, act |-> c.act]
  OBVIOUS
<1>5. PICK r : r = PiCalling("ttl", c, <<s, piVersion[tb][s]>>, <<>>)
  OBVIOUS
<1>6. PICK e : e = [key |-> c.key, prio |-> PiToBmPriority(tb, c.prio), act |-> PiBuildAction(tb, c.act)]
  OBVIOUS
<1>7. /\ PiMayCall(t, c, "add") /\ PiPriorityOk(c)
      /\ piEntries' = [piEntries EXCEPT ![tb][s] = e]
      /\ piWriter' = [piWriter EXCEPT ![tb][s] = w]
      /\ piMeta' = [piMeta EXCEPT ![tb][s].bytes = 0, ![tb][s].packets = 0]
      /\ piThread' = [piThread EXCEPT ![t] = r]
      /\ UNCHANGED <<piVersion, piDefault>>
  BY <1>2, <1>3, <1>4, <1>5, <1>6 DEF PiAdd, PiStep
<1>8. piMade' = piMade + 1 /\ piMade' \in 0..PiMaxCalls /\ piThread[t].pc = "idle"
  BY <1>1, <1>7, PiAssumption DEF PiMayCall, PiTypes
<1>9. PiActOk(tb, c.act) /\ c.prio \in 0..PiMaxPrio
  BY <1>2, <1>7, PiAssumption DEF PiMayCall, PiPriorityOk
<1>10. PiWritten'
  <2>1. w.key = c.key /\ w.prio = c.prio /\ w.act = c.act
    BY <1>4
  <2> QED  BY <1>1, <1>4, <1>6, <1>7, <1>9, <2>1, PiWrittenKept
<1>11. /\ DOMAIN piEntries' = PiTabs /\ \A b \in PiTabs : DOMAIN piEntries'[b] = PiSlotSet
       /\ \A b \in PiTabs, z \in PiSlotSet : <<b, z>> # <<tb, s>> => piEntries'[b][z] = piEntries[b][z]
  BY <1>1, <1>7, PiWriteIs DEF PiTypes
<1>12. DOMAIN piWriter' = PiTabs /\ \A b \in PiTabs : DOMAIN piWriter'[b] = PiSlotSet
  BY <1>1, <1>7, PiWriteIs DEF PiTypes
<1>13. piMeta' \in PiMetaType
  <2>1. PICK m : m = [piMeta EXCEPT ![tb][s].bytes = 0]
    OBVIOUS
  <2>2. m \in PiMetaType
    <3>1. piMeta \in PiMetaType
      BY <1>1 DEF PiTypes
    <3> QED  BY <2>1, <3>1 DEF PiMetaType
  <2>3. piMeta' = [m EXCEPT ![tb][s].packets = 0] /\ 0 \in 0..PiMaxCount
    BY <1>7, <2>1, PiAssumption
  <2> QED  BY <2>2, <2>3 DEF PiMetaType
<1>14. PiThreadOk(r) /\ r.pc = "ttl"
  BY <1>5 DEF PiThreadOk, PiCalling, PiPcs
<1>15. /\ DOMAIN piThread' = PiThreads /\ piThread'[t] = r
       /\ \A u \in PiThreads : u # t => piThread'[u] = piThread[u]
       /\ Cardinality(PiDeleting) \in Nat /\ Cardinality(PiDeleting)' = Cardinality(PiDeleting)
  <2>1. r.pc # "delete" /\ piThread[t].pc # "delete"
    BY <1>8, <1>14
  <2> QED  BY <1>1, <1>7, <2>1, PiStepIs
<1>16. PiTypes'
  BY <1>1, <1>7, <1>8, <1>11, <1>12, <1>13, <1>14, <1>15 DEF PiTypes
<1>17. PiFound'
  <2>1. ASSUME NEW u \in PiThreads PROVE PiFoundBy(piThread[u])'
    <3>1. CASE u = t
      BY <1>14, <1>15, <3>1 DEF PiFoundBy
    <3>2. CASE u # t
      <4>1. PICK x : x = piThread[u] /\ piThread'[u] = x
        BY <1>15, <3>2
      <4>2. PiFoundBy(x) /\ PiThreadOk(x)
        BY <1>1, <4>1 DEF PiFound, PiTypes
      <4>3. CASE x.pc \in {"delete", "modify"}
        <5>1. PICK b, z : b = x.call.tbl /\ z = x.h[1]
          OBVIOUS
        <5>2. b \in PiTabs /\ z \in PiSlotSet
          BY <4>2, <4>3, <5>1, PiAssumption DEF PiThreadOk, PiFoundBy
        <5>3. CASE <<b, z>> = <<tb, s>>
          <6>1. piVersion[b][z] # x.h[2]
            BY <1>3, <4>2, <4>3, <5>1, <5>3 DEF PiFoundBy
          <6> QED  BY <1>7, <4>1, <4>2, <5>1, <6>1 DEF PiFoundBy
        <5>4. CASE <<b, z>> # <<tb, s>>
          <6>1. piEntries'[b][z] = piEntries[b][z]
            BY <1>11, <5>2, <5>4
          <6> QED  BY <1>7, <4>1, <4>2, <5>1, <6>1 DEF PiFoundBy
        <5> QED  BY <5>3, <5>4
      <4>4. CASE x.pc \notin {"delete", "modify"}
        BY <4>1, <4>4 DEF PiFoundBy
      <4> QED  BY <4>3, <4>4
    <3> QED  BY <3>1, <3>2
  <2> QED  BY <2>1 DEF PiFound
<1>18. PiVersionsFromCalls'
  <2>1. PICK n \in Nat : n = Cardinality(PiDeleting) /\ Cardinality(PiDeleting)' = n
    BY <1>15
  <2>2. piMade \in Nat
    BY <1>1, PiAssumption DEF PiTypes
  <2>3. ASSUME NEW b \in PiTabs, NEW z \in PiSlotSet
        PROVE  piVersion'[b][z] + Cardinality(PiDeleting)' <= piMade'
    <3>1. PICK v \in Nat : v = piVersion[b][z] /\ piVersion'[b][z] = v
      BY <1>1, <1>7 DEF PiTypes
    <3>2. v + n <= piMade
      BY <1>1, <2>1, <3>1 DEF PiVersionsFromCalls
    <3> QED  BY <1>8, <2>1, <2>2, <3>1, <3>2
  <2> QED  BY <2>3 DEF PiVersionsFromCalls
<1>19. PiDefaultsRead'
  BY <1>1, <1>7 DEF PiDefaultsRead, PiGetDefault
<1> QED  BY <1>10, <1>16, <1>17, <1>18, <1>19 DEF PiInv

\* A delete with a handle that is up to date makes all handles of the slot out of date.
LEMMA PiDeleteKeeps ==
  ASSUME PiInv, NEW t \in PiThreads, PiDelete(t) PROVE PiInv'
<1>1. PiTypes /\ PiWritten /\ PiFound /\ PiVersionsFromCalls /\ PiDefaultsRead
  BY DEF PiInv
<1>2. PICK x, tb, h : x = piThread[t] /\ tb = x.call.tbl /\ h = x.h
  OBVIOUS
<1>3. /\ x.pc = "delete" /\ PiGo(t, "idle")
      /\ UNCHANGED <<piMeta, piDefault, piWriter, piMade>>
  BY <1>2 DEF PiDelete
<1>4. PiThreadOk(x) /\ PiFoundBy(x)
  BY <1>1, <1>2 DEF PiTypes, PiFound
<1>5. tb \in PiTabs
  BY <1>2, <1>3, <1>4, PiAssumption DEF PiThreadOk
<1>6. CASE ~PiValidHandle(tb, h)
  <2>1. UNCHANGED <<piEntries, piVersion>>
    BY <1>2, <1>6 DEF PiDelete
  <2>2. "idle" \in PiPcs \ {"delete", "modify", "write_counter"}
    BY DEF PiPcs
  <2>3. piMeta' \in PiMetaType
    BY <1>1, <1>3 DEF PiTypes
  <2> QED  BY <1>2, <1>3, <2>1, <2>2, <2>3, PiGoKeeps
<1>7. CASE PiValidHandle(tb, h)
  <2>1. PICK s \in PiSlotSet : s = h[1]
    BY <1>7 DEF PiValidHandle, PiUsed
  <2>2. /\ piEntries' = [piEntries EXCEPT ![tb][s] = PiNoEntry]
        /\ piVersion' = [piVersion EXCEPT ![tb][s] = @ + 1]
    BY <1>2, <1>7, <2>1 DEF PiDelete
  <2>3. PICK v \in Nat : v = piVersion[tb][s]
    BY <1>1, <1>5 DEF PiTypes
  <2>4. /\ DOMAIN piEntries' = PiTabs /\ \A b \in PiTabs : DOMAIN piEntries'[b] = PiSlotSet
        /\ piEntries'[tb][s] = PiNoEntry
        /\ \A b \in PiTabs, z \in PiSlotSet : <<b, z>> # <<tb, s>> => piEntries'[b][z] = piEntries[b][z]
    BY <1>1, <1>5, <2>2, PiWriteIs DEF PiTypes
  <2>5. piVersion' \in [PiTabs -> [PiSlotSet -> Nat]]
    <3>1. piVersion' = [piVersion EXCEPT ![tb][s] = v + 1]
      BY <2>2, <2>3
    <3> QED  BY <1>1, <1>5, <3>1 DEF PiTypes
  <2>6. /\ piVersion'[tb][s] = v + 1
        /\ \A b \in PiTabs, z \in PiSlotSet : <<b, z>> # <<tb, s>> => piVersion'[b][z] = piVersion[b][z]
    <3>1. piVersion' = [piVersion EXCEPT ![tb][s] = v + 1]
      BY <2>2, <2>3
    <3>2. DOMAIN piVersion = PiTabs /\ \A b \in PiTabs : DOMAIN piVersion[b] = PiSlotSet
      BY <1>1 DEF PiTypes
    <3> QED  BY <1>5, <3>1, <3>2, PiWriteIs
  <2>7. PICK r : r = [x EXCEPT !.pc = "idle"]
    OBVIOUS
  <2>8. piThread' = [piThread EXCEPT ![t] = r]
    BY <1>2, <1>3, <2>7 DEF PiGo, PiStep
  <2>9. r = [pc |-> "idle", call |-> x.call, h |-> x.h, out |-> x.out, at |-> x.at]
    BY <1>4, <2>7 DEF PiThreadOk
  <2>10. PiThreadOk(r) /\ r.pc = "idle"
    BY <2>9 DEF PiThreadOk, PiPcs
  <2>11. /\ DOMAIN piThread' = PiThreads /\ piThread'[t] = r
         /\ \A u \in PiThreads : u # t => piThread'[u] = piThread[u]
    BY <1>1, <2>8, PiStepIs
  <2>12. PICK n \in Nat, n1 \in Nat :
           n = Cardinality(PiDeleting) /\ n1 = Cardinality(PiDeleting)' /\ n1 = n - 1
    <3>1. r.pc # "delete" /\ piThread[t].pc = "delete"
      BY <1>2, <1>3, <2>10
    <3> QED  BY <1>1, <2>8, <3>1, PiStepIs
  <2>13. PiTypes'
    BY <1>1, <1>3, <2>4, <2>5, <2>10, <2>11 DEF PiTypes
  <2>14. PiWritten'
    <3>1. ASSUME NEW b \in PiTabs, NEW z \in PiSlotSet, piEntries'[b][z] # PiNoEntry
          PROVE  LET e1 == piEntries'[b][z]
                     w1 == piWriter'[b][z]
                 IN /\ e1 = [key |-> w1.key, prio |-> PiToBmPriority(b, w1.prio),
                             act |-> PiBuildAction(b, w1.act)]
                    /\ w1 = [key |-> w1.key, prio |-> w1.prio, act |-> w1.act]
                    /\ w1.prio \in 0..PiMaxPrio \/ b = "W"
                    /\ PiActOk(b, w1.act)
      <4>1. piEntries'[b][z] = piEntries[b][z]
        BY <2>4, <3>1
      <4> QED  BY <1>1, <1>3, <3>1, <4>1 DEF PiWritten
    <3> QED  BY <3>1 DEF PiWritten
  <2>15. PiFound'
    <3>1. ASSUME NEW u \in PiThreads PROVE PiFoundBy(piThread[u])'
      <4>1. CASE u = t
        BY <2>10, <2>11, <4>1 DEF PiFoundBy
      <4>2. CASE u # t
        <5>1. PICK y : y = piThread[u] /\ piThread'[u] = y
          BY <2>11, <4>2
        <5>2. PiFoundBy(y) /\ PiThreadOk(y)
          BY <1>1, <5>1 DEF PiFound, PiTypes
        <5>3. CASE y.pc \in {"delete", "modify"}
          <6>1. PICK b, z : b = y.call.tbl /\ z = y.h[1]
            OBVIOUS
          <6>2. b \in PiTabs /\ z \in PiSlotSet
            BY <5>2, <5>3, <6>1, PiAssumption DEF PiThreadOk, PiFoundBy
          <6>3. CASE <<b, z>> = <<tb, s>>
            <7>1. PICK k \in Nat : k = y.h[2] /\ v >= k
              BY <2>3, <5>2, <5>3, <6>1, <6>3 DEF PiFoundBy
            <7>2. piVersion'[b][z] = v + 1
              BY <2>6, <6>3
            <7>3. piVersion'[b][z] >= y.h[2] /\ piVersion'[b][z] # y.h[2]
              BY <7>1, <7>2
            <7> QED  BY <5>1, <5>2, <5>3, <6>1, <7>3 DEF PiFoundBy
          <6>4. CASE <<b, z>> # <<tb, s>>
            <7>1. piEntries'[b][z] = piEntries[b][z] /\ piVersion'[b][z] = piVersion[b][z]
              BY <2>4, <2>6, <6>2, <6>4
            <7> QED  BY <5>1, <5>2, <6>1, <7>1 DEF PiFoundBy
          <6> QED  BY <6>3, <6>4
        <5>4. CASE y.pc \notin {"delete", "modify"}
          BY <5>1, <5>4 DEF PiFoundBy
        <5> QED  BY <5>3, <5>4
      <4> QED  BY <4>1, <4>2
    <3> QED  BY <3>1 DEF PiFound
  <2>16. PiVersionsFromCalls'
    <3>1. PICK m \in Nat : m = piMade /\ piMade' = m
      BY <1>1, <1>3, PiAssumption DEF PiTypes
    <3>2. ASSUME NEW b \in PiTabs, NEW z \in PiSlotSet
          PROVE  piVersion'[b][z] + Cardinality(PiDeleting)' <= piMade'
      <4>1. PICK k \in Nat, k1 \in Nat :
              k = piVersion[b][z] /\ k1 = piVersion'[b][z] /\ k1 <= k + 1
        <5>1. piVersion[b][z] \in Nat
          BY <1>1 DEF PiTypes
        <5>2. CASE <<b, z>> = <<tb, s>>
          BY <2>3, <2>6, <5>2
        <5>3. CASE <<b, z>> # <<tb, s>>
          BY <2>6, <5>1, <5>3
        <5> QED  BY <5>2, <5>3
      <4>2. k + n <= m
        BY <1>1, <2>12, <3>1, <4>1 DEF PiVersionsFromCalls
      <4> QED  BY <2>12, <3>1, <4>1, <4>2
    <3> QED  BY <3>2 DEF PiVersionsFromCalls
  <2>17. PiDefaultsRead'
    BY <1>1, <1>3 DEF PiDefaultsRead, PiGetDefault
  <2> QED  BY <2>13, <2>14, <2>15, <2>16, <2>17 DEF PiInv
<1> QED  BY <1>6, <1>7

\* A modify keeps the key and the priority of the entry.
LEMMA PiModifyKeeps ==
  ASSUME PiInv, NEW t \in PiThreads, PiModify(t) PROVE PiInv'
<1>1. PiTypes /\ PiWritten /\ PiFound /\ PiVersionsFromCalls /\ PiDefaultsRead
  BY DEF PiInv
<1>2. PICK x, c, tb, h : x = piThread[t] /\ c = x.call /\ tb = c.tbl /\ h = x.h
  OBVIOUS
<1>3. x.pc = "modify" /\ UNCHANGED <<piVersion, piMeta, piDefault, piMade>>
  BY <1>2 DEF PiModify
<1>4. PiThreadOk(x) /\ PiFoundBy(x)
  BY <1>1, <1>2 DEF PiTypes, PiFound
<1>5. c \in PiCalls /\ c.op = "modify" /\ tb \in PiTabs /\ PiActOk(tb, c.act)
  BY <1>2, <1>3, <1>4, PiAssumption DEF PiThreadOk
<1>6. CASE ~PiValidHandle(tb, h)
  <2>1. PiGo(t, "idle") /\ UNCHANGED <<piEntries, piWriter>>
    BY <1>2, <1>6 DEF PiModify
  <2>2. "idle" \in PiPcs \ {"delete", "modify", "write_counter"}
    BY DEF PiPcs
  <2>3. piMeta' \in PiMetaType
    BY <1>1, <1>3 DEF PiTypes
  <2> QED  BY <1>2, <1>3, <2>1, <2>2, <2>3, PiGoKeeps
<1>7. CASE PiValidHandle(tb, h)
  <2>1. PICK s \in PiSlotSet : s = h[1] /\ piEntries[tb][s] # PiNoEntry
    BY <1>7 DEF PiValidHandle, PiUsed
  <2>2. /\ piEntries' = [piEntries EXCEPT ![tb][s].act = PiBuildAction(tb, c.act)]
        /\ piWriter' = [piWriter EXCEPT ![tb][s].act = c.act] /\ PiGo(t, "ttl")
    BY <1>2, <1>7, <2>1 DEF PiModify, PiModifyEntry
  <2>3. PICK e, w : e = piEntries[tb][s] /\ w = piWriter[tb][s]
    OBVIOUS
  <2>4. /\ e = [key |-> w.key, prio |-> PiToBmPriority(tb, w.prio), act |-> PiBuildAction(tb, w.act)]
        /\ w = [key |-> w.key, prio |-> w.prio, act |-> w.act]
        /\ w.prio \in 0..PiMaxPrio \/ tb = "W"
    BY <1>1, <1>5, <2>1, <2>3 DEF PiWritten
  <2>5. PICK w1 : w1 = [key |-> w.key, prio |-> w.prio, act |-> c.act]
    OBVIOUS
  <2>6. PICK a1 : a1 = PiBuildAction(tb, c.act)
    OBVIOUS
  <2>7. PICK e1 : e1 = [key |-> w.key, prio |-> PiToBmPriority(tb, w.prio), act |-> a1]
    OBVIOUS
  <2>8. piWriter' = [piWriter EXCEPT ![tb][s] = w1]
    <3>1. [w EXCEPT !.act = c.act] = w1
      BY <2>4, <2>5
    <3> QED  BY <2>2, <2>3, <3>1
  <2>9. piEntries' = [piEntries EXCEPT ![tb][s] = e1]
    <3>1. [e EXCEPT !.act = a1] = e1
      BY <2>4, <2>7
    <3> QED  BY <2>2, <2>3, <2>6, <3>1
  <2>10. PiWritten'
    <3>1. w1.key = w.key /\ w1.prio = w.prio /\ w1.act = c.act
      BY <2>5
    <3> QED  BY <1>1, <1>5, <2>4, <2>5, <2>6, <2>7, <2>8, <2>9, <3>1, PiWrittenKept
  <2>11. /\ DOMAIN piEntries' = PiTabs /\ \A b \in PiTabs : DOMAIN piEntries'[b] = PiSlotSet
         /\ piEntries'[tb][s] = e1
         /\ \A b \in PiTabs, z \in PiSlotSet : <<b, z>> # <<tb, s>> => piEntries'[b][z] = piEntries[b][z]
    BY <1>1, <1>5, <2>9, PiWriteIs DEF PiTypes
  <2>12. DOMAIN piWriter' = PiTabs /\ \A b \in PiTabs : DOMAIN piWriter'[b] = PiSlotSet
    BY <1>1, <1>5, <2>8, PiWriteIs DEF PiTypes
  <2>13. PICK r : r = [x EXCEPT !.pc = "ttl"]
    OBVIOUS
  <2>14. piThread' = [piThread EXCEPT ![t] = r]
    BY <1>2, <2>2, <2>13 DEF PiGo, PiStep
  <2>15. r = [pc |-> "ttl", call |-> x.call, h |-> x.h, out |-> x.out, at |-> x.at]
    BY <1>4, <2>13 DEF PiThreadOk
  <2>16. PiThreadOk(r) /\ r.pc = "ttl"
    BY <1>2, <1>5, <2>15 DEF PiThreadOk, PiPcs
  <2>17. /\ DOMAIN piThread' = PiThreads /\ piThread'[t] = r
         /\ \A u \in PiThreads : u # t => piThread'[u] = piThread[u]
         /\ Cardinality(PiDeleting)' = Cardinality(PiDeleting)
    <3>1. r.pc # "delete" /\ piThread[t].pc # "delete"
      BY <1>2, <1>3, <2>16
    <3> QED  BY <1>1, <2>14, <3>1, PiStepIs
  <2>18. PiTypes'
    BY <1>1, <1>3, <2>11, <2>12, <2>16, <2>17 DEF PiTypes
  <2>19. \A b \in PiTabs, z \in PiSlotSet : piEntries[b][z] # PiNoEntry =>
           /\ piEntries'[b][z] # PiNoEntry /\ piEntries'[b][z].key = piEntries[b][z].key
           /\ piEntries'[b][z].prio = piEntries[b][z].prio
    <3>1. e1 # PiNoEntry
      BY <1>5, <2>6, <2>7, EntryIsUsed
    <3>2. e1.key = e.key /\ e1.prio = e.prio
      BY <2>4, <2>7
    <3>3. ASSUME NEW b \in PiTabs, NEW z \in PiSlotSet, piEntries[b][z] # PiNoEntry
          PROVE  /\ piEntries'[b][z] # PiNoEntry /\ piEntries'[b][z].key = piEntries[b][z].key
                 /\ piEntries'[b][z].prio = piEntries[b][z].prio
      <4>1. CASE <<b, z>> = <<tb, s>>
        <5>1. piEntries'[b][z] = e1 /\ piEntries[b][z] = e
          BY <2>3, <2>11, <4>1
        <5> QED  BY <3>1, <3>2, <5>1
      <4>2. CASE <<b, z>> # <<tb, s>>
        BY <2>11, <3>3, <4>2
      <4> QED  BY <4>1, <4>2
    <3> QED  BY <3>3
  <2>20. PiFound'
    <3>1. ASSUME NEW u \in PiThreads PROVE PiFoundBy(piThread[u])'
      <4>1. CASE u = t
        BY <2>16, <2>17, <4>1 DEF PiFoundBy
      <4>2. CASE u # t
        <5>1. PICK y : y = piThread[u] /\ piThread'[u] = y
          BY <2>17, <4>2
        <5>2. PiFoundBy(y) /\ PiThreadOk(y)
          BY <1>1, <5>1 DEF PiFound, PiTypes
        <5>3. CASE y.pc \in {"delete", "modify"}
          <6>1. PICK b, z : b = y.call.tbl /\ z = y.h[1]
            OBVIOUS
          <6>2. b \in PiTabs /\ z \in PiSlotSet
            BY <5>2, <5>3, <6>1, PiAssumption DEF PiThreadOk, PiFoundBy
          <6> QED  BY <1>3, <2>19, <5>1, <5>2, <6>1, <6>2, SMTT(90) DEF PiFoundBy
        <5>4. CASE y.pc \notin {"delete", "modify"}
          BY <5>1, <5>4 DEF PiFoundBy
        <5> QED  BY <5>3, <5>4
      <4> QED  BY <4>1, <4>2
    <3> QED  BY <3>1 DEF PiFound
  <2>21. PiVersionsFromCalls' /\ PiDefaultsRead'
    BY <1>1, <1>3, <2>17 DEF PiVersionsFromCalls, PiDefaultsRead, PiGetDefault
  <2> QED  BY <2>10, <2>18, <2>20, <2>21 DEF PiInv
<1> QED  BY <1>6, <1>7

\* The default entry is read as it was written.
LEMMA PiDefaultKeeps ==
  ASSUME PiInv, NEW t \in PiThreads, NEW c \in PiCalls, PiSetDefault(t, c) \/ PiResetDefault(t, c)
  PROVE  PiInv'
<1>1. PiTypes /\ PiWritten /\ PiFound /\ PiVersionsFromCalls /\ PiDefaultsRead
  BY DEF PiInv
<1>2. PICK tb \in PiTabs : tb = c.tbl
  BY PiAssumption
<1>3. /\ UNCHANGED <<piEntries, piVersion, piMeta, piWriter, piThread>>
      /\ piMade' = piMade + 1 /\ piMade' \in 0..PiMaxCalls
  BY <1>1, PiAssumption DEF PiSetDefault, PiResetDefault, PiMayCall, PiTypes
<1>4. PICK d : /\ piDefault' = [piDefault EXCEPT ![tb] = d]
               /\ (IF d.act = <<>> THEN "none" ELSE PiActionEntry(tb, d.act)) = d.by
  <2>1. CASE PiSetDefault(t, c)
    <3>1. PICK d : d = [act |-> PiBuildAction(tb, c.act), by |-> c.act]
      OBVIOUS
    <3>2. piDefault' = [piDefault EXCEPT ![tb] = d]
      BY <1>2, <2>1, <3>1 DEF PiSetDefault
    <3>3. PiActOk(tb, c.act)
      BY <1>2, <2>1, PiAssumption DEF PiSetDefault, PiMayCall
    <3>4. d.act = PiBuildAction(tb, c.act) /\ d.by = c.act
      BY <3>1
    <3>5. PiActionEntry(tb, d.act) = d.by /\ d.act # <<>>
      BY <3>3, <3>4, ActionRoundTrip
    <3> QED  BY <3>2, <3>5
  <2>2. CASE PiResetDefault(t, c)
    <3>1. piDefault' = [piDefault EXCEPT ![tb] = PiNoDefault]
      BY <1>2, <2>2 DEF PiResetDefault
    <3>2. PiNoDefault.act = <<>> /\ PiNoDefault.by = "none"
      BY DEF PiNoDefault
    <3> QED  BY <3>1, <3>2
  <2> QED  BY <2>1, <2>2
<1>5. /\ DOMAIN piDefault' = PiTabs /\ piDefault'[tb] = d
      /\ \A b \in PiTabs : b # tb => piDefault'[b] = piDefault[b]
  BY <1>1, <1>4 DEF PiTypes
<1>6. PiDefaultsRead'
  <2>1. ASSUME NEW b \in PiTabs
        PROVE  (IF piDefault'[b].act = <<>> THEN "none" ELSE PiActionEntry(b, piDefault'[b].act))
                 = piDefault'[b].by
    <3>1. CASE b = tb
      BY <1>4, <1>5, <3>1
    <3>2. CASE b # tb
      BY <1>1, <1>5, <3>2 DEF PiDefaultsRead, PiGetDefault
    <3> QED  BY <3>1, <3>2
  <2> QED  BY <2>1 DEF PiDefaultsRead, PiGetDefault
<1>7. PiVersionsFromCalls'
  <2>1. PiDeleting' = PiDeleting /\ IsFiniteSet(PiDeleting)
    <3>1. PiDeleting \in SUBSET PiThreads
      BY DEF PiDeleting
    <3> QED  BY <1>3, <3>1, PiAssumption, FS_Subset DEF PiDeleting
  <2>2. PICK n \in Nat : n = Cardinality(PiDeleting) /\ Cardinality(PiDeleting)' = n
    BY <2>1, FS_CardinalityType
  <2>3. piMade \in Nat
    BY <1>1, PiAssumption DEF PiTypes
  <2>4. ASSUME NEW b \in PiTabs, NEW z \in PiSlotSet
        PROVE  piVersion'[b][z] + Cardinality(PiDeleting)' <= piMade'
    <3>1. PICK v \in Nat : v = piVersion[b][z] /\ piVersion'[b][z] = v
      BY <1>1, <1>3 DEF PiTypes
    <3>2. v + n <= piMade
      BY <1>1, <2>2, <3>1 DEF PiVersionsFromCalls
    <3> QED  BY <1>3, <2>2, <2>3, <3>1, <3>2
  <2> QED  BY <2>4 DEF PiVersionsFromCalls
<1>8. PiTypes' /\ PiWritten' /\ PiFound'
  BY <1>1, <1>3, <1>5 DEF PiTypes, PiWritten, PiFound, PiFoundBy
<1> QED  BY <1>6, <1>7, <1>8 DEF PiInv

\* A packet is counted.
LEMMA PiCountKeeps ==
  ASSUME PiInv, NEW tb \in PiTabs, NEW s \in PiSlotSet, PiCount(tb, s) PROVE PiInv'
<1>1. PiTypes /\ PiWritten /\ PiFound /\ PiVersionsFromCalls /\ PiDefaultsRead
  BY DEF PiInv
<1>2. UNCHANGED <<piEntries, piVersion, piDefault, piWriter, piThread, piMade>>
  BY DEF PiCount
<1>3. piMeta' \in PiMetaType
  <2>1. PICK T : T = [ttl : Nat, bytes : Int, packets : 0..PiMaxCount]
    OBVIOUS
  <2>2. piMeta \in [PiTabs -> [PiSlotSet -> T]]
    BY <1>1, <2>1 DEF PiTypes, PiMetaType
  <2>3. PICK m : m = piMeta[tb][s] /\ m \in T
    BY <2>2
  <2>4. PICK n \in 0..PiMaxCount : n = m.packets + 1
    BY <2>1, <2>3, PiAssumption DEF PiCount
  <2>5. [m EXCEPT !.packets = n] \in T
    BY <2>1, <2>3, <2>4
  <2>6. piMeta' = [piMeta EXCEPT ![tb] = [piMeta[tb] EXCEPT ![s] = [m EXCEPT !.packets = n]]]
    BY <2>3, <2>4 DEF PiCount
  <2> QED  BY <2>1, <2>2, <2>5, <2>6 DEF PiMetaType
<1> QED  BY <1>1, <1>2, <1>3
         DEF PiInv, PiTypes, PiWritten, PiFound, PiFoundBy, PiVersionsFromCalls, PiDeleting,
             PiDefaultsRead, PiGetDefault

\* Every step of a client's call keeps the invariant.
LEMMA PiStepKeeps ==
  ASSUME PiInv, [PiNext]_piVars PROVE PiInv'
<1>1. CASE UNCHANGED piVars
  BY <1>1 DEF piVars, PiInv, PiTypes, PiWritten, PiFound, PiFoundBy, PiVersionsFromCalls,
              PiDeleting, PiDefaultsRead, PiGetDefault
<1>2. ASSUME NEW t \in PiThreads, NEW c \in PiCalls,
             \/ PiAdd(t, c) \/ PiFindHandle(t, c) \/ PiFetchAll(t, c)
             \/ PiCounterRead(t, c) \/ PiExpire(t, c) \/ PiSetDefault(t, c) \/ PiResetDefault(t, c)
      PROVE  PiInv'
  BY <1>2, PiAddKeeps, PiFindHandleKeeps, PiFetchAllKeeps, PiCounterReadKeeps, PiExpireKeeps,
     PiDefaultKeeps
<1>3. ASSUME NEW t \in PiThreads,
             \/ PiSetTtl(t) \/ PiSetDirect(t) \/ PiDelete(t) \/ PiModify(t)
             \/ PiFetchOne(t) \/ PiFetchCounter(t) \/ PiCounterWrite(t)
             \/ PiIdleTimeoutNotify(t)
      PROVE  PiInv'
  BY <1>3, PiSetTtlKeeps, PiSetDirectKeeps, PiDeleteKeeps, PiModifyKeeps, PiFetchOneKeeps,
     PiFetchCounterKeeps, PiCounterWriteKeeps, PiIdleTimeoutNotifyKeeps
<1>4. ASSUME NEW tb \in PiTabs, NEW s \in PiSlotSet, PiCount(tb, s) PROVE PiInv'
  BY <1>4, PiCountKeeps
<1> QED  BY <1>1, <1>2, <1>3, <1>4 DEF PiNext

\* A handle that is up to date names the entry of the call's key and priority.
LEMMA PiHandleNamesKey ==
  ASSUME PiInv, NEW t \in PiThreads, piThread[t].pc \in {"delete", "modify"},
         PiValidHandle(piThread[t].call.tbl, piThread[t].h)
  PROVE  LET c == piThread[t].call
             s == piThread[t].h[1]
         IN /\ c.tbl \in PiTabs /\ s \in PiSlotSet /\ piEntries[c.tbl][s].key = c.key
            /\ c.tbl = "T" => piWriter[c.tbl][s].prio = c.prio
<1>1. PiTypes /\ PiWritten /\ PiFound
  BY DEF PiInv
<1>2. PICK x, c, tb, s : x = piThread[t] /\ c = x.call /\ tb = c.tbl /\ s = x.h[1]
  OBVIOUS
<1>3. PiThreadOk(x) /\ PiFoundBy(x)
  BY <1>1, <1>2 DEF PiTypes, PiFound
<1>4. c \in PiCalls /\ tb \in PiTabs /\ c.prio \in Nat
  BY <1>2, <1>3, PiAssumption DEF PiThreadOk
<1>5. /\ s \in PiSlotSet /\ piEntries[tb][s] # PiNoEntry
      /\ piEntries[tb][s].key = c.key /\ piEntries[tb][s].prio = PiToBmPriority(tb, c.prio)
  BY <1>2, <1>3 DEF PiFoundBy, PiValidHandle, PiUsed
<1>6. PICK w : w = piWriter[tb][s]
  OBVIOUS
<1>7. /\ piEntries[tb][s] = [key |-> w.key, prio |-> PiToBmPriority(tb, w.prio),
                             act |-> PiBuildAction(tb, w.act)]
      /\ w.prio \in 0..PiMaxPrio \/ tb = "W"
  BY <1>1, <1>4, <1>5, <1>6 DEF PiWritten
<1>8. ASSUME tb = "T" PROVE w.prio = c.prio
  <2>1. PiToBmPriority(tb, w.prio) = PiToBmPriority(tb, c.prio)
    BY <1>5, <1>7
  <2>2. PiMaxPrio - w.prio = PiMaxPrio - c.prio /\ w.prio \in 0..PiMaxPrio
    BY <1>7, <1>8, <2>1 DEF PiToBmPriority
  <2> QED  BY <1>4, <2>2, PiAssumption
<1> QED  BY <1>2, <1>4, <1>5, <1>6, <1>8

\* Only the delete and the modify of the thread itself change entries in its step.
LEMMA PiStepHits ==
  ASSUME PiInv, [PiNext]_piVars PROVE KeyCallHitsItsKey
<1>1. PiTypes
  BY DEF PiInv
<1> SUFFICES ASSUME NEW t \in PiThreads, NEW tb \in PiTabs, NEW s \in PiSlotSet,
                    piThread[t].pc \in {"delete", "modify"}, piThread'[t] # piThread[t],
                    piEntries'[tb][s] # piEntries[tb][s]
             PROVE  LET c == piThread[t].call
                    IN /\ tb = c.tbl /\ piEntries[tb][s].key = c.key
                       /\ tb = "T" => piWriter[tb][s].prio = c.prio
  BY DEF KeyCallHitsItsKey
<1>2. ASSUME NEW u \in PiThreads, NEW r, PiStep(u, r) PROVE u = t
  BY <1>1, <1>2 DEF PiStep, PiTypes
<1>3. ASSUME NEW u \in PiThreads, NEW c \in PiCalls, PiAdd(u, c) PROVE FALSE
  <2>1. PICK r : PiStep(u, r)
    BY <1>3 DEF PiAdd
  <2>2. u = t
    BY <1>2, <2>1
  <2> QED  BY <1>3, <2>2 DEF PiAdd, PiMayCall
<1>4. (\E u \in PiThreads : PiDelete(u) \/ PiModify(u))
  <2>1. piEntries' # piEntries
    OBVIOUS
  <2> QED  BY <1>3, <2>1 DEF PiNext, piVars, PiFindHandle, PiFetchAll, PiCounterRead, PiExpire,
            PiSetDefault, PiResetDefault, PiSetTtl, PiSetDirect, PiFetchOne, PiFetchCounter,
            PiCounterWrite, PiIdleTimeoutNotify, PiCount
<1>5. PICK u \in PiThreads : PiDelete(u) \/ PiModify(u)
  BY <1>4
<1>6. u = t
  <2>1. PICK r : PiStep(u, r)
    BY <1>5 DEF PiDelete, PiModify, PiGo
  <2> QED  BY <1>2, <2>1
<1>7. PICK c, z : c = piThread[t].call /\ z = piThread[t].h[1]
  OBVIOUS
<1>8. /\ PiValidHandle(c.tbl, piThread[t].h)
      /\ \E e : piEntries' = [piEntries EXCEPT ![c.tbl][z] = e]
  <2>1. piEntries' # piEntries
    OBVIOUS
  <2>2. CASE PiDelete(t)
    BY <1>7, <2>1, <2>2 DEF PiDelete
  <2>3. CASE PiModify(t)
    <3>1. PiValidHandle(c.tbl, piThread[t].h)
      BY <1>7, <2>1, <2>3 DEF PiModify
    <3>2. piEntries' = [piEntries EXCEPT ![c.tbl][z].act = PiBuildAction(c.tbl, c.act)]
      BY <1>7, <2>3, <3>1 DEF PiModify, PiModifyEntry
    <3>3. PICK e : e = [piEntries[c.tbl][z] EXCEPT !.act = PiBuildAction(c.tbl, c.act)]
      OBVIOUS
    <3>4. piEntries' = [piEntries EXCEPT ![c.tbl][z] = e]
      BY <3>2, <3>3
    <3> QED  BY <3>1, <3>4
  <2> QED  BY <1>5, <1>6, <2>2, <2>3
<1>9. /\ c.tbl \in PiTabs /\ z \in PiSlotSet /\ piEntries[c.tbl][z].key = c.key
      /\ c.tbl = "T" => piWriter[c.tbl][z].prio = c.prio
  BY <1>7, <1>8, PiHandleNamesKey
<1>10. tb = c.tbl /\ s = z
  <2>1. PICK e : piEntries' = [piEntries EXCEPT ![c.tbl][z] = e]
    BY <1>8
  <2>2. \A b \in PiTabs, y \in PiSlotSet : <<b, y>> # <<c.tbl, z>> => piEntries'[b][y] = piEntries[b][y]
    BY <1>1, <1>9, <2>1, PiWriteIs DEF PiTypes
  <2>3. <<tb, s>> = <<c.tbl, z>>
    BY <2>2
  <2> QED  BY <2>3
<1> QED  BY <1>7, <1>9, <1>10

\* PiInv is an invariant of the calls of the PI server's threads: a handle that a
\* thread has found is out of date or names an entry of its key, an entry is what
\* its writer gave, every version took a call.
THEOREM PiInvariant == PiSpec => []PiInv
<1>1. PiInv /\ [PiNext]_piVars => PiInv'
  BY PiStepKeeps
<1> QED  BY <1>1, PiBegins, PTL DEF PiSpec

\* No call of a client touches another key's entry, and what a client writes is
\* what a client reads, for every set of threads, calls and table size.
THEOREM CallsAreFaithful == PiSpec => PiFaithful
<1>1. PiInv => PiTypeOK /\ EmittedIsAsWritten
  BY PiReads
<1>2. PiInv /\ [PiNext]_piVars => KeyCallHitsItsKey
  BY PiStepHits
<1> QED  BY <1>1, <1>2, PiInvariant, PTL DEF PiSpec, PiFaithful

-----------------------------------------------------------------------------
(* DevicePorts: the array of ports and its binary search.  A loop is a run *)
(* of steps, reasoned about by induction over sets of numbers.             *)

\* Induction up to N, for a set of numbers.
LEMMA UpTo ==
  ASSUME NEW N \in Nat, NEW S, 0 \in S, \A n \in 1 .. N : n - 1 \in S => n \in S
  PROVE  \A n \in 0 .. N : n \in S
<1> DEFINE bad == {n \in 0 .. N : n \notin S}
<1>1. SUFFICES ASSUME bad # {} PROVE FALSE
  OBVIOUS
<1>2. bad \subseteq Nat
  OBVIOUS
<1>3. PICK n \in bad : \A m \in bad : n <= m
  BY <1>1, <1>2, LeastNatural
<1>4. n # 0 /\ n \in 1 .. N
  BY <1>3
<1>5. n - 1 \in 0 .. N /\ n - 1 \notin bad
  BY <1>3, <1>4
<1> QED  BY <1>3, <1>4, <1>5

\* A run of N steps from base, the n-th step being step[n].
StepsOf(N, V) == [1 .. N -> [V -> V]]
RunsOf(N, V, base, step) ==
  {w \in [0 .. N -> V] : w[0] = base /\ \A n \in 1 .. N : w[n] = step[n][w[n - 1]]}

\* A value that is computed step by step from base exists.
LEMMA Iterates ==
  ASSUME NEW N \in Nat, NEW V, NEW base \in V, NEW step \in StepsOf(N, V)
  PROVE  RunsOf(N, V, base, step) # {}
<1> USE DEF StepsOf
<1> DEFINE Upto(k, w) == w[0] = base /\ \A n \in 1 .. k : w[n] = step[n][w[n - 1]]
           S == {k \in 0 .. N : \E w \in [0 .. k -> V] : Upto(k, w)}
<1>1. 0 \in S
  <2> DEFINE v == [n \in 0 .. 0 |-> base]
  <2>1. v \in [0 .. 0 -> V] /\ Upto(0, v)
    OBVIOUS
  <2> HIDE DEF v, Upto
  <2> QED  BY <2>1
<1>2. ASSUME NEW k \in 1 .. N, k - 1 \in S PROVE k \in S
  <2>1. PICK w \in [0 .. k - 1 -> V] : Upto(k - 1, w)
    BY <1>2
  <2> DEFINE v == [n \in 0 .. k |-> IF n = k THEN step[k][w[k - 1]] ELSE w[n]]
  <2>2. w[k - 1] \in V /\ step[k][w[k - 1]] \in V
    OBVIOUS
  <2>3. v \in [0 .. k -> V] /\ v[0] = base /\ v[k] = step[k][w[k - 1]] /\ v[k - 1] = w[k - 1]
    BY <2>1, <2>2
  <2>4. ASSUME NEW n \in 1 .. k - 1 PROVE v[n] = step[n][v[n - 1]]
    <3>1. v[n] = w[n] /\ v[n - 1] = w[n - 1]
      OBVIOUS
    <3> QED  BY <2>1, <3>1
  <2>5. Upto(k, v)
    <3> HIDE DEF v
    <3>1. ASSUME NEW n \in 1 .. k PROVE v[n] = step[n][v[n - 1]]
      BY <2>3, <2>4
    <3> QED  BY <2>3, <3>1
  <2> HIDE DEF v, Upto
  <2>6. k \in 0 .. N
    OBVIOUS
  <2> QED  BY <2>3, <2>5, <2>6
<1> HIDE DEF S
<1>3. \A n \in 0 .. N : n \in S
  BY <1>1, <1>2, UpTo
<1>4. PICK w \in [0 .. N -> V] : Upto(N, w)
  BY <1>3 DEF S
<1> QED  BY <1>4 DEF RunsOf

DpPort == [num : DpNums, fd : DpFdNums \ {DpCtlFd}]
DpSorted(ports) ==
  ports \in Seq(DpPort) /\ \A i, j \in 1..Len(ports) : i < j => ports[i].num < ports[j].num

\* The ranges of places that the search for num can be at.
DpRanges(ports, num) ==
  {r \in [a : 1..Len(ports) + 1, b : 1..Len(ports) + 1] :
     /\ r.a <= r.b
     /\ \A j \in 1..r.a - 1 : ports[j].num < num
     /\ \A j \in r.b..Len(ports) : num <= ports[j].num}

\* A port of the array has a number.
LEMMA DpPortIs ==
  ASSUME NEW ports \in Seq(DpPort), NEW i \in 1..Len(ports)
  PROVE  /\ ports[i] \in DpPort /\ ports[i].num \in DpNums /\ ports[i].num \in Int
         /\ ports[i].fd \in DpFdNums /\ ports[i].fd \in Nat /\ ports[i].fd # DpCtlFd
<1>1. ports[i] \in DpPort
  OBVIOUS
<1> QED  BY <1>1, DpAssumption DEF DpPort

\* A round of the search keeps the places left of the range too small and those
\* right of it not too small, and it makes the range shorter.
LEMMA DpHalveIs ==
  ASSUME NEW ports, DpSorted(ports), NEW num \in Int, NEW r \in DpRanges(ports, num),
         NEW q, q = DpHalve(ports, num, r)
  PROVE  q \in DpRanges(ports, num) /\ (q.b - q.a < r.b - r.a \/ q.a = q.b)
<1> DEFINE N == Len(ports)
<1>1. N \in Nat /\ ports \in Seq(DpPort)
  BY DEF DpSorted
<1>2. \A j \in 1..N : ports[j].num \in Int
  BY <1>1, DpPortIs
<1>3. \A i, j \in 1..N : i < j => ports[i].num < ports[j].num
  BY DEF DpSorted
<1>4. /\ r \in [a : 1..N + 1, b : 1..N + 1] /\ r.a <= r.b
      /\ \A j \in 1..r.a - 1 : ports[j].num < num
      /\ \A j \in r.b..N : num <= ports[j].num
  BY DEF DpRanges
<1>5. CASE r.a >= r.b
  <2>1. q = r /\ r.a = r.b
    BY <1>1, <1>4, <1>5 DEF DpHalve
  <2> QED  BY <2>1
<1>6. CASE r.a < r.b
  <2>1. PICK i : i = r.a + (r.b - r.a) \div 2
    OBVIOUS
  <2>2. i \in r.a..r.b - 1 /\ i \in 1..N
    BY <1>1, <1>4, <1>6, <2>1
  <2>3. ports[i].num \in Int
    BY <1>2, <2>2
  <2>4. q = IF num < ports[i].num THEN [r EXCEPT !.b = i]
            ELSE IF num > ports[i].num THEN [r EXCEPT !.a = i + 1] ELSE [a |-> i, b |-> i]
    BY <1>1, <1>4, <1>6, <2>1 DEF DpHalve
  <2>5. \A j \in 1..i - 1 : j \in 1..N /\ ports[j].num < ports[i].num
    BY <1>1, <1>3, <2>2
  <2>6. \A j \in i + 1..N : j \in 1..N /\ ports[i].num < ports[j].num
    BY <1>1, <1>3, <2>2
  <2>7. CASE num < ports[i].num
    <3>1. q = [a |-> r.a, b |-> i]
      BY <1>4, <2>4, <2>7
    <3>2. \A j \in i..N : num <= ports[j].num
      <4>1. \A j \in i..N : j = i \/ j \in i + 1..N
        BY <1>1, <2>2
      <4> QED  BY <1>2, <2>3, <2>6, <2>7, <4>1
    <3> QED  BY <1>1, <1>4, <2>2, <3>1, <3>2 DEF DpRanges
  <2>8. CASE num > ports[i].num
    <3>1. q = [a |-> i + 1, b |-> r.b]
      BY <1>4, <2>4, <2>3, <2>8
    <3>2. \A j \in 1..i + 1 - 1 : ports[j].num < num
      <4>1. \A j \in 1..i + 1 - 1 : j = i \/ j \in 1..i - 1
        BY <1>1, <2>2
      <4> QED  BY <1>2, <2>3, <2>5, <2>8, <4>1
    <3> QED  BY <1>1, <1>4, <2>2, <3>1, <3>2 DEF DpRanges
  <2>9. CASE num = ports[i].num
    <3>1. q = [a |-> i, b |-> i]
      BY <2>3, <2>4, <2>9
    <3>2. \A j \in i..N : num <= ports[j].num
      <4>1. \A j \in i..N : j = i \/ j \in i + 1..N
        BY <1>1, <2>2
      <4> QED  BY <1>2, <2>3, <2>6, <2>9, <4>1
    <3>3. \A j \in 1..i - 1 : ports[j].num < num
      BY <2>5, <2>9
    <3> QED  BY <1>1, <2>2, <3>1, <3>2, <3>3 DEF DpRanges
  <2> QED  BY <2>3, <2>7, <2>8, <2>9
<1> QED  BY <1>4, <1>5, <1>6

\* The search ends at the first port that is not too small.
LEMMA DpSearchIs ==
  ASSUME NEW ports, DpSorted(ports), NEW num \in Int, NEW i, i = DpSearch(ports, num)
  PROVE  /\ i \in 1..Len(ports) + 1
         /\ \A j \in 1..i - 1 : ports[j].num < num
         /\ \A j \in i..Len(ports) : num <= ports[j].num
<1> DEFINE N == Len(ports)
           V == DpRanges(ports, num)
           base == [a |-> 1, b |-> N + 1]
           After(r) == DpHalve(ports, num, r)
           step == [k \in 1..N |-> [r \in V |-> After(r)]]
<1>1. N \in Nat
  BY DEF DpSorted
<1>2. base \in V
  BY <1>1 DEF DpRanges
<1>3. \A r \in V : After(r) \in V
  BY DpHalveIs
<1>4. step \in StepsOf(N, V)
  <2> HIDE DEF V, After
  <2> QED  BY <1>3 DEF StepsOf
<1>5. PICK w : w \in RunsOf(N, V, base, step)
  <2> HIDE DEF N, V, step, base
  <2> QED  BY <1>1, <1>2, <1>4, Iterates
<1>6. w \in [0..N -> V] /\ w[0] = base /\ \A k \in 1..N : w[k] = After(w[k - 1])
  <2>1. \A k \in 1..N : k - 1 \in 0..N
    BY <1>1
  <2>2. w \in [0..N -> V] /\ w[0] = base /\ \A k \in 1..N : w[k] = step[k][w[k - 1]]
    <3> HIDE DEF N, V, step, base
    <3> QED  BY <1>5 DEF RunsOf
  <2> HIDE DEF N, V, After, base
  <2> QED  BY <2>1, <2>2
<1>7. w = [k \in 0..N |-> IF k = 0 THEN base ELSE After(w[k - 1])]
  <2>1. \A k \in 0..N : k = 0 \/ (k \in 1..N /\ k # 0)
    BY <1>1
  <2> HIDE DEF N, V, After, base
  <2>2. \A k \in 0..N : w[k] = IF k = 0 THEN base ELSE After(w[k - 1])
    BY <1>6, <2>1
  <2> QED  BY <1>6, <2>2
<1>8. PICK f : f = [k \in 0..N |-> IF k = 0 THEN base ELSE After(f[k - 1])] /\ i = f[N].a
  <2> DEFINE g == CHOOSE f : f = [k \in 0..N |-> IF k = 0 THEN base ELSE After(f[k - 1])]
  <2>1. g = [k \in 0..N |-> IF k = 0 THEN base ELSE After(g[k - 1])]
    <3> HIDE DEF After, N, base
    <3> QED  BY <1>7
  <2>2. i = g[N].a
    BY DEF DpSearch
  <2> HIDE DEF g
  <2> QED  BY <2>1, <2>2
<1> DEFINE S == {k \in 0..N : f[k] \in V /\ (f[k].b - f[k].a <= N - k)}
<1>9. 0 \in S
  <2>1. f[0] = base
    BY <1>1, <1>8
  <2> QED  BY <1>1, <1>2, <2>1
<1>10. ASSUME NEW k \in 1..N, k - 1 \in S PROVE k \in S
  <2>1. k \in 0..N /\ f[k] = After(f[k - 1]) /\ f[k - 1] \in V
    BY <1>1, <1>8, <1>10
  <2>2. f[k] \in V /\ (f[k].b - f[k].a < f[k - 1].b - f[k - 1].a \/ f[k].a = f[k].b)
    BY <2>1, DpHalveIs
  <2>3. f[k].a \in Int /\ f[k].b \in Int /\ f[k - 1].a \in Int /\ f[k - 1].b \in Int
    BY <1>1, <2>1, <2>2 DEF DpRanges
  <2>4. f[k - 1].b - f[k - 1].a <= N - (k - 1)
    BY <1>10
  <2>5. f[k].b - f[k].a <= N - k
    <3>1. PICK a, b, c, d \in Int : /\ a = f[k].a /\ b = f[k].b
                                   /\ c = f[k - 1].a /\ d = f[k - 1].b
      BY <2>3
    <3>2. (b - a < d - c \/ a = b) /\ d - c <= N - (k - 1)
      BY <2>2, <2>4, <3>1
    <3> HIDE DEF N
    <3>3. b - a <= N - k
      BY <1>1, <3>2
    <3> QED  BY <3>1, <3>3
  <2> QED  BY <2>1, <2>2, <2>5
<1>11. N \in S
  <2>1. N \in 0..N
    BY <1>1
  <2> HIDE DEF S, N
  <2> QED  BY <1>1, <1>9, <1>10, <2>1, UpTo
<1>12. f[N] \in V /\ f[N].a = f[N].b
  <2>1. f[N] \in V /\ f[N].b - f[N].a <= 0
    BY <1>1, <1>11
  <2> QED  BY <1>1, <2>1 DEF DpRanges
<1> QED  BY <1>8, <1>12 DEF DpRanges

\* A port of the array is found where it is.
LEMMA DpFinds ==
  ASSUME NEW ports, DpSorted(ports), NEW i \in 1..Len(ports)
  PROVE  DpSearch(ports, ports[i].num) = i
<1>1. PICK n, k : n = ports[i].num /\ k = DpSearch(ports, n)
  OBVIOUS
<1>2. ports \in Seq(DpPort) /\ n \in Int /\ \A j \in 1..Len(ports) : ports[j].num \in Int
  BY <1>1, DpPortIs DEF DpSorted
<1>3. /\ k \in 1..Len(ports) + 1
      /\ \A j \in 1..k - 1 : ports[j].num < n
      /\ \A j \in k..Len(ports) : n <= ports[j].num
  BY <1>1, <1>2, DpSearchIs
<1>4. ~(i < k)
  <2>1. i < k => i \in 1..k - 1
    BY <1>3
  <2> QED  BY <1>1, <1>2, <1>3, <2>1
<1>5. ~(k < i)
  <2>1. SUFFICES ASSUME k < i PROVE FALSE
    OBVIOUS
  <2>2. k \in 1..Len(ports) /\ k \in k..Len(ports)
    BY <1>2, <1>3, <2>1
  <2>3. ports[k].num < ports[i].num /\ n <= ports[k].num
    BY <1>3, <2>1, <2>2 DEF DpSorted
  <2> QED  BY <1>1, <1>2, <2>2, <2>3
<1> QED  BY <1>1, <1>2, <1>3, <1>4, <1>5

\* The descriptors of the ports, each of one port.
DpFdsOf(ports) == {ports[i].fd : i \in 1..Len(ports)}
DpOwnFds(ports) == \A i, j \in 1..Len(ports) : ports[i].fd = ports[j].fd => i = j

\* insert_port puts a port that is not there where it belongs.
LEMMA DpInsertedIs ==
  ASSUME NEW ports, DpSorted(ports), DpOwnFds(ports), NEW port \in DpPort,
         ~DpHas(ports, port.num), port.fd \notin DpFdsOf(ports),
         NEW q, q = DpInserted(ports, DpSearch(ports, port.num), port)
  PROVE  DpSorted(q) /\ DpOwnFds(q) /\ DpFdsOf(q) = DpFdsOf(ports) \cup {port.fd}
<1> DEFINE N == Len(ports)
<1>1. PICK i : i = DpSearch(ports, port.num)
  OBVIOUS
<1>2. N \in Nat /\ ports \in Seq(DpPort) /\ port.num \in Int
  <2>1. port.num \in DpNums
    BY DEF DpPort
  <2>2. port.num \in Int
    BY <2>1, DpAssumption
  <2>3. ports \in Seq(DpPort)
    BY DEF DpSorted
  <2> QED  BY <2>2, <2>3
<1>3. \A j \in 1..N : ports[j] \in DpPort /\ ports[j].num \in Int
  BY <1>2, DpPortIs
<1>4. /\ i \in 1..N + 1
      /\ \A j \in 1..i - 1 : ports[j].num < port.num
      /\ \A j \in i..N : port.num <= ports[j].num
  BY <1>1, <1>2, DpSearchIs
<1>5. \A j \in i..N : port.num < ports[j].num
  <2>1. SUFFICES ASSUME NEW j \in i..N PROVE port.num < ports[j].num
    OBVIOUS
  <2>2. i \in 1..N /\ i \in i..N /\ j \in 1..N
    BY <1>2, <1>4
  <2>3. ports[i].num # port.num
    BY <1>1, <1>2, <2>2 DEF DpHas
  <2>4. port.num < ports[i].num
    BY <1>2, <1>3, <1>4, <2>2, <2>3
  <2>5. j = i \/ ports[i].num < ports[j].num
    BY <2>2 DEF DpSorted
  <2> QED  BY <1>2, <1>3, <2>2, <2>4, <2>5
<1>6. q = [j \in 1..N + 1 |-> IF j < i THEN ports[j] ELSE IF j = i THEN port ELSE ports[j - 1]]
  BY <1>1 DEF DpInserted
<1>7. ASSUME NEW j \in 1..N + 1
      PROVE  \/ j \in 1..i - 1 /\ j \in 1..N /\ q[j] = ports[j]
             \/ j = i /\ q[j] = port
             \/ j - 1 \in i..N /\ j - 1 \in 1..N /\ q[j] = ports[j - 1]
  BY <1>2, <1>4, <1>6
<1>8. q \in Seq(DpPort) /\ Len(q) = N + 1
  <2>1. \A j \in 1..N + 1 : q[j] \in DpPort
    BY <1>3, <1>7
  <2>2. q \in [1..N + 1 -> DpPort]
    BY <1>6, <2>1
  <2> QED  BY <1>2, <2>2
<1>9. ASSUME NEW j \in 1..N + 1, NEW k \in 1..N + 1, j < k PROVE q[j].num < q[k].num
  <2>1. CASE k \in 1..i - 1 /\ k \in 1..N /\ q[k] = ports[k]
    <3>1. j \in 1..i - 1 /\ j \in 1..N /\ q[j] = ports[j]
      BY <1>2, <1>4, <1>7, <1>9, <2>1
    <3> QED  BY <1>9, <2>1, <3>1 DEF DpSorted
  <2>2. CASE k = i /\ q[k] = port
    <3>1. j \in 1..i - 1 /\ q[j] = ports[j]
      BY <1>2, <1>4, <1>7, <1>9, <2>2
    <3> QED  BY <1>4, <2>2, <3>1
  <2>3. CASE k - 1 \in i..N /\ k - 1 \in 1..N /\ q[k] = ports[k - 1]
    <3>1. CASE j \in 1..i - 1 /\ j \in 1..N /\ q[j] = ports[j]
      <4>1. j < k - 1
        BY <1>2, <1>4, <2>3, <3>1
      <4> QED  BY <2>3, <3>1, <4>1 DEF DpSorted
    <3>2. CASE j = i /\ q[j] = port
      BY <1>5, <2>3, <3>2
    <3>3. CASE j - 1 \in i..N /\ j - 1 \in 1..N /\ q[j] = ports[j - 1]
      <4>1. j - 1 < k - 1
        BY <1>2, <1>9
      <4> QED  BY <2>3, <3>3, <4>1 DEF DpSorted
    <3> QED  BY <1>7, <3>1, <3>2, <3>3
  <2> QED  BY <1>7, <2>1, <2>2, <2>3
<1>10. ASSUME NEW j \in 1..N + 1, NEW k \in 1..N + 1, q[j].fd = q[k].fd PROVE j = k
  <2>1. \A l \in 1..N : ports[l].fd # port.fd
    BY DEF DpFdsOf
  <2>2. \A l, m \in 1..N : ports[l].fd = ports[m].fd => l = m
    BY DEF DpOwnFds
  <2>3. CASE j = i
    BY <1>7, <1>10, <1>2, <1>4, <1>6, <2>1, <2>3
  <2>4. CASE k = i
    BY <1>7, <1>10, <1>2, <1>4, <1>6, <2>1, <2>4
  <2>5. CASE j # i /\ k # i
    <3>1. PICK l \in 1..N : q[j] = ports[l] /\ (j < i => l = j) /\ (j > i => l = j - 1)
      <4>1. CASE j < i
        <5>1. j \in 1..N /\ q[j] = ports[j] /\ ~(j > i)
          BY <1>2, <1>4, <1>6, <4>1
        <5> QED  BY <4>1, <5>1
      <4>2. CASE j > i
        <5>1. j - 1 \in 1..N /\ q[j] = ports[j - 1] /\ ~(j < i)
          BY <1>2, <1>4, <1>6, <4>2
        <5> QED  BY <4>2, <5>1
      <4> QED  BY <1>4, <2>5, <4>1, <4>2
    <3>2. PICK m \in 1..N : q[k] = ports[m] /\ (k < i => m = k) /\ (k > i => m = k - 1)
      <4>1. CASE k < i
        <5>1. k \in 1..N /\ q[k] = ports[k] /\ ~(k > i)
          BY <1>2, <1>4, <1>6, <4>1
        <5> QED  BY <4>1, <5>1
      <4>2. CASE k > i
        <5>1. k - 1 \in 1..N /\ q[k] = ports[k - 1] /\ ~(k < i)
          BY <1>2, <1>4, <1>6, <4>2
        <5> QED  BY <4>2, <5>1
      <4> QED  BY <1>4, <2>5, <4>1, <4>2
    <3>3. l = m
      BY <1>10, <2>2, <3>1, <3>2
    <3> QED  BY <1>2, <1>4, <1>7, <2>5, <3>1, <3>2, <3>3
  <2> QED  BY <2>3, <2>4, <2>5
<1>11. DpFdsOf(q) = DpFdsOf(ports) \cup {port.fd}
  <2>1. \A j \in 1..N + 1 : q[j].fd \in DpFdsOf(ports) \cup {port.fd}
    BY <1>7 DEF DpFdsOf
  <2>2. \A l \in 1..N : \E j \in 1..N + 1 : q[j] = ports[l]
    <3>1. SUFFICES ASSUME NEW l \in 1..N PROVE \E j \in 1..N + 1 : q[j] = ports[l]
      OBVIOUS
    <3>2. CASE l < i
      <4>1. l \in 1..N + 1 /\ q[l] = ports[l]
        BY <1>2, <1>6, <3>2
      <4> QED  BY <4>1
    <3>3. CASE ~(l < i)
      <4>1. l + 1 \in 1..N + 1 /\ q[l + 1] = ports[l]
        BY <1>2, <1>4, <1>6, <3>3
      <4> QED  BY <4>1
    <3> QED  BY <3>2, <3>3
  <2>3. i \in 1..N + 1 /\ q[i] = port
    BY <1>4, <1>6, <1>2
  <2>4. DpFdsOf(q) = {q[j].fd : j \in 1..N + 1}
    BY <1>8 DEF DpFdsOf
  <2>5. \A x \in DpFdsOf(q) : x \in DpFdsOf(ports) \cup {port.fd}
    BY <2>1, <2>4
  <2>6. \A x \in DpFdsOf(ports) : x \in DpFdsOf(q)
    <3>1. ASSUME NEW l \in 1..N PROVE ports[l].fd \in DpFdsOf(q)
      <4>1. PICK j \in 1..N + 1 : q[j] = ports[l]
        BY <2>2
      <4> QED  BY <2>4, <4>1
    <3> QED  BY <3>1 DEF DpFdsOf
  <2>7. port.fd \in DpFdsOf(q)
    BY <2>3, <2>4
  <2> QED  BY <2>5, <2>6, <2>7
<1> QED  BY <1>8, <1>9, <1>10, <1>11 DEF DpSorted, DpOwnFds

\* delete_port takes one port away.
LEMMA DpDeletedIs ==
  ASSUME NEW ports, DpSorted(ports), DpOwnFds(ports), NEW i \in 1..Len(ports),
         NEW q, q = DpDeleted(ports, i)
  PROVE  DpSorted(q) /\ DpOwnFds(q) /\ DpFdsOf(q) = DpFdsOf(ports) \ {ports[i].fd}
<1> DEFINE N == Len(ports)
<1>1. N \in Nat /\ ports \in Seq(DpPort) /\ N - 1 \in Nat
  BY DEF DpSorted
<1>2. q = [j \in 1..N - 1 |-> IF j < i THEN ports[j] ELSE ports[j + 1]]
  BY DEF DpDeleted
<1>3. \A j \in 1..N : ports[j] \in DpPort /\ ports[j].num \in Int
  BY <1>1, DpPortIs
<1> DEFINE At(j) == IF j < i THEN j ELSE j + 1
<1>4. \A j \in 1..N - 1 : At(j) \in 1..N /\ At(j) # i /\ q[j] = ports[At(j)]
  BY <1>1, <1>2
<1>5. \A j, k \in 1..N - 1 : (j < k => At(j) < At(k)) /\ (At(j) = At(k) => j = k)
  BY <1>1
<1>6. \A l \in 1..N : l # i => \E j \in 1..N - 1 : At(j) = l
  <2>1. SUFFICES ASSUME NEW l \in 1..N, l # i PROVE \E j \in 1..N - 1 : At(j) = l
    OBVIOUS
  <2>2. CASE l < i
    <3>1. l \in 1..N - 1 /\ At(l) = l
      BY <1>1, <2>2
    <3> QED  BY <3>1
  <2>3. CASE l > i
    <3>1. l - 1 \in 1..N - 1 /\ At(l - 1) = l
      BY <1>1, <2>3
    <3> QED  BY <3>1
  <2> QED  BY <1>1, <2>1, <2>2, <2>3
<1> HIDE DEF At
<1>7. q \in Seq(DpPort) /\ Len(q) = N - 1
  <2>1. q \in [1..N - 1 -> DpPort]
    BY <1>2, <1>3, <1>4
  <2> QED  BY <1>1, <2>1
<1>8. DpSorted(q)
  <2>1. \A l, m \in 1..N : l < m => ports[l].num < ports[m].num
    BY DEF DpSorted
  <2> QED  BY <1>4, <1>5, <1>7, <2>1 DEF DpSorted
<1>9. DpOwnFds(q)
  <2>1. \A l, m \in 1..N : ports[l].fd = ports[m].fd => l = m
    BY DEF DpOwnFds
  <2> QED  BY <1>4, <1>5, <1>7, <2>1 DEF DpOwnFds
<1>10. DpFdsOf(q) = DpFdsOf(ports) \ {ports[i].fd}
  <2>1. \A l, m \in 1..N : ports[l].fd = ports[m].fd => l = m
    BY DEF DpOwnFds
  <2>2. \A j \in 1..N - 1 : q[j].fd \in DpFdsOf(ports) \ {ports[i].fd}
    BY <1>4, <2>1 DEF DpFdsOf
  <2>3. \A l \in 1..N : ports[l].fd # ports[i].fd => \E j \in 1..N - 1 : q[j].fd = ports[l].fd
    BY <1>4, <1>6
  <2>4. DpFdsOf(q) = {q[j].fd : j \in 1..N - 1}
    BY <1>7 DEF DpFdsOf
  <2>5. \A x \in DpFdsOf(q) : x \in DpFdsOf(ports) \ {ports[i].fd}
    BY <2>2, <2>4
  <2>6. \A x \in DpFdsOf(ports) \ {ports[i].fd} : x \in DpFdsOf(q)
    <3>1. ASSUME NEW l \in 1..N, ports[l].fd # ports[i].fd PROVE ports[l].fd \in DpFdsOf(q)
      <4>1. PICK j \in 1..N - 1 : q[j].fd = ports[l].fd
        BY <2>3, <3>1
      <4> QED  BY <2>4, <4>1
    <3> QED  BY <3>1 DEF DpFdsOf
  <2> QED  BY <2>5, <2>6
<1> QED  BY <1>8, <1>9, <1>10

-----------------------------------------------------------------------------
(* DevicePorts: the threads.                                               *)

\* A port that is found has a place in the array.
LEMMA DpHasPlace ==
  ASSUME NEW ports, DpSorted(ports), NEW num \in Int, DpHas(ports, num)
  PROVE  DpSearch(ports, num) \in 1..Len(ports)
<1>1. PICK i : i = DpSearch(ports, num)
  OBVIOUS
<1>2. i \in 1..Len(ports) + 1 /\ i <= Len(ports) /\ Len(ports) \in Nat
  BY <1>1, DpSearchIs DEF DpHas, DpSorted
<1> QED  BY <1>1, <1>2

\* What the invariant says of the array.
LEMMA DpArray ==
  ASSUME DpInv
  PROVE  DpSorted(dpPorts) /\ DpOwnFds(dpPorts) /\ DpOpenFds = {DpCtlFd} \cup DpFdsOf(dpPorts)
BY DEF DpInv, DpPortsInv, DpSorted, DpOwnFds, DpOpenFds, DpFdsOf, DpPort

LEMMA DpBegins == DpInit => DpInv
<1>1. SUFFICES ASSUME DpInit PROVE DpInv
  OBVIOUS
<1>2. dpPorts = << >> /\ Len(dpPorts) = 0 /\ 1..Len(dpPorts) = {} /\ dpWriter = "none" /\ dpByte = "none"
  BY <1>1 DEF DpInit
<1>3. dpFds = [set |-> {DpCtlFd}, max |-> 0] /\ dpFds.set = {DpCtlFd} /\ dpFds.max = 0
  BY <1>1 DEF DpInit
<1>4. DpOpenFds = {DpCtlFd}
  BY <1>2 DEF DpOpenFds
<1>5. dpSel.pc = "copy" /\ DOMAIN dpCurr = {}
  BY <1>1 DEF DpInit
<1>6. \A t \in DpThreads : dpOp[t] = DpIdle /\ dpOp[t].pc = "idle" /\ dpWriter # t
  BY <1>1, <1>2, DpAssumption DEF DpInit, DpIdle
<1>7. dpOp \in [DpThreads -> [pc : {"idle", "event", "apply", "wait"}, num : DpNums \cup {0},
                              evt : {"NONE", "ADDED", "REMOVED"}]]
  <2>1. DpIdle \in [pc : {"idle", "event", "apply", "wait"}, num : DpNums \cup {0},
                    evt : {"NONE", "ADDED", "REMOVED"}]
    BY DEF DpIdle
  <2> QED  BY <1>1, <2>1 DEF DpInit
<1>8. DpTypeOK
  BY <1>2, <1>3, <1>5, DpAssumption DEF DpTypeOK
<1>9. DpPortsInv
  BY <1>2 DEF DpPortsInv
<1>10. DpRemovalInv
  BY <1>2, <1>6 DEF DpRemovalInv
<1>11. dpFds \in [set : SUBSET DpFdNums, max : Nat]
  BY <1>3, DpAssumption
<1>12. DpCtlFd \notin dpReady
  BY <1>1 DEF DpInit
<1> QED
  BY <1>2, <1>3, <1>4, <1>5, <1>6, <1>7, <1>8, <1>9, <1>10, <1>11, <1>12 DEF DpInv

DpOps == [pc : {"idle", "event", "apply", "wait"}, num : DpNums \cup {0},
          evt : {"NONE", "ADDED", "REMOVED"}]

\* A step that leaves the array, the set and the write lock alone, and the thread
\* that waits for the byte.
LEMMA DpArrayStays ==
  ASSUME DpInv, UNCHANGED <<dpPorts, dpFds, dpWriter>>, dpOp' \in [DpThreads -> DpOps],
         \A t \in DpThreads : /\ dpOp'[t].pc # "idle" => dpOp'[t].num \in DpNums
                              /\ dpOp'[t].pc = "wait" <=> dpOp[t].pc = "wait"
                              /\ dpOp[t].pc = "wait" => dpOp'[t] = dpOp[t],
         dpByte' \in {"none", "asked", "answered"}, dpByte' = "none" <=> dpByte = "none",
         DOMAIN dpCurr' \subseteq DpNums, dpSel'.pc \in {"copy", "select", "dispatch"},
         dpSel'.pc = "select" => dpSel'.fds \subseteq DpOpenFds /\ dpByte' # "answered",
         DpCtlFd \notin dpReady'
  PROVE  DpInv'
<1>1. DpTypeOK'
  BY DEF DpInv, DpTypeOK
<1>2. DpPortsInv'
  BY DEF DpInv, DpPortsInv
<1>3. DpOpenFds' = DpOpenFds
  BY DEF DpOpenFds
<1>4. \A t \in DpThreads : dpWriter = t => dpOp'[t] = dpOp[t]
  BY DEF DpInv, DpRemovalInv
<1>5. DpRemovalInv'
  BY <1>3, <1>4 DEF DpInv, DpRemovalInv
<1> QED  BY <1>1, <1>2, <1>3, <1>5 DEF DpInv, DpOps

\* The select thread.
LEMMA SelectKeeps == ASSUME DpInv, SelectStep PROVE DpInv'
<1>1. dpOp' = dpOp /\ dpCurr' = dpCurr /\ UNCHANGED <<dpPorts, dpFds, dpWriter>>
  BY DEF SelectStep, SelectCopy, SelectReturns, SelectDispatch
<1>2. /\ dpOp' \in [DpThreads -> DpOps] /\ DOMAIN dpCurr' \subseteq DpNums
      /\ \A t \in DpThreads : dpOp[t].pc # "idle" => dpOp[t].num \in DpNums
      /\ DpCtlFd \notin dpReady /\ dpByte \in {"none", "asked", "answered"}
  BY <1>1 DEF DpInv, DpTypeOK, DpOps
<1>3. CASE SelectCopy
  <2>1. dpSel'.pc = "select" /\ dpSel'.fds = DpOpenFds /\ dpByte' = "none" /\ dpByte = "none"
    BY <1>3 DEF SelectCopy, DpInv, DpRemovalInv
  <2>2. dpReady' = dpReady
    BY <1>3 DEF SelectCopy
  <2> QED  BY <1>1, <1>2, <2>1, <2>2, DpArrayStays
<1>4. CASE SelectReturns
  <2> DEFINE ready == {f \in dpSel.fds : f <= dpSel.max
                         /\ (f \in dpReady \/ (f = DpCtlFd /\ dpByte = "asked"))}
  <2>1. dpByte' = IF DpCtlFd \in ready THEN "answered" ELSE dpByte
    BY <1>4 DEF SelectReturns
  <2>2. DpCtlFd \in ready => dpByte = "asked"
    BY <1>2
  <2>3. dpSel'.pc \in {"copy", "dispatch"} /\ dpReady' = dpReady
    <3> HIDE DEF ready
    <3> QED  BY <1>4 DEF SelectReturns, ready
  <2> HIDE DEF ready
  <2>4. dpByte' \in {"none", "asked", "answered"} /\ (dpByte' = "none" <=> dpByte = "none")
    BY <1>2, <2>1, <2>2
  <2> QED  BY <1>1, <1>2, <2>3, <2>4, DpArrayStays
<1>5. CASE SelectDispatch
  <2>1. dpSel'.pc = "copy" /\ dpByte' = dpByte /\ DpCtlFd \notin dpReady'
    BY <1>2, <1>5 DEF SelectDispatch
  <2> QED  BY <1>1, <1>2, <2>1, DpArrayStays
<1> QED  BY <1>3, <1>4, <1>5 DEF SelectStep

\* Packets, links and the monitor.
LEMMA OutsideKeeps ==
  ASSUME DpInv,
         \/ \E fd \in DpFdNums : DpArrive(fd)
         \/ \E num \in DpNums : DpLink(num)
         \/ MonitorPoll \/ MonitorReport
  PROVE  DpInv'
<1>1. /\ UNCHANGED <<dpPorts, dpFds, dpWriter, dpOp, dpByte, dpSel>> /\ DOMAIN dpCurr' = DOMAIN dpCurr
      /\ DpCtlFd \notin dpReady'
  <2>1. CASE \E fd \in DpFdNums : DpArrive(fd)
    BY <2>1 DEF DpArrive, DpInv
  <2>2. CASE \E num \in DpNums : DpLink(num)
    BY <2>2 DEF DpLink, DpInv
  <2>3. CASE MonitorPoll
    BY <2>3 DEF MonitorPoll, DpInv
  <2>4. CASE MonitorReport
    BY <2>4 DEF MonitorReport, DpInv
  <2> QED  BY <2>1, <2>2, <2>3, <2>4
<1>2. /\ dpOp' \in [DpThreads -> DpOps] /\ DOMAIN dpCurr' \subseteq DpNums
      /\ \A t \in DpThreads : dpOp[t].pc # "idle" => dpOp[t].num \in DpNums
      /\ dpByte \in {"none", "asked", "answered"} /\ dpSel.pc \in {"copy", "select", "dispatch"}
      /\ dpSel.pc = "select" => dpSel.fds \subseteq DpOpenFds /\ dpByte # "answered"
  BY <1>1 DEF DpInv, DpTypeOK, DpOps
<1> QED  BY <1>1, <1>2, DpArrayStays

\* DevMgrIface::port_add and port_remove, up to the callbacks.
LEMMA DpCallKeeps ==
  ASSUME DpInv, NEW t \in DpThreads,
         \/ \E num \in DpNums, evt \in {"ADDED", "REMOVED"} : DpCall(t, num, evt)
         \/ DpEvent(t)
  PROVE  DpInv'
<1>1. /\ dpOp \in [DpThreads -> DpOps] /\ DOMAIN dpCurr \subseteq DpNums /\ DpCtlFd \notin dpReady
      /\ \A u \in DpThreads : dpOp[u].pc # "idle" => dpOp[u].num \in DpNums
      /\ dpByte \in {"none", "asked", "answered"} /\ dpSel.pc \in {"copy", "select", "dispatch"}
      /\ dpSel.pc = "select" => dpSel.fds \subseteq DpOpenFds /\ dpByte # "answered"
  BY DEF DpInv, DpTypeOK, DpOps
<1>2. PICK op : /\ op \in DpOps /\ op.num \in DpNums /\ op.pc \in {"event", "apply"}
                /\ dpOp[t].pc # "wait" /\ dpOp' = [dpOp EXCEPT ![t] = op]
                /\ UNCHANGED <<dpPorts, dpFds, dpWriter, dpByte, dpSel, dpReady>>
                /\ DOMAIN dpCurr' \subseteq DpNums
  <2>1. CASE DpEvent(t)
    <3>1. dpOp[t].pc = "event" /\ dpOp[t].num \in DpNums /\ dpOp[t] \in DpOps
      BY <1>1, <2>1 DEF DpEvent
    <3>2. PICK op : op = [dpOp[t] EXCEPT !.pc = "apply"]
      OBVIOUS
    <3>3. op \in DpOps /\ op.num \in DpNums /\ op.pc = "apply"
      BY <3>1, <3>2 DEF DpOps
    <3>4. dpOp' = [dpOp EXCEPT ![t] = op]
      BY <2>1, <3>2 DEF DpEvent
    <3> QED  BY <1>1, <2>1, <3>1, <3>3, <3>4 DEF DpEvent
  <2>2. ASSUME NEW num \in DpNums, NEW evt \in {"ADDED", "REMOVED"}, DpCall(t, num, evt)
        PROVE  \E op : /\ op \in DpOps /\ op.num \in DpNums /\ op.pc \in {"event", "apply"}
                /\ dpOp[t].pc # "wait" /\ dpOp' = [dpOp EXCEPT ![t] = op]
                /\ UNCHANGED <<dpPorts, dpFds, dpWriter, dpByte, dpSel, dpReady>>
                /\ DOMAIN dpCurr' \subseteq DpNums
    <3>1. PICK op : op = [pc |-> IF DpAccepts(dpCurr, num, evt) THEN "event" ELSE "apply",
                          num |-> num, evt |-> evt]
      OBVIOUS
    <3>2. op \in DpOps /\ op.num \in DpNums /\ op.pc \in {"event", "apply"}
      BY <3>1 DEF DpOps
    <3>3. dpOp' = [dpOp EXCEPT ![t] = op] /\ dpOp[t].pc # "wait"
      BY <2>2, <3>1 DEF DpCall
    <3>4. DOMAIN dpCurr' \subseteq DpNums
      BY <1>1, <2>2 DEF DpCall, DpNotified
    <3> QED  BY <2>2, <3>2, <3>3, <3>4 DEF DpCall
  <2> QED  BY <2>1, <2>2
<1>3. \A u \in DpThreads : dpOp'[u] = IF u = t THEN op ELSE dpOp[u]
  BY <1>1, <1>2
<1>4. dpOp' \in [DpThreads -> DpOps]
  BY <1>1, <1>2
<1> QED  BY <1>1, <1>2, <1>3, <1>4, DpArrayStays

\* The thread goes back to its client; nobody waits for the byte.
LEMMA DpBackIs ==
  ASSUME DpInv, NEW t \in DpThreads, dpOp' = [dpOp EXCEPT ![t] = DpIdle]
  PROVE  /\ dpOp' \in [DpThreads -> DpOps]
         /\ \A u \in DpThreads : dpOp'[u] = IF u = t THEN DpIdle ELSE dpOp[u]
         /\ \A u \in DpThreads : dpOp'[u].pc # "idle" => dpOp'[u].num \in DpNums
         /\ dpOp'[t].pc = "idle"
<1>1. dpOp \in [DpThreads -> DpOps] /\ \A u \in DpThreads : dpOp[u].pc # "idle" => dpOp[u].num \in DpNums
  BY DEF DpInv, DpOps
<1>2. DpIdle \in DpOps /\ DpIdle.pc = "idle"
  BY DEF DpIdle, DpOps
<1>3. \A u \in DpThreads : dpOp'[u] = IF u = t THEN DpIdle ELSE dpOp[u]
  BY <1>1
<1>4. dpOp' \in [DpThreads -> DpOps]
  BY <1>1, <1>2
<1> QED  BY <1>1, <1>2, <1>3, <1>4

\* A step after which nobody has the write lock: the array and the set agree.
LEMMA DpUnlocked ==
  ASSUME DpInv, dpWriter' = "none", dpByte' = "none", dpOp' \in [DpThreads -> DpOps],
         \A u \in DpThreads : /\ dpOp'[u].pc # "wait"
                              /\ dpOp'[u].pc # "idle" => dpOp'[u].num \in DpNums,
         DpSorted(dpPorts'), DpOwnFds(dpPorts'), dpFds' \in [set : SUBSET DpFdNums, max : Nat],
         dpFds'.set = {DpCtlFd} \cup DpFdsOf(dpPorts'),
         \A i \in 1..Len(dpPorts') : dpFds'.max >= dpPorts'[i].fd,
         dpCurr' = dpCurr, dpSel' = dpSel, DpCtlFd \notin dpReady',
         dpSel.pc = "select" => dpSel.fds \subseteq dpFds'.set
  PROVE  DpInv'
<1>1. DpOpenFds' = dpFds'.set
  BY DEF DpOpenFds, DpFdsOf
<1>2. DpPortsInv'
  BY DEF DpPortsInv, DpSorted, DpOwnFds, DpPort
<1>3. \A t \in DpThreads : dpWriter' # t
  BY DpAssumption
<1>4. DpRemovalInv'
  BY <1>3 DEF DpRemovalInv
<1>5. DpTypeOK'
  <2>1. dpPorts' \in Seq(DpPort)
    BY DEF DpSorted
  <2>2. \A i \in 1..Len(dpPorts') : dpPorts'[i] \in DpPort
    BY <2>1, DpPortIs
  <2>3. dpSel'.pc \in {"copy", "select", "dispatch"} /\ DOMAIN dpCurr' \subseteq DpNums
    BY DEF DpInv, DpTypeOK
  <2>4. dpFds'.set \subseteq DpFdNums
    OBVIOUS
  <2> QED  BY <2>2, <2>3, <2>4 DEF DpTypeOK, DpPort
<1> QED  BY <1>1, <1>2, <1>4, <1>5 DEF DpInv, DpOps

\* bmi_port_interface_add.
LEMMA AddKeeps == ASSUME DpInv, NEW t \in DpThreads, BmiAdd(t) PROVE DpInv'
<1>1. /\ DpSorted(dpPorts) /\ DpOwnFds(dpPorts) /\ DpOpenFds = {DpCtlFd} \cup DpFdsOf(dpPorts)
  BY DpArray
<1>2. /\ dpWriter = "none" /\ dpByte = "none" /\ dpFds.set = DpOpenFds
      /\ dpFds \in [set : SUBSET DpFdNums, max : Nat] /\ DpCtlFd \notin dpReady
      /\ dpSel.pc = "select" => dpSel.fds \subseteq DpOpenFds
      /\ \A i \in 1..Len(dpPorts) : dpFds.max >= dpPorts[i].fd
      /\ \A u \in DpThreads : dpOp[u].pc # "wait"
  BY DpAssumption DEF BmiAdd, DpInv, DpRemovalInv, DpPortsInv
<1>3. /\ dpOp' = [dpOp EXCEPT ![t] = DpIdle]
      /\ UNCHANGED <<dpWriter, dpByte, dpReady, dpSel, dpCurr>>
  BY DEF BmiAdd
<1>4. PICK num : num = dpOp[t].num /\ num \in DpNums
  BY DEF BmiAdd, DpInv
<1>5. /\ dpOp' \in [DpThreads -> DpOps]
      /\ \A u \in DpThreads : dpOp'[u].pc # "wait" /\ (dpOp'[u].pc # "idle" => dpOp'[u].num \in DpNums)
  BY <1>2, <1>3, DpBackIs
<1>6. CASE UNCHANGED <<dpPorts, dpFds>>
  BY <1>1, <1>2, <1>3, <1>5, <1>6, DpUnlocked
<1>7. ASSUME NEW fd \in DpFdNums \ DpOpenFds, ~DpHas(dpPorts, num),
             dpPorts' = DpInserted(dpPorts, DpSearch(dpPorts, num), [num |-> num, fd |-> fd]),
             dpFds' = [set |-> dpFds.set \cup {fd}, max |-> IF fd > dpFds.max THEN fd ELSE dpFds.max]
      PROVE  DpInv'
  <2>1. PICK port : port = [num |-> num, fd |-> fd]
    OBVIOUS
  <2>2. port \in DpPort /\ port.num = num /\ port.fd = fd /\ fd \notin DpFdsOf(dpPorts)
    BY <1>1, <1>4, <1>7, <2>1 DEF DpPort
  <2>3. DpSorted(dpPorts') /\ DpOwnFds(dpPorts') /\ DpFdsOf(dpPorts') = DpFdsOf(dpPorts) \cup {fd}
    BY <1>1, <1>7, <2>1, <2>2, DpInsertedIs
  <2>4. fd \in Nat /\ dpFds.max \in Nat
    BY <1>2, DpAssumption
  <2>5. /\ dpFds' \in [set : SUBSET DpFdNums, max : Nat] /\ dpFds'.set = dpFds.set \cup {fd}
        /\ dpFds'.max \in Nat /\ dpFds'.max >= fd /\ dpFds'.max >= dpFds.max
    BY <1>2, <1>7, <2>4
  <2>6. ASSUME NEW i \in 1..Len(dpPorts') PROVE dpFds'.max >= dpPorts'[i].fd
    <3>1. dpPorts'[i].fd \in DpFdsOf(dpPorts')
      BY DEF DpFdsOf
    <3>2. dpPorts'[i].fd = fd \/ \E j \in 1..Len(dpPorts) : dpPorts'[i].fd = dpPorts[j].fd
      BY <2>3, <3>1 DEF DpFdsOf
    <3>3. \A j \in 1..Len(dpPorts) : dpPorts[j].fd \in Nat
      BY <1>1, DpPortIs DEF DpSorted
    <3> QED  BY <1>2, <2>4, <2>5, <3>2, <3>3
  <2> QED  BY <1>1, <1>2, <1>3, <1>5, <2>3, <2>5, <2>6, DpUnlocked
<1>8. \/ UNCHANGED <<dpPorts, dpFds>>
      \/ \E fd \in DpFdNums \ DpOpenFds :
           /\ ~DpHas(dpPorts, num)
           /\ dpPorts' = DpInserted(dpPorts, DpSearch(dpPorts, num), [num |-> num, fd |-> fd])
           /\ dpFds' = [set |-> dpFds.set \cup {fd}, max |-> IF fd > dpFds.max THEN fd ELSE dpFds.max]
  BY <1>4 DEF BmiAdd
<1> QED  BY <1>6, <1>7, <1>8

\* bmi_port_interface_remove asks the select thread.
LEMMA RemoveAskKeeps == ASSUME DpInv, NEW t \in DpThreads, BmiRemoveAsk(t) PROVE DpInv'
<1>1. /\ DpSorted(dpPorts) /\ DpOwnFds(dpPorts) /\ DpOpenFds = {DpCtlFd} \cup DpFdsOf(dpPorts)
  BY DpArray
<1>2. /\ dpWriter = "none" /\ dpByte = "none" /\ dpFds.set = DpOpenFds
      /\ dpFds \in [set : SUBSET DpFdNums, max : Nat] /\ DpCtlFd \notin dpReady
      /\ dpSel.pc = "select" => dpSel.fds \subseteq DpOpenFds
      /\ \A i \in 1..Len(dpPorts) : dpFds.max >= dpPorts[i].fd
      /\ \A u \in DpThreads : dpOp[u].pc # "wait"
      /\ dpOp[t].num \in DpNums /\ dpOp \in [DpThreads -> DpOps]
      /\ \A u \in DpThreads : dpOp[u].pc # "idle" => dpOp[u].num \in DpNums
  BY DpAssumption DEF BmiRemoveAsk, DpInv, DpRemovalInv, DpPortsInv, DpOps
<1>3. UNCHANGED <<dpPorts, dpReady, dpSel, dpCurr>>
  BY DEF BmiRemoveAsk
<1>4. CASE ~DpHas(dpPorts, dpOp[t].num)
  <2>1. dpOp' = [dpOp EXCEPT ![t] = DpIdle] /\ UNCHANGED <<dpFds, dpWriter, dpByte>>
    BY <1>4 DEF BmiRemoveAsk
  <2>2. /\ dpOp' \in [DpThreads -> DpOps]
        /\ \A u \in DpThreads : dpOp'[u].pc # "wait" /\ (dpOp'[u].pc # "idle" => dpOp'[u].num \in DpNums)
    BY <1>2, <2>1, DpBackIs
  <2> QED  BY <1>1, <1>2, <1>3, <2>1, <2>2, DpUnlocked
<1>5. CASE DpHas(dpPorts, dpOp[t].num)
  <2>1. PICK fd : fd = dpPorts[DpSearch(dpPorts, dpOp[t].num)].fd
    OBVIOUS
  <2>2. /\ dpFds' = [dpFds EXCEPT !.set = @ \ {fd}] /\ dpWriter' = t /\ dpByte' = "asked"
        /\ dpOp' = [dpOp EXCEPT ![t].pc = "wait"]
    BY <1>5, <2>1 DEF BmiRemoveAsk
  <2>3. PICK op : op = [dpOp[t] EXCEPT !.pc = "wait"]
    OBVIOUS
  <2>4. op \in DpOps /\ op.pc = "wait" /\ op.num = dpOp[t].num
    BY <1>2, <2>3 DEF DpOps
  <2>5. dpOp' = [dpOp EXCEPT ![t] = op]
    BY <2>2, <2>3
  <2>6. dpOp' \in [DpThreads -> DpOps] /\ \A u \in DpThreads : dpOp'[u] = IF u = t THEN op ELSE dpOp[u]
    BY <1>2, <2>4, <2>5
  <2>7. /\ dpFds' \in [set : SUBSET DpFdNums, max : Nat]
        /\ dpFds'.set = DpOpenFds \ {fd} /\ dpFds'.max = dpFds.max
    BY <1>2, <2>2
  <2>8. DpOpenFds' = DpOpenFds
    BY <1>3 DEF DpOpenFds
  <2>9. DpTypeOK'
    <3>1. \A i \in 1..Len(dpPorts) : dpPorts[i] \in [num : DpNums, fd : DpFdNums \ {DpCtlFd}]
      BY DEF DpInv, DpTypeOK
    <3>2. dpSel'.pc \in {"copy", "select", "dispatch"} /\ DOMAIN dpCurr' \subseteq DpNums
      BY <1>3 DEF DpInv, DpTypeOK
    <3>3. dpFds'.set \subseteq DpFdNums
      BY <2>7
    <3> QED  BY <1>3, <2>2, <3>1, <3>2, <3>3 DEF DpTypeOK
  <2>10. DpPortsInv'
    BY <1>3, <2>7 DEF DpInv, DpPortsInv
  <2>11. DpRemovalInv'
    <3>1. \A u \in DpThreads : dpOp'[u].pc = "wait" <=> dpWriter' = u
      BY <1>2, <2>2, <2>4, <2>6
    <3>2. dpWriter' # "none" /\ dpByte' # "none"
      BY <2>2, DpAssumption
    <3>3. \A u \in DpThreads : dpWriter' = u => DpHas(dpPorts', dpOp'[u].num)
            /\ dpFds'.set = DpOpenFds' \ {dpPorts'[DpSearch(dpPorts', dpOp'[u].num)].fd}
      BY <1>3, <1>5, <2>1, <2>2, <2>4, <2>6, <2>7, <2>8
    <3> QED  BY <3>1, <3>2, <3>3 DEF DpRemovalInv
  <2>12. dpWriter' # "none" /\ dpByte' # "answered"
    BY <2>2, DpAssumption
  <2>13. \A u \in DpThreads : dpOp'[u].pc # "idle" => dpOp'[u].num \in DpNums
    BY <1>2, <2>4, <2>6
  <2> QED
    BY <1>2, <1>3, <2>6, <2>7, <2>8, <2>9, <2>10, <2>11, <2>12, <2>13 DEF DpInv, DpOps
<1> QED  BY <1>4, <1>5

\* bmi_port_interface_remove, after the answer: the select thread is not in select.
LEMMA RemoveEndKeeps == ASSUME DpInv, NEW t \in DpThreads, BmiRemoveEnd(t) PROVE DpInv'
<1>1. /\ DpSorted(dpPorts) /\ DpOwnFds(dpPorts) /\ DpOpenFds = {DpCtlFd} \cup DpFdsOf(dpPorts)
  BY DpArray
<1>2. PICK num, i : num = dpOp[t].num /\ i = DpSearch(dpPorts, num)
  OBVIOUS
<1>3. /\ dpWriter = t /\ dpByte = "answered" /\ dpOp[t].pc = "wait" /\ num \in DpNums
      /\ DpHas(dpPorts, num) /\ dpFds.set = DpOpenFds \ {dpPorts[i].fd}
      /\ dpSel.pc # "select" /\ DpCtlFd \notin dpReady
      /\ dpFds \in [set : SUBSET DpFdNums, max : Nat]
      /\ \A j \in 1..Len(dpPorts) : dpFds.max >= dpPorts[j].fd
      /\ \A u \in DpThreads : u # t => dpOp[u].pc # "wait"
  BY <1>2 DEF BmiRemoveEnd, DpInv, DpRemovalInv, DpPortsInv
<1>4. /\ dpByte' = "none" /\ dpWriter' = "none" /\ dpPorts' = DpDeleted(dpPorts, i)
      /\ dpReady' = dpReady \ {dpPorts[i].fd} /\ dpOp' = [dpOp EXCEPT ![t] = DpIdle]
      /\ UNCHANGED <<dpFds, dpSel, dpCurr>>
  BY <1>2 DEF BmiRemoveEnd
<1>5. i \in 1..Len(dpPorts)
  <2>1. num \in Int
    BY <1>3, DpAssumption
  <2> QED  BY <1>1, <1>2, <1>3, <2>1, DpHasPlace
<1>6. DpSorted(dpPorts') /\ DpOwnFds(dpPorts') /\ DpFdsOf(dpPorts') = DpFdsOf(dpPorts) \ {dpPorts[i].fd}
  BY <1>1, <1>4, <1>5, DpDeletedIs
<1>7. dpPorts[i].fd # DpCtlFd
  BY <1>1, <1>5, DpPortIs DEF DpSorted
<1>8. dpFds'.set = {DpCtlFd} \cup DpFdsOf(dpPorts')
  BY <1>1, <1>3, <1>4, <1>6, <1>7
<1>9. ASSUME NEW j \in 1..Len(dpPorts') PROVE dpFds'.max >= dpPorts'[j].fd
  <2>1. dpPorts'[j].fd \in DpFdsOf(dpPorts)
    BY <1>6 DEF DpFdsOf
  <2> QED  BY <1>3, <1>4, <2>1 DEF DpFdsOf
<1>10. /\ dpOp' \in [DpThreads -> DpOps]
       /\ \A u \in DpThreads : dpOp'[u].pc # "wait" /\ (dpOp'[u].pc # "idle" => dpOp'[u].num \in DpNums)
  BY <1>3, <1>4, DpBackIs
<1> QED  BY <1>3, <1>4, <1>6, <1>8, <1>9, <1>10, DpUnlocked

\* DpInv is an invariant of the port manager, its select thread, the threads of the
\* runtime server and the monitor, for every number of ports and threads.
THEOREM PortsInvariant == DpSpec => []DpInv
<1>1. DpInv /\ [DpNext]_dpVars => DpInv'
  <2>1. SUFFICES ASSUME DpInv, [DpNext]_dpVars PROVE DpInv'
    OBVIOUS
  <2>2. CASE UNCHANGED dpVars
    <3>1. /\ dpOp \in [DpThreads -> DpOps] /\ DOMAIN dpCurr \subseteq DpNums /\ DpCtlFd \notin dpReady
          /\ \A u \in DpThreads : dpOp[u].pc # "idle" => dpOp[u].num \in DpNums
          /\ dpByte \in {"none", "asked", "answered"} /\ dpSel.pc \in {"copy", "select", "dispatch"}
          /\ dpSel.pc = "select" => dpSel.fds \subseteq DpOpenFds /\ dpByte # "answered"
      BY <2>1 DEF DpInv, DpTypeOK, DpOps
    <3> QED  BY <2>1, <2>2, <3>1, DpArrayStays DEF dpVars
  <2>3. CASE \E t \in DpThreads : DpThreadStep(t)
    BY <2>1, <2>3, DpCallKeeps, AddKeeps, RemoveAskKeeps, RemoveEndKeeps DEF DpThreadStep
  <2>4. CASE \E t \in DpThreads, num \in DpNums, evt \in {"ADDED", "REMOVED"} : DpCall(t, num, evt)
    BY <2>1, <2>4, DpCallKeeps
  <2> QED  BY <2>1, <2>2, <2>3, <2>4, SelectKeeps, OutsideKeeps DEF DpNext
<1> QED  BY <1>1, DpBegins, PTL DEF DpSpec

\* The select thread never waits on a descriptor that is closed, or closed and opened
\* again for another port; outside port_remove the set is that of the ports in the
\* array, where the binary search finds every one of them.
THEOREM PortsAreOpen == DpSpec => [](DpTypeOK /\ SelectsOnOpenPorts)
<1>1. DpInv => DpTypeOK /\ SelectsOnOpenPorts
  <2>1. SUFFICES ASSUME DpInv PROVE DpTypeOK /\ SelectsOnOpenPorts
    OBVIOUS
  <2>2. \A i \in 1..Len(dpPorts) : DpSearch(dpPorts, dpPorts[i].num) = i
    BY <2>1, DpArray, DpFinds
  <2> QED  BY <2>1, <2>2 DEF DpInv, DpPortsInv, SelectsOnOpenPorts
<1> QED  BY <1>1, PortsInvariant, PTL
=============================================================================
