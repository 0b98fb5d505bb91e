------------------------ MODULE SimpleSwitchProofs ------------------------
(***************************************************************************)
(* simple_switch keeps the unicast packets of every port in the order in   *)
(* which they were received, for every number of packets, ports and egress *)
(* threads and every capacity.  A packet moves through seven stages;       *)
(* PathInv says that the ids of a port's packets grow from the wire back   *)
(* through the stages, and each action moves one packet to the next stage. *)
(***************************************************************************)
EXTENDS SimpleSwitch, FiniteSetTheorems, TLAPS

-----------------------------------------------------------------------------
(* Queues.                                                                 *)

\* Taking the head of a queue.
LEMMA TailOfQueue ==
  ASSUME NEW S, NEW s \in Seq(S), s # <<>>
  PROVE  /\ Tail(s) \in Seq(S) /\ Len(Tail(s)) = Len(s) - 1 /\ Len(s) \in Nat /\ Len(s) >= 1
         /\ \A i \in DOMAIN Tail(s) : i + 1 \in DOMAIN s /\ Tail(s)[i] = s[i + 1]
         /\ Head(s) = s[1] /\ 1 \in DOMAIN s /\ Head(s) \in S
  OBVIOUS

\* Adding to the end of a queue.
LEMMA AppendToQueue ==
  ASSUME NEW S, NEW s \in Seq(S), NEW x \in S
  PROVE  /\ Append(s, x) \in Seq(S) /\ Len(Append(s, x)) = Len(s) + 1 /\ Len(s) \in Nat
         /\ \A i \in DOMAIN Append(s, x) :
              \/ i \in DOMAIN s /\ Append(s, x)[i] = s[i]
              \/ i = Len(s) + 1 /\ Append(s, x)[i] = x
         /\ \A i \in DOMAIN s : i < Len(s) + 1
  OBVIOUS

\* The straight packets of a queue whose head is taken.
LEMMA TailIds ==
  ASSUME NEW S, NEW s \in Seq(S), s # <<>>, NEW p, Increasing(s, p)
  PROVE  /\ Increasing(Tail(s), p) /\ StraightIds(Tail(s), p) \subseteq StraightIds(s, p)
         /\ Straight(Head(s)) /\ Head(s).port = p =>
              /\ Head(s).id \in StraightIds(s, p)
              /\ \A y \in StraightIds(Tail(s), p) : Head(s).id < y
<1>1. /\ \A i \in DOMAIN Tail(s) : i + 1 \in DOMAIN s /\ Tail(s)[i] = s[i + 1]
      /\ Head(s) = s[1] /\ 1 \in DOMAIN s
  BY TailOfQueue
<1>2. DOMAIN Tail(s) \subseteq Nat \ {0} /\ DOMAIN s \subseteq Nat \ {0}
  BY TailOfQueue
<1>3. Increasing(Tail(s), p)
  <2> SUFFICES ASSUME NEW i \in DOMAIN Tail(s), NEW j \in DOMAIN Tail(s), i < j,
                      Straight(Tail(s)[i]), Straight(Tail(s)[j]),
                      Tail(s)[i].port = p, Tail(s)[j].port = p
               PROVE  Tail(s)[i].id < Tail(s)[j].id
    BY DEF Increasing
  <2>1. i + 1 \in DOMAIN s /\ j + 1 \in DOMAIN s /\ i + 1 < j + 1
        /\ Tail(s)[i] = s[i + 1] /\ Tail(s)[j] = s[j + 1]
    BY <1>1, <1>2
  <2>2. QED
    BY <2>1 DEF Increasing
<1>4. StraightIds(Tail(s), p) \subseteq StraightIds(s, p)
  BY <1>1 DEF StraightIds
<1>5. ASSUME Straight(Head(s)), Head(s).port = p
      PROVE  /\ Head(s).id \in StraightIds(s, p)
             /\ \A y \in StraightIds(Tail(s), p) : Head(s).id < y
  <2>1. Head(s).id \in StraightIds(s, p)
    BY <1>1, <1>5 DEF StraightIds
  <2>2. ASSUME NEW y \in StraightIds(Tail(s), p) PROVE Head(s).id < y
    <3>1. PICK i \in DOMAIN Tail(s) : Straight(Tail(s)[i]) /\ Tail(s)[i].port = p
                                      /\ y = Tail(s)[i].id
      BY <2>2 DEF StraightIds
    <3>2. i + 1 \in DOMAIN s /\ Tail(s)[i] = s[i + 1] /\ 1 < i + 1
      BY <1>1, <1>2
    <3>3. QED
      BY <1>1, <1>5, <3>1, <3>2 DEF Increasing
  <2>3. QED
    BY <2>1, <2>2
<1>6. QED
  BY <1>3, <1>4, <1>5

\* The straight packets of a queue that a packet is added to.
LEMMA AppendIds ==
  ASSUME NEW S, NEW s \in Seq(S), NEW x \in S, NEW p, Increasing(s, p)
  PROVE  /\ StraightIds(Append(s, x), p) \subseteq StraightIds(s, p) \cup {x.id}
         /\ ~(Straight(x) /\ x.port = p) =>
              /\ Increasing(Append(s, x), p)
              /\ StraightIds(Append(s, x), p) \subseteq StraightIds(s, p)
         /\ (\A y \in StraightIds(s, p) : y < x.id) => Increasing(Append(s, x), p)
<1>1. /\ \A i \in DOMAIN Append(s, x) :
           \/ i \in DOMAIN s /\ Append(s, x)[i] = s[i]
           \/ i = Len(s) + 1 /\ Append(s, x)[i] = x
      /\ \A i \in DOMAIN s : i < Len(s) + 1
      /\ DOMAIN s \subseteq Nat /\ Len(s) \in Nat
  BY AppendToQueue
<1> DEFINE a == Append(s, x)
<1> HIDE DEF a
<1>2. StraightIds(a, p) \subseteq StraightIds(s, p) \cup {x.id}
  BY <1>1 DEF StraightIds, a
<1>3. ~(Straight(x) /\ x.port = p) => StraightIds(a, p) \subseteq StraightIds(s, p)
  BY <1>1 DEF StraightIds, a
<1>4. ASSUME ~(Straight(x) /\ x.port = p) \/ \A y \in StraightIds(s, p) : y < x.id
      PROVE  Increasing(a, p)
  <2> SUFFICES ASSUME NEW i \in DOMAIN a, NEW j \in DOMAIN a, i < j,
                      Straight(a[i]), Straight(a[j]), a[i].port = p, a[j].port = p
               PROVE  a[i].id < a[j].id
    BY DEF Increasing
  <2>1. i \in DOMAIN s /\ a[i] = s[i]
    BY <1>1 DEF a
  <2>2. CASE j \in DOMAIN s /\ a[j] = s[j]
    BY <2>1, <2>2 DEF Increasing
  <2>3. CASE a[j] = x
    <3>1. s[i].id \in StraightIds(s, p)
      BY <2>1 DEF StraightIds
    <3>2. QED
      BY <1>4, <2>1, <2>3, <3>1
  <2>4. QED
    BY <1>1, <2>2, <2>3 DEF a
<1>5. QED
  BY <1>2, <1>3, <1>4 DEF a

\* The calls that are left when a thread has made the first one.
LEMMA TailCalls ==
  ASSUME NEW S, NEW s \in Seq(S), s # <<>>, NEW t, CallsOK(t, s)
  PROVE  /\ CallsOK(t, Tail(s)) /\ CallOK(t, Head(s))
         /\ \A p : CallIds(Tail(s), p) \subseteq CallIds(s, p)
         /\ Straight(Head(s).pkt) =>
              /\ \A p : CallIds(Tail(s), p) = {}
              /\ Head(s).pkt.id \in CallIds(s, Head(s).pkt.port)
<1>1. /\ \A i \in DOMAIN Tail(s) : i + 1 \in DOMAIN s /\ Tail(s)[i] = s[i + 1]
      /\ Head(s) = s[1] /\ 1 \in DOMAIN s
  BY TailOfQueue
<1>2. DOMAIN Tail(s) \subseteq Nat \ {0} /\ DOMAIN s \subseteq Nat \ {0}
  BY TailOfQueue
<1>3. CallsOK(t, Tail(s)) /\ CallOK(t, Head(s))
  <2>1. \A i \in DOMAIN Tail(s) : CallOK(t, Tail(s)[i])
    BY <1>1 DEF CallsOK
  <2>2. ASSUME NEW i \in DOMAIN Tail(s), NEW j \in DOMAIN Tail(s),
               Straight(Tail(s)[i].pkt), Straight(Tail(s)[j].pkt)
        PROVE  i = j
    <3>1. i + 1 \in DOMAIN s /\ j + 1 \in DOMAIN s
          /\ Tail(s)[i] = s[i + 1] /\ Tail(s)[j] = s[j + 1]
      BY <1>1
    <3>2. i + 1 = j + 1
      BY <2>2, <3>1 DEF CallsOK
    <3>3. QED
      BY <1>2, <3>2
  <2>3. QED
    BY <1>1, <2>1, <2>2 DEF CallsOK
<1>4. ASSUME NEW p PROVE CallIds(Tail(s), p) \subseteq CallIds(s, p)
  BY <1>1 DEF CallIds
<1>5. ASSUME Straight(Head(s).pkt)
      PROVE  /\ \A p : CallIds(Tail(s), p) = {}
             /\ Head(s).pkt.id \in CallIds(s, Head(s).pkt.port)
  <2>1. \A i \in DOMAIN Tail(s) : ~Straight(Tail(s)[i].pkt)
    <3> SUFFICES ASSUME NEW i \in DOMAIN Tail(s), Straight(Tail(s)[i].pkt) PROVE FALSE
      OBVIOUS
    <3>1. i + 1 \in DOMAIN s /\ Straight(s[i + 1].pkt) /\ Straight(s[1].pkt)
      BY <1>1, <1>5
    <3>2. i + 1 = 1
      BY <1>1, <3>1 DEF CallsOK
    <3>3. QED
      BY <1>2, <3>2
  <2>2. QED
    BY <1>1, <1>5, <2>1 DEF CallIds
<1>6. QED
  BY <1>3, <1>4, <1>5

-----------------------------------------------------------------------------
(* What a thread does with a packet.                                       *)

CallSet == [op : {"enqueue", "input", "output"}, pkt : Packet]

\* Calls that enqueue copies only.
CopiesOnly(s) ==
  \A i \in DOMAIN s : s[i].op = "enqueue" /\ s[i].pkt.type # "NORMAL" /\ s[i].pkt.port \in Ports

\* Copies before other calls change nothing of what is said of straight packets.
LEMMA CopiesFirst ==
  ASSUME NEW a \in Seq(CallSet), NEW b \in Seq(CallSet), CopiesOnly(a), NEW t, CallsOK(t, b)
  PROVE  /\ a \o b \in Seq(CallSet) /\ CallsOK(t, a \o b)
         /\ \A p : CallIds(a \o b, p) \subseteq CallIds(b, p)
         /\ CopiesOnly(b) => CopiesOnly(a \o b)
<1> DEFINE c == a \o b
           m == Len(a)
<1>1. c \in Seq(CallSet) /\ m \in Nat
  OBVIOUS
<1>2. \A i \in DOMAIN c : \/ i \in DOMAIN a /\ c[i] = a[i]
                          \/ i - m \in DOMAIN b /\ c[i] = b[i - m]
  OBVIOUS
<1>3. DOMAIN c \subseteq Nat
  OBVIOUS
<1>4. \A i \in DOMAIN a : CallOK(t, a[i]) /\ ~Straight(a[i].pkt)
  BY DEF CopiesOnly, CallOK, Straight
<1> HIDE DEF c, m
<1>5. \A i \in DOMAIN c : Straight(c[i].pkt) => i - m \in DOMAIN b /\ c[i] = b[i - m]
  BY <1>2, <1>4
<1>6. CallsOK(t, c)
  <2>1. \A i \in DOMAIN c : CallOK(t, c[i])
    BY <1>2, <1>4 DEF CallsOK
  <2>2. ASSUME NEW i \in DOMAIN c, NEW j \in DOMAIN c, Straight(c[i].pkt), Straight(c[j].pkt)
        PROVE  i = j
    <3>1. i - m = j - m
      BY <1>5, <2>2 DEF CallsOK
    <3>2. QED
      BY <1>1, <1>3, <3>1
  <2>3. QED
    BY <2>1, <2>2 DEF CallsOK
<1>7. ASSUME NEW p PROVE CallIds(c, p) \subseteq CallIds(b, p)
  <2> SUFFICES ASSUME NEW i \in DOMAIN c, Straight(c[i].pkt), c[i].pkt.port = p
               PROVE  c[i].pkt.id \in CallIds(b, p)
    BY DEF CallIds
  <2>1. QED
    BY <1>5 DEF CallIds
<1>8. CopiesOnly(b) => CopiesOnly(c)
  BY <1>2 DEF CopiesOnly
<1>9. QED
  BY <1>1, <1>6, <1>7, <1>8 DEF c

\* multicast makes copies.
LEMMA MulticastCopies ==
  ASSUME NEW pkt \in Packet, pkt.type # "NORMAL"
  PROVE  Multicast(pkt) \in Seq(CallSet) /\ CopiesOnly(Multicast(pkt))
<1>1. McastPorts \in Seq(Ports) /\ Len(McastPorts) \in Nat /\ DOMAIN McastPorts = 1..Len(McastPorts)
  BY SwitchAssumption
<1>2. \A i \in DOMAIN McastPorts : McastPorts[i] \in Ports
  BY <1>1
<1>3. ASSUME NEW i \in DOMAIN McastPorts
      PROVE  /\ Call("enqueue", [pkt EXCEPT !.port = McastPorts[i]]) \in CallSet
             /\ Call("enqueue", [pkt EXCEPT !.port = McastPorts[i]]).op = "enqueue"
             /\ Call("enqueue", [pkt EXCEPT !.port = McastPorts[i]]).pkt.type # "NORMAL"
             /\ Call("enqueue", [pkt EXCEPT !.port = McastPorts[i]]).pkt.port \in Ports
  BY <1>2 DEF Packet, Call, CallSet
<1>4. Multicast(pkt) \in [1..Len(McastPorts) -> CallSet]
  BY <1>1, <1>3 DEF Multicast
<1>5. QED
  BY <1>1, <1>3, <1>4 DEF Multicast, CopiesOnly

\* No calls at all.
LEMMA NoCalls == <<>> \in Seq(CallSet) /\ CopiesOnly(<<>>)
  BY DEF CopiesOnly

\* A single call that is one of a copy.
LEMMA OneCopy ==
  ASSUME NEW pkt \in Packet, pkt.type # "NORMAL", NEW p \in Ports
  PROVE  /\ <<Call("enqueue", [pkt EXCEPT !.port = p])>> \in Seq(CallSet)
         /\ CopiesOnly(<<Call("enqueue", [pkt EXCEPT !.port = p])>>)
<1>1. [pkt EXCEPT !.port = p] \in Packet /\ [pkt EXCEPT !.port = p].type = pkt.type
      /\ [pkt EXCEPT !.port = p].port = p
  BY DEF Packet
<1> DEFINE call == Call("enqueue", [pkt EXCEPT !.port = p])
<1>2. call \in CallSet /\ call.op = "enqueue" /\ call.pkt.type # "NORMAL" /\ call.pkt.port \in Ports
  BY <1>1 DEF CallSet, Call
<1> HIDE DEF call
<1>3. <<call>> \in Seq(CallSet) /\ DOMAIN <<call>> = {1} /\ <<call>>[1] = call
  BY <1>2
<1>4. CopiesOnly(<<call>>)
  BY <1>2, <1>3 DEF CopiesOnly
<1>5. QED
  BY <1>3, <1>4 DEF call

\* Copies only is fine for every thread.
LEMMA CopiesAreOK ==
  ASSUME NEW t, NEW s \in Seq(CallSet), CopiesOnly(s)
  PROVE  CallsOK(t, s) /\ \A p : CallIds(s, p) = {}
<1>1. \A i \in DOMAIN s : CallOK(t, s[i]) /\ ~Straight(s[i].pkt)
  BY DEF CopiesOnly, CallOK, Straight
<1>2. QED
  BY <1>1 DEF CallsOK, CallIds

\* Cloning makes copies, whatever the session.
LEMMA CloneCopies ==
  ASSUME NEW pkt \in Packet, pkt.type # "NORMAL", session \in Sessions \cup {NoSession}
  PROVE  Clone(pkt) \in Seq(CallSet) /\ CopiesOnly(Clone(pkt))
<1> DEFINE a == IF session.mgid_valid THEN Multicast(pkt) ELSE <<>>
           b == IF session.egress_port = NoPort THEN <<>>
                ELSE <<Call("enqueue", [pkt EXCEPT !.port = session.egress_port])>>
<1>1. session.egress_port \in Ports \cup {NoPort}
  BY SwitchAssumption DEF NoSession
<1>2. <<>> \in Seq(CallSet) /\ CopiesOnly(<<>>)
  BY NoCalls
<1>3. a \in Seq(CallSet) /\ CopiesOnly(a)
  BY <1>2, MulticastCopies
<1>4. b \in Seq(CallSet) /\ CopiesOnly(b)
  BY <1>1, <1>2, OneCopy
<1>5. Clone(pkt) = a \o b
  BY DEF Clone
<1> HIDE DEF a, b
<1>6. QED
  BY <1>3, <1>4, <1>5, CopiesAreOK, CopiesFirst

\* A thread with a single call.
LEMMA OneCall ==
  ASSUME NEW t, NEW call \in CallSet, CallOK(t, call)
  PROVE  /\ <<call>> \in Seq(CallSet) /\ CallsOK(t, <<call>>)
         /\ \A p : CallIds(<<call>>, p)
                     = IF Straight(call.pkt) /\ call.pkt.port = p THEN {call.pkt.id} ELSE {}
<1>1. <<call>> \in Seq(CallSet) /\ DOMAIN <<call>> = {1} /\ <<call>>[1] = call
  OBVIOUS
<1>2. CallsOK(t, <<call>>)
  BY <1>1 DEF CallsOK
<1>3. QED
  BY <1>1, <1>2 DEF CallIds

\* The ingress thread: at most the packet itself stays straight.
LEMMA IngressCallsOK ==
  ASSUME SwTypeOK, NEW pkt \in Packet, NEW calls \in IngressCalls(pkt)
  PROVE  /\ calls \in Seq(CallSet) /\ CallsOK(Ingress, calls)
         /\ \A p : CallIds(calls, p) \subseteq {pkt.id}
         /\ pkt.again => \A p : CallIds(calls, p) = {}
<1> DEFINE cl == [pkt EXCEPT !.type = "INGRESS_CLONE"]
           re == Call("input", [pkt EXCEPT !.type = "RESUBMIT", !.again = TRUE])
           mc == Multicast([pkt EXCEPT !.type = "REPLICATION"])
           un(p) == Call("enqueue", [pkt EXCEPT !.type = "NORMAL", !.port = p])
           clones == {<<>>, Clone(cl)}
<1>c. calls \in Then(clones, IngressMains(pkt))
  BY DEF IngressCalls
<1> HIDE DEF clones
<1>d. PICK c \in clones : \E m \in IngressMains(pkt) : calls = c \o m
  BY <1>c DEF Then
<1>1. PICK m \in IngressMains(pkt) : calls = c \o m
  BY <1>d
<1>a. pkt \in [id : 1..NbPkts, type : Types, port : Ports \cup {NoPort}, again : BOOLEAN]
  BY DEF Packet
<1>b. {"NORMAL", "INGRESS_CLONE", "RECIRC", "REPLICATION", "RESUBMIT"} \subseteq Types
  BY DEF Types
<1>0. <<>> \in Seq(CallSet) /\ CopiesOnly(<<>>)
  BY NoCalls
<1>2. c \in Seq(CallSet) /\ CopiesOnly(c)
  <2>1. cl \in Packet /\ cl.type # "NORMAL"
    BY <1>a, <1>b DEF Packet
  <2>2. session \in Sessions \cup {NoSession}
    BY DEF SwTypeOK
  <2> HIDE DEF cl
  <2>3. QED
    BY <1>0, <1>d, <2>1, <2>2, CloneCopies DEF clones
<1> DEFINE Good == /\ m \in Seq(CallSet) /\ CallsOK(Ingress, m)
                   /\ \A p : CallIds(m, p) \subseteq {pkt.id}
                   /\ pkt.again => \A p : CallIds(m, p) = {}
<1>3. ASSUME m = <<re>> PROVE Good
  <2>1. re \in CallSet /\ re.op = "input" /\ re.pkt.type = "RESUBMIT" /\ re.pkt.again = TRUE
    BY <1>a, <1>b DEF CallSet, Call, Packet
  <2> HIDE DEF re
  <2>2. CallOK(Ingress, re) /\ ~Straight(re.pkt)
    BY <2>1 DEF CallOK, Straight
  <2>3. QED
    BY <1>3, <2>1, <2>2, OneCall
<1>4. ASSUME m = mc PROVE Good
  <2>1. [pkt EXCEPT !.type = "REPLICATION"] \in Packet
        /\ [pkt EXCEPT !.type = "REPLICATION"].type # "NORMAL"
    BY <1>a, <1>b DEF Packet
  <2>2. m \in Seq(CallSet) /\ CopiesOnly(m)
    BY <1>4, <2>1, MulticastCopies
  <2>3. QED
    BY <2>2, CopiesAreOK
<1>5. ASSUME m = <<>> PROVE Good
  BY <1>0, <1>5, CopiesAreOK
<1>6. ASSUME \E q \in Ports : m = <<un(q)>> PROVE Good
  <2>1. PICK q \in Ports : m = <<un(q)>>
    BY <1>6
  <2>2. /\ un(q) \in CallSet /\ un(q).op = "enqueue" /\ un(q).pkt.port = q
        /\ un(q).pkt.id = pkt.id
    BY <1>a, <1>b DEF CallSet, Call, Packet
  <2>3. un(q).pkt.again = pkt.again
    BY <1>a DEF Call
  <2>4. CallOK(Ingress, un(q)) /\ (pkt.again => ~Straight(un(q).pkt))
    BY <2>2, <2>3 DEF CallOK, Straight
  <2> HIDE DEF un
  <2>5. QED
    BY <2>1, <2>2, <2>4, OneCall
<1>7. Good
  BY <1>1, <1>3, <1>4, <1>5, <1>6 DEF IngressMains
<1> HIDE DEF cl, re, mc, un
<1>8. QED
  <2>1. calls \in Seq(CallSet) /\ CallsOK(Ingress, calls)
        /\ \A p : CallIds(calls, p) \subseteq CallIds(m, p)
    BY <1>1, <1>2, <1>7, CopiesFirst
  <2>2. QED
    BY <1>7, <2>1

\* The egress thread: at most the packet itself stays straight.
LEMMA EgressCallsOK ==
  ASSUME SwTypeOK, NEW w \in SwWorkers, NEW pkt \in Packet, pkt.port \in Ports,
         EgressThreadMapper(pkt.port) = w, NEW calls \in EgressCalls(pkt)
  PROVE  /\ calls \in Seq(CallSet) /\ CallsOK(w, calls)
         /\ \A p : CallIds(calls, p)
                     \subseteq IF Straight(pkt) /\ pkt.port = p THEN {pkt.id} ELSE {}
<1> DEFINE cl == [pkt EXCEPT !.type = "EGRESS_CLONE"]
           re == Call("input", [pkt EXCEPT !.type = "RECIRC", !.again = TRUE])
           ou == Call("output", pkt)
           clones == {<<>>, Clone(cl)}
<1>c. calls \in Then(clones, EgressMains(pkt))
  BY DEF EgressCalls
<1> HIDE DEF clones
<1>d. PICK c \in clones : \E m \in EgressMains(pkt) : calls = c \o m
  BY <1>c DEF Then
<1>1. PICK m \in EgressMains(pkt) : calls = c \o m
  BY <1>d
<1>a. pkt \in [id : 1..NbPkts, type : Types, port : Ports \cup {NoPort}, again : BOOLEAN]
  BY DEF Packet
<1>b. {"EGRESS_CLONE", "RECIRC"} \subseteq Types /\ w # Ingress
  BY SwitchAssumption DEF Types, Ingress, SwWorkers
<1>0. <<>> \in Seq(CallSet) /\ CopiesOnly(<<>>)
  BY NoCalls
<1>2. c \in Seq(CallSet) /\ CopiesOnly(c)
  <2>1. cl \in Packet /\ cl.type # "NORMAL"
    BY <1>a, <1>b DEF Packet
  <2>2. session \in Sessions \cup {NoSession}
    BY DEF SwTypeOK
  <2> HIDE DEF cl
  <2>3. QED
    BY <1>0, <1>d, <2>1, <2>2, CloneCopies DEF clones
<1> DEFINE Good == /\ m \in Seq(CallSet) /\ CallsOK(w, m)
                   /\ \A p : CallIds(m, p)
                        \subseteq IF Straight(pkt) /\ pkt.port = p THEN {pkt.id} ELSE {}
<1>3. ASSUME m = <<re>> PROVE Good
  <2>1. re \in CallSet /\ re.op = "input" /\ re.pkt.type = "RECIRC" /\ re.pkt.again = TRUE
    BY <1>a, <1>b DEF CallSet, Call, Packet
  <2> HIDE DEF re
  <2>2. CallOK(w, re) /\ ~Straight(re.pkt)
    BY <2>1 DEF CallOK, Straight
  <2>3. QED
    BY <1>3, <2>1, <2>2, OneCall
<1>4. ASSUME m = <<ou>> PROVE Good
  <2>1. ou \in CallSet /\ ou.op = "output" /\ ou.pkt = pkt
    BY DEF CallSet, Call
  <2> HIDE DEF ou
  <2>2. CallOK(w, ou)
    BY <1>b, <2>1 DEF CallOK
  <2>3. QED
    BY <1>4, <2>1, <2>2, OneCall
<1>5. ASSUME m = <<>> PROVE Good
  BY <1>0, <1>5, CopiesAreOK
<1>6. Good
  BY <1>1, <1>3, <1>4, <1>5 DEF EgressMains
<1> HIDE DEF cl, re, ou
<1>7. QED
  <2>1. calls \in Seq(CallSet) /\ CallsOK(w, calls)
        /\ \A p : CallIds(calls, p) \subseteq CallIds(m, p)
    BY <1>1, <1>2, <1>6, CopiesFirst
  <2>2. QED
    BY <1>6, <2>1

\* The number of copies is a number.
LEMMA NewCopiesNat ==
  ASSUME NEW calls \in Seq(CallSet)
  PROVE  NewCopies(calls) \in Nat
<1> DEFINE U == {i \in DOMAIN calls :
                  \/ calls[i].op = "input"
                  \/ calls[i].op = "enqueue" /\ calls[i].pkt.type # "NORMAL"}
<1>1. U \subseteq 1..Len(calls) /\ Len(calls) \in Int /\ 1 \in Int
  OBVIOUS
<1>2. IsFiniteSet(1..Len(calls))
  BY <1>1, FS_Interval
<1> HIDE DEF U
<1>3. Cardinality(U) \in Nat
  BY <1>1, <1>2, FS_Subset, FS_CardinalityType
<1>4. QED
  BY <1>3 DEF NewCopies, U

-----------------------------------------------------------------------------
(* The stages.                                                             *)

\* PortInOrder of given queues, so that it can be said of the next state too.
Ordered(p, rcv, lo, ing, man, egr, eth, out, snt) ==
  /\ Increasing(lo, NoPort) /\ Increasing(man, p) /\ Increasing(egr, p) /\ Increasing(out, p)
  /\ StagesInOrder({snt[i] : i \in DOMAIN snt}, StraightIds(out, p), CallIds(eth, p),
                   StraightIds(egr, p), StraightIds(man, p), CallIds(ing, p),
                   StraightIds(lo, NoPort), rcv)

\* PortInOrder as a predicate of the values it depends on.
LEMMA PortOrdered ==
  ASSUME NEW p
  PROVE  /\ PortInOrder(p) <=>
              Ordered(p, received, queue_lo, todo[Ingress], tm[EgressThreadMapper(p)],
                      egress_buffers[p], todo[EgressThreadMapper(p)], output_buffer, sent[p])
         /\ PortInOrder(p)' <=>
              Ordered(p, received', queue_lo', todo'[Ingress], tm'[EgressThreadMapper(p)],
                      egress_buffers'[p], todo'[EgressThreadMapper(p)], output_buffer', sent'[p])
  BY DEF PortInOrder, Ordered, EgressThreadMapper

\* A packet x moves from stage b to stage a.
Moves(x, a, a2, b, b2) ==
  x \in b /\ a2 \subseteq a \cup {x} /\ b2 \subseteq b /\ \A y \in b2 : x < y

\* No packet moves, or x moves on by one of the seven stages; packets may be lost.
StageStep(x, o, b, e, g, m, i, l, o2, b2, e2, g2, m2, i2, l2) ==
  \/ /\ o2 \subseteq o /\ b2 \subseteq b /\ e2 \subseteq e /\ g2 \subseteq g /\ m2 \subseteq m
     /\ i2 \subseteq i /\ l2 \subseteq l
  \/ /\ Moves(x, o, o2, b, b2) /\ e2 \subseteq e /\ g2 \subseteq g /\ m2 \subseteq m
     /\ i2 \subseteq i /\ l2 \subseteq l
  \/ /\ Moves(x, b, b2, e, e2) /\ o2 \subseteq o /\ g2 \subseteq g /\ m2 \subseteq m
     /\ i2 \subseteq i /\ l2 \subseteq l
  \/ /\ Moves(x, e, e2, g, g2) /\ o2 \subseteq o /\ b2 \subseteq b /\ m2 \subseteq m
     /\ i2 \subseteq i /\ l2 \subseteq l
  \/ /\ Moves(x, g, g2, m, m2) /\ o2 \subseteq o /\ b2 \subseteq b /\ e2 \subseteq e
     /\ i2 \subseteq i /\ l2 \subseteq l
  \/ /\ Moves(x, m, m2, i, i2) /\ o2 \subseteq o /\ b2 \subseteq b /\ e2 \subseteq e
     /\ g2 \subseteq g /\ l2 \subseteq l
  \/ /\ Moves(x, i, i2, l, l2) /\ o2 \subseteq o /\ b2 \subseteq b /\ e2 \subseteq e
     /\ g2 \subseteq g /\ m2 \subseteq m

\* Such a step keeps the stages in order.
LEMMA StageMoves ==
  ASSUME NEW x, NEW o, NEW b, NEW e, NEW g, NEW m, NEW i, NEW l, NEW n \in Nat,
         NEW o2, NEW b2, NEW e2, NEW g2, NEW m2, NEW i2, NEW l2,
         StagesInOrder(o, b, e, g, m, i, l, n),
         StageStep(x, o, b, e, g, m, i, l, o2, b2, e2, g2, m2, i2, l2)
  PROVE  StagesInOrder(o2, b2, e2, g2, m2, i2, l2, n)
  BY DEF StagesInOrder, Before, StageStep, Moves

\* A new packet enters behind all others.
LEMMA StageEnters ==
  ASSUME NEW o, NEW b, NEW e, NEW g, NEW m, NEW i, NEW l, NEW n \in Nat,
         StagesInOrder(o, b, e, g, m, i, l, n), NEW l2, l2 \subseteq l \cup {n + 1}
  PROVE  StagesInOrder(o, b, e, g, m, i, l2, n + 1)
  BY DEF StagesInOrder, Before

\* The worker of a port.
LEMMA MapperWorker ==
  ASSUME NEW p \in Ports
  PROVE  EgressThreadMapper(p) \in SwWorkers
<1>1. p \in Nat /\ NbEgress \in Nat \ {0}
  BY SwitchAssumption
<1>2. p % NbEgress \in 0..NbEgress - 1
  BY <1>1
<1>3. QED
  BY <1>2 DEF EgressThreadMapper, SwWorkers

-----------------------------------------------------------------------------
(* The steps.                                                              *)

\* The ids of a sequence of ids.
SentIds(snt) == {snt[i] : i \in DOMAIN snt}

\* What a step makes of the stages of port p, whose worker is w.
PortStep(x, p, w) ==
  StageStep(x, SentIds(sent[p]), StraightIds(output_buffer, p), CallIds(todo[w], p),
            StraightIds(egress_buffers[p], p), StraightIds(tm[w], p),
            CallIds(todo[Ingress], p), StraightIds(queue_lo, NoPort),
            SentIds(sent'[p]), StraightIds(output_buffer', p), CallIds(todo'[w], p),
            StraightIds(egress_buffers'[p], p), StraightIds(tm'[w], p),
            CallIds(todo'[Ingress], p), StraightIds(queue_lo', NoPort))

\* The threads are the ingress thread and the egress threads.
LEMMA ThreadFacts ==
  /\ SwWorkers \subseteq Threads /\ Ingress \in Threads /\ Ingress \notin SwWorkers
  /\ \A t \in Threads : t = Ingress \/ t \in SwWorkers
  BY SwitchAssumption DEF SwWorkers, Threads, Ingress

\* A packet of port p that moves on, or none, keeps the port in order.
LEMMA PortKeeps ==
  ASSUME PathInv, NEW p \in Ports, NEW w, w = EgressThreadMapper(p), NEW x,
         received' = received,
         Increasing(queue_lo', NoPort), Increasing(tm'[w], p),
         Increasing(egress_buffers'[p], p), Increasing(output_buffer', p),
         PortStep(x, p, w)
  PROVE  PortInOrder(p)'
<1>1. Ordered(p, received, queue_lo, todo[Ingress], tm[w], egress_buffers[p], todo[w],
              output_buffer, sent[p])
  BY PortOrdered DEF PathInv
<1>2. received \in Nat
  BY SwitchAssumption DEF PathInv, SwTypeOK
<1>3. Ordered(p, received', queue_lo', todo'[Ingress], tm'[w], egress_buffers'[p], todo'[w],
              output_buffer', sent'[p])
  <2>1. StagesInOrder(SentIds(sent[p]), StraightIds(output_buffer, p), CallIds(todo[w], p),
            StraightIds(egress_buffers[p], p), StraightIds(tm[w], p),
            CallIds(todo[Ingress], p), StraightIds(queue_lo, NoPort), received)
    BY <1>1 DEF Ordered, SentIds
  <2>2. StagesInOrder(SentIds(sent'[p]), StraightIds(output_buffer', p), CallIds(todo'[w], p),
            StraightIds(egress_buffers'[p], p), StraightIds(tm'[w], p),
            CallIds(todo'[Ingress], p), StraightIds(queue_lo', NoPort), received)
    BY <1>2, <2>1, StageMoves DEF PortStep
  <2>3. QED
    BY <2>2 DEF Ordered, SentIds
<1>4. QED
  BY <1>3, PortOrdered

\* What PathInv says of the stages of port p.
LEMMA OldOrder ==
  ASSUME PathInv, NEW p \in Ports, NEW w, w = EgressThreadMapper(p)
  PROVE  /\ w \in SwWorkers /\ w # Ingress /\ w \in Threads
         /\ Increasing(queue_lo, NoPort) /\ Increasing(tm[w], p)
         /\ Increasing(egress_buffers[p], p) /\ Increasing(output_buffer, p)
         /\ Before(StraightIds(tm[w], p), CallIds(todo[Ingress], p))
         /\ Before(StraightIds(egress_buffers[p], p), StraightIds(tm[w], p))
         /\ Before(StraightIds(output_buffer, p), CallIds(todo[w], p))
         /\ Before(SentIds(sent[p]), StraightIds(output_buffer, p))
         /\ StraightIds(queue_lo, NoPort) \subseteq 1..received
<1>1. w \in SwWorkers /\ w # Ingress /\ w \in Threads
  BY MapperWorker, ThreadFacts
<1>2. Ordered(p, received, queue_lo, todo[Ingress], tm[w], egress_buffers[p], todo[w],
              output_buffer, sent[p])
  BY PortOrdered DEF PathInv
<1>3. StagesInOrder(SentIds(sent[p]), StraightIds(output_buffer, p), CallIds(todo[w], p),
            StraightIds(egress_buffers[p], p), StraightIds(tm[w], p),
            CallIds(todo[Ingress], p), StraightIds(queue_lo, NoPort), received)
  BY <1>2 DEF Ordered, SentIds
<1>4. QED
  BY <1>1, <1>2, <1>3 DEF Ordered, StagesInOrder, Before

\* Steps that change no queue and no call.
LEMMA NothingMoves ==
  ASSUME PathInv, SwTypeOK',
         UNCHANGED <<received, inVars, todo, tm, egress_buffers, output_buffer, sent>>
  PROVE  PathInv'
<1>1. QueuesRouted' /\ CallsRouted' /\ InOrder'
  BY DEF PathInv, QueuesRouted, CallsRouted, InOrder, inVars
<1>2. ASSUME NEW p \in Ports PROVE PortInOrder(p)'
  BY PortOrdered DEF PathInv, inVars
<1>3. QED
  BY <1>1, <1>2 DEF PathInv

\* A received packet.
LEMMA ReceiveKeeps ==
  ASSUME PathInv, Receive
  PROVE  PathInv'
<1> DEFINE x == [id |-> received + 1, type |-> "NORMAL", port |-> NoPort, again |-> FALSE]
<1>0. SwTypeOK /\ QueuesRouted /\ CallsRouted /\ InOrder /\ \A p \in Ports : PortInOrder(p)
  BY DEF PathInv
<1>1. /\ received < NbPkts /\ Len(queue_lo) < CapLo /\ received' = received + 1
      /\ queue_lo' = Append(queue_lo, x)
      /\ UNCHANGED <<queue_hi, todo, exited, tm, egress_buffers, output_buffer,
                     transmit_exited, sent, session, copies, down>>
  BY DEF Receive, PushLo, outVars
<1>2. received \in Nat /\ NbPkts \in Nat /\ CapLo \in Nat
  BY <1>0, SwitchAssumption DEF SwTypeOK
<1>3. x \in Packet /\ Straight(x) /\ x.port = NoPort /\ x.id = received + 1
  BY <1>1, <1>2 DEF Packet, Types, Straight
<1> HIDE DEF x
<1>4. queue_lo \in Seq(Packet)
  BY <1>0 DEF SwTypeOK
<1>5. queue_lo' \in Seq(Packet) /\ Len(queue_lo') <= CapLo
      /\ \A i \in DOMAIN queue_lo' : (i \in DOMAIN queue_lo /\ queue_lo'[i] = queue_lo[i])
                                     \/ queue_lo'[i] = x
  BY <1>1, <1>2, <1>3, <1>4, AppendToQueue
<1>6. SwTypeOK'
  <2>1. received' \in 0..NbPkts
    BY <1>1, <1>2
  <2>2. QED
    BY <1>0, <1>1, <1>5, <2>1 DEF SwTypeOK
<1>7. QueuesRouted'
  BY <1>0, <1>1, <1>3, <1>5 DEF QueuesRouted
<1>8. CallsRouted' /\ InOrder'
  BY <1>0, <1>1 DEF CallsRouted, InOrder
<1>9. ASSUME NEW p \in Ports PROVE PortInOrder(p)'
  <2> DEFINE w == EgressThreadMapper(p)
  <2>1. Ordered(p, received, queue_lo, todo[Ingress], tm[w], egress_buffers[p], todo[w],
                output_buffer, sent[p])
    BY <1>0, PortOrdered
  <2>2. \A y \in StraightIds(queue_lo, NoPort) : y < x.id
    BY <1>2, <1>3, OldOrder
  <2>3. Increasing(queue_lo', NoPort)
        /\ StraightIds(queue_lo', NoPort) \subseteq StraightIds(queue_lo, NoPort) \cup {received + 1}
    BY <1>1, <1>3, <1>4, <2>1, <2>2, AppendIds DEF Ordered
  <2>4. Ordered(p, received', queue_lo', todo[Ingress], tm[w], egress_buffers[p], todo[w],
                output_buffer, sent[p])
    BY <1>1, <1>2, <2>1, <2>3, StageEnters DEF Ordered
  <2>5. QED
    BY <1>1, <2>4, PortOrdered
<1>10. QED
  BY <1>6, <1>7, <1>8, <1>9 DEF PathInv

\* A thread t that has taken packet pkt gets the calls for it.
LEMMA NewCalls ==
  ASSUME PathInv, NEW t \in Threads, NEW calls \in Seq(CallSet), CallsOK(t, calls),
         todo[t] = <<>>, todo' = [todo EXCEPT ![t] = calls]
  PROVE  /\ todo' \in [Threads -> Seq(CallSet)] /\ CallsRouted'
         /\ todo'[t] = calls /\ \A u \in Threads : u # t => todo'[u] = todo[u]
<1>1. todo \in [Threads -> Seq(CallSet)] /\ CallsRouted
  BY DEF PathInv, SwTypeOK, CallSet
<1>2. /\ todo' \in [Threads -> Seq(CallSet)]
      /\ todo'[t] = calls /\ \A u \in Threads : u # t => todo'[u] = todo[u]
  BY <1>1
<1>3. QED
  BY <1>1, <1>2 DEF CallsRouted

\* A thread t that has made its first call.
LEMMA CallMade ==
  ASSUME PathInv, NEW t \in Threads, todo[t] # <<>>, todo' = [todo EXCEPT ![t] = Tail(@)]
  PROVE  /\ todo' \in [Threads -> Seq(CallSet)] /\ CallsRouted'
         /\ Head(todo[t]) \in CallSet /\ CallOK(t, Head(todo[t]))
         /\ \A u \in Threads : u # t => todo'[u] = todo[u]
         /\ \A u \in Threads : \A p : CallIds(todo'[u], p) \subseteq CallIds(todo[u], p)
         /\ Straight(Head(todo[t]).pkt) =>
              /\ \A p : CallIds(todo'[t], p) = {}
              /\ Head(todo[t]).pkt.id \in CallIds(todo[t], Head(todo[t]).pkt.port)
<1>1. todo \in [Threads -> Seq(CallSet)] /\ CallsRouted
  BY DEF PathInv, SwTypeOK, CallSet
<1>2. todo[t] \in Seq(CallSet) /\ CallsOK(t, todo[t])
  BY <1>1 DEF CallsRouted
<1>3. Tail(todo[t]) \in Seq(CallSet) /\ Head(todo[t]) \in CallSet
  BY <1>2, TailOfQueue
<1>4. todo'[t] = Tail(todo[t]) /\ \A u \in Threads : u # t => todo'[u] = todo[u]
  BY <1>1
<1>5. todo' \in [Threads -> Seq(CallSet)]
  BY <1>1, <1>3
<1> DEFINE s == todo[t]
<1> HIDE DEF s
<1>6. /\ CallsOK(t, Tail(s)) /\ CallOK(t, Head(s))
      /\ \A p : CallIds(Tail(s), p) \subseteq CallIds(s, p)
      /\ Straight(Head(s).pkt) =>
           /\ \A p : CallIds(Tail(s), p) = {}
           /\ Head(s).pkt.id \in CallIds(s, Head(s).pkt.port)
  BY <1>2, TailCalls DEF s
<1>7. CallsRouted'
  BY <1>1, <1>4, <1>6 DEF CallsRouted, s
<1>8. QED
  BY <1>3, <1>4, <1>5, <1>6, <1>7 DEF s

\* The ingress thread takes a packet: a straight one comes from queue_lo only.
LEMMA IngressPopKeeps ==
  ASSUME PathInv, IngressPop
  PROVE  PathInv'
<1>0. SwTypeOK /\ QueuesRouted /\ CallsRouted /\ InOrder /\ \A p \in Ports : PortInOrder(p)
  BY DEF PathInv
<1> DEFINE hi == queue_hi # <<>>
           pkt == IF hi THEN Head(queue_hi) ELSE Head(queue_lo)
<1>1. /\ todo[Ingress] = <<>> /\ (hi \/ queue_lo # <<>>)
      /\ queue_hi' = (IF hi THEN Tail(queue_hi) ELSE queue_hi)
      /\ queue_lo' = (IF hi THEN queue_lo ELSE Tail(queue_lo))
      /\ UNCHANGED <<received, tm, egress_buffers, output_buffer, transmit_exited, sent,
                     session, down>>
      /\ \/ pkt = Sentinel /\ exited' = exited \cup {Ingress} /\ UNCHANGED <<todo, copies>>
         \/ pkt # Sentinel /\ Handle(Ingress, IngressCalls(pkt)) /\ exited' = exited
  BY DEF IngressPop, outVars
<1>2. queue_hi \in Seq(Packet \cup {Sentinel}) /\ queue_lo \in Seq(Packet)
      /\ Len(queue_hi) <= CapHi /\ Len(queue_lo) <= CapLo /\ CapHi \in Nat /\ CapLo \in Nat
  BY <1>0, SwitchAssumption DEF SwTypeOK
<1>3. /\ queue_hi' \in Seq(Packet \cup {Sentinel}) /\ Len(queue_hi') <= CapHi
      /\ \A i \in DOMAIN queue_hi' : \E j \in DOMAIN queue_hi : queue_hi'[i] = queue_hi[j]
  <2>1. CASE hi
    BY <1>1, <1>2, <2>1, TailOfQueue
  <2>2. CASE ~hi
    BY <1>1, <1>2, <2>2
  <2>3. QED
    BY <2>1, <2>2
<1>4. /\ queue_lo' \in Seq(Packet) /\ Len(queue_lo') <= CapLo
      /\ \A i \in DOMAIN queue_lo' : \E j \in DOMAIN queue_lo : queue_lo'[i] = queue_lo[j]
  <2>1. CASE ~hi
    BY <1>1, <1>2, <2>1, TailOfQueue
  <2>2. CASE hi
    BY <1>1, <1>2, <2>2
  <2>3. QED
    BY <2>1, <2>2
<1>5. QueuesRouted'
  BY <1>0, <1>1, <1>3, <1>4 DEF QueuesRouted
<1>6. /\ hi => pkt \in Packet \cup {Sentinel} /\ (pkt = Sentinel \/ pkt.again)
      /\ ~hi => pkt \in Packet /\ Straight(pkt) /\ pkt.port = NoPort
  BY <1>0, <1>1, <1>2, TailOfQueue DEF QueuesRouted
<1>7. InOrder'
  BY <1>0, <1>1 DEF InOrder
<1>8. ASSUME NEW p \in Ports
      PROVE  /\ Increasing(queue_lo', NoPort) /\ Increasing(queue_lo, NoPort)
             /\ StraightIds(queue_lo', NoPort) \subseteq StraightIds(queue_lo, NoPort)
             /\ ~hi => /\ pkt.id \in StraightIds(queue_lo, NoPort)
                       /\ \A y \in StraightIds(queue_lo', NoPort) : pkt.id < y
  <2>1. Increasing(queue_lo, NoPort)
    BY OldOrder
  <2>2. CASE hi
    BY <1>1, <2>1, <2>2
  <2>3. CASE ~hi
    BY <1>1, <1>2, <1>6, <2>1, <2>3, TailIds
  <2>4. QED
    BY <2>1, <2>2, <2>3
<1>9. CASE pkt = Sentinel /\ exited' = exited \cup {Ingress} /\ UNCHANGED <<todo, copies>>
  <2>1. SwTypeOK'
    BY <1>0, <1>1, <1>3, <1>4, <1>9, ThreadFacts DEF SwTypeOK
  <2>2. CallsRouted'
    BY <1>0, <1>9 DEF CallsRouted
  <2>3. ASSUME NEW p \in Ports PROVE PortInOrder(p)'
    <3> DEFINE w == EgressThreadMapper(p)
    <3>1. PortStep(0, p, w)
      BY <1>1, <1>8, <1>9 DEF PortStep, StageStep
    <3> HIDE DEF w
    <3>2. QED
      BY <1>1, <1>8, <3>1, OldOrder, PortKeeps DEF w
  <2>4. QED
    BY <1>5, <1>7, <2>1, <2>2, <2>3 DEF PathInv
<1>10. CASE pkt # Sentinel /\ Handle(Ingress, IngressCalls(pkt)) /\ exited' = exited
  <2>1. PICK calls \in IngressCalls(pkt) :
           /\ copies + NewCopies(calls) <= MaxCopies
           /\ copies' = copies + NewCopies(calls)
           /\ todo' = [todo EXCEPT ![Ingress] = calls]
    BY <1>10 DEF Handle
  <2>2. pkt \in Packet
    BY <1>6, <1>10
  <2> HIDE DEF pkt, hi
  <2>3. /\ calls \in Seq(CallSet) /\ CallsOK(Ingress, calls)
        /\ \A p : CallIds(calls, p) \subseteq {pkt.id}
        /\ pkt.again => \A p : CallIds(calls, p) = {}
    BY <1>0, <2>1, <2>2, IngressCallsOK
  <2>4. /\ todo' \in [Threads -> Seq(CallSet)] /\ CallsRouted'
        /\ todo'[Ingress] = calls /\ \A u \in Threads : u # Ingress => todo'[u] = todo[u]
    BY <1>1, <2>1, <2>3, NewCalls, ThreadFacts
  <2>5. copies' \in 0..MaxCopies
    <3>1. NewCopies(calls) \in Nat
      BY <2>3, NewCopiesNat
    <3>2. copies \in Nat /\ MaxCopies \in Nat
      BY <1>0, SwitchAssumption DEF SwTypeOK
    <3>3. QED
      BY <2>1, <3>1, <3>2
  <2>6. SwTypeOK'
    BY <1>0, <1>1, <1>3, <1>4, <1>10, <2>4, <2>5 DEF SwTypeOK, CallSet
  <2>7. ASSUME NEW p \in Ports PROVE PortInOrder(p)'
    <3> DEFINE w == EgressThreadMapper(p)
    <3>0. w \in SwWorkers /\ w # Ingress /\ w \in Threads
      BY OldOrder
    <3>1. CASE hi
      <4>1. CallIds(todo'[Ingress], p) \subseteq CallIds(todo[Ingress], p)
        BY <1>6, <1>10, <2>3, <2>4, <3>1
      <4>2. PortStep(0, p, w)
        BY <1>1, <1>8, <2>4, <3>0, <4>1 DEF PortStep, StageStep
      <4> HIDE DEF w
      <4>3. QED
        BY <1>1, <1>8, <4>2, OldOrder, PortKeeps DEF w
    <3>2. CASE ~hi
      <4>1. Moves(pkt.id, CallIds(todo[Ingress], p), CallIds(todo'[Ingress], p),
                  StraightIds(queue_lo, NoPort), StraightIds(queue_lo', NoPort))
        BY <1>8, <2>3, <2>4, <3>2 DEF Moves
      <4>2. PortStep(pkt.id, p, w)
        BY <1>1, <2>4, <3>0, <4>1 DEF PortStep, StageStep
      <4> HIDE DEF w
      <4>3. QED
        BY <1>1, <1>8, <4>2, OldOrder, PortKeeps DEF w
    <3>3. QED
      BY <3>1, <3>2
  <2>8. QED
    BY <1>5, <1>7, <2>4, <2>6, <2>7 DEF PathInv
<1>11. QED
  BY <1>1, <1>9, <1>10

\* An egress thread takes a packet of one of its ports.
LEMMA EgressPopKeeps ==
  ASSUME PathInv, NEW w \in SwWorkers, NEW q \in Ports, EgressPop(w, q)
  PROVE  PathInv'
<1>0. SwTypeOK /\ QueuesRouted /\ CallsRouted /\ InOrder /\ \A p \in Ports : PortInOrder(p)
  BY DEF PathInv
<1> DEFINE s == egress_buffers[q]
           pkt == Head(s)
<1>1. /\ todo[w] = <<>> /\ EgressThreadMapper(q) = w /\ s # <<>>
      /\ egress_buffers' = [egress_buffers EXCEPT ![q] = Tail(s)]
      /\ UNCHANGED <<received, queue_hi, queue_lo, tm, output_buffer, transmit_exited, sent,
                     session, down>>
      /\ \/ pkt = Sentinel /\ exited' = exited \cup {w} /\ UNCHANGED <<todo, copies>>
         \/ pkt # Sentinel /\ Handle(w, EgressCalls(pkt)) /\ exited' = exited
  BY DEF EgressPop, outVars, inVars
<1>2. /\ egress_buffers \in [Ports -> Seq(Packet \cup {Sentinel})]
      /\ s \in Seq(Packet \cup {Sentinel}) /\ Len(s) <= EgressCap /\ EgressCap \in Nat
  BY <1>0, SwitchAssumption DEF SwTypeOK
<1>3. /\ egress_buffers'[q] = Tail(s)
      /\ \A p \in Ports : p # q => egress_buffers'[p] = egress_buffers[p]
  BY <1>1, <1>2
<1>s. \A i \in DOMAIN s : s[i] = Sentinel \/ s[i].port = q
  BY <1>0 DEF QueuesRouted
<1>t. egress_buffers[q] = s
  OBVIOUS
<1> HIDE DEF s
<1>4. /\ Tail(s) \in Seq(Packet \cup {Sentinel}) /\ Len(Tail(s)) <= EgressCap
      /\ \A i \in DOMAIN Tail(s) : \E j \in DOMAIN s : Tail(s)[i] = s[j]
      /\ pkt \in Packet \cup {Sentinel}
      /\ pkt = Sentinel \/ pkt.port = q
  BY <1>1, <1>2, <1>s, TailOfQueue
<1>5. /\ egress_buffers' \in [Ports -> Seq(Packet \cup {Sentinel})]
      /\ \A p \in Ports : Len(egress_buffers'[p]) <= EgressCap
      /\ \A p \in Ports : \A i \in DOMAIN egress_buffers'[p] :
           egress_buffers'[p][i] = Sentinel \/ egress_buffers'[p][i].port = p
  <2>1. egress_buffers' \in [Ports -> Seq(Packet \cup {Sentinel})]
    BY <1>1, <1>2, <1>4
  <2>2. ASSUME NEW p \in Ports
        PROVE  /\ Len(egress_buffers'[p]) <= EgressCap
               /\ \A i \in DOMAIN egress_buffers'[p] :
                    egress_buffers'[p][i] = Sentinel \/ egress_buffers'[p][i].port = p
    <3>1. CASE p = q
      BY <1>3, <1>4, <1>s, <3>1
    <3>2. CASE p # q
      BY <1>0, <1>3, <3>2 DEF SwTypeOK, QueuesRouted
    <3>3. QED
      BY <3>1, <3>2
  <2>3. QED
    BY <2>1, <2>2
<1>6. QueuesRouted' /\ InOrder'
  BY <1>0, <1>1, <1>5 DEF QueuesRouted, InOrder
<1>7. /\ Increasing(s, q) /\ Increasing(Tail(s), q)
      /\ StraightIds(Tail(s), q) \subseteq StraightIds(s, q)
      /\ Straight(pkt) /\ pkt.port = q => /\ pkt.id \in StraightIds(s, q)
                         /\ \A y \in StraightIds(Tail(s), q) : pkt.id < y
  <2>1. Increasing(s, q)
    BY <1>1, <1>t, OldOrder
  <2>2. QED
    BY <1>1, <1>2, <2>1, TailIds
<1>8. \A p \in Ports : /\ Increasing(egress_buffers'[p], p)
                       /\ StraightIds(egress_buffers'[p], p)
                            \subseteq StraightIds(egress_buffers[p], p)
  BY <1>3, <1>7, <1>t, OldOrder
<1>a. w \in Threads /\ w # Ingress
  BY ThreadFacts
<1>9. CASE pkt = Sentinel /\ exited' = exited \cup {w} /\ UNCHANGED <<todo, copies>>
  <2>1. SwTypeOK'
    BY <1>0, <1>1, <1>5, <1>9, <1>a DEF SwTypeOK
  <2>2. CallsRouted'
    BY <1>0, <1>9 DEF CallsRouted
  <2>3. ASSUME NEW p \in Ports PROVE PortInOrder(p)'
    <3> DEFINE v == EgressThreadMapper(p)
    <3>1. PortStep(0, p, v)
      BY <1>1, <1>8, <1>9 DEF PortStep, StageStep
    <3> HIDE DEF v
    <3>2. QED
      BY <1>1, <1>8, <3>1, OldOrder, PortKeeps DEF v
  <2>4. QED
    BY <1>6, <2>1, <2>2, <2>3 DEF PathInv
<1>10. CASE pkt # Sentinel /\ Handle(w, EgressCalls(pkt)) /\ exited' = exited
  <2>1. PICK calls \in EgressCalls(pkt) :
           /\ copies + NewCopies(calls) <= MaxCopies
           /\ copies' = copies + NewCopies(calls)
           /\ todo' = [todo EXCEPT ![w] = calls]
    BY <1>10 DEF Handle
  <2>2. pkt \in Packet /\ pkt.port = q
    BY <1>4, <1>10
  <2> HIDE DEF pkt
  <2>3. /\ calls \in Seq(CallSet) /\ CallsOK(w, calls)
        /\ \A p : CallIds(calls, p)
                    \subseteq IF Straight(pkt) /\ pkt.port = p THEN {pkt.id} ELSE {}
    BY <1>0, <1>1, <2>1, <2>2, EgressCallsOK
  <2>4. /\ todo' \in [Threads -> Seq(CallSet)] /\ CallsRouted'
        /\ todo'[w] = calls /\ \A u \in Threads : u # w => todo'[u] = todo[u]
    BY <1>1, <1>a, <2>1, <2>3, NewCalls
  <2>5. copies' \in 0..MaxCopies
    <3>1. NewCopies(calls) \in Nat
      BY <2>3, NewCopiesNat
    <3>2. copies \in Nat /\ MaxCopies \in Nat
      BY <1>0, SwitchAssumption DEF SwTypeOK
    <3>3. QED
      BY <2>1, <3>1, <3>2
  <2>6. SwTypeOK'
    BY <1>0, <1>1, <1>5, <1>10, <2>4, <2>5 DEF SwTypeOK, CallSet
  <2>7. ASSUME NEW p \in Ports PROVE PortInOrder(p)'
    <3> DEFINE v == EgressThreadMapper(p)
    <3>0. v \in SwWorkers /\ v # Ingress /\ v \in Threads
      BY OldOrder
    <3>a. todo'[Ingress] = todo[Ingress]
      BY <1>a, <2>4, ThreadFacts
    <3>1. CASE p = q /\ Straight(pkt)
      <4>1. Moves(pkt.id, CallIds(todo[w], p), CallIds(todo'[w], p),
                  StraightIds(egress_buffers[p], p), StraightIds(egress_buffers'[p], p))
        BY <1>3, <1>7, <1>t, <2>2, <2>3, <2>4, <3>1 DEF Moves
      <4>2. PortStep(pkt.id, p, w)
        BY <1>1, <3>a, <4>1 DEF PortStep, StageStep
      <4>3. QED
        BY <1>1, <1>8, <3>1, <4>2, OldOrder, PortKeeps
    <3>2. CASE ~(p = q /\ Straight(pkt))
      <4>1. CallIds(todo'[v], p) \subseteq CallIds(todo[v], p)
        BY <2>2, <2>3, <2>4, <3>0, <3>2
      <4>2. PortStep(0, p, v)
        BY <1>1, <1>8, <3>a, <4>1 DEF PortStep, StageStep
      <4> HIDE DEF v
      <4>3. QED
        BY <1>1, <1>8, <4>2, OldOrder, PortKeeps DEF v
    <3>3. QED
      BY <3>1, <3>2
  <2>8. QED
    BY <1>6, <2>4, <2>6, <2>7 DEF PathInv
<1>11. QED
  BY <1>1, <1>9, <1>10

\* enqueue: a straight packet goes from the ingress thread to the worker of its port.
LEMMA EnqueueKeeps ==
  ASSUME PathInv, NEW t \in Threads, Enqueue(t)
  PROVE  PathInv'
<1>0. SwTypeOK /\ QueuesRouted /\ CallsRouted /\ InOrder /\ \A p \in Ports : PortInOrder(p)
  BY DEF PathInv
<1> DEFINE pkt == Head(todo[t]).pkt
           w == EgressThreadMapper(pkt.port)
<1>1. /\ todo[t] # <<>> /\ Head(todo[t]).op = "enqueue"
      /\ tm' = tm \/ tm' = [tm EXCEPT ![w] = Append(tm[w], pkt)]
      /\ todo' = [todo EXCEPT ![t] = Tail(@)]
      /\ UNCHANGED <<received, queue_hi, queue_lo, exited, egress_buffers, output_buffer,
                     transmit_exited, sent, session, copies, down>>
  BY DEF Enqueue, outVars, inVars
<1>2. /\ todo' \in [Threads -> Seq(CallSet)] /\ CallsRouted'
      /\ Head(todo[t]) \in CallSet /\ CallOK(t, Head(todo[t]))
      /\ \A u \in Threads : \A p : CallIds(todo'[u], p) \subseteq CallIds(todo[u], p)
      /\ Straight(pkt) => /\ \A p : CallIds(todo'[t], p) = {}
                          /\ pkt.id \in CallIds(todo[t], pkt.port)
  BY <1>1, CallMade
<1>3. pkt \in Packet /\ pkt.port \in Ports /\ (Straight(pkt) => t = Ingress)
  BY <1>1, <1>2 DEF CallSet, CallOK
<1> HIDE DEF pkt
<1>4. w \in SwWorkers
  BY <1>3, MapperWorker
<1>5. tm \in [SwWorkers -> Seq(Packet)] /\ tm[w] \in Seq(Packet)
  BY <1>0, <1>4 DEF SwTypeOK
<1>6. CASE tm' = tm
  <2>1. SwTypeOK'
    BY <1>0, <1>1, <1>2, <1>6 DEF SwTypeOK, CallSet
  <2>2. QueuesRouted' /\ InOrder'
    BY <1>0, <1>1, <1>6 DEF QueuesRouted, InOrder
  <2>3. ASSUME NEW p \in Ports PROVE PortInOrder(p)'
    <3> DEFINE v == EgressThreadMapper(p)
    <3>0. v \in Threads
      BY OldOrder
    <3>1. PortStep(0, p, v)
      BY <1>1, <1>2, <1>6, <3>0, ThreadFacts DEF PortStep, StageStep
    <3> HIDE DEF v
    <3>2. QED
      BY <1>1, <1>6, <3>1, OldOrder, PortKeeps DEF v
  <2>4. QED
    BY <1>2, <2>1, <2>2, <2>3 DEF PathInv
<1>7. CASE tm' = [tm EXCEPT ![w] = Append(tm[w], pkt)]
  <2>1. tm'[w] = Append(tm[w], pkt) /\ \A v \in SwWorkers : v # w => tm'[v] = tm[v]
    BY <1>4, <1>5, <1>7
  <2>w. w = EgressThreadMapper(pkt.port)
    OBVIOUS
  <2> HIDE DEF w
  <2>2. /\ tm'[w] \in Seq(Packet)
        /\ \A i \in DOMAIN tm'[w] : (i \in DOMAIN tm[w] /\ tm'[w][i] = tm[w][i])
                                    \/ tm'[w][i] = pkt
    BY <1>3, <1>5, <2>1, AppendToQueue
  <2>3. tm' \in [SwWorkers -> Seq(Packet)]
    BY <1>4, <1>5, <1>7, <2>1, <2>2
  <2>4. SwTypeOK'
    BY <1>0, <1>1, <1>2, <2>3 DEF SwTypeOK, CallSet
  <2>5. QueuesRouted' /\ InOrder'
    <3>1. ASSUME NEW v \in SwWorkers, NEW i \in DOMAIN tm'[v]
          PROVE  tm'[v][i].port \in Ports /\ EgressThreadMapper(tm'[v][i].port) = v
      <4>1. CASE v = w
        BY <1>0, <1>3, <1>4, <2>2, <2>w, <4>1 DEF QueuesRouted
      <4>2. CASE v # w
        BY <1>0, <2>1, <4>2 DEF QueuesRouted
      <4>3. QED
        BY <4>1, <4>2
    <3>2. QED
      BY <1>0, <1>1, <3>1 DEF QueuesRouted, InOrder
  <2>6. ASSUME NEW p \in Ports PROVE PortInOrder(p)'
    <3>0. PICK v \in SwWorkers : v = EgressThreadMapper(p) /\ v \in Threads /\ v # Ingress
      BY OldOrder
    <3>1. CASE Straight(pkt) /\ pkt.port = p
      <4>1. v = w /\ t = Ingress
        BY <1>3, <2>w, <3>0, <3>1
      <4>2. Increasing(tm[v], p) /\ \A y \in StraightIds(tm[v], p) : y < pkt.id
        BY <1>2, <3>0, <3>1, <4>1, OldOrder DEF Before
      <4>3. Increasing(tm'[v], p)
            /\ StraightIds(tm'[v], p) \subseteq StraightIds(tm[v], p) \cup {pkt.id}
        <5> DEFINE s == tm[w]
        <5>1. s \in Seq(Packet) /\ Increasing(s, p) /\ \A y \in StraightIds(s, p) : y < pkt.id
          BY <1>5, <4>1, <4>2
        <5> HIDE DEF s
        <5>2. Increasing(Append(s, pkt), p)
              /\ StraightIds(Append(s, pkt), p) \subseteq StraightIds(s, p) \cup {pkt.id}
          BY <1>3, <5>1, AppendIds
        <5>3. QED
          BY <2>1, <4>1, <5>2 DEF s
      <4>4. Moves(pkt.id, StraightIds(tm[v], p), StraightIds(tm'[v], p),
                  CallIds(todo[Ingress], p), CallIds(todo'[Ingress], p))
        BY <1>2, <3>1, <4>1, <4>3 DEF Moves
      <4>5. PortStep(pkt.id, p, v)
        BY <1>1, <1>2, <3>0, <4>4 DEF PortStep, StageStep
      <4>6. QED
        BY <1>1, <3>0, <4>3, <4>5, OldOrder, PortKeeps
    <3>2. CASE ~(Straight(pkt) /\ pkt.port = p)
      <4>1. Increasing(tm'[v], p) /\ StraightIds(tm'[v], p) \subseteq StraightIds(tm[v], p)
        <5>1. Increasing(tm[v], p)
          BY <3>0, OldOrder
        <5>2. CASE v = w
          <6> DEFINE s == tm[w]
          <6>1. s \in Seq(Packet) /\ Increasing(s, p)
            BY <1>5, <5>1, <5>2
          <6> HIDE DEF s
          <6>2. Increasing(Append(s, pkt), p)
                /\ StraightIds(Append(s, pkt), p) \subseteq StraightIds(s, p)
            BY <1>3, <3>2, <6>1, AppendIds
          <6>3. QED
            BY <2>1, <5>2, <6>2 DEF s
        <5>3. CASE v # w
          BY <2>1, <5>1, <5>3
        <5>4. QED
          BY <5>2, <5>3
      <4>2. PortStep(0, p, v)
        BY <1>1, <1>2, <3>0, <4>1, ThreadFacts DEF PortStep, StageStep
      <4>3. QED
        BY <1>1, <3>0, <4>1, <4>2, OldOrder, PortKeeps
    <3>3. QED
      BY <3>1, <3>2
  <2>7. QED
    BY <1>2, <2>4, <2>5, <2>6 DEF PathInv
<1>8. QED
  BY <1>1, <1>6, <1>7

\* Resubmit and recirculate: never a straight packet.
LEMMA PushInputKeeps ==
  ASSUME PathInv, NEW t \in Threads, PushInput(t)
  PROVE  PathInv'
<1>0. SwTypeOK /\ QueuesRouted /\ CallsRouted /\ InOrder /\ \A p \in Ports : PortInOrder(p)
  BY DEF PathInv
<1> DEFINE pkt == Head(todo[t]).pkt
<1>1. /\ todo[t] # <<>> /\ Head(todo[t]).op = "input"
      /\ queue_hi' = (IF Len(queue_hi) = CapHi THEN queue_hi ELSE Append(queue_hi, pkt))
      /\ todo' = [todo EXCEPT ![t] = Tail(@)]
      /\ UNCHANGED <<received, queue_lo, exited, tm, egress_buffers, output_buffer,
                     transmit_exited, sent, session, copies, down>>
  BY DEF PushInput, PushHi, outVars
<1>2. /\ todo' \in [Threads -> Seq(CallSet)] /\ CallsRouted'
      /\ Head(todo[t]) \in CallSet /\ CallOK(t, Head(todo[t]))
      /\ \A u \in Threads : \A p : CallIds(todo'[u], p) \subseteq CallIds(todo[u], p)
  BY <1>1, CallMade
<1>3. pkt \in Packet /\ pkt.again
  BY <1>1, <1>2 DEF CallSet, CallOK
<1> HIDE DEF pkt
<1>4. queue_hi \in Seq(Packet \cup {Sentinel}) /\ Len(queue_hi) <= CapHi /\ CapHi \in Nat
  BY <1>0, SwitchAssumption DEF SwTypeOK
<1>5. /\ queue_hi' \in Seq(Packet \cup {Sentinel}) /\ Len(queue_hi') <= CapHi
      /\ \A i \in DOMAIN queue_hi' : (i \in DOMAIN queue_hi /\ queue_hi'[i] = queue_hi[i])
                                     \/ queue_hi'[i] = pkt
  <2>1. CASE Len(queue_hi) = CapHi
    BY <1>1, <1>4, <2>1
  <2>2. CASE Len(queue_hi) # CapHi
    <3>1. pkt \in Packet \cup {Sentinel} /\ Len(queue_hi) \in Nat
      BY <1>3, <1>4
    <3>2. QED
      BY <1>1, <1>4, <2>2, <3>1, AppendToQueue
  <2>3. QED
    BY <2>1, <2>2
<1>6. SwTypeOK'
  BY <1>0, <1>1, <1>2, <1>5 DEF SwTypeOK, CallSet
<1>7. QueuesRouted' /\ InOrder'
  BY <1>0, <1>1, <1>3, <1>5 DEF QueuesRouted, InOrder
<1>8. ASSUME NEW p \in Ports PROVE PortInOrder(p)'
  <2>0. PICK v \in SwWorkers : v = EgressThreadMapper(p) /\ v \in Threads /\ v # Ingress
    BY OldOrder
  <2>1. PortStep(0, p, v)
    BY <1>1, <1>2, <2>0, ThreadFacts DEF PortStep, StageStep
  <2>2. QED
    BY <1>1, <2>0, <2>1, OldOrder, PortKeeps
<1>9. QED
  BY <1>2, <1>6, <1>7, <1>8 DEF PathInv

\* output_buffer.push_front.
LEMMA PushOutputKeeps ==
  ASSUME PathInv, NEW w \in SwWorkers, PushOutput(w)
  PROVE  PathInv'
<1>0. SwTypeOK /\ QueuesRouted /\ CallsRouted /\ InOrder /\ \A p \in Ports : PortInOrder(p)
  BY DEF PathInv
<1>a. w \in Threads /\ w # Ingress
  BY ThreadFacts
<1> DEFINE pkt == Head(todo[w]).pkt
<1>1. /\ todo[w] # <<>> /\ Head(todo[w]).op = "output" /\ Len(output_buffer) < OutCap
      /\ output_buffer' = Append(output_buffer, pkt)
      /\ todo' = [todo EXCEPT ![w] = Tail(@)]
      /\ UNCHANGED <<received, queue_hi, queue_lo, exited, tm, egress_buffers,
                     transmit_exited, sent, session, copies, down>>
  BY DEF PushOutput, inVars
<1>2. /\ todo' \in [Threads -> Seq(CallSet)] /\ CallsRouted'
      /\ Head(todo[w]) \in CallSet /\ CallOK(w, Head(todo[w]))
      /\ \A u \in Threads : \A p : CallIds(todo'[u], p) \subseteq CallIds(todo[u], p)
      /\ Straight(pkt) => /\ \A p : CallIds(todo'[w], p) = {}
                          /\ pkt.id \in CallIds(todo[w], pkt.port)
  BY <1>1, <1>a, CallMade
<1>3. /\ pkt \in Packet /\ pkt.port \in Ports
      /\ Straight(pkt) => EgressThreadMapper(pkt.port) = w
  BY <1>1, <1>2, <1>a DEF CallSet, CallOK
<1> HIDE DEF pkt
<1>4. /\ output_buffer \in Seq(Packet \cup {Sentinel}) /\ pkt \in Packet \cup {Sentinel}
      /\ Len(output_buffer) \in Nat /\ OutCap \in Nat
  BY <1>0, <1>3, SwitchAssumption DEF SwTypeOK
<1>5. /\ output_buffer' \in Seq(Packet \cup {Sentinel}) /\ Len(output_buffer') <= OutCap
      /\ \A i \in DOMAIN output_buffer' :
           (i \in DOMAIN output_buffer /\ output_buffer'[i] = output_buffer[i])
           \/ output_buffer'[i] = pkt
  BY <1>1, <1>4, AppendToQueue
<1>6. SwTypeOK'
  BY <1>0, <1>1, <1>2, <1>5 DEF SwTypeOK, CallSet
<1>7. QueuesRouted' /\ InOrder'
  BY <1>0, <1>1, <1>3, <1>5 DEF QueuesRouted, InOrder
<1>8. ASSUME NEW p \in Ports PROVE PortInOrder(p)'
  <2>0. PICK v \in SwWorkers : v = EgressThreadMapper(p) /\ v \in Threads /\ v # Ingress
    BY OldOrder
  <2>1. CASE Straight(pkt) /\ pkt.port = p
    <3>1. v = w
      BY <1>3, <2>0, <2>1
    <3>2. Increasing(output_buffer, p) /\ \A y \in StraightIds(output_buffer, p) : y < pkt.id
      BY <1>2, <2>0, <2>1, <3>1, OldOrder DEF Before
    <3>3. Increasing(output_buffer', p)
          /\ StraightIds(output_buffer', p) \subseteq StraightIds(output_buffer, p) \cup {pkt.id}
      BY <1>1, <1>4, <3>2, AppendIds
    <3>4. Moves(pkt.id, StraightIds(output_buffer, p), StraightIds(output_buffer', p),
                CallIds(todo[v], p), CallIds(todo'[v], p))
      BY <1>2, <2>1, <3>1, <3>3 DEF Moves
    <3>5. PortStep(pkt.id, p, v)
      BY <1>1, <1>2, <3>4, ThreadFacts DEF PortStep, StageStep
    <3>6. QED
      BY <1>1, <2>0, <3>3, <3>5, OldOrder, PortKeeps
  <2>2. CASE ~(Straight(pkt) /\ pkt.port = p)
    <3>1. Increasing(output_buffer, p)
      BY OldOrder
    <3>2. Increasing(output_buffer', p)
          /\ StraightIds(output_buffer', p) \subseteq StraightIds(output_buffer, p)
      BY <1>1, <1>4, <2>2, <3>1, AppendIds
    <3>3. PortStep(0, p, v)
      BY <1>1, <1>2, <2>0, <3>2, ThreadFacts DEF PortStep, StageStep
    <3>4. QED
      BY <1>1, <2>0, <3>2, <3>3, OldOrder, PortKeeps
  <2>3. QED
    BY <2>1, <2>2
<1>9. QED
  BY <1>2, <1>6, <1>7, <1>8 DEF PathInv

\* The traffic manager hands the oldest packet of a worker to its port's queue.
LEMMA TmReleaseKeeps ==
  ASSUME PathInv, NEW w \in SwWorkers, TmRelease(w)
  PROVE  PathInv'
<1>0. SwTypeOK /\ QueuesRouted /\ CallsRouted /\ InOrder /\ \A p \in Ports : PortInOrder(p)
  BY DEF PathInv
<1> DEFINE s == tm[w]
           pkt == Head(s)
           q == pkt.port
           r == egress_buffers[q]
<1>1. /\ s # <<>> /\ tm' = [tm EXCEPT ![w] = Tail(s)]
      /\ \/ egress_buffers' = egress_buffers
         \/ /\ Len(r) < EgressCap
            /\ egress_buffers' = [egress_buffers EXCEPT ![q] = Append(r, pkt)]
      /\ UNCHANGED <<received, queue_hi, queue_lo, todo, exited, output_buffer,
                     transmit_exited, sent, session, copies, down>>
  <2>1. EgressCap \in Nat /\ (\A p \in Ports : Len(egress_buffers[p]) \in Nat)
    BY <1>0, SwitchAssumption DEF SwTypeOK
  <2>2. q \in Ports
    BY <1>0, TailOfQueue DEF QueuesRouted, SwTypeOK, TmRelease
  <2>3. QED
    BY <2>1, <2>2 DEF TmRelease, outVars, inVars
<1>2. tm \in [SwWorkers -> Seq(Packet)] /\ s \in Seq(Packet)
  BY <1>0 DEF SwTypeOK
<1>3. tm'[w] = Tail(s) /\ \A v \in SwWorkers : v # w => tm'[v] = tm[v]
  BY <1>1, <1>2
<1>s. tm[w] = s /\ \A i \in DOMAIN s : s[i].port \in Ports /\ EgressThreadMapper(s[i].port) = w
  BY <1>0 DEF QueuesRouted
<1> HIDE DEF s
<1>4. /\ Tail(s) \in Seq(Packet) /\ pkt \in Packet
      /\ \A i \in DOMAIN Tail(s) : \E j \in DOMAIN s : Tail(s)[i] = s[j]
      /\ q \in Ports /\ EgressThreadMapper(q) = w
  BY <1>1, <1>2, <1>s, TailOfQueue
<1>q. pkt.port = q
  OBVIOUS
<1>5. tm' \in [SwWorkers -> Seq(Packet)]
  BY <1>1, <1>2, <1>4
<1>6. \A v \in SwWorkers : \A i \in DOMAIN tm'[v] :
        tm'[v][i].port \in Ports /\ EgressThreadMapper(tm'[v][i].port) = v
  <2> SUFFICES ASSUME NEW v \in SwWorkers, NEW i \in DOMAIN tm'[v]
               PROVE  tm'[v][i].port \in Ports /\ EgressThreadMapper(tm'[v][i].port) = v
    OBVIOUS
  <2>1. CASE v = w
    BY <1>3, <1>4, <1>s, <2>1
  <2>2. CASE v # w
    BY <1>0, <1>3, <2>2 DEF QueuesRouted
  <2>3. QED
    BY <2>1, <2>2
<1>7. ASSUME NEW p \in Ports, NEW v \in SwWorkers, v = EgressThreadMapper(p)
      PROVE  /\ Increasing(tm'[v], p) /\ StraightIds(tm'[v], p) \subseteq StraightIds(tm[v], p)
             /\ Straight(pkt) /\ q = p =>
                  /\ v = w /\ pkt.id \in StraightIds(tm[v], p)
                  /\ \A y \in StraightIds(tm'[v], p) : pkt.id < y
  <2>1. Increasing(tm[v], p)
    BY <1>7, OldOrder
  <2>2. CASE v = w
    <3>1. Increasing(s, p)
      BY <1>s, <2>1, <2>2
    <3>2. /\ Increasing(Tail(s), p) /\ StraightIds(Tail(s), p) \subseteq StraightIds(s, p)
          /\ Straight(pkt) /\ q = p => /\ pkt.id \in StraightIds(s, p)
                                       /\ \A y \in StraightIds(Tail(s), p) : pkt.id < y
      BY <1>1, <1>2, <3>1, TailIds
    <3>3. QED
      BY <1>3, <1>s, <2>2, <3>2
  <2>3. CASE v # w
    BY <1>3, <1>4, <1>7, <2>1, <2>3
  <2>4. QED
    BY <2>2, <2>3
<1>8. CASE egress_buffers' = egress_buffers
  <2>1. SwTypeOK'
    BY <1>0, <1>1, <1>5, <1>8 DEF SwTypeOK
  <2>2. QueuesRouted' /\ CallsRouted' /\ InOrder'
    BY <1>0, <1>1, <1>6, <1>8 DEF QueuesRouted, InOrder, CallsRouted
  <2>3. ASSUME NEW p \in Ports PROVE PortInOrder(p)'
    <3>0. PICK v \in SwWorkers : v = EgressThreadMapper(p)
      BY OldOrder
    <3>1. PortStep(0, p, v)
      BY <1>1, <1>7, <1>8, <3>0 DEF PortStep, StageStep
    <3>2. QED
      BY <1>1, <1>7, <1>8, <3>0, <3>1, OldOrder, PortKeeps
  <2>4. QED
    BY <2>1, <2>2, <2>3 DEF PathInv
<1>9. CASE /\ Len(r) < EgressCap
           /\ egress_buffers' = [egress_buffers EXCEPT ![q] = Append(r, pkt)]
  <2> HIDE DEF q, pkt
  <2>1. /\ egress_buffers \in [Ports -> Seq(Packet \cup {Sentinel})]
        /\ r \in Seq(Packet \cup {Sentinel}) /\ EgressCap \in Nat
        /\ pkt \in Packet \cup {Sentinel} /\ egress_buffers[q] = r
    BY <1>0, <1>4, SwitchAssumption DEF SwTypeOK
  <2>2. /\ egress_buffers'[q] = Append(r, pkt)
        /\ \A p \in Ports : p # q => egress_buffers'[p] = egress_buffers[p]
    BY <1>4, <1>9, <2>1
  <2> HIDE DEF r
  <2>3. /\ Append(r, pkt) \in Seq(Packet \cup {Sentinel}) /\ Len(Append(r, pkt)) <= EgressCap
        /\ \A i \in DOMAIN Append(r, pkt) : (i \in DOMAIN r /\ Append(r, pkt)[i] = r[i])
                                            \/ Append(r, pkt)[i] = pkt
    BY <1>9, <2>1, AppendToQueue
  <2>4. egress_buffers' \in [Ports -> Seq(Packet \cup {Sentinel})]
    BY <1>4, <1>9, <2>1, <2>3
  <2>5. ASSUME NEW p \in Ports
        PROVE  /\ Len(egress_buffers'[p]) <= EgressCap
               /\ \A i \in DOMAIN egress_buffers'[p] :
                    egress_buffers'[p][i] = Sentinel \/ egress_buffers'[p][i].port = p
    <3>1. CASE p = q
      BY <1>0, <1>q, <2>1, <2>2, <2>3, <3>1, SMTT(40) DEF QueuesRouted
    <3>2. CASE p # q
      BY <1>0, <2>2, <3>2 DEF SwTypeOK, QueuesRouted
    <3>3. QED
      BY <3>1, <3>2
  <2>6. SwTypeOK'
    BY <1>0, <1>1, <1>5, <2>4, <2>5 DEF SwTypeOK
  <2>7. QueuesRouted' /\ CallsRouted' /\ InOrder'
    BY <1>0, <1>1, <1>6, <2>5 DEF QueuesRouted, InOrder, CallsRouted
  <2>8. ASSUME NEW p \in Ports PROVE PortInOrder(p)'
    <3>0. PICK v \in SwWorkers : v = EgressThreadMapper(p)
      BY OldOrder
    <3>a. Increasing(egress_buffers[p], p)
          /\ Before(StraightIds(egress_buffers[p], p), StraightIds(tm[v], p))
      BY <3>0, OldOrder
    <3>1. CASE Straight(pkt) /\ p = q
      <4>1. Increasing(r, p) /\ \A y \in StraightIds(r, p) : y < pkt.id
        BY <1>7, <2>1, <3>0, <3>1, <3>a DEF Before
      <4>2. Increasing(Append(r, pkt), p)
            /\ StraightIds(Append(r, pkt), p) \subseteq StraightIds(r, p) \cup {pkt.id}
        BY <2>1, <4>1, AppendIds
      <4>3. Moves(pkt.id, StraightIds(egress_buffers[p], p), StraightIds(egress_buffers'[p], p),
                  StraightIds(tm[v], p), StraightIds(tm'[v], p))
        BY <1>7, <2>1, <2>2, <3>0, <3>1, <4>2 DEF Moves
      <4>4. PortStep(pkt.id, p, v)
        BY <1>1, <4>3 DEF PortStep, StageStep
      <4>5. Increasing(egress_buffers'[p], p)
        BY <2>2, <3>1, <4>2
      <4>6. QED
        BY <1>1, <1>7, <3>0, <4>4, <4>5, OldOrder, PortKeeps
    <3>2. CASE ~(Straight(pkt) /\ p = q)
      <4>1. Increasing(egress_buffers'[p], p)
            /\ StraightIds(egress_buffers'[p], p) \subseteq StraightIds(egress_buffers[p], p)
        <5>1. CASE p = q
          <6>1. Increasing(r, p)
            BY <2>1, <3>a, <5>1
          <6>2. Increasing(Append(r, pkt), p)
                /\ StraightIds(Append(r, pkt), p) \subseteq StraightIds(r, p)
            BY <2>1, <3>2, <5>1, <6>1, AppendIds
          <6>3. QED
            BY <2>1, <2>2, <5>1, <6>2
        <5>2. CASE p # q
          BY <2>2, <3>a, <5>2
        <5>3. QED
          BY <5>1, <5>2
      <4>2. PortStep(0, p, v)
        BY <1>1, <1>7, <3>0, <4>1 DEF PortStep, StageStep
      <4>3. QED
        BY <1>1, <1>7, <3>0, <4>1, <4>2, OldOrder, PortKeeps
    <3>3. QED
      BY <3>1, <3>2
  <2>9. QED
    BY <2>6, <2>7, <2>8 DEF PathInv
<1>10. QED
  BY <1>1, <1>8, <1>9

\* transmit_thread: what is sent comes after all that was sent on the port.
LEMMA TransmitKeeps ==
  ASSUME PathInv, Transmit
  PROVE  PathInv'
<1>0. SwTypeOK /\ QueuesRouted /\ CallsRouted /\ InOrder /\ \A p \in Ports : PortInOrder(p)
  BY DEF PathInv
<1> DEFINE pkt == Head(output_buffer)
           q == pkt.port
<1>1. /\ output_buffer # <<>> /\ output_buffer' = Tail(output_buffer)
      /\ transmit_exited' = (pkt = Sentinel)
      /\ sent' = IF pkt = Sentinel \/ pkt.type # "NORMAL" \/ pkt.again THEN sent
                 ELSE [sent EXCEPT ![q] = Append(sent[q], pkt.id)]
      /\ UNCHANGED <<received, queue_hi, queue_lo, todo, exited, tm, egress_buffers,
                     session, copies, down>>
  BY DEF Transmit, inVars
<1>2. /\ output_buffer \in Seq(Packet \cup {Sentinel}) /\ sent \in [Ports -> Seq(1..NbPkts)]
      /\ Len(output_buffer) <= OutCap /\ OutCap \in Nat
  BY <1>0, SwitchAssumption DEF SwTypeOK
<1>3. /\ output_buffer' \in Seq(Packet \cup {Sentinel}) /\ Len(output_buffer') <= OutCap
      /\ \A i \in DOMAIN output_buffer' :
           \E j \in DOMAIN output_buffer : output_buffer'[i] = output_buffer[j]
      /\ pkt \in Packet \cup {Sentinel} /\ (pkt = Sentinel \/ q \in Ports)
  BY <1>0, <1>1, <1>2, TailOfQueue DEF QueuesRouted
<1>t. transmit_exited' \in BOOLEAN
  BY <1>1
<1>4. QueuesRouted' /\ CallsRouted'
  BY <1>0, <1>1, <1>3 DEF QueuesRouted, CallsRouted
<1>5. ASSUME NEW p \in Ports
      PROVE  /\ Increasing(output_buffer', p)
             /\ StraightIds(output_buffer', p) \subseteq StraightIds(output_buffer, p)
             /\ Straight(pkt) /\ q = p =>
                  /\ pkt.id \in StraightIds(output_buffer, p)
                  /\ \A y \in StraightIds(output_buffer', p) : pkt.id < y
  <2>1. Increasing(output_buffer, p)
    BY OldOrder
  <2>2. QED
    BY <1>1, <1>2, <2>1, TailIds
<1> HIDE DEF pkt
<1>6. CASE sent' = sent
  <2>1. SwTypeOK'
    BY <1>0, <1>1, <1>3, <1>6, <1>t DEF SwTypeOK
  <2>2. InOrder'
    BY <1>0, <1>6 DEF InOrder
  <2>3. ASSUME NEW p \in Ports PROVE PortInOrder(p)'
    <3>0. PICK v \in SwWorkers : v = EgressThreadMapper(p)
      BY OldOrder
    <3>1. PortStep(0, p, v)
      BY <1>1, <1>5, <1>6 DEF PortStep, StageStep
    <3>2. QED
      BY <1>1, <1>5, <3>0, <3>1, OldOrder, PortKeeps
  <2>4. QED
    BY <1>4, <2>1, <2>2, <2>3 DEF PathInv
<1>7. CASE /\ pkt # Sentinel /\ pkt.type = "NORMAL" /\ ~pkt.again
           /\ sent' = [sent EXCEPT ![q] = Append(sent[q], pkt.id)]
  <2>1. pkt \in Packet /\ q \in Ports /\ pkt.id \in 1..NbPkts /\ Straight(pkt)
    BY <1>3, <1>7 DEF Packet, Straight
  <2> DEFINE s == sent[q]
  <2>2. s \in Seq(1..NbPkts)
    BY <1>2, <2>1
  <2>3. sent'[q] = Append(s, pkt.id) /\ \A p \in Ports : p # q => sent'[p] = sent[p]
    BY <1>2, <1>7, <2>1
  <2>s. sent[q] = s
    OBVIOUS
  <2> HIDE DEF s
  <2>4. /\ Append(s, pkt.id) \in Seq(1..NbPkts) /\ Len(s) \in Nat
        /\ \A i \in DOMAIN Append(s, pkt.id) :
              \/ i \in DOMAIN s /\ Append(s, pkt.id)[i] = s[i]
              \/ i = Len(s) + 1 /\ Append(s, pkt.id)[i] = pkt.id
        /\ \A i \in DOMAIN s : i < Len(s) + 1
        /\ DOMAIN s \subseteq Nat
    BY <2>1, <2>2, AppendToQueue
  <2>5. sent' \in [Ports -> Seq(1..NbPkts)]
    BY <1>2, <1>7, <2>1, <2>3, <2>4
  <2>6. SwTypeOK'
    BY <1>0, <1>1, <1>3, <1>t, <2>5 DEF SwTypeOK
  <2>7. \A y \in SentIds(s) : y < pkt.id
    BY <1>5, <2>1, <2>s, OldOrder DEF Before
  <2>8. InOrder'
    <3> SUFFICES ASSUME NEW p \in Ports, NEW i \in DOMAIN sent'[p], NEW j \in DOMAIN sent'[p],
                        i < j
                 PROVE  sent'[p][i] < sent'[p][j]
      BY DEF InOrder
    <3>1. CASE p # q
      BY <1>0, <2>3, <3>1 DEF InOrder
    <3>2. CASE p = q
      <4>1. sent'[p] = Append(s, pkt.id)
        BY <2>3, <3>2
      <4>2. i \in DOMAIN s /\ sent'[p][i] = s[i] /\ s[i] \in SentIds(s)
        BY <2>4, <4>1 DEF SentIds
      <4>3. CASE j \in DOMAIN s /\ sent'[p][j] = s[j]
        BY <1>0, <2>1, <2>s, <4>2, <4>3 DEF InOrder
      <4>4. CASE sent'[p][j] = pkt.id
        BY <2>7, <4>2, <4>4
      <4>5. QED
        BY <2>4, <4>1, <4>3, <4>4
    <3>3. QED
      BY <3>1, <3>2
  <2>9. ASSUME NEW p \in Ports PROVE PortInOrder(p)'
    <3>0. PICK v \in SwWorkers : v = EgressThreadMapper(p)
      BY OldOrder
    <3>1. CASE p = q
      <4>1. SentIds(sent'[p]) \subseteq SentIds(sent[p]) \cup {pkt.id}
        BY <2>3, <2>4, <2>s, <3>1 DEF SentIds
      <4>2. Moves(pkt.id, SentIds(sent[p]), SentIds(sent'[p]),
                  StraightIds(output_buffer, p), StraightIds(output_buffer', p))
        BY <1>5, <2>1, <3>1, <4>1 DEF Moves
      <4>3. PortStep(pkt.id, p, v)
        BY <1>1, <4>2 DEF PortStep, StageStep
      <4>4. QED
        BY <1>1, <1>5, <3>0, <4>3, OldOrder, PortKeeps
    <3>2. CASE p # q
      <4>1. PortStep(0, p, v)
        BY <1>1, <1>5, <2>3, <3>2 DEF PortStep, StageStep
      <4>2. QED
        BY <1>1, <1>5, <3>0, <4>1, OldOrder, PortKeeps
    <3>3. QED
      BY <3>1, <3>2
  <2>10. QED
    BY <1>4, <2>6, <2>8, <2>9 DEF PathInv
<1>8. QED
  BY <1>1, <1>6, <1>7

\* The sentinels of ~SimpleSwitch are no straight packets.
LEMMA DestroyKeeps ==
  ASSUME PathInv, SwDestroy \/ DestroyStep
  PROVE  PathInv'
<1>0. SwTypeOK /\ QueuesRouted /\ CallsRouted /\ InOrder /\ \A p \in Ports : PortInOrder(p)
  BY DEF PathInv
<1>a. /\ ~Straight(Sentinel) /\ NbEgress \in Nat \ {0} /\ down \in Nat
      /\ {CapHi, EgressCap, OutCap} \subseteq Nat
  BY <1>0, SwitchAssumption DEF Straight, Sentinel, SwTypeOK
<1>1. CASE SwDestroy
  <2>1. /\ down' = 1
        /\ UNCHANGED <<received, inVars, todo, exited, tm, egress_buffers, output_buffer,
                       transmit_exited, sent, session, copies>>
    BY <1>1 DEF SwDestroy, outVars
  <2>2. down' \in 0..JoinStage
    BY <1>a, <2>1 DEF JoinStage
  <2>3. SwTypeOK'
    BY <1>0, <2>1, <2>2 DEF SwTypeOK, inVars
  <2>4. QED
    BY <2>1, <2>3, NothingMoves
<1>2. CASE DestroyInput
  <2>1. /\ Len(queue_hi) < CapHi /\ queue_hi' = Append(queue_hi, Sentinel) /\ down' = 2
        /\ UNCHANGED <<received, queue_lo, todo, exited, tm, egress_buffers, output_buffer,
                       transmit_exited, sent, session, copies>>
    BY <1>2 DEF DestroyInput, PushHi, outVars
  <2>2. queue_hi \in Seq(Packet \cup {Sentinel}) /\ Sentinel \in Packet \cup {Sentinel}
    BY <1>0 DEF SwTypeOK
  <2>3. /\ queue_hi' \in Seq(Packet \cup {Sentinel}) /\ Len(queue_hi') <= CapHi
        /\ \A i \in DOMAIN queue_hi' : (i \in DOMAIN queue_hi /\ queue_hi'[i] = queue_hi[i])
                                       \/ queue_hi'[i] = Sentinel
    BY <1>a, <2>1, <2>2, AppendToQueue
  <2>4. down' \in 0..JoinStage
    BY <1>a, <2>1 DEF JoinStage
  <2>5. SwTypeOK'
    BY <1>0, <2>1, <2>3, <2>4 DEF SwTypeOK
  <2>6. QueuesRouted' /\ CallsRouted' /\ InOrder'
    BY <1>0, <2>1, <2>3 DEF QueuesRouted, CallsRouted, InOrder
  <2>7. ASSUME NEW p \in Ports PROVE PortInOrder(p)'
    BY <1>0, <2>1, PortOrdered
  <2>8. QED
    BY <2>5, <2>6, <2>7 DEF PathInv
<1>3. CASE DestroyEgress
  <2> DEFINE q == down - 2
             r == egress_buffers[q]
  <2>1. /\ q \in SwWorkers /\ Len(r) < EgressCap /\ down' = down + 1
        /\ egress_buffers' = [egress_buffers EXCEPT ![q] = Append(r, Sentinel)]
        /\ UNCHANGED <<received, queue_hi, queue_lo, todo, exited, tm, output_buffer,
                       transmit_exited, sent, session, copies>>
    BY <1>3 DEF DestroyEgress, outVars, inVars
  <2>2. q \in Ports /\ down' \in 0..JoinStage
    BY <1>a, <2>1, SwitchAssumption DEF SwWorkers, JoinStage
  <2>3. /\ egress_buffers \in [Ports -> Seq(Packet \cup {Sentinel})] /\ egress_buffers[q] = r
        /\ r \in Seq(Packet \cup {Sentinel}) /\ Sentinel \in Packet \cup {Sentinel}
    BY <1>0, <2>2 DEF SwTypeOK
  <2>4. /\ egress_buffers'[q] = Append(r, Sentinel)
        /\ \A p \in Ports : p # q => egress_buffers'[p] = egress_buffers[p]
    BY <2>1, <2>2, <2>3
  <2> HIDE DEF q, r
  <2>5. /\ Append(r, Sentinel) \in Seq(Packet \cup {Sentinel})
        /\ Len(Append(r, Sentinel)) <= EgressCap
        /\ \A i \in DOMAIN Append(r, Sentinel) :
             (i \in DOMAIN r /\ Append(r, Sentinel)[i] = r[i]) \/ Append(r, Sentinel)[i] = Sentinel
    BY <1>a, <2>1, <2>3, AppendToQueue
  <2>6. egress_buffers' \in [Ports -> Seq(Packet \cup {Sentinel})]
    BY <2>1, <2>2, <2>3, <2>5
  <2>7. ASSUME NEW p \in Ports
        PROVE  /\ Len(egress_buffers'[p]) <= EgressCap
               /\ \A i \in DOMAIN egress_buffers'[p] :
                    egress_buffers'[p][i] = Sentinel \/ egress_buffers'[p][i].port = p
    <3>1. CASE p = q
      BY <1>0, <2>3, <2>4, <2>5, <3>1 DEF QueuesRouted
    <3>2. CASE p # q
      BY <1>0, <2>4, <3>2 DEF SwTypeOK, QueuesRouted
    <3>3. QED
      BY <3>1, <3>2
  <2>8. SwTypeOK'
    BY <1>0, <2>1, <2>2, <2>6, <2>7 DEF SwTypeOK
  <2>9. QueuesRouted' /\ CallsRouted' /\ InOrder'
    BY <1>0, <2>1, <2>7 DEF QueuesRouted, CallsRouted, InOrder
  <2>10. ASSUME NEW p \in Ports PROVE PortInOrder(p)'
    <3>0. PICK v \in SwWorkers : v = EgressThreadMapper(p)
      BY OldOrder
    <3>1. Increasing(egress_buffers'[p], p)
          /\ StraightIds(egress_buffers'[p], p) \subseteq StraightIds(egress_buffers[p], p)
      <4>1. Increasing(egress_buffers[p], p)
        BY OldOrder
      <4>2. CASE p = q
        <5>1. Increasing(r, p)
          BY <2>3, <4>1, <4>2
        <5>2. Increasing(Append(r, Sentinel), p)
              /\ StraightIds(Append(r, Sentinel), p) \subseteq StraightIds(r, p)
          BY <1>a, <2>3, <5>1, AppendIds
        <5>3. QED
          BY <2>3, <2>4, <4>2, <5>2
      <4>3. CASE p # q
        BY <2>4, <4>1, <4>3
      <4>4. QED
        BY <4>2, <4>3
    <3>2. PortStep(0, p, v)
      BY <2>1, <3>1 DEF PortStep, StageStep
    <3>3. QED
      BY <2>1, <3>0, <3>1, <3>2, OldOrder, PortKeeps
  <2>11. QED
    BY <2>8, <2>9, <2>10 DEF PathInv
<1>4. CASE DestroyOutput
  <2>1. /\ Len(output_buffer) < OutCap /\ output_buffer' = Append(output_buffer, Sentinel)
        /\ down' = JoinStage
        /\ UNCHANGED <<received, queue_hi, queue_lo, todo, exited, tm, egress_buffers,
                       transmit_exited, sent, session, copies>>
    BY <1>4 DEF DestroyOutput, inVars
  <2>2. /\ output_buffer \in Seq(Packet \cup {Sentinel}) /\ Sentinel \in Packet \cup {Sentinel}
    BY <1>0 DEF SwTypeOK
  <2>3. /\ output_buffer' \in Seq(Packet \cup {Sentinel}) /\ Len(output_buffer') <= OutCap
        /\ \A i \in DOMAIN output_buffer' :
             (i \in DOMAIN output_buffer /\ output_buffer'[i] = output_buffer[i])
             \/ output_buffer'[i] = Sentinel
    BY <1>a, <2>1, <2>2, AppendToQueue
  <2>4. down' \in 0..JoinStage
    BY <1>a, <2>1 DEF JoinStage
  <2>5. SwTypeOK'
    BY <1>0, <2>1, <2>3, <2>4 DEF SwTypeOK
  <2>6. QueuesRouted' /\ CallsRouted' /\ InOrder'
    BY <1>0, <2>1, <2>3 DEF QueuesRouted, CallsRouted, InOrder
  <2>7. ASSUME NEW p \in Ports PROVE PortInOrder(p)'
    <3>0. PICK v \in SwWorkers : v = EgressThreadMapper(p)
      BY OldOrder
    <3>1. Increasing(output_buffer', p)
          /\ StraightIds(output_buffer', p) \subseteq StraightIds(output_buffer, p)
      <4>1. Increasing(output_buffer, p)
        BY OldOrder
      <4>2. QED
        BY <1>a, <2>1, <2>2, <4>1, AppendIds
    <3>2. PortStep(0, p, v)
      BY <2>1, <3>1 DEF PortStep, StageStep
    <3>3. QED
      BY <2>1, <3>0, <3>1, <3>2, OldOrder, PortKeeps
  <2>8. QED
    BY <2>5, <2>6, <2>7 DEF PathInv
<1>5. QED
  BY <1>1, <1>2, <1>3, <1>4 DEF DestroyStep

-----------------------------------------------------------------------------
\* The switch starts empty.
LEMMA PathInit == SwInit => PathInv
<1> SUFFICES ASSUME SwInit PROVE PathInv
  OBVIOUS
<1>1. SwTypeOK
  <2>0. /\ 0 \in 0..NbPkts /\ 0 \in 0..MaxCopies /\ 0 \in 0..JoinStage
        /\ {CapHi, CapLo, EgressCap, OutCap} \subseteq Nat
    BY SwitchAssumption DEF JoinStage
  <2>1. /\ \A S : <<>> \in Seq(S) /\ Len(<<>>) = 0
    OBVIOUS
  <2>2. transmit_exited \in BOOLEAN /\ exited \subseteq Threads
    BY DEF SwInit
  <2>3. /\ todo \in [Threads -> Seq([op : {"enqueue", "input", "output"}, pkt : Packet])]
        /\ tm \in [SwWorkers -> Seq(Packet)] /\ sent \in [Ports -> Seq(1..NbPkts)]
        /\ egress_buffers \in [Ports -> Seq(Packet \cup {Sentinel})]
        /\ \A p \in Ports : Len(egress_buffers[p]) <= EgressCap
    BY <2>0, <2>1 DEF SwInit
  <2>4. QED
    BY <2>0, <2>1, <2>2, <2>3 DEF SwInit, SwTypeOK
<1>2. QueuesRouted /\ InOrder
  BY DEF SwInit, QueuesRouted, InOrder
<1>3. CallsRouted
  BY DEF SwInit, CallsRouted, CallsOK
<1>4. ASSUME NEW p \in Ports PROVE PortInOrder(p)
  <2>0. EgressThreadMapper(p) \in SwWorkers /\ EgressThreadMapper(p) \in Threads
    BY MapperWorker, ThreadFacts
  <2>1. /\ sent[p] = <<>> /\ egress_buffers[p] = <<>> /\ output_buffer = <<>> /\ queue_lo = <<>>
        /\ todo[Ingress] = <<>> /\ tm[EgressThreadMapper(p)] = <<>>
        /\ todo[EgressThreadMapper(p)] = <<>>
    BY <2>0, ThreadFacts DEF SwInit
  <2>2. /\ \A s, q : s = <<>> => Increasing(s, q) /\ StraightIds(s, q) = {} /\ CallIds(s, q) = {}
        /\ {sent[p][i] : i \in DOMAIN sent[p]} = {}
    BY <2>1 DEF Increasing, StraightIds, CallIds
  <2>3. StagesInOrder({}, {}, {}, {}, {}, {}, {}, received)
    BY DEF StagesInOrder, Before
  <2> HIDE DEF SwInit
  <2>4. QED
    BY <2>1, <2>2, <2>3 DEF PortInOrder
<1>5. QED
  BY <1>1, <1>2, <1>3, <1>4 DEF PathInv

\* PathInv is an invariant of the packet path.
THEOREM PathInvariant == SwSpec => []PathInv
<1>1. PathInv /\ [SwNext]_swVars => PathInv'
  <2> SUFFICES ASSUME PathInv, [SwNext]_swVars PROVE PathInv'
    OBVIOUS
  <2>1. ASSUME NEW s \in Sessions \cup {NoSession}, MirroringSession(s) PROVE PathInv'
    <3>1. /\ session' = s
          /\ UNCHANGED <<received, inVars, todo, exited, tm, egress_buffers, output_buffer,
                         transmit_exited, sent, copies, down>>
      BY <2>1 DEF MirroringSession, outVars
    <3>2. SwTypeOK'
      BY <3>1 DEF PathInv, SwTypeOK, inVars
    <3>3. QED
      BY <3>1, <3>2, NothingMoves
  <2>2. CASE UNCHANGED swVars
    <3>1. UNCHANGED <<received, inVars, todo, exited, tm, egress_buffers, output_buffer,
                      transmit_exited, sent, session, copies, down>>
      BY <2>2 DEF swVars, outVars
    <3>2. SwTypeOK'
      BY <3>1 DEF PathInv, SwTypeOK, inVars
    <3>3. QED
      BY <3>1, <3>2, NothingMoves
  <2>3. CASE IngressStep
    BY <2>3, IngressPopKeeps, EnqueueKeeps, PushInputKeeps, ThreadFacts DEF IngressStep
  <2>4. ASSUME NEW w \in SwWorkers, EgressStep(w) \/ TmRelease(w) PROVE PathInv'
    <3>1. w \in Threads
      BY ThreadFacts
    <3>2. QED
      BY <2>4, <3>1, EgressPopKeeps, EnqueueKeeps, PushInputKeeps, PushOutputKeeps,
         TmReleaseKeeps DEF EgressStep
  <2>5. QED
    BY <2>1, <2>2, <2>3, <2>4, ReceiveKeeps, TransmitKeeps, DestroyKeeps DEF SwNext
<1>2. QED
  BY <1>1, PathInit, PTL DEF SwSpec

\* The unicast packets of every port leave in the order in which they came in and
\* no queue exceeds its capacity, for any number of packets, ports, threads and
\* copies and any capacities (simple_switch.cpp).
THEOREM PathsStayInOrder == SwSpec => []PathsInOrder
<1>1. PathInv => PathsInOrder
  BY DEF PathInv, PathsInOrder
<1>2. QED
  BY <1>1, PathInvariant, PTL
=============================================================================
