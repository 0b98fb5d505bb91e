--------------------------- MODULE PacketHeaders ---------------------------
(***************************************************************************)
(* The headers of a packet: parser.cpp, headers.cpp, header_unions.h,       *)
(* stacks.cpp, phv.cpp, deparser.cpp and the primitives of                 *)
(* core/primitives.cpp that change validity.                                *)
(*                                                                         *)
(* A PHV holds header instances, unions of headers, stacks of headers and  *)
(* stacks of unions.  Validity is kept three times: in the header, in its  *)
(* hidden field $valid$ that expressions and tables read, and in the union *)
(* that remembers which of its headers is the valid one.  The parser       *)
(* extracts headers from the packet, actions add, remove, assign, push and *)
(* pop them, the packet may be cloned, the deparser emits the valid ones,  *)
(* and the PHV goes back to the pool for another packet.                   *)
(***************************************************************************)
EXTENDS Naturals, Sequences

CONSTANTS
  PhFixed,        \* headers of no stack and no union; the first byte is fixed
  PhStack,        \* the headers of the header stack, in order
  PhUnions,       \* the unions of the stack of unions, in order: their headers
  PhOrder,        \* the headers the deparser emits, in order
  PhPackets,      \* the packets that arrive: sequences of bytes
  PhBuilds,       \* "p4_16" and "legacy": BM_WP4_16_STACKS or not
  PhMaxOps        \* bound on the operations on the packets of a run

VARIABLES
  phv,            \* [hdr, next, un]: the headers, the stacks' next, the unions
  phCopy,         \* the PHV of a clone
  phData,         \* the packet's bytes that are not parsed
  phPos,          \* bytes_parsed
  phStage,        \* "idle", "parse", "process", "done"
  phBuild,        \* the implementation of push_front and pop_front
  phOps           \* operations done

phVars == <<phv, phCopy, phData, phPos, phStage, phBuild, phOps>>

UnionIds == 1..Len(PhUnions)
Positions == 1..Len(PhUnions[1])
StackHeaders == {PhStack[i] : i \in 1..Len(PhStack)}
HeadersOf(u) == {PhUnions[u][k] : k \in Positions}
UnionHeaders == UNION {HeadersOf(u) : u \in UnionIds}
AllHeaders == PhFixed \cup StackHeaders \cup UnionHeaders
Stacks == {"headers", "unions"}
Depth(s) == IF s = "headers" THEN Len(PhStack) ELSE Len(PhUnions)

\* The unions of a stack are of one type, and a header is in one place.
ASSUME HeadersAssumption ==
  /\ PhStack \in Seq(StackHeaders) /\ PhOrder \in Seq(AllHeaders)
  /\ PhUnions \in Seq(Seq(UnionHeaders)) /\ PhUnions # <<>>
  /\ \A u \in UnionIds : Len(PhUnions[u]) = Len(PhUnions[1]) /\ PhUnions[u] # <<>>
  /\ \A i, j \in 1..Len(PhStack) : PhStack[i] = PhStack[j] => i = j
  /\ \A u, v \in UnionIds, k, l \in Positions :
       PhUnions[u][k] = PhUnions[v][l] => u = v /\ k = l
  /\ StackHeaders \cap UnionHeaders = {}
  /\ PhPackets \subseteq Seq(Nat) /\ PhMaxOps \in Nat

NoHeader == [valid |-> FALSE, bit |-> 0, bytes |-> <<>>]
NoPhv == [hdr |-> [h \in AllHeaders |-> NoHeader],
          next |-> [s \in Stacks |-> 0],
          un |-> [u \in UnionIds |-> [valid |-> FALSE, idx |-> 1]]]

PhInit ==
  /\ phv = NoPhv /\ phCopy = NoPhv
  /\ phData = <<>> /\ phPos = 0 /\ phStage = "idle" /\ phBuild = "p4_16" /\ phOps = 0

-----------------------------------------------------------------------------
\* Headers and unions.  set_union_membership: the union of a header and its index.
UnionOf(h) == CHOOSE u \in UnionIds : h \in HeadersOf(u)
IdxOf(h) == CHOOSE k \in Positions : PhUnions[UnionOf(h)][k] = h

\* A header with its validity, the hidden field included, set to v.
Marked(x, v) == [valid |-> v, bit |-> IF v THEN 1 ELSE 0, bytes |-> x.bytes]

\* Header::mark_invalid and HeaderUnion::make_header_invalid.
MarkInvalid(p, h) ==
  LET q == [p EXCEPT !.hdr[h] = Marked(@, FALSE)]
      u == UnionOf(h)
  IN IF h \in UnionHeaders /\ p.un[u].valid /\ p.un[u].idx = IdxOf(h)
     THEN [q EXCEPT !.un[u] = [valid |-> FALSE, idx |-> @.idx]]
     ELSE q

\* A mutation of MakeHeaderValid: the other header stays valid.
MakeHeaderValidOnly(p, u, k) == [p EXCEPT !.un[u] = [valid |-> TRUE, idx |-> k]]

\* HeaderUnion::make_header_valid.
MakeHeaderValid(p, u, k) ==
  LET q == IF p.un[u].valid /\ p.un[u].idx # k
           THEN MarkInvalid(p, PhUnions[u][p.un[u].idx]) ELSE p
  IN [q EXCEPT !.un[u] = [valid |-> TRUE, idx |-> k]]

\* Header::mark_valid.
MarkValid(p, h) ==
  LET q == [p EXCEPT !.hdr[h] = Marked(@, TRUE)]
  IN IF h \in UnionHeaders THEN MakeHeaderValid(q, UnionOf(h), IdxOf(h)) ELSE q

\* a and b exchanged.
Exchanged(x, a, b) == IF x = a THEN b ELSE IF x = b THEN a ELSE x

\* Header::swap_values with Field::swap_values, the hidden field included.
SwapHeaders(p, g, h) ==
  [p EXCEPT !.hdr = [f \in AllHeaders |-> p.hdr[Exchanged(f, g, h)]]]

\* HeaderUnion::swap_values: the headers at each position exchange their values.
SwapUnions(p, u, v) ==
  [p EXCEPT !.un = [w \in UnionIds |-> p.un[Exchanged(w, u, v)]],
            !.hdr = [h \in AllHeaders |->
                       IF h \in UnionHeaders
                       THEN p.hdr[PhUnions[Exchanged(UnionOf(h), u, v)][IdxOf(h)]]
                       ELSE p.hdr[h]]]

-----------------------------------------------------------------------------
\* Stacks; elements are numbered from 0.
Swap(p, s, i, j) ==
  IF s = "headers" THEN SwapHeaders(p, PhStack[i + 1], PhStack[j + 1])
  ELSE SwapUnions(p, i + 1, j + 1)

\* mark_valid and mark_invalid of an element: no-ops for a union.
ElementValid(p, s, i) == IF s = "headers" THEN MarkValid(p, PhStack[i + 1]) ELSE p
ElementInvalid(p, s, i) == IF s = "headers" THEN MarkInvalid(p, PhStack[i + 1]) ELSE p

Smaller(a, b) == IF a < b THEN a ELSE b

\* The loop of push_front: from element top - 1 down to element n.
PushShift(p, s, n, top) ==
  LET q[k \in 0..top - n] ==
        IF k = 0 THEN p ELSE Swap(q[k - 1], s, top - k, top - k - n)
  IN q[top - n]

\* The loop of pop_front: elements 0 to top - 1.
PopShift(p, s, n, top) ==
  LET q[k \in 0..top] == IF k = 0 THEN p ELSE Swap(q[k - 1], s, k - 1, k - 1 + n)
  IN q[top]

\* Elements a to a + n - 1, one after the other.
ElementsValid(p, s, a, n) ==
  LET q[k \in 0..n] == IF k = 0 THEN p ELSE ElementValid(q[k - 1], s, a + k - 1)
  IN q[n]
ElementsInvalid(p, s, a, n) ==
  LET q[k \in 0..n] == IF k = 0 THEN p ELSE ElementInvalid(q[k - 1], s, a + k - 1)
  IN q[n]

WithNext(p, s, next) == [p EXCEPT !.next[s] = next]

\* StackP4_16<T>::push_front(num); num is at most the depth (see pop_front).
PushFrontP4_16(p, s, n) ==
  ElementsInvalid(WithNext(PushShift(p, s, n, Depth(s)), s, Smaller(Depth(s), p.next[s] + n)),
                  s, 0, n)

\* StackLegacy<T>::push_front(num).
PushFrontLegacy(p, s, n) ==
  LET top == Smaller(Depth(s), p.next[s] + n)
  IN ElementsValid(WithNext(PushShift(p, s, n, top), s, top), s, 0, n)

\* StackP4_16<T>::pop_front(num); size - num wraps round when num > size.
PopFrontP4_16(p, s, n) ==
  ElementsInvalid(WithNext(PopShift(p, s, n, Depth(s) - n), s, p.next[s] - Smaller(p.next[s], n)),
                  s, Depth(s) - n, n)

\* StackLegacy<T>::pop_front(num).
PopFrontLegacy(p, s, n) ==
  LET popped == Smaller(p.next[s], n)
      top == p.next[s] - popped
  IN ElementsInvalid(WithNext(PopShift(p, s, n, top), s, top), s, top, popped)

PushFront(p, s, n, build) ==
  IF build = "p4_16" THEN PushFrontP4_16(p, s, n) ELSE PushFrontLegacy(p, s, n)
PopFront(p, s, n, build) ==
  IF build = "p4_16" THEN PopFrontP4_16(p, s, n) ELSE PopFrontLegacy(p, s, n)

\* Stack<T>::push_back, after an extraction.
PushBack(p, s) == WithNext(ElementValid(p, s, p.next[s]), s, p.next[s] + 1)

-----------------------------------------------------------------------------
\* core::assign_header; the types are asserted to be the same.
AssignHeader(p, dst, src) ==
  IF ~p.hdr[src].valid THEN MarkInvalid(p, dst)
  ELSE LET q == MarkValid(p, dst)
       IN [q EXCEPT !.hdr[dst] = [valid |-> @.valid, bit |-> q.hdr[src].bit,
                                  bytes |-> q.hdr[src].bytes]]

\* core::assign_union.
AssignUnion(p, u, v) ==
  LET q[k \in 0..Len(PhUnions[1])] ==
        IF k = 0 THEN p ELSE AssignHeader(q[k - 1], PhUnions[u][k], PhUnions[v][k])
  IN q[Len(PhUnions[1])]

\* PHV::copy_headers: the fields of headers that are not valid are not copied,
\* the hidden field included.
CopyHeaders(dst, src) ==
  [hdr |-> [h \in AllHeaders |->
              IF src.hdr[h].valid THEN src.hdr[h]
              ELSE [valid |-> FALSE, bit |-> dst.hdr[h].bit, bytes |-> dst.hdr[h].bytes]],
   next |-> src.next, un |-> src.un]

\* PHV::reset and reset_header_stacks: every header is marked invalid, and so is
\* the union whose valid header it is; reset_VL_header shortens the header.
ResetPhv(p) ==
  [hdr |-> [h \in AllHeaders |->
              [valid |-> FALSE, bit |-> 0,
               bytes |-> SubSeq(p.hdr[h].bytes, 1, Smaller(1, Len(p.hdr[h].bytes)))]],
   next |-> [s \in Stacks |-> 0],
   un |-> [u \in UnionIds |-> [valid |-> FALSE, idx |-> p.un[u].idx]]]

-----------------------------------------------------------------------------
\* The parser.  Header::get_nbytes_packet: one byte and what a variable-length
\* field holds from the last extraction.
NBytes(p, h) == IF p.hdr[h].bytes = <<>> THEN 1 ELSE Len(p.hdr[h].bytes)

\* A packet is received and parsing starts: the error code is reset.
ParsePacket(data, build) ==
  /\ phStage = "idle"
  /\ phData' = data /\ phBuild' = build /\ phPos' = 0
  /\ phStage' = "parse" /\ phOps < PhMaxOps
  /\ UNCHANGED <<phv, phCopy, phOps>>

\* Parser::parse: the loop ends, in the end state or with an error, and the
\* bytes parsed are removed from the packet.
EndParse(p, pos) ==
  /\ phData' = SubSeq(phData, pos + 1, Len(phData))
  /\ phPos' = 0 /\ phStage' = "process" /\ phv' = p

Fails == EndParse(phv, phPos)

\* The length checks.  get_ingress_length, which extract_VL, shift and advance
\* use, is the size of the data when a packet is received or recirculated.
Enough(n) == Len(phData) - phPos >= n

\* Header::extract and extract_VL, from the current position.
Extracted(p, h, n) ==
  MarkValid([p EXCEPT !.hdr[h] = [valid |-> @.valid, bit |-> @.bit,
                                  bytes |-> SubSeq(phData, phPos + 1, phPos + n)]], h)

Parsing == phStage = "parse" /\ phOps < PhMaxOps
OneOp == phOps' = phOps + 1 /\ UNCHANGED <<phCopy, phBuild>>
Advance(p, n) ==
  phv' = p /\ phPos' = phPos + n /\ UNCHANGED <<phData, phStage>>

\* ParserOpExtract; a header with a variable-length field and its own length
\* expression is extracted with its computed length.
ParserOpExtract(h) ==
  /\ Parsing /\ OneOp
  /\ IF Enough(NBytes(phv, h))
     THEN Advance(Extracted(phv, h, NBytes(phv, h)), NBytes(phv, h))
     ELSE Fails

\* ParserOpExtractVL: n bytes of variable length.  The check counts what
\* get_nbytes_packet returns before the extraction.
ParserOpExtractVL(h, n) ==
  /\ Parsing /\ OneOp
  /\ IF Enough(NBytes(phv, h) + n)
     THEN Advance(Extracted(phv, h, 1 + n), 1 + n)
     ELSE Fails

\* ParserOpExtractStack and ParserOpExtractUnionStack.
ParserOpExtractStack(s, k) ==
  LET i == phv.next[s]
      h == IF s = "headers" THEN PhStack[i + 1] ELSE PhUnions[i + 1][k]
  IN /\ Parsing /\ OneOp
     /\ CASE i >= Depth(s) -> Fails
          [] i < Depth(s) /\ ~Enough(NBytes(phv, h)) -> Fails
          [] OTHER ->
               Advance(PushBack(Extracted(phv, h, NBytes(phv, h)), s), NBytes(phv, h))

\* ParserOpShift, ParserOpAdvance.
ParserOpShift(n) ==
  /\ Parsing /\ OneOp
  /\ IF Enough(n) THEN Advance(phv, n) ELSE Fails

\* ParserOpVerify with a false condition.
ParserOpVerify == Parsing /\ OneOp /\ Fails

\* find_next_state: no next state.
Accept ==
  /\ phStage = "parse"
  /\ EndParse(phv, phPos)
  /\ UNCHANGED <<phCopy, phBuild, phOps>>

-----------------------------------------------------------------------------
\* The actions of the pipelines.
Process(p) ==
  /\ phStage = "process" /\ phOps < PhMaxOps
  /\ phv' = p /\ phOps' = phOps + 1
  /\ UNCHANGED <<phCopy, phData, phPos, phStage, phBuild>>

SetValid(h) == Process(MarkValid(phv, h))
SetInvalid(h) == Process(MarkInvalid(phv, h))
PushOp(s, n) == Process(PushFront(phv, s, n, phBuild))
PopOp(s, n) == Process(PopFront(phv, s, n, phBuild))
\* Two headers of a stack, or of two unions at the same position.
SameType(g, h) ==
  \/ {g, h} \subseteq StackHeaders
  \/ {g, h} \subseteq UnionHeaders /\ IdxOf(g) = IdxOf(h)
AssignOp(dst, src) == SameType(dst, src) /\ Process(AssignHeader(phv, dst, src))
AssignUnionOp(u, v) == Process(AssignUnion(phv, u, v))

\* Packet::clone_with_phv: the clone's PHV comes from the pool.
CloneOp ==
  /\ phStage = "process" /\ phOps < PhMaxOps
  /\ phCopy' = CopyHeaders(ResetPhv(phCopy), phv)
  /\ phOps' = phOps + 1
  /\ UNCHANGED <<phv, phData, phPos, phStage, phBuild>>

\* Deparser::deparse: the valid headers in front of the payload.
Emitted(p) ==
  LET out[i \in 0..Len(PhOrder)] ==
        IF i = 0 THEN <<>>
        ELSE out[i - 1] \o (IF p.hdr[PhOrder[i]].valid THEN p.hdr[PhOrder[i]].bytes ELSE <<>>)
  IN out[Len(PhOrder)]
Deparse ==
  /\ phStage = "process"
  /\ phData' = Emitted(phv) \o phData
  /\ phStage' = "done"
  /\ UNCHANGED <<phv, phCopy, phPos, phBuild, phOps>>

\* The packet is destroyed: PHVPool::release.
ReleasePhv ==
  /\ phStage = "done"
  /\ phv' = ResetPhv(phv)
  /\ phStage' = "idle" /\ phData' = <<>>
  /\ UNCHANGED <<phCopy, phPos, phBuild, phOps>>

PhNext ==
  \/ \E data \in PhPackets, build \in PhBuilds : ParsePacket(data, build)
  \/ \E h \in PhFixed : ParserOpExtract(h) \/ ParserOpExtractVL(h, 1)
  \/ ParserOpExtractStack("headers", 1)
  \/ \E k \in Positions : ParserOpExtractStack("unions", k)
  \/ ParserOpShift(1) \/ ParserOpVerify \/ Accept
  \/ \E h \in AllHeaders : SetValid(h) \/ SetInvalid(h)
  \/ \E s \in Stacks : \E n \in 1..Depth(s) : PushOp(s, n) \/ PopOp(s, n)
  \/ \E dst, src \in AllHeaders : AssignOp(dst, src)
  \/ \E u, v \in UnionIds : AssignUnionOp(u, v)
  \/ CloneOp \/ Deparse \/ ReleasePhv

PhSpec == PhInit /\ [][PhNext]_phVars

-----------------------------------------------------------------------------
\* The parser never runs past the end of the packet.
PhTypeOK ==
  /\ phPos <= Len(phData)
  /\ phStage \in {"idle", "parse", "process", "done"}
  /\ \A s \in Stacks : phv.next[s] \in 0..Depth(s)

\* At most one header of a union is valid and the union knows which one; the
\* hidden field of every header agrees with its validity.
Agrees(p) ==
  /\ \A h \in AllHeaders : p.hdr[h].bit = (IF p.hdr[h].valid THEN 1 ELSE 0)
  /\ \A u \in UnionIds, k \in Positions :
       p.hdr[PhUnions[u][k]].valid <=> (p.un[u].valid /\ p.un[u].idx = k)

\* At most one header of a union is valid, the union knows which one, and the
\* hidden field of every header agrees with its validity, in the PHV of the
\* packet and in the one of its clone, whatever was extracted, pushed, popped,
\* assigned and copied and whatever packet used the PHV before ("ensures that at
\* most one of these instances is valid at any given time", header_unions.h).
ValidityAgrees == Agrees(phv) /\ Agrees(phCopy)

\* What an element of a stack holds.
ElementOf(s, i) == IF s = "headers" THEN <<PhStack[i + 1]>> ELSE PhUnions[i + 1]
HeldIn(x) == IF x.valid THEN <<x.bytes>> ELSE <<>>
Content(p, s, i) ==
  [k \in 1..Len(ElementOf(s, i)) |-> HeldIn(p.hdr[ElementOf(s, i)[k]])]

\* Pushing and popping move every element that stays by that many places, by
\* exchanging elements one after the other (StackP4_16, StackLegacy).
ShiftKeepsElements ==
  phStage = "process" /\ phStage' = "process" /\ phCopy' = phCopy =>
     \A s \in Stacks : \A n \in 1..Depth(s) :
       /\ PushOp(s, n) => \A i \in n..phv'.next[s] - 1 :
                            Content(phv', s, i) = Content(phv, s, i - n)
       /\ PopOp(s, n) => \A i \in 0..Depth(s) - 1 - n :
                           i + n < phv.next[s] =>
                             Content(phv', s, i) = Content(phv, s, i + n)

\* Every operation keeps validity consistent and keeps what the elements of a
\* stack hold when it moves them (headers.h, stacks.h, header_unions.h).
HeadersSound == [][PhTypeOK' /\ ValidityAgrees' /\ ShiftKeepsElements]_phVars

-----------------------------------------------------------------------------
\* The PHVs there can be.
Headers == [valid : BOOLEAN, bit : {0, 1}, bytes : Seq(Nat)]
Phvs == [hdr : [AllHeaders -> Headers], next : [Stacks -> Nat],
         un : [UnionIds -> [valid : BOOLEAN, idx : Positions]]]

\* Both PHVs are consistent, no stack is longer than its depth, and the parser
\* is inside the packet and counts bytes only while it parses.
HeadersInv ==
  /\ phv \in Phvs /\ phCopy \in Phvs /\ Agrees(phv) /\ Agrees(phCopy)
  /\ \A s \in Stacks : phv.next[s] \in 0..Depth(s)
  /\ phData \in Seq(Nat) /\ phPos \in Nat /\ phPos <= Len(phData)
  /\ phStage \in {"idle", "parse", "process", "done"}
  /\ phStage # "parse" => phPos = 0

=============================================================================
