--------------------------- MODULE ParseValueSet ---------------------------
(***************************************************************************)
(* The select of a parse state and the value sets it may refer to: the     *)
(* ParseVSet and ParseSwitchCase classes of parser.cpp.                     *)
(*                                                                         *)
(* A value set keeps its values once as the client gave them (the base)    *)
(* and once for each select case that uses it (a shadow), in the form the  *)
(* case compares with its key: every field padded to bytes, and masked.    *)
(* Clients update all the copies one after the other under shadows_mutex,  *)
(* which the parser does not take.                                         *)
(***************************************************************************)
EXTENDS Naturals, Sequences

CONSTANTS
  VsThreads,      \* threads that serve clients
  VsByte,         \* bits in a byte
  VsWidths,       \* the widths of the fields of the select's key
  VsValues,       \* the values clients use, of as many bits as the fields have
  VsMasks         \* for each select case, its mask or <<>>

VARIABLES
  vsCopies,       \* the base, copy 1, and the shadow of case i, copy i + 1
  vsOwner,        \* who holds shadows_mutex
  vsThread        \* what every thread is doing

vsVars == <<vsCopies, vsOwner, vsThread>>

VsNobody == "nobody"
VsIdle == [op |-> "none", value |-> <<>>, at |-> 0]
Copies == 1..Len(VsMasks) + 1
Fields == 1..Len(VsWidths)

\* The number of bits of the bytes that hold n bits.
ByteBitsOf(n) == ((n + VsByte - 1) \div VsByte) * VsByte

\* Where each field ends in a value a client sends, and in a key, where every
\* field has bytes of its own (compute_width).
FieldEnd[f \in 0..Len(VsWidths)] == IF f = 0 THEN 0 ELSE FieldEnd[f - 1] + VsWidths[f]
KeyEnd[f \in 0..Len(VsWidths)] ==
  IF f = 0 THEN 0 ELSE KeyEnd[f - 1] + ByteBitsOf(VsWidths[f])

VsBits == FieldEnd[Len(VsWidths)]
KeyBits == KeyEnd[Len(VsWidths)]
AllValues == [1..VsBits -> {0, 1}]

\* The fields have a width, the masks that of the key.
ASSUME ValueSetAssumption ==
  /\ VsByte \in Nat \ {0}
  /\ VsWidths \in Seq(Nat \ {0}) /\ VsWidths # <<>>
  /\ VsMasks \in Seq({<<>>} \cup [1..KeyBits -> {0, 1}])
  /\ VsValues \subseteq AllValues
  /\ VsNobody \notin VsThreads

Zeros(n) == [i \in 1..n |-> 0]

VsInit ==
  /\ vsCopies = [c \in Copies |-> {}]
  /\ vsOwner = VsNobody
  /\ vsThread = [t \in VsThreads |-> VsIdle]

-----------------------------------------------------------------------------
\* The value a client sends: its bits at the end of as few bytes as hold them.
Compressed(value) == Zeros(ByteBitsOf(VsBits) - VsBits) \o value

\* The field whose bytes hold position p of a key.
FieldAt(p) == CHOOSE f \in Fields : KeyEnd[f - 1] < p /\ p <= KeyEnd[f]

\* extract::generic_extract for each field in turn: the fields of v, the first
\* one after offset bits, each at the end of bytes of its own.
InBytes(v, offset) ==
  [p \in 1..KeyBits |->
     LET f == FieldAt(p)
         i == p - (KeyEnd[f] - VsWidths[f])
     IN IF i > 0 THEN v[offset + FieldEnd[f - 1] + i] ELSE 0]

\* ParseVSetCommon::do_padding: each field of v moves to bytes of its own.
DoPadding(v) == IF Len(VsWidths) = 1 THEN v ELSE InBytes(v, Len(v) - VsBits)

\* ParseVSetMask::transform_imp, and nothing for ParseVSetNoMask.
TransformInput(mask, v) ==
  IF mask = <<>> THEN v ELSE [i \in 1..Len(v) |-> v[i] * mask[i]]

\* How copy c stores a value: the base stores it unmodified.
Stored(c, v) ==
  IF c = 1 THEN v ELSE TransformInput(VsMasks[c - 1], DoPadding(v))

\* ParseVSetCommon::add, remove and clear, under the copy's own mutex.
CopyOp(set, c, op, v) ==
  CASE op = "add" -> set \cup {Stored(c, v)}
    [] op = "remove" -> set \ {Stored(c, v)}
    [] op = "clear" -> {}

-----------------------------------------------------------------------------
\* Context::parse_vset_add, parse_vset_remove, parse_vset_clear.
Call(t, op, value) ==
  /\ vsThread[t] = VsIdle
  /\ vsThread' = [vsThread EXCEPT ![t] =
                    [op |-> op, value |-> Compressed(value), at |-> 0]]
  /\ UNCHANGED <<vsCopies, vsOwner>>

\* A mutation of ShadowsLock: the copies are updated without shadows_mutex.
ShadowsLockNone(t) ==
  /\ vsThread[t].op # "none" /\ vsThread[t].at = 0
  /\ vsThread' = [vsThread EXCEPT ![t].at = 1]
  /\ UNCHANGED <<vsCopies, vsOwner>>

\* ParseVSet::add, remove, clear take shadows_mutex.
ShadowsLock(t) ==
  /\ vsThread[t].op # "none" /\ vsThread[t].at = 0
  /\ vsOwner = VsNobody
  /\ vsOwner' = t
  /\ vsThread' = [vsThread EXCEPT ![t].at = 1]
  /\ UNCHANGED vsCopies

\* The loop over the shadows; the lock is released when it ends.
ShadowStep(t) ==
  LET c == vsThread[t].at
      last == c = Len(VsMasks) + 1
  IN /\ c \in Copies
     /\ vsCopies' = [vsCopies EXCEPT ![c] = CopyOp(@, c, vsThread[t].op, vsThread[t].value)]
     /\ vsThread' = [vsThread EXCEPT ![t] = IF last THEN VsIdle ELSE [@ EXCEPT !.at = c + 1]]
     /\ vsOwner' = IF last THEN VsNobody ELSE vsOwner

VsNext ==
  \E t \in VsThreads :
    \/ \E op \in {"add", "remove"}, value \in VsValues : Call(t, op, value)
    \/ Call(t, "clear", Zeros(VsBits))
    \/ ShadowsLock(t) \/ ShadowStep(t)

VsSpec == VsInit /\ [][VsNext]_vsVars

-----------------------------------------------------------------------------
\* ParseSwitchKeyBuilder: the bytes of every field of the key.
BuildKey(value) == InBytes(value, 0)

\* ParseSwitchCaseVSet::match, ParseVSetCommon::contains.
CaseMatches(c, key) == TransformInput(VsMasks[c - 1], key) \in vsCopies[c]

-----------------------------------------------------------------------------
\* Every copy holds values of its width (the assertion of add and remove).
VsTypeOK ==
  /\ vsOwner \in VsThreads \cup {VsNobody}
  /\ \A c \in Copies : \A v \in vsCopies[c] :
       Len(v) = IF c = 1 THEN ByteBitsOf(VsBits) ELSE KeyBits

\* The values of the base that case c cannot tell from value.
Alike(c, value) ==
  {v \in AllValues : /\ Compressed(v) \in vsCopies[1]
                     /\ TransformInput(VsMasks[c - 1], BuildKey(v)) =
                          TransformInput(VsMasks[c - 1], BuildKey(value))}

\* When no client is updating the set, every unmasked case matches the keys whose
\* fields make up a value of the base, and no others, and a masked case matches
\* nothing but keys that agree under the mask with some value: "if no mutex we
\* can have inconsistent results accross shadow copies" (parser.h, ParseVSet).
CopiesAgree ==
  (\A t \in VsThreads : vsThread[t].at = 0) =>
    \A c \in Copies \ {1}, value \in AllValues :
      /\ CaseMatches(c, BuildKey(value)) => Alike(c, value) # {}
      /\ VsMasks[c - 1] = <<>> /\ Alike(c, value) # {} => CaseMatches(c, BuildKey(value))

\* The copies of a parse value set have their widths at any time, and agree
\* between two requests (parser.cpp, ParseVSet and ParseVSetCommon).
ValueSetsAgree == VsTypeOK /\ CopiesAgree

-----------------------------------------------------------------------------
\* What one update does to the copies, one after the other.

Sent == {Compressed(v) : v \in AllValues}
Requests == [op : {"add", "remove", "clear"}, value : Sent, at : 0..Len(VsMasks) + 1]

\* The set s of copy c mirrors the base: it has only what the base's values
\* become in c and, when c has no mask, all of it.
Mirrors(s, c, base) ==
  /\ s \subseteq {Stored(c, v) : v \in base}
  /\ VsMasks[c - 1] = <<>> => {Stored(c, v) : v \in base} \subseteq s

\* Copy c once the update r, which has changed the base, has come past it.
Final(c, r) ==
  IF c < r.at THEN vsCopies[c] ELSE CopyOp(vsCopies[c], c, r.op, r.value)

\* The lock is the updating thread's, and every shadow mirrors the base: now,
\* or once the update under way has come to it.
CopiesInv ==
  /\ vsThread \in [VsThreads -> Requests \cup {VsIdle}]
  /\ vsOwner \in VsThreads \cup {VsNobody}
  /\ \A t \in VsThreads : vsThread[t].at > 0 => vsOwner = t
  /\ vsCopies \in [Copies -> SUBSET Seq({0, 1})]
  /\ vsCopies[1] \subseteq Sent
  /\ \A c \in Copies \ {1} : vsCopies[c] \subseteq [1..KeyBits -> {0, 1}]
  /\ (\A t \in VsThreads : vsThread[t].at <= 1) =>
       \A c \in Copies \ {1} : Mirrors(vsCopies[c], c, vsCopies[1])
  /\ \A t \in VsThreads : vsThread[t].at > 1 =>
       \A c \in Copies \ {1} : Mirrors(Final(c, vsThread[t]), c, vsCopies[1])

=============================================================================
