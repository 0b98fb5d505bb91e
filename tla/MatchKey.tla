------------------------------ MODULE MatchKey ------------------------------
(***************************************************************************)
(* MatchKeyBuilder (match_units.cpp): how the match parameters of a client  *)
(* become the key of an entry and back, and how a packet becomes a lookup   *)
(* key.  Internally the fields of a key are reordered by match type, so     *)
(* that an LPM field comes after every exact one.                           *)
(*                                                                         *)
(* Every field is one byte of KbBits bits (8 in the code), of which only    *)
(* the low nbits count.  The match unit of the table is the one the         *)
(* compiler picks for the types of the fields.                              *)
(***************************************************************************)
EXTENDS Integers, Sequences, SequencesExt, FiniteSets, FiniteSetsExt, Bitwise

CONSTANTS
    KbBits,      \* bits of a byte
    KbLayouts    \* the keys of tables: sequences of [type, nbits, mask]

VARIABLES
    kbLayout,    \* the fields in the order of the P4 program
    kbBuilt,     \* the MatchKeyBuilder after build
    kbParams,    \* the parameters of the client's last add, << >> at first
    kbEntry      \* the key of the entry it made, KbNoEntry if it was refused

kbVars == <<kbLayout, kbBuilt, kbParams, kbEntry>>

KbByte == 0 .. 2^KbBits - 1
KbFull == 2^KbBits - 1
TypeOrder == <<"RANGE", "VALID", "EXACT", "LPM", "TERNARY">>
KbNoEntry == [data |-> << >>, mask |-> << >>, len |-> -1]

TypeRank(f) == SelectInSeq(TypeOrder, LAMBDA t : t = f.type)

\* The match unit create_match_unit makes for the table.
UnitOf(layout) ==
    LET types == {layout[i].type : i \in 1 .. Len(layout)}
    IN  CASE "RANGE" \in types -> "range"
          [] "RANGE" \notin types /\ "TERNARY" \in types -> "ternary"
          [] "LPM" \in types /\ types \cap {"RANGE", "TERNARY"} = {} -> "lpm"
          [] OTHER -> "exact"

\* build: inv_mapping sorts the fields by type, keeping the order of equals.
InvMapping(layout) ==
    LET Before(j, i) == \/ TypeRank(layout[j]) < TypeRank(layout[i])
                        \/ TypeRank(layout[j]) = TypeRank(layout[i]) /\ j < i
        Place(i) == Cardinality({j \in 1 .. Len(layout) : Before(j, i)}) + 1
    IN  [x \in 1 .. Len(layout) |-> CHOOSE i \in 1 .. Len(layout) : Place(i) = x]

\* build: key_mapping, the inverse.
KeyMapping(inv) == [i \in 1 .. Len(inv) |-> SelectInSeq(inv, LAMBDA x : x = i)]

\* What build leaves in the MatchKeyBuilder: the two mappings, the sorted
\* fields, and big_mask laid out in the same order.
KbBuild(layout) ==
    LET inv == InvMapping(layout)
    IN  [inv |-> inv, map |-> KeyMapping(inv), unit |-> UnitOf(layout),
         input |-> [i \in 1 .. Len(layout) |-> layout[inv[i]]],
         bigMask |-> [i \in 1 .. Len(layout) |-> layout[inv[i]].mask]]

NoKeyBuilt == KbBuild(<< >>)

\* A mutation of Byte0Mask: no masking of the first byte.
Byte0MaskNone(nbits) == KbFull

\* get_byte0_mask
Byte0Mask(nbits) == IF nbits % KbBits = 0 THEN KbFull ELSE 2^nbits - 1

\* create_mask_from_pref_len and pref_len_from_mask, for one byte.
PrefixMask(len) == KbFull - (2^(KbBits - len) - 1)
PrefLenFromMask(mask) == Cardinality({b \in 0 .. KbBits - 1 : (mask \div 2^b) % 2 = 1})

\* match_params_sanity_check; the bytes of a parameter are as many as the
\* field's, which is one here.
SanityCheck(layout, params) ==
    /\ Len(params) = Len(layout)
    /\ \A i \in 1 .. Len(layout) :
         /\ params[i].type = layout[i].type
         /\ params[i].type = "LPM" => params[i].len =< layout[i].nbits
         /\ params[i].type = "RANGE" => params[i].key =< params[i].mask

\* The byte of the mask a parameter contributes to a ternary or range entry.
MaskByte(p) ==
    CASE p.type \in {"VALID", "EXACT"} -> KbFull
      [] p.type = "LPM" -> PrefixMask(p.len)
      [] OTHER -> p.mask

\* match_params_to_entry of the four kinds of match unit, then apply_big_mask:
\* the parameters in the sorted order, first byte masked; data outside the
\* mask is cleared except under a range.
ParamsToEntry(kb, params) ==
    LET I == 1 .. Len(kb.inv)
        p == [i \in I |-> params[kb.inv[i]]]
        masked == kb.unit \in {"ternary", "range"}
        raw == [i \in I |-> p[i].key & Byte0Mask(kb.input[i].nbits)]
        mask == [i \in I |-> MaskByte(p[i])]
        data == [i \in I |-> IF masked /\ p[i].type # "RANGE"
                             THEN raw[i] & mask[i] ELSE raw[i]]
        lens == [i \in I |-> IF p[i].type = "LPM" THEN p[i].len ELSE KbBits]
    IN  [data |-> [i \in I |-> data[i] & kb.bigMask[i]],
         mask |-> IF masked THEN mask ELSE << >>,
         len |-> IF kb.unit = "lpm" THEN FoldLeft(+, 0, lens) ELSE 0]

\* entry_to_match_params: back to the order of the P4 program.
EntryToParams(kb, e) ==
    LET n == Len(kb.inv)
        Type(i) == kb.input[kb.map[i]].type
    IN  [i \in 1 .. n |->
           [type |-> Type(i), key |-> e.data[kb.map[i]],
            len |-> CASE Type(i) # "LPM" -> 0
                      [] Type(i) = "LPM" /\ kb.unit = "lpm" -> e.len - KbBits * (n - 1)
                      [] OTHER -> PrefLenFromMask(e.mask[kb.map[i]]),
            mask |-> IF Type(i) \in {"TERNARY", "RANGE"} THEN e.mask[kb.map[i]]
                     ELSE 0]]

\* operator(): the lookup key of a packet, given the value and the validity of
\* every field in the order of the program.
LookupKey(kb, values, valid) ==
    [i \in 1 .. Len(kb.inv) |->
        LET f == kb.inv[i]
            v == IF ~valid[f] THEN 0
                 ELSE IF kb.input[i].type = "VALID" THEN 1 ELSE values[f]
        IN  v & kb.bigMask[i]]

\* Comparison of the lookup structures: ExactMap, LPMTrie (the first len bits
\* of the bytes in a row), TernaryMap and RangeMap.
EntryMatches(kb, e, key) ==
    LET I == 1 .. Len(kb.inv)
        Under(i) == e.data[i] = (key[i] & e.mask[i])
        Used(i) == Min({KbBits, Max({0, e.len - KbBits * (i - 1)})})
    IN  CASE kb.unit = "exact" -> e.data = key
          [] kb.unit = "lpm" ->
               \A i \in I : (e.data[i] & PrefixMask(Used(i))) = (key[i] & PrefixMask(Used(i)))
          [] kb.unit = "ternary" -> \A i \in I : Under(i)
          [] OTHER ->
               \A i \in I : IF kb.input[i].type = "RANGE"
                            THEN e.data[i] =< key[i] /\ key[i] =< e.mask[i]
                            ELSE Under(i)

-----------------------------------------------------------------------------
KbInit == kbLayout = << >> /\ kbBuilt = NoKeyBuilt /\ kbParams = << >> /\ kbEntry = KbNoEntry

\* The parameters a client may send for a field, well formed or not.
ParamsFor(f) ==
    {p \in [type : {f.type}, key : KbByte, len : 0 .. KbBits, mask : KbByte] :
        /\ f.type # "LPM" => p.len = 0
        /\ f.type \notin {"TERNARY", "RANGE"} => p.mask = 0
        /\ f.type = "VALID" => p.key \in {0, 1}}

\* A table is made: build runs on its key.
MakeTable(layout) ==
    /\ kbLayout = << >>
    /\ kbLayout' = layout
    /\ kbBuilt' = KbBuild(layout)
    /\ UNCHANGED <<kbParams, kbEntry>>

\* build_entry_from_match_key for an add.
BuildEntry(params) ==
    /\ kbLayout # << >>
    /\ kbParams = << >>
    /\ kbParams' = params
    /\ kbEntry' = IF SanityCheck(kbLayout, params)
                  THEN ParamsToEntry(kbBuilt, params) ELSE KbNoEntry
    /\ UNCHANGED <<kbLayout, kbBuilt>>

\* The parameters for all the fields of a layout of up to three fields.
AllParams(layout) ==
    LET n == Len(layout) IN
    CASE n = 0 -> {}
      [] n = 1 -> {<<a>> : a \in ParamsFor(layout[1])}
      [] n = 2 -> {<<a, b>> : a \in ParamsFor(layout[1]), b \in ParamsFor(layout[2])}
      [] OTHER -> {<<a, b, c>> : a \in ParamsFor(layout[1]), b \in ParamsFor(layout[2]),
                                 c \in ParamsFor(layout[3])}

KbNext ==
    \/ \E layout \in KbLayouts : MakeTable(layout)
    \/ \E params \in AllParams(kbLayout) : BuildEntry(params)

-----------------------------------------------------------------------------
(* Properties *)

KbTypeOK ==
    /\ kbLayout \in KbLayouts \cup {<< >>}
    /\ kbEntry # KbNoEntry => /\ \A i \in 1 .. Len(kbLayout) : kbEntry.data[i] \in KbByte
                            /\ kbEntry.len \in 0 .. KbBits * Len(kbLayout)

\* What a parameter says of one field, whatever its position: the reference.
FieldMatches(f, p, value, valid) ==
    LET v == IF ~valid THEN 0 ELSE IF f.type = "VALID" THEN 1 ELSE value
        k == p.key % 2^f.nbits
    IN  CASE f.type = "VALID" -> v = k
          [] f.type = "EXACT" -> (v & f.mask) = (k & f.mask)
          [] f.type = "LPM" -> v \div 2^(f.nbits - p.len) = k \div 2^(f.nbits - p.len)
          [] f.type = "TERNARY" -> (v & p.mask) = (k & p.mask)
          [] OTHER -> k =< v /\ v =< p.mask

\* A packet hits the entry exactly when every parameter, in the order of the
\* P4 program, matches the packet's field: reordering by type, masking of the
\* first byte, the table's mask and the packing of prefix lengths lose nothing
\* (LPM fields of whole bytes: see the README for the others).
MatchIsFieldwise ==
    LET I == 1 .. Len(kbLayout)
        FieldValues(f) == IF f.type = "VALID" THEN {0} ELSE 0 .. 2^f.nbits - 1
        Packets == {v \in [I -> KbByte] : \A i \in I : v[i] \in FieldValues(kbLayout[i])}
    IN  kbEntry # KbNoEntry =>
          \A values \in Packets, valid \in [I -> BOOLEAN] :
            EntryMatches(kbBuilt, kbEntry, LookupKey(kbBuilt, values, valid))
              = \A i \in I : FieldMatches(kbLayout[i], kbParams[i], values[i], valid[i])

\* What get_entry reads back, sent as a new add, makes the same entry: a client
\* that restores what it read restores the table.
ReadBackIsSame ==
    kbEntry # KbNoEntry =>
      LET back == EntryToParams(kbBuilt, kbEntry)
      IN  /\ \A i \in 1 .. Len(kbLayout) : back[i].type = kbLayout[i].type
          /\ SanityCheck(kbLayout, back)
          /\ ParamsToEntry(kbBuilt, back) = kbEntry

=============================================================================
