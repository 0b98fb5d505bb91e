------------------------------- MODULE LpmTrie -------------------------------
(***************************************************************************)
(* The trie behind LPM tables (bf_lpm_trie.c, through LPMTrieStructure and  *)
(* LPMTrie).  A node is named by the bytes that lead to it from the root.   *)
(* It has the branches to its children and, for the prefixes that end       *)
(* inside the next byte, a vector sorted by decreasing length.              *)
(*                                                                         *)
(* A byte has ByteBits bits here instead of 8.  The value stored with a     *)
(* prefix is the prefix itself, which tells every entry from the others.    *)
(***************************************************************************)
EXTENDS Integers, Sequences, SequencesExt, FiniteSets, FiniteSetsExt

CONSTANTS
    ByteBits,      \* bits of a byte
    KeyBytes,      \* key_width_bytes
    MaxPrefixes    \* bound: prefixes in the trie at a time

ASSUME TrieAssumption == {ByteBits, KeyBytes, MaxPrefixes} \subseteq Nat \ {0}

VARIABLES
    trie,          \* the nodes: path -> [branches, prefixes]
    stored         \* the prefixes clients have inserted and not deleted

trieVars == <<trie, stored>>

\* The powers of 2 that fit a byte.
Pow2[n \in 0 .. ByteBits] == IF n = 0 THEN 1 ELSE 2 * Pow2[n - 1]

Byte == 0 .. Pow2[ByteBits] - 1
LpmKey == [1 .. KeyBytes -> Byte]
Paths == UNION {[1 .. n -> Byte] : n \in 0 .. KeyBytes}
NoValue == [bytes |-> << >>, len |-> -1]

\* The first n bits of a byte.
HighBits(byte, n) == byte \div Pow2[ByteBits - n]

\* A prefix as the match unit passes it: the bits after its length are zero.
KeyPrefix == {p \in [bytes : LpmKey, len : 0 .. ByteBits * KeyBytes] :
              \A i \in 1 .. KeyBytes :
                LET n == p.len - ByteBits * (i - 1)
                IN  /\ n =< 0 => p.bytes[i] = 0
                    /\ n \in 1 .. ByteBits => p.bytes[i] % Pow2[ByteBits - n] = 0}

NewNode == [branches |-> {}, prefixes |-> << >>]

\* bf_lpm_trie_create: a root and nothing else.
TrieInit == trie = [n \in {<< >>} |-> NewNode] /\ stored = {}

-----------------------------------------------------------------------------
(* Where a prefix lives: the node its whole bytes lead to, and under which   *)
(* remaining length and bits.  The byte read after the last one is shifted   *)
(* out entirely when nothing remains.                                        *)

PathOf(p) == SubSeq(p.bytes, 1, p.len \div ByteBits)
RestLen(p) == p.len % ByteBits
RestKey(p) == IF RestLen(p) = 0 THEN 0
              ELSE HighBits(p.bytes[p.len \div ByteBits + 1], RestLen(p))

\* What insert_prefix puts into the vector for a prefix.
PrefixEntry(p) == [len |-> RestLen(p), key |-> RestKey(p), value |-> p]

\* A mutation of PrefixBefore: shorter prefixes first.
PrefixBeforeShort(p, q) ==
    \/ p.len < q.len
    \/ p.len = q.len /\ p.key < q.key

\* prefix_cmp: longer first, then by key.
PrefixBefore(p, q) ==
    \/ p.len > q.len
    \/ p.len = q.len /\ p.key < q.key

\* insert_prefix: at the place the binary search ends at, or over the value
\* of the same prefix.
InsertPrefix(prefixes, new) ==
    LET same == SelectInSeq(prefixes, LAMBDA q : q.len = new.len /\ q.key = new.key)
        at == Cardinality({i \in 1 .. Len(prefixes) : PrefixBefore(prefixes[i], new)})
    IN  IF same # 0 THEN ReplaceAt(prefixes, same, new)
        ELSE InsertAt(prefixes, at + 1, new)

\* get_prefix: 0 if there is none.
GetPrefix(node, len, key) ==
    SelectInSeq(node.prefixes, LAMBDA q : q.len = len /\ q.key = key)

\* bf_lpm_trie_has_prefix and bf_lpm_trie_retrieve_value.
HasPrefix(p) ==
    /\ \A n \in 1 .. Len(PathOf(p)) :
          PathOf(p)[n] \in trie[SubSeq(PathOf(p), 1, n - 1)].branches
    /\ GetPrefix(trie[PathOf(p)], RestLen(p), RestKey(p)) # 0

\* bf_lpm_trie_insert: the missing nodes of the path, and the prefix in the
\* last one.
TrieInsert(p) ==
    LET path == PathOf(p)
        OnPath(n) == IsPrefix(n, path)
        Old(n) == IF n \in DOMAIN trie THEN trie[n] ELSE NewNode
    IN  /\ p \notin stored                  \* otherwise DUPLICATE_ENTRY
        /\ Cardinality(stored) < MaxPrefixes
        /\ trie' = [n \in DOMAIN trie \cup Prefixes(path) |->
              IF ~OnPath(n) THEN trie[n]
              ELSE [branches |-> IF n = path THEN Old(n).branches
                                 ELSE Old(n).branches \cup {path[Len(n) + 1]},
                    prefixes |-> IF n # path THEN Old(n).prefixes
                                 ELSE InsertPrefix(Old(n).prefixes, PrefixEntry(p))]]
        /\ stored' = stored \cup {p}

\* One round of the loop at the end of bf_lpm_trie_delete: an empty node is
\* freed, and its parent loses the branch to it.
CutOff(u, at) ==
    IF u[at] # NewNode THEN u
    ELSE [m \in DOMAIN u \ {at} |->
            IF m = Front(at) THEN [u[m] EXCEPT !.branches = @ \ {Last(at)}]
            ELSE u[m]]

\* The loop: from the node of the prefix towards the root, which stays.
Shrunk(t, path) ==
    LET cut[k \in 0 .. Len(path)] ==
            IF k = 0 THEN t
            ELSE CutOff(cut[k - 1], SubSeq(path, 1, Len(path) - k + 1))
    IN  cut[Len(path)]

\* bf_lpm_trie_delete: the match unit only deletes prefixes it has inserted.
TrieDelete(p) ==
    LET path == PathOf(p)
        i == GetPrefix(trie[path], RestLen(p), RestKey(p))
    IN  /\ p \in stored
        /\ HasPrefix(p)
        /\ trie' = Shrunk([trie EXCEPT ![path].prefixes = RemoveAt(@, i)], path)
        /\ stored' = stored \ {p}

\* LPMTrie::clear: destroy and create.
TrieClear == stored # {} /\ trie' = [n \in {<< >>} |-> NewNode] /\ stored' = {}

TrieNext ==
    \/ \E p \in KeyPrefix : TrieInsert(p)
    \/ \E p \in stored : TrieDelete(p)
    \/ TrieClear

TrieSpec == TrieInit /\ [][TrieNext]_trieVars

\* A node that a lookup comes to: the first prefix of the vector whose bits agree
\* with the next byte, 0 if there is none.  Past the last byte only the empty
\* prefix, last in its vector, can agree.
MatchIn(node, key, d) ==
    IF d = KeyBytes
    THEN IF node.prefixes # << >> /\ Last(node.prefixes).len = 0
         THEN Len(node.prefixes) ELSE 0
    ELSE SelectInSeq(node.prefixes, LAMBDA q : HighBits(key[d + 1], q.len) = q.key)

\* The branches lead as far as d bytes of the key.
Reached(key, d) ==
    \A e \in 0 .. d - 1 :
        /\ SubSeq(key, 1, e) \in DOMAIN trie
        /\ key[e + 1] \in trie[SubSeq(key, 1, e)].branches

\* bf_lpm_trie_lookup: follow the key's bytes; what agrees in a node replaces the
\* answer so far.
TrieLookup(key) ==
    LET found == {d \in 0 .. KeyBytes :
                    Reached(key, d) /\ MatchIn(trie[SubSeq(key, 1, d)], key, d) # 0}
        node == trie[SubSeq(key, 1, Max(found))]
    IN  IF found = {} THEN NoValue
        ELSE node.prefixes[MatchIn(node, key, Max(found))].value

-----------------------------------------------------------------------------
(* Properties *)

TrieTypeOK ==
    /\ DOMAIN trie \subseteq Paths
    /\ stored \subseteq KeyPrefix
    /\ \A n \in DOMAIN trie :
         /\ trie[n].branches \subseteq Byte
         /\ \A i \in 1 .. Len(trie[n].prefixes) :
               trie[n].prefixes[i].len \in 0 .. ByteBits - 1

\* Does the prefix cover the key?
Covers(p, key) ==
    \A i \in 1 .. KeyBytes :
        LET n == p.len - ByteBits * (i - 1) IN
        /\ n >= ByteBits => p.bytes[i] = key[i]
        /\ n \in 1 .. ByteBits - 1 => HighBits(p.bytes[i], n) = HighBits(key[i], n)

LongestPrefix(key) ==
    LET covering == {p \in stored : Covers(p, key)}
    IN  IF covering = {} THEN NoValue
        ELSE CHOOSE p \in covering : \A q \in covering : q.len =< p.len

\* After any sequence of inserts, deletes and clears a lookup returns the
\* longest stored prefix that covers the key, and exactly the stored prefixes
\* are found by has_prefix: shrinking never cuts off a node that is still
\* needed, and inserting never hides a longer prefix behind a shorter one.
LookupIsLongestPrefix ==
    /\ \A key \in LpmKey : TrieLookup(key) = LongestPrefix(key)
    /\ \A p \in stored : HasPrefix(p)

\* Deleting gives all memory back: every node but the root leads to a prefix,
\* and the branches are exactly the nodes below.
NoEmptyNode ==
    \A n \in DOMAIN trie :
        /\ n # << >> => trie[n].branches # {} \/ trie[n].prefixes # << >>
        /\ trie[n].branches = {b \in Byte : Append(n, b) \in DOMAIN trie}

\* The trie answers like the set of prefixes it stands for and holds no node that
\* the set does not need (bf_lpm_trie.c).
TrieLookups == TrieTypeOK /\ LookupIsLongestPrefix /\ NoEmptyNode

\* The vector of a node: an entry for each of the prefixes S, longest first.
VectorOf(v, S) ==
    /\ v \in Seq({PrefixEntry(p) : p \in S})
    /\ \A p \in S : \E i \in 1 .. Len(v) : v[i] = PrefixEntry(p)
    /\ \A i, j \in 1 .. Len(v) : i < j => PrefixBefore(v[i], v[j])

Nodes(S) == [branches : SUBSET Byte, prefixes : Seq({PrefixEntry(p) : p \in S})]

\* t has the nodes N, every branch from one to another, and the prefixes S in the
\* nodes their whole bytes lead to.
TrieOf(t, N, S) ==
    /\ t \in [N -> Nodes(S)]
    /\ \A n \in N :
         /\ t[n].branches = {b \in Byte : Append(n, b) \in N}
         /\ VectorOf(t[n].prefixes, {p \in S : PathOf(p) = n})

\* The nodes that prefixes S need.
NodesOf(S) == {<< >>} \cup UNION {Prefixes(PathOf(p)) : p \in S}

\* Why TrieLookups holds: the trie is the one that the stored prefixes need.
TrieInv == stored \subseteq KeyPrefix /\ TrieOf(trie, NodesOf(stored), stored)

=============================================================================
