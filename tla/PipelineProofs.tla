--------------------------- MODULE PipelineProofs ---------------------------
(***************************************************************************)
(* What a packet meets in the pipelines: an indirect table, an LPM table, a *)
(* value set of the parser, and its own headers.                           *)
(*                                                                         *)
(* IndirectTable: the reference counts of an action profile protect what   *)
(* match entries, groups and the default entry point to, for every set of  *)
(* keys and every number of members, groups and requests.  A request is    *)
(* taken apart into references that come (Inc...) and references that go   *)
(* (Dec...), each with the count it changes.                               *)
(*                                                                         *)
(* PiSelection: the groups of a profile, the selection packets use and     *)
(* what a client reads back agree.                                         *)
(*                                                                         *)
(* LpmTrie: the trie is always the one that the stored prefixes need, so   *)
(* that a lookup returns the longest of them that covers the key.          *)
(*                                                                         *)
(* ParseValueSet: the shadows of a value set mirror its base, so that the  *)
(* select cases of a parser match the values that clients have put there.  *)
(*                                                                         *)
(* PacketHeaders: a header, its hidden field and its union agree on what   *)
(* is valid, and push_front and pop_front move what elements hold.  The    *)
(* loops are runs of steps, each of which exchanges or marks elements.     *)
(***************************************************************************)
EXTENDS IndirectTable, PiSelection, LpmTrie, ParseValueSet, PacketHeaders,
        FiniteSetTheorems, WellFoundedInduction, TLAPS

-----------------------------------------------------------------------------
(* Numbers and sets.                                                       *)

\* Every set of handles has a smallest one.
LEMMA LeastNatural ==
  ASSUME NEW S, S \subseteq Nat, S # {}
  PROVE  \E n \in S : \A m \in S : n <= m
<1> DEFINE R == OpToRel(<, Nat)
<1>1. \A x, y \in Nat : <<x, y>> \in R <=> x < y
  BY DEF OpToRel
<1>2. IsWellFoundedOn(R, Nat)
  BY NatLessThanWellFounded
<1> HIDE DEF R
<1>3. PICK n \in S : \A m \in S : ~(<<m, n>> \in R)
  BY <1>2, WFMin
<1>4. ASSUME NEW m \in S PROVE n <= m
  <2>1. n \in Nat /\ m \in Nat /\ ~(<<m, n>> \in R)
    BY <1>3
  <2>2. ~(m < n)
    BY <1>1, <2>1
  <2>3. QED
    BY <2>1, <2>2
<1>5. QED
  BY <1>4

\* A count that does not wrap.
LEMMA NoWrap ==
  ASSUME NEW x \in Int, 0 <= x, x < CountMod
  PROVE  x % CountMod = x
BY TableAssumption

\* A count is a count again, wrapped or not.
LEMMA Wraps ==
  ASSUME NEW x \in Int, CountMod > 0
  PROVE  x % CountMod \in Count
BY TableAssumption DEF Count

\* The reference counter is wide enough for all references there can be.
LEMMA ModPositive == CountMod \in Nat /\ CountMod > 0 /\ MaxLeaks \in Nat /\ MaxGrps \in Nat
                     /\ MaxMbrs \in Nat /\ Cardinality(Keys) \in Nat
                     /\ MaxLeaks + Cardinality(Keys) + MaxGrps + 1 < CountMod
<1>1. Cardinality(Keys) \in Nat
  BY TableAssumption, FS_CardinalityType
<1>2. QED
  BY <1>1, TableAssumption

-----------------------------------------------------------------------------
(* Handles.                                                                *)

\* find_unset_next: the smallest unset position after pos, or the size.
LEMMA FoundUnset ==
  ASSUME NEW set, NEW size \in Nat, NEW pos \in Nat, pos < size, NEW f,
         f = FindUnsetNext(set, size, pos, size)
  PROVE  /\ f \in pos + 1 .. size
         /\ f < size => f \notin set
         /\ \A i \in pos + 1 .. f - 1 : i \in set
<1> DEFINE unset == {i \in pos + 1 .. size - 1 : i \notin set}
<1>1. CASE unset = {}
  BY <1>1 DEF FindUnsetNext
<1>2. CASE unset # {}
  <2>1. unset \subseteq Nat
    OBVIOUS
  <2>2. f = CHOOSE i \in unset : \A j \in unset : i <= j
    BY <1>2 DEF FindUnsetNext
  <2>3. \E i \in unset : \A j \in unset : i <= j
    <3> HIDE DEF unset
    <3>1. QED
      BY <1>2, <2>1, LeastNatural
  <2>4. f \in unset /\ \A j \in unset : f <= j
    BY <2>2, <2>3
  <2>5. QED
    BY <2>4
<1>3. QED
  BY <1>1, <1>2

\* get_handle adds the cached first_unset and keeps the cache right.
LEMMA GetHandleKeeps ==
  ASSUME NEW m, MgrOK(m), NEW n, n = GetHandle(m)
  PROVE  /\ MgrOK(n) /\ n.set = m.set \cup {m.first_unset}
         /\ n.size = IF m.first_unset < m.size THEN m.size ELSE m.size + 1
<1>0. /\ m.size \in Nat /\ m.first_unset \in Nat /\ m.set \subseteq Nat
      /\ m.set \subseteq 0 .. m.size - 1 /\ m.first_unset <= m.size
      /\ m.first_unset \notin m.set /\ 0 .. m.first_unset - 1 \subseteq m.set
  BY DEF MgrOK, Mgr
<1> DEFINE pos == m.first_unset
           now == m.set \cup {pos}
           f == FindUnsetNext(now, m.size, pos, m.size)
<1>1. CASE pos < m.size
  <2>1. n = [size |-> m.size, set |-> now, first_unset |-> f]
    BY <1>1 DEF GetHandle
  <2>2. /\ f \in pos + 1 .. m.size
        /\ f < m.size => f \notin now
        /\ \A i \in pos + 1 .. f - 1 : i \in now
    <3> HIDE DEF now
    <3>1. QED
      BY <1>0, <1>1, FoundUnset
  <2> HIDE DEF f
  <2>3. n.size = m.size /\ n.set = now /\ n.first_unset = f
    BY <2>1
  <2>4. f \in Nat /\ now \subseteq 0 .. m.size - 1 /\ f \notin now /\ 0 .. f - 1 \subseteq now
    BY <1>0, <1>1, <2>2
  <2>5. n \in Mgr
    BY <1>0, <2>1, <2>4 DEF Mgr
  <2>6. QED
    BY <1>0, <1>1, <2>2, <2>3, <2>4, <2>5 DEF MgrOK
<1>2. CASE ~(pos < m.size)
  <2>1. n = [size |-> m.size + 1, set |-> now, first_unset |-> pos + 1] /\ pos = m.size
    BY <1>0, <1>2 DEF GetHandle
  <2>2. n.size = m.size + 1 /\ n.set = now /\ n.first_unset = pos + 1
    BY <2>1
  <2>3. n \in Mgr
    BY <1>0, <2>1 DEF Mgr
  <2>4. QED
    BY <1>0, <1>2, <2>1, <2>2, <2>3 DEF MgrOK
<1>3. QED
  BY <1>1, <1>2

\* release_handle takes the handle out and keeps the cache right.
LEMMA ReleaseHandleKeeps ==
  ASSUME NEW m, MgrOK(m), NEW h \in m.set, NEW n, n = ReleaseHandle(m, h)
  PROVE  MgrOK(n) /\ n.set = m.set \ {h} /\ n.size = m.size
<1>0. /\ m.size \in Nat /\ m.first_unset \in Nat /\ m.set \subseteq Nat /\ h \in Nat
      /\ m.set \subseteq 0 .. m.size - 1 /\ m.first_unset <= m.size
      /\ m.first_unset \notin m.set /\ 0 .. m.first_unset - 1 \subseteq m.set
  BY DEF MgrOK, Mgr
<1> DEFINE f == IF m.first_unset > h THEN h ELSE m.first_unset
           now == m.set \ {h}
<1>1. n = [size |-> m.size, set |-> now, first_unset |-> f]
  BY DEF ReleaseHandle
<1>2. f \in Nat /\ f <= m.size /\ f \notin now /\ 0 .. f - 1 \subseteq now
      /\ now \subseteq 0 .. m.size - 1
  BY <1>0
<1> HIDE DEF f, now
<1>3. n.size = m.size /\ n.set = now /\ n.first_unset = f
  BY <1>1
<1>4. n \in Mgr
  BY <1>0, <1>1, <1>2 DEF Mgr
<1>5. QED
  BY <1>2, <1>3, <1>4 DEF MgrOK, now

\* A new HandleMgr.
LEMMA NewMgrOK == MgrOK(NewMgr) /\ NewMgr.set = {} /\ NewMgr.size = 0
BY DEF MgrOK, NewMgr, Mgr

-----------------------------------------------------------------------------
(* References and counts, of given values of the variables.                *)

EntryRefs(ent, i) == Cardinality({k \in DOMAIN ent : ent[k] = i})
DefaultRefs(dflt, i) == Cardinality({i} \cap dflt)
GroupRefs(live, grps, i) ==
  IF i.grp THEN 0 ELSE Cardinality({g \in live \cap DOMAIN grps : i.hdl \in grps[g]})
Refs(ent, dflt, live, grps, i) ==
  EntryRefs(ent, i) + DefaultRefs(dflt, i) + GroupRefs(live, grps, i)
CountIn(rc, i) == IF i.grp THEN rc.grp[i.hdl] ELSE rc.mbr[i.hdl]
LiveIn(mset, gset, grps, i) ==
  IF i.grp THEN i.hdl \in gset /\ i.hdl \in DOMAIN grps ELSE i.hdl \in mset

\* CountsMatchReferences
CountsOK(rc, ent, dflt, mset, gset, grps, lk) ==
  \A i \in Indices : LiveIn(mset, gset, grps, i) =>
    /\ Refs(ent, dflt, gset, grps, i) <= CountIn(rc, i)
    /\ CountIn(rc, i) <= Refs(ent, dflt, gset, grps, i) + lk

\* The types of what CountsOK is about; A is the domain of the member vector.
RefsTyped(A, rc, ent, dflt, mset, gset, grps, lk) ==
  /\ rc \in [mbr : [A -> Count], grp : [DOMAIN grps -> Count]]
  /\ mset \subseteq A
  /\ DOMAIN ent \subseteq Keys
  /\ dflt = {} \/ \E i \in Indices : dflt = {i}
  /\ DOMAIN grps \subseteq 0 .. MaxGrps - 1
  /\ lk \in 0 .. MaxLeaks

\* Indices are records, told apart by their two fields.
LEMMA IndexFacts ==
  /\ \A i \in Indices : i \in Index
  /\ \A i, j \in Index : i = j <=> i.grp = j.grp /\ i.hdl = j.hdl
  /\ \A i \in Index : i.grp \in BOOLEAN /\ i.hdl \in Nat
<1>1. ASSUME NEW i \in Indices PROVE i \in Index
  <2>1. CASE \E m \in 0..MaxMbrs : i = MbrIndex(m)
    BY <2>1, ModPositive DEF Index, MbrIndex
  <2>2. CASE \E g \in 0..MaxGrps : i = GrpIndex(g)
    BY <2>2, ModPositive DEF Index, GrpIndex
  <2>3. QED
    BY <2>1, <2>2 DEF Indices
<1>2. ASSUME NEW i \in Index, NEW j \in Index PROVE i = j <=> i.grp = j.grp /\ i.hdl = j.hdl
  BY DEF Index
<1>3. QED
  BY <1>1, <1>2 DEF Index

\* ref_count_increase and ref_count_decrease change one count.
LEMMA RefCountIs ==
  ASSUME NEW A, NEW G, NEW rc \in [mbr : [A -> Count], grp : [G -> Count]],
         NEW x \in Index, NEW d \in Int, NEW rc2, rc2 = RefCount(rc, x, d)
  PROVE  /\ rc2 \in [mbr : [A -> Count], grp : [G -> Count]]
         /\ \A i \in Index : (IF i.grp THEN i.hdl \in G ELSE i.hdl \in A) =>
              CountIn(rc2, i) = IF i = x THEN (CountIn(rc, i) + d) % CountMod ELSE CountIn(rc, i)
<1>0. \A c \in Count : (c + d) % CountMod \in Count
  BY ModPositive, Wraps DEF Count
<1>1. CASE x.grp
  <2> DEFINE v == [rc.grp EXCEPT ![x.hdl] = (@ + d) % CountMod]
  <2>1. rc2 = [rc EXCEPT !.grp = v]
    BY <1>1 DEF RefCount
  <2>2. v \in [G -> Count] /\ \A h \in G : v[h] = IF h = x.hdl THEN (rc.grp[h] + d) % CountMod ELSE rc.grp[h]
    BY <1>0
  <2> HIDE DEF v
  <2>3. rc2 \in [mbr : [A -> Count], grp : [G -> Count]] /\ rc2.grp = v /\ rc2.mbr = rc.mbr
    BY <2>1, <2>2
  <2>4. ASSUME NEW i \in Index, IF i.grp THEN i.hdl \in G ELSE i.hdl \in A
        PROVE  CountIn(rc2, i) = IF i = x THEN (CountIn(rc, i) + d) % CountMod ELSE CountIn(rc, i)
    BY <1>1, <2>2, <2>3, <2>4, IndexFacts DEF CountIn
  <2>5. QED
    BY <2>3, <2>4
<1>2. CASE ~x.grp
  <2> DEFINE v == [rc.mbr EXCEPT ![x.hdl] = (@ + d) % CountMod]
  <2>1. rc2 = [rc EXCEPT !.mbr = v]
    BY <1>2 DEF RefCount
  <2>2. v \in [A -> Count] /\ \A h \in A : v[h] = IF h = x.hdl THEN (rc.mbr[h] + d) % CountMod ELSE rc.mbr[h]
    BY <1>0
  <2> HIDE DEF v
  <2>3. rc2 \in [mbr : [A -> Count], grp : [G -> Count]] /\ rc2.mbr = v /\ rc2.grp = rc.grp
    BY <2>1, <2>2
  <2>4. ASSUME NEW i \in Index, IF i.grp THEN i.hdl \in G ELSE i.hdl \in A
        PROVE  CountIn(rc2, i) = IF i = x THEN (CountIn(rc, i) + d) % CountMod ELSE CountIn(rc, i)
    BY <1>2, <2>2, <2>3, <2>4, IndexFacts DEF CountIn
  <2>5. QED
    BY <2>3, <2>4
<1>3. QED
  BY <1>1, <1>2

\* The references are few: a count has room for them.
LEMMA RefsBound ==
  ASSUME NEW ent, DOMAIN ent \subseteq Keys, NEW dflt, NEW live, NEW grps,
         DOMAIN grps \subseteq 0 .. MaxGrps - 1, NEW i
  PROVE  /\ EntryRefs(ent, i) \in Nat /\ EntryRefs(ent, i) <= Cardinality(Keys)
         /\ DefaultRefs(dflt, i) \in {0, 1}
         /\ GroupRefs(live, grps, i) \in Nat /\ GroupRefs(live, grps, i) <= MaxGrps
<1>1. EntryRefs(ent, i) \in Nat /\ EntryRefs(ent, i) <= Cardinality(Keys)
  <2> DEFINE S == {k \in DOMAIN ent : ent[k] = i}
  <2>1. S \subseteq Keys /\ IsFiniteSet(Keys)
    BY TableAssumption
  <2>2. IsFiniteSet(S) /\ Cardinality(S) <= Cardinality(Keys)
    <3> HIDE DEF S
    <3>1. QED
      BY <2>1, FS_Subset
  <2>3. QED
    BY <2>2, FS_CardinalityType DEF EntryRefs
<1>2. DefaultRefs(dflt, i) \in {0, 1}
  <2>1. CASE i \in dflt
    <3>1. {i} \cap dflt = {i}
      BY <2>1
    <3>2. QED
      BY <3>1, FS_Singleton DEF DefaultRefs
  <2>2. CASE i \notin dflt
    <3>1. {i} \cap dflt = {}
      BY <2>2
    <3>2. QED
      BY <3>1, FS_EmptySet DEF DefaultRefs
  <2>3. QED
    BY <2>1, <2>2
<1>3. GroupRefs(live, grps, i) \in Nat /\ GroupRefs(live, grps, i) <= MaxGrps
  <2> DEFINE S == {g \in live \cap DOMAIN grps : i.hdl \in grps[g]}
             T == 0 .. MaxGrps - 1
  <2>1. S \subseteq T
    OBVIOUS
  <2>2. IsFiniteSet(T) /\ Cardinality(T) = MaxGrps
    <3>1. 0 \in Int /\ MaxGrps - 1 \in Int /\ MaxGrps \in Nat
      BY ModPositive
    <3>2. QED
      BY <3>1, FS_Interval
  <2>3. IsFiniteSet(S) /\ Cardinality(S) <= MaxGrps
    <3> HIDE DEF S, T
    <3>1. QED
      BY <2>1, <2>2, FS_Subset
  <2>4. Cardinality(S) \in Nat
    BY <2>3, FS_CardinalityType
  <2>5. QED
    BY <2>3, <2>4, ModPositive DEF GroupRefs
<1>4. QED
  BY <1>1, <1>2, <1>3

\* A count and its references go up, or down, together.
LEMMA CountUp ==
  ASSUME NEW c \in Nat, NEW r \in Nat, NEW l \in Nat, NEW r2 \in Nat, NEW l2 \in Nat,
         r <= c, c <= r + l, r2 + l2 < CountMod,
         (r2 = r + 1 /\ l2 = l) \/ (r2 = r /\ l2 = l + 1)
  PROVE  r2 <= (c + 1) % CountMod /\ (c + 1) % CountMod <= r2 + l2
<1>1. c + 1 \in Int /\ 0 <= c + 1 /\ c + 1 < CountMod
  BY ModPositive
<1>2. (c + 1) % CountMod = c + 1
  BY <1>1, NoWrap
<1>3. QED
  BY <1>2

\* A decrement of a counter that counts at least one reference does not wrap.
LEMMA CountDown ==
  ASSUME NEW c \in Count, NEW r \in Nat, NEW l \in Nat, NEW r2 \in Nat,
         r <= c, c <= r + l, r2 = r - 1
  PROVE  r2 <= (c - 1) % CountMod /\ (c - 1) % CountMod <= r2 + l
<1>1. c - 1 \in Int /\ 0 <= c - 1 /\ c - 1 < CountMod
  BY ModPositive DEF Count
<1>2. (c - 1) % CountMod = c - 1
  BY <1>1, NoWrap
<1>3. QED
  BY <1>1, <1>2 DEF Count

\* A reference to x comes, or a count of x that no reference stands for.
Comes(A, rc, ent, dflt, mset, gset, grps, lk, x, ent2, dflt2, grps2, lk2) ==
  /\ RefsTyped(A, rc, ent, dflt, mset, gset, grps, lk)
  /\ CountsOK(rc, ent, dflt, mset, gset, grps, lk)
  /\ x \in Index
  /\ DOMAIN ent2 \subseteq Keys /\ lk2 \in 0 .. MaxLeaks /\ DOMAIN grps2 = DOMAIN grps
  /\ \A i \in Indices :
       \/ /\ i = x /\ lk2 = lk
          /\ Refs(ent2, dflt2, gset, grps2, i) = Refs(ent, dflt, gset, grps, i) + 1
       \/ /\ i # x /\ (lk2 = lk \/ lk2 = lk + 1)
          /\ Refs(ent2, dflt2, gset, grps2, i) = Refs(ent, dflt, gset, grps, i)
       \/ /\ i = x /\ lk2 = lk + 1
          /\ Refs(ent2, dflt2, gset, grps2, i) = Refs(ent, dflt, gset, grps, i)

\* The counter goes up with a reference: the counts stay right.
LEMMA ComesKeeps ==
  ASSUME NEW A, NEW rc, NEW ent, NEW dflt, NEW mset, NEW gset, NEW grps, NEW lk, NEW x,
         NEW ent2, NEW dflt2, NEW grps2, NEW lk2, NEW rc2, rc2 = RefCount(rc, x, 1),
         Comes(A, rc, ent, dflt, mset, gset, grps, lk, x, ent2, dflt2, grps2, lk2)
  PROVE  /\ CountsOK(rc2, ent2, dflt2, mset, gset, grps2, lk2)
         /\ rc2 \in [mbr : [A -> Count], grp : [DOMAIN grps -> Count]]
<1>1. RefsTyped(A, rc, ent, dflt, mset, gset, grps, lk) /\ x \in Index /\ lk \in Nat /\ lk2 \in Nat
      /\ lk2 <= MaxLeaks
  BY DEF Comes, RefsTyped
<1>2. rc \in [mbr : [A -> Count], grp : [DOMAIN grps -> Count]] /\ 1 \in Int
  BY <1>1 DEF RefsTyped
<1>3. /\ rc2 \in [mbr : [A -> Count], grp : [DOMAIN grps -> Count]]
      /\ \A i \in Index : (IF i.grp THEN i.hdl \in DOMAIN grps ELSE i.hdl \in A) =>
           CountIn(rc2, i) = IF i = x THEN (CountIn(rc, i) + 1) % CountMod ELSE CountIn(rc, i)
  BY <1>1, <1>2, RefCountIs
<1>4. ASSUME NEW i \in Indices, LiveIn(mset, gset, grps2, i)
      PROVE  /\ Refs(ent2, dflt2, gset, grps2, i) <= CountIn(rc2, i)
             /\ CountIn(rc2, i) <= Refs(ent2, dflt2, gset, grps2, i) + lk2
  <2> DEFINE r == Refs(ent, dflt, gset, grps, i)
             r2 == Refs(ent2, dflt2, gset, grps2, i)
             c == CountIn(rc, i)
             c2 == CountIn(rc2, i)
  <2>0. i \in Index /\ LiveIn(mset, gset, grps, i)
    BY <1>4, IndexFacts DEF Comes, LiveIn
  <2>1. (IF i.grp THEN i.hdl \in DOMAIN grps ELSE i.hdl \in A)
    BY <1>1, <2>0 DEF LiveIn, RefsTyped
  <2>2. c2 = IF i = x THEN (c + 1) % CountMod ELSE c
    BY <1>3, <2>0, <2>1
  <2>3. c \in Nat
    BY <1>2, <2>1 DEF CountIn, Count
  <2>4. r <= c /\ c <= r + lk
    BY <2>0 DEF Comes, CountsOK
  <2>5. /\ EntryRefs(ent, i) \in Nat /\ DefaultRefs(dflt, i) \in {0, 1} /\ GroupRefs(gset, grps, i) \in Nat
    BY <1>1, RefsBound DEF RefsTyped
  <2>6. /\ EntryRefs(ent2, i) \in Nat /\ DefaultRefs(dflt2, i) \in {0, 1} /\ GroupRefs(gset, grps2, i) \in Nat
        /\ EntryRefs(ent2, i) <= Cardinality(Keys) /\ GroupRefs(gset, grps2, i) <= MaxGrps
    <3>1. DOMAIN ent2 \subseteq Keys /\ DOMAIN grps2 \subseteq 0 .. MaxGrps - 1
      BY DEF Comes, RefsTyped
    <3>2. QED
      BY <3>1, RefsBound
  <2>7. r \in Nat /\ r2 \in Nat /\ r2 + lk2 < CountMod
    BY <1>1, <2>5, <2>6, ModPositive DEF Refs
  <2>8. \/ i = x /\ lk2 = lk /\ r2 = r + 1
        \/ i # x /\ (lk2 = lk \/ lk2 = lk + 1) /\ r2 = r
        \/ i = x /\ lk2 = lk + 1 /\ r2 = r
    BY DEF Comes
  <2> HIDE DEF r, r2, c, c2
  <2>9. CASE i = x
    <3>1. r2 <= (c + 1) % CountMod /\ (c + 1) % CountMod <= r2 + lk2
      BY <1>1, <2>3, <2>4, <2>7, <2>8, <2>9, CountUp
    <3>2. QED
      BY <2>2, <2>9, <3>1 DEF r2, c2
  <2>10. CASE i # x
    <3>1. r2 <= c2 /\ c2 <= r2 + lk2
      BY <1>1, <2>2, <2>3, <2>4, <2>7, <2>8, <2>10
    <3>2. QED
      BY <3>1 DEF r2, c2
  <2>11. QED
    BY <2>9, <2>10
<1>5. QED
  BY <1>3, <1>4 DEF CountsOK

\* A reference to x goes.
Goes(A, rc, ent, dflt, mset, gset, grps, lk, x, ent2, dflt2, grps2) ==
  /\ RefsTyped(A, rc, ent, dflt, mset, gset, grps, lk)
  /\ CountsOK(rc, ent, dflt, mset, gset, grps, lk)
  /\ x \in Index
  /\ DOMAIN ent2 \subseteq Keys /\ DOMAIN grps2 = DOMAIN grps
  /\ \A i \in Indices :
       \/ i = x /\ Refs(ent2, dflt2, gset, grps2, i) = Refs(ent, dflt, gset, grps, i) - 1
       \/ i # x /\ Refs(ent2, dflt2, gset, grps2, i) = Refs(ent, dflt, gset, grps, i)

\* The counter goes down with a reference: the counts stay right.
LEMMA GoesKeeps ==
  ASSUME NEW A, NEW rc, NEW ent, NEW dflt, NEW mset, NEW gset, NEW grps, NEW lk, NEW x,
         NEW ent2, NEW dflt2, NEW grps2, NEW rc2, rc2 = RefCount(rc, x, -1),
         Goes(A, rc, ent, dflt, mset, gset, grps, lk, x, ent2, dflt2, grps2)
  PROVE  /\ CountsOK(rc2, ent2, dflt2, mset, gset, grps2, lk)
         /\ rc2 \in [mbr : [A -> Count], grp : [DOMAIN grps -> Count]]
<1>1. RefsTyped(A, rc, ent, dflt, mset, gset, grps, lk) /\ x \in Index /\ lk \in Nat
  BY DEF Goes, RefsTyped
<1>2. rc \in [mbr : [A -> Count], grp : [DOMAIN grps -> Count]] /\ -1 \in Int
  BY <1>1 DEF RefsTyped
<1>3. /\ rc2 \in [mbr : [A -> Count], grp : [DOMAIN grps -> Count]]
      /\ \A i \in Index : (IF i.grp THEN i.hdl \in DOMAIN grps ELSE i.hdl \in A) =>
           CountIn(rc2, i) = IF i = x THEN (CountIn(rc, i) + (-1)) % CountMod ELSE CountIn(rc, i)
  BY <1>1, <1>2, RefCountIs
<1>4. ASSUME NEW i \in Indices, LiveIn(mset, gset, grps2, i)
      PROVE  /\ Refs(ent2, dflt2, gset, grps2, i) <= CountIn(rc2, i)
             /\ CountIn(rc2, i) <= Refs(ent2, dflt2, gset, grps2, i) + lk
  <2> DEFINE r == Refs(ent, dflt, gset, grps, i)
             r2 == Refs(ent2, dflt2, gset, grps2, i)
             c == CountIn(rc, i)
             c2 == CountIn(rc2, i)
  <2>0. i \in Index /\ LiveIn(mset, gset, grps, i)
    BY <1>4, IndexFacts DEF Goes, LiveIn
  <2>1. (IF i.grp THEN i.hdl \in DOMAIN grps ELSE i.hdl \in A)
    BY <1>1, <2>0 DEF LiveIn, RefsTyped
  <2>2. c2 = IF i = x THEN (c + (-1)) % CountMod ELSE c
    BY <1>3, <2>0, <2>1
  <2>3. c \in Count /\ c \in Nat
    BY <1>2, <2>1 DEF CountIn, Count
  <2>4. r <= c /\ c <= r + lk
    BY <2>0 DEF Goes, CountsOK
  <2>5. /\ EntryRefs(ent, i) \in Nat /\ DefaultRefs(dflt, i) \in {0, 1} /\ GroupRefs(gset, grps, i) \in Nat
    BY <1>1, RefsBound DEF RefsTyped
  <2>6. /\ EntryRefs(ent2, i) \in Nat /\ DefaultRefs(dflt2, i) \in {0, 1} /\ GroupRefs(gset, grps2, i) \in Nat
    <3>1. DOMAIN ent2 \subseteq Keys /\ DOMAIN grps2 \subseteq 0 .. MaxGrps - 1
      BY DEF Goes, RefsTyped
    <3>2. QED
      BY <3>1, RefsBound
  <2>7. r \in Nat /\ r2 \in Nat
    BY <2>5, <2>6 DEF Refs
  <2>8. (i = x /\ r2 = r - 1) \/ (i # x /\ r2 = r)
    BY DEF Goes
  <2> HIDE DEF r, r2, c, c2
  <2>9. CASE i = x
    <3>1. r2 <= (c - 1) % CountMod /\ (c - 1) % CountMod <= r2 + lk
      BY <1>1, <2>3, <2>4, <2>7, <2>8, <2>9, CountDown
    <3>2. c + (-1) = c - 1
      BY <2>3
    <3>3. QED
      BY <2>2, <2>9, <3>1, <3>2 DEF r2, c2
  <2>10. CASE i # x
    <3>1. r2 <= c2 /\ c2 <= r2 + lk
      BY <1>1, <2>2, <2>3, <2>4, <2>7, <2>8, <2>10
    <3>2. QED
      BY <3>1 DEF r2, c2
  <2>11. QED
    BY <2>9, <2>10
<1>5. QED
  BY <1>3, <1>4 DEF CountsOK

-----------------------------------------------------------------------------
(* How references come and go.                                             *)

\* ent2 has one entry more than ent; read from right to left, one less.
LEMMA EntryAdded ==
  ASSUME NEW ent, NEW ent2, NEW k, k \notin DOMAIN ent, DOMAIN ent2 \subseteq Keys,
         DOMAIN ent2 = DOMAIN ent \cup {k}, \A j \in DOMAIN ent : ent2[j] = ent[j],
         NEW i
  PROVE  /\ i = ent2[k] => EntryRefs(ent2, i) = EntryRefs(ent, i) + 1
         /\ i # ent2[k] => EntryRefs(ent2, i) = EntryRefs(ent, i)
<1> DEFINE S == {j \in DOMAIN ent : ent[j] = i}
           T == {j \in DOMAIN ent2 : ent2[j] = i}
<1>1. EntryRefs(ent, i) = Cardinality(S) /\ EntryRefs(ent2, i) = Cardinality(T)
  BY DEF EntryRefs
<1>2. S \subseteq Keys /\ IsFiniteSet(Keys) /\ k \notin S
  BY TableAssumption
<1>3. i = ent2[k] => T = S \cup {k}
  OBVIOUS
<1>4. i # ent2[k] => T = S
  OBVIOUS
<1> HIDE DEF S, T
<1>5. IsFiniteSet(S)
  BY <1>2, FS_Subset
<1>6. Cardinality(S \cup {k}) = Cardinality(S) + 1
  BY <1>2, <1>5, FS_AddElement
<1>7. QED
  BY <1>1, <1>3, <1>4, <1>6

\* The default entry refers to its own index, once.
LEMMA DefaultIs ==
  ASSUME NEW i
  PROVE  /\ DefaultRefs({}, i) = 0
         /\ \A x : DefaultRefs({x}, i) = IF i = x THEN 1 ELSE 0
<1>1. {i} \cap {} = {}
  OBVIOUS
<1>2. ASSUME NEW x PROVE DefaultRefs({x}, i) = IF i = x THEN 1 ELSE 0
  <2>1. CASE i = x
    <3>1. {i} \cap {x} = {i}
      BY <2>1
    <3>2. QED
      BY <2>1, <3>1, FS_Singleton DEF DefaultRefs
  <2>2. CASE i # x
    <3>1. {i} \cap {x} = {}
      BY <2>2
    <3>2. QED
      BY <2>2, <3>1, FS_EmptySet DEF DefaultRefs
  <2>3. QED
    BY <2>1, <2>2
<1>3. QED
  BY <1>1, <1>2, FS_EmptySet DEF DefaultRefs

\* Group g has member m in grps2 and not in grps.
Joins(live, grps, g, m, grps2) ==
  /\ g \in live /\ g \in DOMAIN grps /\ m \in Nat
  /\ DOMAIN grps \subseteq 0 .. MaxGrps - 1 /\ DOMAIN grps2 = DOMAIN grps
  /\ m \notin grps[g] /\ grps2[g] = grps[g] \cup {m}
  /\ \A h \in DOMAIN grps : h # g => grps2[h] = grps[h]

\* A member that joins a group is referred to once more, no other index is.
LEMMA GroupAdded ==
  ASSUME NEW live, NEW grps, NEW grps2, NEW g, NEW m, Joins(live, grps, g, m, grps2),
         NEW i \in Index
  PROVE  /\ i = MbrIndex(m) => GroupRefs(live, grps2, i) = GroupRefs(live, grps, i) + 1
         /\ i # MbrIndex(m) => GroupRefs(live, grps2, i) = GroupRefs(live, grps, i)
<1>0. /\ g \in live /\ g \in DOMAIN grps /\ m \in Nat
      /\ DOMAIN grps \subseteq 0 .. MaxGrps - 1 /\ DOMAIN grps2 = DOMAIN grps
      /\ m \notin grps[g] /\ grps2[g] = grps[g] \cup {m}
      /\ \A h \in DOMAIN grps : h # g => grps2[h] = grps[h]
  BY DEF Joins
<1> DEFINE S == {h \in live \cap DOMAIN grps : i.hdl \in grps[h]}
           T == {h \in live \cap DOMAIN grps2 : i.hdl \in grps2[h]}
<1>1. ~i.grp => GroupRefs(live, grps, i) = Cardinality(S) /\ GroupRefs(live, grps2, i) = Cardinality(T)
  BY DEF GroupRefs
<1>2. i.grp => GroupRefs(live, grps, i) = 0 /\ GroupRefs(live, grps2, i) = 0
  BY DEF GroupRefs
<1>3. MbrIndex(m) \in Index /\ MbrIndex(m).grp = FALSE /\ MbrIndex(m).hdl = m
  BY <1>0 DEF MbrIndex, Index
<1>4. i = MbrIndex(m) <=> ~i.grp /\ i.hdl = m
  BY <1>3, IndexFacts
<1>5. S \subseteq 0 .. MaxGrps - 1 /\ IsFiniteSet(0 .. MaxGrps - 1)
  <2>1. 0 \in Int /\ MaxGrps - 1 \in Int
    BY ModPositive
  <2>2. QED
    BY <1>0, <2>1, FS_Interval
<1>6. i.hdl = m => g \notin S /\ T = S \cup {g}
  BY <1>0
<1>7. i.hdl # m => T = S
  BY <1>0
<1> HIDE DEF S, T
<1>8. IsFiniteSet(S)
  BY <1>5, FS_Subset
<1>9. g \notin S => Cardinality(S \cup {g}) = Cardinality(S) + 1
  BY <1>8, FS_AddElement
<1>10. QED
  BY <1>1, <1>2, <1>4, <1>6, <1>7, <1>9

\* Group g is no longer live.
LEMMA GroupGone ==
  ASSUME NEW live, NEW grps, NEW g \in live, g \in DOMAIN grps,
         DOMAIN grps \subseteq 0 .. MaxGrps - 1, NEW i \in Index, ~i.grp
  PROVE  /\ i.hdl \in grps[g] => GroupRefs(live \ {g}, grps, i) = GroupRefs(live, grps, i) - 1
         /\ i.hdl \notin grps[g] => GroupRefs(live \ {g}, grps, i) = GroupRefs(live, grps, i)
<1> DEFINE S == {h \in live \cap DOMAIN grps : i.hdl \in grps[h]}
           T == {h \in (live \ {g}) \cap DOMAIN grps : i.hdl \in grps[h]}
<1>1. GroupRefs(live, grps, i) = Cardinality(S) /\ GroupRefs(live \ {g}, grps, i) = Cardinality(T)
  BY DEF GroupRefs
<1>2. T = S \ {g} /\ (g \in S <=> i.hdl \in grps[g]) /\ S \subseteq 0 .. MaxGrps - 1
  OBVIOUS
<1>3. IsFiniteSet(0 .. MaxGrps - 1)
  <2>1. 0 \in Int /\ MaxGrps - 1 \in Int
    BY ModPositive
  <2>2. QED
    BY <2>1, FS_Interval
<1> HIDE DEF S, T
<1>4. IsFiniteSet(S)
  BY <1>2, <1>3, FS_Subset
<1>5. g \in S => Cardinality(S \ {g}) = Cardinality(S) - 1
  BY <1>4, FS_RemoveElement
<1>6. g \notin S => S \ {g} = S
  OBVIOUS
<1>7. QED
  BY <1>1, <1>2, <1>5, <1>6

\* A new group, at a position no live group is at, is empty.
LEMMA GroupEmpty ==
  ASSUME NEW live, NEW grps, NEW grps2, NEW g, g \notin live,
         DOMAIN grps2 = DOMAIN grps \cup {g}, grps2[g] = {},
         \A h \in DOMAIN grps : h # g => grps2[h] = grps[h],
         NEW i
  PROVE  GroupRefs(live \cup {g}, grps2, i) = GroupRefs(live, grps, i)
<1>1. {h \in (live \cup {g}) \cap DOMAIN grps2 : i.hdl \in grps2[h]}
        = {h \in live \cap DOMAIN grps : i.hdl \in grps[h]}
  OBVIOUS
<1>2. QED
  BY <1>1 DEF GroupRefs

-----------------------------------------------------------------------------
(* The invariant, of given values of the variables.                        *)

ProfileOK(mh, gh, ae, grps) ==
  /\ MgrOK(mh) /\ MgrOK(gh) /\ DOMAIN ae = 0 .. mh.size - 1
  /\ Vector(ae, Actions, MaxMbrs)
  /\ Vector(grps, SUBSET (0 .. MaxMbrs - 1), MaxGrps)
TableOK(ent, dflt) ==
  /\ DOMAIN ent \subseteq Keys /\ ent \in [DOMAIN ent -> Index]
  /\ Cardinality(DOMAIN ent) <= TableSize
  /\ dflt = {} \/ \E i \in Indices : dflt = {i}
HeldOK(ent, dflt, mset, gset, grps) ==
  /\ \A k \in DOMAIN ent : LiveIn(mset, gset, grps, ent[k])
  /\ \A i \in dflt : LiveIn(mset, gset, grps, i)
  /\ \A g \in gset : g \in DOMAIN grps => grps[g] \subseteq mset
RcType(ae, grps) == [mbr : [DOMAIN ae -> Count], grp : [DOMAIN grps -> Count]]
HistoryOK(f, failed, lk) == f \in BOOLEAN /\ failed \in 0 .. MaxFailed /\ lk \in 0 .. MaxLeaks

\* There is one default entry at most.
LEMMA DefaultSmall ==
  ASSUME NEW dflt, dflt = {} \/ \E i \in Indices : dflt = {i}
  PROVE  dflt \subseteq Index /\ Cardinality(dflt) <= 1 /\ Cardinality(dflt) \in Nat
         /\ IsFiniteSet(dflt)
<1>1. CASE dflt = {}
  BY <1>1, FS_EmptySet
<1>2. CASE \E i \in Indices : dflt = {i}
  <2>1. PICK i \in Indices : dflt = {i}
    BY <1>2
  <2>2. Cardinality({i}) = 1 /\ i \in Index /\ IsFiniteSet({i})
    BY FS_Singleton, IndexFacts
  <2>3. QED
    BY <2>1, <2>2
<1>3. QED
  BY <1>1, <1>2

\* CountsMatchReferences as a predicate of the values it depends on.
LEMMA CountsIs ==
  /\ CountsMatchReferences <=>
       (modify_failed = 0 => CountsOK(index_ref_count, entries, default_index, mbr_handles.set,
                                      grp_handles.set, groups, leaked))
  /\ CountsMatchReferences' <=>
       (modify_failed' = 0 => CountsOK(index_ref_count', entries', default_index', mbr_handles'.set,
                                       grp_handles'.set, groups', leaked'))
BY DEF CountsMatchReferences, CountsOK, References, Refs, EntryRefs, DefaultRefs, GroupRefs, GroupsOf,
       CountOf, CountIn, IsValid, ValidHandle, LiveIn

\* HeldInv as a predicate of the values it depends on.
LEMMA HeldIs ==
  /\ HeldInv <=> (modify_failed = 0 => HeldOK(entries, default_index, mbr_handles.set, grp_handles.set, groups))
  /\ HeldInv' <=>
       (modify_failed' = 0 => HeldOK(entries', default_index', mbr_handles'.set, grp_handles'.set, groups'))
BY DEF HeldInv, HeldOK, Held, Live, IsValid, ValidHandle, LiveIn

\* ReferencesInv as a predicate of the values it depends on.
LEMMA InvIs ==
  /\ ReferencesInv <=>
       /\ ProfileOK(mbr_handles, grp_handles, action_entries, groups)
       /\ TableOK(entries, default_index) /\ index_ref_count \in RcType(action_entries, groups)
       /\ HistoryOK(fault, modify_failed, leaked)
       /\ HeldInv /\ CountsMatchReferences /\ FaultsOnlyAfterReset
  /\ ReferencesInv' <=>
       /\ ProfileOK(mbr_handles', grp_handles', action_entries', groups')
       /\ TableOK(entries', default_index') /\ index_ref_count' \in RcType(action_entries', groups')
       /\ HistoryOK(fault', modify_failed', leaked')
       /\ HeldInv' /\ CountsMatchReferences' /\ FaultsOnlyAfterReset'
BY DefaultSmall DEF ReferencesInv, TypeOK, HandlesInv, ProfileOK, TableOK, RcType, HistoryOK, MgrOK, Vector

-----------------------------------------------------------------------------
(* One reference of the table.                                             *)

\* The sum of references changes as its parts do.
LEMMA RefsAre ==
  ASSUME NEW A, NEW rc, NEW ent, NEW dflt, NEW mset, NEW gset, NEW grps, NEW lk,
         RefsTyped(A, rc, ent, dflt, mset, gset, grps, lk), NEW i
  PROVE  /\ EntryRefs(ent, i) \in Nat /\ DefaultRefs(dflt, i) \in Nat /\ GroupRefs(gset, grps, i) \in Nat
         /\ Refs(ent, dflt, gset, grps, i)
              = EntryRefs(ent, i) + DefaultRefs(dflt, i) + GroupRefs(gset, grps, i)
<1>1. DOMAIN ent \subseteq Keys /\ DOMAIN grps \subseteq 0 .. MaxGrps - 1
  BY DEF RefsTyped
<1>2. QED
  BY <1>1, RefsBound DEF Refs

\* A new entry is one more reference to its index.
LEMMA IncEntry ==
  ASSUME NEW A, NEW rc, NEW ent, NEW dflt, NEW mset, NEW gset, NEW grps, NEW lk,
         RefsTyped(A, rc, ent, dflt, mset, gset, grps, lk),
         CountsOK(rc, ent, dflt, mset, gset, grps, lk),
         NEW x \in Index, NEW k \in Keys, k \notin DOMAIN ent, NEW ent2,
         DOMAIN ent2 = DOMAIN ent \cup {k}, ent2[k] = x, \A j \in DOMAIN ent : ent2[j] = ent[j]
  PROVE  Comes(A, rc, ent, dflt, mset, gset, grps, lk, x, ent2, dflt, grps, lk)
<1>1. DOMAIN ent2 \subseteq Keys /\ lk \in 0 .. MaxLeaks
  BY DEF RefsTyped
<1>2. ASSUME NEW i \in Indices
      PROVE  \/ /\ i = x
                /\ Refs(ent2, dflt, gset, grps, i) = Refs(ent, dflt, gset, grps, i) + 1
             \/ /\ i # x
                /\ Refs(ent2, dflt, gset, grps, i) = Refs(ent, dflt, gset, grps, i)
  <2>1. /\ i = x => EntryRefs(ent2, i) = EntryRefs(ent, i) + 1
        /\ i # x => EntryRefs(ent2, i) = EntryRefs(ent, i)
    BY <1>1, EntryAdded
  <2>2. /\ EntryRefs(ent, i) \in Nat /\ DefaultRefs(dflt, i) \in Nat /\ GroupRefs(gset, grps, i) \in Nat
    BY RefsAre
  <2>3. QED
    BY <2>1, <2>2 DEF Refs
<1>3. QED
  BY <1>1, <1>2 DEF Comes

\* An entry that is gone is one reference less to its index.
LEMMA DecEntry ==
  ASSUME NEW A, NEW rc, NEW ent, NEW dflt, NEW mset, NEW gset, NEW grps, NEW lk,
         RefsTyped(A, rc, ent, dflt, mset, gset, grps, lk),
         CountsOK(rc, ent, dflt, mset, gset, grps, lk),
         NEW k \in DOMAIN ent, ent[k] \in Index, NEW ent2,
         DOMAIN ent2 = DOMAIN ent \ {k}, \A j \in DOMAIN ent2 : ent2[j] = ent[j]
  PROVE  Goes(A, rc, ent, dflt, mset, gset, grps, lk, ent[k], ent2, dflt, grps)
<1>1. DOMAIN ent \subseteq Keys /\ DOMAIN ent2 \subseteq Keys /\ DOMAIN ent = DOMAIN ent2 \cup {k}
      /\ k \notin DOMAIN ent2 /\ \A j \in DOMAIN ent2 : ent[j] = ent2[j]
  BY DEF RefsTyped
<1>2. ASSUME NEW i \in Indices
      PROVE  \/ /\ i = ent[k]
                /\ Refs(ent2, dflt, gset, grps, i) = Refs(ent, dflt, gset, grps, i) - 1
             \/ /\ i # ent[k]
                /\ Refs(ent2, dflt, gset, grps, i) = Refs(ent, dflt, gset, grps, i)
  <2>1. /\ i = ent[k] => EntryRefs(ent, i) = EntryRefs(ent2, i) + 1
        /\ i # ent[k] => EntryRefs(ent, i) = EntryRefs(ent2, i)
    BY <1>1, EntryAdded
  <2>2. /\ EntryRefs(ent, i) \in Nat /\ DefaultRefs(dflt, i) \in Nat /\ GroupRefs(gset, grps, i) \in Nat
    BY RefsAre
  <2>3. EntryRefs(ent2, i) \in Nat
    <3>1. DOMAIN grps \subseteq 0 .. MaxGrps - 1
      BY DEF RefsTyped
    <3>2. QED
      BY <1>1, <3>1, RefsBound
  <2>4. QED
    BY <2>1, <2>2, <2>3 DEF Refs
<1>3. QED
  BY <1>1, <1>2 DEF Goes

\* A new default entry is one more reference to its index.
LEMMA IncDefault ==
  ASSUME NEW A, NEW rc, NEW ent, NEW mset, NEW gset, NEW grps, NEW lk,
         RefsTyped(A, rc, ent, {}, mset, gset, grps, lk),
         CountsOK(rc, ent, {}, mset, gset, grps, lk), NEW x \in Index
  PROVE  Comes(A, rc, ent, {}, mset, gset, grps, lk, x, ent, {x}, grps, lk)
<1>1. DOMAIN ent \subseteq Keys /\ lk \in 0 .. MaxLeaks
  BY DEF RefsTyped
<1>2. ASSUME NEW i \in Indices
      PROVE  \/ /\ i = x
                /\ Refs(ent, {x}, gset, grps, i) = Refs(ent, {}, gset, grps, i) + 1
             \/ /\ i # x
                /\ Refs(ent, {x}, gset, grps, i) = Refs(ent, {}, gset, grps, i)
  <2>1. DefaultRefs({}, i) = 0 /\ DefaultRefs({x}, i) = IF i = x THEN 1 ELSE 0
    BY DefaultIs
  <2>2. EntryRefs(ent, i) \in Nat /\ GroupRefs(gset, grps, i) \in Nat
    BY RefsAre
  <2>3. QED
    BY <2>1, <2>2 DEF Refs
<1>3. QED
  BY <1>1, <1>2 DEF Comes

\* A default entry that is gone is one reference less to its index.
LEMMA DecDefault ==
  ASSUME NEW A, NEW rc, NEW ent, NEW mset, NEW gset, NEW grps, NEW lk, NEW x \in Index,
         RefsTyped(A, rc, ent, {x}, mset, gset, grps, lk),
         CountsOK(rc, ent, {x}, mset, gset, grps, lk)
  PROVE  Goes(A, rc, ent, {x}, mset, gset, grps, lk, x, ent, {}, grps)
<1>1. DOMAIN ent \subseteq Keys
  BY DEF RefsTyped
<1>2. ASSUME NEW i \in Indices
      PROVE  \/ /\ i = x
                /\ Refs(ent, {}, gset, grps, i) = Refs(ent, {x}, gset, grps, i) - 1
             \/ /\ i # x
                /\ Refs(ent, {}, gset, grps, i) = Refs(ent, {x}, gset, grps, i)
  <2>1. DefaultRefs({}, i) = 0 /\ DefaultRefs({x}, i) = IF i = x THEN 1 ELSE 0
    BY DefaultIs
  <2>2. EntryRefs(ent, i) \in Nat /\ GroupRefs(gset, grps, i) \in Nat
    BY RefsAre
  <2>3. QED
    BY <2>1, <2>2 DEF Refs
<1>3. QED
  BY <1>1, <1>2 DEF Goes

\* A count goes up and nothing points there.
LEMMA IncLeak ==
  ASSUME NEW A, NEW rc, NEW ent, NEW dflt, NEW mset, NEW gset, NEW grps, NEW lk,
         RefsTyped(A, rc, ent, dflt, mset, gset, grps, lk),
         CountsOK(rc, ent, dflt, mset, gset, grps, lk),
         NEW x \in Index, lk < MaxLeaks
  PROVE  Comes(A, rc, ent, dflt, mset, gset, grps, lk, x, ent, dflt, grps, lk + 1)
<1>1. DOMAIN ent \subseteq Keys /\ lk + 1 \in 0 .. MaxLeaks
  BY ModPositive DEF RefsTyped
<1>2. QED
  BY <1>1 DEF Comes

-----------------------------------------------------------------------------
(* The steps of the table: the profile's members and groups stay.          *)

\* What the invariant gives every step.
LEMMA Known ==
  ASSUME ReferencesInv
  PROVE  /\ ProfileOK(mbr_handles, grp_handles, action_entries, groups)
         /\ TableOK(entries, default_index) /\ index_ref_count \in RcType(action_entries, groups)
         /\ HistoryOK(fault, modify_failed, leaked) /\ FaultsOnlyAfterReset
         /\ RefsTyped(DOMAIN action_entries, index_ref_count, entries, default_index,
                      mbr_handles.set, grp_handles.set, groups, leaked)
         /\ modify_failed = 0 =>
              /\ HeldOK(entries, default_index, mbr_handles.set, grp_handles.set, groups)
              /\ CountsOK(index_ref_count, entries, default_index, mbr_handles.set,
                          grp_handles.set, groups, leaked)
<1>1. /\ ProfileOK(mbr_handles, grp_handles, action_entries, groups)
      /\ TableOK(entries, default_index) /\ index_ref_count \in RcType(action_entries, groups)
      /\ HistoryOK(fault, modify_failed, leaked) /\ FaultsOnlyAfterReset
      /\ HeldInv /\ CountsMatchReferences
  BY InvIs
<1>2. mbr_handles.set \subseteq DOMAIN action_entries
  BY <1>1 DEF ProfileOK, MgrOK
<1>3. DOMAIN groups \subseteq 0 .. MaxGrps - 1
  <2>1. PICK n \in 0..MaxGrps : groups \in [0 .. n - 1 -> SUBSET (0 .. MaxMbrs - 1)]
    BY <1>1 DEF ProfileOK, Vector
  <2>2. QED
    BY <2>1, ModPositive
<1>4. RefsTyped(DOMAIN action_entries, index_ref_count, entries, default_index,
                mbr_handles.set, grp_handles.set, groups, leaked)
  BY <1>1, <1>2, <1>3 DEF RefsTyped, RcType, TableOK, HistoryOK
<1>5. QED
  BY <1>1, <1>4, HeldIs, CountsIs

\* The invariant after a step of the table.
LEMMA TableStepKeeps ==
  ASSUME ReferencesInv, UNCHANGED <<profileVars, fault>>, TableOK(entries', default_index'),
         index_ref_count' \in RcType(action_entries, groups),
         HistoryOK(fault, modify_failed', leaked'),
         modify_failed' = 0 =>
           /\ HeldOK(entries', default_index', mbr_handles.set, grp_handles.set, groups)
           /\ CountsOK(index_ref_count', entries', default_index', mbr_handles.set,
                       grp_handles.set, groups, leaked')
  PROVE  ReferencesInv'
<1>1. /\ mbr_handles' = mbr_handles /\ grp_handles' = grp_handles /\ action_entries' = action_entries
      /\ groups' = groups /\ fault' = fault
  BY DEF profileVars
<1>2. ProfileOK(mbr_handles', grp_handles', action_entries', groups') /\ FaultsOnlyAfterReset'
      /\ HistoryOK(fault', modify_failed', leaked')
      /\ index_ref_count' \in RcType(action_entries', groups')
  BY <1>1, Known DEF FaultsOnlyAfterReset
<1>3. HeldInv' /\ CountsMatchReferences'
  BY <1>1, HeldIs, CountsIs
<1>4. QED
  BY <1>2, <1>3, InvIs

\* An index that passes add_entry's check names a live member or group.
LEMMA UsableLive ==
  ASSUME NEW i, Usable(i)
  PROVE  LiveIn(mbr_handles.set, grp_handles.set, groups, i)
BY DEF Usable, IsValid, ValidHandle, LiveIn

\* add_entry: the reference is counted also when the key is refused, then as leaked.
LEMMA AddIndexKeeps ==
  ASSUME ReferencesInv, NEW k, NEW x \in Indices, AddIndex(k, x)
  PROVE  ReferencesInv'
<1>0. x \in Index /\ LiveIn(mbr_handles.set, grp_handles.set, groups, x)
  BY IndexFacts, UsableLive DEF AddIndex
<1>1. /\ index_ref_count' = RefCount(index_ref_count, x, 1)
      /\ UNCHANGED <<profileVars, default_index, fault, modify_failed>>
  BY DEF AddIndex
<1>2. index_ref_count' \in RcType(action_entries, groups)
  <2>1. index_ref_count \in [mbr : [DOMAIN action_entries -> Count], grp : [DOMAIN groups -> Count]]
    BY Known DEF RcType
  <2>2. 1 \in Int
    OBVIOUS
  <2>3. QED
    BY <1>0, <1>1, <2>1, <2>2, RefCountIs DEF RcType
<1>3. CASE Accepted(k)
  <2>1. entries' = Put(entries, k, x) /\ leaked' = leaked
    BY <1>3 DEF AddIndex
  <2>2. k \in Keys /\ k \notin DOMAIN entries /\ Cardinality(DOMAIN entries) < TableSize
    BY <1>3 DEF Accepted
  <2>3. /\ DOMAIN entries' = DOMAIN entries \cup {k} /\ entries'[k] = x
        /\ \A j \in DOMAIN entries : entries'[j] = entries[j]
    BY <2>1, <2>2 DEF Put
  <2>4. TableOK(entries', default_index')
    <3>1. IsFiniteSet(DOMAIN entries) /\ TableSize \in Nat
      BY Known, TableAssumption, FS_Subset DEF TableOK
    <3>2. Cardinality(DOMAIN entries \cup {k}) <= TableSize
      <4> DEFINE S == DOMAIN entries
      <4>1. IsFiniteSet(S) /\ k \notin S /\ Cardinality(S) < TableSize
        BY <2>2, <3>1
      <4> HIDE DEF S
      <4>2. Cardinality(S) \in Nat /\ Cardinality(S \cup {k}) = Cardinality(S) + 1
        BY <4>1, FS_AddElement, FS_CardinalityType
      <4>3. Cardinality(S \cup {k}) <= TableSize
        BY <3>1, <4>1, <4>2
      <4>4. QED
        BY <4>3 DEF S
    <3>3. entries' \in [DOMAIN entries' -> Index]
      BY <1>0, <2>1, <2>2, Known DEF TableOK, Put
    <3>4. QED
      BY <1>1, <2>2, <2>3, <3>2, <3>3, Known DEF TableOK
  <2>5. ASSUME modify_failed' = 0
        PROVE  /\ HeldOK(entries', default_index', mbr_handles.set, grp_handles.set, groups)
               /\ CountsOK(index_ref_count', entries', default_index', mbr_handles.set,
                           grp_handles.set, groups, leaked')
    <3>1. modify_failed = 0 /\ default_index' = default_index
      BY <1>1, <2>5
    <3>2. HeldOK(entries', default_index', mbr_handles.set, grp_handles.set, groups)
      BY <1>0, <2>3, <3>1, Known DEF HeldOK
    <3>3. Comes(DOMAIN action_entries, index_ref_count, entries, default_index, mbr_handles.set,
                grp_handles.set, groups, leaked, x, entries', default_index, groups, leaked)
      BY <1>0, <2>2, <2>3, <3>1, Known, IncEntry
    <3>4. CountsOK(index_ref_count', entries', default_index, mbr_handles.set, grp_handles.set,
                   groups, leaked)
      BY <1>1, <3>3, ComesKeeps
    <3>5. QED
      BY <2>1, <3>1, <3>2, <3>4
  <2>6. HistoryOK(fault, modify_failed', leaked')
    BY <1>1, <2>1, Known
  <2>7. QED
    BY <1>1, <1>2, <2>4, <2>5, <2>6, TableStepKeeps
<1>4. CASE ~Accepted(k)
  <2>1. leaked < MaxLeaks /\ leaked' = leaked + 1 /\ entries' = entries
    BY <1>4 DEF AddIndex
  <2>2. TableOK(entries', default_index')
    BY <1>1, <2>1, Known
  <2>3. ASSUME modify_failed' = 0
        PROVE  /\ HeldOK(entries', default_index', mbr_handles.set, grp_handles.set, groups)
               /\ CountsOK(index_ref_count', entries', default_index', mbr_handles.set,
                           grp_handles.set, groups, leaked')
    <3>1. modify_failed = 0 /\ default_index' = default_index
      BY <1>1, <2>3
    <3>2. Comes(DOMAIN action_entries, index_ref_count, entries, default_index, mbr_handles.set,
                grp_handles.set, groups, leaked, x, entries, default_index, groups, leaked + 1)
      BY <1>0, <2>1, <3>1, Known, IncLeak
    <3>3. CountsOK(index_ref_count', entries, default_index, mbr_handles.set, grp_handles.set,
                   groups, leaked + 1)
      BY <1>1, <3>2, ComesKeeps
    <3>4. QED
      BY <2>1, <3>1, <3>3, Known
  <2>4. HistoryOK(fault, modify_failed', leaked')
    BY <1>1, <2>1, Known, ModPositive DEF HistoryOK
  <2>5. QED
    BY <1>1, <1>2, <2>2, <2>3, <2>4, TableStepKeeps
<1>5. QED
  BY <1>3, <1>4

\* A table without one of its entries.
LEMMA EntryOut ==
  ASSUME NEW ent, NEW dflt, TableOK(ent, dflt), NEW k \in DOMAIN ent, NEW ent2,
         ent2 = [j \in DOMAIN ent \ {k} |-> ent[j]]
  PROVE  /\ TableOK(ent2, dflt) /\ ent[k] \in Index
         /\ DOMAIN ent2 = DOMAIN ent \ {k} /\ \A j \in DOMAIN ent2 : ent2[j] = ent[j]
<1>1. /\ DOMAIN ent \subseteq Keys /\ ent \in [DOMAIN ent -> Index]
      /\ Cardinality(DOMAIN ent) <= TableSize /\ TableSize \in Nat
  BY TableAssumption DEF TableOK
<1>2. /\ DOMAIN ent2 = DOMAIN ent \ {k} /\ \A j \in DOMAIN ent2 : ent2[j] = ent[j]
      /\ ent2 \in [DOMAIN ent2 -> Index]
  BY <1>1
<1>3. Cardinality(DOMAIN ent2) <= TableSize
  <2> DEFINE S == DOMAIN ent
             T == DOMAIN ent2
  <2>1. IsFiniteSet(S) /\ T \subseteq S /\ Cardinality(S) <= TableSize
    BY <1>1, <1>2, TableAssumption, FS_Subset
  <2> HIDE DEF S, T
  <2>2. Cardinality(T) <= Cardinality(S) /\ Cardinality(S) \in Nat /\ Cardinality(T) \in Nat
    BY <2>1, FS_Subset, FS_CardinalityType
  <2>3. Cardinality(T) <= TableSize
    BY <1>1, <2>1, <2>2
  <2>4. QED
    BY <2>3 DEF T
<1>4. QED
  BY <1>1, <1>2, <1>3 DEF TableOK

\* delete_entry releases the reference of its entry.
LEMMA DeleteEntryKeeps ==
  ASSUME ReferencesInv, NEW k, DeleteEntry(k)
  PROVE  ReferencesInv'
<1>1. /\ k \in DOMAIN entries /\ index_ref_count' = RefCount(index_ref_count, entries[k], -1)
      /\ entries' = [j \in DOMAIN entries \ {k} |-> entries[j]]
      /\ UNCHANGED <<profileVars, default_index, fault, history>>
  BY DEF DeleteEntry
<1>h. modify_failed' = modify_failed /\ leaked' = leaked
  BY <1>1 DEF history
<1>2. /\ TableOK(entries', default_index) /\ entries[k] \in Index
      /\ DOMAIN entries' = DOMAIN entries \ {k} /\ \A j \in DOMAIN entries' : entries'[j] = entries[j]
  BY <1>1, Known, EntryOut
<1>3. index_ref_count' \in RcType(action_entries, groups)
  <2>1. index_ref_count \in [mbr : [DOMAIN action_entries -> Count], grp : [DOMAIN groups -> Count]]
    BY Known DEF RcType
  <2>2. -1 \in Int
    OBVIOUS
  <2>3. QED
    BY <1>1, <1>2, <2>1, <2>2, RefCountIs DEF RcType
<1>4. ASSUME modify_failed' = 0
      PROVE  /\ HeldOK(entries', default_index', mbr_handles.set, grp_handles.set, groups)
             /\ CountsOK(index_ref_count', entries', default_index', mbr_handles.set,
                         grp_handles.set, groups, leaked')
  <2>1. modify_failed = 0 /\ default_index' = default_index
    BY <1>1, <1>4, <1>h
  <2>2. HeldOK(entries', default_index', mbr_handles.set, grp_handles.set, groups)
    BY <1>2, <2>1, Known DEF HeldOK
  <2>3. Goes(DOMAIN action_entries, index_ref_count, entries, default_index, mbr_handles.set,
             grp_handles.set, groups, leaked, entries[k], entries', default_index, groups)
    BY <1>1, <1>2, <2>1, Known, DecEntry
  <2>4. CountsOK(index_ref_count', entries', default_index, mbr_handles.set, grp_handles.set,
                 groups, leaked)
    BY <1>1, <2>3, GoesKeeps
  <2>5. QED
    BY <1>h, <2>1, <2>2, <2>4
<1>5. QED
  BY <1>1, <1>h, <1>2, <1>3, <1>4, Known, TableStepKeeps

\* modify_entry exchanges references; a refused one ends the claim.
LEMMA ModifyIndexKeeps ==
  ASSUME ReferencesInv, NEW k, NEW x \in Indices, ModifyIndex(k, x)
  PROVE  ReferencesInv'
<1> DEFINE released == RefCount(index_ref_count, entries[k], -1)
           without == [j \in DOMAIN entries \ {k} |-> entries[j]]
<1>1. /\ k \in DOMAIN entries /\ UNCHANGED <<profileVars, default_index, fault, leaked>>
  BY DEF ModifyIndex
<1>2. \/ /\ Usable(x) /\ index_ref_count' = RefCount(released, x, 1)
         /\ entries' = [entries EXCEPT ![k] = x] /\ modify_failed' = modify_failed
      \/ /\ index_ref_count' = released /\ modify_failed < MaxFailed
         /\ modify_failed' = modify_failed + 1 /\ entries' = entries
  BY DEF ModifyIndex
<1>3. /\ TableOK(without, default_index) /\ entries[k] \in Index
      /\ DOMAIN without = DOMAIN entries \ {k} /\ \A j \in DOMAIN without : without[j] = entries[j]
  BY <1>1, Known, EntryOut
<1>4. x \in Index /\ DOMAIN entries \subseteq Keys /\ k \in Keys
      /\ entries \in [DOMAIN entries -> Index]
  BY <1>1, IndexFacts, Known DEF TableOK
<1>r. released = RefCount(index_ref_count, entries[k], -1)
  OBVIOUS
<1> HIDE DEF released, without
<1>5. released \in RcType(action_entries, groups)
  <2>1. index_ref_count \in [mbr : [DOMAIN action_entries -> Count], grp : [DOMAIN groups -> Count]]
    BY Known DEF RcType
  <2>2. -1 \in Int
    OBVIOUS
  <2>3. QED
    BY <1>3, <1>r, <2>1, <2>2, RefCountIs DEF RcType
<1>6. CASE /\ Usable(x) /\ index_ref_count' = RefCount(released, x, 1)
           /\ entries' = [entries EXCEPT ![k] = x] /\ modify_failed' = modify_failed
  <2>1. index_ref_count' \in RcType(action_entries, groups)
    <3>1. released \in [mbr : [DOMAIN action_entries -> Count], grp : [DOMAIN groups -> Count]] /\ 1 \in Int
      BY <1>5 DEF RcType
    <3>2. QED
      BY <1>4, <1>6, <3>1, RefCountIs DEF RcType
  <2>2. /\ DOMAIN entries' = DOMAIN without \cup {k} /\ k \notin DOMAIN without
        /\ entries'[k] = x /\ \A j \in DOMAIN without : entries'[j] = without[j]
        /\ DOMAIN entries' = DOMAIN entries /\ entries' \in [DOMAIN entries' -> Index]
    BY <1>1, <1>3, <1>4, <1>6
  <2>3. TableOK(entries', default_index')
    BY <1>1, <2>2, Known DEF TableOK
  <2>4. ASSUME modify_failed' = 0
        PROVE  /\ HeldOK(entries', default_index', mbr_handles.set, grp_handles.set, groups)
               /\ CountsOK(index_ref_count', entries', default_index', mbr_handles.set,
                           grp_handles.set, groups, leaked')
    <3>1. modify_failed = 0 /\ default_index' = default_index /\ leaked' = leaked
      BY <1>1, <1>6, <2>4
    <3>2. LiveIn(mbr_handles.set, grp_handles.set, groups, x)
      BY <1>6, UsableLive
    <3>3. HeldOK(entries', default_index', mbr_handles.set, grp_handles.set, groups)
      BY <1>3, <2>2, <3>1, <3>2, Known DEF HeldOK
    <3>4. Goes(DOMAIN action_entries, index_ref_count, entries, default_index, mbr_handles.set,
               grp_handles.set, groups, leaked, entries[k], without, default_index, groups)
      BY <1>1, <1>3, <3>1, Known, DecEntry
    <3>5. CountsOK(released, without, default_index, mbr_handles.set, grp_handles.set, groups, leaked)
      BY <1>r, <3>4, GoesKeeps
    <3>6. RefsTyped(DOMAIN action_entries, released, without, default_index, mbr_handles.set,
                    grp_handles.set, groups, leaked)
      BY <1>3, <1>5, Known DEF RefsTyped, RcType, TableOK
    <3>7. Comes(DOMAIN action_entries, released, without, default_index, mbr_handles.set,
                grp_handles.set, groups, leaked, x, entries', default_index, groups, leaked)
      BY <1>4, <2>2, <3>5, <3>6, IncEntry
    <3>8. CountsOK(index_ref_count', entries', default_index, mbr_handles.set, grp_handles.set,
                   groups, leaked)
      BY <1>6, <3>7, ComesKeeps
    <3>9. QED
      BY <3>1, <3>3, <3>8
  <2>5. HistoryOK(fault, modify_failed', leaked')
    BY <1>1, <1>6, Known
  <2>6. QED
    BY <1>1, <2>1, <2>3, <2>4, <2>5, TableStepKeeps
<1>7. CASE /\ index_ref_count' = released /\ modify_failed < MaxFailed
           /\ modify_failed' = modify_failed + 1 /\ entries' = entries
  <2>1. modify_failed' # 0 /\ HistoryOK(fault, modify_failed', leaked')
    BY <1>1, <1>7, Known, TableAssumption DEF HistoryOK
  <2>2. TableOK(entries', default_index')
    BY <1>1, <1>7, Known
  <2>3. QED
    BY <1>1, <1>5, <1>7, <2>1, <2>2, TableStepKeeps
<1>8. QED
  BY <1>2, <1>6, <1>7

\* The counts once the default entry has given up its reference.
LEMMA DefaultReleasedKeeps ==
  ASSUME ReferencesInv, NEW rc, rc = DefaultReleased
  PROVE  /\ rc \in RcType(action_entries, groups)
         /\ modify_failed = 0 =>
              CountsOK(rc, entries, {}, mbr_handles.set, grp_handles.set, groups, leaked)
<1>0. index_ref_count \in [mbr : [DOMAIN action_entries -> Count], grp : [DOMAIN groups -> Count]]
      /\ -1 \in Int
  BY Known DEF RcType
<1>1. CASE default_index = {}
  <2>1. rc = index_ref_count
    BY <1>1 DEF DefaultReleased
  <2>2. QED
    BY <1>1, <2>1, Known
<1>2. CASE \E i \in Indices : default_index = {i}
  <2>1. PICK x \in Indices : default_index = {x}
    BY <1>2
  <2>2. x \in Index /\ (CHOOSE i \in default_index : TRUE) = x
    BY <2>1, IndexFacts
  <2>3. rc = RefCount(index_ref_count, x, -1)
    BY <2>1, <2>2 DEF DefaultReleased
  <2>4. rc \in RcType(action_entries, groups)
    BY <1>0, <2>2, <2>3, RefCountIs DEF RcType
  <2>5. ASSUME modify_failed = 0
        PROVE  CountsOK(rc, entries, {}, mbr_handles.set, grp_handles.set, groups, leaked)
    <3>1. Goes(DOMAIN action_entries, index_ref_count, entries, {x}, mbr_handles.set,
               grp_handles.set, groups, leaked, x, entries, {}, groups)
      BY <2>1, <2>2, <2>5, Known, DecDefault
    <3>2. QED
      BY <2>3, <3>1, GoesKeeps
  <2>6. QED
    BY <2>4, <2>5
<1>3. QED
  BY <1>1, <1>2, Known DEF TableOK

\* Setting the default entry exchanges its reference.
LEMMA SetDefaultKeeps ==
  ASSUME ReferencesInv, NEW x \in Indices, SetDefault(x),
         LiveIn(mbr_handles.set, grp_handles.set, groups, x)
  PROVE  ReferencesInv'
<1> DEFINE released == DefaultReleased
<1>1. /\ index_ref_count' = RefCount(released, x, 1) /\ default_index' = {x}
      /\ UNCHANGED <<profileVars, fault>> /\ entries' = entries
      /\ modify_failed' = modify_failed /\ leaked' = leaked
  BY DEF SetDefault, history
<1>2. /\ released \in RcType(action_entries, groups)
      /\ modify_failed = 0 =>
           CountsOK(released, entries, {}, mbr_handles.set, grp_handles.set, groups, leaked)
  BY DefaultReleasedKeeps
<1> HIDE DEF released
<1>3. x \in Index
  BY IndexFacts
<1>4. index_ref_count' \in RcType(action_entries, groups)
  <2>1. released \in [mbr : [DOMAIN action_entries -> Count], grp : [DOMAIN groups -> Count]] /\ 1 \in Int
    BY <1>2 DEF RcType
  <2>2. QED
    BY <1>1, <1>3, <2>1, RefCountIs DEF RcType
<1>5. TableOK(entries', default_index')
  BY <1>1, Known DEF TableOK
<1>6. ASSUME modify_failed' = 0
      PROVE  /\ HeldOK(entries', default_index', mbr_handles.set, grp_handles.set, groups)
             /\ CountsOK(index_ref_count', entries', default_index', mbr_handles.set,
                         grp_handles.set, groups, leaked')
  <2>1. modify_failed = 0
    BY <1>1, <1>6
  <2>2. HeldOK(entries', default_index', mbr_handles.set, grp_handles.set, groups)
    BY <1>1, <2>1, Known DEF HeldOK
  <2>3. RefsTyped(DOMAIN action_entries, released, entries, {}, mbr_handles.set,
                  grp_handles.set, groups, leaked)
    BY <1>2, Known DEF RefsTyped, RcType
  <2>4. Comes(DOMAIN action_entries, released, entries, {}, mbr_handles.set,
              grp_handles.set, groups, leaked, x, entries, {x}, groups, leaked)
    BY <1>2, <1>3, <2>1, <2>3, IncDefault
  <2>5. CountsOK(index_ref_count', entries, {x}, mbr_handles.set, grp_handles.set, groups, leaked)
    BY <1>1, <2>4, ComesKeeps
  <2>6. QED
    BY <1>1, <2>2, <2>5
<1>7. QED
  BY <1>1, <1>4, <1>5, <1>6, Known, TableStepKeeps

\* reset_default_entry releases the reference.
LEMMA ResetDefaultEntryKeeps ==
  ASSUME ReferencesInv, ResetDefaultEntry
  PROVE  ReferencesInv'
<1>1. /\ index_ref_count' = DefaultReleased /\ default_index' = {}
      /\ UNCHANGED <<profileVars, fault>> /\ entries' = entries
      /\ modify_failed' = modify_failed /\ leaked' = leaked
  BY DEF ResetDefaultEntry, history
<1>2. /\ index_ref_count' \in RcType(action_entries, groups)
      /\ modify_failed = 0 =>
           CountsOK(index_ref_count', entries, {}, mbr_handles.set, grp_handles.set, groups, leaked)
  BY <1>1, DefaultReleasedKeeps
<1>3. TableOK(entries', default_index')
  BY <1>1, Known DEF TableOK
<1>4. modify_failed = 0 => HeldOK(entries', default_index', mbr_handles.set, grp_handles.set, groups)
  BY <1>1, Known DEF HeldOK
<1>5. HistoryOK(fault, modify_failed', leaked')
  BY <1>1, Known
<1>6. QED
  BY <1>1, <1>2, <1>3, <1>4, <1>5, TableStepKeeps

\* The process dies with group handles that have no group.
LEMMA FaultKeeps ==
  ASSUME ReferencesInv, Fault, ~(grp_handles.set \subseteq DOMAIN groups)
  PROVE  ReferencesInv'
<1>1. /\ mbr_handles' = mbr_handles /\ grp_handles' = grp_handles /\ action_entries' = action_entries
      /\ groups' = groups /\ fault' = TRUE /\ index_ref_count' = index_ref_count
      /\ entries' = entries /\ default_index' = default_index
      /\ modify_failed' = modify_failed /\ leaked' = leaked
  BY DEF Fault, profileVars, history
<1>2. /\ ProfileOK(mbr_handles', grp_handles', action_entries', groups')
      /\ TableOK(entries', default_index') /\ index_ref_count' \in RcType(action_entries', groups')
  BY <1>1, Known
<1>3. HistoryOK(fault', modify_failed', leaked')
  BY <1>1, Known DEF HistoryOK
<1>4. HeldInv' /\ CountsMatchReferences'
  BY <1>1, Known, HeldIs, CountsIs
<1>5. FaultsOnlyAfterReset'
  BY <1>1 DEF FaultsOnlyAfterReset
<1>6. QED
  BY <1>2, <1>3, <1>4, <1>5, InvIs

\* set_default_member checks the member first.
LEMMA SetDefaultMemberKeeps ==
  ASSUME ReferencesInv, NEW m \in 0..MaxMbrs, SetDefaultMember(m)
  PROVE  ReferencesInv'
<1>1. MbrIndex(m) \in Indices /\ SetDefault(MbrIndex(m))
  BY DEF SetDefaultMember, Indices
<1>2. LiveIn(mbr_handles.set, grp_handles.set, groups, MbrIndex(m))
  BY DEF SetDefaultMember, IsValid, ValidHandle, LiveIn, MbrIndex
<1>3. QED
  BY <1>1, <1>2, SetDefaultKeeps

\* set_default_group checks the group first.
LEMMA SetDefaultGroupKeeps ==
  ASSUME ReferencesInv, NEW g \in 0..MaxGrps, SetDefaultGroup(g)
  PROVE  ReferencesInv'
<1>1. g \in grp_handles.set
  BY DEF SetDefaultGroup, IsValid, ValidHandle, GrpIndex
<1>2. CASE g \in DOMAIN groups
  <2>1. GrpIndex(g) \in Indices /\ SetDefault(GrpIndex(g))
    BY <1>2 DEF SetDefaultGroup, Indices
  <2>2. LiveIn(mbr_handles.set, grp_handles.set, groups, GrpIndex(g))
    BY <1>1, <1>2 DEF LiveIn, GrpIndex
  <2>3. QED
    BY <2>1, <2>2, SetDefaultKeeps
<1>3. CASE g \notin DOMAIN groups
  BY <1>1, <1>3, FaultKeeps DEF SetDefaultGroup
<1>4. QED
  BY <1>2, <1>3

\* mt_clear_entries leaves behind what the entries, and perhaps the default
\* entry, were counted for.
LEMMA ClearEntriesKeeps ==
  ASSUME ReferencesInv, NEW b \in BOOLEAN, ClearEntries(b)
  PROVE  ReferencesInv'
<1> DEFINE n == Cardinality(DOMAIN entries)
           dropped == IF b THEN Cardinality(default_index) ELSE 0
<1>1. /\ leaked' = leaked + n + dropped /\ leaked' <= MaxLeaks
      /\ entries' = Empty /\ default_index' = IF b THEN {} ELSE default_index
      /\ UNCHANGED <<profileVars, fault>> /\ index_ref_count' = index_ref_count
      /\ modify_failed' = modify_failed
  BY DEF ClearEntries
<1>2. n \in Nat /\ dropped \in Nat
  <2>1. DOMAIN entries \subseteq Keys /\ Cardinality(default_index) \in Nat
    BY Known, DefaultSmall DEF TableOK
  <2>2. QED
    BY <2>1, TableAssumption, FS_Subset, FS_CardinalityType
<1>3. DOMAIN entries' = {} /\ entries' \in [DOMAIN entries' -> Index] /\ Cardinality({}) = 0
  BY <1>1, FS_EmptySet DEF Empty
<1>4. TableOK(entries', default_index')
  <2>1. Cardinality(DOMAIN entries') = 0 /\ TableSize \in Nat
    BY <1>3, TableAssumption
  <2>2. QED
    BY <1>1, <1>3, <2>1, Known DEF TableOK
<1>5. HistoryOK(fault, modify_failed', leaked')
  BY <1>1, <1>2, Known, ModPositive DEF HistoryOK
<1>6. modify_failed = 0 => HeldOK(entries', default_index', mbr_handles.set, grp_handles.set, groups)
  BY <1>1, <1>3, Known DEF HeldOK
<1>7. ASSUME modify_failed = 0
      PROVE  CountsOK(index_ref_count, entries', default_index', mbr_handles.set,
                      grp_handles.set, groups, leaked')
  <2>1. ASSUME NEW i \in Indices, LiveIn(mbr_handles.set, grp_handles.set, groups, i)
        PROVE  /\ Refs(entries', default_index', grp_handles.set, groups, i) <= CountIn(index_ref_count, i)
               /\ CountIn(index_ref_count, i)
                    <= Refs(entries', default_index', grp_handles.set, groups, i) + leaked'
    <3> DEFINE e == EntryRefs(entries, i)
               d == DefaultRefs(default_index, i)
               g == GroupRefs(grp_handles.set, groups, i)
               e2 == EntryRefs(entries', i)
               d2 == DefaultRefs(default_index', i)
               c == CountIn(index_ref_count, i)
    <3>1. e + d + g <= c /\ c <= e + d + g + leaked
      BY <1>7, <2>1, Known DEF CountsOK, Refs
    <3>2. e \in Nat /\ d \in Nat /\ g \in Nat /\ leaked \in Nat
      BY Known, RefsAre DEF HistoryOK
    <3>3. c \in Nat
      <4>1. i \in Index /\ (IF i.grp THEN i.hdl \in DOMAIN groups ELSE i.hdl \in DOMAIN action_entries)
        BY <2>1, Known, IndexFacts DEF LiveIn, RefsTyped
      <4>2. QED
        BY <4>1, Known DEF CountIn, RcType, Count
    <3>4. e2 = 0
      <4>1. {k \in DOMAIN entries' : entries'[k] = i} = {}
        BY <1>3
      <4>2. QED
        BY <1>3, <4>1 DEF EntryRefs
    <3>5. e <= n
      <4> DEFINE S == {k \in DOMAIN entries : entries[k] = i}
                 T == DOMAIN entries
      <4>1. S \subseteq T /\ IsFiniteSet(T)
        BY Known, TableAssumption, FS_Subset DEF TableOK
      <4> HIDE DEF S, T
      <4>2. Cardinality(S) <= Cardinality(T)
        BY <4>1, FS_Subset
      <4>3. QED
        BY <4>2 DEF S, T, EntryRefs
    <3>6. d2 \in Nat /\ d2 <= d /\ d <= d2 + dropped
      <4>1. CASE b
        <5>1. default_index' = {} /\ dropped = Cardinality(default_index)
          BY <1>1, <4>1
        <5>2. d2 = 0
          BY <5>1, DefaultIs
        <5>3. d <= Cardinality(default_index)
          <6> DEFINE S == {i} \cap default_index
          <6>1. S \subseteq default_index /\ IsFiniteSet(default_index)
            BY Known, DefaultSmall DEF TableOK
          <6> HIDE DEF S
          <6>2. Cardinality(S) <= Cardinality(default_index)
            BY <6>1, FS_Subset
          <6>3. QED
            BY <6>2 DEF S, DefaultRefs
        <5> HIDE DEF d, d2, dropped
        <5>4. QED
          BY <1>2, <3>2, <5>1, <5>2, <5>3
      <4>2. CASE ~b
        <5>1. default_index' = default_index
          BY <1>1, <4>2
        <5>2. QED
          BY <1>2, <3>2, <5>1
      <4>3. QED
        BY <4>1, <4>2
    <3> HIDE DEF e, d, g, e2, d2, c, n, dropped
    <3>7. e2 + d2 + g <= c /\ c <= e2 + d2 + g + leaked'
      BY <1>1, <1>2, <3>1, <3>2, <3>3, <3>4, <3>5, <3>6
    <3>8. QED
      BY <3>7 DEF e2, d2, g, c, Refs
  <2>2. QED
    BY <2>1 DEF CountsOK
<1>8. index_ref_count' \in RcType(action_entries, groups)
  BY <1>1, Known
<1>9. QED
  BY <1>1, <1>4, <1>5, <1>6, <1>7, <1>8, TableStepKeeps

-----------------------------------------------------------------------------
(* The steps of the profile.                                               *)

\* A vector has one position more, or another value at one.
PutAt(v, S, max, n, i, x, w) ==
  /\ max \in Nat /\ n \in 0..max /\ v \in [0 .. n - 1 -> S]
  /\ i \in 0 .. n /\ i < max /\ x \in S /\ w = Put(v, i, x)

PutDone(v, S, max, i, x, w) ==
  /\ Vector(w, S, max) /\ w \in [DOMAIN w -> S]
  /\ DOMAIN w = DOMAIN v \cup {i} /\ w[i] = x
  /\ \A j \in DOMAIN v : j # i => w[j] = v[j]

\* entries_insert: a vector grows by one or is written in place.
LEMMA PutVector ==
  ASSUME NEW v, NEW S, NEW max, NEW n, NEW i, NEW x, NEW w, PutAt(v, S, max, n, i, x, w)
  PROVE  PutDone(v, S, max, i, x, w)
<1>0. /\ max \in Nat /\ n \in 0..max /\ v \in [0 .. n - 1 -> S]
      /\ i \in 0 .. n /\ i < max /\ x \in S /\ w = Put(v, i, x)
  BY DEF PutAt
<1>1. /\ DOMAIN v = 0 .. n - 1 /\ \A j \in 0 .. n - 1 : v[j] \in S
  BY <1>0
<1>2. DOMAIN w = DOMAIN v \cup {i} /\ w[i] = x /\ \A j \in DOMAIN v : j # i => w[j] = v[j]
  BY <1>0 DEF Put
<1>3. DOMAIN w = IF i < n THEN 0 .. n - 1 ELSE 0 .. n
  BY <1>0, <1>1, <1>2
<1>4. w \in [DOMAIN w -> S]
  BY <1>0, <1>1, <1>2 DEF Put
<1>5. CASE i < n
  <2>1. n \in 0..max /\ w \in [0 .. n - 1 -> S]
    BY <1>0, <1>3, <1>4, <1>5
  <2>2. QED
    BY <1>2, <1>4, <2>1 DEF Vector, PutDone
<1>6. CASE ~(i < n)
  <2>1. n + 1 \in 0..max /\ w \in [0 .. (n + 1) - 1 -> S]
    BY <1>0, <1>3, <1>4, <1>6
  <2>2. QED
    BY <1>2, <1>4, <2>1 DEF Vector, PutDone
<1>7. QED
  BY <1>2, <1>4, <1>5, <1>6 DEF PutDone

\* The invariant after a step of the profile.
LEMMA ProfileStepKeeps ==
  ASSUME ReferencesInv, ~fault, fault' = fault, entries' = entries, default_index' = default_index,
         modify_failed' = modify_failed, leaked' = leaked,
         ProfileOK(mbr_handles', grp_handles', action_entries', groups'),
         index_ref_count' \in RcType(action_entries', groups'),
         modify_failed = 0 =>
           /\ HeldOK(entries, default_index, mbr_handles'.set, grp_handles'.set, groups')
           /\ CountsOK(index_ref_count', entries, default_index, mbr_handles'.set,
                       grp_handles'.set, groups', leaked)
  PROVE  ReferencesInv'
<1>1. TableOK(entries', default_index') /\ HistoryOK(fault', modify_failed', leaked')
  BY Known
<1>2. FaultsOnlyAfterReset'
  BY DEF FaultsOnlyAfterReset
<1>3. HeldInv' /\ CountsMatchReferences'
  BY HeldIs, CountsIs
<1>4. QED
  BY <1>1, <1>2, <1>3, InvIs

\* What is not live is referred to by nobody.
LEMMA DeadUnreferenced ==
  ASSUME NEW ent, NEW dflt, NEW mset, NEW gset, NEW grps, NEW i,
         HeldOK(ent, dflt, mset, gset, grps), ~LiveIn(mset, gset, grps, i)
  PROVE  Refs(ent, dflt, gset, grps, i) = 0
<1>1. {k \in DOMAIN ent : ent[k] = i} = {}
  BY DEF HeldOK
<1>2. {i} \cap dflt = {}
  BY DEF HeldOK
<1>3. ~i.grp => {g \in gset \cap DOMAIN grps : i.hdl \in grps[g]} = {}
  BY DEF HeldOK, LiveIn
<1>4. EntryRefs(ent, i) = 0 /\ DefaultRefs(dflt, i) = 0 /\ GroupRefs(gset, grps, i) = 0
  BY <1>1, <1>2, <1>3, FS_EmptySet DEF EntryRefs, DefaultRefs, GroupRefs
<1>5. QED
  BY <1>4 DEF Refs

\* What has no references is held by nobody.
LEMMA UnreferencedFree ==
  ASSUME NEW ent, NEW dflt, NEW gset, NEW grps, NEW i,
         DOMAIN ent \subseteq Keys, DOMAIN grps \subseteq 0 .. MaxGrps - 1,
         Refs(ent, dflt, gset, grps, i) = 0
  PROVE  /\ \A k \in DOMAIN ent : ent[k] # i
         /\ i \notin dflt
         /\ ~i.grp => \A g \in gset : g \in DOMAIN grps => i.hdl \notin grps[g]
<1>1. EntryRefs(ent, i) = 0 /\ DefaultRefs(dflt, i) = 0 /\ GroupRefs(gset, grps, i) = 0
  <2>1. EntryRefs(ent, i) \in Nat /\ DefaultRefs(dflt, i) \in {0, 1} /\ GroupRefs(gset, grps, i) \in Nat
    BY RefsBound
  <2>2. QED
    BY <2>1 DEF Refs
<1>2. \A k \in DOMAIN ent : ent[k] # i
  <2> DEFINE S == {k \in DOMAIN ent : ent[k] = i}
  <2>1. S \subseteq Keys /\ Cardinality(S) = 0
    BY <1>1 DEF EntryRefs
  <2>2. S = {}
    <3> HIDE DEF S
    <3>1. QED
      BY <2>1, TableAssumption, FS_Subset, FS_EmptySet
  <2>3. QED
    BY <2>2
<1>3. i \notin dflt
  <2>1. CASE i \in dflt
    <3>1. {i} \cap dflt = {i}
      BY <2>1
    <3>2. DefaultRefs(dflt, i) = 1
      BY <3>1, FS_Singleton DEF DefaultRefs
    <3>3. QED
      BY <1>1, <3>2
  <2>2. QED
    BY <2>1
<1>4. ASSUME ~i.grp PROVE \A g \in gset : g \in DOMAIN grps => i.hdl \notin grps[g]
  <2> DEFINE S == {g \in gset \cap DOMAIN grps : i.hdl \in grps[g]}
             T == 0 .. MaxGrps - 1
  <2>1. S \subseteq T /\ Cardinality(S) = 0
    BY <1>1, <1>4 DEF GroupRefs
  <2>2. IsFiniteSet(T)
    <3>1. 0 \in Int /\ MaxGrps - 1 \in Int
      BY ModPositive
    <3>2. QED
      BY <3>1, FS_Interval
  <2>3. S = {}
    <3> HIDE DEF S, T
    <3>1. QED
      BY <2>1, <2>2, FS_Subset, FS_EmptySet
  <2>4. QED
    BY <2>3
<1>5. QED
  BY <1>2, <1>3, <1>4

\* An interval from 0 determines its length.
LEMMA SameLength ==
  ASSUME NEW m \in Nat, NEW n \in Nat, 0 .. m - 1 = 0 .. n - 1
  PROVE  m = n
<1>1. CASE m < n
  <2>1. n - 1 \in 0 .. n - 1 /\ n - 1 \notin 0 .. m - 1
    BY <1>1
  <2>2. QED
    BY <2>1
<1>2. CASE n < m
  <2>1. m - 1 \in 0 .. m - 1 /\ m - 1 \notin 0 .. n - 1
    BY <1>2
  <2>2. QED
    BY <2>1
<1>3. QED
  BY <1>1, <1>2

\* The facts about the two vectors.
LEMMA Vectors ==
  ASSUME ReferencesInv
  PROVE  /\ mbr_handles.size \in 0 .. MaxMbrs
         /\ action_entries \in [0 .. mbr_handles.size - 1 -> Actions]
         /\ \E n \in 0 .. MaxGrps : groups \in [0 .. n - 1 -> SUBSET (0 .. MaxMbrs - 1)]
         /\ mbr_handles.set \subseteq 0 .. MaxMbrs - 1
<1>1. /\ MgrOK(mbr_handles) /\ DOMAIN action_entries = 0 .. mbr_handles.size - 1
      /\ Vector(action_entries, Actions, MaxMbrs)
      /\ Vector(groups, SUBSET (0 .. MaxMbrs - 1), MaxGrps)
  BY Known DEF ProfileOK
<1>2. PICK n \in 0 .. MaxMbrs : action_entries \in [0 .. n - 1 -> Actions]
  BY <1>1 DEF Vector
<1>3. mbr_handles.size \in Nat /\ n \in Nat /\ 0 .. mbr_handles.size - 1 = 0 .. n - 1
  BY <1>1, <1>2, ModPositive DEF MgrOK, Mgr
<1>4. mbr_handles.size = n
  BY <1>3, SameLength
<1>5. mbr_handles.set \subseteq 0 .. mbr_handles.size - 1
  BY <1>1 DEF MgrOK
<1>6. mbr_handles.set \subseteq 0 .. MaxMbrs - 1 /\ mbr_handles.size \in 0 .. MaxMbrs
  BY <1>3, <1>4, <1>5, ModPositive
<1>7. \E p \in 0 .. MaxGrps : groups \in [0 .. p - 1 -> SUBSET (0 .. MaxMbrs - 1)]
  BY <1>1 DEF Vector
<1>8. action_entries \in [0 .. mbr_handles.size - 1 -> Actions]
  BY <1>2, <1>4
<1>9. QED
  BY <1>6, <1>7, <1>8

\* add_member: a fresh member has no references.
LEMMA AddMemberKeeps ==
  ASSUME ReferencesInv, NEW a \in Actions, AddMember(a)
  PROVE  ReferencesInv'
<1> DEFINE m == mbr_handles.first_unset
           v == Put(index_ref_count.mbr, m, 0)
<1>1. /\ ~fault /\ m < MaxMbrs /\ mbr_handles' = GetHandle(mbr_handles)
      /\ action_entries' = Put(action_entries, m, a)
      /\ index_ref_count' = [index_ref_count EXCEPT !.mbr = v]
      /\ grp_handles' = grp_handles /\ groups' = groups /\ entries' = entries
      /\ default_index' = default_index /\ fault' = fault
      /\ modify_failed' = modify_failed /\ leaked' = leaked
  BY DEF AddMember, history
<1>2. MgrOK(mbr_handles) /\ m \in Nat /\ m <= mbr_handles.size /\ m \notin mbr_handles.set
  BY Known DEF ProfileOK, MgrOK, Mgr
<1>3. /\ MgrOK(mbr_handles') /\ mbr_handles'.set = mbr_handles.set \cup {m}
      /\ mbr_handles'.size = IF m < mbr_handles.size THEN mbr_handles.size ELSE mbr_handles.size + 1
  BY <1>1, <1>2, GetHandleKeeps
<1>4. /\ mbr_handles.size \in 0 .. MaxMbrs /\ MaxMbrs \in Nat
      /\ action_entries \in [0 .. mbr_handles.size - 1 -> Actions]
  BY Vectors, ModPositive
<1>5. index_ref_count.mbr \in [0 .. mbr_handles.size - 1 -> Count] /\ 0 \in Count
      /\ index_ref_count \in [mbr : [0 .. mbr_handles.size - 1 -> Count], grp : [DOMAIN groups -> Count]]
  BY <1>4, Known, ModPositive DEF RcType, Count
<1>6. m \in 0 .. mbr_handles.size
  BY <1>2, <1>4
<1>v. v = Put(index_ref_count.mbr, m, 0)
  OBVIOUS
<1> HIDE DEF m, v
<1>7. /\ Vector(action_entries', Actions, MaxMbrs)
      /\ DOMAIN action_entries' = IF m < mbr_handles.size THEN 0 .. mbr_handles.size - 1
                                  ELSE 0 .. mbr_handles.size
  <2>1. PutAt(action_entries, Actions, MaxMbrs, mbr_handles.size, m, a, action_entries')
    BY <1>1, <1>4, <1>6 DEF PutAt
  <2>2. PutDone(action_entries, Actions, MaxMbrs, m, a, action_entries')
    BY <2>1, PutVector
  <2>3. QED
    BY <1>4, <1>6, <2>2 DEF PutDone
<1>8. /\ v \in [DOMAIN v -> Count] /\ DOMAIN v = DOMAIN index_ref_count.mbr \cup {m} /\ v[m] = 0
      /\ \A j \in DOMAIN index_ref_count.mbr : j # m => v[j] = index_ref_count.mbr[j]
      /\ DOMAIN v = IF m < mbr_handles.size THEN 0 .. mbr_handles.size - 1
                    ELSE 0 .. mbr_handles.size
  <2>1. PutAt(index_ref_count.mbr, Count, MaxMbrs, mbr_handles.size, m, 0, v)
    BY <1>1, <1>4, <1>5, <1>6, <1>v DEF PutAt
  <2>2. PutDone(index_ref_count.mbr, Count, MaxMbrs, m, 0, v)
    BY <2>1, PutVector
  <2>3. QED
    BY <1>4, <1>5, <1>6, <2>2 DEF PutDone
<1>9. ProfileOK(mbr_handles', grp_handles', action_entries', groups')
  <2>1. DOMAIN action_entries' = 0 .. mbr_handles'.size - 1
    BY <1>3, <1>4, <1>7
  <2>2. QED
    BY <1>1, <1>3, <1>7, <2>1, Known DEF ProfileOK
<1>10. index_ref_count' \in RcType(action_entries', groups')
       /\ index_ref_count'.mbr = v /\ index_ref_count'.grp = index_ref_count.grp
  BY <1>1, <1>5, <1>7, <1>8 DEF RcType
<1>11. ASSUME modify_failed = 0
       PROVE  /\ HeldOK(entries, default_index, mbr_handles'.set, grp_handles'.set, groups')
              /\ CountsOK(index_ref_count', entries, default_index, mbr_handles'.set,
                          grp_handles'.set, groups', leaked)
  <2>1. HeldOK(entries, default_index, mbr_handles.set, grp_handles.set, groups)
        /\ CountsOK(index_ref_count, entries, default_index, mbr_handles.set,
                    grp_handles.set, groups, leaked) /\ leaked \in Nat
    BY <1>11, Known DEF HistoryOK
  <2>2. HeldOK(entries, default_index, mbr_handles'.set, grp_handles'.set, groups')
    BY <1>1, <1>3, <2>1 DEF HeldOK, LiveIn
  <2>3. ASSUME NEW i \in Indices, LiveIn(mbr_handles'.set, grp_handles.set, groups, i)
        PROVE  /\ Refs(entries, default_index, grp_handles.set, groups, i) <= CountIn(index_ref_count', i)
               /\ CountIn(index_ref_count', i)
                    <= Refs(entries, default_index, grp_handles.set, groups, i) + leaked
    <3>1. CASE LiveIn(mbr_handles.set, grp_handles.set, groups, i)
      <4>1. ~i.grp => i.hdl \in DOMAIN index_ref_count.mbr /\ i.hdl # m
        BY <1>2, <1>5, <3>1 DEF LiveIn, MgrOK, m
      <4>2. CountIn(index_ref_count', i) = CountIn(index_ref_count, i)
        BY <1>8, <1>10, <4>1 DEF CountIn
      <4>3. QED
        BY <2>1, <3>1, <4>2 DEF CountsOK
    <3>2. CASE ~LiveIn(mbr_handles.set, grp_handles.set, groups, i)
      <4>1. ~i.grp /\ i.hdl = m
        BY <1>3, <2>3, <3>2 DEF LiveIn
      <4>2. CountIn(index_ref_count', i) = 0
        BY <1>8, <1>10, <4>1 DEF CountIn
      <4>3. Refs(entries, default_index, grp_handles.set, groups, i) = 0
        BY <2>1, <3>2, DeadUnreferenced
      <4>4. QED
        BY <2>1, <4>2, <4>3
    <3>3. QED
      BY <3>1, <3>2
  <2>4. CountsOK(index_ref_count', entries, default_index, mbr_handles'.set,
                 grp_handles.set, groups, leaked)
    BY <2>3 DEF CountsOK
  <2>5. QED
    BY <1>1, <2>2, <2>4
<1>12. QED
  BY <1>1, <1>9, <1>10, <1>11, ProfileStepKeeps

\* delete_member refuses a member that is referred to.
LEMMA DeleteMemberKeeps ==
  ASSUME ReferencesInv, NEW m \in 0..MaxMbrs, DeleteMember(m)
  PROVE  ReferencesInv'
<1>1. /\ ~fault /\ m \in mbr_handles.set /\ index_ref_count.mbr[m] = 0
      /\ mbr_handles' = ReleaseHandle(mbr_handles, m)
      /\ action_entries' = action_entries /\ index_ref_count' = index_ref_count
      /\ grp_handles' = grp_handles /\ groups' = groups /\ entries' = entries
      /\ default_index' = default_index /\ fault' = fault
      /\ modify_failed' = modify_failed /\ leaked' = leaked
  BY DEF DeleteMember, ValidHandle, history
<1>2. MgrOK(mbr_handles)
  BY Known DEF ProfileOK
<1>3. MgrOK(mbr_handles') /\ mbr_handles'.set = mbr_handles.set \ {m} /\ mbr_handles'.size = mbr_handles.size
  BY <1>1, <1>2, ReleaseHandleKeeps
<1>4. ProfileOK(mbr_handles', grp_handles', action_entries', groups')
      /\ index_ref_count' \in RcType(action_entries', groups')
  BY <1>1, <1>3, Known DEF ProfileOK
<1>5. ASSUME modify_failed = 0
      PROVE  /\ HeldOK(entries, default_index, mbr_handles'.set, grp_handles'.set, groups')
             /\ CountsOK(index_ref_count', entries, default_index, mbr_handles'.set,
                         grp_handles'.set, groups', leaked)
  <2> DEFINE x == MbrIndex(m)
  <2>1. HeldOK(entries, default_index, mbr_handles.set, grp_handles.set, groups)
        /\ CountsOK(index_ref_count, entries, default_index, mbr_handles.set,
                    grp_handles.set, groups, leaked)
    BY <1>5, Known
  <2>2. x \in Indices /\ ~x.grp /\ x.hdl = m /\ x \in Index
    BY IndexFacts DEF Indices, MbrIndex
  <2> HIDE DEF x
  <2>3. LiveIn(mbr_handles.set, grp_handles.set, groups, x) /\ CountIn(index_ref_count, x) = 0
    BY <1>1, <2>2 DEF LiveIn, CountIn
  <2>4. Refs(entries, default_index, grp_handles.set, groups, x) = 0
    <3>1. Refs(entries, default_index, grp_handles.set, groups, x) <= 0
      BY <2>1, <2>2, <2>3 DEF CountsOK
    <3>2. EntryRefs(entries, x) \in Nat /\ DefaultRefs(default_index, x) \in Nat
          /\ GroupRefs(grp_handles.set, groups, x) \in Nat
      BY Known, RefsAre
    <3>3. QED
      BY <3>1, <3>2 DEF Refs
  <2>5. /\ \A k \in DOMAIN entries : entries[k] # x
        /\ x \notin default_index
        /\ \A g \in grp_handles.set : g \in DOMAIN groups => m \notin groups[g]
    <3>1. DOMAIN entries \subseteq Keys /\ DOMAIN groups \subseteq 0 .. MaxGrps - 1
      BY Known DEF RefsTyped
    <3>2. QED
      BY <2>2, <2>4, <3>1, UnreferencedFree
  <2>6. \A i \in Index : LiveIn(mbr_handles.set, grp_handles.set, groups, i) /\ i # x =>
          LiveIn(mbr_handles'.set, grp_handles.set, groups, i)
    BY <1>3, <2>2, IndexFacts DEF LiveIn
  <2>7. /\ \A k \in DOMAIN entries : entries[k] \in Index
        /\ \A i \in default_index : i \in Index
    BY Known, DefaultSmall DEF TableOK
  <2>8. HeldOK(entries, default_index, mbr_handles'.set, grp_handles.set, groups)
    BY <1>3, <2>1, <2>5, <2>6, <2>7 DEF HeldOK
  <2>9. CountsOK(index_ref_count, entries, default_index, mbr_handles'.set,
                 grp_handles.set, groups, leaked)
    BY <1>3, <2>1 DEF CountsOK, LiveIn
  <2>10. QED
    BY <1>1, <2>8, <2>9
<1>6. QED
  BY <1>1, <1>4, <1>5, ProfileStepKeeps

\* modify_member changes the action and no reference.
LEMMA ModifyMemberKeeps ==
  ASSUME ReferencesInv, NEW m, NEW a \in Actions, ModifyMember(m, a)
  PROVE  ReferencesInv'
<1>1. /\ ~fault /\ action_entries' = [action_entries EXCEPT ![m] = a]
      /\ mbr_handles' = mbr_handles /\ index_ref_count' = index_ref_count
      /\ grp_handles' = grp_handles /\ groups' = groups /\ entries' = entries
      /\ default_index' = default_index /\ fault' = fault
      /\ modify_failed' = modify_failed /\ leaked' = leaked
  BY DEF ModifyMember, history
<1>2. DOMAIN action_entries' = DOMAIN action_entries
      /\ Vector(action_entries', Actions, MaxMbrs)
  <2>1. PICK n \in 0 .. MaxMbrs : action_entries \in [0 .. n - 1 -> Actions]
    BY Vectors
  <2>2. action_entries' \in [0 .. n - 1 -> Actions]
    BY <1>1, <2>1
  <2>3. QED
    BY <2>1, <2>2 DEF Vector
<1>3. ProfileOK(mbr_handles', grp_handles', action_entries', groups')
      /\ index_ref_count' \in RcType(action_entries', groups')
  BY <1>1, <1>2, Known DEF ProfileOK, RcType
<1>4. QED
  BY <1>1, <1>3, Known, ProfileStepKeeps

\* create_group: a fresh group has no members and no references.
LEMMA CreateGroupKeeps ==
  ASSUME ReferencesInv, CreateGroup
  PROVE  ReferencesInv'
<1> DEFINE g == grp_handles.first_unset
           v == Put(index_ref_count.grp, g, 0)
<1>1. PICK n \in 0 .. MaxGrps : groups \in [0 .. n - 1 -> SUBSET (0 .. MaxMbrs - 1)]
  BY Vectors
<1>2. n \in Nat /\ MaxGrps \in Nat /\ DOMAIN groups = 0 .. n - 1
  BY <1>1, ModPositive
<1>3. Cardinality(DOMAIN groups) = n
  <2>1. 0 \in Int /\ n - 1 \in Int
    BY <1>2
  <2>2. QED
    BY <1>2, <2>1, FS_Interval
<1>4. /\ MgrOK(grp_handles) /\ g \in Nat /\ g \notin grp_handles.set
      /\ 0 .. g - 1 \subseteq grp_handles.set
  BY Known DEF ProfileOK, MgrOK, Mgr
<1>5. CASE g \in DOMAIN groups \cup {Cardinality(DOMAIN groups)}
  <2>1. /\ ~fault /\ g < MaxGrps /\ grp_handles' = GetHandle(grp_handles)
        /\ groups' = Put(groups, g, {})
        /\ index_ref_count' = [index_ref_count EXCEPT !.grp = v]
        /\ mbr_handles' = mbr_handles /\ action_entries' = action_entries /\ entries' = entries
        /\ default_index' = default_index /\ fault' = fault
        /\ modify_failed' = modify_failed /\ leaked' = leaked
    BY <1>5 DEF CreateGroup, history
  <2>2. MgrOK(grp_handles') /\ grp_handles'.set = grp_handles.set \cup {g}
    BY <1>4, <2>1, GetHandleKeeps
  <2>3. /\ index_ref_count.grp \in [0 .. n - 1 -> Count] /\ 0 \in Count
        /\ index_ref_count \in [mbr : [DOMAIN action_entries -> Count], grp : [0 .. n - 1 -> Count]]
    BY <1>2, Known, ModPositive DEF RcType, Count
  <2>4. g \in 0 .. n
    BY <1>2, <1>3, <1>5
  <2>v. v = Put(index_ref_count.grp, g, 0)
    OBVIOUS
  <2> HIDE DEF g, v
  <2>5. /\ Vector(groups', SUBSET (0 .. MaxMbrs - 1), MaxGrps)
        /\ DOMAIN groups' = DOMAIN groups \cup {g} /\ groups'[g] = {}
        /\ \A j \in DOMAIN groups : j # g => groups'[j] = groups[j]
    <3>1. PutAt(groups, SUBSET (0 .. MaxMbrs - 1), MaxGrps, n, g, {}, groups')
      BY <1>1, <1>2, <2>1, <2>4 DEF PutAt
    <3>2. PutDone(groups, SUBSET (0 .. MaxMbrs - 1), MaxGrps, g, {}, groups')
      BY <3>1, PutVector
    <3>3. QED
      BY <3>2 DEF PutDone
  <2>6. /\ v \in [DOMAIN v -> Count] /\ DOMAIN v = DOMAIN groups \cup {g} /\ v[g] = 0
        /\ \A j \in DOMAIN groups : j # g => v[j] = index_ref_count.grp[j]
    <3>1. PutAt(index_ref_count.grp, Count, MaxGrps, n, g, 0, v)
      BY <1>2, <2>1, <2>3, <2>4, <2>v DEF PutAt
    <3>2. PutDone(index_ref_count.grp, Count, MaxGrps, g, 0, v)
      BY <3>1, PutVector
    <3>3. QED
      BY <1>2, <2>3, <3>2 DEF PutDone
  <2>7. ProfileOK(mbr_handles', grp_handles', action_entries', groups')
    BY <2>1, <2>2, <2>5, Known DEF ProfileOK
  <2>8. index_ref_count' \in RcType(action_entries', groups')
        /\ index_ref_count'.grp = v /\ index_ref_count'.mbr = index_ref_count.mbr
    BY <2>1, <2>3, <2>5, <2>6 DEF RcType
  <2>9. ASSUME modify_failed = 0
        PROVE  /\ HeldOK(entries, default_index, mbr_handles'.set, grp_handles'.set, groups')
               /\ CountsOK(index_ref_count', entries, default_index, mbr_handles'.set,
                           grp_handles'.set, groups', leaked)
    <3>1. HeldOK(entries, default_index, mbr_handles.set, grp_handles.set, groups)
          /\ CountsOK(index_ref_count, entries, default_index, mbr_handles.set,
                      grp_handles.set, groups, leaked) /\ leaked \in Nat
      BY <2>9, Known DEF HistoryOK
    <3>2. HeldOK(entries, default_index, mbr_handles.set, grp_handles'.set, groups')
      <4>1. \A i : LiveIn(mbr_handles.set, grp_handles.set, groups, i) =>
                     LiveIn(mbr_handles.set, grp_handles'.set, groups', i)
        BY <2>2, <2>5 DEF LiveIn
      <4>2. \A h \in grp_handles'.set : h \in DOMAIN groups' => groups'[h] \subseteq mbr_handles.set
        BY <2>2, <2>5, <3>1 DEF HeldOK
      <4>3. QED
        BY <3>1, <4>1, <4>2 DEF HeldOK
    <3>3. ASSUME NEW i \in Indices, LiveIn(mbr_handles.set, grp_handles'.set, groups', i)
          PROVE  /\ Refs(entries, default_index, grp_handles'.set, groups', i) <= CountIn(index_ref_count', i)
                 /\ CountIn(index_ref_count', i)
                      <= Refs(entries, default_index, grp_handles'.set, groups', i) + leaked
      <4>1. Refs(entries, default_index, grp_handles'.set, groups', i)
              = Refs(entries, default_index, grp_handles.set, groups, i)
        <5>1. g \notin grp_handles.set
          BY <1>4 DEF g
        <5>2. GroupRefs(grp_handles.set \cup {g}, groups', i) = GroupRefs(grp_handles.set, groups, i)
          BY <2>5, <5>1, GroupEmpty
        <5>3. QED
          BY <2>2, <5>2 DEF Refs
      <4>2. CASE LiveIn(mbr_handles.set, grp_handles.set, groups, i)
        <5>1. i.grp => i.hdl \in DOMAIN groups /\ i.hdl # g
          BY <1>4, <4>2 DEF LiveIn, g
        <5>2. CountIn(index_ref_count', i) = CountIn(index_ref_count, i)
          BY <2>6, <2>8, <5>1 DEF CountIn
        <5>3. QED
          BY <3>1, <4>1, <4>2, <5>2 DEF CountsOK
      <4>3. CASE ~LiveIn(mbr_handles.set, grp_handles.set, groups, i)
        <5>1. i.grp /\ i.hdl = g
          <6>1. CASE i.grp /\ i.hdl # g
            BY <2>2, <2>5, <3>3, <4>3, <6>1 DEF LiveIn
          <6>2. CASE ~i.grp
            BY <3>3, <4>3, <6>2 DEF LiveIn
          <6>3. QED
            BY <6>1, <6>2
        <5>2. CountIn(index_ref_count', i) = 0
          BY <2>6, <2>8, <5>1 DEF CountIn
        <5>3. Refs(entries, default_index, grp_handles.set, groups, i) = 0
          BY <3>1, <4>3, DeadUnreferenced
        <5>4. QED
          BY <3>1, <4>1, <5>2, <5>3
      <4>4. QED
        BY <4>2, <4>3
    <3>4. CountsOK(index_ref_count', entries, default_index, mbr_handles.set,
                   grp_handles'.set, groups', leaked)
      BY <3>3 DEF CountsOK
    <3>5. QED
      BY <2>1, <3>2, <3>4
  <2>10. QED
    BY <2>1, <2>7, <2>8, <2>9, ProfileStepKeeps
<1>6. CASE g \notin DOMAIN groups \cup {Cardinality(DOMAIN groups)}
  <2>1. Fault
    BY <1>6 DEF CreateGroup
  <2>2. n \in 0 .. g - 1 /\ n \notin DOMAIN groups
    BY <1>2, <1>3, <1>4, <1>6
  <2>3. ~(grp_handles.set \subseteq DOMAIN groups)
    BY <1>4, <2>2
  <2>4. QED
    BY <2>1, <2>3, FaultKeeps
<1>7. QED
  BY <1>5, <1>6

\* delete_group releases the references of its members.
LEMMA DeleteGroupKeeps ==
  ASSUME ReferencesInv, NEW g \in 0..MaxGrps, DeleteGroup(g)
  PROVE  ReferencesInv'
<1>0. g \in grp_handles.set
  BY DEF DeleteGroup, ValidHandle
<1>1. CASE g \notin DOMAIN groups
  BY <1>0, <1>1, FaultKeeps DEF DeleteGroup
<1>2. CASE g \in DOMAIN groups
  <2> DEFINE v == [m \in DOMAIN index_ref_count.mbr |->
                    IF m \in groups[g] THEN (index_ref_count.mbr[m] - 1) % CountMod
                    ELSE index_ref_count.mbr[m]]
  <2>1. /\ ~fault /\ index_ref_count.grp[g] = 0
        /\ index_ref_count' = [index_ref_count EXCEPT !.mbr = v]
        /\ grp_handles' = ReleaseHandle(grp_handles, g)
        /\ groups' = groups
        /\ mbr_handles' = mbr_handles /\ action_entries' = action_entries /\ entries' = entries
        /\ default_index' = default_index /\ fault' = fault
        /\ modify_failed' = modify_failed /\ leaked' = leaked
    BY <1>2 DEF DeleteGroup, history
  <2>2. MgrOK(grp_handles)
    BY Known DEF ProfileOK
  <2>3. MgrOK(grp_handles') /\ grp_handles'.set = grp_handles.set \ {g}
    BY <1>0, <2>1, <2>2, ReleaseHandleKeeps
  <2>4. /\ index_ref_count.mbr \in [DOMAIN action_entries -> Count]
        /\ index_ref_count \in [mbr : [DOMAIN action_entries -> Count], grp : [DOMAIN groups -> Count]]
    BY Known DEF RcType
  <2>5. \A c \in Count : (c - 1) % CountMod \in Count
    BY ModPositive, Wraps DEF Count
  <2>6. /\ v \in [DOMAIN action_entries -> Count]
        /\ \A m \in DOMAIN action_entries :
             v[m] = IF m \in groups[g] THEN (index_ref_count.mbr[m] - 1) % CountMod
                    ELSE index_ref_count.mbr[m]
    BY <2>4, <2>5
  <2> HIDE DEF v
  <2>7. ProfileOK(mbr_handles', grp_handles', action_entries', groups')
    BY <2>1, <2>3, Known DEF ProfileOK
  <2>8. index_ref_count' \in RcType(action_entries', groups')
        /\ index_ref_count'.mbr = v /\ index_ref_count'.grp = index_ref_count.grp
    BY <2>1, <2>4, <2>6 DEF RcType
  <2>9. ASSUME modify_failed = 0
        PROVE  /\ HeldOK(entries, default_index, mbr_handles'.set, grp_handles'.set, groups')
               /\ CountsOK(index_ref_count', entries, default_index, mbr_handles'.set,
                           grp_handles'.set, groups', leaked)
    <3> DEFINE x == GrpIndex(g)
    <3>1. HeldOK(entries, default_index, mbr_handles.set, grp_handles.set, groups)
          /\ CountsOK(index_ref_count, entries, default_index, mbr_handles.set,
                      grp_handles.set, groups, leaked) /\ leaked \in Nat
      BY <2>9, Known DEF HistoryOK
    <3>2. x \in Indices /\ x.grp /\ x.hdl = g /\ x \in Index
      BY IndexFacts DEF Indices, GrpIndex
    <3> HIDE DEF x
    <3>3. LiveIn(mbr_handles.set, grp_handles.set, groups, x) /\ CountIn(index_ref_count, x) = 0
      BY <1>0, <1>2, <2>1, <3>2 DEF LiveIn, CountIn
    <3>4. Refs(entries, default_index, grp_handles.set, groups, x) = 0
      <4>1. Refs(entries, default_index, grp_handles.set, groups, x) <= 0
        BY <3>1, <3>2, <3>3 DEF CountsOK
      <4>2. EntryRefs(entries, x) \in Nat /\ DefaultRefs(default_index, x) \in Nat
            /\ GroupRefs(grp_handles.set, groups, x) \in Nat
        BY Known, RefsAre
      <4>3. QED
        BY <4>1, <4>2 DEF Refs
    <3>t. DOMAIN entries \subseteq Keys /\ DOMAIN groups \subseteq 0 .. MaxGrps - 1
      BY Known DEF RefsTyped
    <3>5. (\A k \in DOMAIN entries : entries[k] # x) /\ x \notin default_index
      BY <3>t, <3>4, UnreferencedFree
    <3>6. \A i \in Index : LiveIn(mbr_handles.set, grp_handles.set, groups, i) /\ i # x =>
            LiveIn(mbr_handles.set, grp_handles'.set, groups, i)
      BY <2>3, <3>2, IndexFacts DEF LiveIn
    <3>7. /\ \A k \in DOMAIN entries : entries[k] \in Index
          /\ \A i \in default_index : i \in Index
      BY Known, DefaultSmall DEF TableOK
    <3>8. HeldOK(entries, default_index, mbr_handles.set, grp_handles'.set, groups)
      BY <2>3, <3>1, <3>5, <3>6, <3>7 DEF HeldOK
    <3>9. ASSUME NEW i \in Indices, LiveIn(mbr_handles.set, grp_handles'.set, groups, i)
          PROVE  /\ Refs(entries, default_index, grp_handles'.set, groups, i) <= CountIn(index_ref_count', i)
                 /\ CountIn(index_ref_count', i)
                      <= Refs(entries, default_index, grp_handles'.set, groups, i) + leaked
      <4> DEFINE r == Refs(entries, default_index, grp_handles.set, groups, i)
                 r2 == Refs(entries, default_index, grp_handles'.set, groups, i)
                 c == CountIn(index_ref_count, i)
                 c2 == CountIn(index_ref_count', i)
      <4>1. i \in Index /\ LiveIn(mbr_handles.set, grp_handles.set, groups, i)
        BY <2>3, <3>9, IndexFacts DEF LiveIn
      <4>2. r <= c /\ c <= r + leaked
        BY <3>1, <4>1 DEF CountsOK
      <4>3. /\ EntryRefs(entries, i) \in Nat /\ DefaultRefs(default_index, i) \in {0, 1}
            /\ GroupRefs(grp_handles.set, groups, i) \in Nat
            /\ GroupRefs(grp_handles'.set, groups, i) \in Nat
        BY <3>t, RefsBound
      <4>4. r \in Nat /\ r2 \in Nat
        BY <4>3 DEF Refs
      <4>5. CASE i.grp
        <5>1. c2 = c
          BY <2>8, <4>5 DEF CountIn
        <5>2. r2 = r
          BY <4>5 DEF Refs, GroupRefs
        <5>3. QED
          BY <4>2, <5>1, <5>2
      <4>6. CASE ~i.grp
        <5>1. i.hdl \in DOMAIN action_entries
          BY <4>1, <4>6, Known DEF LiveIn, RefsTyped
        <5>2. /\ i.hdl \in groups[g] => GroupRefs(grp_handles'.set, groups, i)
                                          = GroupRefs(grp_handles.set, groups, i) - 1
              /\ i.hdl \notin groups[g] => GroupRefs(grp_handles'.set, groups, i)
                                             = GroupRefs(grp_handles.set, groups, i)
          BY <1>0, <1>2, <2>3, <3>t, <4>1, <4>6, GroupGone, SMTT(40)
        <5>3. c \in Count /\ c2 = IF i.hdl \in groups[g] THEN (c - 1) % CountMod ELSE c
          BY <2>4, <2>6, <2>8, <4>6, <5>1 DEF CountIn
        <5>4. (i.hdl \in groups[g] => r2 = r - 1) /\ (i.hdl \notin groups[g] => r2 = r)
          BY <4>3, <5>2 DEF Refs
        <5> HIDE DEF r, r2, c, c2
        <5>5. CASE i.hdl \in groups[g]
          <6>1. r2 <= (c - 1) % CountMod /\ (c - 1) % CountMod <= r2 + leaked
            BY <3>1, <4>2, <4>4, <5>3, <5>4, <5>5, CountDown
          <6>2. QED
            BY <5>3, <5>5, <6>1 DEF r2, c2
        <5>6. CASE i.hdl \notin groups[g]
          <6>1. r2 <= c2 /\ c2 <= r2 + leaked
            BY <4>2, <5>3, <5>4, <5>6
          <6>2. QED
            BY <6>1 DEF r2, c2
        <5>7. QED
          BY <5>5, <5>6
      <4>7. QED
        BY <4>1, <4>5, <4>6, IndexFacts
    <3>10. CountsOK(index_ref_count', entries, default_index, mbr_handles.set,
                    grp_handles'.set, groups, leaked)
      BY <3>9 DEF CountsOK
    <3>11. QED
      BY <2>1, <3>8, <3>10
  <2>10. QED
    BY <2>1, <2>7, <2>8, <2>9, ProfileStepKeeps
<1>3. QED
  BY <1>1, <1>2

\* A vector of groups with other members in one of them.
LEMMA GroupsTyped ==
  ASSUME ReferencesInv, NEW g \in DOMAIN groups, NEW S \in SUBSET (0 .. MaxMbrs - 1), NEW grps,
         grps = [groups EXCEPT ![g] = S]
  PROVE  /\ Vector(grps, SUBSET (0 .. MaxMbrs - 1), MaxGrps) /\ DOMAIN grps = DOMAIN groups
         /\ grps[g] = S /\ \A h \in DOMAIN groups : h # g => grps[h] = groups[h]
<1>1. PICK n \in 0 .. MaxGrps : groups \in [0 .. n - 1 -> SUBSET (0 .. MaxMbrs - 1)]
  BY Vectors
<1>2. grps \in [0 .. n - 1 -> SUBSET (0 .. MaxMbrs - 1)]
  BY <1>1
<1>3. Vector(grps, SUBSET (0 .. MaxMbrs - 1), MaxGrps)
  BY <1>1, <1>2 DEF Vector
<1>4. QED
  BY <1>1, <1>3

\* add_member_to_group counts a reference to the member.
LEMMA AddMemberToGroupKeeps ==
  ASSUME ReferencesInv, NEW m \in 0..MaxMbrs, NEW g \in 0..MaxGrps, AddMemberToGroup(m, g)
  PROVE  ReferencesInv'
<1> DEFINE x == MbrIndex(m)
<1>1. /\ ~fault /\ m \in mbr_handles.set /\ g \in grp_handles.set /\ g \in DOMAIN groups
      /\ m \notin groups[g] /\ groups' = [groups EXCEPT ![g] = groups[g] \cup {m}]
      /\ index_ref_count' = RefCount(index_ref_count, x, 1)
      /\ mbr_handles' = mbr_handles /\ grp_handles' = grp_handles /\ action_entries' = action_entries
      /\ entries' = entries /\ default_index' = default_index /\ fault' = fault
      /\ modify_failed' = modify_failed /\ leaked' = leaked
  BY DEF AddMemberToGroup, ValidHandle, history
<1>2. x \in Index /\ m \in Nat
  BY ModPositive DEF Index, MbrIndex
<1>3. groups[g] \cup {m} \in SUBSET (0 .. MaxMbrs - 1)
  BY <1>1, Vectors
<1>4. /\ Vector(groups', SUBSET (0 .. MaxMbrs - 1), MaxGrps) /\ DOMAIN groups' = DOMAIN groups
      /\ groups'[g] = groups[g] \cup {m}
      /\ \A h \in DOMAIN groups : h # g => groups'[h] = groups[h]
  BY <1>1, <1>3, GroupsTyped
<1>x. x = MbrIndex(m)
  OBVIOUS
<1> HIDE DEF x
<1>5. ProfileOK(mbr_handles', grp_handles', action_entries', groups')
  BY <1>1, <1>4, Known DEF ProfileOK
<1>6. index_ref_count' \in RcType(action_entries', groups')
  <2>1. index_ref_count \in [mbr : [DOMAIN action_entries -> Count], grp : [DOMAIN groups -> Count]]
        /\ 1 \in Int
    BY Known DEF RcType
  <2>2. index_ref_count' \in [mbr : [DOMAIN action_entries -> Count], grp : [DOMAIN groups -> Count]]
    BY <1>1, <1>2, <2>1, RefCountIs
  <2>3. QED
    BY <1>1, <1>4, <2>2 DEF RcType
<1>7. ASSUME modify_failed = 0
      PROVE  /\ HeldOK(entries, default_index, mbr_handles'.set, grp_handles'.set, groups')
             /\ CountsOK(index_ref_count', entries, default_index, mbr_handles'.set,
                         grp_handles'.set, groups', leaked)
  <2>1. HeldOK(entries, default_index, mbr_handles.set, grp_handles.set, groups)
        /\ CountsOK(index_ref_count, entries, default_index, mbr_handles.set,
                    grp_handles.set, groups, leaked)
        /\ RefsTyped(DOMAIN action_entries, index_ref_count, entries, default_index,
                     mbr_handles.set, grp_handles.set, groups, leaked)
    BY <1>7, Known
  <2>2. HeldOK(entries, default_index, mbr_handles.set, grp_handles.set, groups')
    <3>1. \A h \in grp_handles.set : h \in DOMAIN groups' => groups'[h] \subseteq mbr_handles.set
      BY <1>1, <1>4, <2>1 DEF HeldOK
    <3>2. QED
      BY <1>4, <2>1, <3>1 DEF HeldOK, LiveIn
  <2>3. DOMAIN entries \subseteq Keys /\ DOMAIN groups \subseteq 0 .. MaxGrps - 1 /\ leaked \in 0 .. MaxLeaks
    BY <2>1 DEF RefsTyped
  <2>4. ASSUME NEW i \in Indices
        PROVE  \/ /\ i = x
                  /\ Refs(entries, default_index, grp_handles.set, groups', i)
                       = Refs(entries, default_index, grp_handles.set, groups, i) + 1
               \/ /\ i # x
                  /\ Refs(entries, default_index, grp_handles.set, groups', i)
                       = Refs(entries, default_index, grp_handles.set, groups, i)
    <3>0. i \in Index
      BY IndexFacts
    <3>1. /\ i = x => GroupRefs(grp_handles.set, groups', i) = GroupRefs(grp_handles.set, groups, i) + 1
          /\ i # x => GroupRefs(grp_handles.set, groups', i) = GroupRefs(grp_handles.set, groups, i)
      <4>1. Joins(grp_handles.set, groups, g, m, groups')
        BY <1>1, <1>2, <1>4, <2>3 DEF Joins
      <4>2. QED
        BY <1>x, <3>0, <4>1, GroupAdded
    <3>2. /\ EntryRefs(entries, i) \in Nat /\ DefaultRefs(default_index, i) \in Nat
          /\ GroupRefs(grp_handles.set, groups, i) \in Nat
      BY <2>1, RefsAre
    <3>3. QED
      BY <3>1, <3>2 DEF Refs
  <2>5. Comes(DOMAIN action_entries, index_ref_count, entries, default_index, mbr_handles.set,
              grp_handles.set, groups, leaked, x, entries, default_index, groups', leaked)
    BY <1>2, <1>4, <2>1, <2>3, <2>4 DEF Comes
  <2>6. CountsOK(index_ref_count', entries, default_index, mbr_handles.set, grp_handles.set,
                 groups', leaked)
    BY <1>1, <2>5, ComesKeeps
  <2>7. QED
    BY <1>1, <2>2, <2>6
<1>8. QED
  BY <1>1, <1>5, <1>6, <1>7, ProfileStepKeeps

\* remove_member_from_group releases the reference to the member.
LEMMA RemoveMemberFromGroupKeeps ==
  ASSUME ReferencesInv, NEW m \in 0..MaxMbrs, NEW g \in 0..MaxGrps, RemoveMemberFromGroup(m, g)
  PROVE  ReferencesInv'
<1> DEFINE x == MbrIndex(m)
<1>1. /\ ~fault /\ m \in mbr_handles.set /\ g \in grp_handles.set /\ g \in DOMAIN groups
      /\ m \in groups[g] /\ groups' = [groups EXCEPT ![g] = groups[g] \ {m}]
      /\ index_ref_count' = RefCount(index_ref_count, x, -1)
      /\ mbr_handles' = mbr_handles /\ grp_handles' = grp_handles /\ action_entries' = action_entries
      /\ entries' = entries /\ default_index' = default_index /\ fault' = fault
      /\ modify_failed' = modify_failed /\ leaked' = leaked
  BY DEF RemoveMemberFromGroup, ValidHandle, history
<1>2. x \in Index /\ m \in Nat
  BY ModPositive DEF Index, MbrIndex
<1>3. groups[g] \ {m} \in SUBSET (0 .. MaxMbrs - 1)
  BY <1>1, Vectors
<1>4. /\ Vector(groups', SUBSET (0 .. MaxMbrs - 1), MaxGrps) /\ DOMAIN groups' = DOMAIN groups
      /\ groups'[g] = groups[g] \ {m}
      /\ \A h \in DOMAIN groups : h # g => groups'[h] = groups[h]
  BY <1>1, <1>3, GroupsTyped
<1>x. x = MbrIndex(m)
  OBVIOUS
<1> HIDE DEF x
<1>5. ProfileOK(mbr_handles', grp_handles', action_entries', groups')
  BY <1>1, <1>4, Known DEF ProfileOK
<1>6. index_ref_count' \in RcType(action_entries', groups')
  <2>1. index_ref_count \in [mbr : [DOMAIN action_entries -> Count], grp : [DOMAIN groups -> Count]]
        /\ -1 \in Int
    BY Known DEF RcType
  <2>2. index_ref_count' \in [mbr : [DOMAIN action_entries -> Count], grp : [DOMAIN groups -> Count]]
    BY <1>1, <1>2, <2>1, RefCountIs
  <2>3. QED
    BY <1>1, <1>4, <2>2 DEF RcType
<1>7. ASSUME modify_failed = 0
      PROVE  /\ HeldOK(entries, default_index, mbr_handles'.set, grp_handles'.set, groups')
             /\ CountsOK(index_ref_count', entries, default_index, mbr_handles'.set,
                         grp_handles'.set, groups', leaked)
  <2>1. HeldOK(entries, default_index, mbr_handles.set, grp_handles.set, groups)
        /\ CountsOK(index_ref_count, entries, default_index, mbr_handles.set,
                    grp_handles.set, groups, leaked)
        /\ RefsTyped(DOMAIN action_entries, index_ref_count, entries, default_index,
                     mbr_handles.set, grp_handles.set, groups, leaked)
    BY <1>7, Known
  <2>2. HeldOK(entries, default_index, mbr_handles.set, grp_handles.set, groups')
    <3>1. \A h \in grp_handles.set : h \in DOMAIN groups' => groups'[h] \subseteq mbr_handles.set
      BY <1>1, <1>4, <2>1 DEF HeldOK
    <3>2. QED
      BY <1>4, <2>1, <3>1 DEF HeldOK, LiveIn
  <2>3. DOMAIN entries \subseteq Keys /\ DOMAIN groups \subseteq 0 .. MaxGrps - 1
    BY <2>1 DEF RefsTyped
  <2>4. ASSUME NEW i \in Indices
        PROVE  \/ /\ i = x
                  /\ Refs(entries, default_index, grp_handles.set, groups', i)
                       = Refs(entries, default_index, grp_handles.set, groups, i) - 1
               \/ /\ i # x
                  /\ Refs(entries, default_index, grp_handles.set, groups', i)
                       = Refs(entries, default_index, grp_handles.set, groups, i)
    <3>0. i \in Index
      BY IndexFacts
    <3>1. /\ m \notin groups'[g] /\ groups[g] = groups'[g] \cup {m} /\ g \in DOMAIN groups'
          /\ DOMAIN groups' \subseteq 0 .. MaxGrps - 1 /\ DOMAIN groups = DOMAIN groups'
          /\ \A h \in DOMAIN groups' : h # g => groups[h] = groups'[h]
      BY <1>1, <1>4, <2>3
    <3>2. /\ i = x => GroupRefs(grp_handles.set, groups, i) = GroupRefs(grp_handles.set, groups', i) + 1
          /\ i # x => GroupRefs(grp_handles.set, groups, i) = GroupRefs(grp_handles.set, groups', i)
      <4>1. Joins(grp_handles.set, groups', g, m, groups)
        BY <1>1, <1>2, <3>1 DEF Joins
      <4>2. QED
        BY <1>x, <3>0, <4>1, GroupAdded
    <3>3. /\ EntryRefs(entries, i) \in Nat /\ DefaultRefs(default_index, i) \in {0, 1}
          /\ GroupRefs(grp_handles.set, groups, i) \in Nat
          /\ GroupRefs(grp_handles.set, groups', i) \in Nat
      BY <2>3, <3>1, RefsBound
    <3>4. QED
      BY <3>2, <3>3 DEF Refs
  <2>5. Goes(DOMAIN action_entries, index_ref_count, entries, default_index, mbr_handles.set,
             grp_handles.set, groups, leaked, x, entries, default_index, groups')
    BY <1>2, <1>4, <2>1, <2>3, <2>4 DEF Goes
  <2>6. CountsOK(index_ref_count', entries, default_index, mbr_handles.set, grp_handles.set,
                 groups', leaked)
    BY <1>1, <2>5, GoesKeeps
  <2>7. QED
    BY <1>1, <2>2, <2>6
<1>8. QED
  BY <1>1, <1>5, <1>6, <1>7, ProfileStepKeeps

\* reset_state: nothing is left that could be referred to.
LEMMA ResetStateKeeps ==
  ASSUME ReferencesInv, ResetState
  PROVE  ReferencesInv'
<1>1. /\ ~fault /\ fault' = fault /\ entries' = Empty /\ default_index' = {}
      /\ index_ref_count' = [mbr |-> Empty, grp |-> Empty] /\ mbr_handles' = NewMgr
      /\ action_entries' = Empty /\ groups' = Empty /\ modify_failed' = 0 /\ leaked' = 0
      /\ grp_handles' = grp_handles
  BY DEF ResetState
<1>2. MgrOK(grp_handles')
  BY <1>1, Known DEF ProfileOK
<1>3. /\ DOMAIN Empty = {} /\ (\A S : Empty \in [{} -> S]) /\ Cardinality({}) = 0
      /\ 0 .. 0 - 1 = {} /\ TableSize \in Nat /\ MaxMbrs \in Nat /\ MaxGrps \in Nat
      /\ MaxFailed \in Nat /\ MaxLeaks \in Nat
  BY FS_EmptySet, TableAssumption DEF Empty
<1>4. \A S, max : max \in Nat => Vector(Empty, S, max)
  <2>1. ASSUME NEW S, NEW max \in Nat PROVE Vector(Empty, S, max)
    <3>1. 0 \in 0 .. max /\ Empty \in [0 .. 0 - 1 -> S]
      BY <1>3
    <3>2. QED
      BY <3>1 DEF Vector
  <2>2. QED
    BY <2>1
<1>5. ProfileOK(mbr_handles', grp_handles', action_entries', groups')
  BY <1>1, <1>2, <1>3, <1>4, NewMgrOK DEF ProfileOK
<1>6. TableOK(entries', default_index') /\ HistoryOK(fault', modify_failed', leaked')
  <2>1. TableOK(entries', default_index')
    BY <1>1, <1>3 DEF TableOK
  <2>2. HistoryOK(fault', modify_failed', leaked')
    BY <1>1, <1>3, Known DEF HistoryOK
  <2>3. QED
    BY <2>1, <2>2
<1>7. index_ref_count' \in RcType(action_entries', groups')
  BY <1>1, <1>3 DEF RcType
<1>8. \A i : ~LiveIn(mbr_handles'.set, grp_handles'.set, groups', i)
  BY <1>1, <1>3, NewMgrOK DEF LiveIn
<1>9. HeldInv' /\ CountsMatchReferences'
  <2>1. HeldOK(entries', default_index', mbr_handles'.set, grp_handles'.set, groups')
    BY <1>1, <1>3 DEF HeldOK
  <2>2. CountsOK(index_ref_count', entries', default_index', mbr_handles'.set, grp_handles'.set,
                 groups', leaked')
    BY <1>8 DEF CountsOK
  <2>3. QED
    BY <2>1, <2>2, HeldIs, CountsIs
<1>10. FaultsOnlyAfterReset'
  BY <1>1 DEF FaultsOnlyAfterReset
<1>11. QED
  BY <1>5, <1>6, <1>7, <1>9, <1>10, InvIs

\* At the start nothing refers to anything.
LEMMA InitReferences ==
  ASSUME Init
  PROVE  ReferencesInv
<1>1. /\ DOMAIN Empty = {} /\ (\A S : Empty \in [{} -> S]) /\ Cardinality({}) = 0
      /\ 0 .. 0 - 1 = {} /\ TableSize \in Nat /\ MaxMbrs \in Nat /\ MaxGrps \in Nat
      /\ MaxFailed \in Nat /\ MaxLeaks \in Nat
  BY FS_EmptySet, TableAssumption DEF Empty
<1>2. \A S, max : max \in Nat => Vector(Empty, S, max)
  <2>1. ASSUME NEW S, NEW max \in Nat PROVE Vector(Empty, S, max)
    <3>1. 0 \in 0 .. max /\ Empty \in [0 .. 0 - 1 -> S]
      BY <1>1
    <3>2. QED
      BY <3>1 DEF Vector
  <2>2. QED
    BY <2>1
<1>3. ProfileOK(mbr_handles, grp_handles, action_entries, groups)
  BY <1>1, <1>2, NewMgrOK DEF Init, ProfileOK
<1>4. TableOK(entries, default_index) /\ HistoryOK(fault, modify_failed, leaked)
      /\ index_ref_count \in RcType(action_entries, groups)
  <2>1. TableOK(entries, default_index)
    BY <1>1 DEF Init, TableOK
  <2>2. HistoryOK(fault, modify_failed, leaked)
    <3>1. fault \in BOOLEAN
      BY Zenon DEF Init
    <3>2. modify_failed \in 0 .. MaxFailed /\ leaked \in 0 .. MaxLeaks
      BY <1>1 DEF Init
    <3>3. QED
      BY <3>1, <3>2 DEF HistoryOK
  <2>3. index_ref_count \in RcType(action_entries, groups)
    BY <1>1 DEF Init, RcType
  <2>4. QED
    BY <2>1, <2>2, <2>3
<1>5. \A i : ~LiveIn(mbr_handles.set, grp_handles.set, groups, i)
  BY NewMgrOK DEF Init, LiveIn
<1>6. HeldInv /\ CountsMatchReferences
  <2>1. HeldOK(entries, default_index, mbr_handles.set, grp_handles.set, groups)
    BY <1>1 DEF Init, HeldOK
  <2>2. CountsOK(index_ref_count, entries, default_index, mbr_handles.set, grp_handles.set,
                 groups, leaked)
    BY <1>5 DEF CountsOK
  <2>3. QED
    BY <2>1, <2>2, HeldIs, CountsIs
<1>7. FaultsOnlyAfterReset
  BY DEF Init, FaultsOnlyAfterReset
<1>8. QED
  BY <1>3, <1>4, <1>6, <1>7, InvIs

-----------------------------------------------------------------------------
(* The theorems.                                                           *)

\* Every control-plane call and every lookup keeps the invariant.
LEMMA NextReferences ==
  ASSUME ReferencesInv, [Next]_vars
  PROVE  ReferencesInv'
<1>1. ASSUME NEW m \in 0..MaxMbrs PROVE MbrIndex(m) \in Indices
  BY DEF Indices
<1>2. ASSUME NEW g \in 0..MaxGrps PROVE GrpIndex(g) \in Indices
  BY DEF Indices
<1>3. CASE \E a \in Actions : AddMember(a)
  BY <1>3, AddMemberKeeps
<1>4. CASE \E m \in 0..MaxMbrs : DeleteMember(m)
  BY <1>4, DeleteMemberKeeps
<1>5. CASE \E m \in 0..MaxMbrs, a \in Actions : ModifyMember(m, a)
  BY <1>5, ModifyMemberKeeps
<1>6. CASE CreateGroup
  BY <1>6, CreateGroupKeeps
<1>7. CASE \E g \in 0..MaxGrps : DeleteGroup(g)
  BY <1>7, DeleteGroupKeeps
<1>8. CASE \E m \in 0..MaxMbrs, g \in 0..MaxGrps : AddMemberToGroup(m, g)
  BY <1>8, AddMemberToGroupKeeps
<1>9. CASE \E m \in 0..MaxMbrs, g \in 0..MaxGrps : RemoveMemberFromGroup(m, g)
  BY <1>9, RemoveMemberFromGroupKeeps
<1>10. CASE \E k \in Keys : DeleteEntry(k)
  BY <1>10, DeleteEntryKeeps
<1>11. CASE \E m \in 0..MaxMbrs : \E k \in Keys \cup {BadKey} : AddEntry(k, m)
  BY <1>1, <1>11, AddIndexKeeps DEF AddEntry
<1>12. CASE \E m \in 0..MaxMbrs : \E k \in Keys : ModifyEntry(k, m)
  BY <1>1, <1>12, ModifyIndexKeeps DEF ModifyEntry
<1>13. CASE \E m \in 0..MaxMbrs : SetDefaultMember(m)
  BY <1>13, SetDefaultMemberKeeps
<1>14. CASE \E g \in 0..MaxGrps : \E k \in Keys \cup {BadKey} : AddEntryWs(k, g)
  BY <1>2, <1>14, AddIndexKeeps DEF AddEntryWs
<1>15. CASE \E g \in 0..MaxGrps : \E k \in Keys : ModifyEntryWs(k, g)
  BY <1>2, <1>15, ModifyIndexKeeps DEF ModifyEntryWs
<1>16. CASE \E g \in 0..MaxGrps : SetDefaultGroup(g)
  BY <1>16, SetDefaultGroupKeeps
<1>17. CASE ResetDefaultEntry
  BY <1>17, ResetDefaultEntryKeeps
<1>18. CASE \E b \in BOOLEAN : ClearEntries(b)
  BY <1>18, ClearEntriesKeeps
<1>19. CASE ResetState
  BY <1>19, ResetStateKeeps
<1>20. CASE UNCHANGED vars
  <2>1. /\ UNCHANGED <<profileVars, fault>> /\ index_ref_count' = index_ref_count
        /\ entries' = entries /\ default_index' = default_index
        /\ modify_failed' = modify_failed /\ leaked' = leaked
    BY <1>20 DEF vars, history
  <2>2. QED
    BY <2>1, Known, TableStepKeeps
<1>21. QED
  BY <1>3, <1>4, <1>5, <1>6, <1>7, <1>8, <1>9, <1>10, <1>11, <1>12, <1>13, <1>14, <1>15,
     <1>16, <1>17, <1>18, <1>19, <1>20 DEF Next

\* The inductive invariant of the table and its profile: the handle managers
\* give out the smallest free handle, what is pointed to is live, and every
\* count is the references to it and no more than the leaked ones above.
THEOREM ReferencesInvariant == Spec => []ReferencesInv
<1>1. Init => ReferencesInv
  BY InitReferences
<1>2. ReferencesInv /\ [Next]_vars => ReferencesInv'
  BY NextReferences
<1>3. QED
  BY <1>1, <1>2, PTL DEF Spec

\* A packet never runs into an assertion of ActionProfile::lookup before a
\* modify_entry has been refused, the counts are the references up to what was
\* leaked, and the process can only die after a reset_state.
THEOREM ReferencesAreSound == Spec => []ReferencesSound
<1>1. ReferencesInv => ReferencesSound
  <2>1. ASSUME ReferencesInv, modify_failed = 0, NEW i \in Held
        PROVE  Lookup(i) # "assertion"
    <3>1. Live(i) /\ \A g \in grp_handles.set \cap DOMAIN groups : groups[g] \subseteq mbr_handles.set
      BY <2>1 DEF ReferencesInv, HeldInv
    <3>2. i.grp => groups[i.hdl] \subseteq mbr_handles.set
      BY <3>1 DEF Live, IsValid, ValidHandle
    <3>3. QED
      BY <3>1, <3>2 DEF Lookup, ProfileLookup, Live
  <2>2. QED
    BY <2>1 DEF ReferencesInv, ReferencesSound, LookupNeverAsserts
<1>2. QED
  BY <1>1, ReferencesInvariant, PTL

-----------------------------------------------------------------------------
(* The groups of PI.  A value that is computed step by step, such as the    *)
(* array of emit_groups, is reasoned about by induction over sets of numbers. *)

\* Induction up to N, for a set of numbers.
LEMMA UpTo ==
  ASSUME NEW N \in Nat, NEW S, 0 \in S, \A n \in 1 .. N : n - 1 \in S => n \in S
  PROVE  \A n \in 0 .. N : n \in S
<1> DEFINE bad == {n \in 0 .. N : n \notin S}
<1>1. SUFFICES ASSUME bad # {} PROVE FALSE
  OBVIOUS
<1>2. bad \subseteq Nat
  OBVIOUS
<1>3. PICK n \in bad : \A m \in bad : n <= m
  BY <1>1, <1>2, LeastNatural
<1>4. n # 0 /\ n \in 1 .. N
  BY <1>3
<1>5. n - 1 \in 0 .. N /\ n - 1 \notin bad
  BY <1>3, <1>4
<1> QED  BY <1>3, <1>4, <1>5

\* A run of N steps from base, the n-th step being step[n].
StepsOf(N, V) == [1 .. N -> [V -> V]]
RunsOf(N, V, base, step) ==
  {w \in [0 .. N -> V] : w[0] = base /\ \A n \in 1 .. N : w[n] = step[n][w[n - 1]]}

\* A value that is computed step by step from base exists.
LEMMA Iterates ==
  ASSUME NEW N \in Nat, NEW V, NEW base \in V, NEW step \in StepsOf(N, V)
  PROVE  RunsOf(N, V, base, step) # {}
<1> USE DEF StepsOf
<1> DEFINE Upto(k, w) == w[0] = base /\ \A n \in 1 .. k : w[n] = step[n][w[n - 1]]
           S == {k \in 0 .. N : \E w \in [0 .. k -> V] : Upto(k, w)}
<1>1. 0 \in S
  <2> DEFINE v == [n \in 0 .. 0 |-> base]
  <2>1. v \in [0 .. 0 -> V] /\ Upto(0, v)
    OBVIOUS
  <2> HIDE DEF v, Upto
  <2> QED  BY <2>1
<1>2. ASSUME NEW k \in 1 .. N, k - 1 \in S PROVE k \in S
  <2>1. PICK w \in [0 .. k - 1 -> V] : Upto(k - 1, w)
    BY <1>2
  <2> DEFINE v == [n \in 0 .. k |-> IF n = k THEN step[k][w[k - 1]] ELSE w[n]]
  <2>2. w[k - 1] \in V /\ step[k][w[k - 1]] \in V
    OBVIOUS
  <2>3. v \in [0 .. k -> V] /\ v[0] = base /\ v[k] = step[k][w[k - 1]] /\ v[k - 1] = w[k - 1]
    BY <2>1, <2>2
  <2>4. ASSUME NEW n \in 1 .. k - 1 PROVE v[n] = step[n][v[n - 1]]
    <3>1. v[n] = w[n] /\ v[n - 1] = w[n - 1]
      OBVIOUS
    <3> QED  BY <2>1, <3>1
  <2>5. Upto(k, v)
    <3> HIDE DEF v
    <3>1. ASSUME NEW n \in 1 .. k PROVE v[n] = step[n][v[n - 1]]
      BY <2>3, <2>4
    <3> QED  BY <2>3, <3>1
  <2> HIDE DEF v, Upto
  <2>6. k \in 0 .. N
    OBVIOUS
  <2> QED  BY <2>3, <2>5, <2>6
<1> HIDE DEF S
<1>3. \A n \in 0 .. N : n \in S
  BY <1>1, <1>2, UpTo
<1>4. PICK w \in [0 .. N -> V] : Upto(N, w)
  BY <1>3 DEF S
<1> QED  BY <1>4 DEF RunsOf


-----------------------------------------------------------------------------
(* PiSelection. *)

\* The elements below x.
Below(S, x) == {y \in S : y < x}
NthOf(S, n, x) == x \in S /\ Cardinality(Below(S, x)) = n

\* There are no more elements below x than there are elements.
LEMMA BelowIsFinite ==
  ASSUME NEW S, IsFiniteSet(S), NEW x \in S, S \subseteq Nat
  PROVE  IsFiniteSet(Below(S, x)) /\ Cardinality(Below(S, x)) \in Nat /\ Cardinality(Below(S, x)) < Cardinality(S)
         /\ Cardinality(S) \in Nat
<1>1. Below(S, x) \subseteq S /\ x \notin Below(S, x)
  BY DEF Below
<1>2. Below(S, x) \subseteq S \ {x}
  BY <1>1
<1>3. IsFiniteSet(S \ {x}) /\ Cardinality(S \ {x}) = Cardinality(S) - 1
  BY FS_RemoveElement
<1>4. IsFiniteSet(Below(S, x)) /\ Cardinality(Below(S, x)) <= Cardinality(S \ {x})
  BY <1>2, <1>3, FS_Subset
<1> QED  BY <1>3, <1>4, FS_CardinalityType

\* Every rank has an element.
LEMMA EveryRank ==
  ASSUME NEW S, IsFiniteSet(S), S \subseteq Nat
  PROVE  \A n \in 0 .. Cardinality(S) - 1 : \E x \in S : NthOf(S, n, x)
<1> DEFINE N == Cardinality(S) - 1
           R == {n \in 0 .. N : \E x \in S : NthOf(S, n, x)}
<1>0. Cardinality(S) \in Nat
  BY FS_CardinalityType
<1>1. CASE S = {}
  BY <1>1, FS_EmptySet
<1>2. CASE S # {}
  <2>0. N \in Nat /\ Cardinality(S) = N + 1
    BY <1>0, <1>2, FS_EmptySet
  <2>1. 0 \in R
    <3>1. PICK x \in S : \A y \in S : x <= y
      BY <1>2, LeastNatural
    <3>2. Below(S, x) = {}
      <4>1. ASSUME NEW y \in S PROVE ~(y < x)
        <5>1. x \in Nat /\ y \in Nat /\ x <= y
          BY <3>1
        <5> QED  BY <5>1
      <4> QED  BY <4>1 DEF Below
    <3>3. NthOf(S, 0, x)
      BY <3>2, FS_EmptySet DEF NthOf
    <3> QED  BY <2>0, <3>3
  <2>2. ASSUME NEW n \in 1 .. N, n - 1 \in R PROVE n \in R
    <3>1. PICK x \in S : NthOf(S, n - 1, x)
      BY <2>2
    <3>2. IsFiniteSet(Below(S, x)) /\ Cardinality(Below(S, x)) = n - 1 /\ x \notin Below(S, x)
      <4>1. IsFiniteSet(Below(S, x)) /\ Cardinality(Below(S, x)) = n - 1
        BY <3>1, BelowIsFinite DEF NthOf
      <4>2. x \notin Below(S, x)
        BY DEF Below
      <4> QED  BY <4>1, <4>2
    <3>3. IsFiniteSet(Below(S, x) \cup {x}) /\ Cardinality(Below(S, x) \cup {x}) = n
      <4>1. IsFiniteSet(Below(S, x) \cup {x}) /\ Cardinality(Below(S, x) \cup {x}) = n - 1 + 1
        BY <3>2, FS_AddElement
      <4>2. n - 1 + 1 = n
        BY <2>0
      <4> QED  BY <4>1, <4>2
    <3> DEFINE up == {y \in S : x < y}
    <3>4. up # {}
      <4> SUFFICES ASSUME up = {} PROVE FALSE
        OBVIOUS
      <4>1. \A y \in S : y < x \/ y = x
        BY <3>1
      <4>2. S = Below(S, x) \cup {x}
        BY <4>1 DEF Below
      <4>3. Cardinality(S) = n
        BY <3>3, <4>2
      <4> HIDE DEF R, N, up
      <4> QED  BY <2>0, <4>3
    <3>5. PICK z \in up : \A y \in up : z <= y
      <4>1. up \subseteq Nat
        OBVIOUS
      <4> HIDE DEF up
      <4> QED  BY <3>4, <4>1, LeastNatural
    <3>6. Below(S, z) = Below(S, x) \cup {x}
      <4>1. ASSUME NEW y \in S PROVE y < z <=> y < x \/ y = x
        <5>1. y \in Nat /\ x \in Nat /\ z \in Nat /\ x < z
          BY <3>1, <3>5
        <5>2. x < y => z <= y
          BY <3>5
        <5> QED  BY <5>1, <5>2
      <4> QED  BY <4>1 DEF Below
    <3>7. z \in S /\ NthOf(S, n, z)
      BY <3>3, <3>5, <3>6 DEF NthOf
    <3> QED  BY <2>0, <3>7
  <2>3. \A n \in 0 .. N : n \in R
    <3> HIDE DEF R, N
    <3> QED  BY <2>0, <2>1, <2>2, UpTo
  <2> QED  BY <2>3
<1> QED  BY <1>1, <1>2

\* No two elements have the same rank.
LEMMA OneOfRank ==
  ASSUME NEW S, IsFiniteSet(S), S \subseteq Nat, NEW n, NEW x, NEW y, NthOf(S, n, x), NthOf(S, n, y)
  PROVE  x = y
<1>1. ASSUME NEW a \in S, NEW b \in S, a < b PROVE Cardinality(Below(S, a)) < Cardinality(Below(S, b))
  <2>1. Below(S, a) \subseteq Below(S, b) \ {a} /\ a \in Below(S, b)
    <3>1. a \in Nat /\ b \in Nat /\ \A z \in S : z \in Nat
      OBVIOUS
    <3>2. \A z \in S : z < a => z < b /\ z # a
      BY <1>1, <3>1
    <3> QED  BY <1>1, <3>2 DEF Below
  <2>2. IsFiniteSet(Below(S, b))
    BY BelowIsFinite
  <2>3. IsFiniteSet(Below(S, b) \ {a}) /\ Cardinality(Below(S, b) \ {a}) = Cardinality(Below(S, b)) - 1
    BY <2>1, <2>2, FS_RemoveElement
  <2>4. Cardinality(Below(S, a)) <= Cardinality(Below(S, b) \ {a})
    BY <2>1, <2>3, FS_Subset
  <2>5. Cardinality(Below(S, a)) \in Nat /\ Cardinality(Below(S, b)) \in Nat
    BY BelowIsFinite
  <2> QED  BY <2>3, <2>4, <2>5
<1>2. x \in S /\ y \in S /\ Cardinality(Below(S, x)) = Cardinality(Below(S, y)) /\ Cardinality(Below(S, x)) \in Nat
      /\ x \in Nat /\ y \in Nat
  BY BelowIsFinite DEF NthOf
<1>3. ~(x < y)
  BY <1>1, <1>2
<1>4. ~(y < x)
  BY <1>1, <1>2
<1> QED  BY <1>2, <1>3, <1>4

\* get_nth returns an element, and every element for its own rank.
LEMMA GetNthIs ==
  ASSUME NEW S, IsFiniteSet(S), S \subseteq Nat
  PROVE  /\ \A n \in 0 .. Cardinality(S) - 1 : GetNth(S, n) \in S
         /\ \A x \in S : \E n \in 0 .. Cardinality(S) - 1 : GetNth(S, n) = x
<1>1. ASSUME NEW n, NEW x \in S, NthOf(S, n, x) PROVE GetNth(S, n) \in S /\ NthOf(S, n, GetNth(S, n))
  <2>1. GetNth(S, n) = CHOOSE y \in S : NthOf(S, n, y)
    BY DEF GetNth, NthOf, Below
  <2> QED  BY <1>1, <2>1
<1>2. \A n \in 0 .. Cardinality(S) - 1 : GetNth(S, n) \in S
  BY <1>1, EveryRank
<1>3. ASSUME NEW x \in S PROVE \E n \in 0 .. Cardinality(S) - 1 : GetNth(S, n) = x
  <2>1. PICK n : n = Cardinality(Below(S, x))
    OBVIOUS
  <2>2. NthOf(S, n, x) /\ n \in 0 .. Cardinality(S) - 1
    <3>1. n \in Nat /\ n < Cardinality(S) /\ Cardinality(S) \in Nat
      BY <2>1, BelowIsFinite
    <3>2. NthOf(S, n, x)
      BY <2>1 DEF NthOf
    <3> QED  BY <3>1, <3>2
  <2>3. GetNth(S, n) = x
    BY <1>1, <2>2, OneOfRank
  <2> QED  BY <2>2, <2>3
<1> QED  BY <1>2, <1>3

\* The elements in order are the elements.
LEMMA InOrderIs ==
  ASSUME NEW S, IsFiniteSet(S), S \subseteq Nat
  PROVE  /\ InOrder(S) \in Seq(S) /\ Len(InOrder(S)) = Cardinality(S) /\ Cardinality(S) \in Nat
         /\ {InOrder(S)[i] : i \in 1 .. Cardinality(S)} = S
<1>0. Cardinality(S) \in Nat
  BY FS_CardinalityType
<1>1. \A i \in 1 .. Cardinality(S) : i - 1 \in 0 .. Cardinality(S) - 1 /\ InOrder(S)[i] = GetNth(S, i - 1) /\ InOrder(S)[i] \in S
  <2>1. ASSUME NEW i \in 1 .. Cardinality(S)
        PROVE  i - 1 \in 0 .. Cardinality(S) - 1 /\ InOrder(S)[i] = GetNth(S, i - 1) /\ InOrder(S)[i] \in S
    <3>1. i - 1 \in 0 .. Cardinality(S) - 1
      BY <1>0
    <3>2. InOrder(S)[i] = GetNth(S, i - 1)
      BY DEF InOrder
    <3>3. \A n \in 0 .. Cardinality(S) - 1 : GetNth(S, n) \in S
      BY GetNthIs
    <3>4. GetNth(S, i - 1) \in S
      BY <3>1, <3>3
    <3> QED  BY <3>1, <3>2, <3>4
  <2> QED  BY <2>1
<1>2. InOrder(S) \in Seq(S) /\ Len(InOrder(S)) = Cardinality(S)
  BY <1>0, <1>1 DEF InOrder
<1>3. ASSUME NEW x \in S PROVE \E i \in 1 .. Cardinality(S) : InOrder(S)[i] = x
  <2>1. PICK n \in 0 .. Cardinality(S) - 1 : GetNth(S, n) = x
    BY GetNthIs
  <2>2. n + 1 \in 1 .. Cardinality(S) /\ n + 1 - 1 = n
    BY <1>0
  <2> QED  BY <1>1, <2>1, <2>2
<1> QED  BY <1>0, <1>1, <1>2, <1>3

\* What a packet gets from a group that has an active member.
LEMMA HashReachesActive ==
  ASSUME NEW p, NEW down, ProfileInv(p, down), NEW g \in DOMAIN p.groups, NEW h \in PsHashes,
         {m \in p.groups[g] : <<g, m>> \notin down} # {}
  PROVE  LET m == GetFromHash(p.sel, g, h)
         IN  m \in {x \in p.groups[g] : <<g, x>> \notin down} /\ m \in p.members
<1> DEFINE up == {m \in p.groups[g] : <<g, m>> \notin down}
<1>1. g \in DOMAIN p.sel /\ p.sel[g].active = up /\ up \subseteq p.members
  <2>1. g \in DOMAIN p.sel /\ p.groups[g] \subseteq p.members
    BY DEF ProfileInv
  <2>2. p.sel[g] = [members |-> p.groups[g], active |-> up]
    BY <2>1 DEF ProfileInv
  <2> QED  BY <2>1, <2>2
<1>2. IsFiniteSet(up) /\ up \subseteq Nat /\ up # {} /\ Cardinality(up) \in Nat /\ Cardinality(up) # 0
  <2>1. IsFiniteSet(up)
    BY <1>1, FS_Subset DEF ProfileInv
  <2>2. up \subseteq Nat
    BY <1>1, SelAssumption DEF ProfileInv
  <2> HIDE DEF up
  <2> QED  BY <2>1, <2>2, FS_EmptySet, FS_CardinalityType DEF up
<1> HIDE DEF up
<1>3. h \in Nat
  BY SelAssumption
<1>4. h % Cardinality(up) \in 0 .. Cardinality(up) - 1
  BY <1>2, <1>3
<1>5. GetNth(up, h % Cardinality(up)) \in up
  <2>1. \A n \in 0 .. Cardinality(up) - 1 : GetNth(up, n) \in up
    BY <1>2, GetNthIs
  <2> QED  BY <1>4, <2>1
<1>6. GetFromHash(p.sel, g, h) = GetNth(up, h % Cardinality(up))
  BY <1>1 DEF GetFromHash
<1> QED  BY <1>1, <1>5, <1>6 DEF up

\* The empty profile.
LEMMA EmptyProfileOk == ProfileInv(EmptyProfile, {})
<1>1. DOMAIN EmptyProfile = {"members", "groups", "sel"} /\ EmptyProfile.members = {}
      /\ EmptyProfile.groups = <<>> /\ EmptyProfile.sel = <<>>
  BY DEF EmptyProfile
<1>2. DOMAIN (<<>>) = {}
  OBVIOUS
<1> QED  BY <1>1, <1>2, FS_EmptySet DEF ProfileInv

\* What SelRemove leaves of the members and of the active ones.
LEMMA SelRemoveIs ==
  ASSUME NEW p, NEW down, ProfileInv(p, down), NEW g \in DOMAIN p.groups, NEW ms \in SUBSET p.groups[g]
  PROVE  LET left == p.groups[g] \ ms
             up == {m \in left : <<g, m>> \notin down}
         IN  SelRemove(p.sel, g, ms) =
               IF left = {} THEN PsDrop(p.sel, g) ELSE PsSet(p.sel, g, [members |-> left, active |-> up])
<1>1. CASE g \in DOMAIN p.sel
  <2>1. SelOf(p.sel, g) = [members |-> p.groups[g], active |-> {m \in p.groups[g] : <<g, m>> \notin down}]
    BY <1>1 DEF ProfileInv, SelOf
  <2>2. SelOf(p.sel, g).active \ ms = {m \in p.groups[g] \ ms : <<g, m>> \notin down}
    BY <2>1
  <2>3. SelOf(p.sel, g).members \ ms = p.groups[g] \ ms
    BY <2>1
  <2> HIDE DEF ProfileInv, SelOf
  <2>4. PICK left, up : left = p.groups[g] \ ms /\ up = {m \in p.groups[g] \ ms : <<g, m>> \notin down}
    OBVIOUS
  <2>5. SelRemove(p.sel, g, ms) =
          IF left = {} THEN PsDrop(p.sel, g) ELSE PsSet(p.sel, g, [members |-> left, active |-> up])
    BY <2>2, <2>3, <2>4 DEF SelRemove
  <2> QED  BY <2>4, <2>5
<1>2. CASE g \notin DOMAIN p.sel
  <2>1. p.groups[g] = {}
    BY <1>2 DEF ProfileInv
  <2>2. SelOf(p.sel, g).members = {}
    BY <1>2 DEF SelOf
  <2>3. SelRemove(p.sel, g, ms) = PsDrop(p.sel, g)
    <3>1. SelOf(p.sel, g).members \ ms = {}
      BY <2>2
    <3> QED  BY <3>1 DEF SelRemove
  <2> QED  BY <2>1, <2>3
<1> QED  BY <1>1, <1>2

\* q is p with the members ms in group g, and the selection and the history follow.
GroupBecomes(p, down, g, ms, q, now) ==
  /\ DOMAIN q = {"members", "groups", "sel"} /\ q.members = p.members
  /\ DOMAIN q.groups = DOMAIN p.groups /\ q.groups[g] = ms
  /\ \A x \in DOMAIN p.groups : x # g => q.groups[x] = p.groups[x]
  /\ \A x \in DOMAIN p.groups : \A m \in p.members : x # g => (<<x, m>> \in now <=> <<x, m>> \in down)
  /\ DOMAIN q.sel = (IF ms = {} THEN DOMAIN p.sel \ {g} ELSE DOMAIN p.sel \cup {g})
  /\ ms # {} => q.sel[g] = [members |-> ms, active |-> {m \in ms : <<g, m>> \notin now}]
  /\ \A x \in DOMAIN p.sel : x # g => q.sel[x] = p.sel[x]

\* Such a change keeps a profile consistent.
LEMMA GroupChanged ==
  ASSUME NEW p, NEW down, ProfileInv(p, down), NEW g \in DOMAIN p.groups, NEW ms, ms \subseteq p.members,
         NEW q, NEW now, GroupBecomes(p, down, g, ms, q, now)
  PROVE  ProfileInv(q, now)
<1> USE DEF GroupBecomes
<1>1. DOMAIN p.sel = {x \in DOMAIN p.groups : p.groups[x] # {}} /\ \A x \in DOMAIN p.groups : p.groups[x] \subseteq p.members
  BY DEF ProfileInv
<1>2. DOMAIN q.sel = {x \in DOMAIN q.groups : q.groups[x] # {}}
  BY <1>1
<1>3. ASSUME NEW x \in DOMAIN q.sel
      PROVE  q.sel[x] = [members |-> q.groups[x], active |-> {m \in q.groups[x] : <<x, m>> \notin now}]
  <2>1. CASE x = g
    BY <1>2, <2>1
  <2>2. CASE x # g
    <3>1. x \in DOMAIN p.sel /\ x \in DOMAIN p.groups /\ q.groups[x] = p.groups[x] /\ q.sel[x] = p.sel[x]
      BY <1>1, <1>2, <2>2
    <3>2. p.sel[x] = [members |-> p.groups[x], active |-> {m \in p.groups[x] : <<x, m>> \notin down}]
      BY <3>1 DEF ProfileInv
    <3>3. {m \in p.groups[x] : <<x, m>> \notin down} = {m \in p.groups[x] : <<x, m>> \notin now}
      BY <1>1, <2>2, <3>1
    <3> QED  BY <3>1, <3>2, <3>3
  <2> QED  BY <2>1, <2>2
<1>4. \A x \in DOMAIN q.groups : q.groups[x] \subseteq q.members
  BY <1>1
<1> QED  BY <1>2, <1>3, <1>4 DEF ProfileInv

\* The profile the runtime sees is consistent, and a call that keeps it so keeps both.
LEMMA ProfileSeen == SelectionInv => ProfileInv(PsProfile, psDown[PsWhich])
BY DEF SelectionInv, PsProfile, PsWhich

\* A call that keeps the profile the runtime sees consistent keeps both.
LEMMA UpdateKeeps ==
  ASSUME SelectionInv, NEW prof, NEW down, ProfileInv(prof, down), PsUpdate(prof, down)
  PROVE  SelectionInv'
<1>1. psDown' = [psDown EXCEPT ![PsWhich] = down] /\ psSwap' = psSwap /\ psOps' = psOps + 1 /\ psOps < PsMaxOps
  BY DEF PsUpdate
<1>2. DOMAIN psDown = {"run", "new"} /\ psOps \in 0 .. PsMaxOps
  BY DEF SelectionInv
<1>3. psOps' \in 0 .. PsMaxOps
  BY <1>1, <1>2, SelAssumption
<1>4. CASE psSwap
  <2>1. psNew' = prof /\ psRun' = psRun /\ psDown'.new = down /\ psDown'.run = psDown.run
    BY <1>1, <1>2, <1>4 DEF PsUpdate, PsWhich
  <2>2. ProfileInv(psNew', psDown'.new) /\ ProfileInv(psRun', psDown'.run)
    BY <2>1 DEF SelectionInv
  <2> QED  BY <1>1, <1>2, <1>3, <2>2 DEF SelectionInv, ProfileInv
<1>5. CASE ~psSwap
  <2>1. psRun' = prof /\ psNew' = psNew /\ psDown'.run = down /\ psDown'.new = psDown.new
    BY <1>1, <1>2, <1>5 DEF PsUpdate, PsWhich
  <2>2. ProfileInv(psNew', psDown'.new) /\ ProfileInv(psRun', psDown'.run)
    BY <2>1 DEF SelectionInv
  <2> QED  BY <1>1, <1>2, <1>3, <2>2 DEF SelectionInv, ProfileInv
<1> QED  BY <1>4, <1>5

\* A member comes or goes without the selection noticing.
LEMMA SelCreateMemberKeeps ==
  ASSUME SelectionInv, NEW m \in PsMembers, PsMbrCreate(m) \/ PsMbrDelete(m)
  PROVE  SelectionInv'
<1>a. PICK p : p = PsProfile
  OBVIOUS
<1>b. PICK down : down = psDown[PsWhich]
  OBVIOUS
<1>0. ProfileInv(p, down)
  BY <1>a, <1>b, ProfileSeen
<1>1. CASE PsMbrCreate(m)
  <2>1. PICK q : q = [p EXCEPT !.members = @ \cup {m}]
    OBVIOUS
  <2>2. DOMAIN q = DOMAIN p /\ q.members = p.members \cup {m} /\ q.groups = p.groups /\ q.sel = p.sel
    BY <1>0, <2>1 DEF ProfileInv
  <2>3. IsFiniteSet(p.members \cup {m})
    BY <1>0, FS_AddElement DEF ProfileInv
  <2>4. ProfileInv(q, down)
    BY <1>0, <2>2, <2>3 DEF ProfileInv
  <2>5. PsUpdate(q, down)
    BY <1>1, <1>a, <1>b, <2>1 DEF PsMbrCreate
  <2> QED  BY <2>4, <2>5, UpdateKeeps
<1>2. CASE PsMbrDelete(m)
  <2>1. PICK q : q = [p EXCEPT !.members = @ \ {m}]
    OBVIOUS
  <2>2. DOMAIN q = DOMAIN p /\ q.members = p.members \ {m} /\ q.groups = p.groups /\ q.sel = p.sel
    BY <1>0, <2>1 DEF ProfileInv
  <2>3. IsFiniteSet(p.members \ {m})
    BY <1>0, FS_RemoveElement DEF ProfileInv
  <2>4. \A g \in DOMAIN p.groups : p.groups[g] \subseteq p.members \ {m}
    BY <1>0, <1>2, <1>a DEF PsMbrDelete, ProfileInv
  <2>5. ProfileInv(q, down)
    BY <1>0, <2>2, <2>3, <2>4 DEF ProfileInv
  <2>6. PsUpdate(q, down)
    BY <1>2, <1>a, <1>b, <2>1 DEF PsMbrDelete
  <2> QED  BY <2>5, <2>6, UpdateKeeps
<1> QED  BY <1>1, <1>2

\* A new group is empty, and the selection has no empty group.
LEMMA SelCreateGroupKeeps ==
  ASSUME SelectionInv, NEW g \in PsGroups, PsGrpCreate(g)
  PROVE  SelectionInv'
<1>a. PICK p : p = PsProfile
  OBVIOUS
<1>b. PICK down : down = psDown[PsWhich]
  OBVIOUS
<1>0. ProfileInv(p, down) /\ g \notin DOMAIN p.groups
  BY <1>a, <1>b, ProfileSeen DEF PsGrpCreate
<1>1. PICK q : q = [p EXCEPT !.groups = PsSet(@, g, {})]
  OBVIOUS
<1>2. /\ DOMAIN q = DOMAIN p /\ q.members = p.members /\ q.sel = p.sel
      /\ DOMAIN q.groups = DOMAIN p.groups \cup {g} /\ q.groups[g] = {}
      /\ \A x \in DOMAIN p.groups : q.groups[x] = p.groups[x]
  BY <1>0, <1>1 DEF ProfileInv, PsSet
<1>3. IsFiniteSet(DOMAIN p.groups \cup {g})
  BY <1>0, FS_AddElement DEF ProfileInv
<1>4. ProfileInv(q, down)
  <2>1. DOMAIN q.sel = {x \in DOMAIN q.groups : q.groups[x] # {}}
    BY <1>0, <1>2 DEF ProfileInv
  <2>2. \A x \in DOMAIN q.groups : q.groups[x] \subseteq q.members
    BY <1>0, <1>2 DEF ProfileInv
  <2>3. \A x \in DOMAIN q.sel : q.sel[x] = [members |-> q.groups[x],
           active |-> {m \in q.groups[x] : <<x, m>> \notin down}]
    BY <1>0, <1>2 DEF ProfileInv
  <2> QED  BY <1>0, <1>2, <1>3, <2>1, <2>2, <2>3 DEF ProfileInv
<1>5. PsUpdate(q, down)
  BY <1>a, <1>b, <1>1 DEF PsGrpCreate
<1> QED  BY <1>4, <1>5, UpdateKeeps

\* A group that is deleted leaves the selection with its members.
LEMMA SelDeleteGroupKeeps ==
  ASSUME SelectionInv, NEW g \in PsGroups, PsGrpDelete(g)
  PROVE  SelectionInv'
<1>a. PICK p : p = PsProfile
  OBVIOUS
<1>b. PICK down : down = psDown[PsWhich]
  OBVIOUS
<1>0. ProfileInv(p, down) /\ g \in DOMAIN p.groups
  BY <1>a, <1>b, ProfileSeen DEF PsGrpDelete
<1>1. PICK q : q = [p EXCEPT !.groups = PsDrop(@, g), !.sel = SelRemove(@, g, p.groups[g])]
  OBVIOUS
<1>c. PICK now : now = {d \in down : d[1] # g}
  OBVIOUS
<1>2. SelRemove(p.sel, g, p.groups[g]) = PsDrop(p.sel, g)
  <2>1. p.groups[g] \ p.groups[g] = {}
    OBVIOUS
  <2> QED  BY <1>0, <2>1, SelRemoveIs
<1>3. /\ DOMAIN q = DOMAIN p /\ q.members = p.members /\ q.sel = PsDrop(p.sel, g) /\ q.groups = PsDrop(p.groups, g)
  BY <1>0, <1>1, <1>2 DEF ProfileInv
<1>4. /\ DOMAIN q.groups = DOMAIN p.groups \ {g} /\ DOMAIN q.sel = DOMAIN p.sel \ {g}
      /\ \A x \in DOMAIN q.groups : q.groups[x] = p.groups[x]
      /\ \A x \in DOMAIN q.sel : q.sel[x] = p.sel[x]
  BY <1>3 DEF PsDrop
<1>5. IsFiniteSet(DOMAIN p.groups \ {g})
  BY <1>0, FS_RemoveElement DEF ProfileInv
<1>6. ProfileInv(q, now)
  <2>1. DOMAIN q.sel = {x \in DOMAIN q.groups : q.groups[x] # {}}
    BY <1>0, <1>4 DEF ProfileInv
  <2>2. \A x \in DOMAIN q.groups : q.groups[x] \subseteq q.members
    BY <1>0, <1>3, <1>4 DEF ProfileInv
  <2>3. ASSUME NEW x \in DOMAIN q.sel
        PROVE  q.sel[x] = [members |-> q.groups[x], active |-> {m \in q.groups[x] : <<x, m>> \notin now}]
    <3>1. x \in DOMAIN p.sel /\ x # g /\ q.groups[x] = p.groups[x] /\ q.sel[x] = p.sel[x]
      BY <1>4, <2>1
    <3>2. \A m : <<x, m>> \in now <=> <<x, m>> \in down
      BY <1>c, <3>1
    <3>3. p.sel[x] = [members |-> p.groups[x], active |-> {m \in p.groups[x] : <<x, m>> \notin down}]
      BY <1>0, <3>1 DEF ProfileInv
    <3> QED  BY <3>1, <3>2, <3>3
  <2> QED  BY <1>0, <1>3, <1>4, <1>5, <2>1, <2>2, <2>3 DEF ProfileInv
<1>7. PsUpdate(q, now)
  BY <1>a, <1>b, <1>c, <1>1 DEF PsGrpDelete
<1> QED  BY <1>6, <1>7, UpdateKeeps

\* A member that comes to a group is active there.
LEMMA SelAddMemberKeeps ==
  ASSUME SelectionInv, NEW g \in PsGroups, NEW m \in PsMembers, PsGrpAddMbr(g, m)
  PROVE  SelectionInv'
<1>a. PICK p : p = PsProfile
  OBVIOUS
<1>b. PICK down : down = psDown[PsWhich]
  OBVIOUS
<1>c. PICK now : now = down \ {<<g, m>>}
  OBVIOUS
<1>0. ProfileInv(p, down) /\ g \in DOMAIN p.groups /\ m \in p.members \ p.groups[g]
  BY <1>a, <1>b, ProfileSeen DEF PsGrpAddMbr
<1>d. PICK ms : ms = p.groups[g] \cup {m}
  OBVIOUS
<1>1. PICK q : q = [p EXCEPT !.groups[g] = @ \cup {m}, !.sel = SelAdd(@, g, m)]
  OBVIOUS
<1>2. SelOf(p.sel, g) = [members |-> p.groups[g], active |-> {x \in p.groups[g] : <<g, x>> \notin down}]
  <2>1. CASE g \in DOMAIN p.sel
    BY <1>0, <2>1 DEF SelOf, ProfileInv
  <2>2. CASE g \notin DOMAIN p.sel
    <3>1. p.groups[g] = {}
      BY <1>0, <2>2 DEF ProfileInv
    <3> QED  BY <2>2, <3>1 DEF SelOf
  <2> QED  BY <2>1, <2>2
<1>3. /\ DOMAIN q = DOMAIN p /\ q.members = p.members /\ q.sel = SelAdd(p.sel, g, m)
      /\ q.groups = [p.groups EXCEPT ![g] = @ \cup {m}]
  BY <1>0, <1>1 DEF ProfileInv
<1>4. /\ DOMAIN q.groups = DOMAIN p.groups /\ q.groups[g] = ms
      /\ \A x \in DOMAIN p.groups : x # g => q.groups[x] = p.groups[x]
  BY <1>0, <1>3, <1>d
<1>5. {x \in p.groups[g] : <<g, x>> \notin down} \cup {m} = {x \in ms : <<g, x>> \notin now}
  BY <1>0, <1>c, <1>d
<1>6. /\ DOMAIN q.sel = DOMAIN p.sel \cup {g}
      /\ q.sel[g] = [members |-> ms, active |-> {x \in ms : <<g, x>> \notin now}]
      /\ \A x \in DOMAIN p.sel : x # g => q.sel[x] = p.sel[x]
  <2>1. PICK e : e = [members |-> ms, active |-> {x \in ms : <<g, x>> \notin now}]
    OBVIOUS
  <2>2. SelOf(p.sel, g).members \cup {m} = ms /\ SelOf(p.sel, g).active \cup {m} = {x \in ms : <<g, x>> \notin now}
    BY <1>2, <1>5, <1>d
  <2>3. q.sel = PsSet(p.sel, g, e)
    BY <1>3, <2>1, <2>2 DEF SelAdd
  <2>4. /\ DOMAIN q.sel = DOMAIN p.sel \cup {g} /\ q.sel[g] = e
        /\ \A x \in DOMAIN p.sel : x # g => q.sel[x] = p.sel[x]
    BY <2>3 DEF PsSet
  <2> QED  BY <2>1, <2>4
<1>7. ms # {} /\ ms \subseteq p.members
  BY <1>0, <1>d DEF ProfileInv
<1>8. \A x \in DOMAIN p.groups : \A y \in p.members : x # g => (<<x, y>> \in now <=> <<x, y>> \in down)
  BY <1>c
<1>9. DOMAIN q = {"members", "groups", "sel"}
  BY <1>0, <1>3 DEF ProfileInv
<1>10. ProfileInv(q, now)
  <2>1. DOMAIN q.sel = (IF ms = {} THEN DOMAIN p.sel \ {g} ELSE DOMAIN p.sel \cup {g})
    BY <1>6, <1>7
  <2>2. GroupBecomes(p, down, g, ms, q, now)
    BY <1>3, <1>4, <1>6, <1>8, <1>9, <2>1 DEF GroupBecomes
  <2> QED  BY <1>0, <1>7, <2>2, GroupChanged
<1>11. PsUpdate(q, now)
  BY <1>a, <1>b, <1>c, <1>1 DEF PsGrpAddMbr
<1> QED  BY <1>10, <1>11, UpdateKeeps

\* A member that leaves a group leaves the selection.
LEMMA SelRemoveMemberKeeps ==
  ASSUME SelectionInv, NEW g \in PsGroups, NEW m \in PsMembers, PsGrpRemoveMbr(g, m)
  PROVE  SelectionInv'
<1>a. PICK p : p = PsProfile
  OBVIOUS
<1>b. PICK down : down = psDown[PsWhich]
  OBVIOUS
<1>c. PICK now : now = down \ {<<g, m>>}
  OBVIOUS
<1>0. ProfileInv(p, down) /\ g \in DOMAIN p.groups /\ m \in p.groups[g]
  BY <1>a, <1>b, ProfileSeen DEF PsGrpRemoveMbr
<1>d. PICK ms : ms = p.groups[g] \ {m}
  OBVIOUS
<1>1. PICK q : q = [p EXCEPT !.groups[g] = @ \ {m}, !.sel = SelRemove(@, g, {m})]
  OBVIOUS
<1>3. /\ DOMAIN q = DOMAIN p /\ q.members = p.members /\ q.sel = SelRemove(p.sel, g, {m})
      /\ q.groups = [p.groups EXCEPT ![g] = @ \ {m}]
  BY <1>0, <1>1 DEF ProfileInv
<1>4. /\ DOMAIN q.groups = DOMAIN p.groups /\ q.groups[g] = ms
      /\ \A x \in DOMAIN p.groups : x # g => q.groups[x] = p.groups[x]
  BY <1>0, <1>3, <1>d
<1>5. {x \in ms : <<g, x>> \notin down} = {x \in ms : <<g, x>> \notin now}
  BY <1>0, <1>c, <1>d
<1>6. q.sel = IF ms = {} THEN PsDrop(p.sel, g)
              ELSE PsSet(p.sel, g, [members |-> ms, active |-> {x \in ms : <<g, x>> \notin now}])
  <2>1. {m} \in SUBSET p.groups[g]
    BY <1>0
  <2> QED  BY <1>0, <1>3, <1>5, <1>d, <2>1, SelRemoveIs
<1>7. /\ DOMAIN q.sel = (IF ms = {} THEN DOMAIN p.sel \ {g} ELSE DOMAIN p.sel \cup {g})
      /\ ms # {} => q.sel[g] = [members |-> ms, active |-> {x \in ms : <<g, x>> \notin now}]
      /\ \A x \in DOMAIN p.sel : x # g => q.sel[x] = p.sel[x]
  BY <1>6 DEF PsSet, PsDrop
<1>8. \A x \in DOMAIN p.groups : \A y \in p.members : x # g => (<<x, y>> \in now <=> <<x, y>> \in down)
  BY <1>c
<1>9. DOMAIN q = {"members", "groups", "sel"} /\ ms \subseteq p.members
  BY <1>0, <1>3, <1>d DEF ProfileInv
<1>10. ProfileInv(q, now)
  <2>1. GroupBecomes(p, down, g, ms, q, now)
    BY <1>3, <1>4, <1>7, <1>8, <1>9 DEF GroupBecomes
  <2> QED  BY <1>0, <1>9, <2>1, GroupChanged
<1>11. PsUpdate(q, now)
  BY <1>a, <1>b, <1>c, <1>1 DEF PsGrpRemoveMbr
<1> QED  BY <1>10, <1>11, UpdateKeeps

\* Activation and deactivation change who is active, and who is down with it.
LEMMA SelActivateKeeps ==
  ASSUME SelectionInv, NEW g \in PsGroups, NEW m \in PsMembers, PsActivate(g, m) \/ PsDeactivate(g, m)
  PROVE  SelectionInv'
<1>a. PICK p : p = PsProfile
  OBVIOUS
<1>b. PICK down : down = psDown[PsWhich]
  OBVIOUS
<1>c. PICK now : now = IF PsActivate(g, m) THEN down \ {<<g, m>>} ELSE down \cup {<<g, m>>}
  OBVIOUS
<1>d. PICK up : up = IF PsActivate(g, m) THEN p.sel[g].active \cup {m} ELSE p.sel[g].active \ {m}
  OBVIOUS
<1>0. ProfileInv(p, down) /\ m \in SelOf(p.sel, g).members
  BY <1>a, <1>b, ProfileSeen DEF PsActivate, PsDeactivate
<1>1. g \in DOMAIN p.sel /\ g \in DOMAIN p.groups /\ p.groups[g] # {} /\ p.groups[g] \subseteq p.members
  BY <1>0 DEF SelOf, ProfileInv
<1>2. p.sel[g] = [members |-> p.groups[g], active |-> {x \in p.groups[g] : <<g, x>> \notin down}]
      /\ m \in p.groups[g]
  BY <1>0, <1>1 DEF SelOf, ProfileInv
<1>3. up = {x \in p.groups[g] : <<g, x>> \notin now}
  BY <1>2, <1>c, <1>d
<1>4. PICK q : q = [p EXCEPT !.sel[g].active = up]
  OBVIOUS
<1>5. /\ DOMAIN q = {"members", "groups", "sel"} /\ q.members = p.members /\ q.groups = p.groups
      /\ q.sel = [p.sel EXCEPT ![g].active = up]
  BY <1>0, <1>4 DEF ProfileInv
<1>6. /\ DOMAIN q.sel = DOMAIN p.sel /\ \A x \in DOMAIN p.sel : x # g => q.sel[x] = p.sel[x]
      /\ q.sel[g] = [p.sel[g] EXCEPT !.active = up]
  BY <1>1, <1>5
<1>7. q.sel[g] = [members |-> p.groups[g], active |-> {x \in p.groups[g] : <<g, x>> \notin now}]
  <2>1. \A a, b, c : [[members |-> a, active |-> b] EXCEPT !.active = c] = [members |-> a, active |-> c]
    OBVIOUS
  <2>2. PICK old : old = {x \in p.groups[g] : <<g, x>> \notin down}
    OBVIOUS
  <2>3. q.sel[g] = [[members |-> p.groups[g], active |-> old] EXCEPT !.active = up]
    BY <1>2, <1>6, <2>2
  <2>4. q.sel[g] = [members |-> p.groups[g], active |-> up]
    BY <2>1, <2>3
  <2> QED  BY <1>3, <2>4
<1>8. \A x \in DOMAIN p.groups : \A y \in p.members : x # g => (<<x, y>> \in now <=> <<x, y>> \in down)
  BY <1>c
<1>9. ProfileInv(q, now)
  <2>1. DOMAIN q.sel = DOMAIN p.sel \cup {g}
    BY <1>1, <1>6
  <2>2. GroupBecomes(p, down, g, p.groups[g], q, now)
    BY <1>1, <1>5, <1>6, <1>7, <1>8, <2>1 DEF GroupBecomes
  <2> QED  BY <1>0, <1>1, <2>2, GroupChanged
<1>10. PsUpdate(q, now)
  <2>1. CASE PsActivate(g, m)
    <3>1. [p EXCEPT !.sel[g].active = @ \cup {m}] = q
      BY <1>4, <1>d, <2>1
    <3> QED  BY <1>a, <1>b, <1>c, <2>1, <3>1 DEF PsActivate
  <2>2. CASE ~PsActivate(g, m)
    <3>1. [p EXCEPT !.sel[g].active = @ \ {m}] = q
      BY <1>4, <1>d, <2>2
    <3> QED  BY <1>a, <1>b, <1>c, <2>2, <3>1 DEF PsDeactivate
  <2> QED  BY <2>1, <2>2
<1> QED  BY <1>9, <1>10, UpdateKeeps

\* The change of configuration.
LEMMA SwapKeeps == SelectionInv /\ (PsUpdateStart \/ PsUpdateEnd) => SelectionInv'
<1> SUFFICES ASSUME SelectionInv, PsUpdateStart \/ PsUpdateEnd PROVE SelectionInv'
  OBVIOUS
<1>0. DOMAIN psDown = {"run", "new"} /\ psOps \in 0 .. PsMaxOps /\ ProfileInv(psRun, psDown.run)
      /\ ProfileInv(psNew, psDown.new)
  BY DEF SelectionInv
<1>1. CASE PsUpdateStart
  <2>1. psNew' = EmptyProfile /\ psRun' = psRun /\ psDown' = [psDown EXCEPT !.new = {}]
        /\ psSwap' \in BOOLEAN /\ psOps' = psOps + 1 /\ psOps < PsMaxOps
    BY <1>1 DEF PsUpdateStart
  <2>2. DOMAIN psDown' = {"run", "new"} /\ psDown'.run = psDown.run /\ psDown'.new = {} /\ psOps' \in 0 .. PsMaxOps
    BY <1>0, <2>1, SelAssumption
  <2>3. ProfileInv(psRun', psDown'.run) /\ ProfileInv(psNew', psDown'.new)
    BY <1>0, <2>1, <2>2, EmptyProfileOk
  <2> QED  BY <2>1, <2>2, <2>3 DEF SelectionInv, ProfileInv
<1>2. CASE PsUpdateEnd
  <2>1. psNew' = EmptyProfile /\ psRun' = psNew /\ psDown' = [run |-> psDown.new, new |-> {}]
        /\ psSwap' \in BOOLEAN /\ psOps' = psOps
    BY <1>2 DEF PsUpdateEnd
  <2>2. DOMAIN psDown' = {"run", "new"} /\ psDown'.run = psDown.new /\ psDown'.new = {} /\ psOps' \in 0 .. PsMaxOps
    BY <1>0, <2>1
  <2>3. ProfileInv(psRun', psDown'.run) /\ ProfileInv(psNew', psDown'.new)
    BY <1>0, <2>1, <2>2, EmptyProfileOk
  <2> QED  BY <2>1, <2>2, <2>3 DEF SelectionInv, ProfileInv
<1> QED  BY <1>1, <1>2

\* Every call keeps both profiles consistent.
LEMMA SelectionStep == SelectionInv /\ [PsNext]_psVars => SelectionInv'
<1> SUFFICES ASSUME SelectionInv, [PsNext]_psVars PROVE SelectionInv'
  OBVIOUS
<1>1. CASE UNCHANGED psVars
  <2>1. psRun' = psRun /\ psNew' = psNew /\ psDown' = psDown /\ psSwap' = psSwap /\ psOps' = psOps
    BY <1>1 DEF psVars
  <2>2. DOMAIN psDown' = {"run", "new"} /\ psSwap' \in BOOLEAN /\ psOps' \in 0 .. PsMaxOps
    BY <2>1 DEF SelectionInv
  <2>3. ProfileInv(psRun', psDown'.run) /\ ProfileInv(psNew', psDown'.new)
    BY <2>1 DEF SelectionInv
  <2> QED  BY <2>2, <2>3 DEF SelectionInv, ProfileInv
<1> QED
  BY <1>1, SelCreateMemberKeeps, SelCreateGroupKeeps, SelDeleteGroupKeeps, SelAddMemberKeeps, SelRemoveMemberKeeps,
     SelActivateKeeps, SwapKeeps DEF PsNext

\* Both profiles start empty.
LEMMA SelectionBegins == PsInit => SelectionInv
<1> SUFFICES ASSUME PsInit PROVE SelectionInv  OBVIOUS
<1>1. psRun = EmptyProfile /\ psNew = EmptyProfile /\ psDown.run = {} /\ psDown.new = {}
      /\ DOMAIN psDown = {"run", "new"} /\ psSwap = FALSE /\ psOps = 0
  BY DEF PsInit
<1>2. ProfileInv(psRun, psDown.run) /\ ProfileInv(psNew, psDown.new)
  BY <1>1, EmptyProfileOk
<1>3. 0 \in 0 .. PsMaxOps
  BY SelAssumption
<1> QED  BY <1>1, <1>2, <1>3 DEF SelectionInv

-----------------------------------------------------------------------------
\* The members up to the i-th group, one group after the other.
EmitUpto(p, u) ==
  LET gs == InOrder(DOMAIN p.groups)
  IN  /\ u \in [0 .. Len(gs) -> Seq(PsMembers)] /\ u[0] = <<>>
      /\ \A i \in 1 .. Len(gs) : u[i] = u[i - 1] \o InOrder(p.groups[gs[i]])
      /\ EmitGroups(p) = [handles |-> u[Len(gs)],
           groups |-> [i \in 1 .. Len(gs) |->
             [grp |-> gs[i], num |-> Cardinality(p.groups[gs[i]]), offset |-> Len(u[i - 1])]]]

\* The groups of a profile are finite sets of numbers.
LEMMA GroupsAreFinite ==
  ASSUME NEW p, NEW down, ProfileInv(p, down)
  PROVE  /\ DOMAIN p.groups \subseteq Nat /\ IsFiniteSet(DOMAIN p.groups)
         /\ \A g \in DOMAIN p.groups : /\ IsFiniteSet(p.groups[g]) /\ p.groups[g] \subseteq Nat
                                       /\ p.groups[g] \subseteq PsMembers
<1>1. DOMAIN p.groups \subseteq Nat /\ IsFiniteSet(DOMAIN p.groups)
  BY SelAssumption DEF ProfileInv
<1>2. ASSUME NEW g \in DOMAIN p.groups
      PROVE  IsFiniteSet(p.groups[g]) /\ p.groups[g] \subseteq Nat /\ p.groups[g] \subseteq PsMembers
  <2>1. p.groups[g] \subseteq p.members /\ IsFiniteSet(p.members) /\ p.members \subseteq PsMembers
    BY DEF ProfileInv
  <2>2. IsFiniteSet(p.groups[g])
    BY <2>1, FS_Subset
  <2> QED  BY <2>1, <2>2, SelAssumption
<1> QED  BY <1>1, <1>2

\* A sequence over a set is one over a larger set.
LEMMA SeqWidens ==
  ASSUME NEW S, NEW T, S \subseteq T, NEW q \in Seq(S)
  PROVE  q \in Seq(T)
<1>1. Len(q) \in Nat /\ q \in [1 .. Len(q) -> S]
  OBVIOUS
<1>2. q \in [1 .. Len(q) -> T]
  BY <1>1
<1> QED  BY <1>1, <1>2

\* What a concatenation is made of.
LEMMA ConcatIs ==
  ASSUME NEW C, NEW u \in Seq(C), NEW v \in Seq(C)
  PROVE  /\ u \o v \in Seq(C) /\ Len(u \o v) = Len(u) + Len(v) /\ Len(u) \in Nat /\ Len(v) \in Nat
         /\ \A j \in 1 .. Len(u) : (u \o v)[j] = u[j]
         /\ \A j \in 1 .. Len(v) : (u \o v)[Len(u) + j] = v[j]
OBVIOUS

\* The array of EmitGroups is made group by group.
LEMMA EmitIs ==
  ASSUME NEW p, NEW down, ProfileInv(p, down)
  PROVE  \E u : EmitUpto(p, u)
<1> DEFINE gs == InOrder(DOMAIN p.groups)
           N == Len(gs)
           V == Seq(PsMembers)
           Eq(u) == u = [i \in 0 .. N |-> IF i = 0 THEN <<>> ELSE u[i - 1] \o InOrder(p.groups[gs[i]])]
           step == [i \in 1 .. N |-> [x \in V |-> x \o InOrder(p.groups[gs[i]])]]
<1>0. N \in Nat /\ \A i \in 1 .. N : gs[i] \in DOMAIN p.groups
  BY GroupsAreFinite, InOrderIs
<1>1. ASSUME NEW i \in 1 .. N PROVE InOrder(p.groups[gs[i]]) \in V
  <2>1. gs[i] \in DOMAIN p.groups
    BY <1>0
  <2>2. PICK S : S = p.groups[gs[i]]
    OBVIOUS
  <2>3. IsFiniteSet(S) /\ S \subseteq Nat /\ S \subseteq PsMembers
    BY <2>1, <2>2, GroupsAreFinite
  <2>4. InOrder(S) \in Seq(S)
    BY <2>3, InOrderIs
  <2>5. InOrder(S) \in Seq(PsMembers)
    BY <2>3, <2>4, SeqWidens
  <2> QED  BY <2>2, <2>5
<1> HIDE DEF gs, N
<1>2. step \in [1 .. N -> [V -> V]]
  BY <1>1
<1>3. PICK w \in [0 .. N -> V] : w[0] = <<>> /\ \A i \in 1 .. N : w[i] = step[i][w[i - 1]]
  <2>1. step \in StepsOf(N, V) /\ <<>> \in V
    BY <1>2 DEF StepsOf
  <2> HIDE DEF V, step
  <2>2. RunsOf(N, V, <<>>, step) # {}
    BY <1>0, <2>1, Iterates
  <2> QED  BY <2>2 DEF RunsOf
<1>4. ASSUME NEW i \in 1 .. N PROVE w[i] = w[i - 1] \o InOrder(p.groups[gs[i]])
  <2>1. i - 1 \in 0 .. N /\ w[i - 1] \in V
    BY <1>0
  <2> QED  BY <1>3, <2>1
<1>5. Eq(w)
  <2>1. ASSUME NEW i \in 0 .. N
        PROVE  w[i] = IF i = 0 THEN <<>> ELSE w[i - 1] \o InOrder(p.groups[gs[i]])
    <3>1. CASE i = 0
      BY <1>3, <3>1
    <3>2. CASE i # 0
      <4>1. i \in 1 .. N
        BY <1>0, <3>2
      <4> QED  BY <1>4, <3>2, <4>1
    <3> QED  BY <3>1, <3>2
  <2> QED  BY <2>1
<1>6. PICK v : v = CHOOSE u : Eq(u)
  OBVIOUS
<1>7. Eq(v)
  <2>1. Eq(CHOOSE u : Eq(u))
    BY <1>5
  <2> QED  BY <1>6, <2>1
<1>8. v[0] = <<>> /\ \A i \in 1 .. N : v[i] = v[i - 1] \o InOrder(p.groups[gs[i]])
  <2>1. \A i \in 0 .. N : v[i] = IF i = 0 THEN <<>> ELSE v[i - 1] \o InOrder(p.groups[gs[i]])
    BY <1>7
  <2>2. 0 \in 0 .. N /\ \A i \in 1 .. N : i \in 0 .. N /\ i # 0
    BY <1>0
  <2> HIDE DEF Eq
  <2> QED  BY <2>1, <2>2
<1>9. v \in [0 .. N -> V]
  <2> DEFINE S == {i \in 0 .. N : v[i] \in V}
  <2>1. 0 \in S
    <3>1. <<>> \in V /\ 0 \in 0 .. N
      BY <1>0
    <3> QED  BY <1>8, <3>1
  <2>2. ASSUME NEW i \in 1 .. N, i - 1 \in S PROVE i \in S
    <3>1. i \in 0 .. N /\ v[i - 1] \in V
      BY <1>0, <2>2
    <3>2. v[i - 1] \o InOrder(p.groups[gs[i]]) \in V
      BY <1>1, <3>1
    <3> QED  BY <1>8, <3>1, <3>2
  <2>3. \A i \in 0 .. N : i \in S
    <3> HIDE DEF S
    <3> QED  BY <1>0, <2>1, <2>2, UpTo
  <2> QED  BY <1>7, <2>3
<1>10. EmitGroups(p) = [handles |-> v[N],
         groups |-> [i \in 1 .. N |->
           [grp |-> gs[i], num |-> Cardinality(p.groups[gs[i]]), offset |-> Len(v[i - 1])]]]
  BY <1>6 DEF EmitGroups, gs, N
<1> QED  BY <1>8, <1>9, <1>10 DEF EmitUpto, gs, N

\* A part of an array.
PartOf(s, from, n) == {s[k] : k \in from + 1 .. from + n}

\* What was emitted for a group stays where it is.
LEMMA EmittedStays ==
  ASSUME NEW p, NEW down, ProfileInv(p, down), NEW u, EmitUpto(p, u),
         NEW i \in 1 .. Len(InOrder(DOMAIN p.groups))
  PROVE  LET gs == InOrder(DOMAIN p.groups)
         IN  PartOf(u[Len(gs)], Len(u[i - 1]), Cardinality(p.groups[gs[i]])) = p.groups[gs[i]]
<1> DEFINE gs == InOrder(DOMAIN p.groups)
           N == Len(gs)
           S == p.groups[gs[i]]
           from == Len(u[i - 1])
           c == Cardinality(S)
           q == InOrder(S)
<1>0. N \in Nat /\ i \in 1 .. N /\ gs \in Seq(DOMAIN p.groups) /\ gs[i] \in DOMAIN p.groups
  <2>1. gs \in Seq(DOMAIN p.groups)
    BY GroupsAreFinite, InOrderIs
  <2> QED  BY <2>1
<1>1. u \in [0 .. N -> Seq(PsMembers)] /\ \A j \in 1 .. N : u[j] = u[j - 1] \o InOrder(p.groups[gs[j]])
  BY DEF EmitUpto
<1> HIDE DEF gs, N
<1>2. IsFiniteSet(S) /\ S \subseteq Nat /\ S \subseteq PsMembers
  BY <1>0, GroupsAreFinite
<1> HIDE DEF S
<1>3. q \in Seq(S) /\ Len(q) = c /\ c \in Nat /\ {q[k] : k \in 1 .. c} = S
  BY <1>2, InOrderIs
<1>4. u[i - 1] \in Seq(PsMembers) /\ from \in Nat /\ u[i] = u[i - 1] \o q
  <2>1. i - 1 \in 0 .. N
    BY <1>0
  <2>2. u[i - 1] \in Seq(PsMembers)
    BY <1>1, <2>1
  <2>3. from \in Nat
    BY <2>2
  <2>4. u[i] = u[i - 1] \o InOrder(p.groups[gs[i]])
    BY <1>0, <1>1
  <2>5. q = InOrder(p.groups[gs[i]])
    BY DEF S
  <2> HIDE DEF q, from
  <2> QED  BY <2>2, <2>3, <2>4, <2>5
<1>5. u[i] \in Seq(PsMembers) /\ Len(u[i]) = from + c /\ \A k \in 1 .. c : u[i][from + k] = q[k]
  <2>1. q \in Seq(PsMembers)
    BY <1>2, <1>3, SeqWidens
  <2> HIDE DEF q, c
  <2>2. /\ u[i - 1] \o q \in Seq(PsMembers) /\ Len(u[i - 1] \o q) = Len(u[i - 1]) + Len(q)
        /\ \A j \in 1 .. Len(q) : (u[i - 1] \o q)[Len(u[i - 1]) + j] = q[j]
    BY <1>4, <2>1, ConcatIs
  <2> QED  BY <1>3, <1>4, <2>2
<1> HIDE DEF from, c, q
<1> DEFINE R == {j \in 0 .. N : i <= j => /\ from + c <= Len(u[j])
                                          /\ \A k \in 1 .. c : u[j][from + k] = q[k]}
<1>6. 0 \in R
  BY <1>0
<1>7. ASSUME NEW j \in 1 .. N, j - 1 \in R PROVE j \in R
  <2>1. CASE j < i
    BY <1>0, <2>1
  <2>2. CASE j = i
    <3>1. j \in 0 .. N
      BY <1>0
    <3>2. from + c <= Len(u[i])
      BY <1>3, <1>4, <1>5
    <3>3. u[j] = u[i]
      BY <2>2
    <3>4. from + c <= Len(u[j])
      BY <3>2, <3>3
    <3>5. \A k \in 1 .. c : u[j][from + k] = q[k]
      BY <1>5, <3>3
    <3> QED  BY <3>1, <3>4, <3>5
  <2>3. CASE i < j
    <3>1. j - 1 \in 0 .. N /\ i <= j - 1
      BY <1>0, <2>3
    <3>2. from + c <= Len(u[j - 1]) /\ \A k \in 1 .. c : u[j - 1][from + k] = q[k]
      BY <1>7, <3>1
    <3>3. PICK a : a = u[j - 1]
      OBVIOUS
    <3>4. PICK b : b = InOrder(p.groups[gs[j]])
      OBVIOUS
    <3>5. gs[j] \in DOMAIN p.groups
      BY <1>0 DEF N
    <3>6. b \in Seq(p.groups[gs[j]]) /\ p.groups[gs[j]] \subseteq PsMembers
      BY <3>4, <3>5, GroupsAreFinite, InOrderIs
    <3>7. a \in Seq(PsMembers) /\ b \in Seq(PsMembers) /\ u[j] = a \o b
      <4>1. b \in Seq(PsMembers)
        BY <3>6, SeqWidens
      <4>2. u[j - 1] \in Seq(PsMembers)
        BY <1>1, <3>1
      <4> QED  BY <1>1, <3>3, <3>4, <4>1, <4>2
    <3>8. Len(u[j]) = Len(a) + Len(b) /\ \A k \in 1 .. Len(a) : u[j][k] = a[k]
      BY <3>7
    <3>9. \A k \in 1 .. c : from + k \in 1 .. Len(a)
      <4>1. from \in Nat /\ c \in Nat /\ Len(a) \in Nat
        BY <1>3, <1>4, <3>7
      <4>2. from + c <= Len(a)
        BY <3>2, <3>3
      <4> QED  BY <4>1, <4>2
    <3>10. from + c <= Len(u[j])
      BY <1>3, <1>4, <3>2, <3>3, <3>7, <3>8
    <3>11. \A k \in 1 .. c : u[j][from + k] = q[k]
      BY <3>2, <3>3, <3>8, <3>9
    <3>12. j \in 0 .. N
      BY <1>0
    <3> QED  BY <3>10, <3>11, <3>12
  <2> QED  BY <1>0, <2>1, <2>2, <2>3
<1>8. N \in R
  <2>1. N \in 0 .. N
    BY <1>0
  <2> HIDE DEF R
  <2> QED  BY <1>0, <1>6, <1>7, <2>1, UpTo
<1>9. \A k \in 1 .. c : u[N][from + k] = q[k]
  BY <1>0, <1>8
<1> HIDE DEF R
<1>10. {u[N][k] : k \in from + 1 .. from + c} = {q[k] : k \in 1 .. c}
  <2>1. \A k \in 1 .. c : from + k \in from + 1 .. from + c
    BY <1>3, <1>4
  <2>2. \A k \in from + 1 .. from + c : k - from \in 1 .. c /\ from + (k - from) = k
    BY <1>3, <1>4
  <2> QED  BY <1>9, <2>1, <2>2
<1>11. {u[N][k] : k \in from + 1 .. from + c} = S
  BY <1>3, <1>10
<1> QED  BY <1>11 DEF gs, N, S, from, c, PartOf

\* What a client reads back are the groups.
LEMMA GroupsDecode == SelectionInv => FetchedGroupsDecode
<1> SUFFICES ASSUME SelectionInv PROVE FetchedGroupsDecode  OBVIOUS
<1>a. PICK p : p = psRun
  OBVIOUS
<1> DEFINE D == DOMAIN p.groups
           gs == InOrder(D)
           res == EmitGroups(p)
<1>0. ProfileInv(p, psDown.run)
  BY <1>a DEF SelectionInv
<1>1. PICK u : EmitUpto(p, u)
  BY <1>0, EmitIs
<1>3. res.handles = u[Len(gs)] /\ res.groups = [i \in 1 .. Len(gs) |->
        [grp |-> gs[i], num |-> Cardinality(p.groups[gs[i]]), offset |-> Len(u[i - 1])]]
  BY <1>1 DEF EmitUpto
<1>4. Len(gs) \in Nat /\ {gs[i] : i \in 1 .. Len(gs)} = D
  <2>1. D \subseteq Nat /\ IsFiniteSet(D)
    BY <1>0, GroupsAreFinite
  <2> HIDE DEF D
  <2> QED  BY <2>1, InOrderIs
<1>7. ASSUME NEW i \in 1 .. Len(gs)
      PROVE  PartOf(u[Len(gs)], Len(u[i - 1]), Cardinality(p.groups[gs[i]])) = p.groups[gs[i]]
  <2>1. i \in 1 .. Len(InOrder(DOMAIN p.groups))
    OBVIOUS
  <2>2. LET g == InOrder(DOMAIN p.groups)
        IN  PartOf(u[Len(g)], Len(u[i - 1]), Cardinality(p.groups[g[i]])) = p.groups[g[i]]
    BY <1>0, <1>1, <2>1, EmittedStays
  <2> QED  BY <2>2
<1> HIDE DEF gs, res, D
<1>5. Len(res.groups) = Len(gs) /\ \A i \in 1 .. Len(gs) :
        res.groups[i].grp = gs[i] /\ res.groups[i].num = Cardinality(p.groups[gs[i]])
          /\ res.groups[i].offset = Len(u[i - 1])
  BY <1>3, <1>4
<1>6. {res.groups[i].grp : i \in 1 .. Len(res.groups)} = D
  BY <1>4, <1>5
<1>8. ASSUME NEW i \in 1 .. Len(res.groups)
      PROVE  PartOf(res.handles, res.groups[i].offset, res.groups[i].num) = p.groups[res.groups[i].grp]
  BY <1>3, <1>5, <1>7
<1> QED  BY <1>a, <1>6, <1>8 DEF FetchedGroupsDecode, PartOf, res, D

\* Consistent profiles give packets active members and clients their groups.
LEMMA SelectionHas == SelectionInv => SelectionSound
<1> SUFFICES ASSUME SelectionInv PROVE SelectionSound  OBVIOUS
<1>0. ProfileInv(psRun, psDown.run)
  BY DEF SelectionInv
<1>1. PsTypeOK
  BY <1>0 DEF SelectionInv, PsTypeOK, ProfileInv
<1>2. DOMAIN psRun.sel \subseteq DOMAIN psRun.groups
  BY <1>0 DEF ProfileInv
<1>3. PacketsReachActiveMembers
  BY <1>0, <1>2, HashReachesActive DEF PacketsReachActiveMembers
<1> QED  BY <1>1, <1>3, GroupsDecode DEF SelectionSound

\* The inductive invariant of the groups of PI: of the profile packets use and of
\* the one that is loaded, the selection has exactly the groups that are not empty,
\* with their members, and the active ones are those that are not down.
THEOREM SelectionInvariant == PsSpec => []SelectionInv
BY SelectionBegins, SelectionStep, PTL DEF PsSpec

\* Every packet that hits a group with an active member gets one that exists and is
\* active, and what a client reads back of the groups are the groups
\* (group_selection.cpp, pi_act_prof_imp.cpp).
THEOREM SelectionIsSound == PsSpec => []SelectionSound
BY SelectionHas, SelectionInvariant, PTL

-----------------------------------------------------------------------------
(* LpmTrie.  Numbers of bits and bytes. *)

\* The powers of 2 are positive.
LEMMA PowersArePositive ==
  /\ Pow2[0] = 1
  /\ \A k \in 0 .. ByteBits : Pow2[k] \in Nat /\ Pow2[k] > 0
<1>0. ByteBits \in Nat
  BY TrieAssumption
<1> DEFINE step == [n \in 1 .. ByteBits |-> [x \in Nat |-> 2 * x]]
<1>1. step \in StepsOf(ByteBits, Nat)
  BY DEF StepsOf
<1>2. PICK w : w \in RunsOf(ByteBits, Nat, 1, step)
  <2> HIDE DEF step
  <2> QED  BY <1>0, <1>1, Iterates
<1>3. w \in [0 .. ByteBits -> Nat] /\ w[0] = 1 /\ \A n \in 1 .. ByteBits : w[n] = 2 * w[n - 1]
  <2>1. \A n \in 1 .. ByteBits : n - 1 \in 0 .. ByteBits
    BY <1>0
  <2> QED  BY <1>2, <2>1 DEF RunsOf
<1>4. w = [n \in 0 .. ByteBits |-> IF n = 0 THEN 1 ELSE 2 * w[n - 1]]
  <2>1. \A n \in 0 .. ByteBits : w[n] = IF n = 0 THEN 1 ELSE 2 * w[n - 1]
    BY <1>0, <1>3
  <2> QED  BY <1>3, <2>1
<1>5. Pow2 = [n \in 0 .. ByteBits |-> IF n = 0 THEN 1 ELSE 2 * Pow2[n - 1]]
  BY <1>4 DEF Pow2
<1> DEFINE S == {n \in 0 .. ByteBits : Pow2[n] \in Nat /\ Pow2[n] > 0}
<1>6. 0 \in S /\ Pow2[0] = 1
  BY <1>0, <1>5
<1>7. ASSUME NEW n \in 1 .. ByteBits, n - 1 \in S PROVE n \in S
  <2>1. n \in 0 .. ByteBits /\ Pow2[n] = 2 * Pow2[n - 1]
    BY <1>0, <1>5
  <2> QED  BY <1>7, <2>1
<1>8. \A n \in 0 .. ByteBits : n \in S
  <2> HIDE DEF S
  <2> QED  BY <1>0, <1>6, <1>7, UpTo
<1> QED  BY <1>6, <1>8

\* Division with a rest.
LEMMA DivisionHasRest ==
  ASSUME NEW m \in Nat, m > 0, NEW b \in Nat
  PROVE  b \div m \in Nat /\ b % m \in 0 .. m - 1 /\ b = m * (b \div m) + (b % m)
<1>1. b \div m \in Nat
  OBVIOUS
<1>2. b % m \in 0 .. m - 1
  OBVIOUS
<1>3. b = m * (b \div m) + (b % m)
  OBVIOUS
<1> QED  BY <1>1, <1>2, <1>3

\* Two numbers with the same high bits and no low ones are the same.
LEMMA SameHighBits ==
  ASSUME NEW m \in Nat, m > 0, NEW b \in Nat, NEW c \in Nat,
         b \div m = c \div m, b % m = 0, c % m = 0
  PROVE  b = c
<1>1. b = m * (b \div m) + (b % m) /\ b \div m \in Nat
  BY DivisionHasRest
<1>2. c = m * (c \div m) + (c % m)
  BY DivisionHasRest
<1> QED  BY <1>1, <1>2

\* A length in bits is a number of bytes and a rest.
LEMMA LengthSplits ==
  ASSUME NEW len \in 0 .. ByteBits * KeyBytes
  PROVE  /\ len \div ByteBits \in 0 .. KeyBytes /\ len % ByteBits \in 0 .. ByteBits - 1
         /\ len = ByteBits * (len \div ByteBits) + (len % ByteBits)
         /\ len \div ByteBits = KeyBytes => len % ByteBits = 0
<1>0. ByteBits \in Nat /\ ByteBits > 0 /\ KeyBytes \in Nat /\ KeyBytes > 0
  BY TrieAssumption
<1> DEFINE d == len \div ByteBits
           r == len % ByteBits
<1>1. ByteBits * KeyBytes \in Nat
  BY <1>0
<1>2. len \in Nat /\ len <= ByteBits * KeyBytes
  BY <1>1
<1>3. d \in Nat /\ r \in 0 .. ByteBits - 1 /\ len = ByteBits * d + r
  BY <1>0, <1>2
<1> HIDE DEF d, r
<1>4. ~(d > KeyBytes)
  <2> SUFFICES ASSUME d > KeyBytes PROVE FALSE  OBVIOUS
  <2>1. PICK e \in Nat : d = KeyBytes + 1 + e
    <3>1. d - KeyBytes - 1 \in Nat
      BY <1>0, <1>3
    <3> QED  BY <1>0, <1>3, <3>1
  <2>2. ByteBits * d = ByteBits * KeyBytes + ByteBits + ByteBits * e
    BY <1>0, <2>1
  <2>3. ByteBits * e \in Nat
    BY <1>0, <2>1
  <2> QED  BY <1>0, <1>1, <1>2, <1>3, <2>2, <2>3
<1>5. d = KeyBytes => r = 0
  BY <1>0, <1>1, <1>2, <1>3
<1>6. d \in 0 .. KeyBytes
  BY <1>0, <1>3, <1>4
<1> QED  BY <1>3, <1>5, <1>6 DEF d, r

\* How many bits of the i-th byte a length reaches.
LEMMA BitsOfByte ==
  ASSUME NEW len \in 0 .. ByteBits * KeyBytes, NEW i \in 1 .. KeyBytes
  PROVE  LET d == len \div ByteBits
             n == len - ByteBits * (i - 1)
         IN  /\ i <= d => n >= ByteBits
             /\ i = d + 1 => n = len % ByteBits
             /\ i > d + 1 => n <= 0
             /\ n \in Int
<1> DEFINE d == len \div ByteBits
           r == len % ByteBits
           n == len - ByteBits * (i - 1)
<1>0. ByteBits \in Nat /\ ByteBits > 0 /\ KeyBytes \in Nat /\ i \in Nat /\ i >= 1
  BY TrieAssumption
<1>1. d \in Nat /\ r \in Nat /\ r < ByteBits /\ len = ByteBits * d + r
  BY <1>0, LengthSplits
<1> HIDE DEF d, r
<1>2. n = ByteBits * d + r - ByteBits * (i - 1) /\ n \in Int
  BY <1>0, <1>1
<1>3. ASSUME i <= d PROVE n >= ByteBits
  <2>1. PICK e \in Nat : d = i + e
    <3>1. d - i \in Nat
      BY <1>0, <1>1, <1>3
    <3> QED  BY <1>0, <1>1, <3>1
  <2>2. ByteBits * d = ByteBits * (i - 1) + ByteBits + ByteBits * e
    BY <1>0, <2>1
  <2>3. ByteBits * e \in Nat /\ ByteBits * (i - 1) \in Nat
    BY <1>0, <2>1
  <2> HIDE DEF n
  <2> QED  BY <1>0, <1>1, <1>2, <2>2, <2>3
<1>4. ASSUME i = d + 1 PROVE n = r
  BY <1>0, <1>1, <1>2, <1>4
<1>5. ASSUME i > d + 1 PROVE n <= 0
  <2>1. PICK e \in Nat : i - 1 = d + 1 + e
    <3>1. i - d - 2 \in Nat
      BY <1>0, <1>1, <1>5
    <3> QED  BY <1>0, <1>1, <3>1
  <2>2. ByteBits * (i - 1) = ByteBits * d + ByteBits + ByteBits * e
    BY <1>0, <1>1, <2>1
  <2>3. ByteBits * e \in Nat /\ ByteBits * d \in Nat
    BY <1>0, <1>1, <2>1
  <2> HIDE DEF n
  <2> QED  BY <1>0, <1>1, <1>2, <2>2, <2>3
<1> QED  BY <1>2, <1>3, <1>4, <1>5 DEF d, r

\* The first n elements of a sequence.
LEMMA UptoIs ==
  ASSUME NEW T, NEW s \in Seq(T), NEW n \in 0 .. Len(s)
  PROVE  /\ SubSeq(s, 1, n) \in Seq(T) /\ Len(SubSeq(s, 1, n)) = n
         /\ \A i \in 1 .. n : SubSeq(s, 1, n)[i] = s[i]
OBVIOUS

\* Sequences with the same elements are the same.
LEMMA SameSeq ==
  ASSUME NEW T, NEW s \in Seq(T), NEW t \in Seq(T), Len(s) = Len(t),
         \A i \in 1 .. Len(s) : s[i] = t[i]
  PROVE  s = t
OBVIOUS

\* A key is a sequence of bytes.
LEMMA KeyIsSeq ==
  ASSUME NEW key \in LpmKey
  PROVE  key \in Seq(Byte) /\ Len(key) = KeyBytes /\ \A i \in 1 .. KeyBytes : key[i] \in Byte
<1>1. KeyBytes \in Nat
  BY TrieAssumption
<1> QED  BY <1>1 DEF LpmKey

\* A byte is a number that has no more bits than a byte.
LEMMA ByteIs ==
  ASSUME NEW b \in Byte
  PROVE  b \in Nat /\ b < Pow2[ByteBits] /\ HighBits(b, 0) = 0
<1>0. ByteBits \in Nat /\ ByteBits \in 0 .. ByteBits
  BY TrieAssumption
<1>1. Pow2[ByteBits] \in Nat /\ Pow2[ByteBits] > 0
  BY <1>0, PowersArePositive
<1>2. b \in Nat /\ b < Pow2[ByteBits]
  BY <1>1 DEF Byte
<1>3. PICK m \in Nat : m = Pow2[ByteBits]
  BY <1>1
<1>4. b \div m = 0
  <2>1. b \div m \in Nat /\ b % m \in Nat /\ b = m * (b \div m) + (b % m) /\ m > 0 /\ b < m
    BY <1>1, <1>2, <1>3, DivisionHasRest
  <2>2. PICK q \in Nat : q = b \div m
    BY <2>1
  <2>3. ~(q >= 1)
    <3> SUFFICES ASSUME q >= 1 PROVE FALSE  OBVIOUS
    <3>1. m * q >= m
      BY <2>1
    <3>2. b = m * q + (b % m)
      BY <2>1, <2>2
    <3>3. m * q \in Nat /\ b % m \in Nat /\ b < m
      BY <2>1
    <3> QED  BY <3>1, <3>2, <3>3
  <2> QED  BY <2>2, <2>3
<1>5. ByteBits - 0 = ByteBits
  BY <1>0
<1> QED  BY <1>2, <1>3, <1>4, <1>5 DEF HighBits

\* A prefix and the node it lives in.
LEMMA PrefixIs ==
  ASSUME NEW p \in KeyPrefix
  PROVE  /\ p.bytes \in LpmKey /\ p.len \in 0 .. ByteBits * KeyBytes
         /\ p = [bytes |-> p.bytes, len |-> p.len]
         /\ \A i \in 1 .. KeyBytes :
              LET n == p.len - ByteBits * (i - 1)
              IN  /\ n =< 0 => p.bytes[i] = 0
                  /\ n \in 1 .. ByteBits => p.bytes[i] % Pow2[ByteBits - n] = 0
BY DEF KeyPrefix

\* The node of a prefix.
LEMMA PathIs ==
  ASSUME NEW p \in KeyPrefix
  PROVE  /\ p.len \div ByteBits \in 0 .. KeyBytes
         /\ PathOf(p) \in Seq(Byte) /\ Len(PathOf(p)) = p.len \div ByteBits
         /\ \A i \in 1 .. p.len \div ByteBits : PathOf(p)[i] = p.bytes[i]
<1>1. p.bytes \in Seq(Byte) /\ Len(p.bytes) = KeyBytes
  BY PrefixIs, KeyIsSeq
<1>2. p.len \div ByteBits \in 0 .. KeyBytes
  BY PrefixIs, LengthSplits
<1>3. PICK d : d = p.len \div ByteBits
  OBVIOUS
<1>4. d \in 0 .. Len(p.bytes)
  BY <1>1, <1>2, <1>3
<1>5. /\ SubSeq(p.bytes, 1, d) \in Seq(Byte) /\ Len(SubSeq(p.bytes, 1, d)) = d
      /\ \A i \in 1 .. d : SubSeq(p.bytes, 1, d)[i] = p.bytes[i]
  BY <1>1, <1>4, UptoIs
<1> QED  BY <1>2, <1>3, <1>5 DEF PathOf

\* The length of what remains of a prefix, and its bits.
LEMMA RestIs ==
  ASSUME NEW p \in KeyPrefix
  PROVE  /\ RestLen(p) \in 0 .. ByteBits - 1 /\ RestKey(p) \in Nat
         /\ p.len = ByteBits * Len(PathOf(p)) + RestLen(p)
         /\ Len(PathOf(p)) = KeyBytes => RestLen(p) = 0 /\ RestKey(p) = 0
<1>0. ByteBits \in Nat
  BY TrieAssumption
<1>1. /\ p.len \div ByteBits \in 0 .. KeyBytes /\ p.len % ByteBits \in 0 .. ByteBits - 1
      /\ p.len = ByteBits * (p.len \div ByteBits) + (p.len % ByteBits)
      /\ p.len \div ByteBits = KeyBytes => p.len % ByteBits = 0
  BY PrefixIs, LengthSplits
<1>2. Len(PathOf(p)) = p.len \div ByteBits
  BY PathIs
<1>3. RestKey(p) \in Nat
  <2>1. CASE RestLen(p) = 0
    BY <2>1 DEF RestKey
  <2>2. CASE RestLen(p) # 0
    <3>1. p.len \div ByteBits # KeyBytes
      BY <1>1, <2>2 DEF RestLen
    <3>2. p.len \div ByteBits + 1 \in 1 .. KeyBytes
      <4>1. KeyBytes \in Nat
        BY TrieAssumption
      <4> QED  BY <1>1, <3>1, <4>1
    <3>3. p.bytes[p.len \div ByteBits + 1] \in Nat
      BY <3>2, PrefixIs, KeyIsSeq, ByteIs
    <3>4. RestLen(p) \in 0 .. ByteBits - 1
      BY <1>1 DEF RestLen
    <3>5. ByteBits - RestLen(p) \in 0 .. ByteBits
      BY <1>0, <3>4
    <3>6. Pow2[ByteBits - RestLen(p)] \in Nat /\ Pow2[ByteBits - RestLen(p)] > 0
      BY <3>5, PowersArePositive
    <3>7. HighBits(p.bytes[p.len \div ByteBits + 1], RestLen(p)) \in Nat
      BY <3>3, <3>6, DivisionHasRest DEF HighBits
    <3> QED  BY <2>2, <3>7 DEF RestKey
  <2> QED  BY <2>1, <2>2
<1> QED  BY <1>1, <1>2, <1>3 DEF RestLen, RestKey

\* A prefix is told from the others by its node and what remains.
LEMMA PrefixTold ==
  ASSUME NEW p \in KeyPrefix, NEW q \in KeyPrefix, PathOf(p) = PathOf(q),
         RestLen(p) = RestLen(q), RestKey(p) = RestKey(q)
  PROVE  p = q
<1>0. ByteBits \in Nat /\ KeyBytes \in Nat
  BY TrieAssumption
<1>1. p.len = q.len
  BY RestIs
<1>2. PICK d : d = p.len \div ByteBits
  OBVIOUS
<1>3. PICK r : r = RestLen(p)
  OBVIOUS
<1>4. d \in 0 .. KeyBytes /\ r \in 0 .. ByteBits - 1 /\ r = p.len % ByteBits
  BY <1>2, <1>3, PathIs, RestIs DEF RestLen
<1>5. p.bytes \in LpmKey /\ q.bytes \in LpmKey
  BY PrefixIs
<1>6. ASSUME NEW i \in 1 .. KeyBytes PROVE p.bytes[i] = q.bytes[i]
  <2> DEFINE n == p.len - ByteBits * (i - 1)
  <2>1. /\ i <= d => n >= ByteBits
        /\ i = d + 1 => n = r
        /\ i > d + 1 => n <= 0
        /\ n \in Int
    BY <1>2, <1>4, BitsOfByte, PrefixIs
  <2>2. /\ n =< 0 => p.bytes[i] = 0 /\ q.bytes[i] = 0
        /\ n \in 1 .. ByteBits => p.bytes[i] % Pow2[ByteBits - n] = 0 /\ q.bytes[i] % Pow2[ByteBits - n] = 0
    BY <1>1, PrefixIs
  <2> HIDE DEF n
  <2>3. CASE i <= d
    <3>1. i \in 1 .. d
      BY <1>4, <2>3
    <3> QED  BY <1>1, <1>2, <3>1, PathIs
  <2>4. CASE i = d + 1 /\ r = 0
    BY <2>1, <2>2, <2>4
  <2>5. CASE i = d + 1 /\ r # 0
    <3>1. n = r /\ n \in 1 .. ByteBits /\ ByteBits - n \in 0 .. ByteBits
      BY <1>0, <1>4, <2>1, <2>5
    <3>2. HighBits(p.bytes[i], r) = HighBits(q.bytes[i], r)
      BY <1>1, <1>2, <1>3, <2>5 DEF RestKey
    <3>3. PICK m \in Nat : m = Pow2[ByteBits - n] /\ m > 0
      BY <3>1, PowersArePositive
    <3>4. p.bytes[i] \div m = q.bytes[i] \div m
      BY <3>1, <3>2, <3>3 DEF HighBits
    <3>5. p.bytes[i] \in Nat /\ q.bytes[i] \in Nat
      BY <1>5, KeyIsSeq, ByteIs
    <3>6. p.bytes[i] % m = 0 /\ q.bytes[i] % m = 0
      BY <2>2, <3>1, <3>3
    <3> QED  BY <3>3, <3>4, <3>5, <3>6, SameHighBits
  <2>6. CASE i > d + 1
    BY <2>1, <2>2, <2>6
  <2>7. i \in Int /\ d \in Int
    BY <1>4
  <2> QED  BY <2>3, <2>4, <2>5, <2>6, <2>7
<1>7. p.bytes = q.bytes
  BY <1>5, <1>6, KeyIsSeq, SameSeq
<1> QED  BY <1>1, <1>7, PrefixIs

\* A prefix covers a key if its node is on the way of the key and the bits that
\* remain agree.
LEMMA CoversIs ==
  ASSUME NEW p \in KeyPrefix, NEW key \in LpmKey
  PROVE  LET d == Len(PathOf(p))
         IN  Covers(p, key) <=> /\ PathOf(p) = SubSeq(key, 1, d)
                                /\ d < KeyBytes => HighBits(key[d + 1], RestLen(p)) = RestKey(p)
<1>0. ByteBits \in Nat /\ KeyBytes \in Nat
  BY TrieAssumption
<1>1. PICK d : d = p.len \div ByteBits
  OBVIOUS
<1>2. PICK r : r = RestLen(p)
  OBVIOUS
<1>3. /\ d \in 0 .. KeyBytes /\ r \in 0 .. ByteBits - 1 /\ r = p.len % ByteBits
      /\ Len(PathOf(p)) = d /\ PathOf(p) \in Seq(Byte) /\ \A i \in 1 .. d : PathOf(p)[i] = p.bytes[i]
      /\ d = KeyBytes => r = 0
  BY <1>1, <1>2, PathIs, RestIs DEF RestLen
<1>4. /\ key \in Seq(Byte) /\ Len(key) = KeyBytes
      /\ \A i \in 1 .. KeyBytes : key[i] \in Byte /\ HighBits(key[i], 0) = 0
  BY KeyIsSeq, ByteIs
<1>5. /\ SubSeq(key, 1, d) \in Seq(Byte) /\ Len(SubSeq(key, 1, d)) = d
      /\ \A i \in 1 .. d : SubSeq(key, 1, d)[i] = key[i]
  BY <1>3, <1>4, UptoIs
<1>6. ASSUME NEW i \in 1 .. KeyBytes
      PROVE  LET n == p.len - ByteBits * (i - 1)
             IN  /\ i <= d => n >= ByteBits
                 /\ i = d + 1 => n = r
                 /\ i > d + 1 => n <= 0
                 /\ n \in Int
  BY <1>1, <1>3, BitsOfByte, PrefixIs
<1>7. (\A i \in 1 .. d : p.bytes[i] = key[i]) <=> PathOf(p) = SubSeq(key, 1, d)
  BY <1>3, <1>5, SameSeq
<1>8. ASSUME d < KeyBytes
      PROVE  (r \in 1 .. ByteBits - 1 => HighBits(p.bytes[d + 1], r) = HighBits(key[d + 1], r))
              <=> HighBits(key[d + 1], r) = RestKey(p)
  <2>1. CASE r = 0
    <3>1. RestKey(p) = 0
      BY <1>2, <2>1 DEF RestKey
    <3>2. d + 1 \in 1 .. KeyBytes
      BY <1>0, <1>3, <1>8
    <3> QED  BY <1>4, <2>1, <3>1, <3>2
  <2>2. CASE r # 0
    <3>1. r \in 1 .. ByteBits - 1
      BY <1>0, <1>3, <2>2
    <3>2. RestKey(p) = HighBits(p.bytes[d + 1], r)
      BY <1>1, <1>2, <2>2 DEF RestKey
    <3> QED  BY <3>1, <3>2
  <2> QED  BY <2>1, <2>2
<1>9. ASSUME Covers(p, key)
      PROVE  /\ \A i \in 1 .. d : p.bytes[i] = key[i]
             /\ d < KeyBytes => (r \in 1 .. ByteBits - 1 => HighBits(p.bytes[d + 1], r) = HighBits(key[d + 1], r))
  <2>1. ASSUME NEW i \in 1 .. d PROVE p.bytes[i] = key[i]
    <3>1. i \in 1 .. KeyBytes /\ i <= d
      BY <1>0, <1>3
    <3>2. p.len - ByteBits * (i - 1) >= ByteBits
      BY <1>6, <3>1
    <3> QED  BY <1>9, <3>1, <3>2 DEF Covers
  <2>2. ASSUME d < KeyBytes, r \in 1 .. ByteBits - 1
        PROVE  HighBits(p.bytes[d + 1], r) = HighBits(key[d + 1], r)
    <3>1. d + 1 \in 1 .. KeyBytes
      BY <1>0, <1>3, <2>2
    <3>2. p.len - ByteBits * ((d + 1) - 1) = r
      BY <1>6, <3>1
    <3>3. PICK i \in 1 .. KeyBytes : i = d + 1
      BY <3>1
    <3>4. p.len - ByteBits * (i - 1) \in 1 .. ByteBits - 1 /\ p.len - ByteBits * (i - 1) = r
      BY <2>2, <3>2, <3>3
    <3>5. HighBits(p.bytes[i], p.len - ByteBits * (i - 1)) = HighBits(key[i], p.len - ByteBits * (i - 1))
      BY <1>9, <3>4 DEF Covers
    <3> QED  BY <3>3, <3>4, <3>5
  <2> QED  BY <2>1, <2>2
<1>10. ASSUME \A i \in 1 .. d : p.bytes[i] = key[i],
              d < KeyBytes => (r \in 1 .. ByteBits - 1 => HighBits(p.bytes[d + 1], r) = HighBits(key[d + 1], r))
       PROVE  Covers(p, key)
  <2> SUFFICES ASSUME NEW i \in 1 .. KeyBytes
               PROVE  LET n == p.len - ByteBits * (i - 1) IN
                      /\ n >= ByteBits => p.bytes[i] = key[i]
                      /\ n \in 1 .. ByteBits - 1 => HighBits(p.bytes[i], n) = HighBits(key[i], n)
    BY DEF Covers
  <2> DEFINE n == p.len - ByteBits * (i - 1)
  <2>1. /\ i <= d => n >= ByteBits
        /\ i = d + 1 => n = r
        /\ i > d + 1 => n <= 0
        /\ n \in Int
    BY <1>6
  <2> HIDE DEF n
  <2>2. i \in Int /\ d \in Int /\ r < ByteBits /\ r \in Int /\ ByteBits > 0
    BY <1>0, <1>3
  <2>3. CASE i <= d
    <3>1. i \in 1 .. d /\ ~(n \in 1 .. ByteBits - 1)
      BY <1>0, <1>3, <2>1, <2>3
    <3>2. p.bytes[i] = key[i]
      BY <1>10, <3>1
    <3> QED  BY <3>1, <3>2 DEF n
  <2>4. CASE i = d + 1
    <3>1. n = r /\ ~(n >= ByteBits) /\ d < KeyBytes
      BY <1>0, <1>3, <2>1, <2>2, <2>4
    <3>2. n \in 1 .. ByteBits - 1 => HighBits(p.bytes[i], n) = HighBits(key[i], n)
      BY <1>10, <2>4, <3>1
    <3> QED  BY <3>1, <3>2 DEF n
  <2>5. CASE i > d + 1
    <3>1. n <= 0 /\ ~(n >= ByteBits) /\ ~(n \in 1 .. ByteBits - 1)
      BY <1>0, <2>1, <2>2, <2>5
    <3> QED  BY <3>1 DEF n
  <2> QED  BY <2>2, <2>3, <2>4, <2>5
<1> QED  BY <1>2, <1>3, <1>7, <1>8, <1>9, <1>10

\* The smallest and the largest of a set of numbers.
LEMMA MinIs ==
  ASSUME NEW S, S \subseteq Nat, S # {}
  PROVE  Min(S) \in S /\ \A y \in S : Min(S) =< y
<1>1. \E x \in S : \A y \in S : x =< y
  BY LeastNatural
<1> QED  BY <1>1 DEF Min

\* A bounded set of numbers has a largest one.
LEMMA MaxIs ==
  ASSUME NEW N \in Nat, NEW S, S \subseteq 0 .. N, S # {}
  PROVE  Max(S) \in S /\ \A y \in S : Max(S) >= y
<1> DEFINE U == {n \in Nat : \A y \in S : y <= n}
<1>1. N \in U
  OBVIOUS
<1>2. PICK m \in U : \A n \in U : m <= n
  <2>1. U \subseteq Nat /\ U # {}
    BY <1>1
  <2> HIDE DEF U
  <2> QED  BY <2>1, LeastNatural
<1>3. m \in S
  <2> SUFFICES ASSUME m \notin S PROVE FALSE  OBVIOUS
  <2>1. \A y \in S : y \in Nat /\ y <= m /\ y # m
    BY <1>2
  <2>2. m \in Nat /\ m # 0
    <3>1. PICK z \in S : TRUE
      OBVIOUS
    <3>2. z \in Nat /\ z <= m /\ z # m /\ m \in Nat
      BY <1>2, <2>1
    <3> QED  BY <3>2
  <2>3. m - 1 \in U
    BY <2>1, <2>2
  <2> QED  BY <1>2, <2>2, <2>3
<1>4. \E x \in S : \A y \in S : x >= y
  <2>1. \A y \in S : m >= y
    BY <1>2
  <2> QED  BY <1>3, <2>1
<1> QED  BY <1>4 DEF Max

\* A set of places without gaps.
LEMMA SegmentIs ==
  ASSUME NEW m \in Nat, NEW A, A \subseteq 1 .. m, \A i \in A : \A j \in 1 .. i : j \in A
  PROVE  Cardinality(A) \in 0 .. m /\ A = 1 .. Cardinality(A)
<1>1. PICK k \in 0 .. m : A = 1 .. k
  <2>1. CASE A = {}
    <3>1. 0 \in 0 .. m /\ A = 1 .. 0
      BY <2>1
    <3> QED  BY <3>1
  <2>2. CASE A # {}
    <3>1. A \subseteq 0 .. m
      OBVIOUS
    <3>2. Max(A) \in A /\ \A y \in A : Max(A) >= y
      BY <2>2, <3>1, MaxIs
    <3>3. PICK k : k = Max(A)
      OBVIOUS
    <3>4. k \in 1 .. m /\ k \in A
      BY <3>2, <3>3
    <3>5. \A j \in 1 .. k : j \in A
      BY <3>4
    <3>6. \A j \in A : j \in 1 .. k
      BY <3>2, <3>3, <3>4
    <3>7. A = 1 .. k
      BY <3>5, <3>6
    <3>8. k \in 0 .. m
      BY <3>4
    <3> QED  BY <3>7, <3>8
  <2> QED  BY <2>1, <2>2
<1>2. Cardinality(1 .. k) = k
  <2>1. k \in Int /\ 1 \in Int
    OBVIOUS
  <2>2. Cardinality(1 .. k) = IF 1 > k THEN 0 ELSE k - 1 + 1
    BY <2>1, FS_Interval
  <2> QED  BY <2>2
<1> QED  BY <1>1, <1>2

\* w is v with e after the k-th element.
Widened(T, v, k, e, w) ==
  /\ w \in Seq(T) /\ Len(w) = Len(v) + 1
  /\ \A i \in 1 .. k : w[i] = v[i]
  /\ w[k + 1] = e
  /\ \A i \in k + 1 .. Len(v) : w[i + 1] = v[i]

\* What insertion into and removal from a sequence are.
LEMMA InsertAtIs ==
  ASSUME NEW T, NEW v \in Seq(T), NEW e \in T, NEW k \in 0 .. Len(v)
  PROVE  Widened(T, v, k, e, InsertAt(v, k + 1, e))
<1> DEFINE a == SubSeq(v, 1, (k + 1) - 1)
           b == SubSeq(v, k + 1, Len(v))
<1>1. a \in Seq(T) /\ Len(a) = k /\ \A i \in 1 .. k : a[i] = v[i]
  OBVIOUS
<1>2. b \in Seq(T) /\ Len(b) = Len(v) - k /\ \A i \in 1 .. Len(v) - k : b[i] = v[i + k]
  OBVIOUS
<1> HIDE DEF a, b
<1>3. PICK c : c = a \o <<e>>
  OBVIOUS
<1>4. c \in Seq(T) /\ Len(c) = k + 1 /\ (\A i \in 1 .. k : c[i] = v[i]) /\ c[k + 1] = e
  BY <1>1, <1>3
<1>5. PICK w : w = c \o b
  OBVIOUS
<1>6. /\ w \in Seq(T) /\ Len(w) = Len(v) + 1 /\ (\A i \in 1 .. k + 1 : w[i] = c[i])
      /\ \A i \in 1 .. Len(v) - k : w[k + 1 + i] = b[i]
  <2>1. /\ c \o b \in Seq(T) /\ Len(c \o b) = Len(c) + Len(b)
        /\ \A i \in 1 .. Len(c) : (c \o b)[i] = c[i]
        /\ \A i \in 1 .. Len(b) : (c \o b)[Len(c) + i] = b[i]
    <3>1. c \in Seq(T) /\ b \in Seq(T)
      BY <1>2, <1>4
    <3> QED  BY ONLY <3>1, ConcatIs
  <2>2. k + 1 + (Len(v) - k) = Len(v) + 1
    OBVIOUS
  <2> QED  BY <1>2, <1>4, <1>5, <2>1, <2>2
<1>7. \A i \in k + 1 .. Len(v) : i - k \in 1 .. Len(v) - k /\ k + 1 + (i - k) = i + 1 /\ (i - k) + k = i
  OBVIOUS
<1>8. ASSUME NEW i \in k + 1 .. Len(v) PROVE w[i + 1] = v[i]
  <2>1. PICK j \in 1 .. Len(v) - k : k + 1 + j = i + 1 /\ j + k = i
    BY <1>7
  <2>2. w[k + 1 + j] = b[j] /\ b[j] = v[j + k]
    BY <1>2, <1>6
  <2> QED  BY <2>1, <2>2
<1>9. w = InsertAt(v, k + 1, e)
  BY <1>3, <1>5 DEF InsertAt, a, b
<1>10. k + 1 \in 1 .. k + 1 /\ \A i \in 1 .. k : i \in 1 .. k + 1
  OBVIOUS
<1> QED  BY <1>4, <1>6, <1>8, <1>9, <1>10 DEF Widened

\* The others close up.
LEMMA RemoveAtIs ==
  ASSUME NEW T, NEW v \in Seq(T), NEW k \in 1 .. Len(v)
  PROVE  LET w == RemoveAt(v, k)
         IN  /\ w \in Seq(T) /\ Len(w) = Len(v) - 1
             /\ \A i \in 1 .. k - 1 : w[i] = v[i]
             /\ \A i \in k .. Len(v) - 1 : w[i] = v[i + 1]
<1> DEFINE a == SubSeq(v, 1, k - 1)
           b == SubSeq(v, k + 1, Len(v))
<1>1. a \in Seq(T) /\ Len(a) = k - 1 /\ \A i \in 1 .. k - 1 : a[i] = v[i]
  OBVIOUS
<1>2. b \in Seq(T) /\ Len(b) = Len(v) - k /\ \A i \in 1 .. Len(v) - k : b[i] = v[i + k]
  OBVIOUS
<1> HIDE DEF a, b
<1>3. PICK w : w = a \o b
  OBVIOUS
<1>4. /\ w \in Seq(T) /\ Len(w) = Len(v) - 1 /\ (\A i \in 1 .. k - 1 : w[i] = v[i])
      /\ \A i \in 1 .. Len(v) - k : w[(k - 1) + i] = b[i]
  <2>1. /\ a \o b \in Seq(T) /\ Len(a \o b) = Len(a) + Len(b)
        /\ \A i \in 1 .. Len(a) : (a \o b)[i] = a[i]
        /\ \A i \in 1 .. Len(b) : (a \o b)[Len(a) + i] = b[i]
    <3>1. a \in Seq(T) /\ b \in Seq(T)
      BY <1>1, <1>2
    <3> QED  BY ONLY <3>1, ConcatIs
  <2>2. (k - 1) + (Len(v) - k) = Len(v) - 1
    OBVIOUS
  <2> QED  BY <1>1, <1>2, <1>3, <2>1, <2>2
<1>5. \A i \in k .. Len(v) - 1 : i - k + 1 \in 1 .. Len(v) - k /\ (k - 1) + (i - k + 1) = i /\ (i - k + 1) + k = i + 1
  OBVIOUS
<1>6. ASSUME NEW i \in k .. Len(v) - 1 PROVE w[i] = v[i + 1]
  <2>1. PICK j \in 1 .. Len(v) - k : (k - 1) + j = i /\ j + k = i + 1
    BY <1>5
  <2>2. w[(k - 1) + j] = b[j] /\ b[j] = v[j + k]
    BY <1>2, <1>4
  <2> QED  BY <2>1, <2>2
<1>7. w = RemoveAt(v, k)
  BY <1>3 DEF RemoveAt, a, b
<1> QED  BY <1>4, <1>6, <1>7

-----------------------------------------------------------------------------
(* The vector of a node. *)

\* Prefixes that live in node n.
AtNode(S, n) == S \subseteq KeyPrefix /\ \A p \in S : PathOf(p) = n

\* Two entries of a node are ordered one way or the other.
LEMMA EntriesAreOrdered ==
  ASSUME NEW p \in KeyPrefix, NEW q \in KeyPrefix, PathOf(p) = PathOf(q)
  PROVE  /\ p # q => PrefixBefore(PrefixEntry(p), PrefixEntry(q)) \/ PrefixBefore(PrefixEntry(q), PrefixEntry(p))
         /\ ~(PrefixBefore(PrefixEntry(p), PrefixEntry(q)) /\ PrefixBefore(PrefixEntry(q), PrefixEntry(p)))
         /\ PrefixEntry(p).len = PrefixEntry(q).len /\ PrefixEntry(p).key = PrefixEntry(q).key => p = q
<1>1. /\ PrefixEntry(p).len = RestLen(p) /\ PrefixEntry(p).key = RestKey(p)
      /\ PrefixEntry(q).len = RestLen(q) /\ PrefixEntry(q).key = RestKey(q)
  BY DEF PrefixEntry
<1>2. RestLen(p) \in Int /\ RestLen(q) \in Int /\ RestKey(p) \in Int /\ RestKey(q) \in Int
  BY RestIs
<1>3. p # q => RestLen(p) # RestLen(q) \/ RestKey(p) # RestKey(q)
  BY PrefixTold
<1> QED  BY <1>1, <1>2, <1>3 DEF PrefixBefore

\* The order of a vector is transitive.
LEMMA OrderIsTransitive ==
  ASSUME NEW p \in KeyPrefix, NEW q \in KeyPrefix, NEW r \in KeyPrefix,
         PrefixBefore(PrefixEntry(p), PrefixEntry(q)), PrefixBefore(PrefixEntry(q), PrefixEntry(r))
  PROVE  PrefixBefore(PrefixEntry(p), PrefixEntry(r))
<1>1. /\ PrefixEntry(p).len = RestLen(p) /\ PrefixEntry(p).key = RestKey(p)
      /\ PrefixEntry(q).len = RestLen(q) /\ PrefixEntry(q).key = RestKey(q)
      /\ PrefixEntry(r).len = RestLen(r) /\ PrefixEntry(r).key = RestKey(r)
  BY DEF PrefixEntry
<1>2. /\ RestLen(p) \in Int /\ RestLen(q) \in Int /\ RestLen(r) \in Int
      /\ RestKey(p) \in Int /\ RestKey(q) \in Int /\ RestKey(r) \in Int
  BY RestIs
<1> QED  BY <1>1, <1>2 DEF PrefixBefore

\* Every place of a vector has the entry of a prefix of the node.
LEMMA PlaceHasPrefix ==
  ASSUME NEW S, NEW v, VectorOf(v, S), NEW i \in 1 .. Len(v)
  PROVE  \E p \in S : v[i] = PrefixEntry(p)
<1>1. v[i] \in {PrefixEntry(p) : p \in S}
  BY DEF VectorOf
<1> QED  BY <1>1

\* A prefix has one place.
LEMMA OnePlace ==
  ASSUME NEW S, NEW n, AtNode(S, n), NEW v, VectorOf(v, S), NEW p \in S,
         NEW i \in 1 .. Len(v), NEW j \in 1 .. Len(v), v[i] = PrefixEntry(p), v[j] = PrefixEntry(p)
  PROVE  i = j
<1>1. p \in KeyPrefix /\ ~PrefixBefore(PrefixEntry(p), PrefixEntry(p))
  BY EntriesAreOrdered DEF AtNode
<1>2. i \in Int /\ j \in Int /\ (i < j => PrefixBefore(v[i], v[j])) /\ (j < i => PrefixBefore(v[j], v[i]))
  BY DEF VectorOf
<1> QED  BY <1>1, <1>2

\* get_prefix finds the entry of a prefix if it is there.
LEMMA GetPrefixIs ==
  ASSUME NEW S, NEW n, AtNode(S, n), NEW v, VectorOf(v, S), NEW p \in KeyPrefix, PathOf(p) = n,
         NEW node, node.prefixes = v
  PROVE  LET i == GetPrefix(node, RestLen(p), RestKey(p))
         IN  /\ p \in S => i \in 1 .. Len(v) /\ v[i] = PrefixEntry(p)
             /\ p \notin S => i = 0
<1> DEFINE I == {i \in 1 .. Len(v) : v[i].len = RestLen(p) /\ v[i].key = RestKey(p)}
<1>1. GetPrefix(node, RestLen(p), RestKey(p)) = IF I # {} THEN Min(I) ELSE 0
  BY DEF GetPrefix, SelectInSeq
<1>2. ASSUME NEW i \in I PROVE p \in S /\ v[i] = PrefixEntry(p)
  <2>1. PICK q \in S : v[i] = PrefixEntry(q)
    BY PlaceHasPrefix
  <2>2. RestLen(q) = RestLen(p) /\ RestKey(q) = RestKey(p)
    BY <2>1 DEF PrefixEntry
  <2>3. q \in KeyPrefix /\ PathOf(q) = PathOf(p)
    BY DEF AtNode
  <2>4. q = p
    BY <2>2, <2>3, PrefixTold
  <2> QED  BY <2>1, <2>4
<1>3. ASSUME p \in S PROVE I # {}
  <2>1. PICK i \in 1 .. Len(v) : v[i] = PrefixEntry(p)
    BY <1>3 DEF VectorOf
  <2>2. i \in I
    BY <2>1 DEF PrefixEntry
  <2> QED  BY <2>2
<1>4. I \subseteq Nat /\ I \subseteq 1 .. Len(v)
  <2>1. Len(v) \in Nat
    BY DEF VectorOf
  <2> QED  BY <2>1
<1> HIDE DEF I
<1>5. I # {} => Min(I) \in I
  BY <1>4, MinIs
<1> QED  BY <1>1, <1>2, <1>3, <1>4, <1>5

\* delete_prefix: the others stay, in order.
LEMMA RemovedFromVector ==
  ASSUME NEW S, NEW n, AtNode(S, n), NEW v, VectorOf(v, S), NEW p \in S,
         NEW k \in 1 .. Len(v), v[k] = PrefixEntry(p)
  PROVE  VectorOf(RemoveAt(v, k), S \ {p})
<1> DEFINE w == RemoveAt(v, k)
           T == {PrefixEntry(q) : q \in S}
           back(i) == IF i < k THEN i ELSE i + 1
<1>1. v \in Seq(T) /\ \A i, j \in 1 .. Len(v) : i < j => PrefixBefore(v[i], v[j])
  BY DEF VectorOf
<1>2. /\ w \in Seq(T) /\ Len(w) = Len(v) - 1
      /\ \A i \in 1 .. k - 1 : w[i] = v[i]
      /\ \A i \in k .. Len(v) - 1 : w[i] = v[i + 1]
  <2> HIDE DEF T
  <2> QED  BY <1>1, RemoveAtIs
<1>3. Len(v) \in Nat /\ k \in Nat /\ k <= Len(v)
  BY <1>1
<1> HIDE DEF w, T
<1>4. ASSUME NEW i \in 1 .. Len(w)
      PROVE  back(i) \in 1 .. Len(v) /\ back(i) # k /\ w[i] = v[back(i)]
  <2>1. CASE i < k
    <3>1. i \in 1 .. k - 1 /\ i \in 1 .. Len(v)
      BY <1>2, <1>3, <2>1
    <3> QED  BY <1>2, <1>3, <2>1, <3>1
  <2>2. CASE ~(i < k)
    <3>1. i \in k .. Len(v) - 1 /\ i + 1 \in 1 .. Len(v) /\ i + 1 # k
      BY <1>2, <1>3, <2>2
    <3> QED  BY <1>2, <2>2, <3>1
  <2> QED  BY <2>1, <2>2
<1>5. ASSUME NEW i \in 1 .. Len(w) PROVE w[i] \in {PrefixEntry(q) : q \in S \ {p}}
  <2>1. PICK j \in 1 .. Len(v) : j # k /\ w[i] = v[j]
    BY <1>4
  <2>2. PICK q \in S : v[j] = PrefixEntry(q)
    BY PlaceHasPrefix
  <2>3. q # p
    BY <2>1, <2>2, OnePlace
  <2> QED  BY <2>1, <2>2, <2>3
<1>6. w \in Seq({PrefixEntry(q) : q \in S \ {p}})
  <2>1. PICK U : U = {PrefixEntry(q) : q \in S \ {p}}
    OBVIOUS
  <2>2. \A i \in 1 .. Len(w) : w[i] \in U
    BY <1>5, <2>1
  <2>3. w \in Seq(U)
    BY <1>2, <2>2
  <2> QED  BY <2>1, <2>3
<1>7. ASSUME NEW q \in S \ {p} PROVE \E i \in 1 .. Len(w) : w[i] = PrefixEntry(q)
  <2>1. PICK j \in 1 .. Len(v) : v[j] = PrefixEntry(q)
    BY DEF VectorOf
  <2>2. j # k
    <3>1. PrefixEntry(q).value = q /\ PrefixEntry(p).value = p
      BY DEF PrefixEntry
    <3> QED  BY <2>1, <3>1
  <2>3. CASE j < k
    <3>1. j \in 1 .. k - 1 /\ j \in 1 .. Len(w)
      BY <1>2, <1>3, <2>3
    <3> QED  BY <1>2, <2>1, <3>1
  <2>4. CASE j > k
    <3>1. PICK i : i = j - 1
      OBVIOUS
    <3>2. i \in k .. Len(v) - 1 /\ i \in 1 .. Len(w) /\ i + 1 = j
      BY <1>2, <1>3, <2>4, <3>1
    <3> QED  BY <1>2, <2>1, <3>2
  <2> QED  BY <1>3, <2>2, <2>3, <2>4
<1>8. ASSUME NEW i \in 1 .. Len(w), NEW j \in 1 .. Len(w), i < j PROVE PrefixBefore(w[i], w[j])
  <2>1. back(i) \in 1 .. Len(v) /\ back(j) \in 1 .. Len(v) /\ w[i] = v[back(i)] /\ w[j] = v[back(j)]
    BY <1>4
  <2>2. back(i) < back(j)
    BY <1>3, <1>8
  <2> QED  BY <1>1, <2>1, <2>2
<1>9. VectorOf(w, S \ {p})
  BY <1>6, <1>7, <1>8 DEF VectorOf
<1> QED  BY <1>9 DEF w

\* insert_prefix: a new prefix comes between the longer and the shorter ones.
LEMMA InsertedIntoVector ==
  ASSUME NEW S, NEW n, AtNode(S, n), NEW v, VectorOf(v, S),
         NEW p \in KeyPrefix, PathOf(p) = n, p \notin S
  PROVE  VectorOf(InsertPrefix(v, PrefixEntry(p)), S \cup {p})
<1> DEFINE e == PrefixEntry(p)
           T == {PrefixEntry(q) : q \in S \cup {p}}
           A == {i \in 1 .. Len(v) : PrefixBefore(v[i], e)}
           k == Cardinality(A)
           w == InsertAt(v, k + 1, e)
           back(i) == IF i <= k THEN i ELSE i - 1
<1>1. /\ v \in Seq({PrefixEntry(q) : q \in S}) /\ Len(v) \in Nat
      /\ \A i, j \in 1 .. Len(v) : i < j => PrefixBefore(v[i], v[j])
  BY DEF VectorOf
<1>2. v \in Seq(T) /\ e \in T
  <2>1. {PrefixEntry(q) : q \in S} \subseteq T
    OBVIOUS
  <2>2. e \in T
    OBVIOUS
  <2> HIDE DEF T, e
  <2>3. v \in Seq(T)
    BY <1>1, <2>1, SeqWidens
  <2> QED  BY <2>2, <2>3
<1>3. ASSUME NEW i \in 1 .. Len(v)
      PROVE  \E q \in S : v[i] = PrefixEntry(q) /\ q \in KeyPrefix /\ PathOf(q) = PathOf(p) /\ q # p
  <2>1. PICK q \in S : v[i] = PrefixEntry(q)
    BY PlaceHasPrefix
  <2> QED  BY <2>1 DEF AtNode
<1>4. InsertPrefix(v, e) = w
  <2> DEFINE I == {i \in 1 .. Len(v) : v[i].len = e.len /\ v[i].key = e.key}
  <2>1. I = {}
    <3> SUFFICES ASSUME NEW i \in I PROVE FALSE  OBVIOUS
    <3>1. PICK q \in S : v[i] = PrefixEntry(q) /\ q \in KeyPrefix /\ PathOf(q) = PathOf(p) /\ q # p
      BY <1>3
    <3> QED  BY <3>1, EntriesAreOrdered
  <2>2. SelectInSeq(v, LAMBDA q : q.len = e.len /\ q.key = e.key) = IF I # {} THEN Min(I) ELSE 0
    <3> HIDE DEF e
    <3> QED  BY DEF SelectInSeq
  <2>3. SelectInSeq(v, LAMBDA q : q.len = e.len /\ q.key = e.key) = 0
    BY <2>1, <2>2
  <2> HIDE DEF e, I
  <2> QED  BY <2>3 DEF InsertPrefix
<1> HIDE DEF e
<1>5. k \in 0 .. Len(v) /\ A = 1 .. k
  <2>1. ASSUME NEW i \in A, NEW j \in 1 .. i PROVE j \in A
    <3>1. i \in 1 .. Len(v) /\ j \in 1 .. Len(v) /\ PrefixBefore(v[i], e) /\ (j = i \/ j < i)
      BY <1>1
    <3>2. PICK q \in S : v[i] = PrefixEntry(q) /\ q \in KeyPrefix
      BY <1>3, <3>1
    <3>3. PICK r \in S : v[j] = PrefixEntry(r) /\ r \in KeyPrefix
      BY <1>3, <3>1
    <3>4. CASE j < i
      <4>1. PrefixBefore(v[j], v[i])
        BY <1>1, <3>1, <3>4
      <4>2. PrefixBefore(v[j], e)
        BY <3>1, <3>2, <3>3, <4>1, OrderIsTransitive DEF e
      <4> QED  BY <3>1, <4>2
    <3> QED  BY <3>1, <3>4
  <2>2. A \subseteq 1 .. Len(v)
    OBVIOUS
  <2> HIDE DEF A
  <2> QED  BY <1>1, <2>1, <2>2, SegmentIs
<1>6. /\ w \in Seq(T) /\ Len(w) = Len(v) + 1
      /\ \A i \in 1 .. k : w[i] = v[i]
      /\ w[k + 1] = e
      /\ \A i \in k + 1 .. Len(v) : w[i + 1] = v[i]
  <2> HIDE DEF T, k, w
  <2>1. Widened(T, v, k, e, InsertAt(v, k + 1, e))
    BY <1>2, <1>5, InsertAtIs
  <2> QED  BY <2>1 DEF w, Widened
<1> HIDE DEF T, k, w
<1>7. \A i \in 1 .. Len(v) : IF i <= k THEN PrefixBefore(v[i], e) ELSE PrefixBefore(e, v[i])
  <2> SUFFICES ASSUME NEW i \in 1 .. Len(v)
               PROVE  IF i <= k THEN PrefixBefore(v[i], e) ELSE PrefixBefore(e, v[i])
    OBVIOUS
  <2>1. i \in 1 .. k <=> i <= k
    BY <1>1, <1>5
  <2>2. i <= k <=> PrefixBefore(v[i], e)
    BY <1>5, <2>1
  <2>3. PICK q \in S : v[i] = PrefixEntry(q) /\ q \in KeyPrefix /\ PathOf(q) = PathOf(p) /\ q # p
    BY <1>3
  <2>4. PrefixBefore(v[i], e) \/ PrefixBefore(e, v[i])
    BY <2>3, EntriesAreOrdered DEF e
  <2> QED  BY <2>2, <2>4
<1>8. ASSUME NEW i \in 1 .. Len(w), i # k + 1
      PROVE  back(i) \in 1 .. Len(v) /\ w[i] = v[back(i)] /\ (i <= k <=> back(i) <= k)
  <2>1. CASE i <= k
    <3>1. i \in 1 .. k /\ i \in 1 .. Len(v)
      BY <1>1, <1>5, <2>1
    <3> QED  BY <1>6, <2>1, <3>1
  <2>2. CASE ~(i <= k)
    <3>1. PICK j : j = i - 1
      OBVIOUS
    <3>2. j \in k + 1 .. Len(v) /\ j \in 1 .. Len(v) /\ j + 1 = i /\ ~(j <= k)
      BY <1>1, <1>5, <1>6, <1>8, <2>2, <3>1
    <3>3. w[i] = v[j]
      BY <1>6, <3>2
    <3> QED  BY <2>2, <3>1, <3>2, <3>3
  <2> QED  BY <2>1, <2>2
<1>9. ASSUME NEW q \in S \cup {p} PROVE \E i \in 1 .. Len(w) : w[i] = PrefixEntry(q)
  <2>1. CASE q = p
    <3>1. k + 1 \in 1 .. Len(w)
      BY <1>1, <1>5, <1>6
    <3> QED  BY <1>6, <2>1, <3>1 DEF e
  <2>2. CASE q \in S
    <3>1. PICK j \in 1 .. Len(v) : v[j] = PrefixEntry(q)
      BY <2>2 DEF VectorOf
    <3>2. CASE j <= k
      <4>1. j \in 1 .. k /\ j \in 1 .. Len(w)
        BY <1>1, <1>5, <1>6, <3>2
      <4> QED  BY <1>6, <3>1, <4>1
    <3>3. CASE ~(j <= k)
      <4>1. j \in k + 1 .. Len(v) /\ j + 1 \in 1 .. Len(w)
        BY <1>1, <1>5, <1>6, <3>3
      <4> QED  BY <1>6, <3>1, <4>1
    <3> QED  BY <3>2, <3>3
  <2> QED  BY <2>1, <2>2
<1>10. ASSUME NEW i \in 1 .. Len(w), NEW j \in 1 .. Len(w), i < j PROVE PrefixBefore(w[i], w[j])
  <2>0. i \in Int /\ j \in Int /\ k \in Int
    BY <1>5, <1>6
  <2>1. CASE i = k + 1
    <3>1. j # k + 1 /\ ~(j <= k)
      BY <1>10, <2>0, <2>1
    <3>2. back(j) \in 1 .. Len(v) /\ w[j] = v[back(j)] /\ ~(back(j) <= k)
      BY <1>8, <3>1
    <3> QED  BY <1>6, <1>7, <2>1, <3>2
  <2>2. CASE j = k + 1
    <3>1. i # k + 1 /\ i <= k
      BY <1>10, <2>0, <2>2
    <3>2. back(i) \in 1 .. Len(v) /\ w[i] = v[back(i)] /\ back(i) <= k
      BY <1>8, <3>1
    <3> QED  BY <1>6, <1>7, <2>2, <3>2
  <2>3. CASE i # k + 1 /\ j # k + 1
    <3>1. back(i) \in 1 .. Len(v) /\ w[i] = v[back(i)] /\ back(j) \in 1 .. Len(v) /\ w[j] = v[back(j)]
      BY <1>8, <2>3
    <3>2. back(i) < back(j)
      BY <1>10, <2>0, <2>3
    <3> QED  BY <1>1, <3>1, <3>2
  <2> QED  BY <2>1, <2>2, <2>3
<1>11. VectorOf(w, S \cup {p})
  BY <1>6, <1>9, <1>10 DEF VectorOf, T
<1> QED  BY <1>4, <1>11 DEF e

-----------------------------------------------------------------------------
(* The nodes of the trie. *)

\* n is on the way to s.
Leads(n, s) == Len(n) <= Len(s) /\ \A i \in 1 .. Len(n) : n[i] = s[i]

\* The nodes on the way to s, as IsPrefix and Prefixes have them.
LEMMA OnTheWay ==
  ASSUME NEW n \in Seq(Byte), NEW s \in Seq(Byte)
  PROVE  /\ IsPrefix(n, s) <=> Leads(n, s)
         /\ n \in Prefixes(s) <=> Leads(n, s)
         /\ Leads(n, s) => n = SubSeq(s, 1, Len(n)) /\ (Len(n) = Len(s) => n = s)
<1>1. Len(n) \in Nat /\ Len(s) \in Nat
  OBVIOUS
<1>2. SubSeq(n, 1, Len(n)) = n
  <2>1. Len(n) \in 0 .. Len(n)
    BY <1>1
  <2>2. /\ SubSeq(n, 1, Len(n)) \in Seq(Byte) /\ Len(SubSeq(n, 1, Len(n))) = Len(n)
        /\ \A i \in 1 .. Len(n) : SubSeq(n, 1, Len(n))[i] = n[i]
    BY <2>1, UptoIs
  <2> QED  BY <2>2, SameSeq
<1>3. ASSUME Leads(n, s) PROVE n = SubSeq(s, 1, Len(n))
  <2>1. Len(n) \in 0 .. Len(s)
    BY <1>1, <1>3 DEF Leads
  <2>2. /\ SubSeq(s, 1, Len(n)) \in Seq(Byte) /\ Len(SubSeq(s, 1, Len(n))) = Len(n)
        /\ \A i \in 1 .. Len(n) : SubSeq(s, 1, Len(n))[i] = s[i]
    BY <2>1, UptoIs
  <2>3. \A i \in 1 .. Len(n) : n[i] = SubSeq(s, 1, Len(n))[i]
    BY <1>3, <2>2 DEF Leads
  <2> QED  BY <2>2, <2>3, SameSeq
<1>4. ASSUME NEW l \in 0 .. Len(s), n = SubSeq(s, 1, l) PROVE Leads(n, s)
  <2>1. Len(SubSeq(s, 1, l)) = l /\ \A i \in 1 .. l : SubSeq(s, 1, l)[i] = s[i]
    BY UptoIs
  <2>2. l <= Len(s)
    BY <1>1
  <2> QED  BY <1>4, <2>1, <2>2 DEF Leads
<1>5. IsPrefix(n, s) => Leads(n, s)
  <2> SUFFICES ASSUME IsPrefix(n, s) PROVE Leads(n, s)  OBVIOUS
  <2>1. Len(n) \in 0 .. Len(s) /\ n = SubSeq(s, 1, Len(n))
    BY <1>1, <1>2 DEF IsPrefix
  <2> QED  BY <1>4, <2>1
<1>6. Leads(n, s) => IsPrefix(n, s)
  BY <1>2, <1>3 DEF IsPrefix, Leads
<1>7. n \in Prefixes(s) => Leads(n, s)
  BY <1>4 DEF Prefixes
<1>8. Leads(n, s) => n \in Prefixes(s)
  <2> SUFFICES ASSUME Leads(n, s) PROVE n \in Prefixes(s)  OBVIOUS
  <2>1. Len(n) \in 0 .. Len(s)
    BY <1>1 DEF Leads
  <2> QED  BY <1>3, <2>1 DEF Prefixes
<1>9. ASSUME Leads(n, s), Len(n) = Len(s) PROVE n = s
  BY <1>9, SameSeq DEF Leads
<1> QED  BY <1>3, <1>5, <1>6, <1>7, <1>8, <1>9

\* The way to a child goes through its parent.
LEMMA ChildOnTheWay ==
  ASSUME NEW n \in Seq(Byte), NEW b \in Byte, NEW s \in Seq(Byte)
  PROVE  /\ Append(n, b) \in Seq(Byte) /\ Len(Append(n, b)) = Len(n) + 1 /\ Append(n, b) # << >>
         /\ Leads(Append(n, b), s) <=> Leads(n, s) /\ Len(n) < Len(s) /\ s[Len(n) + 1] = b
         /\ Append(n, b) = s <=> s # << >> /\ n = Front(s) /\ b = Last(s)
<1>1. /\ Append(n, b) \in Seq(Byte) /\ Len(Append(n, b)) = Len(n) + 1 /\ Len(n) \in Nat /\ Len(s) \in Nat
      /\ (\A i \in 1 .. Len(n) : Append(n, b)[i] = n[i]) /\ Append(n, b)[Len(n) + 1] = b
  OBVIOUS
<1>2. PICK c : c = Append(n, b)
  OBVIOUS
<1>3. c \in Seq(Byte) /\ Len(c) = Len(n) + 1 /\ (\A i \in 1 .. Len(n) : c[i] = n[i]) /\ c[Len(n) + 1] = b
  BY <1>1, <1>2
<1>4. c # << >>
  BY <1>1, <1>3
<1>5. ASSUME Leads(c, s) PROVE Leads(n, s) /\ Len(n) < Len(s) /\ s[Len(n) + 1] = b
  <2>1. Len(n) + 1 <= Len(s) /\ \A i \in 1 .. Len(n) + 1 : c[i] = s[i]
    BY <1>3, <1>5 DEF Leads
  <2>2. Len(n) < Len(s) /\ Len(n) <= Len(s) /\ Len(n) + 1 \in 1 .. Len(n) + 1 /\ \A i \in 1 .. Len(n) : i \in 1 .. Len(n) + 1
    BY <1>1, <2>1
  <2> QED  BY <1>3, <2>1, <2>2 DEF Leads
<1>6. ASSUME Leads(n, s), Len(n) < Len(s), s[Len(n) + 1] = b PROVE Leads(c, s)
  <2>1. Len(c) <= Len(s)
    BY <1>1, <1>3, <1>6
  <2>2. ASSUME NEW i \in 1 .. Len(c) PROVE c[i] = s[i]
    <3>1. i \in 1 .. Len(n) \/ i = Len(n) + 1
      BY <1>1, <1>3
    <3> QED  BY <1>3, <1>6, <3>1 DEF Leads
  <2> QED  BY <2>1, <2>2 DEF Leads
<1>7. ASSUME c = s PROVE s # << >> /\ n = Front(s) /\ b = Last(s)
  <2>1. Len(s) - 1 = Len(n) /\ Len(s) = Len(n) + 1 /\ Len(n) \in 0 .. Len(s)
    BY <1>1, <1>3, <1>7
  <2>2. /\ SubSeq(s, 1, Len(n)) \in Seq(Byte) /\ Len(SubSeq(s, 1, Len(n))) = Len(n)
        /\ \A i \in 1 .. Len(n) : SubSeq(s, 1, Len(n))[i] = s[i]
    BY <2>1, UptoIs
  <2>3. \A i \in 1 .. Len(n) : n[i] = SubSeq(s, 1, Len(n))[i]
    BY <1>3, <1>7, <2>2
  <2>4. n = SubSeq(s, 1, Len(n))
    BY <2>2, <2>3, SameSeq
  <2> QED  BY <1>3, <1>4, <1>7, <2>1, <2>4 DEF Front, Last
<1>8. ASSUME s # << >>, n = Front(s), b = Last(s) PROVE c = s
  <2>1. Len(s) \in Nat /\ Len(s) # 0 /\ Len(s) - 1 \in 0 .. Len(s)
    BY <1>8
  <2>2. /\ SubSeq(s, 1, Len(s) - 1) \in Seq(Byte) /\ Len(SubSeq(s, 1, Len(s) - 1)) = Len(s) - 1
        /\ \A i \in 1 .. Len(s) - 1 : SubSeq(s, 1, Len(s) - 1)[i] = s[i]
    BY <2>1, UptoIs
  <2>3. Len(n) = Len(s) - 1 /\ (\A i \in 1 .. Len(s) - 1 : n[i] = s[i]) /\ b = s[Len(s)]
    BY <1>8, <2>2 DEF Front, Last
  <2>4. Len(c) = Len(s)
    BY <1>3, <2>1, <2>3
  <2>5. ASSUME NEW i \in 1 .. Len(c) PROVE c[i] = s[i]
    <3>1. (i \in 1 .. Len(n) /\ i \in 1 .. Len(s) - 1) \/ (i = Len(n) + 1 /\ i = Len(s))
      BY <1>1, <1>3, <2>1, <2>3
    <3> QED  BY <1>3, <2>3, <3>1
  <2> QED  BY <1>3, <2>4, <2>5, SameSeq
<1> QED  BY <1>2, <1>3, <1>4, <1>5, <1>6, <1>7, <1>8

\* The nodes that prefixes need, and that they are closed.
LEMMA NodesAre ==
  ASSUME NEW S, S \subseteq KeyPrefix
  PROVE  /\ \A n : n \in NodesOf(S) <=> n \in Seq(Byte) /\ (n = << >> \/ \E p \in S : Leads(n, PathOf(p)))
         /\ \A n \in Seq(Byte), b \in Byte : Append(n, b) \in NodesOf(S) => n \in NodesOf(S)
         /\ \A p \in S : PathOf(p) \in NodesOf(S)
<1>1. ASSUME NEW n
      PROVE  n \in NodesOf(S) <=> n \in Seq(Byte) /\ (n = << >> \/ \E p \in S : Leads(n, PathOf(p)))
  <2>1. << >> \in Seq(Byte)
    OBVIOUS
  <2>2. ASSUME NEW p \in S PROVE n \in Prefixes(PathOf(p)) <=> n \in Seq(Byte) /\ Leads(n, PathOf(p))
    <3>1. p \in KeyPrefix /\ PathOf(p) \in Seq(Byte)
      BY PathIs
    <3>2. n \in Prefixes(PathOf(p)) => n \in Seq(Byte)
      BY <3>1, UptoIs DEF Prefixes
    <3> QED  BY <3>1, <3>2, OnTheWay
  <2>3. n \in NodesOf(S) <=> n = << >> \/ \E p \in S : n \in Prefixes(PathOf(p))
    BY DEF NodesOf
  <2> QED  BY <2>1, <2>2, <2>3
<1>2. ASSUME NEW n \in Seq(Byte), NEW b \in Byte, Append(n, b) \in NodesOf(S) PROVE n \in NodesOf(S)
  <2>1. Append(n, b) # << >>
    BY ChildOnTheWay
  <2>2. PICK p \in S : Leads(Append(n, b), PathOf(p))
    BY <1>1, <1>2, <2>1
  <2>3. PathOf(p) \in Seq(Byte)
    BY PathIs
  <2>4. Leads(n, PathOf(p))
    BY <2>2, <2>3, ChildOnTheWay
  <2> QED  BY <1>1, <2>4
<1>3. ASSUME NEW p \in S PROVE PathOf(p) \in NodesOf(S)
  <2>1. PathOf(p) \in Seq(Byte)
    BY PathIs
  <2>2. Leads(PathOf(p), PathOf(p))
    BY <2>1 DEF Leads
  <2> QED  BY <1>1, <2>1, <2>2
<1> QED  BY <1>1, <1>2, <1>3

-----------------------------------------------------------------------------
(* Inserting. *)

HomeOf(S, n) == {p \in S : PathOf(p) = n}

\* The stored prefixes that live in n.
LEMMA HomeIs ==
  ASSUME NEW S, S \subseteq KeyPrefix, NEW n
  PROVE  AtNode(HomeOf(S, n), n)
BY DEF AtNode, HomeOf

\* A node that is there or is about to be allocated.
NodeAt(t, n) == IF n \in DOMAIN t THEN t[n] ELSE NewNode

\* A new node has the vector of no prefixes.
LEMMA EmptyVector == VectorOf(<< >>, {})
BY DEF VectorOf

\* A node that is allocated only now is what the trie would have there.
LEMMA NodeAtIs ==
  ASSUME NEW S, S \subseteq KeyPrefix, NEW t, TrieOf(t, NodesOf(S), S), NEW n \in Seq(Byte)
  PROVE  /\ NodeAt(t, n) \in Nodes(S)
         /\ NodeAt(t, n).branches = {b \in Byte : Append(n, b) \in NodesOf(S)}
         /\ VectorOf(NodeAt(t, n).prefixes, HomeOf(S, n))
<1>1. t \in [NodesOf(S) -> Nodes(S)]
  BY DEF TrieOf
<1>2. CASE n \in NodesOf(S)
  <2>1. NodeAt(t, n) = t[n]
    BY <1>1, <1>2 DEF NodeAt
  <2> QED  BY <1>1, <1>2, <2>1 DEF TrieOf, HomeOf
<1>3. CASE n \notin NodesOf(S)
  <2>1. NodeAt(t, n) = NewNode
    BY <1>1, <1>3 DEF NodeAt
  <2>2. \A b \in Byte : Append(n, b) \notin NodesOf(S)
    BY <1>3, NodesAre
  <2>3. HomeOf(S, n) = {}
    BY <1>3, NodesAre DEF HomeOf
  <2>4. NewNode \in Nodes(S) /\ NewNode.branches = {} /\ NewNode.prefixes = << >>
    BY DEF NewNode, Nodes
  <2> QED  BY <2>1, <2>2, <2>3, <2>4, EmptyVector
<1> QED  BY <1>2, <1>3

\* The trie with one more prefix.
LEMMA InsertKeeps ==
  ASSUME NEW S, S \subseteq KeyPrefix, NEW t, TrieOf(t, NodesOf(S), S),
         NEW p \in KeyPrefix, p \notin S, NEW u,
         u = [n \in DOMAIN t \cup Prefixes(PathOf(p)) |->
               IF ~IsPrefix(n, PathOf(p)) THEN t[n]
               ELSE [branches |-> IF n = PathOf(p) THEN NodeAt(t, n).branches
                                  ELSE NodeAt(t, n).branches \cup {PathOf(p)[Len(n) + 1]},
                     prefixes |-> IF n # PathOf(p) THEN NodeAt(t, n).prefixes
                                  ELSE InsertPrefix(NodeAt(t, n).prefixes, PrefixEntry(p))]]
  PROVE  TrieOf(u, NodesOf(S \cup {p}), S \cup {p})
<1> DEFINE path == PathOf(p)
           N == NodesOf(S)
           R == S \cup {p}
           M == NodesOf(R)
<1>1. path \in Seq(Byte) /\ R \subseteq KeyPrefix
  BY PathIs
<1>2. DOMAIN t = N /\ t \in [N -> Nodes(S)]
  BY DEF TrieOf
<1>3. \A n : n \in N <=> n \in Seq(Byte) /\ (n = << >> \/ \E q \in S : Leads(n, PathOf(q)))
  BY NodesAre
<1>4. \A n : n \in M <=> n \in Seq(Byte) /\ (n = << >> \/ \E q \in R : Leads(n, PathOf(q)))
  <2> HIDE DEF R
  <2> QED  BY <1>1, NodesAre
<1> HIDE DEF N, M
<1>5. \A n : n \in M <=> n \in N \/ (n \in Seq(Byte) /\ Leads(n, path))
  BY <1>3, <1>4
<1>6. ASSUME NEW n PROVE n \in Prefixes(path) <=> n \in Seq(Byte) /\ Leads(n, path)
  <2>1. n \in Prefixes(path) => n \in Seq(Byte)
    BY <1>1, UptoIs DEF Prefixes
  <2> QED  BY <1>1, <2>1, OnTheWay
<1>7. DOMAIN t \cup Prefixes(path) = M
  BY <1>2, <1>5, <1>6
<1> HIDE DEF path
<1>8. ASSUME NEW n \in M
      PROVE  /\ n \in Seq(Byte)
             /\ ~Leads(n, path) => n \in N /\ u[n] = t[n]
             /\ Leads(n, path) =>
                  u[n] = [branches |-> IF n = path THEN NodeAt(t, n).branches
                                       ELSE NodeAt(t, n).branches \cup {path[Len(n) + 1]},
                          prefixes |-> IF n # path THEN NodeAt(t, n).prefixes
                                       ELSE InsertPrefix(NodeAt(t, n).prefixes, PrefixEntry(p))]
  <2>1. n \in Seq(Byte)
    BY <1>4
  <2>2. IsPrefix(n, path) <=> Leads(n, path)
    BY <1>1, <2>1, OnTheWay
  <2>3. n \in DOMAIN t \cup Prefixes(path)
    BY <1>7
  <2>4. ~Leads(n, path) => n \in N
    BY <1>5
  <2> QED  BY <2>1, <2>2, <2>3, <2>4 DEF path
<1>9. ASSUME NEW n \in M
      PROVE  /\ u[n].branches = {b \in Byte : Append(n, b) \in M}
             /\ VectorOf(u[n].prefixes, HomeOf(R, n))
             /\ u[n] \in Nodes(R)
  <2>1. n \in Seq(Byte)
    BY <1>8
  <2>2. /\ NodeAt(t, n) \in Nodes(S)
        /\ NodeAt(t, n).branches = {b \in Byte : Append(n, b) \in N}
        /\ VectorOf(NodeAt(t, n).prefixes, HomeOf(S, n))
    BY <2>1, NodeAtIs DEF N
  <2>3. AtNode(HomeOf(S, n), n)
    BY HomeIs
  <2>4. \A b \in Byte : Append(n, b) \in M <=> Append(n, b) \in N \/ (Leads(n, path) /\ Len(n) < Len(path) /\ path[Len(n) + 1] = b)
    BY <1>1, <1>5, <2>1, ChildOnTheWay
  <2>5. \A b \in Byte : Append(n, b) \in N => n \in N
    BY <2>1, NodesAre DEF N
  <2>6. path = PathOf(p) /\ HomeOf(R, n) = IF n = path THEN HomeOf(S, n) \cup {p} ELSE HomeOf(S, n)
    BY DEF HomeOf, path
  <2>7. Leads(n, path) => (n = path \/ Len(n) < Len(path)) /\ (n = path => ~(Len(n) < Len(path)))
    <3>1. Len(n) \in Nat /\ Len(path) \in Nat
      BY <1>1, <2>1
    <3>2. Leads(n, path) /\ Len(n) = Len(path) => n = path
      BY <1>1, <2>1, OnTheWay
    <3> QED  BY <3>1, <3>2 DEF Leads
  <2>8. CASE ~Leads(n, path)
    <3>1. u[n] = t[n] /\ n \in N
      BY <1>8, <2>8
    <3>2. u[n] = NodeAt(t, n)
      BY <1>2, <3>1 DEF NodeAt
    <3>3. n # path
      BY <1>1, <2>8 DEF Leads
    <3>4. u[n].branches = {b \in Byte : Append(n, b) \in M}
      BY <2>2, <2>4, <2>8, <3>2
    <3>5. u[n] \in Nodes(R)
      <4>1. {PrefixEntry(q) : q \in S} \subseteq {PrefixEntry(q) : q \in R}
        OBVIOUS
      <4>2. PICK X : X = {PrefixEntry(q) : q \in S}
        OBVIOUS
      <4>3. PICK Y : Y = {PrefixEntry(q) : q \in R}
        OBVIOUS
      <4>4. X \subseteq Y
        BY <4>1, <4>2, <4>3
      <4>5. u[n] \in [branches : SUBSET Byte, prefixes : Seq(X)]
        BY <2>2, <3>2, <4>2 DEF Nodes
      <4>6. u[n].prefixes \in Seq(Y)
        BY <4>4, <4>5, SeqWidens
      <4>7. u[n] \in [branches : SUBSET Byte, prefixes : Seq(Y)]
        BY <4>5, <4>6
      <4> QED  BY <4>3, <4>7 DEF Nodes
    <3> QED  BY <2>2, <2>6, <3>2, <3>3, <3>4, <3>5
  <2>9. CASE Leads(n, path)
    <3>1. u[n] = [branches |-> IF n = path THEN NodeAt(t, n).branches
                               ELSE NodeAt(t, n).branches \cup {path[Len(n) + 1]},
                  prefixes |-> IF n # path THEN NodeAt(t, n).prefixes
                               ELSE InsertPrefix(NodeAt(t, n).prefixes, PrefixEntry(p))]
      BY <1>8, <2>9
    <3>2. n # path => path[Len(n) + 1] \in Byte
      <4> SUFFICES ASSUME n # path PROVE path[Len(n) + 1] \in Byte  OBVIOUS
      <4>1. Len(n) \in Nat /\ Len(path) \in Nat /\ Len(n) < Len(path)
        BY <1>1, <2>1, <2>7, <2>9
      <4>2. Len(n) + 1 \in 1 .. Len(path)
        BY <4>1
      <4> QED  BY <1>1, <4>2
    <3>3. u[n].branches = {b \in Byte : Append(n, b) \in M}
      <4>1. CASE n = path
        <5>1. u[n].branches = NodeAt(t, n).branches
          <6>1. u[n] = [branches |-> NodeAt(t, n).branches,
                        prefixes |-> InsertPrefix(NodeAt(t, n).prefixes, PrefixEntry(p))]
            BY <3>1, <4>1, Zenon
          <6> QED  BY ONLY <6>1
        <5>2. \A b \in Byte : Append(n, b) \in M <=> Append(n, b) \in N
          BY <2>4, <2>7, <2>9, <4>1
        <5> QED  BY <2>2, <5>1, <5>2
      <4>2. CASE n # path
        <5>1. u[n].branches = NodeAt(t, n).branches \cup {path[Len(n) + 1]}
          <6>1. u[n] = [branches |-> NodeAt(t, n).branches \cup {path[Len(n) + 1]},
                        prefixes |-> NodeAt(t, n).prefixes]
            BY <3>1, <4>2, Zenon
          <6> QED  BY ONLY <6>1
        <5>2. \A b \in Byte : Append(n, b) \in M <=> Append(n, b) \in N \/ path[Len(n) + 1] = b
          BY <2>4, <2>7, <2>9, <4>2
        <5> QED  BY <2>2, <3>2, <4>2, <5>1, <5>2
      <4> QED  BY <4>1, <4>2
    <3>4. VectorOf(u[n].prefixes, HomeOf(R, n))
      <4>1. CASE n = path
        <5>1. u[n].prefixes = InsertPrefix(NodeAt(t, n).prefixes, PrefixEntry(p))
          BY <3>1, <4>1
        <5>2. p \notin HomeOf(S, n)
          BY DEF HomeOf
        <5>3. VectorOf(InsertPrefix(NodeAt(t, n).prefixes, PrefixEntry(p)), HomeOf(S, n) \cup {p})
          BY <2>2, <2>3, <2>6, <4>1, <5>2, InsertedIntoVector
        <5> QED  BY <2>6, <4>1, <5>1, <5>3
      <4>2. CASE n # path
        BY <2>2, <2>6, <3>1, <4>2
      <4> QED  BY <4>1, <4>2
    <3>5. u[n].prefixes \in Seq({PrefixEntry(q) : q \in R})
      <4>1. PICK X : X = {PrefixEntry(q) : q \in HomeOf(R, n)}
        OBVIOUS
      <4>2. PICK Y : Y = {PrefixEntry(q) : q \in R}
        OBVIOUS
      <4>3. X \subseteq Y
        BY <4>1, <4>2 DEF HomeOf
      <4>4. u[n].prefixes \in Seq(X)
        BY <3>4, <4>1 DEF VectorOf
      <4> QED  BY <4>2, <4>3, <4>4, SeqWidens
    <3>6. u[n].branches \in SUBSET Byte
      BY <3>3
    <3>7. u[n] = [branches |-> u[n].branches, prefixes |-> u[n].prefixes]
      BY <3>1
    <3>8. u[n] \in Nodes(R)
      BY <3>5, <3>6, <3>7 DEF Nodes
    <3> QED  BY <3>3, <3>4, <3>8
  <2> QED  BY <2>8, <2>9
<1>10. u \in [M -> Nodes(R)]
  <2>1. DOMAIN u = M /\ u = [n \in DOMAIN u |-> u[n]]
    BY <1>7 DEF path
  <2> HIDE DEF R
  <2> QED  BY <1>9, <2>1
<1>11. TrieOf(u, M, R)
  <2> HIDE DEF R
  <2> QED  BY <1>9, <1>10 DEF TrieOf, HomeOf
<1> QED  BY <1>11 DEF M

-----------------------------------------------------------------------------
(* Deleting. *)

\* The nodes that the prefixes R need, and those on the way to path that have no
\* more than m bytes.
Remaining(R, path, m) == NodesOf(R) \cup {n \in Seq(Byte) : Leads(n, path) /\ Len(n) <= m}

\* A round of the loop takes the longest of those if it is not needed.
LEMMA CutKeeps ==
  ASSUME NEW R, R \subseteq KeyPrefix, NEW path \in Seq(Byte), NEW m \in 1 .. Len(path),
         NEW u, TrieOf(u, Remaining(R, path, m), R)
  PROVE  TrieOf(CutOff(u, SubSeq(path, 1, m)), Remaining(R, path, m - 1), R)
<1> DEFINE at == SubSeq(path, 1, m)
           N == Remaining(R, path, m)
           M == Remaining(R, path, m - 1)
<1>0. m \in Nat /\ m >= 1 /\ m <= Len(path) /\ Len(path) \in Nat
  OBVIOUS
<1>1. at \in Seq(Byte) /\ Len(at) = m /\ Leads(at, path) /\ at # << >>
  <2>1. m \in 0 .. Len(path)
    BY <1>0
  <2>2. at \in Seq(Byte) /\ Len(at) = m /\ \A i \in 1 .. m : at[i] = path[i]
    BY <2>1, UptoIs
  <2> QED  BY <1>0, <2>2 DEF Leads
<1>2. u \in [N -> Nodes(R)] /\ \A n \in N : /\ u[n].branches = {b \in Byte : Append(n, b) \in N}
                                            /\ VectorOf(u[n].prefixes, HomeOf(R, n))
  BY DEF TrieOf, HomeOf
<1>3. \A n \in Seq(Byte) : Leads(n, path) /\ Len(n) = m => n = at
  BY OnTheWay
<1> HIDE DEF at
<1>4. at \in N
  BY <1>0, <1>1 DEF Remaining
<1>5. at \notin NodesOf(R) => M = N \ {at}
  <2> SUFFICES ASSUME at \notin NodesOf(R) PROVE M = N \ {at}  OBVIOUS
  <2>1. ASSUME NEW n \in M PROVE n \in N \ {at}
    <3>1. CASE n \in NodesOf(R)
      BY <3>1 DEF Remaining
    <3>2. CASE n \in Seq(Byte) /\ Leads(n, path) /\ Len(n) <= m - 1
      <4>1. Len(n) <= m /\ Len(n) # m
        BY <1>0, <3>2
      <4> QED  BY <1>1, <3>2, <4>1 DEF Remaining
    <3> QED  BY <3>1, <3>2 DEF Remaining
  <2>2. ASSUME NEW n \in N \ {at} PROVE n \in M
    <3>1. CASE n \in NodesOf(R)
      BY <3>1 DEF Remaining
    <3>2. CASE n \in Seq(Byte) /\ Leads(n, path) /\ Len(n) <= m
      <4>1. Len(n) # m
        BY <1>3, <3>2
      <4>2. Len(n) <= m - 1
        BY <1>0, <3>2, <4>1
      <4> QED  BY <3>2, <4>2 DEF Remaining
    <3> QED  BY <3>1, <3>2 DEF Remaining
  <2> QED  BY <2>1, <2>2
<1>6. at \in NodesOf(R) => M = N
  <2> SUFFICES ASSUME at \in NodesOf(R) PROVE M = N  OBVIOUS
  <2>1. ASSUME NEW n \in M PROVE n \in N
    <3>1. CASE n \in NodesOf(R)
      BY <3>1 DEF Remaining
    <3>2. CASE n \in Seq(Byte) /\ Leads(n, path) /\ Len(n) <= m - 1
      <4>1. Len(n) <= m
        BY <1>0, <3>2
      <4> QED  BY <3>2, <4>1 DEF Remaining
    <3> QED  BY <3>1, <3>2 DEF Remaining
  <2>2. ASSUME NEW n \in N PROVE n \in M
    <3>1. CASE n \in NodesOf(R)
      BY <3>1 DEF Remaining
    <3>2. CASE n \in Seq(Byte) /\ Leads(n, path) /\ Len(n) <= m
      <4>1. CASE Len(n) = m
        BY <1>3, <3>2, <4>1 DEF Remaining
      <4>2. CASE Len(n) # m
        <5>1. Len(n) <= m - 1
          BY <1>0, <3>2, <4>2
        <5> QED  BY <3>2, <5>1 DEF Remaining
      <4> QED  BY <4>1, <4>2
    <3> QED  BY <3>1, <3>2 DEF Remaining
  <2> QED  BY <2>1, <2>2
<1>7. ASSUME NEW b \in Byte, Append(at, b) \in N PROVE Append(at, b) \in NodesOf(R)
  <2>1. Len(Append(at, b)) = m + 1
    BY <1>1, ChildOnTheWay
  <2>2. ~(Len(Append(at, b)) <= m)
    BY <1>0, <2>1
  <2> QED  BY <1>7, <2>2 DEF Remaining
<1>8. u[at] = NewNode <=> u[at].branches = {} /\ u[at].prefixes = << >>
  <2>1. PICK x : x = u[at]
    OBVIOUS
  <2>2. x \in Nodes(R)
    BY <1>2, <1>4, <2>1
  <2>3. x = [branches |-> x.branches, prefixes |-> x.prefixes]
    BY <2>2 DEF Nodes
  <2>4. x = NewNode <=> x.branches = {} /\ x.prefixes = << >>
    BY ONLY <2>3 DEF NewNode
  <2> QED  BY <2>1, <2>4
<1>9. CASE u[at] # NewNode
  <2>1. at \in NodesOf(R)
    <3>1. CASE u[at].branches # {}
      <4>1. PICK b \in Byte : Append(at, b) \in N
        BY <1>2, <1>4, <3>1
      <4> QED  BY <1>1, <1>7, <4>1, NodesAre
    <3>2. CASE u[at].prefixes # << >>
      <4>1. PICK v : v = u[at].prefixes
        OBVIOUS
      <4>2. VectorOf(v, HomeOf(R, at)) /\ v # << >>
        BY <1>2, <1>4, <3>2, <4>1
      <4>3. v \in Seq({PrefixEntry(q) : q \in HomeOf(R, at)})
        BY <4>2 DEF VectorOf
      <4>4. 1 \in 1 .. Len(v)
        BY <4>2, <4>3
      <4>5. PICK q \in HomeOf(R, at) : v[1] = PrefixEntry(q)
        BY <4>2, <4>4, PlaceHasPrefix
      <4> QED  BY <4>5, NodesAre DEF HomeOf
    <3> QED  BY <1>8, <1>9, <3>1, <3>2
  <2>2. CutOff(u, at) = u
    BY <1>9 DEF CutOff
  <2>3. TrieOf(CutOff(u, at), M, R)
    BY <1>6, <2>1, <2>2
  <2> QED  BY <2>3 DEF at
<1>10. CASE u[at] = NewNode
  <2>1. at \notin NodesOf(R)
    <3> SUFFICES ASSUME at \in NodesOf(R) PROVE FALSE  OBVIOUS
    <3>1. PICK q \in R : Leads(at, PathOf(q))
      BY <1>1, NodesAre
    <3>2. PathOf(q) \in Seq(Byte)
      BY PathIs
    <3>3. CASE at = PathOf(q)
      <4>1. q \in HomeOf(R, at)
        BY <3>3 DEF HomeOf
      <4>2. VectorOf(<< >>, HomeOf(R, at))
        BY <1>2, <1>4, <1>8, <1>10
      <4>3. \E i \in 1 .. Len(<< >>) : << >>[i] = PrefixEntry(q)
        BY <4>1, <4>2 DEF VectorOf
      <4> QED  BY <4>3
    <3>4. CASE at # PathOf(q)
      <4>1. Len(at) # Len(PathOf(q))
        BY <1>1, <3>1, <3>2, <3>4, OnTheWay
      <4>2. Len(PathOf(q)) \in Nat /\ Len(at) \in Nat /\ Len(at) < Len(PathOf(q))
        BY <1>1, <3>1, <3>2, <4>1 DEF Leads
      <4>3. PICK b \in Byte : b = PathOf(q)[Len(at) + 1]
        <5>1. Len(at) + 1 \in 1 .. Len(PathOf(q))
          BY <4>2
        <5> QED  BY <3>2, <5>1
      <4>4. Leads(Append(at, b), PathOf(q)) /\ Append(at, b) \in Seq(Byte)
        BY <1>1, <3>1, <3>2, <4>2, <4>3, ChildOnTheWay
      <4>5. Append(at, b) \in NodesOf(R)
        BY <4>4, NodesAre
      <4>6. b \in u[at].branches
        BY <1>2, <1>4, <4>5 DEF Remaining
      <4> QED  BY <1>8, <1>10, <4>6
    <3> QED  BY <3>3, <3>4
  <2>2. M = N \ {at}
    BY <1>5, <2>1
  <2>3. PICK w : w = CutOff(u, at)
    OBVIOUS
  <2>4. w = [n \in N \ {at} |-> IF n = Front(at) THEN [u[n] EXCEPT !.branches = @ \ {Last(at)}] ELSE u[n]]
    <3>1. DOMAIN u = N
      BY <1>2
    <3> QED  BY <1>10, <2>3, <3>1 DEF CutOff
  <2>5. ASSUME NEW n \in M
        PROVE  /\ w[n] \in Nodes(R)
               /\ w[n].branches = {b \in Byte : Append(n, b) \in M}
               /\ VectorOf(w[n].prefixes, HomeOf(R, n))
    <3>1. n \in N /\ n # at /\ n \in Seq(Byte)
      <4>1. n \in Seq(Byte)
        BY NodesAre DEF Remaining
      <4> QED  BY <2>2, <4>1
    <3>2. \A b \in Byte : Append(n, b) = at <=> n = Front(at) /\ b = Last(at)
      BY <1>1, <3>1, ChildOnTheWay
    <3>3. PICK x : x = u[n]
      OBVIOUS
    <3>4. x \in Nodes(R) /\ x.branches = {b \in Byte : Append(n, b) \in N} /\ VectorOf(x.prefixes, HomeOf(R, n))
      BY <1>2, <3>1, <3>3
    <3>5. CASE n = Front(at)
      <4>1. w[n] = [x EXCEPT !.branches = @ \ {Last(at)}]
        BY <2>2, <2>4, <3>3, <3>5
      <4>2. w[n] \in Nodes(R) /\ w[n].branches = x.branches \ {Last(at)} /\ w[n].prefixes = x.prefixes
        <5>1. PICK l : l = Last(at)
          OBVIOUS
        <5>2. x \in [branches : SUBSET Byte, prefixes : Seq({PrefixEntry(p) : p \in R})]
          BY <3>4 DEF Nodes
        <5>3. w[n] = [x EXCEPT !.branches = @ \ {l}]
          BY <4>1, <5>1
        <5>4. PICK E : E = Seq({PrefixEntry(p) : p \in R})
          OBVIOUS
        <5>5. x \in [branches : SUBSET Byte, prefixes : E]
          BY <5>2, <5>4
        <5>6. w[n] \in [branches : SUBSET Byte, prefixes : E] /\ w[n].branches = x.branches \ {l} /\ w[n].prefixes = x.prefixes
          BY ONLY <5>3, <5>5
        <5> QED  BY <5>1, <5>4, <5>6 DEF Nodes
      <4>3. \A b \in Byte : Append(n, b) \in M <=> Append(n, b) \in N /\ b # Last(at)
        BY <2>2, <3>2, <3>5
      <4>4. w[n].branches = {b \in Byte : Append(n, b) \in M}
        BY <3>4, <4>2, <4>3
      <4> QED  BY <3>4, <4>2, <4>4
    <3>6. CASE n # Front(at)
      <4>1. w[n] = x
        BY <2>2, <2>4, <3>3, <3>6
      <4>2. \A b \in Byte : Append(n, b) \in M <=> Append(n, b) \in N
        BY <2>2, <3>2, <3>6
      <4> QED  BY <3>4, <4>1, <4>2
    <3> QED  BY <3>5, <3>6
  <2>6. w \in [M -> Nodes(R)]
    BY <2>2, <2>4, <2>5
  <2>7. TrieOf(w, M, R)
    BY <2>5, <2>6 DEF TrieOf, HomeOf
  <2> QED  BY <2>3, <2>7 DEF at
<1> QED  BY <1>9, <1>10

\* The tries with any nodes.
AnyTrie(R) == UNION {[D -> Nodes(R)] : D \in SUBSET Seq(Byte)}

\* A round of the loop leaves a trie.
LEMMA CutTyped ==
  ASSUME NEW R, NEW u \in AnyTrie(R), NEW at
  PROVE  CutOff(u, at) \in AnyTrie(R)
<1>1. PICK D \in SUBSET Seq(Byte) : u \in [D -> Nodes(R)]
  BY DEF AnyTrie
<1>2. CASE u[at] # NewNode
  BY <1>2 DEF CutOff
<1>3. CASE u[at] = NewNode
  <2>1. PICK w : w = CutOff(u, at)
    OBVIOUS
  <2>2. w = [n \in D \ {at} |-> IF n = Front(at) THEN [u[n] EXCEPT !.branches = @ \ {Last(at)}] ELSE u[n]]
    BY <1>1, <1>3, <2>1 DEF CutOff
  <2>3. ASSUME NEW n \in D \ {at} PROVE w[n] \in Nodes(R)
    <3>1. PICK x : x = u[n]
      OBVIOUS
    <3>2. PICK E : E = Seq({PrefixEntry(p) : p \in R})
      OBVIOUS
    <3>3. PICK l : l = Last(at)
      OBVIOUS
    <3>4. x \in [branches : SUBSET Byte, prefixes : E]
      BY <1>1, <3>1, <3>2 DEF Nodes
    <3>5. w[n] = [x EXCEPT !.branches = @ \ {l}] \/ w[n] = x
      BY <2>2, <3>1, <3>3
    <3>6. w[n] \in [branches : SUBSET Byte, prefixes : E]
      BY ONLY <3>4, <3>5
    <3> QED  BY <3>2, <3>6 DEF Nodes
  <2>4. w \in [D \ {at} -> Nodes(R)] /\ D \ {at} \in SUBSET Seq(Byte)
    BY <2>2, <2>3
  <2> QED  BY <2>1, <2>4 DEF AnyTrie
<1> QED  BY <1>2, <1>3

\* The loop frees the nodes that are not needed any more.
LEMMA ShrunkKeeps ==
  ASSUME NEW R, R \subseteq KeyPrefix, NEW path \in Seq(Byte),
         NEW t, TrieOf(t, Remaining(R, path, Len(path)), R)
  PROVE  TrieOf(Shrunk(t, path), NodesOf(R), R)
<1> DEFINE L == Len(path)
           V == AnyTrie(R)
           At(k) == SubSeq(path, 1, L - k + 1)
           step == [k \in 1 .. L |-> [u \in V |-> CutOff(u, At(k))]]
<1>0. L \in Nat
  OBVIOUS
<1>1. t \in V
  <2>1. Remaining(R, path, L) \in SUBSET Seq(Byte)
    BY NodesAre DEF Remaining
  <2>2. t \in [Remaining(R, path, L) -> Nodes(R)]
    BY DEF TrieOf
  <2> QED  BY <2>1, <2>2 DEF AnyTrie
<1> HIDE DEF L
<1>2. step \in StepsOf(L, V)
  <2>1. \A k \in 1 .. L : \A u \in V : CutOff(u, At(k)) \in V
    BY CutTyped
  <2> HIDE DEF V
  <2> QED  BY <2>1 DEF StepsOf
<1>3. PICK w : w \in RunsOf(L, V, t, step)
  <2> HIDE DEF V, step
  <2> QED  BY <1>0, <1>1, <1>2, Iterates
<1>4. w \in [0 .. L -> V] /\ w[0] = t /\ \A k \in 1 .. L : w[k] = CutOff(w[k - 1], At(k))
  <2>1. \A k \in 1 .. L : k - 1 \in 0 .. L
    BY <1>0
  <2>2. w \in [0 .. L -> V] /\ w[0] = t /\ \A k \in 1 .. L : w[k] = step[k][w[k - 1]]
    <3> HIDE DEF V, step
    <3> QED  BY <1>3 DEF RunsOf
  <2> HIDE DEF V
  <2> QED  BY <2>1, <2>2
<1>5. w = [k \in 0 .. L |-> IF k = 0 THEN t ELSE CutOff(w[k - 1], At(k))]
  <2>1. \A k \in 0 .. L : w[k] = IF k = 0 THEN t ELSE CutOff(w[k - 1], At(k))
    <3> SUFFICES ASSUME NEW k \in 0 .. L PROVE w[k] = IF k = 0 THEN t ELSE CutOff(w[k - 1], At(k))
      OBVIOUS
    <3>1. k = 0 \/ k \in 1 .. L
      BY <1>0
    <3>2. \A j \in 1 .. L : j # 0
      BY <1>0
    <3> QED  BY <1>4, <3>1, <3>2
  <2> HIDE DEF V, At
  <2> QED  BY <1>4, <2>1
<1>6. PICK f : f = [k \in 0 .. L |-> IF k = 0 THEN t ELSE CutOff(f[k - 1], At(k))] /\ Shrunk(t, path) = f[L]
  <2> DEFINE cut == CHOOSE f : f = [k \in 0 .. L |-> IF k = 0 THEN t ELSE CutOff(f[k - 1], At(k))]
  <2>1. cut = [k \in 0 .. L |-> IF k = 0 THEN t ELSE CutOff(cut[k - 1], At(k))]
    <3> HIDE DEF At
    <3> QED  BY <1>5
  <2>2. Shrunk(t, path) = cut[L]
    BY DEF Shrunk, L
  <2> HIDE DEF cut, At
  <2> QED  BY <2>1, <2>2
<1>7. f[0] = t /\ \A k \in 1 .. L : f[k] = CutOff(f[k - 1], At(k))
  <2> HIDE DEF At
  <2>1. 0 \in 0 .. L /\ \A k \in 1 .. L : k \in 0 .. L /\ k # 0
    BY <1>0
  <2> QED  BY <1>6, <2>1
<1> DEFINE S == {k \in 0 .. L : TrieOf(f[k], Remaining(R, path, L - k), R)}
<1>8. 0 \in S
  <2>1. L - 0 = L /\ 0 \in 0 .. L
    BY <1>0
  <2> QED  BY <1>7, <2>1 DEF L
<1>9. ASSUME NEW k \in 1 .. L, k - 1 \in S PROVE k \in S
  <2>1. PICK m \in 1 .. L : m = L - k + 1 /\ L - (k - 1) = m /\ L - k = m - 1
    BY <1>0
  <2>2. TrieOf(f[k - 1], Remaining(R, path, m), R)
    BY <1>9, <2>1
  <2>3. f[k] = CutOff(f[k - 1], SubSeq(path, 1, m))
    BY <1>7, <2>1
  <2>4. TrieOf(f[k], Remaining(R, path, m - 1), R)
    BY <2>2, <2>3, CutKeeps DEF L
  <2>5. k \in 0 .. L
    BY <1>0
  <2> QED  BY <2>1, <2>4, <2>5
<1>10. L \in S
  <2>1. L \in 0 .. L
    BY <1>0
  <2> HIDE DEF S
  <2> QED  BY <1>0, <1>8, <1>9, <2>1, UpTo
<1>11. Remaining(R, path, 0) = NodesOf(R)
  <2>1. \A n \in Seq(Byte) : Len(n) <= 0 => n = << >>
    OBVIOUS
  <2> QED  BY <2>1, NodesAre DEF Remaining
<1>12. L - L = 0
  BY <1>0
<1> QED  BY <1>6, <1>10, <1>11, <1>12

\* The trie with one prefix less.
LEMMA DeleteKeeps ==
  ASSUME NEW S, S \subseteq KeyPrefix, NEW t, TrieOf(t, NodesOf(S), S), NEW p \in S,
         NEW i, i = GetPrefix(t[PathOf(p)], RestLen(p), RestKey(p))
  PROVE  TrieOf(Shrunk([t EXCEPT ![PathOf(p)].prefixes = RemoveAt(@, i)], PathOf(p)),
                NodesOf(S \ {p}), S \ {p})
<1>0. PICK path : path = PathOf(p)
  OBVIOUS
<1>1. PICK R : R = S \ {p}
  OBVIOUS
<1>2. PICK N : N = NodesOf(S)
  OBVIOUS
<1>3. path \in Seq(Byte) /\ path \in N /\ R \subseteq KeyPrefix /\ p \in KeyPrefix
  BY <1>0, <1>1, <1>2, PathIs, NodesAre
<1>4. t \in [N -> Nodes(S)] /\ \A n \in N : /\ t[n].branches = {b \in Byte : Append(n, b) \in N}
                                            /\ VectorOf(t[n].prefixes, HomeOf(S, n))
  BY <1>2 DEF TrieOf, HomeOf
<1>5. PICK v : v = t[path].prefixes
  OBVIOUS
<1>6. i \in 1 .. Len(v) /\ v[i] = PrefixEntry(p)
  <2>1. AtNode(HomeOf(S, path), path) /\ VectorOf(v, HomeOf(S, path)) /\ p \in HomeOf(S, path)
    BY <1>0, <1>3, <1>4, <1>5, HomeIs DEF HomeOf
  <2> QED  BY <1>0, <1>3, <1>5, <2>1, GetPrefixIs
<1>7. VectorOf(RemoveAt(v, i), HomeOf(R, path))
  <2>1. AtNode(HomeOf(S, path), path) /\ VectorOf(v, HomeOf(S, path)) /\ p \in HomeOf(S, path)
    BY <1>0, <1>3, <1>4, <1>5, HomeIs DEF HomeOf
  <2>2. HomeOf(R, path) = HomeOf(S, path) \ {p}
    BY <1>1 DEF HomeOf
  <2> QED  BY <1>6, <2>1, <2>2, RemovedFromVector
<1>8. PICK u : u = [t EXCEPT ![path].prefixes = RemoveAt(v, i)]
  OBVIOUS
<1>9. /\ u \in [N -> [branches : SUBSET Byte, prefixes : {t[n].prefixes : n \in N} \cup {RemoveAt(v, i)}]]
      /\ \A n \in N : u[n].branches = t[n].branches
      /\ \A n \in N \ {path} : u[n].prefixes = t[n].prefixes
      /\ u[path].prefixes = RemoveAt(v, i)
  <2>1. PICK x : x = RemoveAt(v, i)
    OBVIOUS
  <2>2. PICK E : E = Seq({PrefixEntry(q) : q \in S})
    OBVIOUS
  <2>3. t \in [N -> [branches : SUBSET Byte, prefixes : E]]
    BY <1>4, <2>2 DEF Nodes
  <2>4. u = [t EXCEPT ![path].prefixes = x]
    BY <1>8, <2>1
  <2>5. /\ DOMAIN u = N /\ u = [n \in N |-> u[n]]
        /\ \A n \in N : u[n] = IF n = path THEN [t[n] EXCEPT !.prefixes = x] ELSE t[n]
    BY ONLY <1>3, <2>3, <2>4
  <2>6. ASSUME NEW n \in N
        PROVE  /\ u[n] \in [branches : SUBSET Byte, prefixes : {t[m].prefixes : m \in N} \cup {x}]
               /\ u[n].branches = t[n].branches
               /\ n # path => u[n].prefixes = t[n].prefixes
               /\ n = path => u[n].prefixes = x
    <3>1. PICK y : y = t[n]
      OBVIOUS
    <3>2. PICK P : P = {t[m].prefixes : m \in N} \cup {x}
      OBVIOUS
    <3>3. y \in [branches : SUBSET Byte, prefixes : E] /\ y.prefixes \in P /\ x \in P
      BY <2>3, <3>1, <3>2
    <3>4. y \in [branches : SUBSET Byte, prefixes : P]
      BY ONLY <3>3
    <3>5. u[n] = IF n = path THEN [y EXCEPT !.prefixes = x] ELSE y
      BY <2>5, <3>1
    <3>6. /\ u[n] \in [branches : SUBSET Byte, prefixes : P]
          /\ u[n].branches = y.branches
          /\ n # path => u[n].prefixes = y.prefixes
          /\ n = path => u[n].prefixes = x
      BY ONLY <3>3, <3>4, <3>5
    <3> QED  BY <3>1, <3>2, <3>6
  <2> QED  BY <1>3, <2>1, <2>5, <2>6
<1>10. ASSUME NEW n \in N PROVE VectorOf(u[n].prefixes, HomeOf(R, n))
  <2>1. CASE n = path
    BY <1>7, <1>9, <2>1
  <2>2. CASE n # path
    <3>1. HomeOf(R, n) = HomeOf(S, n)
      BY <1>0, <1>1, <2>2 DEF HomeOf
    <3> QED  BY <1>4, <1>9, <2>2, <3>1
  <2> QED  BY <2>1, <2>2
<1>11. u \in [N -> Nodes(R)]
  <2>1. ASSUME NEW n \in N PROVE u[n] \in Nodes(R)
    <3>1. PICK X : X = {PrefixEntry(q) : q \in HomeOf(R, n)}
      OBVIOUS
    <3>2. PICK Y : Y = {PrefixEntry(q) : q \in R}
      OBVIOUS
    <3>3. X \subseteq Y
      BY <3>1, <3>2 DEF HomeOf
    <3>4. u[n].prefixes \in Seq(X)
      BY <1>10, <3>1 DEF VectorOf
    <3>5. u[n].prefixes \in Seq(Y)
      BY <3>3, <3>4, SeqWidens
    <3>6. PICK P : P = {t[m].prefixes : m \in N} \cup {RemoveAt(v, i)}
      OBVIOUS
    <3>7. PICK y : y = u[n]
      OBVIOUS
    <3>8. y \in [branches : SUBSET Byte, prefixes : P]
      BY <1>9, <3>6, <3>7
    <3>9. y.prefixes \in Seq(Y)
      BY <3>5, <3>7
    <3>10. y \in [branches : SUBSET Byte, prefixes : Seq(Y)]
      BY ONLY <3>8, <3>9
    <3> QED  BY <3>2, <3>7, <3>10 DEF Nodes
  <2> QED  BY <1>9, <2>1
<1>12. N = Remaining(R, path, Len(path))
  <2>1. ASSUME NEW n \in N PROVE n \in Remaining(R, path, Len(path))
    <3>1. n \in Seq(Byte) /\ (n = << >> \/ \E q \in S : Leads(n, PathOf(q)))
      BY <1>2, NodesAre
    <3>2. CASE n = << >> \/ \E q \in R : Leads(n, PathOf(q))
      BY <1>3, <3>1, <3>2, NodesAre DEF Remaining
    <3>3. CASE Leads(n, path)
      <4>1. Len(n) <= Len(path)
        BY <3>3 DEF Leads
      <4> QED  BY <3>1, <3>3, <4>1 DEF Remaining
    <3> QED  BY <1>0, <1>1, <3>1, <3>2, <3>3
  <2>2. ASSUME NEW n \in Remaining(R, path, Len(path)) PROVE n \in N
    <3>1. n \in Seq(Byte) /\ (n = << >> \/ \E q \in R \cup {p} : Leads(n, PathOf(q)))
      BY <1>0, <1>3, NodesAre DEF Remaining
    <3> QED  BY <1>1, <1>2, <3>1, NodesAre
  <2> QED  BY <2>1, <2>2
<1>13. TrieOf(u, N, R)
  <2>1. \A n \in N : u[n].branches = {b \in Byte : Append(n, b) \in N}
    BY <1>4, <1>9
  <2> QED  BY <1>10, <1>11, <2>1 DEF TrieOf, HomeOf
<1>14. TrieOf(Shrunk(u, path), NodesOf(R), R)
  BY <1>3, <1>12, <1>13, ShrunkKeeps
<1>15. u = [t EXCEPT ![path].prefixes = RemoveAt(@, i)]
  BY <1>5, <1>8
<1> QED  BY <1>0, <1>1, <1>14, <1>15

-----------------------------------------------------------------------------
(* Looking up. *)

\* The nodes on the way of a key.
LEMMA WayOfKey ==
  ASSUME NEW key \in LpmKey, NEW d \in 0 .. KeyBytes
  PROVE  /\ SubSeq(key, 1, d) \in Seq(Byte) /\ Len(SubSeq(key, 1, d)) = d
         /\ \A i \in 1 .. d : SubSeq(key, 1, d)[i] = key[i]
         /\ d < KeyBytes => Append(SubSeq(key, 1, d), key[d + 1]) = SubSeq(key, 1, d + 1)
         /\ \A e \in 0 .. d : Leads(SubSeq(key, 1, e), SubSeq(key, 1, d))
<1>0. KeyBytes \in Nat /\ d \in Nat
  BY TrieAssumption
<1>1. key \in Seq(Byte) /\ Len(key) = KeyBytes /\ \A i \in 1 .. KeyBytes : key[i] \in Byte
  BY KeyIsSeq
<1>2. ASSUME NEW e \in 0 .. KeyBytes
      PROVE  /\ SubSeq(key, 1, e) \in Seq(Byte) /\ Len(SubSeq(key, 1, e)) = e
             /\ \A i \in 1 .. e : SubSeq(key, 1, e)[i] = key[i]
  BY <1>1, UptoIs
<1>3. ASSUME d < KeyBytes PROVE Append(SubSeq(key, 1, d), key[d + 1]) = SubSeq(key, 1, d + 1)
  <2>1. d + 1 \in 0 .. KeyBytes /\ d + 1 \in 1 .. KeyBytes
    BY <1>0, <1>3
  <2>2. PICK s : s = SubSeq(key, 1, d)
    OBVIOUS
  <2>3. PICK b : b = key[d + 1]
    OBVIOUS
  <2>4. PICK u : u = SubSeq(key, 1, d + 1)
    OBVIOUS
  <2>5. s \in Seq(Byte) /\ Len(s) = d /\ (\A i \in 1 .. d : s[i] = key[i]) /\ b \in Byte
    BY <1>1, <1>2, <2>1, <2>2, <2>3
  <2>6. u \in Seq(Byte) /\ Len(u) = d + 1 /\ (\A i \in 1 .. d + 1 : u[i] = key[i])
    BY <1>2, <2>1, <2>4
  <2>7. Append(s, b) \in Seq(Byte) /\ Len(Append(s, b)) = d + 1 /\ (\A i \in 1 .. d : Append(s, b)[i] = s[i])
          /\ Append(s, b)[d + 1] = b
    BY ONLY <2>5
  <2>8. ASSUME NEW i \in 1 .. d + 1 PROVE Append(s, b)[i] = u[i]
    <3>1. i \in 1 .. d \/ i = d + 1
      BY <1>0
    <3> QED  BY <2>3, <2>5, <2>6, <2>7, <3>1
  <2>9. Append(s, b) = u
    BY <2>6, <2>7, <2>8, SameSeq
  <2> QED  BY <2>2, <2>3, <2>4, <2>9
<1>4. ASSUME NEW e \in 0 .. d PROVE Leads(SubSeq(key, 1, e), SubSeq(key, 1, d))
  <2>1. e \in 0 .. KeyBytes /\ e <= d /\ \A i \in 1 .. e : i \in 1 .. d
    BY <1>0
  <2> QED  BY <1>2, <2>1 DEF Leads
<1> QED  BY <1>2, <1>3, <1>4

\* A way goes on.
LEMMA LeadsOn ==
  ASSUME NEW m \in Seq(Byte), NEW n \in Seq(Byte), NEW s \in Seq(Byte), Leads(m, n), Leads(n, s)
  PROVE  Leads(m, s)
<1>1. Len(m) \in Nat /\ Len(n) \in Nat /\ Len(s) \in Nat
  OBVIOUS
<1>2. Len(m) <= Len(n) /\ Len(n) <= Len(s)
  BY DEF Leads
<1>3. \A i \in 1 .. Len(m) : i \in 1 .. Len(n)
  BY <1>1, <1>2
<1> QED  BY <1>1, <1>2, <1>3 DEF Leads

\* The branches lead to a node that is there.
LEMMA ReachedIs ==
  ASSUME TrieInv, NEW key \in LpmKey, NEW d \in 0 .. KeyBytes
  PROVE  Reached(key, d) <=> SubSeq(key, 1, d) \in NodesOf(stored)
<1> DEFINE N == NodesOf(stored)
           At(e) == SubSeq(key, 1, e)
<1>0. KeyBytes \in Nat /\ d \in Nat /\ d <= KeyBytes
  BY TrieAssumption
<1>1. DOMAIN trie = N /\ \A n \in N : trie[n].branches = {b \in Byte : Append(n, b) \in N}
  BY DEF TrieInv, TrieOf
<1>2. stored \subseteq KeyPrefix
  BY DEF TrieInv
<1>3. \A n : n \in N <=> n \in Seq(Byte) /\ (n = << >> \/ \E p \in stored : Leads(n, PathOf(p)))
  BY <1>2, NodesAre
<1> HIDE DEF N
<1>4. ASSUME NEW e \in 0 .. d - 1, At(e) \in N PROVE key[e + 1] \in trie[At(e)].branches <=> At(e + 1) \in N
  <2>1. e \in 0 .. KeyBytes /\ e < KeyBytes /\ e + 1 \in 1 .. KeyBytes
    BY <1>0
  <2>2. Append(At(e), key[e + 1]) = At(e + 1) /\ key[e + 1] \in Byte
    BY <2>1, WayOfKey, KeyIsSeq
  <2> HIDE DEF At
  <2>3. trie[At(e)].branches = {b \in Byte : Append(At(e), b) \in N}
    BY <1>1, <1>4
  <2> QED  BY <2>2, <2>3
<1>5. ASSUME At(d) \in N, NEW e \in 0 .. d PROVE At(e) \in N
  <2>1. e \in 0 .. KeyBytes
    BY <1>0
  <2>2. At(e) \in Seq(Byte) /\ At(d) \in Seq(Byte) /\ Leads(At(e), At(d)) /\ Len(At(d)) = d /\ Len(At(e)) = e
    BY <2>1, WayOfKey
  <2> HIDE DEF At
  <2>3. CASE At(d) = << >>
    <3>1. d = 0 /\ e = d
      BY <1>0, <2>2, <2>3
    <3> QED  BY <1>5, <3>1
  <2>4. CASE At(d) # << >>
    <3>1. PICK p \in stored : Leads(At(d), PathOf(p))
      BY <1>3, <1>5, <2>4
    <3>2. PathOf(p) \in Seq(Byte)
      BY <1>2, PathIs
    <3>3. Leads(At(e), PathOf(p))
      BY <2>2, <3>1, <3>2, LeadsOn
    <3> QED  BY <1>3, <2>2, <3>3
  <2> QED  BY <2>3, <2>4
<1>6. ASSUME At(d) \in N PROVE Reached(key, d)
  <2>1. ASSUME NEW e \in 0 .. d - 1 PROVE At(e) \in DOMAIN trie /\ key[e + 1] \in trie[At(e)].branches
    <3>1. e \in 0 .. d /\ e + 1 \in 0 .. d
      BY <1>0
    <3>2. At(e) \in N /\ At(e + 1) \in N
      BY <1>5, <1>6, <3>1
    <3> QED  BY <1>1, <1>4, <3>2
  <2> QED  BY <2>1 DEF Reached
<1>7. ASSUME Reached(key, d) PROVE At(d) \in N
  <2>1. CASE d = 0
    <3>1. At(0) \in Seq(Byte) /\ Len(At(0)) = 0
      BY <2>1, WayOfKey
    <3>2. At(0) = << >>
      BY <3>1
    <3> QED  BY <1>3, <2>1, <3>1, <3>2
  <2>2. CASE d # 0
    <3>1. PICK e \in 0 .. d - 1 : e + 1 = d
      <4>1. d - 1 \in 0 .. d - 1 /\ (d - 1) + 1 = d
        BY <1>0, <2>2
      <4> QED  BY <4>1
    <3>2. At(e) \in DOMAIN trie /\ key[e + 1] \in trie[At(e)].branches
      BY <1>7 DEF Reached
    <3> QED  BY <1>1, <1>4, <3>1, <3>2
  <2> QED  BY <2>1, <2>2
<1> QED  BY <1>6, <1>7 DEF N

\* The i-th entry of a node is of a prefix that covers the key, one that is no
\* shorter than the others of the node.
BestHere(S, v, key, i) ==
  /\ i \in 1 .. Len(v) /\ v[i].value \in S /\ v[i] = PrefixEntry(v[i].value) /\ Covers(v[i].value, key)
  /\ \A q \in S : Covers(q, key) => RestLen(q) <= RestLen(v[i].value)

\* What a lookup takes from a node is the best of the node.
LEMMA MatchIs ==
  ASSUME NEW key \in LpmKey, NEW d \in 0 .. KeyBytes, NEW S, AtNode(S, SubSeq(key, 1, d)),
         NEW node, VectorOf(node.prefixes, S)
  PROVE  /\ MatchIn(node, key, d) # 0 => BestHere(S, node.prefixes, key, MatchIn(node, key, d))
         /\ MatchIn(node, key, d) = 0 => \A q \in S : ~Covers(q, key)
<1>0. KeyBytes \in Nat /\ d \in Nat
  BY TrieAssumption
<1>1. PICK v : v = node.prefixes
  OBVIOUS
<1>2. VectorOf(v, S) /\ v \in Seq({PrefixEntry(p) : p \in S}) /\ Len(v) \in Nat
        /\ \A i, j \in 1 .. Len(v) : i < j => PrefixBefore(v[i], v[j])
  BY <1>1 DEF VectorOf
<1>3. ASSUME NEW q \in S
      PROVE  /\ q \in KeyPrefix /\ Len(PathOf(q)) = d /\ RestLen(q) \in Nat /\ RestKey(q) \in Nat
             /\ Covers(q, key) <=> (d < KeyBytes => HighBits(key[d + 1], RestLen(q)) = RestKey(q))
             /\ d = KeyBytes => RestLen(q) = 0 /\ RestKey(q) = 0
  <2>1. q \in KeyPrefix /\ PathOf(q) = SubSeq(key, 1, d)
    BY DEF AtNode
  <2>2. Len(PathOf(q)) = d
    BY <2>1, WayOfKey
  <2>3. RestLen(q) \in Nat /\ RestKey(q) \in Nat /\ (d = KeyBytes => RestLen(q) = 0 /\ RestKey(q) = 0)
    BY <2>1, <2>2, RestIs
  <2>4. Covers(q, key) <=> /\ PathOf(q) = SubSeq(key, 1, Len(PathOf(q)))
                           /\ Len(PathOf(q)) < KeyBytes => HighBits(key[Len(PathOf(q)) + 1], RestLen(q)) = RestKey(q)
    BY <2>1, CoversIs
  <2> QED  BY <2>1, <2>2, <2>3, <2>4
<1>4. ASSUME NEW i \in 1 .. Len(v)
      PROVE  v[i].value \in S /\ v[i] = PrefixEntry(v[i].value)
             /\ v[i].len = RestLen(v[i].value) /\ v[i].key = RestKey(v[i].value)
  <2>1. PICK q \in S : v[i] = PrefixEntry(q)
    BY <1>2, PlaceHasPrefix
  <2>2. PrefixEntry(q).value = q /\ PrefixEntry(q).len = RestLen(q) /\ PrefixEntry(q).key = RestKey(q)
    BY DEF PrefixEntry
  <2> QED  BY <2>1, <2>2
<1>5. CASE d = KeyBytes
  <2>1. ASSUME NEW i \in 1 .. Len(v) PROVE v[i].len = 0
    BY <1>3, <1>4, <1>5
  <2>2. ASSUME NEW q \in S PROVE Covers(q, key)
    BY <1>0, <1>3, <1>5
  <2>3. CASE v = << >>
    <3>1. MatchIn(node, key, d) = 0
      BY <1>1, <1>5, <2>3 DEF MatchIn
    <3>2. S = {}
      BY <1>2, <2>3 DEF VectorOf
    <3> QED  BY <3>1, <3>2
  <2>4. CASE v # << >>
    <3>1. Len(v) \in 1 .. Len(v)
      BY <1>2, <2>4
    <3>2. MatchIn(node, key, d) = Len(v) /\ Len(v) # 0
      BY <1>1, <1>2, <1>5, <2>1, <2>4, <3>1 DEF MatchIn, Last
    <3>3. BestHere(S, v, key, Len(v))
      <4>1. \A q \in S : RestLen(q) = 0
        BY <1>3, <1>5
      <4>2. v[Len(v)].value \in S /\ v[Len(v)] = PrefixEntry(v[Len(v)].value)
        BY <1>4, <3>1
      <4>3. \A q \in S : RestLen(q) <= RestLen(v[Len(v)].value)
        BY <4>1, <4>2
      <4> QED  BY <2>2, <3>1, <4>2, <4>3 DEF BestHere
    <3> QED  BY <1>1, <3>2, <3>3
  <2> QED  BY <2>3, <2>4
<1>6. CASE d # KeyBytes
  <2>0. d < KeyBytes
    BY <1>0, <1>6
  <2> DEFINE I == {i \in 1 .. Len(v) : HighBits(key[d + 1], v[i].len) = v[i].key}
  <2>1. MatchIn(node, key, d) = IF I # {} THEN Min(I) ELSE 0
    BY <1>1, <1>6 DEF MatchIn, SelectInSeq
  <2>2. I \subseteq Nat /\ 0 \notin I /\ I \subseteq 1 .. Len(v)
    BY <1>2
  <2>3. ASSUME NEW i \in 1 .. Len(v) PROVE i \in I <=> Covers(v[i].value, key)
    BY <1>3, <1>4, <2>0
  <2> HIDE DEF I
  <2>4. ASSUME NEW q \in S, Covers(q, key) PROVE \E i \in I : v[i] = PrefixEntry(q) /\ v[i].value = q
    <3>1. PICK i \in 1 .. Len(v) : v[i] = PrefixEntry(q)
      BY <1>2 DEF VectorOf
    <3>2. v[i].value = q
      BY <3>1 DEF PrefixEntry
    <3> QED  BY <2>3, <2>4, <3>1, <3>2
  <2>5. CASE I = {}
    BY <2>1, <2>4, <2>5
  <2>6. CASE I # {}
    <3>1. PICK i : i = Min(I)
      OBVIOUS
    <3>2. i \in I /\ (\A j \in I : i =< j) /\ i \in 1 .. Len(v) /\ i # 0
      BY <2>2, <2>6, <3>1, MinIs
    <3>3. v[i].value \in S /\ v[i] = PrefixEntry(v[i].value) /\ v[i].len = RestLen(v[i].value) /\ Covers(v[i].value, key)
      BY <1>4, <2>3, <3>2
    <3>4. ASSUME NEW q \in S, Covers(q, key) PROVE RestLen(q) <= RestLen(v[i].value)
      <4>1. PICK j \in I : v[j] = PrefixEntry(q) /\ v[j].value = q
        BY <2>4, <3>4
      <4>2. j \in 1 .. Len(v) /\ i <= j /\ v[j].len = RestLen(q)
        BY <1>4, <2>2, <3>2, <4>1
      <4>3. RestLen(q) \in Nat /\ RestLen(v[i].value) \in Nat
        BY <1>3, <3>3
      <4>4. CASE i = j
        BY <4>1, <4>3, <4>4
      <4>5. CASE i < j
        <5>1. PrefixBefore(v[i], v[j])
          BY <1>2, <3>2, <4>2, <4>5
        <5> QED  BY <3>3, <4>2, <4>3, <5>1 DEF PrefixBefore
      <4>6. i \in Int /\ j \in Int
        BY <1>2, <3>2, <4>2
      <4> QED  BY <4>2, <4>4, <4>5, <4>6
    <3>5. BestHere(S, v, key, i)
      BY <3>2, <3>3, <3>4 DEF BestHere
    <3> QED  BY <1>1, <2>1, <2>6, <3>1, <3>2, <3>5
  <2> QED  BY <2>5, <2>6
<1> QED  BY <1>5, <1>6

\* A prefix that ends in a deeper node, or later in the same, is longer.
LEMMA DeeperIsLonger ==
  ASSUME NEW p \in KeyPrefix, NEW q \in KeyPrefix,
         \/ Len(PathOf(p)) < Len(PathOf(q))
         \/ Len(PathOf(p)) = Len(PathOf(q)) /\ RestLen(p) <= RestLen(q)
  PROVE  p.len <= q.len
<1>0. ByteBits \in Nat
  BY TrieAssumption
<1>1. PICK d, e, r, s \in Nat : /\ d = Len(PathOf(p)) /\ e = Len(PathOf(q)) /\ r = RestLen(p) /\ s = RestLen(q)
                                /\ r < ByteBits
  <2>1. /\ Len(PathOf(p)) \in Nat /\ Len(PathOf(q)) \in Nat
        /\ RestLen(p) \in Nat /\ RestLen(q) \in Nat /\ RestLen(p) < ByteBits
    <3>1. PathOf(p) \in Seq(Byte) /\ PathOf(q) \in Seq(Byte)
      BY PathIs
    <3>2. RestLen(p) \in 0 .. ByteBits - 1 /\ RestLen(q) \in 0 .. ByteBits - 1
      BY RestIs
    <3>3. Len(PathOf(p)) \in Nat /\ Len(PathOf(q)) \in Nat
      BY <3>1
    <3> QED  BY <1>0, <3>2, <3>3
  <2> QED  BY <2>1
<1>2. p.len = ByteBits * d + r /\ q.len = ByteBits * e + s
  BY <1>1, RestIs
<1>3. ByteBits * d \in Nat /\ ByteBits * e \in Nat
  BY <1>0, <1>1
<1>4. CASE d < e
  <2>1. PICK k \in Nat : e = d + 1 + k
    <3>1. e - d - 1 \in Nat
      BY <1>1, <1>4
    <3>2. e = d + 1 + (e - d - 1)
      OBVIOUS
    <3> QED  BY <3>1, <3>2
  <2>2. ByteBits * e = ByteBits * d + ByteBits + ByteBits * k
    BY <1>0, <1>1, <2>1
  <2>3. ByteBits * k \in Nat
    BY <1>0, <2>1
  <2>4. PICK x, y, z \in Nat : x = ByteBits * d /\ y = ByteBits * e /\ z = ByteBits * k
    BY <1>3, <2>3
  <2>5. p.len = x + r /\ q.len = y + s /\ y = x + ByteBits + z /\ r < ByteBits
    BY <1>1, <1>2, <2>2, <2>4
  <2> QED  BY <1>0, <2>5
<1>5. CASE d = e /\ r <= s
  BY <1>0, <1>1, <1>2, <1>3, <1>5
<1> QED  BY <1>1, <1>4, <1>5

\* Two prefixes of the same length that cover the same key are the same.
LEMMA CoveringOfLength ==
  ASSUME NEW p \in KeyPrefix, NEW q \in KeyPrefix, NEW key \in LpmKey,
         Covers(p, key), Covers(q, key), p.len = q.len
  PROVE  p = q
<1>1. PICK d : d = p.len \div ByteBits
  OBVIOUS
<1>2. d \in 0 .. KeyBytes /\ Len(PathOf(p)) = d /\ Len(PathOf(q)) = d /\ RestLen(p) = RestLen(q)
  BY <1>1, PathIs DEF RestLen
<1>3. /\ PathOf(p) = SubSeq(key, 1, d) /\ (d < KeyBytes => HighBits(key[d + 1], RestLen(p)) = RestKey(p))
      /\ PathOf(q) = SubSeq(key, 1, d) /\ (d < KeyBytes => HighBits(key[d + 1], RestLen(q)) = RestKey(q))
  BY <1>2, CoversIs
<1>4. d = KeyBytes => RestKey(p) = 0 /\ RestKey(q) = 0
  BY <1>2, RestIs
<1>5. d < KeyBytes \/ d = KeyBytes
  <2>1. KeyBytes \in Nat
    BY TrieAssumption
  <2> QED  BY <1>2, <2>1
<1>6. RestKey(p) = RestKey(q)
  BY <1>2, <1>3, <1>4, <1>5
<1> QED  BY <1>2, <1>3, <1>6, PrefixTold

\* A lookup returns the longest stored prefix that covers the key.
LEMMA LookupIsLongest ==
  ASSUME TrieInv, NEW key \in LpmKey
  PROVE  TrieLookup(key) = LongestPrefix(key)
<1> DEFINE At(d) == SubSeq(key, 1, d)
           found == {d \in 0 .. KeyBytes : Reached(key, d) /\ MatchIn(trie[At(d)], key, d) # 0}
           covering == {p \in stored : Covers(p, key)}
<1>0. KeyBytes \in Nat /\ stored \subseteq KeyPrefix
  BY TrieAssumption DEF TrieInv
<1>1. ASSUME NEW d \in 0 .. KeyBytes, Reached(key, d)
      PROVE  LET S == HomeOf(stored, At(d))
                 i == MatchIn(trie[At(d)], key, d)
             IN  /\ i # 0 => BestHere(S, trie[At(d)].prefixes, key, i)
                 /\ i = 0 => \A q \in S : ~Covers(q, key)
  <2>1. At(d) \in NodesOf(stored)
    BY <1>1, ReachedIs
  <2>2. VectorOf(trie[At(d)].prefixes, HomeOf(stored, At(d)))
    BY <2>1 DEF TrieInv, TrieOf, HomeOf
  <2>3. AtNode(HomeOf(stored, At(d)), At(d))
    BY <1>0, HomeIs
  <2> HIDE DEF At
  <2> QED  BY <2>2, <2>3, MatchIs DEF At
<1>2. ASSUME NEW p \in covering
      PROVE  Len(PathOf(p)) \in found /\ p \in HomeOf(stored, At(Len(PathOf(p))))
  <2>1. p \in KeyPrefix /\ p \in stored /\ Covers(p, key)
    BY <1>0
  <2>2. PICK d \in 0 .. KeyBytes : d = Len(PathOf(p))
    BY <2>1, PathIs
  <2>3. PathOf(p) = At(d)
    BY <2>1, <2>2, CoversIs
  <2>4. p \in HomeOf(stored, At(d))
    BY <2>1, <2>3 DEF HomeOf
  <2>5. At(d) \in NodesOf(stored)
    BY <1>0, <2>1, <2>3, NodesAre
  <2>6. Reached(key, d)
    BY <2>5, ReachedIs
  <2>7. MatchIn(trie[At(d)], key, d) # 0
    BY <1>1, <2>1, <2>4, <2>6
  <2> QED  BY <2>2, <2>4, <2>6, <2>7
<1>3. CASE found = {}
  <2>1. covering = {}
    BY <1>2, <1>3
  <2>2. TrieLookup(key) = NoValue
    BY <1>3 DEF TrieLookup
  <2> QED  BY <2>1, <2>2 DEF LongestPrefix
<1>4. CASE found # {}
  <2>1. PICK d : d = Max(found)
    OBVIOUS
  <2>2. d \in found /\ \A e \in found : d >= e
    <3>1. found \subseteq 0 .. KeyBytes
      OBVIOUS
    <3> HIDE DEF found
    <3> QED  BY <1>0, <1>4, <2>1, <3>1, MaxIs
  <2>3. PICK i : i = MatchIn(trie[At(d)], key, d)
    OBVIOUS
  <2>4. PICK p : p = trie[At(d)].prefixes[i].value
    OBVIOUS
  <2>5. TrieLookup(key) = p
    BY <1>4, <2>1, <2>3, <2>4 DEF TrieLookup
  <2>6. /\ p \in HomeOf(stored, At(d)) /\ Covers(p, key) /\ d \in 0 .. KeyBytes
        /\ \A q \in HomeOf(stored, At(d)) : Covers(q, key) => RestLen(q) <= RestLen(p)
    BY <1>1, <2>2, <2>3, <2>4 DEF BestHere
  <2>7. p \in covering /\ p \in KeyPrefix /\ Len(PathOf(p)) = d
    <3>1. p \in stored /\ PathOf(p) = At(d)
      BY <2>6 DEF HomeOf
    <3> QED  BY <1>0, <2>6, <3>1, WayOfKey
  <2>8. ASSUME NEW q \in covering PROVE q \in KeyPrefix /\ q.len =< p.len
    <3>1. q \in KeyPrefix /\ Covers(q, key)
      BY <1>0
    <3>2. PICK e : e = Len(PathOf(q))
      OBVIOUS
    <3>3. e \in found /\ q \in HomeOf(stored, At(e)) /\ e <= d /\ e \in Nat /\ d \in Nat
      BY <1>2, <2>2, <3>2
    <3>4. CASE e = d
      BY <2>6, <2>7, <3>1, <3>2, <3>3, <3>4, DeeperIsLonger
    <3>5. CASE e < d
      BY <2>7, <3>1, <3>2, <3>5, DeeperIsLonger
    <3> QED  BY <3>1, <3>3, <3>4, <3>5
  <2>9. ASSUME NEW r \in covering, \A q \in covering : q.len =< r.len PROVE r = p
    <3>1. r \in KeyPrefix /\ Covers(r, key) /\ r.len =< p.len /\ p.len =< r.len
      BY <2>7, <2>8, <2>9
    <3>2. r.len \in Int /\ p.len \in Int
      BY <2>7, <3>1, PrefixIs
    <3>3. r.len = p.len
      BY <3>1, <3>2
    <3> QED  BY <2>6, <2>7, <3>1, <3>3, CoveringOfLength
  <2>10. LongestPrefix(key) = CHOOSE r \in covering : \A q \in covering : q.len =< r.len
    BY <2>7 DEF LongestPrefix
  <2> HIDE DEF covering
  <2>11. \A q \in covering : q.len =< p.len
    BY <2>8
  <2>12. (CHOOSE r \in covering : \A q \in covering : q.len =< r.len) = p
    BY <2>7, <2>9, <2>11
  <2> QED  BY <2>5, <2>10, <2>12
<1> QED  BY <1>3, <1>4

-----------------------------------------------------------------------------
(* The trie as a whole. *)

\* The new trie has a root.
LEMMA TrieBegins == TrieInit => TrieInv
<1> SUFFICES ASSUME TrieInit PROVE TrieInv  OBVIOUS
<1>2. NodesOf({}) = {<< >>}
  BY DEF NodesOf
<1>3. trie = [n \in {<< >>} |-> NewNode] /\ stored = {}
  BY DEF TrieInit
<1>4. NewNode \in Nodes({}) /\ NewNode.branches = {} /\ NewNode.prefixes = << >>
  BY DEF NewNode, Nodes
<1>5. \A b \in Byte : Append(<< >>, b) \notin {<< >>}
  <2>1. << >> \in Seq(Byte)
    OBVIOUS
  <2> QED  BY <2>1, ChildOnTheWay
<1>6. {p \in {} : PathOf(p) = << >>} = {}
  OBVIOUS
<1>7. TrieOf(trie, {<< >>}, {})
  BY <1>3, <1>4, <1>5, <1>6, EmptyVector DEF TrieOf
<1> QED  BY <1>2, <1>3, <1>7 DEF TrieInv

\* Every call keeps the trie the one that the stored prefixes need.
LEMMA TrieStep == TrieInv /\ [TrieNext]_trieVars => TrieInv'
<1> SUFFICES ASSUME TrieInv, [TrieNext]_trieVars PROVE TrieInv'  OBVIOUS
<1>0. stored \subseteq KeyPrefix /\ TrieOf(trie, NodesOf(stored), stored)
  BY DEF TrieInv
<1>1. ASSUME NEW p \in KeyPrefix, TrieInsert(p) PROVE TrieInv'
  <2>1. PICK u : u = trie'
    OBVIOUS
  <2>2. p \notin stored /\ stored' = stored \cup {p}
    BY <1>1 DEF TrieInsert
  <2>3. u = [n \in DOMAIN trie \cup Prefixes(PathOf(p)) |->
               IF ~IsPrefix(n, PathOf(p)) THEN trie[n]
               ELSE [branches |-> IF n = PathOf(p) THEN NodeAt(trie, n).branches
                                  ELSE NodeAt(trie, n).branches \cup {PathOf(p)[Len(n) + 1]},
                     prefixes |-> IF n # PathOf(p) THEN NodeAt(trie, n).prefixes
                                  ELSE InsertPrefix(NodeAt(trie, n).prefixes, PrefixEntry(p))]]
    BY <1>1, <2>1 DEF TrieInsert, NodeAt
  <2>4. TrieOf(u, NodesOf(stored \cup {p}), stored \cup {p})
    BY <1>0, <2>2, <2>3, InsertKeeps
  <2> QED  BY <1>0, <2>1, <2>2, <2>4 DEF TrieInv
<1>2. ASSUME NEW p \in stored, TrieDelete(p) PROVE TrieInv'
  <2>1. PICK u : u = trie'
    OBVIOUS
  <2>2. PICK i : i = GetPrefix(trie[PathOf(p)], RestLen(p), RestKey(p))
    OBVIOUS
  <2>3. stored' = stored \ {p} /\ u = Shrunk([trie EXCEPT ![PathOf(p)].prefixes = RemoveAt(@, i)], PathOf(p))
    BY <1>2, <2>1, <2>2 DEF TrieDelete
  <2>4. TrieOf(u, NodesOf(stored \ {p}), stored \ {p})
    BY <1>0, <2>2, <2>3, DeleteKeeps
  <2> QED  BY <1>0, <2>1, <2>3, <2>4 DEF TrieInv
<1>3. CASE TrieClear
  <2>1. TrieInit'
    BY <1>3 DEF TrieClear, TrieInit
  <2> QED  BY <2>1, TrieBegins, PTL
<1>4. CASE UNCHANGED trieVars
  <2>1. trie' = trie /\ stored' = stored
    BY <1>4 DEF trieVars
  <2> QED  BY <1>0, <2>1 DEF TrieInv
<1> QED  BY <1>1, <1>2, <1>3, <1>4 DEF TrieNext

\* has_prefix follows the branches to what is stored.
LEMMA StoredIsFound == TrieInv => \A p \in stored : HasPrefix(p)
<1> SUFFICES ASSUME TrieInv, NEW p \in stored PROVE HasPrefix(p)  OBVIOUS
<1>0. stored \subseteq KeyPrefix /\ TrieOf(trie, NodesOf(stored), stored)
  BY DEF TrieInv
<1>1. PICK path : path = PathOf(p)
  OBVIOUS
<1>2. path \in Seq(Byte) /\ path \in NodesOf(stored) /\ p \in KeyPrefix
  BY <1>0, <1>1, PathIs, NodesAre
<1>3. ASSUME NEW n \in 1 .. Len(path) PROVE path[n] \in trie[SubSeq(path, 1, n - 1)].branches
  <2>1. PICK m \in 0 .. Len(path) : m = n - 1 /\ m + 1 = n /\ m < Len(path)
    <3>1. Len(path) \in Nat
      BY <1>2
    <3>2. n - 1 \in 0 .. Len(path) /\ (n - 1) + 1 = n /\ n - 1 < Len(path)
      BY <3>1
    <3> QED  BY <3>2
  <2>2. PICK s : s = SubSeq(path, 1, m)
    OBVIOUS
  <2>3. s \in Seq(Byte) /\ Len(s) = m /\ \A i \in 1 .. m : s[i] = path[i]
    BY <1>2, <2>2, UptoIs
  <2>4. Leads(s, path)
    BY <2>1, <2>3 DEF Leads
  <2>5. path[n] \in Byte
    BY <1>2
  <2>6. Leads(Append(s, path[n]), path) /\ Append(s, path[n]) \in Seq(Byte)
    BY <1>2, <2>1, <2>3, <2>4, <2>5, ChildOnTheWay
  <2>7. s \in NodesOf(stored) /\ Append(s, path[n]) \in NodesOf(stored)
    BY <1>0, <1>1, <2>3, <2>4, <2>6, NodesAre
  <2>8. path[n] \in trie[s].branches
    BY <1>0, <2>5, <2>7 DEF TrieOf
  <2> QED  BY <2>1, <2>2, <2>8
<1>4. GetPrefix(trie[path], RestLen(p), RestKey(p)) # 0
  <2>1. VectorOf(trie[path].prefixes, HomeOf(stored, path))
    BY <1>0, <1>2 DEF TrieOf, HomeOf
  <2>2. AtNode(HomeOf(stored, path), path) /\ p \in HomeOf(stored, path)
    BY <1>0, <1>1, HomeIs DEF HomeOf
  <2>3. PICK v : v = trie[path].prefixes
    OBVIOUS
  <2>4. GetPrefix(trie[path], RestLen(p), RestKey(p)) \in 1 .. Len(v)
    BY <1>1, <1>2, <2>1, <2>2, <2>3, GetPrefixIs
  <2>5. Len(v) \in Nat
    BY <2>1, <2>3 DEF VectorOf
  <2> QED  BY <2>4, <2>5
<1> QED  BY <1>1, <1>3, <1>4 DEF HasPrefix

\* Such a trie answers lookups and has no idle node.
LEMMA TrieHas == TrieInv => TrieLookups
<1> SUFFICES ASSUME TrieInv PROVE TrieLookups  OBVIOUS
<1>0. stored \subseteq KeyPrefix /\ TrieOf(trie, NodesOf(stored), stored) /\ KeyBytes \in Nat /\ ByteBits \in Nat
  BY TrieAssumption DEF TrieInv
<1>1. DOMAIN trie = NodesOf(stored) /\ trie \in [NodesOf(stored) -> Nodes(stored)]
  BY <1>0 DEF TrieOf
<1>2. LookupIsLongestPrefix
  BY LookupIsLongest, StoredIsFound DEF LookupIsLongestPrefix
<1>3. NoEmptyNode
  <2> SUFFICES ASSUME NEW n \in NodesOf(stored)
               PROVE  /\ n # << >> => trie[n].branches # {} \/ trie[n].prefixes # << >>
                      /\ trie[n].branches = {b \in Byte : Append(n, b) \in NodesOf(stored)}
    BY <1>1 DEF NoEmptyNode
  <2>1. trie[n].branches = {b \in Byte : Append(n, b) \in NodesOf(stored)}
    BY <1>0 DEF TrieOf
  <2>2. ASSUME n # << >>, trie[n].branches = {} PROVE trie[n].prefixes # << >>
    <3>1. PICK p \in stored : Leads(n, PathOf(p))
      BY <1>0, <2>2, NodesAre
    <3>2. PathOf(p) \in Seq(Byte) /\ n \in Seq(Byte)
      BY <1>0, PathIs, NodesAre
    <3>3. n = PathOf(p)
      <4> SUFFICES ASSUME n # PathOf(p) PROVE FALSE  OBVIOUS
      <4>1. Len(n) # Len(PathOf(p))
        BY <3>1, <3>2, OnTheWay
      <4>2. Len(PathOf(p)) \in Nat /\ Len(n) \in Nat /\ Len(n) < Len(PathOf(p))
        BY <3>1, <3>2, <4>1 DEF Leads
      <4>3. PICK b \in Byte : b = PathOf(p)[Len(n) + 1]
        <5>1. Len(n) + 1 \in 1 .. Len(PathOf(p))
          BY <4>2
        <5> QED  BY <3>2, <5>1
      <4>4. Leads(Append(n, b), PathOf(p)) /\ Append(n, b) \in Seq(Byte)
        BY <3>1, <3>2, <4>2, <4>3, ChildOnTheWay
      <4>5. Append(n, b) \in NodesOf(stored)
        BY <1>0, <4>4, NodesAre
      <4> QED  BY <2>1, <2>2, <4>5
    <3>4. VectorOf(trie[n].prefixes, HomeOf(stored, n)) /\ p \in HomeOf(stored, n)
      BY <1>0, <3>3 DEF TrieOf, HomeOf
    <3>5. \E i \in 1 .. Len(trie[n].prefixes) : trie[n].prefixes[i] = PrefixEntry(p)
      BY <3>4 DEF VectorOf
    <3>6. Len(<< >>) = 0
      OBVIOUS
    <3> QED  BY <3>5, <3>6
  <2> QED  BY <2>1, <2>2
<1>4. TrieTypeOK
  <2>1. ASSUME NEW n \in NodesOf(stored) PROVE n \in Paths
    <3>1. n \in Seq(Byte) /\ (n = << >> \/ \E p \in stored : Leads(n, PathOf(p)))
      BY <1>0, NodesAre
    <3>2. Len(n) \in 0 .. KeyBytes
      <4>1. CASE n = << >>
        BY <1>0, <4>1
      <4>2. ASSUME NEW p \in stored, Leads(n, PathOf(p)) PROVE Len(n) \in 0 .. KeyBytes
        <5>1. Len(PathOf(p)) \in 0 .. KeyBytes
          BY <1>0, PathIs
        <5>2. Len(n) \in Nat /\ Len(n) <= Len(PathOf(p))
          BY <3>1, <4>2 DEF Leads
        <5> QED  BY <1>0, <5>1, <5>2
      <4> QED  BY <3>1, <4>1, <4>2
    <3>3. n \in [1 .. Len(n) -> Byte]
      BY <3>1
    <3> QED  BY <3>2, <3>3 DEF Paths
  <2>2. ASSUME NEW n \in NodesOf(stored) PROVE trie[n].branches \subseteq Byte
    BY <1>0 DEF TrieOf
  <2>3. ASSUME NEW n \in NodesOf(stored), NEW i \in 1 .. Len(trie[n].prefixes)
        PROVE  trie[n].prefixes[i].len \in 0 .. ByteBits - 1
    <3>1. PICK v : v = trie[n].prefixes
      OBVIOUS
    <3>2. VectorOf(v, HomeOf(stored, n)) /\ i \in 1 .. Len(v)
      BY <1>0, <3>1 DEF TrieOf, HomeOf
    <3>3. PICK p \in HomeOf(stored, n) : v[i] = PrefixEntry(p)
      BY <3>2, PlaceHasPrefix
    <3>4. RestLen(p) \in 0 .. ByteBits - 1
      BY <1>0, RestIs DEF HomeOf
    <3> QED  BY <3>1, <3>3, <3>4 DEF PrefixEntry
  <2> QED  BY <1>0, <1>1, <2>1, <2>2, <2>3 DEF TrieTypeOK
<1> QED  BY <1>2, <1>3, <1>4 DEF TrieLookups

\* The inductive invariant of the trie: its nodes are those on the way to a stored
\* prefix, its branches lead from one to the next, and every node has the entries of
\* the prefixes that end in it, longest first.
THEOREM TrieInvariant == TrieSpec => []TrieInv
BY TrieBegins, TrieStep, PTL DEF TrieSpec

\* After any sequence of inserts, deletes and clears a lookup returns the longest
\* stored prefix that covers the key, has_prefix finds what is stored, and no node is
\* left that no prefix needs (bf_lpm_trie.c).
THEOREM LookupsAreLongest == TrieSpec => []TrieLookups
BY TrieInvariant, TrieHas, PTL

-----------------------------------------------------------------------------
(* ParseValueSet.  Fields side by side. *)

\* Where each of n fields ends when they are laid side by side.
Ends(e, w, n) ==
  e \in [0 .. n -> Nat] /\ e[0] = 0 /\ \A f \in 1 .. n : e[f] = e[f - 1] + w[f]

\* The ends of fields, which FieldEnd and KeyEnd compute.
LEMMA EndsExist ==
  ASSUME NEW n \in Nat, NEW w \in [1 .. n -> Nat]
  PROVE  \E e : Ends(e, w, n)
<1> DEFINE step == [f \in 1 .. n |-> [x \in Nat |-> x + w[f]]]
<1>1. step \in StepsOf(n, Nat)
  BY DEF StepsOf
<1>2. PICK e : e \in RunsOf(n, Nat, 0, step)
  <2> HIDE DEF step
  <2> QED  BY <1>1, Iterates
<1>3. \A f \in 1 .. n : f - 1 \in 0 .. n
  OBVIOUS
<1>4. e \in [0 .. n -> Nat] /\ e[0] = 0 /\ \A f \in 1 .. n : e[f] = e[f - 1] + w[f]
  BY <1>2, <1>3 DEF RunsOf
<1> QED  BY <1>4 DEF Ends

\* A field ends where the next one begins, or before.
LEMMA EndsGrow ==
  ASSUME NEW n \in Nat, NEW w \in [1 .. n -> Nat], NEW e, Ends(e, w, n),
         NEW f \in 0 .. n, NEW g \in f .. n
  PROVE  e[f] <= e[g]
<1> DEFINE S == {k \in 0 .. n - f : e[f] <= e[f + k]}
<1>0. e \in [0 .. n -> Nat] /\ \A h \in 1 .. n : e[h] = e[h - 1] + w[h]
  BY DEF Ends
<1>1. 0 \in S
  BY <1>0
<1>2. ASSUME NEW k \in 1 .. n - f, k - 1 \in S PROVE k \in S
  <2>1. f + k \in 1 .. n /\ f + k - 1 \in 0 .. n /\ f + (k - 1) = f + k - 1 /\ k \in 0 .. n - f
    OBVIOUS
  <2>2. e[f + k] = e[f + k - 1] + w[f + k]
    BY <1>0, <2>1
  <2>3. e[f] <= e[f + k - 1] /\ e[f] \in Nat /\ e[f + k - 1] \in Nat /\ w[f + k] \in Nat
    BY <1>0, <1>2, <2>1
  <2>4. e[f] <= e[f + k]
    BY <2>2, <2>3
  <2> QED  BY <2>1, <2>4
<1>3. \A k \in 0 .. n - f : k \in S
  <2>1. n - f \in Nat
    OBVIOUS
  <2> HIDE DEF S
  <2> QED  BY <1>1, <1>2, <2>1, UpTo
<1>4. g - f \in 0 .. n - f /\ f + (g - f) = g
  OBVIOUS
<1> QED  BY <1>3, <1>4

\* Every bit is a bit of one field.
LEMMA OneField ==
  ASSUME NEW n \in Nat, NEW w \in [1 .. n -> Nat], NEW e, Ends(e, w, n), NEW p \in 1 .. e[n]
  PROVE  /\ \E f \in 1 .. n : e[f - 1] < p /\ p <= e[f]
         /\ \A f, g \in 1 .. n :
              e[f - 1] < p /\ p <= e[f] /\ e[g - 1] < p /\ p <= e[g] => f = g
<1>0. e \in [0 .. n -> Nat] /\ e[0] = 0
  BY DEF Ends
<1> DEFINE S == {f \in 0 .. n : p <= e[f]}
<1>1. n \in S /\ S \subseteq Nat
  BY <1>0
<1>2. PICK f \in S : \A g \in S : f <= g
  <2> HIDE DEF S
  <2> QED  BY <1>1, LeastNatural
<1>3. f \in 1 .. n /\ f - 1 \in 0 .. n /\ f - 1 \notin S
  BY <1>0, <1>2
<1>4. e[f - 1] < p /\ p <= e[f]
  BY <1>0, <1>2, <1>3
<1>5. ASSUME NEW g \in 1 .. n, NEW h \in 1 .. n, e[g - 1] < p, p <= e[h], h < g PROVE FALSE
  <2>1. h \in 0 .. n /\ g - 1 \in h .. n
    BY <1>5
  <2>2. e[h] <= e[g - 1]
    BY <2>1, EndsGrow
  <2>3. e[h] \in Nat /\ e[g - 1] \in Nat /\ p \in Nat
    BY <1>0, <2>1
  <2> QED  BY <1>5, <2>2, <2>3
<1>6. ASSUME NEW g \in 1 .. n, NEW h \in 1 .. n, e[g - 1] < p, p <= e[g], e[h - 1] < p, p <= e[h]
      PROVE  g = h
  <2>1. ~(h < g) /\ ~(g < h)
    BY <1>5, <1>6
  <2> QED  BY <2>1
<1> QED  BY <1>3, <1>4, <1>6

\* The bytes that hold n bits are enough.
LEMMA BytesHold ==
  ASSUME NEW n \in Nat
  PROVE  ByteBitsOf(n) \in Nat /\ n <= ByteBitsOf(n)
<1>0. VsByte \in Nat /\ VsByte > 0
  BY ValueSetAssumption
<1>1. PICK b : b = n + VsByte - 1
  OBVIOUS
<1>2. b \in Nat
  BY <1>0, <1>1
<1>3. b \div VsByte \in Nat /\ b % VsByte \in 0 .. VsByte - 1
      /\ b = VsByte * (b \div VsByte) + (b % VsByte)
  BY <1>0, <1>2, DivisionHasRest
<1>4. PICK q : q = b \div VsByte
  OBVIOUS
<1>5. PICK x : x = q * VsByte
  OBVIOUS
<1>6. q \in Nat /\ x \in Nat /\ x = VsByte * q
  <2>1. q \in Nat
    BY <1>3, <1>4
  <2>2. x = VsByte * q
    BY <1>0, <1>5, <2>1
  <2>3. x \in Nat
    BY <1>0, <1>5, <2>1
  <2> QED  BY <2>1, <2>2, <2>3
<1>7. ByteBitsOf(n) = x
  BY <1>1, <1>4, <1>5 DEF ByteBitsOf
<1> QED  BY <1>0, <1>1, <1>3, <1>4, <1>6, <1>7

\* The layout of a value and of a key.
LEMMA Layout ==
  /\ Len(VsWidths) \in Nat /\ Len(VsWidths) > 0
  /\ VsWidths \in [1 .. Len(VsWidths) -> Nat]
  /\ Ends(FieldEnd, VsWidths, Len(VsWidths))
  /\ Ends(KeyEnd, [f \in Fields |-> ByteBitsOf(VsWidths[f])], Len(VsWidths))
  /\ [f \in Fields |-> ByteBitsOf(VsWidths[f])] \in [1 .. Len(VsWidths) -> Nat]
  /\ VsBits \in Nat /\ KeyBits \in Nat
<1> DEFINE n == Len(VsWidths)
           bytes == [f \in Fields |-> ByteBitsOf(VsWidths[f])]
<1>1. n \in Nat /\ n > 0 /\ VsWidths \in [1 .. n -> Nat]
  <2>1. VsWidths \in Seq(Nat \ {0}) /\ VsWidths # <<>>
    BY ValueSetAssumption
  <2>2. n \in Nat /\ n > 0 /\ VsWidths \in [1 .. n -> Nat \ {0}]
    BY <2>1
  <2> QED  BY <2>2
<1>2. bytes \in [1 .. n -> Nat]
  <2>1. \A f \in 1 .. n : ByteBitsOf(VsWidths[f]) \in Nat
    BY <1>1, BytesHold
  <2> QED  BY <2>1 DEF Fields
<1>3. Ends(FieldEnd, VsWidths, n)
  <2>1. PICK e : Ends(e, VsWidths, n)
    BY <1>1, EndsExist
  <2>2. e = [f \in 0 .. n |-> IF f = 0 THEN 0 ELSE e[f - 1] + VsWidths[f]]
    <3>1. \A f \in 0 .. n : e[f] = IF f = 0 THEN 0 ELSE e[f - 1] + VsWidths[f]
      BY <1>1, <2>1 DEF Ends
    <3> QED  BY <2>1, <3>1 DEF Ends
  <2>3. FieldEnd = [f \in 0 .. n |-> IF f = 0 THEN 0 ELSE FieldEnd[f - 1] + VsWidths[f]]
    BY <2>2 DEF FieldEnd
  <2> HIDE DEF n
  <2>4. FieldEnd[0] = 0 /\ \A f \in 1 .. n : FieldEnd[f] = FieldEnd[f - 1] + VsWidths[f]
    BY <1>1, <2>3
  <2>5. DOMAIN FieldEnd = 0 .. n
    BY <2>3
  <2> DEFINE S == {f \in 0 .. n : FieldEnd[f] \in Nat}
  <2>6. 0 \in S /\ \A f \in 1 .. n : f - 1 \in S => f \in S
    BY <1>1, <2>4
  <2>7. \A f \in 0 .. n : f \in S
    <3> HIDE DEF S
    <3> QED  BY <1>1, <2>6, UpTo
  <2>8. FieldEnd \in [0 .. n -> Nat]
    BY <2>3, <2>7
  <2> QED  BY <2>4, <2>8 DEF Ends
<1>4. Ends(KeyEnd, bytes, n)
  <2>0. \A f \in 1 .. n : bytes[f] = ByteBitsOf(VsWidths[f])
    BY DEF Fields
  <2> HIDE DEF bytes
  <2>1. PICK e : Ends(e, bytes, n)
    BY <1>1, <1>2, EndsExist
  <2>2. e = [f \in 0 .. n |-> IF f = 0 THEN 0 ELSE e[f - 1] + ByteBitsOf(VsWidths[f])]
    <3>1. \A f \in 0 .. n : e[f] = IF f = 0 THEN 0 ELSE e[f - 1] + ByteBitsOf(VsWidths[f])
      BY <1>1, <2>0, <2>1 DEF Ends
    <3> QED  BY <2>1, <3>1 DEF Ends
  <2>3. KeyEnd = [f \in 0 .. n |-> IF f = 0 THEN 0 ELSE KeyEnd[f - 1] + ByteBitsOf(VsWidths[f])]
    BY <2>2 DEF KeyEnd
  <2> HIDE DEF n
  <2>4. KeyEnd[0] = 0 /\ \A f \in 1 .. n : KeyEnd[f] = KeyEnd[f - 1] + bytes[f]
    BY <1>1, <2>0, <2>3
  <2> DEFINE S == {f \in 0 .. n : KeyEnd[f] \in Nat}
  <2>6. 0 \in S /\ \A f \in 1 .. n : f - 1 \in S => f \in S
    BY <1>1, <1>2, <2>4
  <2>7. \A f \in 0 .. n : f \in S
    <3> HIDE DEF S
    <3> QED  BY <1>1, <2>6, UpTo
  <2>8. KeyEnd \in [0 .. n -> Nat]
    BY <2>3, <2>7
  <2> QED  BY <2>4, <2>8 DEF Ends
<1>5. VsBits \in Nat /\ KeyBits \in Nat
  BY <1>1, <1>3, <1>4 DEF Ends, VsBits, KeyBits
<1> QED  BY <1>1, <1>2, <1>3, <1>4, <1>5


\* FieldAt finds the field of a position of a key.
LEMMA FieldAtIs ==
  ASSUME NEW p \in 1 .. KeyBits
  PROVE  /\ FieldAt(p) \in Fields
         /\ KeyEnd[FieldAt(p) - 1] < p /\ p <= KeyEnd[FieldAt(p)]
<1>1. \E f \in Fields : KeyEnd[f - 1] < p /\ p <= KeyEnd[f]
  <2>1. PICK bytes : bytes = [f \in Fields |-> ByteBitsOf(VsWidths[f])]
    OBVIOUS
  <2>2. Len(VsWidths) \in Nat /\ bytes \in [1 .. Len(VsWidths) -> Nat]
        /\ Ends(KeyEnd, bytes, Len(VsWidths)) /\ p \in 1 .. KeyEnd[Len(VsWidths)]
    BY <2>1, Layout DEF KeyBits
  <2> QED  BY <2>2, OneField DEF Fields
<1> QED  BY <1>1 DEF FieldAt

\* There is no other such field.
LEMMA FieldAtOnly ==
  ASSUME NEW p \in 1 .. KeyBits, NEW f \in Fields, KeyEnd[f - 1] < p, p <= KeyEnd[f]
  PROVE  FieldAt(p) = f
<1>1. PICK bytes : bytes = [g \in Fields |-> ByteBitsOf(VsWidths[g])]
  OBVIOUS
<1>2. Len(VsWidths) \in Nat /\ bytes \in [1 .. Len(VsWidths) -> Nat]
      /\ Ends(KeyEnd, bytes, Len(VsWidths)) /\ p \in 1 .. KeyEnd[Len(VsWidths)]
  BY <1>1, Layout DEF KeyBits
<1>3. \A g, h \in 1 .. Len(VsWidths) :
        KeyEnd[g - 1] < p /\ p <= KeyEnd[g] /\ KeyEnd[h - 1] < p /\ p <= KeyEnd[h] => g = h
  BY <1>2, OneField
<1> QED  BY <1>3, FieldAtIs DEF Fields

\* Where the bits of a field are.
LEMMA FieldIs ==
  ASSUME NEW f \in Fields
  PROVE  /\ VsWidths[f] \in Nat /\ FieldEnd[f - 1] \in Nat /\ FieldEnd[f] \in Nat
         /\ KeyEnd[f - 1] \in Nat /\ KeyEnd[f] \in Nat
         /\ FieldEnd[f] = FieldEnd[f - 1] + VsWidths[f] /\ FieldEnd[f] <= VsBits
         /\ KeyEnd[f - 1] + VsWidths[f] <= KeyEnd[f] /\ KeyEnd[f] <= KeyBits
<1> DEFINE n == Len(VsWidths)
<1>1. PICK bytes : bytes = [g \in Fields |-> ByteBitsOf(VsWidths[g])]
  OBVIOUS
<1>2. n \in Nat /\ VsWidths \in [1 .. n -> Nat] /\ bytes \in [1 .. n -> Nat]
      /\ Ends(FieldEnd, VsWidths, n) /\ Ends(KeyEnd, bytes, n)
  BY <1>1, Layout
<1> HIDE DEF n
<1>3. f \in 1 .. n /\ f \in 0 .. n /\ f - 1 \in 0 .. n /\ n \in f .. n
  BY <1>2 DEF Fields, n
<1>4. VsWidths[f] \in Nat /\ FieldEnd[f - 1] \in Nat /\ FieldEnd[f] \in Nat
      /\ KeyEnd[f - 1] \in Nat /\ KeyEnd[f] \in Nat
      /\ FieldEnd[f] = FieldEnd[f - 1] + VsWidths[f] /\ KeyEnd[f] = KeyEnd[f - 1] + bytes[f]
  BY <1>2, <1>3 DEF Ends
<1>5. FieldEnd[f] <= FieldEnd[n] /\ KeyEnd[f] <= KeyEnd[n]
  BY <1>2, <1>3, EndsGrow
<1>6. bytes[f] = ByteBitsOf(VsWidths[f])
  BY <1>1, <1>3
<1>7. bytes[f] \in Nat /\ VsWidths[f] <= bytes[f]
  BY <1>4, <1>6, BytesHold
<1>8. VsBits = FieldEnd[n] /\ KeyBits = KeyEnd[n]
  BY DEF VsBits, KeyBits, n
<1> QED  BY <1>4, <1>5, <1>7, <1>8

\* What a client sends for a value.
LEMMA CompressedIs ==
  ASSUME NEW u \in AllValues
  PROVE  /\ Compressed(u) \in Seq({0, 1}) /\ Len(Compressed(u)) = ByteBitsOf(VsBits)
         /\ \A i \in 1 .. VsBits : Compressed(u)[ByteBitsOf(VsBits) - VsBits + i] = u[i]
         /\ VsBits = ByteBitsOf(VsBits) => Compressed(u) = u
<1>1. VsBits \in Nat /\ ByteBitsOf(VsBits) \in Nat /\ VsBits <= ByteBitsOf(VsBits)
  BY Layout, BytesHold
<1>2. PICK k : k = ByteBitsOf(VsBits) - VsBits
  OBVIOUS
<1>3. k \in Nat /\ k + VsBits = ByteBitsOf(VsBits)
  BY <1>1, <1>2
<1>4. PICK z : z = Zeros(k)
  OBVIOUS
<1>5. z \in Seq({0, 1}) /\ Len(z) = k
  <2>1. z \in [1 .. k -> {0, 1}]
    BY <1>4 DEF Zeros
  <2> QED  BY <1>3, <2>1
<1>6. u \in Seq({0, 1}) /\ Len(u) = VsBits
  BY <1>1 DEF AllValues
<1>7. Compressed(u) = z \o u
  BY <1>2, <1>4 DEF Compressed
<1>8. /\ z \o u \in Seq({0, 1}) /\ Len(z \o u) = k + VsBits
      /\ \A i \in 1 .. VsBits : (z \o u)[k + i] = u[i]
  <2>1. /\ z \o u \in Seq({0, 1}) /\ Len(z \o u) = Len(z) + Len(u)
        /\ \A j \in 1 .. Len(u) : (z \o u)[Len(z) + j] = u[j]
    <3>1. PICK C : C = {0, 1}
      OBVIOUS
    <3>2. z \in Seq(C) /\ u \in Seq(C)
      BY <1>5, <1>6, <3>1
    <3>3. /\ z \o u \in Seq(C) /\ Len(z \o u) = Len(z) + Len(u)
          /\ \A j \in 1 .. Len(u) : (z \o u)[Len(z) + j] = u[j]
      BY ONLY <3>2, ConcatIs
    <3> QED  BY <3>1, <3>3
  <2> QED  BY <1>5, <1>6, <2>1
<1>9. ASSUME k = 0 PROVE Compressed(u) = u
  <2>1. \A i \in 1 .. VsBits : (z \o u)[i] = u[i]
    BY <1>1, <1>8, <1>9
  <2> QED  BY <1>1, <1>6, <1>7, <1>8, <1>9, <2>1
<1>10. VsBits = ByteBitsOf(VsBits) => k = 0
  BY <1>1, <1>3
<1>11. Len(Compressed(u)) = ByteBitsOf(VsBits) /\ Compressed(u) \in Seq({0, 1})
  BY <1>3, <1>7, <1>8
<1>12. \A i \in 1 .. VsBits : Compressed(u)[ByteBitsOf(VsBits) - VsBits + i] = u[i]
  BY <1>2, <1>7, <1>8
<1> QED  BY <1>9, <1>10, <1>11, <1>12

\* A key is the bits of its fields and the padding.
LEMMA KeyIs ==
  ASSUME NEW u \in AllValues
  PROVE  BuildKey(u) \in [1 .. KeyBits -> {0, 1}]
<1>1. ASSUME NEW p \in 1 .. KeyBits PROVE BuildKey(u)[p] \in {0, 1}
  <2>1. PICK f : f = FieldAt(p)
    OBVIOUS
  <2>2. PICK i : i = p - (KeyEnd[f] - VsWidths[f])
    OBVIOUS
  <2>3. BuildKey(u)[p] = IF i > 0 THEN u[0 + FieldEnd[f - 1] + i] ELSE 0
    BY <2>1, <2>2 DEF BuildKey, InBytes
  <2>4. f \in Fields /\ p <= KeyEnd[f] /\ p \in Nat
    BY <2>1, FieldAtIs, Layout
  <2>5. /\ VsWidths[f] \in Nat /\ FieldEnd[f - 1] \in Nat /\ KeyEnd[f] \in Nat
        /\ FieldEnd[f - 1] + VsWidths[f] <= VsBits /\ VsBits \in Nat
    BY <2>4, FieldIs, Layout
  <2>6. i > 0 => 0 + FieldEnd[f - 1] + i \in 1 .. VsBits
    BY <2>2, <2>4, <2>5
  <2> QED  BY <2>3, <2>6 DEF AllValues
<1>2. BuildKey(u) = [p \in 1 .. KeyBits |-> BuildKey(u)[p]]
  BY DEF BuildKey, InBytes
<1> QED  BY <1>1, <1>2

\* Every bit of a value is in its key.
LEMMA BitInKey ==
  ASSUME NEW b \in 1 .. VsBits
  PROVE  \E p \in 1 .. KeyBits : \A u \in AllValues : BuildKey(u)[p] = u[b]
<1>1. Len(VsWidths) \in Nat /\ VsWidths \in [1 .. Len(VsWidths) -> Nat]
      /\ Ends(FieldEnd, VsWidths, Len(VsWidths)) /\ b \in 1 .. FieldEnd[Len(VsWidths)]
  BY Layout DEF VsBits
<1>2. PICK f \in Fields : FieldEnd[f - 1] < b /\ b <= FieldEnd[f]
  BY <1>1, OneField DEF Fields
<1>3. /\ VsWidths[f] \in Nat /\ FieldEnd[f - 1] \in Nat /\ FieldEnd[f] \in Nat
      /\ KeyEnd[f - 1] \in Nat /\ KeyEnd[f] \in Nat
      /\ FieldEnd[f] = FieldEnd[f - 1] + VsWidths[f] /\ FieldEnd[f] <= VsBits
      /\ KeyEnd[f - 1] + VsWidths[f] <= KeyEnd[f] /\ KeyEnd[f] <= KeyBits
  BY FieldIs
<1>4. VsBits \in Nat /\ KeyBits \in Nat /\ b \in Nat
  BY Layout
<1>5. PICK i : i = b - FieldEnd[f - 1]
  OBVIOUS
<1>6. PICK p : p = KeyEnd[f] - VsWidths[f] + i
  OBVIOUS
<1>7. i \in 1 .. VsWidths[f]
  BY <1>2, <1>3, <1>4, <1>5
<1>8. p \in 1 .. KeyBits /\ KeyEnd[f - 1] < p /\ p <= KeyEnd[f]
  BY <1>3, <1>4, <1>6, <1>7
<1>9. FieldAt(p) = f
  BY <1>8, FieldAtOnly
<1>10. p - (KeyEnd[f] - VsWidths[f]) = i /\ 0 + FieldEnd[f - 1] + i = b /\ i > 0
  <2>1. i \in Int /\ i > 0
    BY <1>3, <1>7
  <2>2. p - (KeyEnd[f] - VsWidths[f]) = i
    BY <1>3, <1>6, <2>1
  <2>3. 0 + FieldEnd[f - 1] + i = b
    BY <1>3, <1>4, <1>5
  <2> QED  BY <2>1, <2>2, <2>3
<1>11. ASSUME NEW u \in AllValues PROVE BuildKey(u)[p] = u[b]
  BY <1>8, <1>9, <1>10 DEF BuildKey, InBytes
<1> QED  BY <1>8, <1>11

\* Two values with the same key are the same.
LEMMA KeyTells ==
  ASSUME NEW u \in AllValues, NEW v \in AllValues, BuildKey(u) = BuildKey(v)
  PROVE  u = v
<1>1. ASSUME NEW b \in 1 .. VsBits PROVE u[b] = v[b]
  BY BitInKey
<1>2. u = [b \in 1 .. VsBits |-> u[b]] /\ v = [b \in 1 .. VsBits |-> v[b]]
  BY DEF AllValues
<1>3. [b \in 1 .. VsBits |-> u[b]] = [b \in 1 .. VsBits |-> v[b]]
  BY <1>1
<1> QED  BY <1>2, <1>3

\* What a shadow makes of a client's value is what the parser makes of the packet.
LEMMA PaddingIsKey ==
  ASSUME NEW u \in AllValues
  PROVE  DoPadding(Compressed(u)) = BuildKey(u)
<1>0. PICK v : v = Compressed(u)
  OBVIOUS
<1>1. /\ v \in Seq({0, 1}) /\ Len(v) = ByteBitsOf(VsBits)
      /\ \A i \in 1 .. VsBits : v[ByteBitsOf(VsBits) - VsBits + i] = u[i]
      /\ VsBits \in Nat /\ KeyBits \in Nat /\ ByteBitsOf(VsBits) \in Nat
  BY <1>0, CompressedIs, Layout, BytesHold
<1>2. PICK o : o = ByteBitsOf(VsBits) - VsBits
  OBVIOUS
<1>3. o \in Nat /\ ByteBitsOf(VsBits) = o + VsBits
  <2>1. VsBits <= ByteBitsOf(VsBits)
    BY <1>1, BytesHold
  <2>2. PICK m : m = ByteBitsOf(VsBits)
    OBVIOUS
  <2>3. m \in Nat /\ VsBits <= m /\ o = m - VsBits /\ VsBits \in Nat
    BY <1>1, <1>2, <2>1, <2>2
  <2>4. o \in Nat /\ m = o + VsBits
    BY ONLY <2>3
  <2> QED  BY <2>2, <2>4
<1>4. CASE Len(VsWidths) # 1
  <2>1. ASSUME NEW p \in 1 .. KeyBits PROVE InBytes(v, o)[p] = InBytes(u, 0)[p]
    <3>1. PICK f : f = FieldAt(p)
      OBVIOUS
    <3>2. PICK i : i = p - (KeyEnd[f] - VsWidths[f])
      OBVIOUS
    <3>3. InBytes(v, o)[p] = IF i > 0 THEN v[o + FieldEnd[f - 1] + i] ELSE 0
      BY <3>1, <3>2 DEF InBytes
    <3>4. InBytes(u, 0)[p] = IF i > 0 THEN u[0 + FieldEnd[f - 1] + i] ELSE 0
      BY <3>1, <3>2 DEF InBytes
    <3>5. f \in Fields /\ p <= KeyEnd[f] /\ p \in Nat
      BY <3>1, FieldAtIs, Layout
    <3>6. /\ VsWidths[f] \in Nat /\ FieldEnd[f - 1] \in Nat /\ KeyEnd[f] \in Nat
          /\ FieldEnd[f - 1] + VsWidths[f] <= VsBits
      BY <3>5, FieldIs
    <3>7. PICK j : j = FieldEnd[f - 1] + i
      OBVIOUS
    <3>8. i > 0 => j \in 1 .. VsBits /\ o + FieldEnd[f - 1] + i = o + j
                   /\ 0 + FieldEnd[f - 1] + i = j
      <4>1. i \in Int /\ i <= VsWidths[f] /\ FieldEnd[f - 1] + i <= VsBits
        BY <1>1, <3>2, <3>5, <3>6
      <4>2. o + FieldEnd[f - 1] + i = o + j /\ 0 + FieldEnd[f - 1] + i = j
        BY <1>3, <3>6, <3>7, <4>1
      <4> QED  BY <1>1, <3>6, <3>7, <4>1, <4>2
    <3>9. i > 0 => v[o + j] = u[j]
      BY <1>1, <1>2, <3>8
    <3> QED  BY <3>3, <3>4, <3>8, <3>9
  <2>2. InBytes(v, o) = InBytes(u, 0)
    BY <2>1 DEF InBytes
  <2> QED  BY <1>0, <1>1, <1>2, <1>4, <2>2 DEF DoPadding, BuildKey
<1>5. CASE Len(VsWidths) = 1
  <2>1. 1 \in Fields
    BY <1>5 DEF Fields
  <2>2. /\ FieldEnd[0] = 0 /\ KeyEnd[0] = 0
        /\ FieldEnd[1] = VsBits /\ KeyEnd[1] = KeyBits
    BY <1>5, Layout DEF Ends, VsBits, KeyBits
  <2>3. VsWidths[1] = VsBits
    BY <2>1, <2>2, <1>1, FieldIs
  <2>4. KeyBits = ByteBitsOf(VsBits)
    <3>1. PICK bytes : bytes = [g \in Fields |-> ByteBitsOf(VsWidths[g])]
      OBVIOUS
    <3>2. KeyEnd[1] = KeyEnd[0] + bytes[1] /\ bytes[1] = ByteBitsOf(VsBits)
      BY <1>5, <2>1, <2>3, <3>1, Layout DEF Ends
    <3> QED  BY <1>1, <2>2, <3>2
  <2>5. ASSUME NEW p \in 1 .. KeyBits PROVE v[p] = BuildKey(u)[p]
    <3>1. FieldAt(p) = 1
      BY <1>5, FieldAtIs DEF Fields
    <3>2. PICK i : i = p - (KeyBits - VsBits)
      OBVIOUS
    <3>3. BuildKey(u)[p] = IF i > 0 THEN u[0 + FieldEnd[1 - 1] + i] ELSE 0
      BY <2>2, <2>3, <3>1, <3>2 DEF BuildKey, InBytes
    <3>4. 0 + FieldEnd[1 - 1] + i = i /\ i = p - o /\ p \in Nat
      BY <1>1, <1>2, <2>2, <2>4, <3>2
    <3>5. CASE i > 0
      <4>1. i \in 1 .. VsBits /\ o + i = p
        BY <1>1, <1>3, <2>4, <3>4, <3>5
      <4> QED  BY <1>1, <1>2, <3>3, <3>4, <3>5, <4>1
    <3>6. CASE ~(i > 0)
      <4>1. PICK z : z = Zeros(o)
        OBVIOUS
      <4>2. z \in [1 .. o -> {0, 1}] /\ \A j \in 1 .. o : z[j] = 0
        BY <4>1 DEF Zeros
      <4>3. z \in Seq({0, 1}) /\ Len(z) = o /\ u \in Seq({0, 1})
        BY <1>1, <1>3, <4>2 DEF AllValues
      <4>4. v = z \o u
        BY <1>0, <1>2, <4>1 DEF Compressed
      <4>5. p \in 1 .. o
        BY <1>3, <3>4, <3>6
      <4>6. v[p] = z[p]
        BY <4>3, <4>4, <4>5, ConcatIs
      <4> QED  BY <3>3, <3>6, <4>2, <4>5, <4>6
    <3> QED  BY <3>5, <3>6
  <2>6. v \in [1 .. KeyBits -> {0, 1}]
    BY <1>1, <2>4
  <2>7. v = BuildKey(u)
    <3>1. BuildKey(u) \in [1 .. KeyBits -> {0, 1}]
      BY KeyIs
    <3>2. PICK k : k = BuildKey(u)
      OBVIOUS
    <3>3. v = [p \in 1 .. KeyBits |-> v[p]] /\ k = [p \in 1 .. KeyBits |-> k[p]]
      BY <2>6, <3>1, <3>2
    <3>4. [p \in 1 .. KeyBits |-> v[p]] = [p \in 1 .. KeyBits |-> k[p]]
      BY <2>5, <3>2
    <3> QED  BY <3>2, <3>3, <3>4
  <2> QED  BY <1>0, <1>5, <2>7 DEF DoPadding
<1> QED  BY <1>4, <1>5

\* What copies store: the base what the client sent, a shadow the masked key.
LEMMA StoredIs ==
  ASSUME NEW c \in Copies \ {1}, NEW u \in AllValues
  PROVE  /\ Stored(1, Compressed(u)) = Compressed(u)
         /\ Stored(c, Compressed(u)) = TransformInput(VsMasks[c - 1], BuildKey(u))
         /\ Stored(c, Compressed(u)) \in [1 .. KeyBits -> {0, 1}]
<1>1. Stored(1, Compressed(u)) = Compressed(u)
  BY DEF Stored
<1>2. Stored(c, Compressed(u)) = TransformInput(VsMasks[c - 1], BuildKey(u))
  BY PaddingIsKey DEF Stored
<1>3. PICK k : k = BuildKey(u)
  OBVIOUS
<1>4. k \in [1 .. KeyBits -> {0, 1}]
  BY <1>3, KeyIs
<1>5. PICK m : m = VsMasks[c - 1]
  OBVIOUS
<1>6. m = <<>> \/ m \in [1 .. KeyBits -> {0, 1}]
  <2>1. VsMasks \in Seq({<<>>} \cup [1 .. KeyBits -> {0, 1}])
    BY ValueSetAssumption
  <2>2. c - 1 \in 1 .. Len(VsMasks)
    BY <2>1 DEF Copies
  <2> QED  BY <1>5, <2>1, <2>2
<1>7. TransformInput(m, k) \in [1 .. KeyBits -> {0, 1}]
  <2>1. CASE m = <<>>
    BY <1>4, <2>1 DEF TransformInput
  <2>2. CASE m # <<>>
    <3>1. Len(k) = KeyBits
      BY <1>4, Layout
    <3>2. TransformInput(m, k) = [i \in 1 .. KeyBits |-> k[i] * m[i]]
      BY <2>2, <3>1 DEF TransformInput
    <3>3. \A i \in 1 .. KeyBits : k[i] \in {0, 1} /\ m[i] \in {0, 1}
      BY <1>4, <1>6, <2>2
    <3>4. \A x, y \in {0, 1} : x * y \in {0, 1}
      OBVIOUS
    <3>5. \A i \in 1 .. KeyBits : k[i] * m[i] \in {0, 1}
      BY <3>3, <3>4
    <3> QED  BY <3>2, <3>5
  <2> QED  BY <2>1, <2>2
<1> QED  BY <1>1, <1>2, <1>3, <1>5, <1>7

\* Without a mask, a shadow tells any two values apart.
LEMMA StoredTells ==
  ASSUME NEW c \in Copies \ {1}, VsMasks[c - 1] = <<>>, NEW u \in AllValues,
         NEW v \in AllValues, Stored(c, Compressed(u)) = Stored(c, Compressed(v))
  PROVE  Compressed(u) = Compressed(v)
<1>1. BuildKey(u) = BuildKey(v)
  BY StoredIs DEF TransformInput
<1> QED  BY <1>1, KeyTells

\* A copy that mirrors the base still does when both have been updated.
LEMMA UpdateMirrors ==
  ASSUME NEW c \in Copies \ {1}, NEW s, NEW base, base \subseteq Sent, Mirrors(s, c, base),
         NEW op \in {"add", "remove", "clear"}, NEW v \in Sent
  PROVE  /\ CopyOp(base, 1, op, v) \subseteq Sent
         /\ Mirrors(CopyOp(s, c, op, v), c, CopyOp(base, 1, op, v))
<1>0. /\ s \subseteq {Stored(c, x) : x \in base}
      /\ VsMasks[c - 1] = <<>> => {Stored(c, x) : x \in base} \subseteq s
  BY DEF Mirrors
<1>1. Stored(1, v) = v
  BY DEF Stored
<1>2. CASE op = "add"
  <2>1. CopyOp(base, 1, op, v) = base \cup {v} /\ CopyOp(s, c, op, v) = s \cup {Stored(c, v)}
    BY <1>1, <1>2 DEF CopyOp
  <2>2. Mirrors(s \cup {Stored(c, v)}, c, base \cup {v})
    BY <1>0 DEF Mirrors
  <2> QED  BY <2>1, <2>2
<1>3. CASE op = "remove"
  <2>1. CopyOp(base, 1, op, v) = base \ {v} /\ CopyOp(s, c, op, v) = s \ {Stored(c, v)}
    BY <1>1, <1>3 DEF CopyOp
  <2>2. s \ {Stored(c, v)} \subseteq {Stored(c, x) : x \in base \ {v}}
    BY <1>0
  <2>3. ASSUME VsMasks[c - 1] = <<>>, NEW x \in base \ {v}
        PROVE  Stored(c, x) \in s \ {Stored(c, v)}
    <3>1. PICK a \in AllValues, b \in AllValues : x = Compressed(a) /\ v = Compressed(b)
      BY DEF Sent
    <3>2. Stored(c, x) # Stored(c, v)
      BY <2>3, <3>1, StoredTells
    <3> QED  BY <1>0, <2>3, <3>2
  <2>4. Mirrors(s \ {Stored(c, v)}, c, base \ {v})
    BY <2>2, <2>3 DEF Mirrors
  <2> QED  BY <2>1, <2>4
<1>4. CASE op = "clear"
  <2>1. CopyOp(base, 1, op, v) = {} /\ CopyOp(s, c, op, v) = {}
    BY <1>4 DEF CopyOp
  <2> QED  BY <2>1 DEF Mirrors
<1> QED  BY <1>2, <1>3, <1>4

\* The base is a copy, before those of the cases.
LEMMA MasksAre == Len(VsMasks) \in Nat /\ 1 \in Copies
<1>1. Len(VsMasks) \in Nat
  BY ValueSetAssumption
<1> QED  BY <1>1 DEF Copies

\* The value set starts empty.
LEMMA CopiesBegin == VsInit => CopiesInv
<1> SUFFICES ASSUME VsInit PROVE CopiesInv
  OBVIOUS
<1>1. vsThread \in [VsThreads -> Requests \cup {VsIdle}] /\ \A t \in VsThreads : vsThread[t].at = 0
  BY DEF VsInit, VsIdle
<1>2. \A c \in Copies : vsCopies[c] = {}
  BY DEF VsInit
<1>3. vsCopies \in [Copies -> SUBSET Seq({0, 1})]
  BY DEF VsInit
<1>4. vsCopies[1] = {}
  BY <1>2, MasksAre
<1>5. \A c \in Copies \ {1} : Mirrors(vsCopies[c], c, vsCopies[1])
  BY <1>2, <1>4 DEF Mirrors
<1>6. vsOwner \in VsThreads \cup {VsNobody}
  BY DEF VsInit
<1> QED  BY <1>1, <1>2, <1>3, <1>4, <1>5, <1>6 DEF CopiesInv

\* A request does not change the copies before it has the lock.
LEMMA CallKeeps ==
  ASSUME CopiesInv, NEW t \in VsThreads, NEW op \in {"add", "remove", "clear"},
         NEW value \in AllValues, Call(t, op, value)
  PROVE  CopiesInv'
<1>1. /\ vsThread[t] = VsIdle /\ vsThread[t].at = 0
      /\ vsCopies' = vsCopies /\ vsOwner' = vsOwner
  BY DEF Call, VsIdle
<1>2. PICK r : r = [op |-> op, value |-> Compressed(value), at |-> 0]
  OBVIOUS
<1>3. r \in Requests /\ r.at = 0
  BY <1>2, MasksAre DEF Requests, Sent
<1>4. vsThread' = [vsThread EXCEPT ![t] = r] /\ vsThread \in [VsThreads -> Requests \cup {VsIdle}]
  BY <1>2 DEF Call, CopiesInv
<1>5. /\ vsThread' \in [VsThreads -> Requests \cup {VsIdle}] /\ vsThread'[t] = r
      /\ \A s \in VsThreads : s # t => vsThread'[s] = vsThread[s]
  BY <1>3, <1>4
<1>6. \A s \in VsThreads : vsThread'[s].at = vsThread[s].at
  BY <1>1, <1>3, <1>5
<1>7. ASSUME NEW s \in VsThreads, vsThread'[s].at > 1 PROVE vsThread'[s] = vsThread[s]
  BY <1>3, <1>5, <1>7
<1>8. ASSUME NEW s \in VsThreads, vsThread'[s].at > 1, NEW c \in Copies \ {1}
      PROVE  Mirrors(Final(c, vsThread[s])', c, vsCopies'[1])
  <2>1. Mirrors(Final(c, vsThread[s]), c, vsCopies[1])
    BY <1>7, <1>8 DEF CopiesInv
  <2>2. Final(c, vsThread[s])' = Final(c, vsThread[s])
    BY <1>1, <1>7, <1>8 DEF Final
  <2> QED  BY <1>1, <2>1, <2>2
<1> QED  BY <1>1, <1>5, <1>6, <1>8 DEF CopiesInv

\* While one thread updates the copies, the others wait.
LEMMA OneUpdates ==
  ASSUME CopiesInv, NEW t \in VsThreads, vsOwner = t \/ vsOwner = VsNobody
  PROVE  /\ \A s \in VsThreads : s # t => vsThread[s].at = 0
         /\ vsOwner = VsNobody => vsThread[t].at = 0
<1>1. \A s \in VsThreads : vsThread[s].at \in Nat
  <2>1. \A s \in VsThreads : vsThread[s] \in Requests \cup {VsIdle}
    BY DEF CopiesInv
  <2>2. VsIdle.at \in Nat /\ \A r \in Requests : r.at \in Nat
    BY MasksAre DEF VsIdle, Requests
  <2> QED  BY <2>1, <2>2
<1>2. \A s \in VsThreads : s # VsNobody
  BY ValueSetAssumption
<1>3. \A s \in VsThreads : vsThread[s].at > 0 => vsOwner = s
  BY DEF CopiesInv
<1> QED  BY <1>1, <1>2, <1>3

\* Taking the lock changes no copy.
LEMMA ShadowsLockKeeps ==
  ASSUME CopiesInv, NEW t \in VsThreads, ShadowsLock(t)
  PROVE  CopiesInv'
<1>1. /\ vsThread[t].op # "none" /\ vsThread[t].at = 0 /\ vsOwner = VsNobody
      /\ vsOwner' = t /\ vsCopies' = vsCopies
  BY DEF ShadowsLock
<1>2. \A s \in VsThreads : vsThread[s].at = 0
  BY <1>1, OneUpdates
<1>3. PICK r : r = [vsThread[t] EXCEPT !.at = 1]
  OBVIOUS
<1>4. vsThread[t] \in Requests
  <2>1. vsThread[t] \in Requests \cup {VsIdle}
    BY DEF CopiesInv
  <2> QED  BY <1>1, <2>1 DEF VsIdle
<1>5. r \in Requests /\ r.at = 1
  BY <1>3, <1>4, MasksAre DEF Requests
<1>6. vsThread' = [vsThread EXCEPT ![t] = r] /\ vsThread \in [VsThreads -> Requests \cup {VsIdle}]
  BY <1>3 DEF ShadowsLock, CopiesInv
<1>7. /\ vsThread' \in [VsThreads -> Requests \cup {VsIdle}] /\ vsThread'[t] = r
      /\ \A s \in VsThreads : s # t => vsThread'[s] = vsThread[s]
  BY <1>5, <1>6
<1>8. \A s \in VsThreads : vsThread'[s].at <= 1 /\ (vsThread'[s].at > 0 => s = t) /\ ~(vsThread'[s].at > 1)
  BY <1>2, <1>5, <1>7
<1>9. \A c \in Copies \ {1} : Mirrors(vsCopies[c], c, vsCopies[1])
  <2>0. 0 <= 1
    OBVIOUS
  <2>1. \A s \in VsThreads : vsThread[s].at <= 1
    BY <1>2, <2>0, Zenon
  <2> QED  BY <2>1 DEF CopiesInv
<1> QED  BY <1>1, <1>7, <1>8, <1>9 DEF CopiesInv

\* What a copy holds has the width of the copy.
LEMMA CopyOpTyped ==
  ASSUME CopiesInv, NEW c \in Copies, NEW op \in {"add", "remove", "clear"}, NEW v \in Sent
  PROVE  /\ CopyOp(vsCopies[c], c, op, v) \subseteq Seq({0, 1})
         /\ c = 1 => CopyOp(vsCopies[c], c, op, v) \subseteq Sent
         /\ c # 1 => CopyOp(vsCopies[c], c, op, v) \subseteq [1 .. KeyBits -> {0, 1}]
<1>1. PICK u \in AllValues : v = Compressed(u)
  BY DEF Sent
<1>2. /\ c = 1 => Stored(c, v) \in Sent
      /\ c # 1 => Stored(c, v) \in [1 .. KeyBits -> {0, 1}]
  BY <1>1, StoredIs DEF Stored
<1>3. CopyOp(vsCopies[c], c, op, v) \subseteq vsCopies[c] \cup {Stored(c, v)}
  BY DEF CopyOp
<1>4. Stored(c, v) \in Seq({0, 1})
  <2>1. CASE c = 1
    BY <1>1, <2>1, CompressedIs DEF Stored
  <2>2. CASE c # 1
    BY <1>2, <2>2, Layout
  <2> QED  BY <2>1, <2>2
<1>5. vsCopies[c] \subseteq Seq({0, 1})
  BY DEF CopiesInv
<1>6. /\ c = 1 => vsCopies[c] \subseteq Sent
      /\ c # 1 => vsCopies[c] \subseteq [1 .. KeyBits -> {0, 1}]
  BY DEF CopiesInv
<1> QED  BY <1>2, <1>3, <1>4, <1>5, <1>6

\* One step of the update: the base first, then the shadows it must mirror.
LEMMA ShadowStepKeeps ==
  ASSUME CopiesInv, NEW t \in VsThreads, ShadowStep(t)
  PROVE  CopiesInv'
<1>0. PICK r, c, n : r = vsThread[t] /\ c = r.at /\ n = Len(VsMasks) + 1
  OBVIOUS
<1>1. n \in Nat /\ Copies = 1 .. n
  BY <1>0, MasksAre DEF Copies
<1>2. /\ c \in Copies
      /\ vsCopies' = [vsCopies EXCEPT ![c] = CopyOp(@, c, r.op, r.value)]
      /\ vsThread' = [vsThread EXCEPT ![t] = IF c = n THEN VsIdle ELSE [@ EXCEPT !.at = c + 1]]
      /\ vsOwner' = IF c = n THEN VsNobody ELSE vsOwner
  BY <1>0 DEF ShadowStep
<1>3. r \in Requests
  <2>1. r \in Requests \cup {VsIdle}
    BY <1>0 DEF CopiesInv
  <2>2. VsIdle.at = 0
    BY DEF VsIdle
  <2> QED  BY <1>0, <1>1, <1>2, <2>1, <2>2
<1>4. r.op \in {"add", "remove", "clear"} /\ r.value \in Sent
  BY <1>3 DEF Requests
<1>5. vsOwner = t
  BY <1>0, <1>1, <1>2 DEF CopiesInv
<1>6. \A s \in VsThreads : s # t => vsThread[s].at = 0
  BY <1>5, OneUpdates
<1>7. PICK q : q = IF c = n THEN VsIdle ELSE [r EXCEPT !.at = c + 1]
  OBVIOUS
<1>8. /\ q \in Requests \cup {VsIdle}
      /\ c = n => q.at = 0
      /\ c # n => q.at = c + 1 /\ q.op = r.op /\ q.value = r.value
  <2>1. CASE c = n
    BY <1>7, <2>1 DEF VsIdle
  <2>2. CASE c # n
    <3>1. q = [r EXCEPT !.at = c + 1] /\ c + 1 \in 0 .. Len(VsMasks) + 1
      BY <1>0, <1>1, <1>2, <1>7, <2>2, MasksAre
    <3> QED  BY <1>3, <2>2, <3>1 DEF Requests
  <2> QED  BY <2>1, <2>2
<1>9. vsThread \in [VsThreads -> Requests \cup {VsIdle}] /\ vsThread' = [vsThread EXCEPT ![t] = q]
  BY <1>0, <1>2, <1>7 DEF CopiesInv
<1>10. /\ vsThread' \in [VsThreads -> Requests \cup {VsIdle}] /\ vsThread'[t] = q
       /\ \A s \in VsThreads : s # t => vsThread'[s] = vsThread[s]
  BY <1>8, <1>9
<1>11. PICK new : new = CopyOp(vsCopies[c], c, r.op, r.value)
  OBVIOUS
<1>12. /\ new \subseteq Seq({0, 1}) /\ (c = 1 => new \subseteq Sent)
       /\ c # 1 => new \subseteq [1 .. KeyBits -> {0, 1}]
  BY <1>2, <1>4, <1>11, CopyOpTyped
<1>13. vsCopies \in [Copies -> SUBSET Seq({0, 1})] /\ vsCopies' = [vsCopies EXCEPT ![c] = new]
  BY <1>2, <1>11 DEF CopiesInv
<1>14. /\ vsCopies' \in [Copies -> SUBSET Seq({0, 1})] /\ vsCopies'[c] = new
       /\ \A d \in Copies : d # c => vsCopies'[d] = vsCopies[d]
  BY <1>2, <1>12, <1>13
<1>15. /\ vsCopies'[1] \subseteq Sent
       /\ \A d \in Copies \ {1} : vsCopies'[d] \subseteq [1 .. KeyBits -> {0, 1}]
  <2>1. vsCopies[1] \subseteq Sent /\ 1 \in Copies
        /\ \A d \in Copies \ {1} : vsCopies[d] \subseteq [1 .. KeyBits -> {0, 1}]
    BY MasksAre DEF CopiesInv
  <2> QED  BY <1>12, <1>14, <2>1
<1>16. /\ vsOwner' \in VsThreads \cup {VsNobody}
       /\ \A s \in VsThreads : vsThread'[s].at > 0 => vsOwner' = s
  <2>1. \A s \in VsThreads : s # t => ~(vsThread'[s].at > 0)
    BY <1>6, <1>10
  <2>2. vsThread'[t].at > 0 => vsOwner' = t
    BY <1>2, <1>5, <1>8, <1>10
  <2> QED  BY <1>2, <1>5, <2>1, <2>2
\* What each shadow is, or will be, when the update has come past copy c.
<1> DEFINE After(d) == IF d <= c THEN vsCopies'[d] ELSE CopyOp(vsCopies'[d], d, r.op, r.value)
<1>17. ASSUME NEW d \in Copies \ {1} PROVE Mirrors(After(d), d, vsCopies'[1])
  <2>1. CASE c = 1
    <3>0. 0 <= 1 /\ 1 <= 1
      OBVIOUS
    <3>1. \A s \in VsThreads : vsThread[s].at <= 1
      BY <1>0, <1>6, <2>1, <3>0, Zenon
    <3>2. Mirrors(vsCopies[d], d, vsCopies[1]) /\ vsCopies[1] \subseteq Sent
      BY <3>1 DEF CopiesInv
    <3>3. Mirrors(CopyOp(vsCopies[d], d, r.op, r.value), d, CopyOp(vsCopies[1], 1, r.op, r.value))
      BY <1>4, <3>2, UpdateMirrors
    <3>4. After(d) = CopyOp(vsCopies[d], d, r.op, r.value)
      BY <1>1, <1>14, <2>1
    <3>5. vsCopies'[1] = CopyOp(vsCopies[1], 1, r.op, r.value)
      BY <1>11, <1>14, <2>1
    <3> QED  BY <3>3, <3>4, <3>5
  <2>2. CASE c # 1
    <3>1. Mirrors(Final(d, r), d, vsCopies[1])
      BY <1>0, <1>1, <1>2, <2>2 DEF CopiesInv
    <3>2. vsCopies'[1] = vsCopies[1]
      BY <1>14, <2>2, MasksAre
    <3>3. After(d) = Final(d, r)
      <4>1. CASE d = c
        BY <1>0, <1>1, <1>11, <1>14, <4>1 DEF Final
      <4>2. CASE d < c
        <5>1. d <= c /\ d # c
          BY <1>1, <1>2, <4>2
        <5> QED  BY <1>0, <1>14, <4>2, <5>1 DEF Final
      <4>3. CASE d > c
        <5>1. ~(d <= c) /\ ~(d < c) /\ d # c
          BY <1>1, <1>2, <4>3
        <5> QED  BY <1>0, <1>14, <5>1 DEF Final
      <4> QED  BY <1>1, <1>2, <4>1, <4>2, <4>3
    <3> QED  BY <3>1, <3>2, <3>3
  <2> QED  BY <2>1, <2>2
<1>18. ASSUME \A s \in VsThreads : vsThread'[s].at <= 1, NEW d \in Copies \ {1}
       PROVE  Mirrors(vsCopies'[d], d, vsCopies'[1])
  <2>1. c = n
    BY <1>1, <1>2, <1>8, <1>10, <1>18
  <2>2. After(d) = vsCopies'[d]
    BY <1>1, <2>1
  <2> QED  BY <1>17, <2>2
<1>19. ASSUME NEW s \in VsThreads, vsThread'[s].at > 1, NEW d \in Copies \ {1}
       PROVE  Mirrors(Final(d, vsThread[s])', d, vsCopies'[1])
  <2>1. s = t /\ c # n
    BY <1>6, <1>8, <1>10, <1>19
  <2>2. vsThread'[s].at = c + 1 /\ vsThread'[s].op = r.op /\ vsThread'[s].value = r.value
    BY <1>8, <1>10, <2>1
  <2>3. Final(d, vsThread[s])' = IF d < c + 1 THEN vsCopies'[d]
                                ELSE CopyOp(vsCopies'[d], d, r.op, r.value)
    BY <2>2 DEF Final
  <2>4. d < c + 1 <=> d <= c
    BY <1>1, <1>2
  <2> QED  BY <1>17, <2>3, <2>4
<1> HIDE DEF After
<1> QED  BY <1>10, <1>14, <1>15, <1>16, <1>18, <1>19 DEF CopiesInv

\* Every step of a client keeps the copies mirroring the base.
LEMMA CopiesStep == CopiesInv /\ [VsNext]_vsVars => CopiesInv'
<1> SUFFICES ASSUME CopiesInv, [VsNext]_vsVars PROVE CopiesInv'
  OBVIOUS
<1>1. CASE VsNext
  <2>1. PICK t \in VsThreads :
          \/ \E op \in {"add", "remove"}, value \in VsValues : Call(t, op, value)
          \/ Call(t, "clear", Zeros(VsBits))
          \/ ShadowsLock(t) \/ ShadowStep(t)
    BY <1>1 DEF VsNext
  <2>2. ASSUME NEW op \in {"add", "remove"}, NEW value \in VsValues, Call(t, op, value)
        PROVE  CopiesInv'
    <3>1. value \in AllValues /\ op \in {"add", "remove", "clear"}
      BY ValueSetAssumption
    <3> QED  BY <2>2, <3>1, CallKeeps
  <2>3. CASE Call(t, "clear", Zeros(VsBits))
    <3>1. Zeros(VsBits) \in AllValues
      BY DEF Zeros, AllValues
    <3> QED  BY <2>3, <3>1, CallKeeps
  <2>4. CASE ShadowsLock(t)
    BY <2>4, ShadowsLockKeeps
  <2>5. CASE ShadowStep(t)
    BY <2>5, ShadowStepKeeps
  <2> QED  BY <2>1, <2>2, <2>3, <2>4, <2>5
<1>2. CASE UNCHANGED vsVars
  BY <1>2 DEF vsVars, CopiesInv, Final
<1> QED  BY <1>1, <1>2

\* The shadows mirror the base, and so the cases match what clients have put there.
LEMMA CopiesHave == CopiesInv => ValueSetsAgree
<1> SUFFICES ASSUME CopiesInv PROVE ValueSetsAgree
  OBVIOUS
<1>1. VsTypeOK
  <2>1. ASSUME NEW v \in vsCopies[1] PROVE Len(v) = ByteBitsOf(VsBits)
    <3>1. PICK u \in AllValues : v = Compressed(u)
      BY <2>1 DEF CopiesInv, Sent
    <3> QED  BY <3>1, CompressedIs
  <2>2. ASSUME NEW c \in Copies \ {1}, NEW v \in vsCopies[c] PROVE Len(v) = KeyBits
    <3>1. v \in [1 .. KeyBits -> {0, 1}]
      BY <2>2 DEF CopiesInv
    <3> QED  BY <3>1, Layout
  <2>3. vsOwner \in VsThreads \cup {VsNobody}
    BY DEF CopiesInv
  <2> QED  BY <2>1, <2>2, <2>3 DEF VsTypeOK
<1>2. ASSUME \A t \in VsThreads : vsThread[t].at = 0, NEW c \in Copies \ {1}, NEW value \in AllValues
      PROVE  /\ CaseMatches(c, BuildKey(value)) => Alike(c, value) # {}
             /\ VsMasks[c - 1] = <<>> /\ Alike(c, value) # {} => CaseMatches(c, BuildKey(value))
  <2>1. Mirrors(vsCopies[c], c, vsCopies[1])
    <3>0. 0 <= 1
      OBVIOUS
    <3>1. \A t \in VsThreads : vsThread[t].at <= 1
      BY <1>2, <3>0, Zenon
    <3> QED  BY <3>1 DEF CopiesInv
  <2>2. PICK k : k = TransformInput(VsMasks[c - 1], BuildKey(value))
    OBVIOUS
  <2>3. ASSUME CaseMatches(c, BuildKey(value)) PROVE Alike(c, value) # {}
    <3>1. k \in vsCopies[c]
      BY <2>2, <2>3 DEF CaseMatches
    <3>2. PICK v \in vsCopies[1] : k = Stored(c, v)
      BY <2>1, <3>1 DEF Mirrors
    <3>3. PICK u \in AllValues : v = Compressed(u)
      BY DEF CopiesInv, Sent
    <3>4. TransformInput(VsMasks[c - 1], BuildKey(u)) = k
      BY <3>2, <3>3, StoredIs
    <3> QED  BY <2>2, <3>2, <3>3, <3>4 DEF Alike
  <2>4. ASSUME VsMasks[c - 1] = <<>>, Alike(c, value) # {} PROVE CaseMatches(c, BuildKey(value))
    <3>1. PICK u \in AllValues : /\ Compressed(u) \in vsCopies[1]
                                 /\ TransformInput(VsMasks[c - 1], BuildKey(u)) = k
      BY <2>2, <2>4 DEF Alike
    <3>2. Stored(c, Compressed(u)) = k
      BY <3>1, StoredIs
    <3>3. k \in vsCopies[c]
      BY <2>1, <2>4, <3>1, <3>2 DEF Mirrors
    <3> QED  BY <2>2, <3>3 DEF CaseMatches
  <2> QED  BY <2>3, <2>4
<1>3. CopiesAgree
  BY <1>2 DEF CopiesAgree
<1> QED  BY <1>1, <1>3 DEF ValueSetsAgree

\* An update of a value set is for the shadows as if it were one step: every
\* shadow mirrors the base, or will when the update under way has come to it.
THEOREM CopiesInvariant == VsSpec => []CopiesInv
<1>1. QED
  BY CopiesBegin, CopiesStep, PTL DEF VsSpec

\* Every shadow holds keys of the width its select case compares, and between
\* two updates the cases of a select match exactly the values of the set,
\* or, under a mask, none but those that agree with one of them
\* (ParseVSet::add, remove, clear and ParseSwitchCaseVSet::match).
THEOREM ValueSetCopiesAgree == VsSpec => []ValueSetsAgree
<1>1. QED
  BY CopiesInvariant, CopiesHave, PTL

-----------------------------------------------------------------------------
(* PacketHeaders. *)

\* Where the headers are.
LEMMA StackPlaces ==
  /\ Len(PhStack) \in Nat
  /\ \A i \in 1 .. Len(PhStack) : PhStack[i] \in AllHeaders /\ PhStack[i] \notin UnionHeaders
  /\ \A i, j \in 1 .. Len(PhStack) : PhStack[i] = PhStack[j] => i = j
<1>1. Len(PhStack) \in Nat
  BY HeadersAssumption
<1>2. \A i \in 1 .. Len(PhStack) : PhStack[i] \in StackHeaders
  BY DEF StackHeaders
<1>3. \A i, j \in 1 .. Len(PhStack) : PhStack[i] = PhStack[j] => i = j
  BY HeadersAssumption
<1>4. StackHeaders \cap UnionHeaders = {} /\ StackHeaders \subseteq AllHeaders
  BY HeadersAssumption DEF AllHeaders
<1> QED  BY <1>1, <1>2, <1>3, <1>4

LEMMA UnionPlaces ==
  /\ Len(PhUnions) \in Nat /\ Len(PhUnions) > 0
  /\ Len(PhUnions[1]) \in Nat /\ 1 \in Positions /\ Positions = 1 .. Len(PhUnions[1])
  /\ \A u \in UnionIds : Len(PhUnions[u]) = Len(PhUnions[1])
  /\ \A u \in UnionIds, k \in Positions :
       /\ PhUnions[u][k] \in AllHeaders /\ PhUnions[u][k] \in UnionHeaders
       /\ PhUnions[u][k] \in HeadersOf(u)
       /\ UnionOf(PhUnions[u][k]) = u /\ IdxOf(PhUnions[u][k]) = k
<1>1. /\ PhUnions \in Seq(Seq(UnionHeaders)) /\ PhUnions # <<>>
      /\ \A u \in UnionIds : Len(PhUnions[u]) = Len(PhUnions[1]) /\ PhUnions[u] # <<>>
      /\ \A u, v \in UnionIds, k, l \in Positions :
           PhUnions[u][k] = PhUnions[v][l] => u = v /\ k = l
  BY HeadersAssumption
<1>2. Len(PhUnions) \in Nat /\ Len(PhUnions) > 0 /\ 1 \in UnionIds
  BY <1>1 DEF UnionIds
<1>3. PhUnions[1] \in Seq(UnionHeaders) /\ PhUnions[1] # <<>>
  BY <1>1, <1>2 DEF UnionIds
<1>4. Len(PhUnions[1]) \in Nat /\ 1 \in Positions /\ Positions = 1 .. Len(PhUnions[1])
  BY <1>3 DEF Positions
<1>5. ASSUME NEW u \in UnionIds, NEW k \in Positions
      PROVE  /\ PhUnions[u][k] \in AllHeaders /\ PhUnions[u][k] \in UnionHeaders
             /\ PhUnions[u][k] \in HeadersOf(u)
             /\ UnionOf(PhUnions[u][k]) = u /\ IdxOf(PhUnions[u][k]) = k
  <2>1. PICK h : h = PhUnions[u][k]
    OBVIOUS
  <2>2. h \in HeadersOf(u)
    BY <2>1 DEF HeadersOf
  <2>3. h \in UnionHeaders /\ h \in AllHeaders
    BY <2>2 DEF UnionHeaders, AllHeaders
  <2>4. \A v \in UnionIds : h \in HeadersOf(v) => v = u
    BY <1>1, <2>1 DEF HeadersOf
  <2>5. UnionOf(h) = u
    BY <2>2, <2>4 DEF UnionOf
  <2>6. \A l \in Positions : PhUnions[u][l] = h => l = k
    BY <1>1, <2>1
  <2>7. IdxOf(h) = k
    BY <2>1, <2>5, <2>6 DEF IdxOf
  <2> QED  BY <2>1, <2>2, <2>3, <2>5, <2>7
<1> QED  BY <1>1, <1>2, <1>4, <1>5

LEMMA UnionHeaderIs ==
  ASSUME NEW h \in UnionHeaders
  PROVE  UnionOf(h) \in UnionIds /\ IdxOf(h) \in Positions /\ PhUnions[UnionOf(h)][IdxOf(h)] = h
<1>1. PICK u \in UnionIds : h \in HeadersOf(u)
  BY DEF UnionHeaders
<1>2. PICK k \in Positions : h = PhUnions[u][k]
  BY <1>1 DEF HeadersOf
<1> QED  BY <1>2, UnionPlaces

\* What a PHV is made of.
LEMMA PhvIs ==
  ASSUME NEW p \in Phvs
  PROVE  /\ p = [hdr |-> p.hdr, next |-> p.next, un |-> p.un]
         /\ p.hdr \in [AllHeaders -> Headers] /\ p.next \in [Stacks -> Nat]
         /\ p.un \in [UnionIds -> [valid : BOOLEAN, idx : Positions]]
BY DEF Phvs

\* A header that is marked.
LEMMA MarkedIs ==
  ASSUME NEW x \in Headers, NEW v \in BOOLEAN
  PROVE  /\ Marked(x, v) \in Headers /\ Marked(x, v).valid = v
         /\ Marked(x, v).bit = (IF v THEN 1 ELSE 0) /\ Marked(x, v).bytes = x.bytes
<1>1. x.bytes \in Seq(Nat)
  BY DEF Headers
<1>2. PICK b : b = IF v THEN 1 ELSE 0
  OBVIOUS
<1>3. b \in {0, 1}
  BY <1>2
<1>4. Marked(x, v) = [valid |-> v, bit |-> b, bytes |-> x.bytes]
  BY <1>2 DEF Marked
<1>5. Marked(x, v) \in Headers
  BY <1>1, <1>3, <1>4 DEF Headers
<1> QED  BY <1>2, <1>4, <1>5

LEMMA MarkedInvalid ==
  ASSUME NEW x \in Headers
  PROVE  /\ Marked(x, FALSE) \in Headers /\ ~Marked(x, FALSE).valid
         /\ Marked(x, FALSE).bit = 0 /\ Marked(x, FALSE).bytes = x.bytes
<1>1. PICK v : v = FALSE
  OBVIOUS
<1>2. v \in BOOLEAN
  BY <1>1
<1>3. /\ Marked(x, v) \in Headers /\ Marked(x, v).valid = v
      /\ Marked(x, v).bit = (IF v THEN 1 ELSE 0) /\ Marked(x, v).bytes = x.bytes
  BY <1>2, MarkedIs
<1> QED  BY <1>1, <1>3

LEMMA MarkedValid ==
  ASSUME NEW x \in Headers
  PROVE  /\ Marked(x, TRUE) \in Headers /\ Marked(x, TRUE).valid
         /\ Marked(x, TRUE).bit = 1 /\ Marked(x, TRUE).bytes = x.bytes
<1>1. PICK v : v = TRUE
  OBVIOUS
<1>2. v \in BOOLEAN
  BY <1>1
<1>3. /\ Marked(x, v) \in Headers /\ Marked(x, v).valid = v
      /\ Marked(x, v).bit = (IF v THEN 1 ELSE 0) /\ Marked(x, v).bytes = x.bytes
  BY <1>2, MarkedIs
<1> QED  BY <1>1, <1>3

\* A PHV from its parts.
LEMMA PhvWith ==
  ASSUME NEW hdr \in [AllHeaders -> Headers], NEW next \in [Stacks -> Nat],
         NEW un \in [UnionIds -> [valid : BOOLEAN, idx : Positions]],
         NEW q, q = [hdr |-> hdr, next |-> next, un |-> un]
  PROVE  q \in Phvs /\ q.hdr = hdr /\ q.next = next /\ q.un = un
BY DEF Phvs

\* The record of a union.
LEMMA UnionStateIs ==
  ASSUME NEW v \in BOOLEAN, NEW k \in Positions
  PROVE  [valid |-> v, idx |-> k] \in [valid : BOOLEAN, idx : Positions]
OBVIOUS

\* The headers and the unions once h is invalid.
HeadersWithout(p, h) == [p.hdr EXCEPT ![h] = Marked(p.hdr[h], FALSE)]
UnionsWithout(p, h) ==
  IF h \in UnionHeaders /\ p.un[UnionOf(h)].valid /\ p.un[UnionOf(h)].idx = IdxOf(h)
  THEN [p.un EXCEPT ![UnionOf(h)] = [valid |-> FALSE, idx |-> IdxOf(h)]]
  ELSE p.un

\* mark_invalid changes one header and the union whose valid header it is.
LEMMA MarkInvalidIs ==
  ASSUME NEW p \in Phvs, NEW h \in AllHeaders, NEW q, q = MarkInvalid(p, h)
  PROVE  /\ q \in Phvs /\ q.next = p.next
         /\ q.hdr = HeadersWithout(p, h) /\ q.un = UnionsWithout(p, h)
<1>1. /\ p = [hdr |-> p.hdr, next |-> p.next, un |-> p.un]
      /\ p.hdr \in [AllHeaders -> Headers] /\ p.next \in [Stacks -> Nat]
      /\ p.un \in [UnionIds -> [valid : BOOLEAN, idx : Positions]]
  BY PhvIs
<1>2. PICK x : x = Marked(p.hdr[h], FALSE)
  OBVIOUS
<1>3. x \in Headers
  BY <1>1, <1>2, MarkedIs
<1>4. PICK r : r = [p EXCEPT !.hdr[h] = Marked(@, FALSE)]
  OBVIOUS
<1>5. r = [hdr |-> [p.hdr EXCEPT ![h] = x], next |-> p.next, un |-> p.un]
  BY <1>1, <1>2, <1>4
<1>6. [p.hdr EXCEPT ![h] = x] \in [AllHeaders -> Headers]
  BY <1>1, <1>3
<1>7. r \in Phvs /\ r.un = p.un /\ r.hdr = [p.hdr EXCEPT ![h] = x] /\ r.next = p.next
  BY <1>1, <1>5, <1>6, PhvWith
<1>8. PICK u : u = UnionOf(h)
  OBVIOUS
<1>9. CASE h \in UnionHeaders /\ p.un[u].valid /\ p.un[u].idx = IdxOf(h)
  <2>1. u \in UnionIds /\ IdxOf(h) \in Positions
    BY <1>8, <1>9, UnionHeaderIs
  <2>2. PICK w : w = [valid |-> FALSE, idx |-> IdxOf(h)]
    OBVIOUS
  <2>3. w \in [valid : BOOLEAN, idx : Positions]
    BY <2>1, <2>2, UnionStateIs
  <2>4. q = [r EXCEPT !.un[u] = w]
    BY <1>4, <1>7, <1>8, <1>9, <2>2 DEF MarkInvalid
  <2>5. q = [hdr |-> [p.hdr EXCEPT ![h] = x], next |-> p.next, un |-> [p.un EXCEPT ![u] = w]]
    BY <1>5, <2>4
  <2>6. [p.un EXCEPT ![u] = w] \in [UnionIds -> [valid : BOOLEAN, idx : Positions]]
    BY <1>1, <2>1, <2>3
  <2>7. q \in Phvs /\ q.next = p.next /\ q.hdr = [p.hdr EXCEPT ![h] = x]
        /\ q.un = [p.un EXCEPT ![u] = w]
    <3>1. PICK hdr, next, un : /\ hdr = [p.hdr EXCEPT ![h] = x] /\ next = p.next
                               /\ un = [p.un EXCEPT ![u] = w]
      OBVIOUS
    <3>2. /\ hdr \in [AllHeaders -> Headers] /\ next \in [Stacks -> Nat]
          /\ un \in [UnionIds -> [valid : BOOLEAN, idx : Positions]]
      BY <1>1, <1>6, <2>6, <3>1
    <3>3. q = [hdr |-> hdr, next |-> next, un |-> un]
      BY <2>5, <3>1
    <3>4. q \in Phvs /\ q.hdr = hdr /\ q.next = next /\ q.un = un
      BY <3>2, <3>3, PhvWith
    <3> QED  BY <3>1, <3>4
  <2>8. HeadersWithout(p, h) = [p.hdr EXCEPT ![h] = x]
    BY <1>2 DEF HeadersWithout
  <2>9. UnionsWithout(p, h) = [p.un EXCEPT ![u] = w]
    BY <1>8, <1>9, <2>2 DEF UnionsWithout
  <2> QED  BY <2>7, <2>8, <2>9
<1>10. CASE ~(h \in UnionHeaders /\ p.un[u].valid /\ p.un[u].idx = IdxOf(h))
  <2>1. q = r
    BY <1>4, <1>8, <1>10 DEF MarkInvalid
  <2>2. HeadersWithout(p, h) = [p.hdr EXCEPT ![h] = x]
    BY <1>2 DEF HeadersWithout
  <2>3. UnionsWithout(p, h) = p.un
    BY <1>8, <1>10 DEF UnionsWithout
  <2> QED  BY <1>7, <2>1, <2>2, <2>3
<1> QED  BY <1>9, <1>10

\* mark_invalid keeps what headers and unions say of validity in agreement.
LEMMA MarkInvalidKeeps ==
  ASSUME NEW p \in Phvs, Agrees(p), NEW h \in AllHeaders, NEW q, q = MarkInvalid(p, h)
  PROVE  /\ q \in Phvs /\ Agrees(q) /\ q.next = p.next
         /\ \A g \in AllHeaders : g # h => q.hdr[g] = p.hdr[g]
<1>0. /\ p.hdr \in [AllHeaders -> Headers]
      /\ p.un \in [UnionIds -> [valid : BOOLEAN, idx : Positions]]
  BY PhvIs
<1>1. /\ q \in Phvs /\ q.next = p.next
      /\ q.hdr = [p.hdr EXCEPT ![h] = Marked(p.hdr[h], FALSE)]
      /\ q.un = IF h \in UnionHeaders /\ p.un[UnionOf(h)].valid /\ p.un[UnionOf(h)].idx = IdxOf(h)
                THEN [p.un EXCEPT ![UnionOf(h)] = [valid |-> FALSE, idx |-> IdxOf(h)]]
                ELSE p.un
  <2>1. /\ q \in Phvs /\ q.next = p.next
        /\ q.hdr = HeadersWithout(p, h) /\ q.un = UnionsWithout(p, h)
    BY MarkInvalidIs
  <2> QED  BY <2>1 DEF HeadersWithout, UnionsWithout
<1>2. q.hdr[h] = Marked(p.hdr[h], FALSE) /\ \A g \in AllHeaders : g # h => q.hdr[g] = p.hdr[g]
  BY <1>0, <1>1
<1>3. ~q.hdr[h].valid /\ q.hdr[h].bit = 0
  <2>1. p.hdr[h] \in Headers
    BY <1>0
  <2>2. ~Marked(p.hdr[h], FALSE).valid /\ Marked(p.hdr[h], FALSE).bit = 0
    BY <2>1, MarkedInvalid
  <2> QED  BY <1>2, <2>2
<1>4. ASSUME NEW g \in AllHeaders PROVE q.hdr[g].bit = (IF q.hdr[g].valid THEN 1 ELSE 0)
  <2>1. CASE g = h
    BY <1>3, <2>1
  <2>2. CASE g # h
    <3>1. q.hdr[g] = p.hdr[g]
      BY <1>2, <2>2
    <3> QED  BY <3>1 DEF Agrees
  <2> QED  BY <2>1, <2>2
<1>5. ASSUME NEW u \in UnionIds, NEW k \in Positions
      PROVE  q.hdr[PhUnions[u][k]].valid <=> (q.un[u].valid /\ q.un[u].idx = k)
  <2>1. PICK g : g = PhUnions[u][k]
    OBVIOUS
  <2>2. g \in AllHeaders /\ g \in UnionHeaders /\ UnionOf(g) = u /\ IdxOf(g) = k
    BY <2>1, UnionPlaces
  <2>3. p.hdr[g].valid <=> (p.un[u].valid /\ p.un[u].idx = k)
    BY <2>1 DEF Agrees
  <2>4. CASE g = h
    <3>1. CASE p.un[u].valid /\ p.un[u].idx = k
      <4>1. q.un[u] = [valid |-> FALSE, idx |-> k]
        BY <1>0, <1>1, <2>2, <2>4, <3>1
      <4>2. ~q.un[u].valid
        BY <4>1
      <4> QED  BY <1>3, <2>1, <2>4, <4>2
    <3>2. CASE ~(p.un[u].valid /\ p.un[u].idx = k)
      <4>1. q.un = p.un
        BY <1>1, <2>2, <2>4, <3>2
      <4> QED  BY <1>3, <2>1, <2>4, <3>2, <4>1
    <3> QED  BY <3>1, <3>2
  <2>5. CASE g # h
    <3>1. q.hdr[g] = p.hdr[g]
      BY <1>2, <2>2, <2>5
    <3>2. CASE h \in UnionHeaders /\ p.un[UnionOf(h)].valid /\ p.un[UnionOf(h)].idx = IdxOf(h)
               /\ UnionOf(h) = u
      <4>1. q.un[u] = [valid |-> FALSE, idx |-> IdxOf(h)]
        BY <1>0, <1>1, <3>2
      <4>2. ~q.un[u].valid
        BY <4>1
      <4>3. PhUnions[u][IdxOf(h)] = h
        BY <3>2, UnionHeaderIs
      <4>4. IdxOf(h) # k
        BY <2>1, <2>5, <4>3
      <4> QED  BY <2>1, <2>3, <3>1, <3>2, <4>2, <4>4
    <3>3. CASE ~(h \in UnionHeaders /\ p.un[UnionOf(h)].valid /\ p.un[UnionOf(h)].idx = IdxOf(h)
                 /\ UnionOf(h) = u)
      <4>1. q.un[u] = p.un[u]
        BY <1>0, <1>1, <3>3
      <4> QED  BY <2>1, <2>3, <3>1, <4>1
    <3> QED  BY <3>2, <3>3
  <2> QED  BY <2>4, <2>5
<1>6. Agrees(q)
  BY <1>4, <1>5 DEF Agrees
<1> QED  BY <1>1, <1>2, <1>6

\* The same, header by header and union by union.
LEMMA MarkInvalidAt ==
  ASSUME NEW p \in Phvs, NEW h \in AllHeaders, NEW q, q = MarkInvalid(p, h)
  PROVE  /\ q \in Phvs /\ q.next = p.next
         /\ ~q.hdr[h].valid /\ q.hdr[h].bit = 0 /\ q.hdr[h].bytes = p.hdr[h].bytes
         /\ \A g \in AllHeaders : g # h => q.hdr[g] = p.hdr[g]
         /\ \A v \in UnionIds : ~(h \in UnionHeaders /\ UnionOf(h) = v) => q.un[v] = p.un[v]
<1>0. /\ p.hdr \in [AllHeaders -> Headers]
      /\ p.un \in [UnionIds -> [valid : BOOLEAN, idx : Positions]]
  BY PhvIs
<1>1. /\ q \in Phvs /\ q.next = p.next
      /\ q.hdr = [p.hdr EXCEPT ![h] = Marked(p.hdr[h], FALSE)]
      /\ q.un = IF h \in UnionHeaders /\ p.un[UnionOf(h)].valid /\ p.un[UnionOf(h)].idx = IdxOf(h)
                THEN [p.un EXCEPT ![UnionOf(h)] = [valid |-> FALSE, idx |-> IdxOf(h)]]
                ELSE p.un
  <2>1. /\ q \in Phvs /\ q.next = p.next
        /\ q.hdr = HeadersWithout(p, h) /\ q.un = UnionsWithout(p, h)
    BY MarkInvalidIs
  <2> QED  BY <2>1 DEF HeadersWithout, UnionsWithout
<1>2. PICK w : w = [valid |-> FALSE, idx |-> IdxOf(h)]
  OBVIOUS
<1>3. PICK x : x = Marked(p.hdr[h], FALSE)
  OBVIOUS
<1>4. q.hdr = [p.hdr EXCEPT ![h] = x]
  BY <1>1, <1>3
<1>5. q.hdr[h] = x /\ \A g \in AllHeaders : g # h => q.hdr[g] = p.hdr[g]
  BY <1>0, <1>4
<1>6. q.un = p.un \/ (h \in UnionHeaders /\ q.un = [p.un EXCEPT ![UnionOf(h)] = w])
  BY <1>1, <1>2
<1>7. \A v \in UnionIds : ~(h \in UnionHeaders /\ UnionOf(h) = v) => q.un[v] = p.un[v]
  BY <1>0, <1>6
<1>8. p.hdr[h] \in Headers
  BY <1>0
<1>9. ~x.valid /\ x.bit = 0 /\ x.bytes = p.hdr[h].bytes
  BY <1>3, <1>8, MarkedInvalid
<1> QED  BY <1>1, <1>5, <1>7, <1>9

LEMMA MarkInvalidOthers ==
  ASSUME NEW p \in Phvs, NEW h \in AllHeaders, NEW g \in AllHeaders, g # h
  PROVE  MarkInvalid(p, h).hdr[g] = p.hdr[g]
BY MarkInvalidAt

\* mark_valid makes a header valid, and no other header of its union.
LEMMA MarkValidKeeps ==
  ASSUME NEW p \in Phvs, Agrees(p), NEW h \in AllHeaders, NEW q, q = MarkValid(p, h)
  PROVE  /\ q \in Phvs /\ Agrees(q) /\ q.next = p.next
         /\ q.hdr[h].valid /\ q.hdr[h].bit = 1 /\ q.hdr[h].bytes = p.hdr[h].bytes
         /\ \A g \in AllHeaders :
              g # h /\ ~(g \in UnionHeaders /\ h \in UnionHeaders /\ UnionOf(g) = UnionOf(h))
                => q.hdr[g] = p.hdr[g]
<1>0. /\ p = [hdr |-> p.hdr, next |-> p.next, un |-> p.un]
      /\ p.hdr \in [AllHeaders -> Headers] /\ p.next \in [Stacks -> Nat]
      /\ p.un \in [UnionIds -> [valid : BOOLEAN, idx : Positions]]
  BY PhvIs
<1>1. PICK x : x = Marked(p.hdr[h], TRUE)
  OBVIOUS
<1>2. x \in Headers /\ x.valid /\ x.bit = 1 /\ x.bytes = p.hdr[h].bytes
  <2>1. p.hdr[h] \in Headers
    BY <1>0
  <2>2. /\ Marked(p.hdr[h], TRUE) \in Headers /\ Marked(p.hdr[h], TRUE).valid
        /\ Marked(p.hdr[h], TRUE).bit = 1 /\ Marked(p.hdr[h], TRUE).bytes = p.hdr[h].bytes
    BY <2>1, MarkedValid
  <2> QED  BY <1>1, <2>2
<1>3. PICK r : r = [p EXCEPT !.hdr[h] = Marked(@, TRUE)]
  OBVIOUS
<1>4. r = [hdr |-> [p.hdr EXCEPT ![h] = x], next |-> p.next, un |-> p.un]
  BY <1>0, <1>1, <1>3
<1>5. [p.hdr EXCEPT ![h] = x] \in [AllHeaders -> Headers]
  BY <1>0, <1>2
<1>6. r \in Phvs /\ r.un = p.un /\ r.hdr = [p.hdr EXCEPT ![h] = x] /\ r.next = p.next
  BY <1>0, <1>4, <1>5, PhvWith
<1>7. r.hdr[h] = x /\ \A g \in AllHeaders : g # h => r.hdr[g] = p.hdr[g]
  BY <1>0, <1>6
<1>8. CASE h \notin UnionHeaders
  <2>1. q = r
    BY <1>3, <1>8 DEF MarkValid
  <2>2. ASSUME NEW g \in AllHeaders PROVE r.hdr[g].bit = (IF r.hdr[g].valid THEN 1 ELSE 0)
    <3>1. CASE g = h
      BY <1>2, <1>7, <3>1
    <3>2. CASE g # h
      <4>1. r.hdr[g] = p.hdr[g]
        BY <1>7, <3>2
      <4> QED  BY <4>1 DEF Agrees
    <3> QED  BY <3>1, <3>2
  <2>3. ASSUME NEW u \in UnionIds, NEW k \in Positions
        PROVE  r.hdr[PhUnions[u][k]].valid <=> (r.un[u].valid /\ r.un[u].idx = k)
    <3>1. PhUnions[u][k] \in AllHeaders /\ PhUnions[u][k] # h
      BY <1>8, UnionPlaces
    <3>2. r.hdr[PhUnions[u][k]] = p.hdr[PhUnions[u][k]]
      BY <1>7, <3>1
    <3>3. p.hdr[PhUnions[u][k]].valid <=> (p.un[u].valid /\ p.un[u].idx = k)
      BY DEF Agrees
    <3> QED  BY <1>6, <3>2, <3>3
  <2>4. Agrees(r)
    BY <2>2, <2>3 DEF Agrees
  <2> QED  BY <1>2, <1>6, <1>7, <2>1, <2>4
<1>9. CASE h \in UnionHeaders
  <2>1. PICK u, k : u = UnionOf(h) /\ k = IdxOf(h)
    OBVIOUS
  <2>2. u \in UnionIds /\ k \in Positions /\ PhUnions[u][k] = h
    BY <1>9, <2>1, UnionHeaderIs
  <2>3. q = MakeHeaderValid(r, u, k)
    BY <1>3, <1>9, <2>1 DEF MarkValid
  <2>4. PICK w : w = p.un[u]
    OBVIOUS
  <2>5. w \in [valid : BOOLEAN, idx : Positions] /\ w.idx \in Positions
    BY <1>0, <2>2, <2>4
  <2>6. PICK g : g = PhUnions[u][w.idx]
    OBVIOUS
  <2>7. g \in AllHeaders /\ g \in UnionHeaders /\ UnionOf(g) = u /\ IdxOf(g) = w.idx
    BY <2>2, <2>5, <2>6, UnionPlaces
  <2>8. PICK r2 : r2 = IF w.valid /\ w.idx # k THEN MarkInvalid(r, g) ELSE r
    OBVIOUS
  <2>9. /\ r2 \in Phvs /\ r2.next = p.next
        /\ \A f \in AllHeaders : f # g \/ ~(w.valid /\ w.idx # k) => r2.hdr[f] = r.hdr[f]
        /\ w.valid /\ w.idx # k => ~r2.hdr[g].valid /\ r2.hdr[g].bit = 0
        /\ \A v \in UnionIds : v # u => r2.un[v] = p.un[v]
    <3>1. CASE w.valid /\ w.idx # k
      <4>1. r2 = MarkInvalid(r, g)
        BY <2>8, <3>1
      <4>2. r \in Phvs /\ g \in AllHeaders
        BY <1>6, <2>7
      <4>3. r2 \in Phvs /\ r2.next = r.next
        BY <4>1, <4>2, MarkInvalidAt
      <4>6. ~r2.hdr[g].valid
        BY <4>1, <4>2, MarkInvalidAt
      <4>7. r2.hdr[g].bit = 0
        BY <4>1, <4>2, MarkInvalidAt
      <4>4. ASSUME NEW f \in AllHeaders, f # g PROVE r2.hdr[f] = r.hdr[f]
        BY <4>1, <4>2, <4>4, MarkInvalidOthers
      <4>5. \A v \in UnionIds : ~(g \in UnionHeaders /\ UnionOf(g) = v) => r2.un[v] = r.un[v]
        BY <4>1, <4>2, MarkInvalidAt
      <4> QED  BY <1>6, <2>7, <3>1, <4>3, <4>4, <4>5, <4>6, <4>7
    <3>2. CASE ~(w.valid /\ w.idx # k)
      <4>1. r2 = r
        BY <2>8, <3>2
      <4> QED  BY <1>6, <3>2, <4>1
    <3> QED  BY <3>1, <3>2
  <2>10. PICK y : y = [valid |-> TRUE, idx |-> k]
    OBVIOUS
  <2>11. y \in [valid : BOOLEAN, idx : Positions] /\ y.valid /\ y.idx = k
    BY <2>2, <2>10, UnionStateIs
  <2>12. q = [r2 EXCEPT !.un[u] = y]
    BY <1>6, <2>3, <2>4, <2>6, <2>8, <2>10 DEF MakeHeaderValid
  <2>13. /\ r2 = [hdr |-> r2.hdr, next |-> r2.next, un |-> r2.un]
         /\ r2.hdr \in [AllHeaders -> Headers] /\ r2.next \in [Stacks -> Nat]
         /\ r2.un \in [UnionIds -> [valid : BOOLEAN, idx : Positions]]
    BY <2>9, PhvIs
  <2>14. q = [hdr |-> r2.hdr, next |-> r2.next, un |-> [r2.un EXCEPT ![u] = y]]
    BY <2>12, <2>13
  <2>15. [r2.un EXCEPT ![u] = y] \in [UnionIds -> [valid : BOOLEAN, idx : Positions]]
    BY <2>2, <2>11, <2>13
  <2>16. q \in Phvs /\ q.hdr = r2.hdr /\ q.next = r2.next /\ q.un = [r2.un EXCEPT ![u] = y]
    <3>1. PICK hh, nn, uu : hh = r2.hdr /\ nn = r2.next /\ uu = [r2.un EXCEPT ![u] = y]
      OBVIOUS
    <3>2. /\ hh \in [AllHeaders -> Headers] /\ nn \in [Stacks -> Nat]
          /\ uu \in [UnionIds -> [valid : BOOLEAN, idx : Positions]]
          /\ q = [hdr |-> hh, next |-> nn, un |-> uu]
      BY <2>13, <2>14, <2>15, <3>1
    <3>3. q \in Phvs /\ q.hdr = hh /\ q.next = nn /\ q.un = uu
      BY <3>2, PhvWith
    <3> QED  BY <3>1, <3>3
  <2>17. q.un[u] = y /\ \A v \in UnionIds : v # u => q.un[v] = p.un[v]
    BY <2>2, <2>9, <2>13, <2>16
  \* The header itself, the others of its union, and those of no concern.
  <2>18. q.hdr[h] = x
    <3>1. CASE w.valid /\ w.idx # k
      <4>1. g # h
        BY <2>1, <2>7, <3>1
      <4>2. r2.hdr[h] = r.hdr[h]
        BY <2>9, <4>1
      <4> QED  BY <1>7, <2>16, <4>2
    <3>2. CASE ~(w.valid /\ w.idx # k)
      <4>1. r2.hdr[h] = r.hdr[h]
        BY <2>9, <3>2
      <4> QED  BY <1>7, <2>16, <4>1
    <3> QED  BY <3>1, <3>2
  <2>19. ASSUME NEW l \in Positions, l # k, NEW f, f = PhUnions[u][l]
         PROVE  ~q.hdr[f].valid /\ q.hdr[f].bit = 0
    <3>1. f \in AllHeaders /\ IdxOf(f) = l /\ f # h
      BY <2>1, <2>2, <2>19, UnionPlaces
    <3>2. p.hdr[f].valid <=> (w.valid /\ w.idx = l)
      BY <2>2, <2>4, <2>19 DEF Agrees
    <3>3. p.hdr[f].bit = (IF p.hdr[f].valid THEN 1 ELSE 0)
      BY <3>1 DEF Agrees
    <3>4. CASE w.valid /\ w.idx # k /\ f = g
      BY <2>9, <2>16, <3>4
    <3>5. CASE ~(w.valid /\ w.idx # k /\ f = g)
      <4>1. q.hdr[f] = r.hdr[f]
        BY <2>9, <2>16, <3>1, <3>5
      <4>2. r.hdr[f] = p.hdr[f]
        BY <1>7, <3>1
      <4>3. ~p.hdr[f].valid
        BY <2>6, <2>19, <3>2, <3>5
      <4> QED  BY <3>3, <4>1, <4>2, <4>3
    <3> QED  BY <3>4, <3>5
  <2>20. ASSUME NEW f \in AllHeaders, ~(f \in UnionHeaders /\ UnionOf(f) = u)
         PROVE  q.hdr[f] = p.hdr[f]
    <3>1. f # h /\ f # g
      BY <1>9, <2>1, <2>7, <2>20
    <3>2. r.hdr[f] = p.hdr[f]
      BY <1>7, <3>1
    <3>3. q.hdr[f] = r.hdr[f]
      BY <2>9, <2>16, <3>1
    <3> QED  BY <3>2, <3>3
  <2>21. ASSUME NEW f \in AllHeaders PROVE q.hdr[f].bit = (IF q.hdr[f].valid THEN 1 ELSE 0)
    <3>1. CASE f = h
      BY <1>2, <2>18, <3>1
    <3>2. CASE f # h /\ f \in UnionHeaders /\ UnionOf(f) = u
      <4>1. IdxOf(f) \in Positions /\ f = PhUnions[u][IdxOf(f)]
        BY <3>2, UnionHeaderIs
      <4>2. IdxOf(f) # k
        BY <2>2, <3>2, <4>1
      <4>3. ~q.hdr[f].valid /\ q.hdr[f].bit = 0
        BY <2>19, <4>1, <4>2
      <4> QED  BY <4>3
    <3>3. CASE ~(f \in UnionHeaders /\ UnionOf(f) = u)
      <4>1. q.hdr[f] = p.hdr[f]
        BY <2>20, <3>3
      <4> QED  BY <4>1 DEF Agrees
    <3> QED  BY <3>1, <3>2, <3>3
  <2>22. ASSUME NEW v \in UnionIds, NEW l \in Positions
         PROVE  q.hdr[PhUnions[v][l]].valid <=> (q.un[v].valid /\ q.un[v].idx = l)
    <3>1. CASE v # u
      <4>1. PICK f : f = PhUnions[v][l]
        OBVIOUS
      <4>2. f \in AllHeaders /\ UnionOf(f) = v
        BY <4>1, UnionPlaces
      <4>3. q.hdr[f] = p.hdr[f]
        BY <2>20, <3>1, <4>2
      <4>4. p.hdr[f].valid <=> (p.un[v].valid /\ p.un[v].idx = l)
        BY <4>1 DEF Agrees
      <4>5. q.un[v] = p.un[v]
        BY <2>17, <3>1
      <4> QED  BY <4>1, <4>3, <4>4, <4>5
    <3>2. CASE v = u /\ l = k
      BY <1>2, <2>2, <2>11, <2>17, <2>18, <3>2
    <3>3. CASE v = u /\ l # k
      <4>1. ~q.hdr[PhUnions[u][l]].valid
        BY <2>19, <3>3
      <4>2. q.un[v].idx = k
        BY <2>11, <2>17, <3>3
      <4> QED  BY <3>3, <4>1, <4>2
    <3> QED  BY <3>1, <3>2, <3>3
  <2>23. Agrees(q)
    BY <2>21, <2>22 DEF Agrees
  <2>24. \A f \in AllHeaders :
           f # h /\ ~(f \in UnionHeaders /\ h \in UnionHeaders /\ UnionOf(f) = UnionOf(h))
             => q.hdr[f] = p.hdr[f]
    BY <1>9, <2>1, <2>20
  <2> QED  BY <1>2, <2>9, <2>16, <2>18, <2>23, <2>24
<1> QED  BY <1>8, <1>9

-----------------------------------------------------------------------------
(* Elements of stacks. *)

\* A stack has a depth, and its elements are headers of their own.
LEMMA Depths ==
  ASSUME NEW s \in Stacks
  PROVE  Depth(s) \in Nat /\ (s = "headers" => Depth(s) = Len(PhStack))
         /\ (s # "headers" => Depth(s) = Len(PhUnions))
BY StackPlaces, UnionPlaces DEF Depth

LEMMA ElementIs ==
  ASSUME NEW s \in Stacks, NEW i \in 0 .. Depth(s) - 1
  PROVE  /\ s = "headers" => /\ i + 1 \in 1 .. Len(PhStack) /\ Len(ElementOf(s, i)) = 1
                             /\ ElementOf(s, i)[1] = PhStack[i + 1]
         /\ s # "headers" => /\ i + 1 \in UnionIds /\ Len(ElementOf(s, i)) = Len(PhUnions[1])
                             /\ ElementOf(s, i) = PhUnions[i + 1]
<1>1. CASE s = "headers"
  <2>1. i + 1 \in 1 .. Len(PhStack)
    BY <1>1, Depths, StackPlaces
  <2>2. PICK h : h = PhStack[i + 1]
    OBVIOUS
  <2>3. ElementOf(s, i) = <<h>>
    BY <1>1, <2>2 DEF ElementOf
  <2> QED  BY <1>1, <2>1, <2>2, <2>3
<1>2. CASE s # "headers"
  <2>1. i + 1 \in UnionIds
    BY <1>2, Depths, UnionPlaces DEF UnionIds
  <2>2. ElementOf(s, i) = PhUnions[i + 1]
    BY <1>2 DEF ElementOf
  <2>3. Len(PhUnions[i + 1]) = Len(PhUnions[1])
    BY <2>1, UnionPlaces
  <2> QED  BY <1>2, <2>1, <2>2, <2>3
<1> QED  BY <1>1, <1>2

LEMMA ExchangedIs ==
  ASSUME NEW S, NEW x \in S, NEW a \in S, NEW b \in S
  PROVE  Exchanged(x, a, b) \in S
BY DEF Exchanged

\* swap_values of two headers of no union.
LEMMA SwapHeadersKeeps ==
  ASSUME NEW p \in Phvs, Agrees(p), NEW g \in AllHeaders, NEW h \in AllHeaders,
         g \notin UnionHeaders, h \notin UnionHeaders, NEW q, q = SwapHeaders(p, g, h)
  PROVE  /\ q \in Phvs /\ Agrees(q) /\ q.next = p.next
         /\ \A f \in AllHeaders : q.hdr[f] = p.hdr[Exchanged(f, g, h)]
<1>0. /\ p = [hdr |-> p.hdr, next |-> p.next, un |-> p.un]
      /\ p.hdr \in [AllHeaders -> Headers] /\ p.next \in [Stacks -> Nat]
      /\ p.un \in [UnionIds -> [valid : BOOLEAN, idx : Positions]]
  BY PhvIs
<1>1. PICK hh, nn, uu : hh = [f \in AllHeaders |-> p.hdr[Exchanged(f, g, h)]] /\ nn = p.next /\ uu = p.un
  OBVIOUS
<1>2. \A f \in AllHeaders : Exchanged(f, g, h) \in AllHeaders
  BY ExchangedIs
<1>3. hh \in [AllHeaders -> Headers] /\ \A f \in AllHeaders : hh[f] = p.hdr[Exchanged(f, g, h)]
  BY <1>0, <1>1, <1>2
<1>4. q = [hdr |-> hh, next |-> nn, un |-> uu]
  BY <1>0, <1>1 DEF SwapHeaders
<1>5. q \in Phvs /\ q.hdr = hh /\ q.next = nn /\ q.un = uu
  BY <1>0, <1>1, <1>3, <1>4, PhvWith
<1>6. ASSUME NEW f \in AllHeaders PROVE q.hdr[f].bit = (IF q.hdr[f].valid THEN 1 ELSE 0)
  <2>1. PICK e \in AllHeaders : e = Exchanged(f, g, h)
    BY <1>2
  <2>2. q.hdr[f] = p.hdr[e]
    BY <1>3, <1>5, <2>1
  <2> QED  BY <2>2 DEF Agrees
<1>7. ASSUME NEW u \in UnionIds, NEW k \in Positions
      PROVE  q.hdr[PhUnions[u][k]].valid <=> (q.un[u].valid /\ q.un[u].idx = k)
  <2>1. PICK f : f = PhUnions[u][k]
    OBVIOUS
  <2>2. f \in AllHeaders /\ f \in UnionHeaders
    BY <2>1, UnionPlaces
  <2>3. Exchanged(f, g, h) = f
    BY <2>2 DEF Exchanged
  <2>4. q.hdr[f] = p.hdr[f]
    BY <1>3, <1>5, <2>2, <2>3
  <2>5. p.hdr[f].valid <=> (p.un[u].valid /\ p.un[u].idx = k)
    BY <2>1 DEF Agrees
  <2> QED  BY <1>1, <1>5, <2>1, <2>4, <2>5
<1>8. Agrees(q)
  BY <1>6, <1>7 DEF Agrees
<1> QED  BY <1>1, <1>3, <1>5, <1>8

\* swap_values of two unions.
LEMMA SwapUnionsKeeps ==
  ASSUME NEW p \in Phvs, Agrees(p), NEW u \in UnionIds, NEW v \in UnionIds,
         NEW q, q = SwapUnions(p, u, v)
  PROVE  /\ q \in Phvs /\ Agrees(q) /\ q.next = p.next
         /\ \A w \in UnionIds, k \in Positions :
              q.hdr[PhUnions[w][k]] = p.hdr[PhUnions[Exchanged(w, u, v)][k]]
<1>0. /\ p = [hdr |-> p.hdr, next |-> p.next, un |-> p.un]
      /\ p.hdr \in [AllHeaders -> Headers] /\ p.next \in [Stacks -> Nat]
      /\ p.un \in [UnionIds -> [valid : BOOLEAN, idx : Positions]]
  BY PhvIs
<1> DEFINE New(h) == IF h \in UnionHeaders
                     THEN p.hdr[PhUnions[Exchanged(UnionOf(h), u, v)][IdxOf(h)]] ELSE p.hdr[h]
<1>1. PICK hh, nn, uu : /\ hh = [h \in AllHeaders |-> New(h)] /\ nn = p.next
                        /\ uu = [w \in UnionIds |-> p.un[Exchanged(w, u, v)]]
  OBVIOUS
<1>2. \A w \in UnionIds : Exchanged(w, u, v) \in UnionIds
  BY ExchangedIs
<1>3. \A h \in AllHeaders : New(h) \in Headers
  <2>1. ASSUME NEW h \in AllHeaders, h \in UnionHeaders PROVE New(h) \in Headers
    <3>1. PICK w : w = Exchanged(UnionOf(h), u, v)
      OBVIOUS
    <3>2. w \in UnionIds /\ IdxOf(h) \in Positions
      BY <1>2, <2>1, <3>1, UnionHeaderIs
    <3>3. PhUnions[w][IdxOf(h)] \in AllHeaders
      BY <3>2, UnionPlaces
    <3> QED  BY <1>0, <2>1, <3>1, <3>3
  <2>2. ASSUME NEW h \in AllHeaders, h \notin UnionHeaders PROVE New(h) \in Headers
    BY <1>0, <2>2
  <2> QED  BY <2>1, <2>2
<1>4. ASSUME NEW w \in UnionIds, NEW k \in Positions
      PROVE  New(PhUnions[w][k]) = p.hdr[PhUnions[Exchanged(w, u, v)][k]]
  BY UnionPlaces
<1>5. ASSUME NEW h \in AllHeaders, h \notin UnionHeaders PROVE New(h) = p.hdr[h]
  BY <1>5
<1>6. q = [hdr |-> hh, next |-> nn, un |-> uu]
  <2>1. q = [p EXCEPT !.un = uu, !.hdr = hh]
    BY <1>1 DEF SwapUnions
  <2> HIDE DEF New
  <2> QED  BY <1>0, <1>1, <2>1
<1> HIDE DEF New
<1>7. hh \in [AllHeaders -> Headers] /\ \A h \in AllHeaders : hh[h] = New(h)
  BY <1>1, <1>3
<1>8. /\ uu \in [UnionIds -> [valid : BOOLEAN, idx : Positions]]
      /\ \A w \in UnionIds : uu[w] = p.un[Exchanged(w, u, v)]
  BY <1>0, <1>1, <1>2
<1>9. q \in Phvs /\ q.hdr = hh /\ q.next = nn /\ q.un = uu
  BY <1>0, <1>1, <1>6, <1>7, <1>8, PhvWith
<1>10. ASSUME NEW w \in UnionIds, NEW k \in Positions
       PROVE  q.hdr[PhUnions[w][k]] = p.hdr[PhUnions[Exchanged(w, u, v)][k]]
  <2>1. PhUnions[w][k] \in AllHeaders
    BY UnionPlaces
  <2> QED  BY <1>4, <1>7, <1>9, <2>1
<1>11. ASSUME NEW f \in AllHeaders PROVE q.hdr[f].bit = (IF q.hdr[f].valid THEN 1 ELSE 0)
  <2>1. CASE f \in UnionHeaders
    <3>1. PICK w, k : w = UnionOf(f) /\ k = IdxOf(f)
      OBVIOUS
    <3>2. w \in UnionIds /\ k \in Positions /\ PhUnions[w][k] = f
      BY <2>1, <3>1, UnionHeaderIs
    <3>3. PICK e : e = PhUnions[Exchanged(w, u, v)][k]
      OBVIOUS
    <3>4. e \in AllHeaders
      BY <1>2, <3>2, <3>3, UnionPlaces
    <3>5. q.hdr[f] = p.hdr[e]
      BY <1>10, <3>2, <3>3
    <3> QED  BY <3>4, <3>5 DEF Agrees
  <2>2. CASE f \notin UnionHeaders
    <3>1. q.hdr[f] = p.hdr[f]
      BY <1>5, <1>7, <1>9, <2>2
    <3> QED  BY <3>1 DEF Agrees
  <2> QED  BY <2>1, <2>2
<1>12. ASSUME NEW w \in UnionIds, NEW k \in Positions
       PROVE  q.hdr[PhUnions[w][k]].valid <=> (q.un[w].valid /\ q.un[w].idx = k)
  <2>1. PICK x \in UnionIds : x = Exchanged(w, u, v)
    BY <1>2
  <2>2. q.hdr[PhUnions[w][k]] = p.hdr[PhUnions[x][k]]
    BY <1>10, <2>1
  <2>3. q.un[w] = p.un[x]
    BY <1>8, <1>9, <2>1
  <2>4. p.hdr[PhUnions[x][k]].valid <=> (p.un[x].valid /\ p.un[x].idx = k)
    BY DEF Agrees
  <2> QED  BY <2>2, <2>3, <2>4
<1>13. Agrees(q)
  BY <1>11, <1>12 DEF Agrees
<1> QED  BY <1>1, <1>9, <1>10, <1>13

LEMMA SwapUnionsAt ==
  ASSUME NEW p \in Phvs, Agrees(p), NEW u \in UnionIds, NEW v \in UnionIds,
         NEW w \in UnionIds, NEW k \in Positions
  PROVE  SwapUnions(p, u, v).hdr[PhUnions[w][k]] = p.hdr[PhUnions[Exchanged(w, u, v)][k]]
BY SwapUnionsKeeps

\* The PHVs whose headers and unions agree and whose stacks are as full as p's.
Like(p) == {r \in Phvs : Agrees(r) /\ r.next = p.next}

\* Two elements of a stack exchange what they hold.
LEMMA ElementsSwapped ==
  ASSUME NEW p, NEW r \in Like(p), NEW s \in Stacks, NEW i \in 0 .. Depth(s) - 1,
         NEW j \in 0 .. Depth(s) - 1, NEW q, q = Swap(r, s, i, j)
  PROVE  /\ q \in Like(p)
         /\ \A m \in 0 .. Depth(s) - 1 : Content(q, s, m) = Content(r, s, Exchanged(m, i, j))
<1>0. r \in Phvs /\ Agrees(r) /\ r.next = p.next
  BY DEF Like
<1>1. \A m \in 0 .. Depth(s) - 1 : Exchanged(m, i, j) \in 0 .. Depth(s) - 1
  BY ExchangedIs
<1>2. CASE s = "headers"
  <2>1. PICK g, h : g = PhStack[i + 1] /\ h = PhStack[j + 1]
    OBVIOUS
  <2>2. i + 1 \in 1 .. Len(PhStack) /\ j + 1 \in 1 .. Len(PhStack)
    BY <1>2, ElementIs
  <2>3. g \in AllHeaders /\ g \notin UnionHeaders /\ h \in AllHeaders /\ h \notin UnionHeaders
    BY <2>1, <2>2, StackPlaces
  <2>4. q = SwapHeaders(r, g, h)
    BY <1>2, <2>1 DEF Swap
  <2>5. q \in Phvs /\ Agrees(q) /\ q.next = r.next
    BY <1>0, <2>3, <2>4, SwapHeadersKeeps
  <2>6. \A f \in AllHeaders : q.hdr[f] = r.hdr[Exchanged(f, g, h)]
    BY <1>0, <2>3, <2>4, SwapHeadersKeeps
  <2>7. ASSUME NEW m \in 0 .. Depth(s) - 1
        PROVE  Content(q, s, m) = Content(r, s, Exchanged(m, i, j))
    <3>1. PICK n \in 0 .. Depth(s) - 1 : n = Exchanged(m, i, j)
      BY <1>1
    <3>2. m + 1 \in 1 .. Len(PhStack) /\ n + 1 \in 1 .. Len(PhStack)
      BY <1>2, ElementIs
    <3>3. Exchanged(PhStack[m + 1], g, h) = PhStack[n + 1]
      <4>1. PhStack[m + 1] = g => m = i
        <5>1. PhStack[m + 1] = PhStack[i + 1] => m + 1 = i + 1
          BY <2>2, <3>2, StackPlaces
        <5> QED  BY <2>1, <5>1
      <4>2. PhStack[m + 1] = h => m = j
        <5>1. PhStack[m + 1] = PhStack[j + 1] => m + 1 = j + 1
          BY <2>2, <3>2, StackPlaces
        <5> QED  BY <2>1, <5>1
      <4> QED  BY <2>1, <3>1, <4>1, <4>2 DEF Exchanged
    <3>4. PhStack[m + 1] \in AllHeaders
      BY <3>2, StackPlaces
    <3>5. q.hdr[PhStack[m + 1]] = r.hdr[PhStack[n + 1]]
      BY <2>6, <3>3, <3>4
    <3>6. /\ Len(ElementOf(s, m)) = 1 /\ ElementOf(s, m)[1] = PhStack[m + 1]
          /\ ElementOf(s, n)[1] = PhStack[n + 1]
      BY <1>2, ElementIs
    <3>7. \A k \in 1 .. Len(ElementOf(s, m)) : q.hdr[ElementOf(s, m)[k]] = r.hdr[ElementOf(s, n)[k]]
      <4>1. \A k \in 1 .. 1 : k = 1
        OBVIOUS
      <4> QED  BY <3>5, <3>6, <4>1
    <3>8. Content(q, s, m) = Content(r, s, n)
      <4>1. Len(ElementOf(s, m)) = Len(ElementOf(s, n))
        BY ElementIs
      <4> QED  BY <3>7, <4>1 DEF Content
    <3> QED  BY <3>1, <3>8
  <2> QED  BY <1>0, <2>5, <2>7 DEF Like
<1>3. CASE s # "headers"
  <2>1. i + 1 \in UnionIds /\ j + 1 \in UnionIds
    BY <1>3, ElementIs
  <2>2. PICK u, v : u = i + 1 /\ v = j + 1
    OBVIOUS
  <2>3. q = SwapUnions(r, u, v)
    BY <1>3, <2>2 DEF Swap
  <2>4. q \in Phvs /\ Agrees(q) /\ q.next = r.next
    BY <1>0, <2>1, <2>2, <2>3, SwapUnionsKeeps
  <2>5. ASSUME NEW w \in UnionIds, NEW k \in Positions
        PROVE  q.hdr[PhUnions[w][k]] = r.hdr[PhUnions[Exchanged(w, u, v)][k]]
    <3>1. u \in UnionIds /\ v \in UnionIds
      BY <2>1, <2>2
    <3> QED  BY <1>0, <2>3, <3>1, SwapUnionsAt
  <2>6. ASSUME NEW m \in 0 .. Depth(s) - 1
        PROVE  Content(q, s, m) = Content(r, s, Exchanged(m, i, j))
    <3>1. PICK n \in 0 .. Depth(s) - 1 : n = Exchanged(m, i, j)
      BY <1>1
    <3>2. m + 1 \in UnionIds
      BY <1>3, ElementIs
    <3>3. Exchanged(m + 1, u, v) = n + 1
      BY <2>2, <3>1 DEF Exchanged
    <3>4. \A k \in Positions : q.hdr[PhUnions[m + 1][k]] = r.hdr[PhUnions[n + 1][k]]
      BY <2>5, <3>2, <3>3
    <3>5. /\ Len(ElementOf(s, m)) = Len(PhUnions[1]) /\ ElementOf(s, m) = PhUnions[m + 1]
          /\ ElementOf(s, n) = PhUnions[n + 1]
      BY <1>3, ElementIs
    <3>6. \A k \in 1 .. Len(ElementOf(s, m)) : q.hdr[ElementOf(s, m)[k]] = r.hdr[ElementOf(s, n)[k]]
      BY <3>4, <3>5, UnionPlaces
    <3>7. Content(q, s, m) = Content(r, s, n)
      <4>1. Len(ElementOf(s, m)) = Len(ElementOf(s, n))
        BY ElementIs
      <4> QED  BY <3>6, <4>1 DEF Content
    <3> QED  BY <3>1, <3>7
  <2> QED  BY <1>0, <2>4, <2>6 DEF Like
<1> QED  BY <1>2, <1>3

LEMMA MarkValidOthers ==
  ASSUME NEW p \in Phvs, Agrees(p), NEW h \in AllHeaders, NEW g \in AllHeaders, g # h,
         ~(g \in UnionHeaders /\ h \in UnionHeaders /\ UnionOf(g) = UnionOf(h))
  PROVE  MarkValid(p, h).hdr[g] = p.hdr[g]
BY MarkValidKeeps

\* Marking one element leaves the others.
LEMMA ElementInvalidKeeps ==
  ASSUME NEW p, NEW r \in Like(p), NEW s \in Stacks, NEW i \in 0 .. Depth(s) - 1,
         NEW q, q = ElementInvalid(r, s, i)
  PROVE  /\ q \in Like(p)
         /\ \A m \in 0 .. Depth(s) - 1 : m # i => Content(q, s, m) = Content(r, s, m)
<1>0. r \in Phvs /\ Agrees(r) /\ r.next = p.next
  BY DEF Like
<1>1. CASE s = "headers"
  <2>1. PICK h : h = PhStack[i + 1]
    OBVIOUS
  <2>2. i + 1 \in 1 .. Len(PhStack)
    BY <1>1, ElementIs
  <2>3. h \in AllHeaders
    BY <2>1, <2>2, StackPlaces
  <2>4. q = MarkInvalid(r, h)
    BY <1>1, <2>1 DEF ElementInvalid
  <2>5. q \in Phvs /\ Agrees(q) /\ q.next = r.next
    BY <1>0, <2>3, <2>4, MarkInvalidKeeps
  <2>6. ASSUME NEW m \in 0 .. Depth(s) - 1, m # i PROVE Content(q, s, m) = Content(r, s, m)
    <3>1. m + 1 \in 1 .. Len(PhStack) /\ Len(ElementOf(s, m)) = 1 /\ ElementOf(s, m)[1] = PhStack[m + 1]
      BY <1>1, ElementIs
    <3>2. PICK g : g = PhStack[m + 1]
      OBVIOUS
    <3>3. g \in AllHeaders /\ g # h
      <4>1. m + 1 # i + 1
        BY <2>6
      <4> QED  BY <2>1, <2>2, <3>1, <3>2, <4>1, StackPlaces
    <3>4. q.hdr[g] = r.hdr[g]
      BY <1>0, <2>3, <2>4, <3>3, MarkInvalidOthers
    <3>5. \A k \in 1 .. 1 : k = 1
      OBVIOUS
    <3> QED  BY <3>1, <3>2, <3>4, <3>5 DEF Content
  <2> QED  BY <1>0, <2>5, <2>6 DEF Like
<1>2. CASE s # "headers"
  BY <1>2 DEF ElementInvalid
<1> QED  BY <1>1, <1>2

LEMMA ElementValidKeeps ==
  ASSUME NEW p, NEW r \in Like(p), NEW s \in Stacks, NEW i \in 0 .. Depth(s) - 1,
         NEW q, q = ElementValid(r, s, i)
  PROVE  /\ q \in Like(p)
         /\ \A m \in 0 .. Depth(s) - 1 : m # i => Content(q, s, m) = Content(r, s, m)
<1>0. r \in Phvs /\ Agrees(r) /\ r.next = p.next
  BY DEF Like
<1>1. CASE s = "headers"
  <2>1. PICK h : h = PhStack[i + 1]
    OBVIOUS
  <2>2. i + 1 \in 1 .. Len(PhStack)
    BY <1>1, ElementIs
  <2>3. h \in AllHeaders /\ h \notin UnionHeaders
    BY <2>1, <2>2, StackPlaces
  <2>4. q = MarkValid(r, h)
    BY <1>1, <2>1 DEF ElementValid
  <2>5. q \in Phvs /\ Agrees(q) /\ q.next = r.next
    BY <1>0, <2>3, <2>4, MarkValidKeeps
  <2>6. ASSUME NEW m \in 0 .. Depth(s) - 1, m # i PROVE Content(q, s, m) = Content(r, s, m)
    <3>1. m + 1 \in 1 .. Len(PhStack) /\ Len(ElementOf(s, m)) = 1 /\ ElementOf(s, m)[1] = PhStack[m + 1]
      BY <1>1, ElementIs
    <3>2. PICK g : g = PhStack[m + 1]
      OBVIOUS
    <3>3. g \in AllHeaders /\ g # h
      <4>1. m + 1 # i + 1
        BY <2>6
      <4> QED  BY <2>1, <2>2, <3>1, <3>2, <4>1, StackPlaces
    <3>4. q.hdr[g] = r.hdr[g]
      BY <1>0, <2>3, <2>4, <3>3, MarkValidOthers
    <3>5. \A k \in 1 .. 1 : k = 1
      OBVIOUS
    <3> QED  BY <3>1, <3>2, <3>4, <3>5 DEF Content
  <2> QED  BY <1>0, <2>5, <2>6 DEF Like
<1>2. CASE s # "headers"
  BY <1>2 DEF ElementValid
<1> QED  BY <1>1, <1>2

-----------------------------------------------------------------------------
(* The loops over the elements of a stack. *)

\* The loop of push_front moves the elements below top - n up by n places.
LEMMA PushShiftIs ==
  ASSUME NEW p \in Phvs, Agrees(p), NEW s \in Stacks, NEW n \in 1 .. Depth(s),
         NEW top \in n .. Depth(s), NEW q, q = PushShift(p, s, n, top)
  PROVE  /\ q \in Like(p)
         /\ \A i \in n .. top - 1 : Content(q, s, i) = Content(p, s, i - n)
<1>0. Depth(s) \in Nat /\ n \in Nat /\ top \in Nat
  BY Depths
<1>1. PICK N \in Nat : N = top - n
  BY <1>0
<1> DEFINE V == Like(p)
           After(r, k) == Swap(r, s, top - k, top - k - n)
           step == [k \in 1 .. N |-> [r \in V |-> After(r, k)]]
<1>2. p \in V
  BY DEF Like
<1>3. \A k \in 1 .. N : top - k \in 0 .. Depth(s) - 1 /\ top - k - n \in 0 .. Depth(s) - 1
  BY <1>0, <1>1
<1>4. \A k \in 1 .. N : \A r \in V : After(r, k) \in V
  BY <1>3, ElementsSwapped
<1>5. step \in StepsOf(N, V)
  <2> HIDE DEF V, After
  <2> QED  BY <1>4 DEF StepsOf
<1>6. PICK w : w \in RunsOf(N, V, p, step)
  <2> HIDE DEF V, step
  <2> QED  BY <1>2, <1>5, Iterates
<1>7. w \in [0 .. N -> V] /\ w[0] = p /\ \A k \in 1 .. N : w[k] = After(w[k - 1], k)
  <2>1. \A k \in 1 .. N : k - 1 \in 0 .. N
    OBVIOUS
  <2>2. w \in [0 .. N -> V] /\ w[0] = p /\ \A k \in 1 .. N : w[k] = step[k][w[k - 1]]
    <3> HIDE DEF V, step
    <3> QED  BY <1>6 DEF RunsOf
  <2> HIDE DEF V, After
  <2> QED  BY <2>1, <2>2
<1>8. w = [k \in 0 .. N |-> IF k = 0 THEN p ELSE After(w[k - 1], k)]
  <2>1. \A k \in 0 .. N : k = 0 \/ (k \in 1 .. N /\ k # 0)
    OBVIOUS
  <2> HIDE DEF V, After
  <2>2. \A k \in 0 .. N : w[k] = IF k = 0 THEN p ELSE After(w[k - 1], k)
    BY <1>7, <2>1
  <2> QED  BY <1>7, <2>2
<1>9. PICK f : f = [k \in 0 .. N |-> IF k = 0 THEN p ELSE After(f[k - 1], k)] /\ q = f[N]
  <2> DEFINE g == CHOOSE f : f = [k \in 0 .. N |-> IF k = 0 THEN p ELSE After(f[k - 1], k)]
  <2>1. g = [k \in 0 .. N |-> IF k = 0 THEN p ELSE After(g[k - 1], k)]
    <3> HIDE DEF After
    <3> QED  BY <1>8
  <2>2. q = g[N]
    BY <1>1 DEF PushShift
  <2> HIDE DEF g, After
  <2> QED  BY <2>1, <2>2
<1>10. f[0] = p /\ \A k \in 1 .. N : f[k] = After(f[k - 1], k)
  <2> HIDE DEF After
  <2>1. 0 \in 0 .. N /\ \A k \in 1 .. N : k \in 0 .. N /\ k # 0
    OBVIOUS
  <2> QED  BY <1>9, <2>1
<1> DEFINE Moved(k) == \A i \in top - k .. top - 1 : Content(f[k], s, i) = Content(p, s, i - n)
           StillBelow(k) == \A m \in 0 .. top - k - 1 - n : Content(f[k], s, m) = Content(p, s, m)
           S == {k \in 0 .. N : f[k] \in V /\ Moved(k) /\ StillBelow(k)}
<1>11. 0 \in S
  <2>1. \A i : ~(i \in top - 0 .. top - 1)
    BY <1>0
  <2> QED  BY <1>2, <1>10, <2>1
<1>12. ASSUME NEW k \in 1 .. N, k - 1 \in S PROVE k \in S
  <2>1. PICK r : r = f[k - 1]
    OBVIOUS
  <2>2. /\ r \in V
        /\ \A i \in top - (k - 1) .. top - 1 : Content(r, s, i) = Content(p, s, i - n)
        /\ \A m \in 0 .. top - (k - 1) - 1 - n : Content(r, s, m) = Content(p, s, m)
    BY <1>12, <2>1
  <2>3. PICK a \in 0 .. Depth(s) - 1, b \in 0 .. Depth(s) - 1 : a = top - k /\ b = top - k - n
    BY <1>3
  <2>4. f[k] = Swap(r, s, a, b)
    BY <1>10, <2>1, <2>3
  <2>5. /\ f[k] \in V
        /\ \A m \in 0 .. Depth(s) - 1 : Content(f[k], s, m) = Content(r, s, Exchanged(m, a, b))
    BY <2>2, <2>4, ElementsSwapped
  <2>6. ASSUME NEW i \in top - k .. top - 1 PROVE Content(f[k], s, i) = Content(p, s, i - n)
    <3>1. i \in 0 .. Depth(s) - 1
      BY <1>0, <1>1
    <3>2. CASE i = a
      <4>1. Exchanged(i, a, b) = b /\ b = i - n /\ b \in 0 .. top - (k - 1) - 1 - n
        BY <1>0, <1>1, <2>3, <3>2 DEF Exchanged
      <4> QED  BY <2>2, <2>5, <3>1, <4>1
    <3>3. CASE i # a
      <4>1. i \in top - (k - 1) .. top - 1 /\ i # b
        BY <1>0, <1>1, <2>3, <3>3
      <4>2. Exchanged(i, a, b) = i
        BY <3>3, <4>1 DEF Exchanged
      <4> QED  BY <2>2, <2>5, <3>1, <4>1, <4>2
    <3> QED  BY <3>2, <3>3
  <2>7. ASSUME NEW m \in 0 .. top - k - 1 - n PROVE Content(f[k], s, m) = Content(p, s, m)
    <3>1. m \in 0 .. Depth(s) - 1 /\ m # a /\ m # b /\ m \in 0 .. top - (k - 1) - 1 - n
      BY <1>0, <1>1, <2>3
    <3>2. Exchanged(m, a, b) = m
      BY <3>1 DEF Exchanged
    <3> QED  BY <2>2, <2>5, <3>1, <3>2
  <2>8. k \in 0 .. N
    OBVIOUS
  <2> QED  BY <2>5, <2>6, <2>7, <2>8
<1>13. N \in S
  <2>1. N \in 0 .. N
    OBVIOUS
  <2> HIDE DEF S
  <2> QED  BY <1>11, <1>12, <2>1, UpTo
<1>14. top - N = n
  BY <1>0, <1>1
<1> QED  BY <1>9, <1>13, <1>14

\* The loop of pop_front moves the elements from n on down by n places.
LEMMA PopShiftIs ==
  ASSUME NEW p \in Phvs, Agrees(p), NEW s \in Stacks, NEW n \in 1 .. Depth(s),
         NEW top \in 0 .. Depth(s) - n, NEW q, q = PopShift(p, s, n, top)
  PROVE  /\ q \in Like(p)
         /\ \A i \in 0 .. top - 1 : Content(q, s, i) = Content(p, s, i + n)
<1>0. Depth(s) \in Nat /\ n \in Nat /\ top \in Nat
  BY Depths
<1> DEFINE V == Like(p)
           After(r, k) == Swap(r, s, k - 1, k - 1 + n)
           step == [k \in 1 .. top |-> [r \in V |-> After(r, k)]]
<1>2. p \in V
  BY DEF Like
<1>3. \A k \in 1 .. top : k - 1 \in 0 .. Depth(s) - 1 /\ k - 1 + n \in 0 .. Depth(s) - 1
  BY <1>0
<1>4. \A k \in 1 .. top : \A r \in V : After(r, k) \in V
  BY <1>3, ElementsSwapped
<1>5. step \in StepsOf(top, V)
  <2> HIDE DEF V, After
  <2> QED  BY <1>4 DEF StepsOf
<1>6. PICK w : w \in RunsOf(top, V, p, step)
  <2> HIDE DEF V, step
  <2> QED  BY <1>0, <1>2, <1>5, Iterates
<1>7. w \in [0 .. top -> V] /\ w[0] = p /\ \A k \in 1 .. top : w[k] = After(w[k - 1], k)
  <2>1. \A k \in 1 .. top : k - 1 \in 0 .. top
    BY <1>0
  <2>2. w \in [0 .. top -> V] /\ w[0] = p /\ \A k \in 1 .. top : w[k] = step[k][w[k - 1]]
    <3> HIDE DEF V, step
    <3> QED  BY <1>6 DEF RunsOf
  <2> HIDE DEF V, After
  <2> QED  BY <2>1, <2>2
<1>8. w = [k \in 0 .. top |-> IF k = 0 THEN p ELSE After(w[k - 1], k)]
  <2>1. \A k \in 0 .. top : k = 0 \/ (k \in 1 .. top /\ k # 0)
    BY <1>0
  <2> HIDE DEF V, After
  <2>2. \A k \in 0 .. top : w[k] = IF k = 0 THEN p ELSE After(w[k - 1], k)
    BY <1>7, <2>1
  <2> QED  BY <1>7, <2>2
<1>9. PICK f : f = [k \in 0 .. top |-> IF k = 0 THEN p ELSE After(f[k - 1], k)] /\ q = f[top]
  <2> DEFINE g == CHOOSE f : f = [k \in 0 .. top |-> IF k = 0 THEN p ELSE After(f[k - 1], k)]
  <2>1. g = [k \in 0 .. top |-> IF k = 0 THEN p ELSE After(g[k - 1], k)]
    <3> HIDE DEF After
    <3> QED  BY <1>8
  <2>2. q = g[top]
    BY DEF PopShift
  <2> HIDE DEF g, After
  <2> QED  BY <2>1, <2>2
<1>10. f[0] = p /\ \A k \in 1 .. top : f[k] = After(f[k - 1], k)
  <2> HIDE DEF After
  <2>1. 0 \in 0 .. top /\ \A k \in 1 .. top : k \in 0 .. top /\ k # 0
    BY <1>0
  <2> QED  BY <1>9, <2>1
<1> DEFINE Moved(k) == \A i \in 0 .. k - 1 : Content(f[k], s, i) = Content(p, s, i + n)
           StillAbove(k) == \A m \in k + n .. Depth(s) - 1 : Content(f[k], s, m) = Content(p, s, m)
           S == {k \in 0 .. top : f[k] \in V /\ Moved(k) /\ StillAbove(k)}
<1>11. 0 \in S
  BY <1>0, <1>2, <1>10
<1>12. ASSUME NEW k \in 1 .. top, k - 1 \in S PROVE k \in S
  <2>1. PICK r : r = f[k - 1]
    OBVIOUS
  <2>2. /\ r \in V
        /\ \A i \in 0 .. k - 1 - 1 : Content(r, s, i) = Content(p, s, i + n)
        /\ \A m \in k - 1 + n .. Depth(s) - 1 : Content(r, s, m) = Content(p, s, m)
    BY <1>12, <2>1
  <2>3. PICK a \in 0 .. Depth(s) - 1, b \in 0 .. Depth(s) - 1 : a = k - 1 /\ b = k - 1 + n
    BY <1>3
  <2>4. f[k] = Swap(r, s, a, b)
    BY <1>10, <2>1, <2>3
  <2>5. /\ f[k] \in V
        /\ \A m \in 0 .. Depth(s) - 1 : Content(f[k], s, m) = Content(r, s, Exchanged(m, a, b))
    BY <2>2, <2>4, ElementsSwapped
  <2>6. ASSUME NEW i \in 0 .. k - 1 PROVE Content(f[k], s, i) = Content(p, s, i + n)
    <3>1. i \in 0 .. Depth(s) - 1
      BY <1>0
    <3>2. CASE i = a
      <4>1. Exchanged(i, a, b) = b /\ b = i + n /\ b \in k - 1 + n .. Depth(s) - 1
        BY <1>0, <2>3, <3>2 DEF Exchanged
      <4> QED  BY <2>2, <2>5, <3>1, <4>1
    <3>3. CASE i # a
      <4>1. i \in 0 .. k - 1 - 1 /\ i # b
        BY <1>0, <2>3, <3>3
      <4>2. Exchanged(i, a, b) = i
        BY <3>3, <4>1 DEF Exchanged
      <4> QED  BY <2>2, <2>5, <3>1, <4>1, <4>2
    <3> QED  BY <3>2, <3>3
  <2>7. ASSUME NEW m \in k + n .. Depth(s) - 1 PROVE Content(f[k], s, m) = Content(p, s, m)
    <3>1. m \in 0 .. Depth(s) - 1 /\ m # a /\ m # b /\ m \in k - 1 + n .. Depth(s) - 1
      BY <1>0, <2>3
    <3>2. Exchanged(m, a, b) = m
      BY <3>1 DEF Exchanged
    <3> QED  BY <2>2, <2>5, <3>1, <3>2
  <2>8. k \in 0 .. top
    BY <1>0
  <2> QED  BY <2>5, <2>6, <2>7, <2>8
<1>13. top \in S
  <2>1. top \in 0 .. top
    BY <1>0
  <2> HIDE DEF S
  <2> QED  BY <1>0, <1>11, <1>12, <2>1, UpTo
<1> QED  BY <1>9, <1>13

\* Marking invalid the elements a to a + n - 1 leaves the others.
LEMMA ElementsInvalidKeeps ==
  ASSUME NEW p \in Phvs, Agrees(p), NEW s \in Stacks, NEW a \in Nat, NEW n \in Nat,
         a + n <= Depth(s), NEW q, q = ElementsInvalid(p, s, a, n)
  PROVE  /\ q \in Like(p)
         /\ \A m \in 0 .. Depth(s) - 1 : ~(m \in a .. a + n - 1) => Content(q, s, m) = Content(p, s, m)
<1>0. Depth(s) \in Nat
  BY Depths
<1> DEFINE V == {r \in Like(p) : \A m \in 0 .. Depth(s) - 1 :
                   ~(m \in a .. a + n - 1) => Content(r, s, m) = Content(p, s, m)}
           After(r, k) == ElementInvalid(r, s, a + k - 1)
           step == [k \in 1 .. n |-> [r \in V |-> After(r, k)]]
<1>2. p \in V
  BY DEF Like
<1>3. ASSUME NEW k \in 1 .. n, NEW r \in V PROVE After(r, k) \in V
  <2>1. PICK i \in 0 .. Depth(s) - 1 : i = a + k - 1
    BY <1>0
  <2>2. i \in a .. a + n - 1
    BY <2>1
  <2>3. r \in Like(p) /\ After(r, k) = ElementInvalid(r, s, i)
    BY <2>1
  <2>4. PICK t : t = ElementInvalid(r, s, i)
    OBVIOUS
  <2>5. t \in Like(p) /\ \A m \in 0 .. Depth(s) - 1 : m # i => Content(t, s, m) = Content(r, s, m)
    BY <2>3, <2>4, ElementInvalidKeeps
  <2>6. \A m \in 0 .. Depth(s) - 1 : ~(m \in a .. a + n - 1) => Content(t, s, m) = Content(p, s, m)
    BY <2>2, <2>5
  <2> QED  BY <2>3, <2>4, <2>5, <2>6
<1>5. step \in StepsOf(n, V)
  <2> HIDE DEF V, After
  <2> QED  BY <1>3 DEF StepsOf
<1>6. PICK w : w \in RunsOf(n, V, p, step)
  <2> HIDE DEF V, step
  <2> QED  BY <1>2, <1>5, Iterates
<1>7. w \in [0 .. n -> V] /\ w[0] = p /\ \A k \in 1 .. n : w[k] = After(w[k - 1], k)
  <2>1. \A k \in 1 .. n : k - 1 \in 0 .. n
    OBVIOUS
  <2>2. w \in [0 .. n -> V] /\ w[0] = p /\ \A k \in 1 .. n : w[k] = step[k][w[k - 1]]
    <3> HIDE DEF V, step
    <3> QED  BY <1>6 DEF RunsOf
  <2> HIDE DEF V, After
  <2> QED  BY <2>1, <2>2
<1>8. w = [k \in 0 .. n |-> IF k = 0 THEN p ELSE After(w[k - 1], k)]
  <2>1. \A k \in 0 .. n : k = 0 \/ (k \in 1 .. n /\ k # 0)
    OBVIOUS
  <2> HIDE DEF V, After
  <2>2. \A k \in 0 .. n : w[k] = IF k = 0 THEN p ELSE After(w[k - 1], k)
    BY <1>7, <2>1
  <2> QED  BY <1>7, <2>2
<1>9. PICK f : f = [k \in 0 .. n |-> IF k = 0 THEN p ELSE After(f[k - 1], k)] /\ q = f[n]
  <2> DEFINE g == CHOOSE f : f = [k \in 0 .. n |-> IF k = 0 THEN p ELSE After(f[k - 1], k)]
  <2>1. g = [k \in 0 .. n |-> IF k = 0 THEN p ELSE After(g[k - 1], k)]
    <3> HIDE DEF After
    <3> QED  BY <1>8
  <2>2. q = g[n]
    BY DEF ElementsInvalid
  <2> HIDE DEF g, After
  <2> QED  BY <2>1, <2>2
<1>10. f[0] = p /\ \A k \in 1 .. n : f[k] = After(f[k - 1], k)
  <2> HIDE DEF After
  <2>1. 0 \in 0 .. n /\ \A k \in 1 .. n : k \in 0 .. n /\ k # 0
    OBVIOUS
  <2> QED  BY <1>9, <2>1
<1> DEFINE S == {k \in 0 .. n : f[k] \in V}
<1> HIDE DEF After, V
<1>11. 0 \in S
  BY <1>2, <1>10
<1>12. ASSUME NEW k \in 1 .. n, k - 1 \in S PROVE k \in S
  <2>1. f[k - 1] \in V /\ f[k] = After(f[k - 1], k) /\ k \in 0 .. n
    BY <1>10, <1>12
  <2> QED  BY <1>3, <2>1
<1>13. n \in S
  <2>1. n \in 0 .. n
    OBVIOUS
  <2> HIDE DEF S
  <2> QED  BY <1>11, <1>12, <2>1, UpTo
<1> QED  BY <1>9, <1>13 DEF V

\* Marking valid the elements a to a + n - 1 leaves the others.
LEMMA ElementsValidKeeps ==
  ASSUME NEW p \in Phvs, Agrees(p), NEW s \in Stacks, NEW a \in Nat, NEW n \in Nat,
         a + n <= Depth(s), NEW q, q = ElementsValid(p, s, a, n)
  PROVE  /\ q \in Like(p)
         /\ \A m \in 0 .. Depth(s) - 1 : ~(m \in a .. a + n - 1) => Content(q, s, m) = Content(p, s, m)
<1>0. Depth(s) \in Nat
  BY Depths
<1> DEFINE V == {r \in Like(p) : \A m \in 0 .. Depth(s) - 1 :
                   ~(m \in a .. a + n - 1) => Content(r, s, m) = Content(p, s, m)}
           After(r, k) == ElementValid(r, s, a + k - 1)
           step == [k \in 1 .. n |-> [r \in V |-> After(r, k)]]
<1>2. p \in V
  BY DEF Like
<1>3. ASSUME NEW k \in 1 .. n, NEW r \in V PROVE After(r, k) \in V
  <2>1. PICK i \in 0 .. Depth(s) - 1 : i = a + k - 1
    BY <1>0
  <2>2. i \in a .. a + n - 1
    BY <2>1
  <2>3. r \in Like(p) /\ After(r, k) = ElementValid(r, s, i)
    BY <2>1
  <2>4. PICK t : t = ElementValid(r, s, i)
    OBVIOUS
  <2>5. t \in Like(p) /\ \A m \in 0 .. Depth(s) - 1 : m # i => Content(t, s, m) = Content(r, s, m)
    BY <2>3, <2>4, ElementValidKeeps
  <2>6. \A m \in 0 .. Depth(s) - 1 : ~(m \in a .. a + n - 1) => Content(t, s, m) = Content(p, s, m)
    BY <2>2, <2>5
  <2> QED  BY <2>3, <2>4, <2>5, <2>6
<1>5. step \in StepsOf(n, V)
  <2> HIDE DEF V, After
  <2> QED  BY <1>3 DEF StepsOf
<1>6. PICK w : w \in RunsOf(n, V, p, step)
  <2> HIDE DEF V, step
  <2> QED  BY <1>2, <1>5, Iterates
<1>7. w \in [0 .. n -> V] /\ w[0] = p /\ \A k \in 1 .. n : w[k] = After(w[k - 1], k)
  <2>1. \A k \in 1 .. n : k - 1 \in 0 .. n
    OBVIOUS
  <2>2. w \in [0 .. n -> V] /\ w[0] = p /\ \A k \in 1 .. n : w[k] = step[k][w[k - 1]]
    <3> HIDE DEF V, step
    <3> QED  BY <1>6 DEF RunsOf
  <2> HIDE DEF V, After
  <2> QED  BY <2>1, <2>2
<1>8. w = [k \in 0 .. n |-> IF k = 0 THEN p ELSE After(w[k - 1], k)]
  <2>1. \A k \in 0 .. n : k = 0 \/ (k \in 1 .. n /\ k # 0)
    OBVIOUS
  <2> HIDE DEF V, After
  <2>2. \A k \in 0 .. n : w[k] = IF k = 0 THEN p ELSE After(w[k - 1], k)
    BY <1>7, <2>1
  <2> QED  BY <1>7, <2>2
<1>9. PICK f : f = [k \in 0 .. n |-> IF k = 0 THEN p ELSE After(f[k - 1], k)] /\ q = f[n]
  <2> DEFINE g == CHOOSE f : f = [k \in 0 .. n |-> IF k = 0 THEN p ELSE After(f[k - 1], k)]
  <2>1. g = [k \in 0 .. n |-> IF k = 0 THEN p ELSE After(g[k - 1], k)]
    <3> HIDE DEF After
    <3> QED  BY <1>8
  <2>2. q = g[n]
    BY DEF ElementsValid
  <2> HIDE DEF g, After
  <2> QED  BY <2>1, <2>2
<1>10. f[0] = p /\ \A k \in 1 .. n : f[k] = After(f[k - 1], k)
  <2> HIDE DEF After
  <2>1. 0 \in 0 .. n /\ \A k \in 1 .. n : k \in 0 .. n /\ k # 0
    OBVIOUS
  <2> QED  BY <1>9, <2>1
<1> DEFINE S == {k \in 0 .. n : f[k] \in V}
<1> HIDE DEF After, V
<1>11. 0 \in S
  BY <1>2, <1>10
<1>12. ASSUME NEW k \in 1 .. n, k - 1 \in S PROVE k \in S
  <2>1. f[k - 1] \in V /\ f[k] = After(f[k - 1], k) /\ k \in 0 .. n
    BY <1>10, <1>12
  <2> QED  BY <1>3, <2>1
<1>13. n \in S
  <2>1. n \in 0 .. n
    OBVIOUS
  <2> HIDE DEF S
  <2> QED  BY <1>11, <1>12, <2>1, UpTo
<1> QED  BY <1>9, <1>13 DEF V

\* The number of elements in use.
LEMMA WithNextIs ==
  ASSUME NEW p \in Phvs, Agrees(p), NEW s \in Stacks, NEW n \in Nat, NEW q, q = WithNext(p, s, n)
  PROVE  /\ q \in Phvs /\ Agrees(q) /\ q.next = [p.next EXCEPT ![s] = n]
         /\ \A t \in Stacks, i \in Nat : Content(q, t, i) = Content(p, t, i)
<1>0. /\ p = [hdr |-> p.hdr, next |-> p.next, un |-> p.un]
      /\ p.hdr \in [AllHeaders -> Headers] /\ p.next \in [Stacks -> Nat]
      /\ p.un \in [UnionIds -> [valid : BOOLEAN, idx : Positions]]
  BY PhvIs
<1>1. PICK hh, nn, uu : hh = p.hdr /\ nn = [p.next EXCEPT ![s] = n] /\ uu = p.un
  OBVIOUS
<1>2. nn \in [Stacks -> Nat]
  BY <1>0, <1>1
<1>3. q = [hdr |-> hh, next |-> nn, un |-> uu]
  BY <1>0, <1>1 DEF WithNext
<1>4. q \in Phvs /\ q.hdr = hh /\ q.next = nn /\ q.un = uu
  BY <1>0, <1>1, <1>2, <1>3, PhvWith
<1>5. q.hdr = p.hdr /\ q.un = p.un
  BY <1>1, <1>4
<1>6. Agrees(q)
  BY <1>5 DEF Agrees
<1>7. \A t \in Stacks, i \in Nat : Content(q, t, i) = Content(p, t, i)
  BY <1>5 DEF Content
<1> QED  BY <1>1, <1>4, <1>6, <1>7

LEMMA SmallerIs ==
  ASSUME NEW a \in Nat, NEW b \in Nat
  PROVE  Smaller(a, b) \in Nat /\ Smaller(a, b) <= a /\ Smaller(a, b) <= b
         /\ (Smaller(a, b) = a \/ Smaller(a, b) = b)
BY DEF Smaller

\* What push_front and pop_front of both builds do: a shift of what stays, a
\* new number of elements in use, and elements that are marked.
PushedOK(p, s, n, q) ==
  /\ q \in Phvs /\ Agrees(q)
  /\ \E next \in 0 .. Depth(s) : q.next = [p.next EXCEPT ![s] = next]
  /\ \A i \in n .. q.next[s] - 1 : Content(q, s, i) = Content(p, s, i - n)
PoppedOK(p, s, n, q) ==
  /\ q \in Phvs /\ Agrees(q)
  /\ \E next \in 0 .. Depth(s) : q.next = [p.next EXCEPT ![s] = next]
  /\ \A i \in 0 .. Depth(s) - 1 - n :
       i + n < p.next[s] => Content(q, s, i) = Content(p, s, i + n)

LEMMA PushP4_16Is ==
  ASSUME NEW p \in Phvs, Agrees(p), NEW s \in Stacks, NEW n \in 1 .. Depth(s),
         p.next[s] \in 0 .. Depth(s), NEW q, q = PushFrontP4_16(p, s, n)
  PROVE  PushedOK(p, s, n, q)
<1>0. Depth(s) \in Nat /\ n \in Nat /\ p.next[s] \in Nat /\ p.next \in [Stacks -> Nat]
  BY Depths, PhvIs
<1>1. PICK next : next = Smaller(Depth(s), p.next[s] + n)
  OBVIOUS
<1>2. next \in n .. Depth(s)
  <2>1. PICK d \in Nat, m \in Nat : d = Depth(s) /\ m = p.next[s] + n
    BY <1>0
  <2>2. next \in Nat /\ next <= d /\ next <= m /\ (next = d \/ next = m)
    BY <1>1, <2>1, SmallerIs
  <2>3. n <= d /\ n <= m
    BY <1>0, <2>1
  <2> QED  BY <1>0, <2>1, <2>2, <2>3
<1>3. PICK top \in n .. Depth(s) : top = Depth(s) /\ next <= top
  BY <1>0, <1>2
<1>4. PICK a : a = PushShift(p, s, n, top)
  OBVIOUS
<1>5. a \in Like(p) /\ \A i \in n .. top - 1 : Content(a, s, i) = Content(p, s, i - n)
  BY <1>4, PushShiftIs
<1>6. a \in Phvs /\ Agrees(a) /\ a.next = p.next
  BY <1>5 DEF Like
<1>7. PICK b : b = WithNext(a, s, next)
  OBVIOUS
<1>8. next \in Nat
  BY <1>0, <1>2
<1>9. /\ b \in Phvs /\ Agrees(b) /\ b.next = [a.next EXCEPT ![s] = next]
      /\ \A t \in Stacks, i \in Nat : Content(b, t, i) = Content(a, t, i)
  BY <1>6, <1>7, <1>8, WithNextIs
<1>10. q = ElementsInvalid(b, s, 0, n)
  BY <1>1, <1>3, <1>4, <1>7 DEF PushFrontP4_16
<1>11. 0 \in Nat /\ 0 + n = n /\ n <= Depth(s)
  BY <1>0
<1>12. /\ q \in Like(b)
       /\ \A m \in 0 .. Depth(s) - 1 : ~(m \in 0 .. 0 + n - 1) => Content(q, s, m) = Content(b, s, m)
  BY <1>0, <1>9, <1>10, <1>11, ElementsInvalidKeeps
<1>13. q \in Phvs /\ Agrees(q) /\ q.next = [p.next EXCEPT ![s] = next]
  BY <1>6, <1>9, <1>12 DEF Like
<1>14. q.next[s] = next /\ next \in 0 .. Depth(s)
  BY <1>0, <1>2, <1>13
<1>15. ASSUME NEW i \in n .. next - 1 PROVE Content(q, s, i) = Content(p, s, i - n)
  <2>1. i \in Nat /\ i \in 0 .. Depth(s) - 1 /\ ~(i \in 0 .. 0 + n - 1) /\ i \in n .. top - 1
    BY <1>0, <1>2, <1>3
  <2>2. Content(q, s, i) = Content(b, s, i)
    BY <1>12, <2>1
  <2>3. Content(b, s, i) = Content(a, s, i)
    BY <1>9, <2>1
  <2>4. Content(a, s, i) = Content(p, s, i - n)
    BY <1>5, <2>1
  <2> QED  BY <2>2, <2>3, <2>4
<1> QED  BY <1>13, <1>14, <1>15 DEF PushedOK

LEMMA PushLegacyIs ==
  ASSUME NEW p \in Phvs, Agrees(p), NEW s \in Stacks, NEW n \in 1 .. Depth(s),
         p.next[s] \in 0 .. Depth(s), NEW q, q = PushFrontLegacy(p, s, n)
  PROVE  PushedOK(p, s, n, q)
<1>0. Depth(s) \in Nat /\ n \in Nat /\ p.next[s] \in Nat /\ p.next \in [Stacks -> Nat]
  BY Depths, PhvIs
<1>1. PICK next : next = Smaller(Depth(s), p.next[s] + n)
  OBVIOUS
<1>2. next \in n .. Depth(s)
  <2>1. PICK d \in Nat, m \in Nat : d = Depth(s) /\ m = p.next[s] + n
    BY <1>0
  <2>2. next \in Nat /\ next <= d /\ next <= m /\ (next = d \/ next = m)
    BY <1>1, <2>1, SmallerIs
  <2>3. n <= d /\ n <= m
    BY <1>0, <2>1
  <2> QED  BY <1>0, <2>1, <2>2, <2>3
<1>3. PICK top \in n .. Depth(s) : top = next /\ next <= top
  BY <1>0, <1>2
<1>4. PICK a : a = PushShift(p, s, n, top)
  OBVIOUS
<1>5. a \in Like(p) /\ \A i \in n .. top - 1 : Content(a, s, i) = Content(p, s, i - n)
  BY <1>4, PushShiftIs
<1>6. a \in Phvs /\ Agrees(a) /\ a.next = p.next
  BY <1>5 DEF Like
<1>7. PICK b : b = WithNext(a, s, next)
  OBVIOUS
<1>8. next \in Nat
  BY <1>0, <1>2
<1>9. /\ b \in Phvs /\ Agrees(b) /\ b.next = [a.next EXCEPT ![s] = next]
      /\ \A t \in Stacks, i \in Nat : Content(b, t, i) = Content(a, t, i)
  BY <1>6, <1>7, <1>8, WithNextIs
<1>10. q = ElementsValid(b, s, 0, n)
  BY <1>1, <1>3, <1>4, <1>7 DEF PushFrontLegacy
<1>11. 0 \in Nat /\ 0 + n = n /\ n <= Depth(s)
  BY <1>0
<1>12. /\ q \in Like(b)
       /\ \A m \in 0 .. Depth(s) - 1 : ~(m \in 0 .. 0 + n - 1) => Content(q, s, m) = Content(b, s, m)
  BY <1>0, <1>9, <1>10, <1>11, ElementsValidKeeps
<1>13. q \in Phvs /\ Agrees(q) /\ q.next = [p.next EXCEPT ![s] = next]
  BY <1>6, <1>9, <1>12 DEF Like
<1>14. q.next[s] = next /\ next \in 0 .. Depth(s)
  BY <1>0, <1>2, <1>13
<1>15. ASSUME NEW i \in n .. next - 1 PROVE Content(q, s, i) = Content(p, s, i - n)
  <2>1. i \in Nat /\ i \in 0 .. Depth(s) - 1 /\ ~(i \in 0 .. 0 + n - 1) /\ i \in n .. top - 1
    BY <1>0, <1>2, <1>3
  <2>2. Content(q, s, i) = Content(b, s, i)
    BY <1>12, <2>1
  <2>3. Content(b, s, i) = Content(a, s, i)
    BY <1>9, <2>1
  <2>4. Content(a, s, i) = Content(p, s, i - n)
    BY <1>5, <2>1
  <2> QED  BY <2>2, <2>3, <2>4
<1> QED  BY <1>13, <1>14, <1>15 DEF PushedOK

LEMMA PopP4_16Is ==
  ASSUME NEW p \in Phvs, Agrees(p), NEW s \in Stacks, NEW n \in 1 .. Depth(s),
         p.next[s] \in 0 .. Depth(s), NEW q, q = PopFrontP4_16(p, s, n)
  PROVE  PoppedOK(p, s, n, q)
<1>0. Depth(s) \in Nat /\ n \in Nat /\ n <= Depth(s) /\ p.next[s] \in Nat
      /\ p.next[s] <= Depth(s) /\ p.next \in [Stacks -> Nat]
  BY Depths, PhvIs
<1>1. PICK popped : popped = Smaller(p.next[s], n)
  OBVIOUS
<1>2. popped \in Nat /\ popped <= p.next[s] /\ popped <= n /\ (popped = n \/ popped = p.next[s])
  BY <1>0, <1>1, SmallerIs
<1>3. PICK next \in Nat : next = p.next[s] - popped
  BY <1>0, <1>2
<1>4. next + n <= Depth(s)
  BY <1>0, <1>2, <1>3
<1>5. PICK top \in 0 .. Depth(s) - n : top = Depth(s) - n /\ next <= top /\ top + n <= Depth(s)
  BY <1>0, <1>2, <1>3, <1>4
<1>6. PICK a : a = PopShift(p, s, n, top)
  OBVIOUS
<1>7. a \in Like(p) /\ \A i \in 0 .. top - 1 : Content(a, s, i) = Content(p, s, i + n)
  BY <1>6, PopShiftIs
<1>8. a \in Phvs /\ Agrees(a) /\ a.next = p.next
  BY <1>7 DEF Like
<1>9. PICK b : b = WithNext(a, s, next)
  OBVIOUS
<1>10. /\ b \in Phvs /\ Agrees(b) /\ b.next = [a.next EXCEPT ![s] = next]
       /\ \A t \in Stacks, i \in Nat : Content(b, t, i) = Content(a, t, i)
  BY <1>8, <1>9, WithNextIs
<1>11. q = ElementsInvalid(b, s, top, n)
  BY <1>1, <1>3, <1>5, <1>6, <1>9 DEF PopFrontP4_16
<1>12. /\ q \in Like(b)
       /\ \A m \in 0 .. Depth(s) - 1 :
            ~(m \in top .. top + n - 1) => Content(q, s, m) = Content(b, s, m)
  <2>1. top \in Nat /\ n \in Nat /\ top + n <= Depth(s)
    BY <1>0, <1>2, <1>5
  <2> QED  BY <1>10, <1>11, <2>1, ElementsInvalidKeeps
<1>13. q \in Phvs /\ Agrees(q) /\ q.next = [p.next EXCEPT ![s] = next]
  BY <1>8, <1>10, <1>12 DEF Like
<1>14. next \in 0 .. Depth(s)
  BY <1>0, <1>3, <1>4
<1>15. ASSUME NEW i \in 0 .. Depth(s) - 1 - n, i + n < p.next[s]
       PROVE  Content(q, s, i) = Content(p, s, i + n)
  <2>1. i \in Nat /\ i \in 0 .. Depth(s) - 1 /\ ~(i \in top .. top + n - 1) /\ i \in 0 .. top - 1
    BY <1>0, <1>2, <1>3, <1>5, <1>15
  <2>2. Content(q, s, i) = Content(b, s, i)
    BY <1>12, <2>1
  <2>3. Content(b, s, i) = Content(a, s, i)
    BY <1>10, <2>1
  <2>4. Content(a, s, i) = Content(p, s, i + n)
    BY <1>7, <2>1
  <2> QED  BY <2>2, <2>3, <2>4
<1> QED  BY <1>13, <1>14, <1>15 DEF PoppedOK

LEMMA PopLegacyIs ==
  ASSUME NEW p \in Phvs, Agrees(p), NEW s \in Stacks, NEW n \in 1 .. Depth(s),
         p.next[s] \in 0 .. Depth(s), NEW q, q = PopFrontLegacy(p, s, n)
  PROVE  PoppedOK(p, s, n, q)
<1>0. Depth(s) \in Nat /\ n \in Nat /\ n <= Depth(s) /\ p.next[s] \in Nat
      /\ p.next[s] <= Depth(s) /\ p.next \in [Stacks -> Nat]
  BY Depths, PhvIs
<1>1. PICK popped : popped = Smaller(p.next[s], n)
  OBVIOUS
<1>2. popped \in Nat /\ popped <= p.next[s] /\ popped <= n /\ (popped = n \/ popped = p.next[s])
  BY <1>0, <1>1, SmallerIs
<1>3. PICK next \in Nat : next = p.next[s] - popped
  BY <1>0, <1>2
<1>4. next + n <= Depth(s)
  BY <1>0, <1>2, <1>3
<1>5. PICK top \in 0 .. Depth(s) - n : top = next /\ next <= top /\ top + popped <= Depth(s)
  BY <1>0, <1>2, <1>3, <1>4
<1>6. PICK a : a = PopShift(p, s, n, top)
  OBVIOUS
<1>7. a \in Like(p) /\ \A i \in 0 .. top - 1 : Content(a, s, i) = Content(p, s, i + n)
  BY <1>6, PopShiftIs
<1>8. a \in Phvs /\ Agrees(a) /\ a.next = p.next
  BY <1>7 DEF Like
<1>9. PICK b : b = WithNext(a, s, next)
  OBVIOUS
<1>10. /\ b \in Phvs /\ Agrees(b) /\ b.next = [a.next EXCEPT ![s] = next]
       /\ \A t \in Stacks, i \in Nat : Content(b, t, i) = Content(a, t, i)
  BY <1>8, <1>9, WithNextIs
<1>11. q = ElementsInvalid(b, s, top, popped)
  BY <1>1, <1>3, <1>5, <1>6, <1>9 DEF PopFrontLegacy
<1>12. /\ q \in Like(b)
       /\ \A m \in 0 .. Depth(s) - 1 :
            ~(m \in top .. top + popped - 1) => Content(q, s, m) = Content(b, s, m)
  <2>1. top \in Nat /\ popped \in Nat /\ top + popped <= Depth(s)
    BY <1>0, <1>2, <1>5
  <2> QED  BY <1>10, <1>11, <2>1, ElementsInvalidKeeps
<1>13. q \in Phvs /\ Agrees(q) /\ q.next = [p.next EXCEPT ![s] = next]
  BY <1>8, <1>10, <1>12 DEF Like
<1>14. next \in 0 .. Depth(s)
  BY <1>0, <1>3, <1>4
<1>15. ASSUME NEW i \in 0 .. Depth(s) - 1 - n, i + n < p.next[s]
       PROVE  Content(q, s, i) = Content(p, s, i + n)
  <2>1. i \in Nat /\ i \in 0 .. Depth(s) - 1 /\ ~(i \in top .. top + popped - 1) /\ i \in 0 .. top - 1
    BY <1>0, <1>2, <1>3, <1>5, <1>15
  <2>2. Content(q, s, i) = Content(b, s, i)
    BY <1>12, <2>1
  <2>3. Content(b, s, i) = Content(a, s, i)
    BY <1>10, <2>1
  <2>4. Content(a, s, i) = Content(p, s, i + n)
    BY <1>7, <2>1
  <2> QED  BY <2>2, <2>3, <2>4
<1> QED  BY <1>13, <1>14, <1>15 DEF PoppedOK

-----------------------------------------------------------------------------
(* Assigning, copying and extracting headers. *)

\* A header gets other fields; its validity stays.
LEMMA FieldsKeep ==
  ASSUME NEW p \in Phvs, Agrees(p), NEW h \in AllHeaders, NEW x \in Headers,
         x.valid = p.hdr[h].valid, x.bit = p.hdr[h].bit, NEW q, q = [p EXCEPT !.hdr[h] = x]
  PROVE  q \in Like(p)
<1>0. /\ p = [hdr |-> p.hdr, next |-> p.next, un |-> p.un]
      /\ p.hdr \in [AllHeaders -> Headers] /\ p.next \in [Stacks -> Nat]
      /\ p.un \in [UnionIds -> [valid : BOOLEAN, idx : Positions]]
  BY PhvIs
<1>1. PICK hh, nn, uu : hh = [p.hdr EXCEPT ![h] = x] /\ nn = p.next /\ uu = p.un
  OBVIOUS
<1>2. hh \in [AllHeaders -> Headers] /\ hh[h] = x /\ \A g \in AllHeaders : g # h => hh[g] = p.hdr[g]
  BY <1>0, <1>1
<1>3. q = [hdr |-> hh, next |-> nn, un |-> uu]
  BY <1>0, <1>1
<1>4. q \in Phvs /\ q.hdr = hh /\ q.next = nn /\ q.un = uu
  BY <1>0, <1>1, <1>2, <1>3, PhvWith
<1>5. ASSUME NEW g \in AllHeaders
      PROVE  q.hdr[g].valid = p.hdr[g].valid /\ q.hdr[g].bit = p.hdr[g].bit
  <2>1. CASE g = h
    BY <1>2, <1>4, <2>1
  <2>2. CASE g # h
    BY <1>2, <1>4, <2>2
  <2> QED  BY <2>1, <2>2
<1>6. ASSUME NEW g \in AllHeaders PROVE q.hdr[g].bit = (IF q.hdr[g].valid THEN 1 ELSE 0)
  <2>1. p.hdr[g].bit = (IF p.hdr[g].valid THEN 1 ELSE 0)
    BY DEF Agrees
  <2> QED  BY <1>5, <2>1
<1>7. ASSUME NEW u \in UnionIds, NEW k \in Positions
      PROVE  q.hdr[PhUnions[u][k]].valid <=> (q.un[u].valid /\ q.un[u].idx = k)
  <2>1. PICK g : g = PhUnions[u][k]
    OBVIOUS
  <2>2. g \in AllHeaders
    BY <2>1, UnionPlaces
  <2>3. p.hdr[g].valid <=> (p.un[u].valid /\ p.un[u].idx = k)
    BY <2>1 DEF Agrees
  <2>4. q.hdr[g].valid = p.hdr[g].valid
    BY <1>5, <2>2
  <2> QED  BY <1>1, <1>4, <2>1, <2>3, <2>4
<1>8. Agrees(q)
  BY <1>6, <1>7 DEF Agrees
<1> QED  BY <1>1, <1>4, <1>8 DEF Like

\* assign_header between headers of one type, which are not two of one union.
LEMMA AssignHeaderKeeps ==
  ASSUME NEW p, NEW r \in Like(p), NEW dst \in AllHeaders, NEW src \in AllHeaders,
         src # dst => ~(src \in UnionHeaders /\ dst \in UnionHeaders /\ UnionOf(src) = UnionOf(dst)),
         NEW q, q = AssignHeader(r, dst, src)
  PROVE  q \in Like(p)
<1>0. r \in Phvs /\ Agrees(r) /\ r.next = p.next
  BY DEF Like
<1>1. CASE ~r.hdr[src].valid
  <2>1. q = MarkInvalid(r, dst)
    BY <1>1 DEF AssignHeader
  <2>2. q \in Phvs /\ Agrees(q) /\ q.next = r.next
    BY <1>0, <2>1, MarkInvalidKeeps
  <2> QED  BY <1>0, <2>2 DEF Like
<1>2. CASE r.hdr[src].valid
  <2>1. PICK t : t = MarkValid(r, dst)
    OBVIOUS
  <2>2. t \in Phvs /\ Agrees(t) /\ t.next = r.next
    BY <1>0, <2>1, MarkValidKeeps
  <2>3. t.hdr[dst].valid /\ t.hdr[dst].bit = 1
    BY <1>0, <2>1, MarkValidKeeps
  <2>4. t.hdr[src].valid
    <3>1. CASE src = dst
      BY <2>3, <3>1
    <3>2. CASE src # dst
      <4>1. t.hdr[src] = r.hdr[src]
        BY <1>0, <2>1, <3>2, MarkValidOthers
      <4> QED  BY <1>2, <4>1
    <3> QED  BY <3>1, <3>2
  <2>5. t.hdr[src].bit = 1
    <3>1. t.hdr[src].bit = (IF t.hdr[src].valid THEN 1 ELSE 0)
      BY <2>2 DEF Agrees
    <3> QED  BY <2>4, <3>1
  <2>6. t.hdr \in [AllHeaders -> Headers]
    BY <2>2, PhvIs
  <2>7. PICK x : x = [valid |-> t.hdr[dst].valid, bit |-> t.hdr[src].bit, bytes |-> t.hdr[src].bytes]
    OBVIOUS
  <2>8. t.hdr[dst] \in Headers /\ t.hdr[src] \in Headers
    BY <2>6
  <2>9. x \in Headers /\ x.valid = t.hdr[dst].valid /\ x.bit = t.hdr[src].bit
    BY <2>7, <2>8 DEF Headers
  <2>10. q = [t EXCEPT !.hdr[dst] = x]
    BY <1>2, <2>1, <2>7 DEF AssignHeader
  <2>11. x.bit = t.hdr[dst].bit
    BY <2>3, <2>5, <2>9
  <2>12. q \in Like(t)
    BY <2>2, <2>9, <2>10, <2>11, FieldsKeep
  <2> QED  BY <1>0, <2>2, <2>12 DEF Like
<1> QED  BY <1>1, <1>2

\* assign_union.
LEMMA AssignUnionKeeps ==
  ASSUME NEW p \in Phvs, Agrees(p), NEW u \in UnionIds, NEW v \in UnionIds,
         NEW q, q = AssignUnion(p, u, v)
  PROVE  q \in Like(p)
<1>1. PICK N \in Nat : N = Len(PhUnions[1])
  BY UnionPlaces
<1> DEFINE V == Like(p)
           After(r, k) == AssignHeader(r, PhUnions[u][k], PhUnions[v][k])
           step == [k \in 1 .. N |-> [r \in V |-> After(r, k)]]
<1>2. p \in V
  BY DEF Like
<1>3. ASSUME NEW k \in 1 .. N, NEW r \in V PROVE After(r, k) \in V
  <2>1. k \in Positions
    BY <1>1, UnionPlaces
  <2>2. PICK dst, src : dst = PhUnions[u][k] /\ src = PhUnions[v][k]
    OBVIOUS
  <2>3. dst \in AllHeaders /\ UnionOf(dst) = u /\ src \in AllHeaders /\ UnionOf(src) = v
    BY <2>1, <2>2, UnionPlaces
  <2>4. src # dst => UnionOf(src) # UnionOf(dst)
    BY <2>2, <2>3
  <2>5. After(r, k) = AssignHeader(r, dst, src)
    BY <2>2
  <2> QED  BY <2>3, <2>4, <2>5, AssignHeaderKeeps
<1>5. step \in StepsOf(N, V)
  <2> HIDE DEF V, After
  <2> QED  BY <1>3 DEF StepsOf
<1>6. PICK w : w \in RunsOf(N, V, p, step)
  <2> HIDE DEF V, step
  <2> QED  BY <1>2, <1>5, Iterates
<1>7. w \in [0 .. N -> V] /\ w[0] = p /\ \A k \in 1 .. N : w[k] = After(w[k - 1], k)
  <2>1. \A k \in 1 .. N : k - 1 \in 0 .. N
    OBVIOUS
  <2>2. w \in [0 .. N -> V] /\ w[0] = p /\ \A k \in 1 .. N : w[k] = step[k][w[k - 1]]
    <3> HIDE DEF V, step
    <3> QED  BY <1>6 DEF RunsOf
  <2> HIDE DEF V, After
  <2> QED  BY <2>1, <2>2
<1>8. w = [k \in 0 .. N |-> IF k = 0 THEN p ELSE After(w[k - 1], k)]
  <2>1. \A k \in 0 .. N : k = 0 \/ (k \in 1 .. N /\ k # 0)
    OBVIOUS
  <2> HIDE DEF V, After
  <2>2. \A k \in 0 .. N : w[k] = IF k = 0 THEN p ELSE After(w[k - 1], k)
    BY <1>7, <2>1
  <2> QED  BY <1>7, <2>2
<1>9. PICK f : f = [k \in 0 .. N |-> IF k = 0 THEN p ELSE After(f[k - 1], k)] /\ q = f[N]
  <2> DEFINE g == CHOOSE f : f = [k \in 0 .. N |-> IF k = 0 THEN p ELSE After(f[k - 1], k)]
  <2>1. g = [k \in 0 .. N |-> IF k = 0 THEN p ELSE After(g[k - 1], k)]
    <3> HIDE DEF After
    <3> QED  BY <1>8
  <2>2. q = g[N]
    BY <1>1 DEF AssignUnion
  <2> HIDE DEF g, After
  <2> QED  BY <2>1, <2>2
<1>10. f[0] = p /\ \A k \in 1 .. N : f[k] = After(f[k - 1], k)
  <2> HIDE DEF After
  <2>1. 0 \in 0 .. N /\ \A k \in 1 .. N : k \in 0 .. N /\ k # 0
    OBVIOUS
  <2> QED  BY <1>9, <2>1
<1> DEFINE S == {k \in 0 .. N : f[k] \in V}
<1> HIDE DEF After, V
<1>11. 0 \in S
  BY <1>2, <1>10
<1>12. ASSUME NEW k \in 1 .. N, k - 1 \in S PROVE k \in S
  <2>1. f[k - 1] \in V /\ f[k] = After(f[k - 1], k) /\ k \in 0 .. N
    BY <1>10, <1>12
  <2> QED  BY <1>3, <2>1
<1>13. N \in S
  <2>1. N \in 0 .. N
    OBVIOUS
  <2> HIDE DEF S
  <2> QED  BY <1>11, <1>12, <2>1, UpTo
<1> QED  BY <1>9, <1>13 DEF V

\* PHV::reset.
LEMMA ResetKeeps ==
  ASSUME NEW p \in Phvs, NEW q, q = ResetPhv(p)
  PROVE  q \in Phvs /\ Agrees(q) /\ (\A s \in Stacks : q.next[s] = 0)
         /\ \A h \in AllHeaders : q.hdr[h].bit = 0
<1>0. /\ p.hdr \in [AllHeaders -> Headers] /\ p.next \in [Stacks -> Nat]
      /\ p.un \in [UnionIds -> [valid : BOOLEAN, idx : Positions]]
  BY PhvIs
<1>1. PICK no : no = FALSE
  OBVIOUS
<1> DEFINE Short(h) == SubSeq(p.hdr[h].bytes, 1, Smaller(1, Len(p.hdr[h].bytes)))
<1>2. PICK hh, nn, uu : /\ hh = [h \in AllHeaders |-> [valid |-> no, bit |-> 0, bytes |-> Short(h)]]
                        /\ nn = [s \in Stacks |-> 0]
                        /\ uu = [u \in UnionIds |-> [valid |-> no, idx |-> p.un[u].idx]]
  OBVIOUS
<1>3. ASSUME NEW h \in AllHeaders PROVE Short(h) \in Seq(Nat)
  <2>1. PICK b \in Seq(Nat) : b = p.hdr[h].bytes
    BY <1>0 DEF Headers
  <2>2. PICK n \in Nat : n = Smaller(1, Len(b)) /\ n <= Len(b)
    <3>1. Len(b) \in Nat /\ 1 \in Nat
      OBVIOUS
    <3> QED  BY <3>1, SmallerIs
  <2>3. SubSeq(b, 1, n) \in Seq(Nat)
    BY <2>2
  <2> QED  BY <2>1, <2>2, <2>3
<1>4. q = [hdr |-> hh, next |-> nn, un |-> uu]
  BY <1>1, <1>2 DEF ResetPhv
<1> HIDE DEF Short
<1>5. \A h \in AllHeaders : [valid |-> no, bit |-> 0, bytes |-> Short(h)] \in Headers
  BY <1>1, <1>3 DEF Headers
<1>6. hh \in [AllHeaders -> Headers] /\ \A h \in AllHeaders : hh[h].valid = no /\ hh[h].bit = 0
  BY <1>2, <1>5
<1>7. \A u \in UnionIds : [valid |-> no, idx |-> p.un[u].idx] \in [valid : BOOLEAN, idx : Positions]
  BY <1>0, <1>1
<1>8. /\ uu \in [UnionIds -> [valid : BOOLEAN, idx : Positions]]
      /\ \A u \in UnionIds : uu[u].valid = no
  BY <1>2, <1>7
<1>9. nn \in [Stacks -> Nat] /\ \A s \in Stacks : nn[s] = 0
  BY <1>2
<1>10. q \in Phvs /\ q.hdr = hh /\ q.next = nn /\ q.un = uu
  BY <1>4, <1>6, <1>8, <1>9, PhvWith
<1>11. \A h \in AllHeaders : ~q.hdr[h].valid
  BY <1>1, <1>6, <1>10
<1>12. \A h \in AllHeaders : q.hdr[h].bit = 0
  BY <1>6, <1>10
<1>13. \A u \in UnionIds : ~q.un[u].valid
  BY <1>1, <1>8, <1>10
<1>14. \A u \in UnionIds, k \in Positions : ~q.hdr[PhUnions[u][k]].valid
  BY <1>11, UnionPlaces
<1>15. Agrees(q)
  BY <1>11, <1>12, <1>13, <1>14 DEF Agrees
<1> QED  BY <1>9, <1>10, <1>12, <1>15

\* PHV::copy_headers into a PHV that was reset.
LEMMA CopyKeeps ==
  ASSUME NEW d \in Phvs, \A h \in AllHeaders : d.hdr[h].bit = 0,
         NEW p \in Phvs, Agrees(p), NEW q, q = CopyHeaders(d, p)
  PROVE  q \in Like(p)
<1>0. /\ p.hdr \in [AllHeaders -> Headers] /\ p.next \in [Stacks -> Nat]
      /\ p.un \in [UnionIds -> [valid : BOOLEAN, idx : Positions]]
      /\ d.hdr \in [AllHeaders -> Headers]
  BY PhvIs
<1>1. PICK no : no = FALSE
  OBVIOUS
<1> DEFINE Blank(h) == [valid |-> no, bit |-> d.hdr[h].bit, bytes |-> d.hdr[h].bytes]
<1>2. PICK hh, nn, uu : /\ hh = [h \in AllHeaders |-> IF p.hdr[h].valid THEN p.hdr[h] ELSE Blank(h)]
                        /\ nn = p.next /\ uu = p.un
  OBVIOUS
<1>3. ASSUME NEW h \in AllHeaders PROVE Blank(h) \in Headers /\ Blank(h).valid = no /\ Blank(h).bit = 0
  <2>1. d.hdr[h] \in Headers /\ d.hdr[h].bit = 0
    BY <1>0
  <2> QED  BY <1>1, <2>1 DEF Headers
<1>4. q = [hdr |-> hh, next |-> nn, un |-> uu]
  BY <1>1, <1>2 DEF CopyHeaders
<1> HIDE DEF Blank
<1>5. hh \in [AllHeaders -> Headers] /\ \A h \in AllHeaders : hh[h] = IF p.hdr[h].valid THEN p.hdr[h] ELSE Blank(h)
  BY <1>0, <1>2, <1>3
<1>6. q \in Phvs /\ q.hdr = hh /\ q.next = nn /\ q.un = uu
  BY <1>0, <1>2, <1>4, <1>5, PhvWith
<1>7. ASSUME NEW h \in AllHeaders
      PROVE  (q.hdr[h].valid <=> p.hdr[h].valid) /\ q.hdr[h].bit = p.hdr[h].bit
  <2>1. CASE p.hdr[h].valid
    BY <1>5, <1>6, <2>1
  <2>2. CASE ~p.hdr[h].valid
    <3>1. p.hdr[h].bit = 0
      BY <2>2 DEF Agrees
    <3>2. q.hdr[h] = Blank(h)
      BY <1>5, <1>6, <2>2
    <3>3. Blank(h).valid = no /\ Blank(h).bit = 0
      BY <1>3
    <3> QED  BY <1>1, <2>2, <3>1, <3>2, <3>3
  <2> QED  BY <2>1, <2>2
<1>8. ASSUME NEW h \in AllHeaders PROVE q.hdr[h].bit = (IF q.hdr[h].valid THEN 1 ELSE 0)
  <2>1. p.hdr[h].bit = (IF p.hdr[h].valid THEN 1 ELSE 0)
    BY DEF Agrees
  <2> QED  BY <1>7, <2>1
<1>9. ASSUME NEW u \in UnionIds, NEW k \in Positions
      PROVE  q.hdr[PhUnions[u][k]].valid <=> (q.un[u].valid /\ q.un[u].idx = k)
  <2>1. PhUnions[u][k] \in AllHeaders
    BY UnionPlaces
  <2>2. p.hdr[PhUnions[u][k]].valid <=> (p.un[u].valid /\ p.un[u].idx = k)
    BY DEF Agrees
  <2> QED  BY <1>2, <1>6, <1>7, <2>1, <2>2
<1>10. Agrees(q)
  BY <1>8, <1>9 DEF Agrees
<1> QED  BY <1>2, <1>6, <1>10 DEF Like

\* The bytes get_nbytes_packet counts.
LEMMA NBytesIs ==
  ASSUME NEW p \in Phvs, NEW h \in AllHeaders
  PROVE  NBytes(p, h) \in Nat /\ NBytes(p, h) >= 1
<1>1. PICK b \in Seq(Nat) : b = p.hdr[h].bytes
  BY PhvIs DEF Headers
<1>2. Len(b) \in Nat /\ (b # <<>> => Len(b) >= 1)
  OBVIOUS
<1> QED  BY <1>1, <1>2 DEF NBytes

\* What an operation may make of the PHV of a packet.
GoodPhv(p) == p \in Phvs /\ Agrees(p) /\ \A s \in Stacks : p.next[s] \in 0 .. Depth(s)

LEMMA LikeIsGood ==
  ASSUME NEW p, GoodPhv(p), NEW q \in Like(p)
  PROVE  GoodPhv(q)
BY DEF GoodPhv, Like

\* Header::extract of bytes that are there.
LEMMA ExtractedKeeps ==
  ASSUME NEW p \in Phvs, Agrees(p), NEW h \in AllHeaders, NEW n \in Nat, phData \in Seq(Nat),
         phPos \in Nat, phPos + n <= Len(phData), NEW q, q = Extracted(p, h, n)
  PROVE  q \in Like(p)
<1>1. PICK b \in Seq(Nat) : b = SubSeq(phData, phPos + 1, phPos + n)
  <2>1. SubSeq(phData, phPos + 1, phPos + n) \in Seq(Nat)
    <3>1. Len(phData) \in Nat
      OBVIOUS
    <3>2. PICK l \in Nat, m \in Nat : l = phPos + 1 /\ m = phPos + n
      OBVIOUS
    <3>3. l >= 1 /\ m <= Len(phData)
      BY <3>1, <3>2
    <3>4. SubSeq(phData, l, m) \in Seq(Nat)
      BY <3>1, <3>3
    <3> QED  BY <3>2, <3>4
  <2> QED  BY <2>1
<1>2. p.hdr[h] \in Headers
  BY PhvIs
<1>3. PICK x : x = [valid |-> p.hdr[h].valid, bit |-> p.hdr[h].bit, bytes |-> b]
  OBVIOUS
<1>4. x \in Headers /\ x.valid = p.hdr[h].valid /\ x.bit = p.hdr[h].bit
  BY <1>2, <1>3 DEF Headers
<1>5. PICK t : t = [p EXCEPT !.hdr[h] = x]
  OBVIOUS
<1>6. t \in Like(p)
  BY <1>4, <1>5, FieldsKeep
<1>7. t \in Phvs /\ Agrees(t) /\ t.next = p.next
  BY <1>6 DEF Like
<1>8. q = MarkValid(t, h)
  BY <1>1, <1>3, <1>5 DEF Extracted
<1>9. q \in Phvs /\ Agrees(q) /\ q.next = t.next
  BY <1>7, <1>8, MarkValidKeeps
<1> QED  BY <1>7, <1>9 DEF Like

\* push_back of a stack that is not full.
LEMMA PushBackKeeps ==
  ASSUME NEW p, GoodPhv(p), NEW s \in Stacks, p.next[s] < Depth(s), NEW q, q = PushBack(p, s)
  PROVE  GoodPhv(q)
<1>0. p \in Phvs /\ Agrees(p) /\ (\A t \in Stacks : p.next[t] \in 0 .. Depth(t)) /\ Depth(s) \in Nat
  BY Depths DEF GoodPhv
<1>1. PICK i \in 0 .. Depth(s) - 1 : i = p.next[s]
  BY <1>0
<1>2. PICK a : a = ElementValid(p, s, i)
  OBVIOUS
<1>3. p \in Like(p)
  BY <1>0 DEF Like
<1>4. a \in Like(p)
  BY <1>2, <1>3, ElementValidKeeps
<1>5. a \in Phvs /\ Agrees(a) /\ a.next = p.next
  BY <1>4 DEF Like
<1>6. PICK n \in Nat : n = i + 1
  OBVIOUS
<1>7. q = WithNext(a, s, n)
  BY <1>1, <1>2, <1>6 DEF PushBack
<1>8. q \in Phvs /\ Agrees(q) /\ q.next = [a.next EXCEPT ![s] = n]
  BY <1>5, <1>7, WithNextIs
<1>9. p.next \in [Stacks -> Nat]
  BY <1>0, PhvIs
<1>10. \A t \in Stacks : q.next[t] = IF t = s THEN n ELSE p.next[t]
  BY <1>5, <1>8, <1>9
<1>11. n \in 0 .. Depth(s)
  BY <1>0, <1>6
<1> QED  BY <1>0, <1>8, <1>10, <1>11 DEF GoodPhv

\* The deparser emits bytes.
LEMMA EmittedIs ==
  ASSUME NEW p \in Phvs
  PROVE  Emitted(p) \in Seq(Nat)
<1>1. PICK N \in Nat : N = Len(PhOrder)
  BY HeadersAssumption
<1> DEFINE V == Seq(Nat)
           Bytes(k) == IF p.hdr[PhOrder[k]].valid THEN p.hdr[PhOrder[k]].bytes ELSE <<>>
           After(r, k) == r \o Bytes(k)
           step == [k \in 1 .. N |-> [r \in V |-> After(r, k)]]
<1>2. <<>> \in V
  OBVIOUS
<1>3. ASSUME NEW k \in 1 .. N, NEW r \in V PROVE After(r, k) \in V
  <2>1. PhOrder[k] \in AllHeaders
    BY <1>1, HeadersAssumption
  <2>2. p.hdr[PhOrder[k]].bytes \in Seq(Nat)
    BY <2>1, PhvIs DEF Headers
  <2>3. Bytes(k) \in Seq(Nat)
    BY <2>2
  <2> HIDE DEF Bytes
  <2> QED  BY <2>3
<1>5. step \in StepsOf(N, V)
  <2> HIDE DEF V, After
  <2> QED  BY <1>3 DEF StepsOf
<1>6. PICK w : w \in RunsOf(N, V, <<>>, step)
  <2> HIDE DEF V, step
  <2> QED  BY <1>2, <1>5, Iterates
<1>7. w \in [0 .. N -> V] /\ w[0] = <<>> /\ \A k \in 1 .. N : w[k] = After(w[k - 1], k)
  <2>1. \A k \in 1 .. N : k - 1 \in 0 .. N
    OBVIOUS
  <2>2. w \in [0 .. N -> V] /\ w[0] = <<>> /\ \A k \in 1 .. N : w[k] = step[k][w[k - 1]]
    <3> HIDE DEF V, step
    <3> QED  BY <1>6 DEF RunsOf
  <2> HIDE DEF V, After
  <2> QED  BY <2>1, <2>2
<1>8. w = [k \in 0 .. N |-> IF k = 0 THEN <<>> ELSE After(w[k - 1], k)]
  <2>1. \A k \in 0 .. N : k = 0 \/ (k \in 1 .. N /\ k # 0)
    OBVIOUS
  <2> HIDE DEF V, After
  <2>2. \A k \in 0 .. N : w[k] = IF k = 0 THEN <<>> ELSE After(w[k - 1], k)
    BY <1>7, <2>1
  <2> QED  BY <1>7, <2>2
<1>9. PICK f : f = [k \in 0 .. N |-> IF k = 0 THEN <<>> ELSE After(f[k - 1], k)] /\ Emitted(p) = f[N]
  <2> DEFINE g == CHOOSE f : f = [k \in 0 .. N |-> IF k = 0 THEN <<>> ELSE After(f[k - 1], k)]
  <2>1. g = [k \in 0 .. N |-> IF k = 0 THEN <<>> ELSE After(g[k - 1], k)]
    <3> HIDE DEF After
    <3> QED  BY <1>8
  <2>2. Emitted(p) = g[N]
    BY <1>1 DEF Emitted
  <2> HIDE DEF g, After
  <2> QED  BY <2>1, <2>2
<1>10. f[0] = <<>> /\ \A k \in 1 .. N : f[k] = After(f[k - 1], k)
  <2> HIDE DEF After
  <2>1. 0 \in 0 .. N /\ \A k \in 1 .. N : k \in 0 .. N /\ k # 0
    OBVIOUS
  <2> QED  BY <1>9, <2>1
<1> DEFINE S == {k \in 0 .. N : f[k] \in V}
<1> HIDE DEF After, V
<1>11. 0 \in S
  BY <1>2, <1>10
<1>12. ASSUME NEW k \in 1 .. N, k - 1 \in S PROVE k \in S
  <2>1. f[k - 1] \in V /\ f[k] = After(f[k - 1], k) /\ k \in 0 .. N
    BY <1>10, <1>12
  <2> QED  BY <1>3, <2>1
<1>13. N \in S
  <2>1. N \in 0 .. N
    OBVIOUS
  <2> HIDE DEF S
  <2> QED  BY <1>11, <1>12, <2>1, UpTo
<1> QED  BY <1>9, <1>13 DEF V

-----------------------------------------------------------------------------
(* Every operation keeps HeadersInv. *)

LEMMA HeadersHave ==
  ASSUME HeadersInv
  PROVE  /\ phv \in Phvs /\ Agrees(phv) /\ GoodPhv(phv) /\ phCopy \in Phvs /\ Agrees(phCopy)
         /\ phData \in Seq(Nat) /\ Len(phData) \in Nat /\ phPos \in Nat /\ phPos <= Len(phData)
         /\ phStage # "parse" => phPos = 0
BY DEF HeadersInv, GoodPhv

\* Parsing ends in any state, with or without an error.
LEMMA EndParseKeeps ==
  ASSUME HeadersInv, NEW p, GoodPhv(p), EndParse(p, phPos), phCopy' = phCopy
  PROVE  HeadersInv'
<1>1. /\ phData \in Seq(Nat) /\ Len(phData) \in Nat /\ phPos \in Nat /\ phPos <= Len(phData)
      /\ phCopy \in Phvs /\ Agrees(phCopy)
  BY HeadersHave
<1>2. /\ phData' = SubSeq(phData, phPos + 1, Len(phData)) /\ phPos' = 0
      /\ phStage' = "process" /\ phv' = p
  BY DEF EndParse
<1>3. PICK l \in Nat : l = phPos + 1 /\ l >= 1
  BY <1>1
<1>4. SubSeq(phData, l, Len(phData)) \in Seq(Nat)
  BY <1>1, <1>3
<1>5. phData' \in Seq(Nat)
  BY <1>2, <1>3, <1>4
<1>6. Len(phData') \in Nat /\ 0 <= Len(phData')
  BY <1>5
<1>7. /\ phv' \in Phvs /\ phCopy' \in Phvs /\ Agrees(phv') /\ Agrees(phCopy')
      /\ \A s \in Stacks : phv'.next[s] \in 0 .. Depth(s)
  BY <1>1, <1>2 DEF GoodPhv
<1>8. Agrees(phv)' /\ Agrees(phCopy)'
  BY <1>7 DEF Agrees
<1> QED  BY <1>2, <1>5, <1>6, <1>7, <1>8 DEF HeadersInv

\* The parser moves on by bytes that are there.
LEMMA AdvanceKeeps ==
  ASSUME HeadersInv, phStage = "parse", NEW p, GoodPhv(p), NEW n \in Nat, Enough(n),
         Advance(p, n), phCopy' = phCopy
  PROVE  HeadersInv'
<1>1. /\ phData \in Seq(Nat) /\ Len(phData) \in Nat /\ phPos \in Nat /\ phPos <= Len(phData)
      /\ phCopy \in Phvs /\ Agrees(phCopy)
  BY HeadersHave
<1>2. phv' = p /\ phPos' = phPos + n /\ phData' = phData /\ phStage' = phStage
  BY DEF Advance
<1>3. phPos' \in Nat /\ phPos' <= Len(phData)
  BY <1>1, <1>2 DEF Enough
<1>4. /\ phv' \in Phvs /\ phCopy' \in Phvs /\ Agrees(phv') /\ Agrees(phCopy')
      /\ \A s \in Stacks : phv'.next[s] \in 0 .. Depth(s)
  BY <1>1, <1>2 DEF GoodPhv
<1>5. Agrees(phv)' /\ Agrees(phCopy)'
  BY <1>4 DEF Agrees
<1> QED  BY <1>1, <1>2, <1>3, <1>4, <1>5 DEF HeadersInv

\* An action of a pipeline.
LEMMA ProcessKeeps ==
  ASSUME HeadersInv, NEW p, GoodPhv(p), Process(p)
  PROVE  HeadersInv'
<1>1. /\ phData \in Seq(Nat) /\ phPos \in Nat /\ phPos <= Len(phData)
      /\ phCopy \in Phvs /\ Agrees(phCopy) /\ (phStage # "parse" => phPos = 0)
  BY HeadersHave
<1>2. /\ phv' = p /\ phCopy' = phCopy /\ phData' = phData /\ phPos' = phPos /\ phStage' = phStage
      /\ phStage = "process"
  BY DEF Process
<1>3. /\ phv' \in Phvs /\ phCopy' \in Phvs /\ Agrees(phv') /\ Agrees(phCopy')
      /\ \A s \in Stacks : phv'.next[s] \in 0 .. Depth(s)
  BY <1>1, <1>2 DEF GoodPhv
<1>4. Agrees(phv)' /\ Agrees(phCopy)'
  BY <1>3 DEF Agrees
<1> QED  BY <1>1, <1>2, <1>3, <1>4 DEF HeadersInv

LEMMA FailsKeeps ==
  ASSUME HeadersInv, Fails, phCopy' = phCopy
  PROVE  HeadersInv'
BY HeadersHave, EndParseKeeps DEF Fails

\* push_front and pop_front of the build in use.
LEMMA PushIs ==
  ASSUME HeadersInv, NEW s \in Stacks, NEW n \in 1 .. Depth(s),
         NEW q, q = PushFront(phv, s, n, phBuild)
  PROVE  PushedOK(phv, s, n, q) /\ GoodPhv(q)
<1>1. phv \in Phvs /\ Agrees(phv) /\ \A t \in Stacks : phv.next[t] \in 0 .. Depth(t)
  BY HeadersHave DEF GoodPhv
<1>2. PushedOK(phv, s, n, q)
  BY <1>1, PushP4_16Is, PushLegacyIs DEF PushFront
<1>3. phv.next \in [Stacks -> Nat]
  BY <1>1, PhvIs
<1>4. PICK next \in 0 .. Depth(s) : q.next = [phv.next EXCEPT ![s] = next]
  BY <1>2 DEF PushedOK
<1>5. \A t \in Stacks : q.next[t] \in 0 .. Depth(t)
  BY <1>1, <1>3, <1>4
<1> QED  BY <1>2, <1>5 DEF PushedOK, GoodPhv

LEMMA PopIs ==
  ASSUME HeadersInv, NEW s \in Stacks, NEW n \in 1 .. Depth(s),
         NEW q, q = PopFront(phv, s, n, phBuild)
  PROVE  PoppedOK(phv, s, n, q) /\ GoodPhv(q)
<1>1. phv \in Phvs /\ Agrees(phv) /\ \A t \in Stacks : phv.next[t] \in 0 .. Depth(t)
  BY HeadersHave DEF GoodPhv
<1>2. PoppedOK(phv, s, n, q)
  BY <1>1, PopP4_16Is, PopLegacyIs DEF PopFront
<1>3. phv.next \in [Stacks -> Nat]
  BY <1>1, PhvIs
<1>4. PICK next \in 0 .. Depth(s) : q.next = [phv.next EXCEPT ![s] = next]
  BY <1>2 DEF PoppedOK
<1>5. \A t \in Stacks : q.next[t] \in 0 .. Depth(t)
  BY <1>1, <1>3, <1>4
<1> QED  BY <1>2, <1>5 DEF PoppedOK, GoodPhv

\* Two headers of one type are not two headers of one union.
LEMMA SameTypeIs ==
  ASSUME NEW dst \in AllHeaders, NEW src \in AllHeaders, SameType(dst, src), src # dst
  PROVE  ~(src \in UnionHeaders /\ dst \in UnionHeaders /\ UnionOf(src) = UnionOf(dst))
<1>1. CASE dst \in StackHeaders /\ src \in StackHeaders
  BY <1>1, HeadersAssumption
<1>2. CASE dst \in UnionHeaders /\ src \in UnionHeaders /\ IdxOf(dst) = IdxOf(src)
  <2>1. PhUnions[UnionOf(src)][IdxOf(src)] = src /\ PhUnions[UnionOf(dst)][IdxOf(dst)] = dst
    BY <1>2, UnionHeaderIs
  <2> QED  BY <1>2, <2>1
<1> QED  BY <1>1, <1>2 DEF SameType

\* The operations of the parser.
LEMMA ParserKeeps ==
  ASSUME HeadersInv,
         \/ \E h \in PhFixed : ParserOpExtract(h) \/ ParserOpExtractVL(h, 1)
         \/ ParserOpShift(1) \/ ParserOpVerify \/ Accept
  PROVE  HeadersInv'
<1>0. /\ phv \in Phvs /\ Agrees(phv) /\ GoodPhv(phv) /\ phData \in Seq(Nat)
      /\ Len(phData) \in Nat /\ phPos \in Nat /\ phPos <= Len(phData)
  BY HeadersHave
<1>1. ASSUME NEW h \in PhFixed, ParserOpExtract(h) PROVE HeadersInv'
  <2>1. h \in AllHeaders /\ phStage = "parse" /\ phCopy' = phCopy
    BY <1>1 DEF AllHeaders, ParserOpExtract, Parsing, OneOp
  <2>2. PICK n \in Nat : n = NBytes(phv, h) /\ n >= 1
    BY <1>0, <2>1, NBytesIs
  <2>3. CASE Enough(n)
    <3>1. PICK q : q = Extracted(phv, h, n)
      OBVIOUS
    <3>2. phPos + n <= Len(phData)
      BY <1>0, <2>3 DEF Enough
    <3>3. q \in Like(phv)
      BY <1>0, <2>1, <3>1, <3>2, ExtractedKeeps
    <3>4. GoodPhv(q)
      BY <1>0, <3>3, LikeIsGood
    <3>5. Advance(q, n)
      BY <1>1, <2>2, <2>3, <3>1 DEF ParserOpExtract
    <3> QED  BY <2>1, <2>3, <3>4, <3>5, AdvanceKeeps
  <2>4. CASE ~Enough(n)
    <3>1. Fails
      BY <1>1, <2>2, <2>4 DEF ParserOpExtract
    <3> QED  BY <2>1, <3>1, FailsKeeps
  <2> QED  BY <2>3, <2>4
<1>2. ASSUME NEW h \in PhFixed, ParserOpExtractVL(h, 1) PROVE HeadersInv'
  <2>1. h \in AllHeaders /\ phStage = "parse" /\ phCopy' = phCopy
    BY <1>2 DEF AllHeaders, ParserOpExtractVL, Parsing, OneOp
  <2>2. PICK n \in Nat : n = NBytes(phv, h) /\ n >= 1
    BY <1>0, <2>1, NBytesIs
  <2>3. PICK m \in Nat : m = 1 + 1
    OBVIOUS
  <2>4. CASE Enough(n + 1)
    <3>1. PICK q : q = Extracted(phv, h, m)
      OBVIOUS
    <3>2. phPos + m <= Len(phData) /\ Enough(m)
      BY <1>0, <2>2, <2>3, <2>4 DEF Enough
    <3>3. q \in Like(phv)
      BY <1>0, <2>1, <3>1, <3>2, ExtractedKeeps
    <3>4. GoodPhv(q)
      BY <1>0, <3>3, LikeIsGood
    <3>5. Advance(q, m)
      BY <1>2, <2>2, <2>3, <2>4, <3>1 DEF ParserOpExtractVL
    <3> QED  BY <2>1, <3>2, <3>4, <3>5, AdvanceKeeps
  <2>5. CASE ~Enough(n + 1)
    <3>1. Fails
      BY <1>2, <2>2, <2>5 DEF ParserOpExtractVL
    <3> QED  BY <2>1, <3>1, FailsKeeps
  <2> QED  BY <2>4, <2>5
<1>3. CASE ParserOpShift(1)
  <2>1. phStage = "parse" /\ phCopy' = phCopy
    BY <1>3 DEF ParserOpShift, Parsing, OneOp
  <2>2. CASE Enough(1)
    <3>1. Advance(phv, 1) /\ 1 \in Nat
      BY <1>3, <2>2 DEF ParserOpShift
    <3> QED  BY <1>0, <2>1, <2>2, <3>1, AdvanceKeeps
  <2>3. CASE ~Enough(1)
    <3>1. Fails
      BY <1>3, <2>3 DEF ParserOpShift
    <3> QED  BY <2>1, <3>1, FailsKeeps
  <2> QED  BY <2>2, <2>3
<1>4. CASE ParserOpVerify
  BY <1>4, FailsKeeps DEF ParserOpVerify, OneOp
<1>5. CASE Accept
  BY <1>0, <1>5, EndParseKeeps DEF Accept
<1> QED  BY <1>1, <1>2, <1>3, <1>4, <1>5

\* Extraction into the next element of a stack.
LEMMA ExtractStackKeeps ==
  ASSUME HeadersInv, NEW s \in Stacks, NEW k \in Positions, ParserOpExtractStack(s, k)
  PROVE  HeadersInv'
<1>0. /\ phv \in Phvs /\ Agrees(phv) /\ GoodPhv(phv) /\ phData \in Seq(Nat)
      /\ Len(phData) \in Nat /\ phPos \in Nat /\ phPos <= Len(phData)
      /\ phv.next[s] \in 0 .. Depth(s) /\ Depth(s) \in Nat
  BY HeadersHave, Depths DEF GoodPhv
<1>1. phStage = "parse" /\ phCopy' = phCopy
  BY DEF ParserOpExtractStack, Parsing, OneOp
<1>2. PICK i : i = phv.next[s]
  OBVIOUS
<1>3. PICK h : h = IF s = "headers" THEN PhStack[i + 1] ELSE PhUnions[i + 1][k]
  OBVIOUS
<1>4. PICK n : n = NBytes(phv, h)
  OBVIOUS
<1>5. \/ Fails
      \/ i < Depth(s) /\ Enough(n) /\ Advance(PushBack(Extracted(phv, h, n), s), n)
  <2>1. CASE i >= Depth(s)
    BY <1>2, <1>3, <1>4, <2>1 DEF ParserOpExtractStack
  <2>2. CASE ~(i >= Depth(s))
    <3>1. i < Depth(s)
      BY <1>0, <1>2, <2>2
    <3>2. CASE Enough(n)
      BY <1>2, <1>3, <1>4, <2>2, <3>1, <3>2 DEF ParserOpExtractStack
    <3>3. CASE ~Enough(n)
      BY <1>2, <1>3, <1>4, <2>2, <3>1, <3>3 DEF ParserOpExtractStack
    <3> QED  BY <3>2, <3>3
  <2> QED  BY <2>1, <2>2
<1>6. CASE Fails
  BY <1>1, <1>6, FailsKeeps
<1>7. CASE i < Depth(s) /\ Enough(n) /\ Advance(PushBack(Extracted(phv, h, n), s), n)
  <2>1. i \in 0 .. Depth(s) - 1
    BY <1>0, <1>2, <1>7
  <2>2. h \in AllHeaders
    <3>1. CASE s = "headers"
      <4>1. i + 1 \in 1 .. Len(PhStack)
        BY <2>1, <3>1, ElementIs
      <4> QED  BY <1>3, <3>1, <4>1, StackPlaces
    <3>2. CASE s # "headers"
      <4>1. i + 1 \in UnionIds
        BY <2>1, <3>2, ElementIs
      <4> QED  BY <1>3, <3>2, <4>1, UnionPlaces
    <3> QED  BY <3>1, <3>2
  <2>3. n \in Nat
    BY <1>0, <1>4, <2>2, NBytesIs
  <2>4. phPos + n <= Len(phData)
    BY <1>0, <1>7, <2>3 DEF Enough
  <2>5. PICK a : a = Extracted(phv, h, n)
    OBVIOUS
  <2>6. a \in Like(phv)
    BY <1>0, <2>2, <2>3, <2>4, <2>5, ExtractedKeeps
  <2>7. GoodPhv(a) /\ a.next = phv.next
    BY <1>0, <2>6, LikeIsGood DEF Like
  <2>8. PICK q : q = PushBack(a, s)
    OBVIOUS
  <2>9. GoodPhv(q)
    BY <1>2, <1>7, <2>7, <2>8, PushBackKeeps
  <2>10. Advance(q, n) /\ Enough(n)
    BY <1>7, <2>5, <2>8
  <2> QED  BY <1>1, <2>3, <2>9, <2>10, AdvanceKeeps
<1> QED  BY <1>5, <1>6, <1>7

\* The actions of the pipelines.
LEMMA ActionsKeep ==
  ASSUME HeadersInv,
         \/ \E h \in AllHeaders : SetValid(h) \/ SetInvalid(h)
         \/ \E s \in Stacks : \E n \in 1 .. Depth(s) : PushOp(s, n) \/ PopOp(s, n)
         \/ \E dst, src \in AllHeaders : AssignOp(dst, src)
         \/ \E u, v \in UnionIds : AssignUnionOp(u, v)
  PROVE  HeadersInv'
<1>0. phv \in Phvs /\ Agrees(phv) /\ GoodPhv(phv)
  BY HeadersHave
<1>1. phv \in Like(phv)
  BY <1>0 DEF Like
<1>2. ASSUME NEW h \in AllHeaders, SetValid(h) PROVE HeadersInv'
  <2>1. PICK q : q = MarkValid(phv, h)
    OBVIOUS
  <2>2. q \in Phvs /\ Agrees(q) /\ q.next = phv.next
    BY <1>0, <2>1, MarkValidKeeps
  <2>3. GoodPhv(q)
    BY <1>0, <2>2 DEF GoodPhv
  <2> QED  BY <1>2, <2>1, <2>3, ProcessKeeps DEF SetValid
<1>3. ASSUME NEW h \in AllHeaders, SetInvalid(h) PROVE HeadersInv'
  <2>1. PICK q : q = MarkInvalid(phv, h)
    OBVIOUS
  <2>2. q \in Phvs /\ Agrees(q) /\ q.next = phv.next
    BY <1>0, <2>1, MarkInvalidKeeps
  <2>3. GoodPhv(q)
    BY <1>0, <2>2 DEF GoodPhv
  <2> QED  BY <1>3, <2>1, <2>3, ProcessKeeps DEF SetInvalid
<1>4. ASSUME NEW s \in Stacks, NEW n \in 1 .. Depth(s), PushOp(s, n) PROVE HeadersInv'
  <2>1. PICK q : q = PushFront(phv, s, n, phBuild)
    OBVIOUS
  <2>2. GoodPhv(q)
    BY <2>1, PushIs
  <2> QED  BY <1>4, <2>1, <2>2, ProcessKeeps DEF PushOp
<1>5. ASSUME NEW s \in Stacks, NEW n \in 1 .. Depth(s), PopOp(s, n) PROVE HeadersInv'
  <2>1. PICK q : q = PopFront(phv, s, n, phBuild)
    OBVIOUS
  <2>2. GoodPhv(q)
    BY <2>1, PopIs
  <2> QED  BY <1>5, <2>1, <2>2, ProcessKeeps DEF PopOp
<1>6. ASSUME NEW dst \in AllHeaders, NEW src \in AllHeaders, AssignOp(dst, src) PROVE HeadersInv'
  <2>1. PICK q : q = AssignHeader(phv, dst, src)
    OBVIOUS
  <2>2. SameType(dst, src) /\ Process(q)
    BY <1>6, <2>1 DEF AssignOp
  <2>3. q \in Like(phv)
    BY <1>1, <2>1, <2>2, SameTypeIs, AssignHeaderKeeps
  <2>4. GoodPhv(q)
    BY <1>0, <2>3, LikeIsGood
  <2> QED  BY <2>2, <2>4, ProcessKeeps
<1>7. ASSUME NEW u \in UnionIds, NEW v \in UnionIds, AssignUnionOp(u, v) PROVE HeadersInv'
  <2>1. PICK q : q = AssignUnion(phv, u, v)
    OBVIOUS
  <2>2. q \in Like(phv)
    BY <1>0, <2>1, AssignUnionKeeps
  <2>3. GoodPhv(q)
    BY <1>0, <2>2, LikeIsGood
  <2> QED  BY <1>7, <2>1, <2>3, ProcessKeeps DEF AssignUnionOp
<1> QED  BY <1>2, <1>3, <1>4, <1>5, <1>6, <1>7

\* A packet arrives, is cloned, leaves, and gives its PHV back.
LEMMA PacketKeeps ==
  ASSUME HeadersInv,
         \/ \E data \in PhPackets, build \in PhBuilds : ParsePacket(data, build)
         \/ CloneOp \/ Deparse \/ ReleasePhv
  PROVE  HeadersInv'
<1>0. /\ phv \in Phvs /\ Agrees(phv) /\ GoodPhv(phv) /\ phCopy \in Phvs /\ Agrees(phCopy)
      /\ phData \in Seq(Nat) /\ Len(phData) \in Nat /\ phPos \in Nat /\ phPos <= Len(phData)
      /\ (phStage # "parse" => phPos = 0) /\ \A s \in Stacks : phv.next[s] \in 0 .. Depth(s)
  BY HeadersHave DEF GoodPhv
<1>1. ASSUME NEW data \in PhPackets, NEW build \in PhBuilds, ParsePacket(data, build) PROVE HeadersInv'
  <2>1. data \in Seq(Nat)
    BY HeadersAssumption
  <2>2. phv' = phv /\ phCopy' = phCopy /\ phData' = data /\ phPos' = 0 /\ phStage' = "parse"
    BY <1>1 DEF ParsePacket
  <2>3. Len(data) \in Nat /\ 0 <= Len(data)
    BY <2>1
  <2>4. Agrees(phv)' /\ Agrees(phCopy)'
    BY <1>0, <2>2 DEF Agrees
  <2> QED  BY <1>0, <2>1, <2>2, <2>3, <2>4 DEF HeadersInv
<1>2. CASE CloneOp
  <2>1. PICK d : d = ResetPhv(phCopy)
    OBVIOUS
  <2>2. d \in Phvs /\ \A h \in AllHeaders : d.hdr[h].bit = 0
    BY <1>0, <2>1, ResetKeeps
  <2>3. PICK q : q = CopyHeaders(d, phv)
    OBVIOUS
  <2>4. q \in Like(phv)
    BY <1>0, <2>2, <2>3, CopyKeeps
  <2>5. q \in Phvs /\ Agrees(q)
    BY <2>4 DEF Like
  <2>6. /\ phCopy' = q /\ phv' = phv /\ phData' = phData /\ phPos' = phPos /\ phStage' = phStage
        /\ phStage = "process"
    BY <1>2, <2>1, <2>3 DEF CloneOp
  <2>7. Agrees(phv)' /\ Agrees(phCopy)'
    BY <1>0, <2>5, <2>6 DEF Agrees
  <2> QED  BY <1>0, <2>5, <2>6, <2>7 DEF HeadersInv
<1>3. CASE Deparse
  <2>1. PICK e \in Seq(Nat) : e = Emitted(phv)
    BY <1>0, EmittedIs
  <2>2. /\ phv' = phv /\ phCopy' = phCopy /\ phData' = e \o phData /\ phPos' = phPos
        /\ phStage' = "done" /\ phStage = "process"
    BY <1>3, <2>1 DEF Deparse
  <2>3. e \o phData \in Seq(Nat)
    BY <1>0
  <2>4. Len(phData') \in Nat /\ phPos = 0 /\ 0 <= Len(phData')
    BY <1>0, <2>2, <2>3
  <2>5. Agrees(phv)' /\ Agrees(phCopy)'
    BY <1>0, <2>2 DEF Agrees
  <2> QED  BY <1>0, <2>2, <2>3, <2>4, <2>5 DEF HeadersInv
<1>4. CASE ReleasePhv
  <2>1. PICK q : q = ResetPhv(phv)
    OBVIOUS
  <2>2. q \in Phvs /\ Agrees(q) /\ \A s \in Stacks : q.next[s] = 0
    BY <1>0, <2>1, ResetKeeps
  <2>3. /\ phv' = q /\ phCopy' = phCopy /\ phData' = <<>> /\ phPos' = phPos /\ phStage' = "idle"
        /\ phStage = "done"
    BY <1>4, <2>1 DEF ReleasePhv
  <2>4. <<>> \in Seq(Nat) /\ Len(<<>>) = 0 /\ phPos = 0
    BY <1>0, <2>3
  <2>5. \A s \in Stacks : q.next[s] \in 0 .. Depth(s)
    BY <2>2, Depths
  <2>6. Agrees(phv)' /\ Agrees(phCopy)'
    BY <1>0, <2>2, <2>3 DEF Agrees
  <2>7. Len(phData') = 0 /\ phData' \in Seq(Nat) /\ 0 <= 0
    BY <2>3, <2>4
  <2> QED  BY <1>0, <2>2, <2>3, <2>4, <2>5, <2>6, <2>7 DEF HeadersInv
<1> QED  BY <1>1, <1>2, <1>3, <1>4

\* The PHV of the pool before the first packet.
LEMMA FirstPhv == NoPhv \in Phvs /\ Agrees(NoPhv) /\ \A s \in Stacks : NoPhv.next[s] = 0
<1>1. PICK no : no = FALSE
  OBVIOUS
<1>0. PICK e : e = <<>> /\ e \in Seq(Nat)
  <2>1. <<>> \in Seq(Nat)
    OBVIOUS
  <2> QED  BY ONLY <2>1, Zenon
<1>2. PICK hh, nn, uu : /\ hh = [h \in AllHeaders |-> [valid |-> no, bit |-> 0, bytes |-> e]]
                        /\ nn = [s \in Stacks |-> 0]
                        /\ uu = [u \in UnionIds |-> [valid |-> no, idx |-> 1]]
  OBVIOUS
<1>3. NoPhv = [hdr |-> hh, next |-> nn, un |-> uu]
  BY <1>0, <1>1, <1>2 DEF NoPhv, NoHeader
<1>4. [valid |-> no, bit |-> 0, bytes |-> e] \in Headers
  BY <1>0, <1>1 DEF Headers
<1>5. hh \in [AllHeaders -> Headers] /\ \A h \in AllHeaders : hh[h].valid = no /\ hh[h].bit = 0
  BY <1>2, <1>4
<1>6. [valid |-> no, idx |-> 1] \in [valid : BOOLEAN, idx : Positions]
  BY <1>1, UnionPlaces
<1>7. /\ uu \in [UnionIds -> [valid : BOOLEAN, idx : Positions]]
      /\ \A u \in UnionIds : uu[u].valid = no
  BY <1>2, <1>6
<1>8. nn \in [Stacks -> Nat] /\ \A s \in Stacks : nn[s] = 0
  BY <1>2
<1>9. PICK q : q = NoPhv
  OBVIOUS
<1>10. q \in Phvs /\ q.hdr = hh /\ q.next = nn /\ q.un = uu
  BY <1>3, <1>5, <1>7, <1>8, <1>9, PhvWith
<1>11. \A h \in AllHeaders : ~q.hdr[h].valid
  BY <1>1, <1>5, <1>10
<1>12. \A h \in AllHeaders : q.hdr[h].bit = 0
  BY <1>5, <1>10
<1>13. \A u \in UnionIds : ~q.un[u].valid
  BY <1>1, <1>7, <1>10
<1>14. \A u \in UnionIds, k \in Positions : ~q.hdr[PhUnions[u][k]].valid
  BY <1>11, UnionPlaces
<1>15. Agrees(q)
  BY <1>11, <1>12, <1>13, <1>14 DEF Agrees
<1> QED  BY <1>8, <1>9, <1>10, <1>15

LEMMA HeadersInit == PhInit => HeadersInv
<1> SUFFICES ASSUME PhInit PROVE HeadersInv
  OBVIOUS
<1>1. phv = NoPhv /\ phCopy = NoPhv /\ phData = <<>> /\ phPos = 0 /\ phStage = "idle"
  BY DEF PhInit
<1>2. \A s \in Stacks : phv.next[s] \in 0 .. Depth(s)
  BY <1>1, FirstPhv, Depths
<1>3. <<>> \in Seq(Nat) /\ Len(<<>>) = 0 /\ 0 \in Nat /\ 0 <= 0
  OBVIOUS
<1>4. phv \in Phvs /\ phCopy \in Phvs /\ Agrees(phv) /\ Agrees(phCopy)
  BY <1>1, FirstPhv
<1> QED  BY <1>1, <1>2, <1>3, <1>4 DEF HeadersInv

LEMMA HeadersKeep == HeadersInv /\ [PhNext]_phVars => HeadersInv'
<1> SUFFICES ASSUME HeadersInv, [PhNext]_phVars PROVE HeadersInv'
  OBVIOUS
<1>1. CASE UNCHANGED phVars
  <2>1. /\ phv' = phv /\ phCopy' = phCopy /\ phData' = phData /\ phPos' = phPos /\ phStage' = phStage
    BY <1>1 DEF phVars
  <2> QED  BY <2>1 DEF HeadersInv, Agrees
<1>2. CASE PhNext
  <2>1. "headers" \in Stacks /\ "unions" \in Stacks /\ 1 \in Positions
    BY UnionPlaces DEF Stacks
  <2>2. CASE ParserOpExtractStack("headers", 1)
    BY <2>1, <2>2, ExtractStackKeeps
  <2>3. CASE \E k \in Positions : ParserOpExtractStack("unions", k)
    BY <2>1, <2>3, ExtractStackKeeps
  <2> QED  BY <1>2, <2>2, <2>3, ParserKeeps, ActionsKeep, PacketKeeps DEF PhNext
<1> QED  BY <1>1, <1>2

\* Headers, hidden fields and unions always agree on validity, in the PHV of the
\* packet and in its clone's, no stack is fuller than it is deep and the parser
\* stays inside the packet (headers.cpp, header_unions.h, stacks.cpp, phv.cpp).
THEOREM HeadersInvariant == PhSpec => []HeadersInv
BY HeadersInit, HeadersKeep, PTL DEF PhSpec

\* push_front and pop_front keep what the elements hold that stay.
LEMMA ShiftsKeep == HeadersInv => ShiftKeepsElements
<1> SUFFICES ASSUME HeadersInv, NEW s \in Stacks, NEW n \in 1 .. Depth(s)
             PROVE  /\ PushOp(s, n) => \A i \in n .. phv'.next[s] - 1 :
                                         Content(phv', s, i) = Content(phv, s, i - n)
                    /\ PopOp(s, n) => \A i \in 0 .. Depth(s) - 1 - n :
                                        i + n < phv.next[s] =>
                                          Content(phv', s, i) = Content(phv, s, i + n)
  BY DEF ShiftKeepsElements
<1>1. ASSUME PushOp(s, n) PROVE \A i \in n .. phv'.next[s] - 1 :
                                  Content(phv', s, i) = Content(phv, s, i - n)
  <2>1. PICK q : q = PushFront(phv, s, n, phBuild)
    OBVIOUS
  <2>2. PushedOK(phv, s, n, q)
    BY <2>1, PushIs
  <2>3. phv' = q
    BY <1>1, <2>1 DEF PushOp, Process
  <2> QED  BY <2>2, <2>3 DEF PushedOK
<1>2. ASSUME PopOp(s, n) PROVE \A i \in 0 .. Depth(s) - 1 - n :
                                 i + n < phv.next[s] => Content(phv', s, i) = Content(phv, s, i + n)
  <2>1. PICK q : q = PopFront(phv, s, n, phBuild)
    OBVIOUS
  <2>2. PoppedOK(phv, s, n, q)
    BY <2>1, PopIs
  <2>3. phv' = q
    BY <1>2, <2>1 DEF PopOp, Process
  <2> QED  BY <2>2, <2>3 DEF PoppedOK
<1> QED  BY <1>1, <1>2

\* Every operation on the headers of a packet keeps what is said of validity in
\* agreement, and pushing and popping move what the elements hold, in both
\* implementations of stacks (headers.cpp, header_unions.h, stacks.cpp).
THEOREM HeadersAreSound == PhSpec => HeadersSound
<1>1. HeadersInv => PhTypeOK /\ ValidityAgrees
  BY DEF HeadersInv, PhTypeOK, ValidityAgrees
<1>2. HeadersInv /\ HeadersInv' /\ [PhNext]_phVars
        => [PhTypeOK' /\ ValidityAgrees' /\ ShiftKeepsElements]_phVars
  BY <1>1, ShiftsKeep DEF HeadersInv, PhTypeOK, ValidityAgrees
<1> QED  BY <1>2, HeadersInvariant, PTL DEF PhSpec, HeadersSound

=============================================================================
