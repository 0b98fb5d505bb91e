----------------------------- MODULE MatchTable -----------------------------
(***************************************************************************)
(* A direct match table over a ternary (or range) match unit:              *)
(* MatchTable and MatchTableAbstract (match_tables.cpp), MatchUnitGeneric   *)
(* (match_units.cpp) and the structures under it, EntryList and             *)
(* TernaryCache (lookup_structures.cpp).                                    *)
(*                                                                         *)
(* A client handle is a slot and the slot's version.  An operation of the   *)
(* control plane runs under the table's write lock; a lookup holds the read *)
(* lock for its whole duration but takes the cache's mutex twice, once to   *)
(* ask the cache and once to fill it, so two packet threads interleave      *)
(* there.  A call that returns an error changes nothing and is a stutter.   *)
(*                                                                         *)
(* A match key is an opaque value; MtMatches says which packets it matches, *)
(* which is what the comparison of TernaryMap and of RangeMap computes.     *)
(***************************************************************************)
EXTENDS Integers, Sequences, SequencesExt, FiniteSets, FiniteSetsExt

CONSTANTS
    MtSize,        \* size of the table: slots 0 .. MtSize - 1
    MtKeys,        \* match keys a client may ask for
    MtPackets,     \* lookup keys packets carry
    MtMatches,     \* the pairs <<key, packet>> that match
    MtPriorities,  \* priorities of entries; the smallest wins
    MtActions,     \* action entries
    MtVersions,    \* number of versions of a slot (256: eight bits)
    MtThreads,     \* packet threads
    CacheSize,     \* S of TernaryCache (64)
    CacheMin,      \* cache_activation_min_entries (16)
    MtMaxAdds      \* bound: entries added between two resets

ASSUME MtAssumption ==
    /\ MtSize \in Nat \ {0}
    /\ MtVersions \in Nat \ {0}
    /\ CacheSize \in Nat \ {0}
    /\ CacheMin \in Nat
    /\ MtMaxAdds \in Nat
    /\ MtMaxAdds =< MtVersions   \* no version comes back within the bound
    /\ MtPriorities \subseteq Int

VARIABLES
    mtEntries,   \* entries: what every slot holds
    mtUsed,      \* handles: the allocated slots
    mtLink,      \* EntryList's prev and next of every slot
    mtHead,      \* EntryList's head
    mtCache,     \* TernaryCache, most recently used first
    mtUseCache,  \* use_cache
    mtDefault,   \* default_entry
    mtReader,    \* the lookup every packet thread is in the middle of
    mtAdds,      \* entries added since the last reset
    mtSerial,    \* the add that made the entry of every slot
    mtIssued     \* the adds each client handle was returned for

mtVars == <<mtEntries, mtUsed, mtLink, mtHead, mtCache, mtUseCache, mtDefault,
            mtReader, mtAdds, mtSerial, mtIssued>>

Slots == 0 .. MtSize - 1
NoSlot == -1
NoKey == "no key"
Idle == "idle"
MtDefaultDefault == "default default entry"
Handles == [slot : Slots, version : 0 .. MtVersions - 1]
MtEntry == [key : MtKeys \cup {NoKey}, priority : MtPriorities \cup {0},
            value : MtActions \cup {NoKey}, version : 0 .. MtVersions - 1]

EmptyEntry == [key |-> NoKey, priority |-> 0, value |-> NoKey, version |-> 0]

\* MatchUnitAbstract_ and EntryList as they are built.
MtInit ==
    /\ mtEntries = [s \in Slots |-> EmptyEntry]
    /\ mtUsed = {}
    /\ mtLink = [s \in Slots |-> [prev |-> NoSlot, next |-> NoSlot]]
    /\ mtHead = NoSlot
    /\ mtCache = << >>
    /\ mtUseCache = FALSE
    /\ mtDefault = MtDefaultDefault
    /\ mtReader = [t \in MtThreads |-> Idle]
    /\ mtAdds = 0
    /\ mtSerial = [s \in Slots |-> 0]
    /\ mtIssued = [h \in Handles |-> {}]

-----------------------------------------------------------------------------
(* EntryList: a doubly linked list threaded through the slots. *)

\* The slots met by following next from the head.
Listed ==
    LET walk[n \in 0 .. MtSize] ==
            IF n = 0 THEN IF mtHead = NoSlot THEN << >> ELSE <<mtHead>>
            ELSE LET seen == walk[n - 1] IN
                 IF seen = << >> \/ mtLink[Last(seen)].next = NoSlot THEN seen
                 ELSE Append(seen, mtLink[Last(seen)].next)
    IN  walk[MtSize]

\* find_entry: the first listed slot with this key and this priority.
FindEntry(k, p) ==
    SelectInSeq(Listed, LAMBDA s : mtEntries[s].key = k /\ mtEntries[s].priority = p)

\* The scan of lookup: an entry replaces the best one so far only if its
\* priority is strictly smaller.
Scan(pkt) ==
    LET list == Listed
        best[i \in 0 .. Len(list)] ==
            IF i = 0 THEN NoSlot
            ELSE IF /\ <<mtEntries[list[i]].key, pkt>> \in MtMatches
                    /\ \/ best[i - 1] = NoSlot
                       \/ mtEntries[list[i]].priority < mtEntries[best[i - 1]].priority
                 THEN list[i] ELSE best[i - 1]
    IN  best[Len(list)]

\* What link holds around slot s after EntryList::add(s): at the head for
\* slot 0, otherwise after slot s - 1.
Spliced(s) ==
    LET prev == IF s = 0 THEN NoSlot ELSE s - 1
        next == IF s = 0 THEN mtHead ELSE mtLink[s - 1].next
    IN  [x \in Slots |->
           IF x = s THEN [prev |-> prev, next |-> next]
           ELSE [prev |-> IF x = next THEN s ELSE mtLink[x].prev,
                 next |-> IF x = prev THEN s ELSE mtLink[x].next]]

\* add: link the slot, drop the cache if it is in use, reconsider its use.
ListAdd(s) ==
    /\ mtLink' = Spliced(s)
    /\ mtHead' = IF s = 0 THEN s ELSE mtHead
    /\ mtCache' = IF mtUseCache THEN << >> ELSE mtCache
    /\ mtUseCache' = (Cardinality(mtUsed) + 1 >= CacheMin)

\* A mutation of ListDelete: it reconsiders the use of the cache before it invalidates it.
ListDeleteLateInvalidate(s) ==
    LET prev == mtLink[s].prev
        next == mtLink[s].next
    IN  /\ mtLink' = [x \in Slots |->
                        [prev |-> IF x = next THEN prev ELSE mtLink[x].prev,
                         next |-> IF x = prev THEN next ELSE mtLink[x].next]]
        /\ mtHead' = IF prev = NoSlot THEN next ELSE mtHead
        /\ mtUseCache' = (Cardinality(mtUsed) - 1 >= CacheMin)
        /\ mtCache' = IF mtUseCache' THEN << >> ELSE mtCache

\* delete_entry: unlink the slot, and the same for the cache.
ListDelete(s) ==
    LET prev == mtLink[s].prev
        next == mtLink[s].next
    IN  /\ mtLink' = [x \in Slots |->
                        [prev |-> IF x = next THEN prev ELSE mtLink[x].prev,
                         next |-> IF x = prev THEN next ELSE mtLink[x].next]]
        /\ mtHead' = IF prev = NoSlot THEN next ELSE mtHead
        /\ mtCache' = IF mtUseCache THEN << >> ELSE mtCache
        /\ mtUseCache' = (Cardinality(mtUsed) - 1 >= CacheMin)

-----------------------------------------------------------------------------
(* TernaryCache *)

CacheIndex(pkt) == SelectInSeq(mtCache, LAMBDA c : c.pkt = pkt)
InCache(pkt) == mtUseCache /\ CacheIndex(pkt) # 0

\* move_to_head
MoveToHead(i) == <<mtCache[i]>> \o RemoveAt(mtCache, i)

\* add: nothing if the key is there already; a full cache loses its tail.
CacheAdd(pkt, s) ==
    IF CacheIndex(pkt) # 0 THEN mtCache
    ELSE <<[pkt |-> pkt, slot |-> s]>> \o
         (IF Len(mtCache) = CacheSize THEN Front(mtCache) ELSE mtCache)

-----------------------------------------------------------------------------
(* The match unit and the table. *)

WriteLock == \A t \in MtThreads : mtReader[t] = Idle

\* get_and_set_handle: HandleMgr returns the smallest free slot, and the
\* table is full when there is none.
FreeSlot == Min(Slots \ mtUsed)

\* add_entry: the slot keeps the version the last delete left in it.
MtAddEntry(k, p, a) ==
    /\ WriteLock
    /\ mtAdds < MtMaxAdds
    /\ FindEntry(k, p) = 0                \* otherwise DUPLICATE_ENTRY
    /\ mtUsed # Slots                     \* otherwise TABLE_FULL
    /\ LET s == FreeSlot
           version == mtEntries[s].version
       IN  /\ mtEntries' = [mtEntries EXCEPT ![s] =
                  [key |-> k, priority |-> p, value |-> a, version |-> version]]
           /\ mtUsed' = mtUsed \cup {s}
           /\ ListAdd(s)
           /\ mtSerial' = [mtSerial EXCEPT ![s] = mtAdds + 1]
           /\ mtIssued' = [mtIssued EXCEPT ![[slot |-> s, version |-> version]] =
                              @ \cup {mtAdds + 1}]
    /\ mtAdds' = mtAdds + 1
    /\ UNCHANGED <<mtDefault, mtReader>>

\* INVALID_HANDLE and EXPIRED_HANDLE are the cases where this fails.
MtValidHandle(h) == h.slot \in mtUsed /\ mtEntries[h.slot].version = h.version

\* A mutation of MtDeleteEntry: it leaves the version alone.
MtDeleteEntrySameVersion(h) ==
    /\ WriteLock
    /\ MtValidHandle(h)
    /\ UNCHANGED mtEntries
    /\ ListDelete(h.slot)
    /\ mtUsed' = mtUsed \ {h.slot}
    /\ UNCHANGED <<mtDefault, mtReader, mtAdds, mtSerial, mtIssued>>

\* delete_entry: the version moves on before the slot is released; the key
\* stays in the slot and is no longer listed.
MtDeleteEntry(h) ==
    /\ WriteLock
    /\ MtValidHandle(h)
    /\ mtEntries' = [mtEntries EXCEPT ![h.slot].version = (@ + 1) % MtVersions]
    /\ ListDelete(Listed[FindEntry(mtEntries[h.slot].key, mtEntries[h.slot].priority)])
    /\ mtUsed' = mtUsed \ {h.slot}
    /\ UNCHANGED <<mtDefault, mtReader, mtAdds, mtSerial, mtIssued>>

\* modify_entry: a new action entry for the same match key; the cache holds
\* slots and need not change.
MtModifyEntry(h, a) ==
    /\ WriteLock
    /\ MtValidHandle(h)
    /\ mtEntries' = [mtEntries EXCEPT ![h.slot].value = a]
    /\ UNCHANGED <<mtUsed, mtLink, mtHead, mtCache, mtUseCache, mtDefault,
                   mtReader, mtAdds, mtSerial, mtIssued>>

\* set_default_action and reset_default_entry.
SetDefaultAction(a) ==
    /\ WriteLock
    /\ mtDefault' = a
    /\ UNCHANGED <<mtEntries, mtUsed, mtLink, mtHead, mtCache, mtUseCache,
                   mtReader, mtAdds, mtSerial, mtIssued>>

MtResetDefaultEntry == SetDefaultAction(MtDefaultDefault)

\* reset_state: versions start again at 0, so every handle a client still has
\* is void from here on (mtIssued forgets them); the cache goes as well.
MtResetState(resetDefault) ==
    /\ WriteLock
    /\ mtAdds > 0
    /\ mtEntries' = [s \in Slots |-> EmptyEntry]
    /\ mtUsed' = {}
    /\ mtHead' = NoSlot
    /\ mtCache' = << >>
    /\ mtUseCache' = (0 >= CacheMin)
    /\ mtDefault' = IF resetDefault THEN MtDefaultDefault ELSE mtDefault
    /\ mtAdds' = 0
    /\ mtSerial' = [s \in Slots |-> 0]
    /\ mtIssued' = [h \in Handles |-> {}]
    /\ UNCHANGED <<mtLink, mtReader>>

\* lookup, first half: an answer of the cache ends it, a match to be cached
\* leaves the thread between the two uses of the cache's mutex.
LookupStart(t, pkt) ==
    /\ mtReader[t] = Idle
    /\ IF InCache(pkt)
       THEN /\ mtCache' = MoveToHead(CacheIndex(pkt))
            /\ UNCHANGED mtReader
       ELSE /\ mtReader' = [mtReader EXCEPT ![t] =
                 IF mtUseCache /\ Scan(pkt) # NoSlot THEN pkt ELSE Idle]
            /\ UNCHANGED mtCache
    /\ UNCHANGED <<mtEntries, mtUsed, mtLink, mtHead, mtUseCache, mtDefault,
                   mtAdds, mtSerial, mtIssued>>

\* lookup, second half: the slot found goes into the cache.
LookupFill(t) ==
    /\ mtReader[t] # Idle
    /\ mtCache' = CacheAdd(mtReader[t], Scan(mtReader[t]))
    /\ mtReader' = [mtReader EXCEPT ![t] = Idle]
    /\ UNCHANGED <<mtEntries, mtUsed, mtLink, mtHead, mtUseCache, mtDefault,
                   mtAdds, mtSerial, mtIssued>>

MtNext ==
    \/ \E k \in MtKeys, p \in MtPriorities, a \in MtActions : MtAddEntry(k, p, a)
    \/ \E h \in Handles : MtDeleteEntry(h)
    \/ \E h \in Handles, a \in MtActions : MtModifyEntry(h, a)
    \/ \E a \in MtActions : SetDefaultAction(a)
    \/ MtResetDefaultEntry
    \/ \E b \in BOOLEAN : MtResetState(b)
    \/ \E t \in MtThreads, pkt \in MtPackets : LookupStart(t, pkt)
    \/ \E t \in MtThreads : LookupFill(t)

MtSpec == MtInit /\ [][MtNext]_mtVars

-----------------------------------------------------------------------------
(* Properties *)

MtTypeOK ==
    /\ mtEntries \in [Slots -> MtEntry]
    /\ mtUsed \subseteq Slots
    /\ mtLink \in [Slots -> [prev : Slots \cup {NoSlot}, next : Slots \cup {NoSlot}]]
    /\ mtHead \in Slots \cup {NoSlot}
    /\ Len(mtCache) =< CacheSize
    /\ \A i \in 1 .. Len(mtCache) : mtCache[i] \in [pkt : MtPackets, slot : Slots]
    /\ mtUseCache \in BOOLEAN
    /\ mtDefault \in MtActions \cup {MtDefaultDefault}
    /\ mtReader \in [MtThreads -> MtPackets \cup {Idle}]
    /\ mtAdds \in 0 .. MtMaxAdds

\* The live entries a packet matches, and the one it should hit: the smallest
\* priority among them, and among equals the smallest slot.
Hits(pkt) == {s \in mtUsed : <<mtEntries[s].key, pkt>> \in MtMatches}
Better(s, r) == \/ mtEntries[s].priority < mtEntries[r].priority
                \/ mtEntries[s].priority = mtEntries[r].priority /\ s =< r
IsBest(pkt, s) == s \in Hits(pkt) /\ \A r \in Hits(pkt) : Better(s, r)
BestMatch(pkt) == IF Hits(pkt) = {} THEN NoSlot ELSE CHOOSE s \in Slots : IsBest(pkt, s)

\* Whatever the history of adds, deletes, resets and lookups, a lookup
\* answered by the list or by the cache returns the best live entry: the list
\* that add threads through slot s - 1 holds exactly the allocated slots (the
\* assumption add states in a comment), and the cache, which is dropped only
\* while it is in use, never serves a deleted or superseded entry.
LookupIsBestMatch ==
    \A pkt \in MtPackets :
        /\ Scan(pkt) = BestMatch(pkt)
        /\ InCache(pkt) => mtCache[CacheIndex(pkt)].slot = BestMatch(pkt)

\* A packet gets the entry that the documented order chooses, through the cache
\* and while entries come and go (match_units.cpp, MatchUnitTernary).
TableLookups == MtTypeOK /\ LookupIsBestMatch

\* A handle a client was given names the entry it was given for or nothing:
\* delete_entry and modify_entry never reach the entry that took over the slot
\* (within MtVersions adds of a slot; reset_state voids all handles).
HandleNamesItsEntry ==
    \A h \in Handles :
        MtValidHandle(h) => mtIssued[h] = {mtSerial[h.slot]}

\* The list goes through the allocated slots in the order of their numbers (the
\* head follows NoSlot), and no key and priority are in two of them.
IsNext(s, n) ==
    /\ n = NoSlot \/ (n \in mtUsed /\ s < n)
    /\ \A r \in mtUsed : s < r => n # NoSlot /\ n =< r
IsPrev(s, p) ==
    /\ p = NoSlot \/ (p \in mtUsed /\ p < s)
    /\ \A r \in mtUsed : r < s => r =< p
ListInv ==
    /\ IsNext(NoSlot, mtHead)
    /\ \A s \in mtUsed : IsNext(s, mtLink[s].next) /\ IsPrev(s, mtLink[s].prev)
    /\ \A s, r \in mtUsed :
          mtEntries[s].key = mtEntries[r].key /\ mtEntries[s].priority = mtEntries[r].priority
            => s = r

\* The cache is empty while it is not in use, holds best matches only, and a thread
\* about to fill it has found one.
CacheInv ==
    /\ mtCache \in Seq([pkt : MtPackets, slot : Slots])
    /\ \A i \in 1 .. Len(mtCache) : IsBest(mtCache[i].pkt, mtCache[i].slot)
    /\ ~mtUseCache => mtCache = << >>
    /\ \A t \in MtThreads : mtReader[t] # Idle => mtUseCache /\ Hits(mtReader[t]) # {}

\* Why lookups return the best match.
LookupInv == MtTypeOK /\ ListInv /\ CacheInv

\* Slot s is free and no add is left that could take it.
Spent(s) == s \notin mtUsed /\ mtAdds = MtMaxAdds

\* Why HandleNamesItsEntry holds: a slot has had one add for every version it
\* has been through, so its version cannot come back before the adds are used
\* up, and none of the versions it has yet to reach was ever given to a client.
HandleInv ==
    /\ mtEntries \in [Slots -> MtEntry]
    /\ mtUsed \subseteq Slots
    /\ mtAdds \in 0 .. MtMaxAdds
    /\ mtSerial \in [Slots -> Nat]
    /\ mtIssued \in [Handles -> SUBSET Nat]
    /\ \A s \in Slots : ~Spent(s) =>
         /\ mtEntries[s].version =< mtAdds
         /\ s \in mtUsed => mtEntries[s].version < mtAdds
         /\ \A v \in mtEntries[s].version .. MtVersions - 1 :
              mtIssued[[slot |-> s, version |-> v]] =
                IF s \in mtUsed /\ v = mtEntries[s].version THEN {mtSerial[s]} ELSE {}

=============================================================================
