--------------------------- MODULE EntryCounters ---------------------------
(***************************************************************************)
(* The direct counters of a match table: Counter (counters.h,              *)
(* counters.cpp), the EntryMeta of every slot (match_units.h) and the       *)
(* requests of MatchTableAbstract (match_tables.cpp).  A Counter is two     *)
(* atomics, bytes and packets, that are changed and read one after the      *)
(* other.  Packets and queries hold the table's lock for reading, adding,   *)
(* deleting and writing hold it for writing, and reset_counters holds no    *)
(* lock at all.  Requests find the slot by the handle's index and do not    *)
(* compare its version, so a request is made to a slot here.                *)
(***************************************************************************)
EXTENDS MatchTable

CONSTANTS
  CtSize,         \* slots of the table
  CtThreads,      \* packet threads
  CtLens,         \* lengths of packets
  CtMaxHits,      \* bound on packets
  CtMaxRequests   \* bound on the requests that write, reset, add or delete

ASSUME CtAssumption ==
  /\ CtSize \in Nat \ {0} /\ CtLens \subseteq Nat /\ IsFiniteSet(CtThreads)
  /\ CtMaxHits \in Nat /\ CtMaxRequests \in Nat

VARIABLES
  ctLive,         \* slots in use
  ctValue,        \* each slot's bytes and packets
  ctThread,       \* each packet thread: the slot it has added bytes to, or none
  ctQuery,        \* the query in progress: its slot, the bytes it has read
  ctReset,        \* reset_counters: the slot it is at, its bytes zeroed or not
  ctAnswer,       \* the last answer to a query, with its bounds (history)
  ctTrue,         \* what was counted since the slot was set (history)
  ctRaced,        \* reset_counters met another thread at a slot (history)
  ctHits, ctRequests

ctVars == <<ctLive, ctValue, ctThread, ctQuery, ctReset, ctAnswer, ctTrue, ctRaced,
            ctHits, ctRequests>>

CtSlots == 0 .. CtSize - 1
CtNone == CtSize                    \* no slot
CtZero == [bytes |-> 0, packets |-> 0]
NoQuery == [slot |-> CtNone, bytes |-> 0, from |-> CtZero]
NoReset == [slot |-> CtNone, half |-> FALSE]

CtInit ==
  /\ ctLive = {}
  /\ ctValue = [s \in CtSlots |-> CtZero] /\ ctTrue = ctValue
  /\ ctThread = [t \in CtThreads |-> CtNone]
  /\ ctQuery = NoQuery /\ ctReset = NoReset
  /\ ctAnswer = [read |-> CtZero, from |-> CtZero, to |-> CtZero]
  /\ ctRaced = FALSE /\ ctHits = 0 /\ ctRequests = 0

-----------------------------------------------------------------------------
\* lock_write is free: no packet and no query is in the table.
Unlocked == ctQuery = NoQuery /\ \A t \in CtThreads : ctThread[t] = CtNone

\* Threads between the two additions of increment_counter, at slot s.
CtHalf(s) == Cardinality({t \in CtThreads : ctThread[t] = s})
Finished(s) == [bytes |-> ctTrue[s].bytes, packets |-> ctTrue[s].packets - CtHalf(s)]

\* The reset is between its two stores at slot s.
ResetHalf(s) == ctReset.slot = s /\ ctReset.half
Request == ctRequests < CtMaxRequests /\ ctRequests' = ctRequests + 1

\* A new value for slot s, from zero or from the client.
SetSlot(s, v) ==
  /\ ctValue' = [ctValue EXCEPT ![s] = v]
  /\ ctTrue' = [ctTrue EXCEPT ![s] = v]
  /\ ctRaced' = (ctRaced \/ ResetHalf(s))

\* MatchUnitAbstract::add_entry: the slot's EntryMeta is reset.
CtAddEntry(s) ==
  /\ Unlocked /\ s \notin ctLive /\ Request
  /\ ctLive' = ctLive \cup {s}
  /\ SetSlot(s, CtZero)
  /\ UNCHANGED <<ctThread, ctQuery, ctReset, ctAnswer, ctHits>>

\* delete_entry leaves the EntryMeta as it is.
CtDeleteEntry(s) ==
  /\ Unlocked /\ s \in ctLive /\ Request
  /\ ctLive' = ctLive \ {s}
  /\ UNCHANGED <<ctValue, ctTrue, ctRaced, ctThread, ctQuery, ctReset, ctAnswer, ctHits>>

\* MatchUnitAbstract::lookup with a hit: increment_counter, bytes first.
CountBytes(t, s, len) ==
  /\ ctThread[t] = CtNone /\ s \in ctLive
  /\ ctHits < CtMaxHits /\ ctHits' = ctHits + 1
  /\ ctThread' = [ctThread EXCEPT ![t] = s]
  /\ ctValue' = [ctValue EXCEPT ![s].bytes = @ + len]
  /\ ctTrue' = [ctTrue EXCEPT ![s] = [bytes |-> @.bytes + len, packets |-> @.packets + 1]]
  /\ ctRaced' = (ctRaced \/ ResetHalf(s))
  /\ UNCHANGED <<ctLive, ctQuery, ctReset, ctAnswer, ctRequests>>

CountPackets(t) ==
  /\ ctThread[t] # CtNone
  /\ ctThread' = [ctThread EXCEPT ![t] = CtNone]
  /\ ctValue' = [ctValue EXCEPT ![ctThread[t]].packets = @ + 1]
  /\ UNCHANGED <<ctLive, ctQuery, ctReset, ctAnswer, ctTrue, ctRaced, ctHits, ctRequests>>

\* query_counters: query_counter reads bytes, then packets.
QueryBytes(s) ==
  /\ ctQuery = NoQuery /\ s \in ctLive
  /\ ctQuery' = [slot |-> s, bytes |-> ctValue[s].bytes, from |-> Finished(s)]
  /\ ctRaced' = (ctRaced \/ ResetHalf(s))
  /\ UNCHANGED <<ctLive, ctValue, ctThread, ctReset, ctAnswer, ctTrue, ctHits, ctRequests>>

QueryPackets ==
  LET s == ctQuery.slot
  IN /\ ctQuery # NoQuery
     /\ ctAnswer' = [read |-> [bytes |-> ctQuery.bytes, packets |-> ctValue[s].packets],
                     from |-> ctQuery.from, to |-> ctTrue[s]]
     /\ ctQuery' = NoQuery
     /\ UNCHANGED <<ctLive, ctValue, ctThread, ctReset, ctTrue, ctRaced, ctHits, ctRequests>>

\* write_counters, under the write lock.
WriteCounters(s, v) ==
  /\ Unlocked /\ s \in ctLive /\ Request
  /\ SetSlot(s, v)
  /\ UNCHANGED <<ctLive, ctThread, ctQuery, ctReset, ctAnswer, ctHits>>

\* reset_counters goes over all the slots, used or not, without a lock.
ResetBegin ==
  /\ ctReset = NoReset /\ Request
  /\ ctReset' = [slot |-> 0, half |-> FALSE]
  /\ UNCHANGED <<ctLive, ctValue, ctThread, ctQuery, ctAnswer, ctTrue, ctRaced, ctHits>>

ResetBytes ==
  LET s == ctReset.slot
  IN /\ ctReset # NoReset /\ ~ctReset.half
     /\ ctReset' = [ctReset EXCEPT !.half = TRUE]
     /\ ctValue' = [ctValue EXCEPT ![s].bytes = 0]
     /\ ctTrue' = [ctTrue EXCEPT ![s] = CtZero]
     /\ ctRaced' = (ctRaced \/ CtHalf(s) > 0 \/ ctQuery.slot = s)
     /\ UNCHANGED <<ctLive, ctThread, ctQuery, ctAnswer, ctHits, ctRequests>>

ResetPackets ==
  LET s == ctReset.slot
  IN /\ ctReset.half
     /\ ctReset' = [slot |-> s + 1, half |-> FALSE]
     /\ ctValue' = [ctValue EXCEPT ![s].packets = 0]
     /\ UNCHANGED <<ctLive, ctThread, ctQuery, ctAnswer, ctTrue, ctRaced, ctHits, ctRequests>>

CtNext ==
  \/ \E s \in CtSlots : CtAddEntry(s) \/ CtDeleteEntry(s) \/ QueryBytes(s)
  \/ \E s \in CtSlots, b \in CtLens : WriteCounters(s, [bytes |-> b, packets |-> 1])
  \/ \E t \in CtThreads, s \in CtSlots, len \in CtLens : CountBytes(t, s, len)
  \/ \E t \in CtThreads : CountPackets(t)
  \/ QueryPackets \/ ResetBegin \/ ResetBytes \/ ResetPackets

CtSpec == CtInit /\ [][CtNext]_ctVars

-----------------------------------------------------------------------------
CtTypeOK ==
  /\ ctLive \subseteq CtSlots /\ ctReset.slot \in CtSlots \cup {CtNone}
  /\ \A s \in CtSlots : ctValue[s].bytes \in Nat /\ ctValue[s].packets \in Nat
  /\ \A t \in CtThreads : ctThread[t] \in CtSlots \cup {CtNone}

Between(x, low, high) == low <= x /\ x <= high

\* Unless reset_counters, which takes no lock, has met a packet, a query or a
\* write at a slot: an entry's counter holds what its own packets added since
\* the entry was added or its counter was set, whoever had the slot before
\* ("Increments both counter values", counters.h), and a query answers with no
\* less than was finished when it began and no more than was begun when it
\* ended.
CountersExact ==
  ~ctRaced =>
    /\ \A s \in ctLive :
         /\ ctValue[s].bytes = ctTrue[s].bytes
         /\ ~ResetHalf(s) => ctValue[s].packets + CtHalf(s) = ctTrue[s].packets
    /\ Between(ctAnswer.read.bytes, ctAnswer.from.bytes, ctAnswer.to.bytes)
    /\ Between(ctAnswer.read.packets, ctAnswer.from.packets, ctAnswer.to.packets)

\* A slot that is used again belongs to its new entry alone: a handle a client
\* keeps names its own entry or none (match_units.cpp versions), and the counter
\* of an entry counts its own packets (counters.cpp, EntryMeta).
TableHandles == HandleNamesItsEntry /\ CtTypeOK /\ CountersExact

-----------------------------------------------------------------------------
(* Why CountersExact holds.                                                *)
CtCounts == [bytes : Nat, packets : Nat]

CtTypes ==
  /\ ctLive \subseteq CtSlots
  /\ ctValue \in [CtSlots -> CtCounts] /\ ctTrue \in [CtSlots -> CtCounts]
  /\ ctThread \in [CtThreads -> CtSlots \cup {CtNone}]
  /\ ctReset \in [slot : CtSlots \cup {CtNone}, half : BOOLEAN]
  /\ ctReset.half => ctReset.slot \in CtSlots
  /\ ctQuery.slot = CtNone => ctQuery = NoQuery
  /\ ctRaced \in BOOLEAN

\* Packets and queries hold the lock, so their slots stay in use.
LockKeepsSlots ==
  /\ \A t \in CtThreads : ctThread[t] # CtNone => ctThread[t] \in ctLive
  /\ ctQuery.slot # CtNone => ctQuery.slot \in ctLive

\* Between the two stores of the reset nobody is at its slot.
ResetAlone ==
  ctReset.half => LET s == ctReset.slot
                  IN ctTrue[s] = CtZero /\ CtHalf(s) = 0 /\ ctQuery.slot # s

\* What a query has read so far is no less than it has to answer, and no more
\* than it may.
QueryInBounds ==
  LET s == ctQuery.slot
  IN s # CtNone =>
       /\ ctQuery.bytes \in Nat /\ ctQuery.from \in CtCounts
       /\ Between(ctQuery.bytes, ctQuery.from.bytes, ctTrue[s].bytes)
       /\ ctQuery.from.packets =< ctValue[s].packets

CtInv ==
  /\ CtTypes /\ LockKeepsSlots
  /\ CountersExact
  /\ ~ctRaced => ResetAlone /\ QueryInBounds

=============================================================================
