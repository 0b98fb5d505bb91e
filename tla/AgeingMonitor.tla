---------------------------- MODULE AgeingMonitor ----------------------------
(***************************************************************************)
(* The ageing monitor (ageing.cpp) and the part of the match units it reads *)
(* (EntryMeta, set_entry_ttl, sweep_entries).  The sweep thread goes over   *)
(* the tables with ageing one after the other, using one pair of scratch    *)
(* vectors for all of them; clients and packets change the tables between   *)
(* two tables of a sweep as well as between sweeps.                         *)
(***************************************************************************)
EXTENDS Integers, Sequences, FiniteSets

CONSTANTS
    AgeTables,      \* the tables with ageing, in the order of their ids
    AgeSlots,       \* the pairs <<table, slot>>
    AgeTtls,        \* timeouts clients set; 0 is none
    AgeMaxIdle,     \* bound: the longest idle time told apart
    AgeVersions     \* versions of a slot

Tables == {AgeTables[i] : i \in 1 .. Len(AgeTables)}

\* Without a table a sweep does nothing.
ASSUME AgeAssumption ==
    /\ AgeTables \in Seq(Tables) /\ Len(AgeTables) > 0
    /\ AgeTtls \subseteq Nat
    /\ AgeMaxIdle \in Nat
    /\ AgeVersions \in Nat \ {0}
    /\ \A x \in AgeSlots : x[1] \in Tables

VARIABLES
    ageLive,        \* the allocated slots
    ageVersion,     \* version of every slot
    ageTtl,         \* timeout_ms of every slot's EntryMeta
    ageIdle,        \* now - ts of every slot's EntryMeta
    agePrev,        \* prev_sweep_entries of every table
    ageTmp,         \* entries_tmp
    ageEntries,     \* entries
    ageAt,          \* index of the table the sweep is at; 0 between sweeps
    ageExpired,     \* what the last sweep found expired, by table
    ageNotified     \* what the last sweep notified, by table

ageVars == <<ageLive, ageVersion, ageTtl, ageIdle, agePrev, ageTmp, ageEntries,
             ageAt, ageExpired, ageNotified>>
ageTable == <<ageLive, ageVersion, ageTtl, ageIdle>>
ageMonitor == <<agePrev, ageTmp, ageEntries, ageAt, ageExpired, ageNotified>>

AgeHandle(x) == [slot |-> x[2], version |-> ageVersion[x]]
AgeHandles == [slot : {x[2] : x \in AgeSlots}, version : 0 .. AgeVersions - 1]

AgeInit ==
    /\ ageLive = {}
    /\ ageVersion = [x \in AgeSlots |-> 0]
    /\ ageTtl = [x \in AgeSlots |-> 0]
    /\ ageIdle = [x \in AgeSlots |-> 0]
    /\ agePrev = [t \in Tables |-> {}]
    /\ ageTmp = {}
    /\ ageEntries = {}
    /\ ageAt = 0
    /\ ageExpired = [t \in Tables |-> {}]
    /\ ageNotified = [t \in Tables |-> {}]

-----------------------------------------------------------------------------
(* The tables *)

\* add_entry: EntryMeta::reset restarts the timestamp; it does not touch
\* timeout_ms, so a slot passes its timeout on to its next entry.
AgeAdd(x) ==
    /\ x \notin ageLive
    /\ ageLive' = ageLive \cup {x}
    /\ ageIdle' = [ageIdle EXCEPT ![x] = 0]
    /\ UNCHANGED <<ageVersion, ageTtl, ageMonitor>>

\* delete_entry: the version moves on.
AgeDelete(x) ==
    /\ x \in ageLive
    /\ ageLive' = ageLive \ {x}
    /\ ageVersion' = [ageVersion EXCEPT ![x] = (@ + 1) % AgeVersions]
    /\ UNCHANGED <<ageTtl, ageIdle, ageMonitor>>

\* set_entry_ttl: whatever the version in the handle, and from now.
AgeSetTtl(x, ttl) ==
    /\ x \in ageLive
    /\ ageTtl' = [ageTtl EXCEPT ![x] = ttl]
    /\ ageIdle' = [ageIdle EXCEPT ![x] = 0]
    /\ UNCHANGED <<ageLive, ageVersion, ageMonitor>>

\* lookup: update_ts of the entry that is hit.
AgeHit(x) ==
    /\ x \in ageLive
    /\ ageIdle[x] > 0
    /\ ageIdle' = [ageIdle EXCEPT ![x] = 0]
    /\ UNCHANGED <<ageLive, ageVersion, ageTtl, ageMonitor>>

\* Time passes.
AgeTick ==
    /\ \E x \in ageLive : ageIdle[x] < AgeMaxIdle
    /\ ageIdle' = [x \in AgeSlots |->
                     IF x \in ageLive /\ ageIdle[x] < AgeMaxIdle
                     THEN ageIdle[x] + 1 ELSE ageIdle[x]]
    /\ UNCHANGED <<ageLive, ageVersion, ageTtl, ageMonitor>>

-----------------------------------------------------------------------------
(* The monitor *)

\* sweep_entries, under the table's read lock.
Expired(t) == {AgeHandle(x) : x \in {y \in ageLive :
                 y[1] = t /\ ageTtl[y] > 0 /\ ageIdle[y] >= ageTtl[y]}}

\* sweep_loop: the next sweep begins (the interval is over, or a wake-up).
SweepBegin ==
    /\ ageAt = 0
    /\ ageAt' = 1
    /\ UNCHANGED <<ageTable, agePrev, ageTmp, ageEntries, ageExpired, ageNotified>>

\* A mutation of SweepTable: prev_sweep_entries keeps what it had.
SweepTableKeepsPrev ==
    LET t == AgeTables[ageAt]
        tmp == ageTmp \cup Expired(t)
        entries == ageEntries \cup (tmp \ agePrev[t])
    IN  /\ ageAt # 0
        /\ ageTmp' = {}
        /\ ageEntries' = IF tmp = {} THEN ageEntries ELSE {}
        /\ agePrev' = [agePrev EXCEPT ![t] =
              IF tmp = {} THEN {} ELSE @ \cup entries]
        /\ ageExpired' = [ageExpired EXCEPT ![t] = Expired(t)]
        /\ ageNotified' = [ageNotified EXCEPT ![t] = IF tmp = {} THEN {} ELSE entries]
        /\ ageAt' = (ageAt + 1) % (Len(AgeTables) + 1)
        /\ UNCHANGED ageTable

\* do_sweep for one table: what is expired and was not reported by the last
\* sweep is reported, and prev_sweep_entries becomes what is reported now.
SweepTable ==
    LET t == AgeTables[ageAt]
        tmp == ageTmp \cup Expired(t)
        entries == ageEntries \cup (tmp \ agePrev[t])
    IN  /\ ageAt # 0
        /\ ageTmp' = {}
        /\ ageEntries' = IF tmp = {} THEN ageEntries ELSE {}
        /\ agePrev' = [agePrev EXCEPT ![t] = IF tmp = {} THEN {} ELSE entries]
        /\ ageExpired' = [ageExpired EXCEPT ![t] = Expired(t)]
        /\ ageNotified' = [ageNotified EXCEPT ![t] = IF tmp = {} THEN {} ELSE entries]
        /\ ageAt' = (ageAt + 1) % (Len(AgeTables) + 1)
        /\ UNCHANGED ageTable

\* reset_state: under the mutex, so between two sweeps.
AgeResetState ==
    /\ ageAt = 0
    /\ \E t \in Tables : agePrev[t] # {}
    /\ agePrev' = [t \in Tables |-> {}]
    /\ ageTmp' = {}
    /\ ageEntries' = {}
    /\ ageExpired' = [t \in Tables |-> {}]
    /\ ageNotified' = [t \in Tables |-> {}]
    /\ UNCHANGED <<ageTable, ageAt>>

AgeNext ==
    \/ \E x \in AgeSlots : AgeAdd(x) \/ AgeDelete(x) \/ AgeHit(x)
    \/ \E x \in AgeSlots, ttl \in AgeTtls : AgeSetTtl(x, ttl)
    \/ AgeTick
    \/ SweepBegin \/ SweepTable
    \/ AgeResetState

AgeSpec == AgeInit /\ [][AgeNext]_ageVars

-----------------------------------------------------------------------------
(* Properties *)

AgeTypeOK ==
    /\ ageLive \subseteq AgeSlots
    /\ ageVersion \in [AgeSlots -> 0 .. AgeVersions - 1]
    /\ ageTtl \in [AgeSlots -> AgeTtls \cup {0}]
    /\ ageIdle \in [AgeSlots -> 0 .. AgeMaxIdle]
    /\ agePrev \in [Tables -> SUBSET AgeHandles]
    /\ ageTmp \subseteq AgeHandles /\ ageEntries \subseteq AgeHandles
    /\ ageAt \in 0 .. Len(AgeTables)

\* An entry that two sweeps in a row find expired is reported by exactly one of
\* them ("every other sweep interval", docs/simple_switch.md:1102), whatever
\* other entries of the table expire in between, and a sweep reports for a
\* table nothing but entries of that table it has just found expired.
ReportedEveryOtherSweep ==
    \A t \in Tables :
       ageAt # 0 /\ AgeTables[ageAt] = t /\ ageAt' # ageAt =>
         /\ ageNotified'[t] \subseteq ageExpired'[t]
         /\ \A h \in ageExpired[t] \cap ageExpired'[t] :
               h \in ageNotified[t] <=> h \notin ageNotified'[t]

\* An entry that stays expired is notified every other sweep (ageing.cpp).
SweepsSound == [][AgeTypeOK' /\ ReportedEveryOtherSweep]_ageVars

-----------------------------------------------------------------------------
(* The inductive invariant behind SweepsSound.                             *)

\* Between two tables the scratch vectors are empty, and what a table's sweep
\* notified last is what the next sweep of that table leaves out.
SweepInv ==
    /\ AgeTypeOK
    /\ ageTmp = {} /\ ageEntries = {}
    /\ ageExpired \in [Tables -> SUBSET AgeHandles] /\ ageNotified = agePrev
    /\ \A t \in Tables : agePrev[t] \subseteq ageExpired[t]
=============================================================================
