------------------------------ MODULE PiTables ------------------------------
(***************************************************************************)
(* The PI (P4Runtime) implementation of table entries, pi_tables_imp.cpp:  *)
(* the calls of the clients' threads are sequences of calls to the switch, *)
(* each under the lock of the table, with nothing held in between.  A call *)
(* "with key" finds the handle first and uses it afterwards; a fetch takes *)
(* the entries first and their direct counters afterwards.                 *)
(*                                                                         *)
(* Table "T" has a ternary key and actions, table "W" an exact key and the *)
(* members and groups of an action profile with a selector.                *)
(***************************************************************************)
EXTENDS Integers, Sequences, FiniteSets, FiniteSetsExt, SequencesExt

CONSTANTS
  PiThreads,      \* the threads of the PI server
  PiCalls,        \* the calls they make: [op, tbl, key, prio, act, ttl, bytes]
  PiSlots,        \* the size of a table
  PiMaxPrio,      \* BM_MAX_PRIORITY
  PiHandleBits,   \* the width of an indirect handle
  PiBytes,        \* the number of bytes of the action parameter
  PiConstDefault, \* the const default action of "T", or "none"
  PiMaxCalls, PiMaxCount    \* bounds: calls made, packets counted

VARIABLES
  piEntries,      \* [table -> [slot -> the entry as the switch keeps it]]
  piVersion,      \* [table -> [slot -> version]]
  piMeta,         \* [table -> [slot -> [ttl, bytes, packets]]]
  piDefault,      \* [table -> the default entry: act as the switch keeps it, by
                  \*  the client's action (history)]
  piWriter,       \* [table -> [slot -> the key, priority and action a client
                  \*  gave for the entry]] (history)
  piThread,       \* [thread -> its call]
  piMade          \* how many calls were made

piVars == <<piEntries, piVersion, piMeta, piDefault, piWriter, piThread, piMade>>

PiTabs == {"T", "W"}
PiSlotSet == 0..PiSlots - 1
PiNoEntry == [key |-> "none", prio |-> 0, act |-> <<>>]
PiNoDefault == [act |-> <<>>, by |-> "none"]
PiCalling(p, c, h, o) == [pc |-> p, call |-> c, h |-> h, out |-> o, at |-> 1]
PiIdleThread == PiCalling("idle", <<>>, <<>>, <<>>)

PiInit ==
  /\ piEntries = [tb \in PiTabs |-> [s \in PiSlotSet |-> PiNoEntry]]
  /\ piVersion = [tb \in PiTabs |-> [s \in PiSlotSet |-> 0]]
  /\ piMeta = [tb \in PiTabs |-> [s \in PiSlotSet |-> [ttl |-> 0, bytes |-> 0, packets |-> 0]]]
  /\ piDefault = [tb \in PiTabs |-> PiNoDefault]
  /\ piWriter = [tb \in PiTabs |-> [s \in PiSlotSet |-> <<>>]]
  /\ piThread = [t \in PiThreads |-> PiIdleThread]
  /\ piMade = 0

-----------------------------------------------------------------------------
(* Between the formats of PI and of the switch. *)

\* IndirectHMgr: the top bit of a handle says that it names a group.
PiGrpPrefix == 2 ^ (PiHandleBits - 1)
PiIsGrpH(h) == h >= PiGrpPrefix
PiMakeGrpH(h) == IF PiIsGrpH(h) THEN h ELSE h + PiGrpPrefix
PiClearGrpH(h) == IF PiIsGrpH(h) THEN h - PiGrpPrefix ELSE h
BmMaxHandle == PiGrpPrefix - 1

\* build_action_data: the Data of a parameter has no leading zero bytes.
PiBuildActionData(d) ==
  LET ones == {i \in 1..Len(d) : d[i] # 0}
  IN IF ones = {} THEN <<0>> ELSE SubSeq(d, Min(ones), Len(d))

\* dump_action_data pads to the width of the parameter.
PiDumpActionData(v) == [i \in 1..PiBytes - Len(v) |-> 0] \o v

\* PriorityInverter, build_key: only a key with a ternary field has a priority.
PiToBmPriority(tb, p) == IF tb = "T" THEN PiMaxPrio - p ELSE -1

BmToPiPriority(p) == IF p = -1 THEN 0 ELSE PiMaxPrio - p

\* add_entry, add_indirect_entry: what the switch is given for an action.
PiBuildAction(tb, act) ==
  CASE tb = "T" -> [fn |-> act.fn, data |-> PiBuildActionData(act.data)]
    [] tb = "W" /\ PiIsGrpH(act) -> [mbr |-> BmMaxHandle, grp |-> PiClearGrpH(act)]
    [] OTHER -> [mbr |-> act, grp |-> BmMaxHandle]

\* build_action_entry, build_action_entry_2: the way back.
PiActionEntry(tb, act) ==
  CASE tb = "T" -> [fn |-> act.fn, data |-> PiDumpActionData(act.data)]
    [] tb = "W" /\ act.mbr < act.grp -> act.mbr
    [] OTHER -> PiMakeGrpH(act.grp)

\* emit_entries, emit_match_key: one entry of a fetch; its counter comes later.
PiEmit(tb, s) ==
  LET e == piEntries[tb][s]
  IN [h |-> <<s, piVersion[tb][s]>>, key |-> e.key, prio |-> BmToPiPriority(e.prio),
      act |-> PiActionEntry(tb, e.act), counter |-> -1]

\* get_default_entry: the default entry as a client reads it.
PiGetDefault(tb) ==
  IF piDefault[tb].act = <<>> THEN "none" ELSE PiActionEntry(tb, piDefault[tb].act)

\* An action a client may write: one parameter of PiBytes bytes, or the handle of
\* a member or a group.  The switch has no member with the largest handle.
PiActOk(tb, act) ==
  IF tb = "T"
  THEN /\ act = [fn |-> act.fn, data |-> act.data]
       /\ act.data \in Seq(Nat) /\ Len(act.data) = PiBytes
  ELSE act \in 0..2 * PiGrpPrefix - 1 /\ act # BmMaxHandle

ASSUME PiAssumption ==
  /\ IsFiniteSet(PiThreads) /\ PiSlots \in Nat /\ PiMaxPrio \in Nat
  /\ PiBytes \in Nat \ {0} /\ PiMaxCalls \in Nat /\ PiMaxCount \in Nat
  /\ PiGrpPrefix \in Nat \ {0}
  /\ \A c \in PiCalls :
       /\ c.tbl \in PiTabs /\ c.prio \in Nat /\ c.ttl \in Nat /\ c.bytes \in Int
       /\ c.op \in {"add", "modify", "set_default"} => PiActOk(c.tbl, c.act)

-----------------------------------------------------------------------------
(* The table of the switch. *)

PiUsed(tb) == {s \in PiSlotSet : piEntries[tb][s] # PiNoEntry}
PiValidHandle(tb, h) == h[1] \in PiUsed(tb) /\ piVersion[tb][h[1]] = h[2]

\* get_entry_handle_from_key: the slot that holds the key and the priority.
PiSlotOf(c) ==
  {s \in PiUsed(c.tbl) : /\ piEntries[c.tbl][s].key = c.key
                         /\ piEntries[c.tbl][s].prio = PiToBmPriority(c.tbl, c.prio)}

PiStep(t, r) == piThread' = [piThread EXCEPT ![t] = r]
PiGo(t, pc) == PiStep(t, [piThread[t] EXCEPT !.pc = pc])

PiMayCall(t, c, op) ==
  /\ piThread[t].pc = "idle" /\ piMade < PiMaxCalls
  /\ c.op = op
  /\ piMade' = piMade + 1

\* The check of the priority in every call with a key but fetch.
PiPriorityOk(c) == c.prio <= PiMaxPrio

-----------------------------------------------------------------------------
(* The calls. *)

\* _pi_table_entry_add: the entry goes in, its time to live and its counter
\* follow.  The counters of the slot start at 0, its time to live does not.
PiAdd(t, c) ==
  LET s == Min(PiSlotSet \ PiUsed(c.tbl))
  IN /\ PiMayCall(t, c, "add")
     /\ PiPriorityOk(c)
     /\ PiSlotOf(c) = {} /\ PiUsed(c.tbl) # PiSlotSet
     /\ piEntries' = [piEntries EXCEPT ![c.tbl][s] =
          [key |-> c.key, prio |-> PiToBmPriority(c.tbl, c.prio),
           act |-> PiBuildAction(c.tbl, c.act)]]
     /\ piWriter' = [piWriter EXCEPT ![c.tbl][s] =
          [key |-> c.key, prio |-> c.prio, act |-> c.act]]
     /\ piMeta' = [piMeta EXCEPT ![c.tbl][s].bytes = 0, ![c.tbl][s].packets = 0]
     /\ PiStep(t, PiCalling("ttl", c, <<s, piVersion[c.tbl][s]>>, <<>>))
     /\ UNCHANGED <<piVersion, piDefault>>

\* set_ttl, set_indirect_ttl: the switch looks at the slot of the handle only.
PiSetTtl(t) ==
  LET c == piThread[t].call
      s == piThread[t].h[1]
      set == c.ttl # 0 /\ s \in PiUsed(c.tbl)
  IN /\ piThread[t].pc = "ttl"
     /\ PiGo(t, IF c.ttl # 0 /\ ~set THEN "idle" ELSE "direct")
     /\ piMeta' = IF set THEN [piMeta EXCEPT ![c.tbl][s].ttl = c.ttl] ELSE piMeta
     /\ UNCHANGED <<piEntries, piVersion, piDefault, piWriter, piMade>>

\* set_direct_resources, with at most one direct counter: the same.
PiSetDirect(t) ==
  LET c == piThread[t].call
      s == piThread[t].h[1]
  IN /\ piThread[t].pc = "direct"
     /\ PiGo(t, "idle")
     /\ piMeta' = IF c.bytes >= 0 /\ s \in PiUsed(c.tbl)
                  THEN [piMeta EXCEPT ![c.tbl][s].bytes = c.bytes, ![c.tbl][s].packets = 0]
                  ELSE piMeta
     /\ UNCHANGED <<piEntries, piVersion, piDefault, piWriter, piMade>>

\* The first half of _pi_table_entry_{delete,modify}_wkey, _entries_fetch_wkey.
PiFindHandle(t, c) ==
  /\ \E op \in {"delete", "modify", "fetch"} : PiMayCall(t, c, op)
  /\ PiPriorityOk(c)
  /\ IF PiSlotOf(c) = {}
     THEN PiStep(t, PiCalling("idle", c, <<>>, <<>>))
     ELSE LET s == CHOOSE x \in PiSlotOf(c) : TRUE
          IN PiStep(t, PiCalling(c.op, c, <<s, piVersion[c.tbl][s]>>, <<>>))
  /\ UNCHANGED <<piEntries, piVersion, piMeta, piDefault, piWriter>>

\* A mutation of PiDelete: the version of the handle is not looked at.
PiDeleteSlot(t) ==
  LET tb == piThread[t].call.tbl
      h == piThread[t].h
  IN /\ piThread[t].pc = "delete"
     /\ PiGo(t, "idle")
     /\ IF h[1] \in PiUsed(tb)
        THEN /\ piEntries' = [piEntries EXCEPT ![tb][h[1]] = PiNoEntry]
             /\ piVersion' = [piVersion EXCEPT ![tb][h[1]] = @ + 1]
        ELSE UNCHANGED <<piEntries, piVersion>>
     /\ UNCHANGED <<piMeta, piDefault, piWriter, piMade>>

\* _pi_table_entry_delete
PiDelete(t) ==
  LET tb == piThread[t].call.tbl
      h == piThread[t].h
  IN /\ piThread[t].pc = "delete"
     /\ PiGo(t, "idle")
     /\ IF PiValidHandle(tb, h)
        THEN /\ piEntries' = [piEntries EXCEPT ![tb][h[1]] = PiNoEntry]
             /\ piVersion' = [piVersion EXCEPT ![tb][h[1]] = @ + 1]
        ELSE UNCHANGED <<piEntries, piVersion>>
     /\ UNCHANGED <<piMeta, piDefault, piWriter, piMade>>

\* modify_entry, modify_indirect_entry
PiModifyEntry(tb, s, act) ==
  /\ piEntries' = [piEntries EXCEPT ![tb][s].act = PiBuildAction(tb, act)]
  /\ piWriter' = [piWriter EXCEPT ![tb][s].act = act]

\* _pi_table_entry_modify: the action, then the time to live and the counter.
PiModify(t) ==
  LET c == piThread[t].call
      h == piThread[t].h
  IN /\ piThread[t].pc = "modify"
     /\ IF PiValidHandle(c.tbl, h)
        THEN PiModifyEntry(c.tbl, h[1], c.act) /\ PiGo(t, "ttl")
        ELSE PiGo(t, "idle") /\ UNCHANGED <<piEntries, piWriter>>
     /\ UNCHANGED <<piVersion, piMeta, piDefault, piMade>>

\* get_entry, _pi_table_entries_fetch_one: the entry of the handle.
PiFetchOne(t) ==
  LET tb == piThread[t].call.tbl
      h == piThread[t].h
  IN /\ piThread[t].pc = "fetch"
     /\ IF PiValidHandle(tb, h)
        THEN PiStep(t, [piThread[t] EXCEPT !.pc = "counter", !.out = <<PiEmit(tb, h[1])>>])
        ELSE PiGo(t, "idle")
     /\ UNCHANGED <<piEntries, piVersion, piMeta, piDefault, piWriter, piMade>>

\* get_entries: all of them under one lock.
PiFetchAll(t, c) ==
  LET slots == SetToSortSeq(PiUsed(c.tbl), <)
  IN /\ PiMayCall(t, c, "fetch_all")
     /\ PiStep(t, PiCalling(IF slots = <<>> THEN "idle" ELSE "counter", c, <<>>,
                            [i \in 1..Len(slots) |-> PiEmit(c.tbl, slots[i])]))
     /\ UNCHANGED <<piEntries, piVersion, piMeta, piDefault, piWriter>>

\* emit_entries, the direct counter of one entry.
PiFetchCounter(t) ==
  LET r == piThread[t]
      tb == r.call.tbl
      s == r.out[r.at].h[1]
  IN /\ r.pc = "counter"
     /\ PiStep(t, [r EXCEPT
          !.out[r.at].counter = IF s \in PiUsed(tb) THEN piMeta[tb][s].bytes ELSE -1,
          !.at = @ + 1,
          !.pc = IF r.at = Len(r.out) THEN "idle" ELSE "counter"])
     /\ UNCHANGED <<piEntries, piVersion, piMeta, piDefault, piWriter, piMade>>

\* _pi_counter_write_direct sets the bytes: it reads the packets first, and
\* writes both.
PiCounterRead(t, c) ==
  /\ PiMayCall(t, c, "write_counter")
  /\ \E s \in PiUsed(c.tbl) :
       PiStep(t, PiCalling("write_counter", c, <<s, piVersion[c.tbl][s]>>,
                           <<piMeta[c.tbl][s].packets>>))
  /\ UNCHANGED <<piEntries, piVersion, piMeta, piDefault, piWriter>>

PiCounterWrite(t) ==
  LET r == piThread[t]
      s == r.h[1]
  IN /\ r.pc = "write_counter"
     /\ PiStep(t, PiIdleThread)
     /\ piMeta' = IF s \in PiUsed(r.call.tbl)
                  THEN [piMeta EXCEPT ![r.call.tbl][s].bytes = r.call.bytes,
                                      ![r.call.tbl][s].packets = r.out[1]]
                  ELSE piMeta
     /\ UNCHANGED <<piEntries, piVersion, piDefault, piWriter, piMade>>

\* _pi_table_default_action_set: another action than the const one is refused.
PiSetDefault(t, c) ==
  /\ PiMayCall(t, c, "set_default")
  /\ c.tbl = "T" => PiConstDefault \in {"none", c.act.fn}
  /\ piDefault' = [piDefault EXCEPT ![c.tbl] =
       [act |-> PiBuildAction(c.tbl, c.act), by |-> c.act]]
  /\ UNCHANGED <<piEntries, piVersion, piMeta, piWriter, piThread>>

PiResetDefault(t, c) ==
  /\ PiMayCall(t, c, "reset_default")
  /\ piDefault' = [piDefault EXCEPT ![c.tbl] = PiNoDefault]
  /\ UNCHANGED <<piEntries, piVersion, piMeta, piWriter, piThread>>

\* The ageing monitor reports a handle, and table_idle_timeout_notify looks up
\* the entry to tell the client its key (get_match_entry).
PiExpire(t, c) ==
  /\ PiMayCall(t, c, "notify")
  /\ \E s \in PiUsed(c.tbl) :
       PiStep(t, PiCalling("notify", c, <<s, piVersion[c.tbl][s]>>, <<>>))
  /\ UNCHANGED <<piEntries, piVersion, piMeta, piDefault, piWriter>>

PiIdleTimeoutNotify(t) ==
  LET tb == piThread[t].call.tbl
      h == piThread[t].h
  IN /\ piThread[t].pc = "notify"
     /\ IF PiValidHandle(tb, h)
        THEN PiStep(t, PiCalling("idle", piThread[t].call, <<>>, <<PiEmit(tb, h[1])>>))
        ELSE PiStep(t, PiIdleThread)
     /\ UNCHANGED <<piEntries, piVersion, piMeta, piDefault, piWriter, piMade>>

\* A packet hits an entry.
PiCount(tb, s) ==
  /\ s \in PiUsed(tb) /\ piMeta[tb][s].packets < PiMaxCount
  /\ piMeta' = [piMeta EXCEPT ![tb][s].packets = @ + 1]
  /\ UNCHANGED <<piEntries, piVersion, piDefault, piWriter, piThread, piMade>>

PiNext ==
  \/ \E t \in PiThreads, c \in PiCalls :
       \/ PiAdd(t, c) \/ PiFindHandle(t, c) \/ PiFetchAll(t, c)
       \/ PiCounterRead(t, c) \/ PiExpire(t, c) \/ PiSetDefault(t, c) \/ PiResetDefault(t, c)
  \/ \E t \in PiThreads :
       \/ PiSetTtl(t) \/ PiSetDirect(t) \/ PiDelete(t) \/ PiModify(t)
       \/ PiFetchOne(t) \/ PiFetchCounter(t) \/ PiCounterWrite(t)
       \/ PiIdleTimeoutNotify(t)
  \/ \E tb \in PiTabs, s \in PiSlotSet : PiCount(tb, s)

PiSpec == PiInit /\ [][PiNext]_piVars

-----------------------------------------------------------------------------
PiTypeOK ==
  /\ \A tb \in PiTabs, s \in PiSlotSet :
       /\ piVersion[tb][s] \in 0..PiMaxCalls
       /\ piMeta[tb][s].packets \in 0..PiMaxCount
       /\ piEntries[tb][s].prio \in -1..PiMaxPrio
  /\ piMade \in 0..PiMaxCalls

\* A delete or a modify with a key changes an entry of that key and priority
\* or none, although the entry may be replaced between the look for the handle
\* and its use ("We release the Thrift session lock in between the 2").
KeyCallHitsItsKey ==
  \A t \in PiThreads, tb \in PiTabs, s \in PiSlotSet :
     LET c == piThread[t].call
     IN /\ piThread[t].pc \in {"delete", "modify"} /\ piThread'[t] # piThread[t]
        /\ piEntries'[tb][s] # piEntries[tb][s]
        => /\ tb = c.tbl /\ piEntries[tb][s].key = c.key
           /\ tb = "T" => piWriter[tb][s].prio = c.prio

\* What a fetch would return for an entry, at any time, is what a client wrote:
\* its key, its priority as PI counts it (0 without a ternary field), its
\* action with the parameter at its full width, or the handle of its member or
\* group; and so is the default entry.
EmittedIsAsWritten ==
  \A tb \in PiTabs :
    /\ PiGetDefault(tb) = piDefault[tb].by
    /\ \A s \in PiUsed(tb) :
         LET r == PiEmit(tb, s)
             w == piWriter[tb][s]
         IN /\ r.key = w.key /\ r.act = w.act
            /\ r.prio = IF tb = "T" THEN w.prio ELSE 0

\* No step of a client's call touches another key's entry or leaves an entry that
\* reads back differently from how it was written (pi_tables_imp.cpp).
PiFaithful == [][PiTypeOK' /\ EmittedIsAsWritten' /\ KeyCallHitsItsKey]_piVars

-----------------------------------------------------------------------------
(* Why PiFaithful holds.                                                   *)
PiPcs == {"idle", "ttl", "direct", "delete", "modify", "fetch", "counter", "write_counter",
          "notify"}

PiThreadOk(r) ==
  /\ r = [pc |-> r.pc, call |-> r.call, h |-> r.h, out |-> r.out, at |-> r.at]
  /\ r.pc \in PiPcs
  /\ r.pc # "idle" => r.call \in PiCalls
  /\ r.pc \in {"delete", "modify"} => r.call.op = r.pc
  /\ r.pc = "write_counter" => r.out[1] \in 0..PiMaxCount

PiMetaType == [PiTabs -> [PiSlotSet -> [ttl : Nat, bytes : Int, packets : 0..PiMaxCount]]]

PiTypes ==
  /\ DOMAIN piEntries = PiTabs /\ \A tb \in PiTabs : DOMAIN piEntries[tb] = PiSlotSet
  /\ DOMAIN piWriter = PiTabs /\ \A tb \in PiTabs : DOMAIN piWriter[tb] = PiSlotSet
  /\ DOMAIN piDefault = PiTabs
  /\ piVersion \in [PiTabs -> [PiSlotSet -> Nat]]
  /\ piMeta \in PiMetaType
  /\ piMade \in 0..PiMaxCalls
  /\ DOMAIN piThread = PiThreads /\ \A t \in PiThreads : PiThreadOk(piThread[t])

\* An entry is what its writer's action, key and priority are in the switch.
PiWritten ==
  \A tb \in PiTabs, s \in PiSlotSet :
    LET e == piEntries[tb][s]
        w == piWriter[tb][s]
    IN e = PiNoEntry \/ /\ e = [key |-> w.key, prio |-> PiToBmPriority(tb, w.prio),
                                act |-> PiBuildAction(tb, w.act)]
                        /\ w = [key |-> w.key, prio |-> w.prio, act |-> w.act]
                        /\ w.prio \in 0..PiMaxPrio \/ tb = "W"
                        /\ PiActOk(tb, w.act)

\* The handle a thread has found is out of date, or names an entry of its key.
PiFoundBy(r) ==
  r.pc \in {"delete", "modify"} =>
    /\ r.h[1] \in PiSlotSet /\ r.h[2] \in Nat /\ piVersion[r.call.tbl][r.h[1]] >= r.h[2]
    /\ piVersion[r.call.tbl][r.h[1]] = r.h[2] =>
         /\ piEntries[r.call.tbl][r.h[1]] # PiNoEntry
         /\ piEntries[r.call.tbl][r.h[1]].key = r.call.key
         /\ piEntries[r.call.tbl][r.h[1]].prio = PiToBmPriority(r.call.tbl, r.call.prio)
PiFound == \A t \in PiThreads : PiFoundBy(piThread[t])

\* Every new version of a slot took a call.
PiDeleting == {t \in PiThreads : piThread[t].pc = "delete"}
PiVersionsFromCalls ==
  \A tb \in PiTabs, s \in PiSlotSet : piVersion[tb][s] + Cardinality(PiDeleting) <= piMade

PiDefaultsRead == \A tb \in PiTabs : PiGetDefault(tb) = piDefault[tb].by

PiInv == PiTypes /\ PiWritten /\ PiFound /\ PiVersionsFromCalls /\ PiDefaultsRead
=============================================================================
