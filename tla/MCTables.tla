------------------------------ MODULE MCTables ------------------------------
(* Instances of the tables and what stands behind them: match units, keys, *)
(* the prefix trie, ageing, counters, action profiles, control flow and     *)
(* replication.                                                            *)
(* They share no state in the program, so one run explores each of them    *)
(* alone: active names the one that takes steps, and the others stay in    *)
(* their initial state.                                                    *)
EXTENDS LpmTrie, MatchKey, AgeingMonitor, IndirectTable,
        ControlFlow, McPre, EntryCounters, TLC

VARIABLE active

-----------------------------------------------------------------------------
(* MatchTable: any matches both packets, zero and one a packet each.       *)
CONSTANTS any, zero, one, p0, p1

MCMatches == {<<any, p0>>, <<any, p1>>, <<zero, p0>>, <<one, p1>>}

-----------------------------------------------------------------------------
(* MatchKey: the five kinds of match, in orders that the builder changes.  *)
KbF(t,n,m) == [type |-> t, nbits |-> n, mask |-> m]
MCLayouts == { <<KbF("LPM",2,3), KbF("VALID",2,3), KbF("EXACT",1,3)>>,
  <<KbF("EXACT",2,2), KbF("EXACT",1,3), KbF("VALID",2,3)>>,
  <<KbF("TERNARY",1,3), KbF("EXACT",2,2), KbF("LPM",2,3)>>,
  <<KbF("LPM",2,3), KbF("EXACT",2,3), KbF("RANGE",1,3)>>,
  <<KbF("TERNARY",2,3), KbF("RANGE",2,3)>> }

-----------------------------------------------------------------------------
(* AgeingMonitor: two tables, one of them empty.                           *)
MCAgeTables == <<"A","B">>
MCAgeSlots == {<<"A",0>>,<<"A",1>>}

-----------------------------------------------------------------------------
(* ControlFlow: tables by action and by hit or miss, one of them with a    *)
(* constant entry and default, a conditional and an action call.           *)
CfNone == [k \in 0..1 |-> "none"]
CfN == [
 t1 |-> [kind |-> "table", hitMiss |-> FALSE, hit |-> "end", miss |-> "end", base |-> "c1",
         next |-> [nop |-> "t2", quit |-> "t2", flip |-> "c1"], dflt |-> "none", dconst |-> FALSE, consts |-> CfNone],
 c1 |-> [kind |-> "conditional", true |-> "a1", false |-> "t2"],
 t2 |-> [kind |-> "table", hitMiss |-> TRUE, hit |-> "t3", miss |-> "a1", base |-> "t3",
         next |-> [nop |-> "end", flip |-> "end"], dflt |-> "none", dconst |-> FALSE, consts |-> CfNone],
 t3 |-> [kind |-> "table", hitMiss |-> FALSE, hit |-> "end", miss |-> "end", base |-> "end",
         next |-> [nop |-> "a1", quit |-> "end"], dflt |-> "nop", dconst |-> TRUE, consts |-> [k \in 0..1 |-> IF k = 0 THEN "quit" ELSE "none"]],
 a1 |-> [kind |-> "action_call", act |-> "flip", then |-> "end"]]

-----------------------------------------------------------------------------
TablesInit ==
  /\ active \in {"MatchTable", "LpmTrie", "MatchKey", "AgeingMonitor",
                "IndirectTable", "ControlFlow", "McPre", "EntryCounters"}
  /\ MtInit /\ TrieInit /\ KbInit /\ AgeInit /\ Init
  /\ CfInit /\ PreInit /\ CtInit

TableStep ==
  /\ active = "MatchTable" /\ MtNext
  /\ UNCHANGED <<active, trieVars, kbVars, ageVars, vars, cfVars, preVars, ctVars>>

TrieStep ==
  /\ active = "LpmTrie" /\ TrieNext
  /\ UNCHANGED <<active, mtVars, kbVars, ageVars, vars, cfVars, preVars, ctVars>>

KeyStep ==
  /\ active = "MatchKey" /\ KbNext
  /\ UNCHANGED <<active, mtVars, trieVars, ageVars, vars, cfVars, preVars, ctVars>>

AgeingStep ==
  /\ active = "AgeingMonitor" /\ AgeNext
  /\ UNCHANGED <<active, mtVars, trieVars, kbVars, vars, cfVars, preVars, ctVars>>

IndirectStep ==
  /\ active = "IndirectTable" /\ Next
  /\ UNCHANGED <<active, mtVars, trieVars, kbVars, ageVars, cfVars, preVars, ctVars>>

ControlStep ==
  /\ active = "ControlFlow" /\ CfNext
  /\ UNCHANGED <<active, mtVars, trieVars, kbVars, ageVars, vars, preVars, ctVars>>

ReplicationStep ==
  /\ active = "McPre" /\ PreNext
  /\ UNCHANGED <<active, mtVars, trieVars, kbVars, ageVars, vars, cfVars, ctVars>>

CounterStep ==
  /\ active = "EntryCounters" /\ CtNext
  /\ UNCHANGED <<active, mtVars, trieVars, kbVars, ageVars, vars, cfVars, preVars>>

TablesNext ==
  \/ TableStep \/ TrieStep \/ KeyStep \/ AgeingStep
  \/ IndirectStep \/ ControlStep \/ ReplicationStep \/ CounterStep

tablesVars ==
  <<active, mtVars, trieVars, kbVars, ageVars, vars, cfVars,
    preVars, ctVars>>

TablesSpec == TablesInit /\ [][TablesNext]_tablesVars

-----------------------------------------------------------------------------
\* What is added matches field by field and reads back as it was added
\* (match_units.cpp MatchKeyBuilder).
KeysFaithful ==
  active = "MatchKey" => KbTypeOK /\ MatchIsFieldwise /\ ReadBackIsSame

=============================================================================
