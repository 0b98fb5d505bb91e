---------------------------- MODULE ControlFlow -----------------------------
(***************************************************************************)
(* Pipelines (pipeline.cpp), conditionals, action calls and the way a      *)
(* match table leads to the next node (match_tables.cpp).  A table does    *)
(* not look the next node up when a packet leaves it: the node is stored   *)
(* with each entry when the entry is added or modified, and with the       *)
(* default entry and the default of the configuration, from maps that the  *)
(* load of the configuration fills in several calls.  The control plane    *)
(* changes entries and defaults while packets are between nodes.           *)
(*                                                                         *)
(* MatchTable models how an entry is found; here a key has its entry.      *)
(* Packets' keys, and actions that do something to the flow (exit, change  *)
(* of the key), are all that is kept of data.                              *)
(***************************************************************************)
EXTENDS Integers

CONSTANTS
  CfNodes,     \* [node -> its JSON]; the node "end" is a null pointer
  CfFirst,     \* first node of the pipeline
  CfKeys,      \* values of the field that tables and conditions look at
  CfThreads,   \* threads that apply pipelines
  CfMaxOps     \* bound: calls of the control plane

CfPlaces == DOMAIN CfNodes \cup {"end"}

\* What P4Objects makes of a configuration that it accepts: every node that a
\* node leads to exists, and a table's default and entries run its own actions.
ASSUME CfAssumption ==
  /\ CfMaxOps \in Nat /\ CfFirst \in CfPlaces /\ "end" \notin DOMAIN CfNodes
  /\ 0 \in CfKeys /\ \A k \in CfKeys : \E j \in CfKeys : j # k
  /\ \A n \in DOMAIN CfNodes :
       LET x == CfNodes[n]
       IN  /\ x.kind = "table" =>
                /\ x.hitMiss \in BOOLEAN /\ {x.hit, x.miss, x.base} \subseteq CfPlaces
                /\ \A act \in DOMAIN x.next : act # "none" /\ x.next[act] \in CfPlaces
                /\ x.dflt \in DOMAIN x.next \cup {"none"}
                /\ x.consts \in [CfKeys -> DOMAIN x.next \cup {"none"}]
           /\ x.kind = "conditional" => {x.true, x.false} \subseteq CfPlaces
           /\ x.kind = "action_call" => x.then \in CfPlaces

VARIABLES
  cfTable,   \* [table -> entries, default_entry, default_default_entry]
  cfRef,     \* [table -> the actions of entries and default, as last set]
  cfPkt,     \* [thread -> its packet's node, the node it should be at, ...]
  cfOps      \* calls of the control plane so far

cfVars == <<cfTable, cfRef, cfPkt, cfOps>>

CfTables == {n \in DOMAIN CfNodes : CfNodes[n].kind = "table"}
NoEntry == [act |-> "none", next |-> "end"]

\* MatchTableAbstract::get_next_node, for entries.
NextNode(n, act) ==
  IF CfNodes[n].hitMiss THEN CfNodes[n].hit ELSE CfNodes[n].next[act]

\* MatchTableAbstract::get_next_node_default, for a default action.
NextNodeDefault(n, act) ==
  IF CfNodes[n].hitMiss THEN CfNodes[n].miss ELSE CfNodes[n].next[act]

\* default_default_entry after the load: set_next_node_miss or, without
\* __MISS__, set_next_node_miss_default, then set_default_default_entry.
DefaultDefault(n) ==
  IF CfNodes[n].dflt # "none"
  THEN [act |-> CfNodes[n].dflt, next |-> NextNodeDefault(n, CfNodes[n].dflt)]
  ELSE [NoEntry EXCEPT !.next = IF CfNodes[n].hitMiss THEN CfNodes[n].miss
                                                      ELSE CfNodes[n].base]

\* The entries of the JSON, after which the table is immutable.
Immutable(n) == \E k \in CfKeys : CfNodes[n].consts[k] # "none"
EntryOf(n, act) == IF act = "none" THEN NoEntry
                   ELSE [act |-> act, next |-> NextNode(n, act)]

CfInit ==
  /\ cfTable = [n \in CfTables |->
                  [entries |-> [k \in CfKeys |-> EntryOf(n, CfNodes[n].consts[k])],
                   default |-> DefaultDefault(n)]]
  /\ cfRef = [n \in CfTables |->
                [entries |-> CfNodes[n].consts, default |-> CfNodes[n].dflt]]
  /\ cfPkt = [t \in CfThreads |->
                [node |-> "end", want |-> "end", key |-> 0, exit |-> FALSE]]
  /\ cfOps = 0

-----------------------------------------------------------------------------
(* Packets.                                                                *)

\* Pipeline::apply begins; the flag of an earlier exit has been reset.
PipelineStart(t, k) ==
  /\ cfPkt[t].node = "end"
  /\ cfPkt' = [cfPkt EXCEPT ![t] = [node |-> CfFirst, want |-> CfFirst,
                                    key |-> k, exit |-> FALSE]]
  /\ UNCHANGED <<cfTable, cfRef, cfOps>>

\* What the actions do to the flow: "quit" calls exit, "flip" changes the key.
AfterAction(p, act) ==
  [p EXCEPT !.exit = @ \/ act = "quit",
            !.key = IF act = "flip" THEN (CHOOSE k \in CfKeys : k # @) ELSE @]

CfLeave(t, p, node, want) ==
  cfPkt' = [cfPkt EXCEPT ![t] = [p EXCEPT !.node = node, !.want = want]]

\* MatchTableAbstract::apply_action and MatchTable::lookup.
ApplyTable(t) ==
  LET p == cfPkt[t]
      n == p.node
      hit == cfTable[n].entries[p.key].act # "none"
      e == IF hit THEN cfTable[n].entries[p.key] ELSE cfTable[n].default
      known == cfRef[n].entries[p.key] # "none"
      act == IF known THEN cfRef[n].entries[p.key] ELSE cfRef[n].default
      want == CASE CfNodes[n].hitMiss -> IF known THEN CfNodes[n].hit
                                                  ELSE CfNodes[n].miss
                [] ~CfNodes[n].hitMiss /\ act = "none" -> CfNodes[n].base
                [] OTHER -> CfNodes[n].next[act]
  IN  /\ n \in CfTables /\ ~p.exit
      /\ CfLeave(t, AfterAction(p, e.act), e.next, want)
      /\ UNCHANGED <<cfTable, cfRef, cfOps>>

\* Conditional::operator(): the condition is that the key is not 0.
ApplyCondition(t) ==
  LET p == cfPkt[t]
      next == IF p.key # 0 THEN CfNodes[p.node].true ELSE CfNodes[p.node].false
  IN  /\ p.node # "end" /\ ~p.exit
      /\ CfNodes[p.node].kind = "conditional"
      /\ CfLeave(t, p, next, next)
      /\ UNCHANGED <<cfTable, cfRef, cfOps>>

\* ControlAction::operator().
ApplyCall(t) ==
  LET p == cfPkt[t]
      n == CfNodes[p.node]
  IN  /\ p.node # "end" /\ ~p.exit
      /\ n.kind = "action_call"
      /\ CfLeave(t, AfterAction(p, n.act), n.then, n.then)
      /\ UNCHANGED <<cfTable, cfRef, cfOps>>

\* Pipeline::apply leaves the loop when the packet is marked for exit.
PipelineExit(t) ==
  /\ cfPkt[t].exit /\ cfPkt[t].node # "end"
  /\ CfLeave(t, cfPkt[t], "end", "end")
  /\ UNCHANGED <<cfTable, cfRef, cfOps>>

-----------------------------------------------------------------------------
(* The control plane; each call changes the table under its write lock.    *)

CfOp(n) == cfOps < CfMaxOps /\ n \in CfTables /\ cfOps' = cfOps + 1

\* MatchTable::add_entry and modify_entry: the entry is made before the lock.
AddOrModify(n, k, act) ==
  /\ CfOp(n) /\ ~Immutable(n)
  /\ cfTable' = [cfTable EXCEPT ![n].entries[k] = EntryOf(n, act)]
  /\ cfRef' = [cfRef EXCEPT ![n].entries[k] = act]
  /\ UNCHANGED cfPkt

\* MatchTable::delete_entry.
DeleteKey(n, k) ==
  /\ CfOp(n) /\ ~Immutable(n)
  /\ cfTable' = [cfTable EXCEPT ![n].entries[k] = NoEntry]
  /\ cfRef' = [cfRef EXCEPT ![n].entries[k] = "none"]
  /\ UNCHANGED cfPkt

\* A mutation of NewDefault: the default action leads where a hit would.
NewDefaultHit(n, act) == [act |-> act, next |-> NextNode(n, act)]

NewDefault(n, act) == [act |-> act, next |-> NextNodeDefault(n, act)]

\* MatchTable::set_default_action, unless the JSON makes the default constant.
CfSetDefault(n, act) ==
  /\ CfOp(n) /\ ~CfNodes[n].dconst
  /\ cfTable' = [cfTable EXCEPT ![n].default = NewDefault(n, act)]
  /\ cfRef' = [cfRef EXCEPT ![n].default = act]
  /\ UNCHANGED cfPkt

\* MatchTable::reset_default_entry.
ResetDefault(n) ==
  /\ CfOp(n)
  /\ cfTable' = [cfTable EXCEPT ![n].default = DefaultDefault(n)]
  /\ cfRef' = [cfRef EXCEPT ![n].default = CfNodes[n].dflt]
  /\ UNCHANGED cfPkt

\* MatchTableAbstract::reset_state, from mt_clear_entries (which may keep the
\* default) and from reset_state: the entries go, immutable or not.
CfClearEntries(n, dflt) ==
  /\ CfOp(n)
  /\ cfTable' = [cfTable EXCEPT ![n].entries = [k \in CfKeys |-> NoEntry],
                                ![n].default = IF dflt THEN DefaultDefault(n) ELSE @]
  /\ cfRef' = [cfRef EXCEPT ![n].entries = [k \in CfKeys |-> "none"],
                            ![n].default = IF dflt THEN CfNodes[n].dflt ELSE @]
  /\ UNCHANGED cfPkt

CfNext ==
  \/ \E t \in CfThreads :
       \/ \E k \in CfKeys : PipelineStart(t, k)
       \/ ApplyTable(t) \/ ApplyCondition(t) \/ ApplyCall(t) \/ PipelineExit(t)
  \/ \E n \in CfTables :
       \/ \E k \in CfKeys : DeleteKey(n, k)
       \/ \E k \in CfKeys, act \in DOMAIN CfNodes[n].next : AddOrModify(n, k, act)
       \/ \E act \in DOMAIN CfNodes[n].next : CfSetDefault(n, act)
       \/ ResetDefault(n)
       \/ \E d \in BOOLEAN : CfClearEntries(n, d)

CfSpec == CfInit /\ [][CfNext]_cfVars

-----------------------------------------------------------------------------
CfTypeOK ==
  /\ cfOps \in 0..CfMaxOps
  /\ \A t \in CfThreads : /\ cfPkt[t].node \in CfPlaces
                          /\ cfPkt[t].key \in CfKeys
  /\ \A n \in CfTables :
       cfTable[n].default.next \in CfPlaces

\* A packet that has not exited is at the node where the JSON's next_tables
\* lead from the action it ran, with the hit or miss it met, whatever the
\* control plane did to entries and defaults before (the next node stored in
\* an entry is never another action's, nor a hit's in a default entry).
PacketFollowsProgram ==
  \A t \in CfThreads : cfPkt[t].exit \/ cfPkt[t].node = cfPkt[t].want

\* Packets take the path of the program, whatever the control plane sets on the
\* way (match_tables.cpp, pipeline.cpp).
ControlFollowsProgram == CfTypeOK /\ PacketFollowsProgram

-----------------------------------------------------------------------------
(* The inductive invariant behind ControlFollowsProgram.                   *)

\* The default entry that stands for a default action, or for none
DefaultOf(n, act) ==
  IF act # "none" THEN [act |-> act, next |-> NextNodeDefault(n, act)]
  ELSE [act |-> "none", next |-> IF CfNodes[n].hitMiss THEN CfNodes[n].miss
                                                       ELSE CfNodes[n].base]

\* The next node stored with each entry and default is the one of its action.
Stored(n, ref) ==
  [entries |-> [k \in CfKeys |-> EntryOf(n, ref.entries[k])],
   default |-> DefaultOf(n, ref.default)]

\* The actions of a table, and none
CfActs(n) == DOMAIN CfNodes[n].next \cup {"none"}

CfInv ==
  /\ cfOps \in 0..CfMaxOps
  /\ cfPkt \in [CfThreads -> [node : CfPlaces, want : CfPlaces, key : CfKeys, exit : BOOLEAN]]
  /\ DOMAIN cfRef = CfTables
  /\ \A n \in CfTables : cfRef[n] \in [entries : [CfKeys -> CfActs(n)], default : CfActs(n)]
  /\ DOMAIN cfTable = CfTables
  /\ \A n \in CfTables : cfTable[n] = Stored(n, cfRef[n])
  /\ PacketFollowsProgram
=============================================================================
