---------------------------- MODULE TablesProofs ----------------------------
(***************************************************************************)
(* What stands behind the tables, for every configuration and number of    *)
(* threads: the path packets take, the sweeps of the ageing monitor, the   *)
(* locks of registers, the replication tree, the token buckets of meters,  *)
(* the handles of entries and the direct counters, and the list and the    *)
(* cache by which lookups of a ternary table find the best match.          *)
(***************************************************************************)
EXTENDS ControlFlow, AgeingMonitor, McPre, EntryCounters, Registers, Meters,
        FiniteSetTheorems, WellFoundedInduction, TLAPS

-----------------------------------------------------------------------------
(* ControlFlow.                                                            *)

\* What the JSON of a table says.
LEMMA TableNode ==
  ASSUME NEW n \in CfTables
  PROVE  /\ n \in DOMAIN CfNodes /\ CfNodes[n].kind = "table" /\ CfNodes[n].hitMiss \in BOOLEAN
         /\ CfNodes[n].hit \in CfPlaces /\ CfNodes[n].miss \in CfPlaces /\ CfNodes[n].base \in CfPlaces
         /\ \A act \in DOMAIN CfNodes[n].next : act # "none" /\ CfNodes[n].next[act] \in CfPlaces
         /\ CfNodes[n].dflt \in CfActs(n)
         /\ CfNodes[n].consts \in [CfKeys -> CfActs(n)]
BY CfAssumption DEF CfTables, CfActs

\* The default of the configuration is stored like any other default.
LEMMA DefaultDefaultIs ==
  ASSUME NEW n \in CfTables
  PROVE  DefaultDefault(n) = DefaultOf(n, CfNodes[n].dflt)
BY DEF DefaultDefault, DefaultOf, NoEntry

\* An entry and a default lead where their action leads.
LEMMA StoredIs ==
  ASSUME NEW n \in CfTables, NEW act \in CfActs(n)
  PROVE  /\ EntryOf(n, act).act = act /\ DefaultOf(n, act).act = act
         /\ act # "none" =>
              /\ EntryOf(n, act).next = IF CfNodes[n].hitMiss THEN CfNodes[n].hit
                                        ELSE CfNodes[n].next[act]
              /\ DefaultOf(n, act).next = IF CfNodes[n].hitMiss THEN CfNodes[n].miss
                                          ELSE CfNodes[n].next[act]
         /\ act = "none" => DefaultOf(n, act).next = IF CfNodes[n].hitMiss THEN CfNodes[n].miss
                                                     ELSE CfNodes[n].base
         /\ DefaultOf(n, act).next \in CfPlaces
         /\ act # "none" => EntryOf(n, act).next \in CfPlaces
<1>1. act # "none" => act \in DOMAIN CfNodes[n].next
  BY DEF CfActs
<1>2. EntryOf(n, act).act = act /\ DefaultOf(n, act).act = act
  BY DEF EntryOf, DefaultOf, NoEntry
<1>3. act # "none" =>
        /\ EntryOf(n, act).next = IF CfNodes[n].hitMiss THEN CfNodes[n].hit
                                  ELSE CfNodes[n].next[act]
        /\ DefaultOf(n, act).next = IF CfNodes[n].hitMiss THEN CfNodes[n].miss
                                    ELSE CfNodes[n].next[act]
  BY DEF EntryOf, DefaultOf, NextNode, NextNodeDefault
<1>4. act = "none" => DefaultOf(n, act).next = IF CfNodes[n].hitMiss THEN CfNodes[n].miss
                                               ELSE CfNodes[n].base
  BY DEF DefaultOf
<1>5. QED
  BY <1>1, <1>2, <1>3, <1>4, TableNode

\* The tables as the control plane leaves them: ref is cfRef, tab cfTable.
TablesOK(ref, tab) ==
  /\ DOMAIN ref = CfTables /\ DOMAIN tab = CfTables
  /\ \A n \in CfTables : ref[n] \in [entries : [CfKeys -> CfActs(n)], default : CfActs(n)]
  /\ \A n \in CfTables : tab[n] = Stored(n, ref[n])

\* CfInv as a predicate of the values it depends on.
LEMMA CfInvIs ==
  /\ CfInv <=> /\ cfOps \in 0..CfMaxOps
               /\ cfPkt \in [CfThreads -> [node : CfPlaces, want : CfPlaces, key : CfKeys, exit : BOOLEAN]]
               /\ TablesOK(cfRef, cfTable) /\ PacketFollowsProgram
  /\ CfInv' <=> /\ cfOps' \in 0..CfMaxOps
                /\ cfPkt' \in [CfThreads -> [node : CfPlaces, want : CfPlaces, key : CfKeys, exit : BOOLEAN]]
                /\ TablesOK(cfRef', cfTable') /\ PacketFollowsProgram'
BY DEF CfInv, TablesOK

\* A call of the control plane changes what is stored for one table.
LEMMA TableSet ==
  ASSUME NEW n \in CfTables, TablesOK(cfRef, cfTable),
         NEW r, r \in [entries : [CfKeys -> CfActs(n)], default : CfActs(n)],
         cfRef' = [cfRef EXCEPT ![n] = r], cfTable' = [cfTable EXCEPT ![n] = Stored(n, r)]
  PROVE  TablesOK(cfRef', cfTable')
BY DEF TablesOK

\* At the start tables and program agree and no packet is under way.
LEMMA CfInitOK == ASSUME CfInit PROVE CfInv
<1>1. cfOps \in 0..CfMaxOps
  BY CfAssumption DEF CfInit
<1>2. cfPkt \in [CfThreads -> [node : CfPlaces, want : CfPlaces, key : CfKeys, exit : BOOLEAN]]
      /\ PacketFollowsProgram
  BY CfAssumption DEF CfInit, CfPlaces, PacketFollowsProgram
<1>3. TablesOK(cfRef, cfTable)
  <2>1. DOMAIN cfRef = CfTables /\ DOMAIN cfTable = CfTables
    BY DEF CfInit
  <2>2. ASSUME NEW n \in CfTables
        PROVE  /\ cfRef[n] \in [entries : [CfKeys -> CfActs(n)], default : CfActs(n)]
               /\ cfTable[n] = Stored(n, cfRef[n])
    <3>1. cfRef[n] = [entries |-> CfNodes[n].consts, default |-> CfNodes[n].dflt]
      BY DEF CfInit
    <3>2. cfTable[n] = [entries |-> [k \in CfKeys |-> EntryOf(n, CfNodes[n].consts[k])],
                        default |-> DefaultDefault(n)]
      BY DEF CfInit
    <3>3. Stored(n, cfRef[n]) = [entries |-> [k \in CfKeys |-> EntryOf(n, CfNodes[n].consts[k])],
                                 default |-> DefaultOf(n, CfNodes[n].dflt)]
      BY <3>1 DEF Stored
    <3>4. QED
      BY <3>1, <3>2, <3>3, TableNode, DefaultDefaultIs
  <2>3. QED
    BY <2>1, <2>2 DEF TablesOK
<1>4. QED
  BY <1>1, <1>2, <1>3, CfInvIs

\* A packet goes on to a node, which is the one the program says.
LEMMA PacketMoves ==
  ASSUME CfInv, NEW t \in CfThreads, UNCHANGED <<cfTable, cfRef, cfOps>>, NEW p,
         p \in [node : CfPlaces, want : CfPlaces, key : CfKeys, exit : BOOLEAN],
         p.exit \/ p.node = p.want, cfPkt' = [cfPkt EXCEPT ![t] = p]
  PROVE  CfInv'
<1>1. /\ cfOps \in 0..CfMaxOps /\ TablesOK(cfRef, cfTable) /\ PacketFollowsProgram
      /\ cfPkt \in [CfThreads -> [node : CfPlaces, want : CfPlaces, key : CfKeys, exit : BOOLEAN]]
  BY CfInvIs
<1>2. cfPkt' \in [CfThreads -> [node : CfPlaces, want : CfPlaces, key : CfKeys, exit : BOOLEAN]]
  BY <1>1
<1>3. PacketFollowsProgram'
  BY <1>1 DEF PacketFollowsProgram
<1>4. QED
  BY <1>1, <1>2, <1>3, CfInvIs

\* An action changes the key and the exit flag of a packet and nothing else.
Moved(p, act, node, want) == [AfterAction(p, act) EXCEPT !.node = node, !.want = want]

\* An action moves its packet to the node it names.
LEMMA ActionTyped ==
  ASSUME NEW p, p \in [node : CfPlaces, want : CfPlaces, key : CfKeys, exit : BOOLEAN],
         NEW act, NEW node \in CfPlaces, NEW want \in CfPlaces
  PROVE  /\ Moved(p, act, node, want) \in
              [node : CfPlaces, want : CfPlaces, key : CfKeys, exit : BOOLEAN]
         /\ Moved(p, act, node, want).node = node /\ Moved(p, act, node, want).want = want
<1> DEFINE k == IF act = "flip" THEN (CHOOSE j \in CfKeys : j # p.key) ELSE p.key
           x == p.exit \/ act = "quit"
<1>1. k \in CfKeys /\ x \in BOOLEAN
  BY CfAssumption
<1>2. AfterAction(p, act) = [p EXCEPT !.exit = x, !.key = k]
  BY DEF AfterAction
<1> HIDE DEF k, x
<1>3. QED
  BY <1>1, <1>2 DEF Moved

\* A packet meets a table: the stored next node is the program's.
LEMMA ApplyTableKeeps ==
  ASSUME CfInv, NEW t \in CfThreads, ApplyTable(t)
  PROVE  CfInv'
<1> DEFINE p == cfPkt[t]
           n == p.node
           hit == cfTable[n].entries[p.key].act # "none"
           e == IF hit THEN cfTable[n].entries[p.key] ELSE cfTable[n].default
           ref == cfRef[n].entries[p.key]
           dflt == cfRef[n].default
           known == ref # "none"
           act == IF known THEN ref ELSE dflt
           want == CASE CfNodes[n].hitMiss -> IF known THEN CfNodes[n].hit
                                                       ELSE CfNodes[n].miss
                     [] ~CfNodes[n].hitMiss /\ act = "none" -> CfNodes[n].base
                     [] OTHER -> CfNodes[n].next[act]
           q == Moved(p, e.act, e.next, want)
<1>1. n \in CfTables /\ cfPkt' = [cfPkt EXCEPT ![t] = q] /\ UNCHANGED <<cfTable, cfRef, cfOps>>
  BY DEF ApplyTable, CfLeave, Moved
<1>2. p \in [node : CfPlaces, want : CfPlaces, key : CfKeys, exit : BOOLEAN] /\ p.key \in CfKeys
  BY CfInvIs
<1>3. ref \in CfActs(n) /\ dflt \in CfActs(n)
  BY <1>1, <1>2, CfInvIs, ZenonT(40) DEF TablesOK
<1>4. cfTable[n].entries[p.key] = EntryOf(n, ref) /\ cfTable[n].default = DefaultOf(n, dflt)
  <2>1. cfTable[n] = Stored(n, cfRef[n])
    BY <1>1, CfInvIs DEF TablesOK
  <2>2. QED
    BY <1>2, <2>1 DEF Stored
<1>5. (hit <=> known) /\ e = IF known THEN EntryOf(n, ref) ELSE DefaultOf(n, dflt)
  <2>1. EntryOf(n, ref).act = ref
    BY <1>1, <1>3, StoredIs
  <2>2. hit <=> known
    BY <1>4, <2>1
  <2>3. QED
    BY <1>4, <2>2
<1>6. e.next = want /\ e.next \in CfPlaces
  <2>1. CASE known
    <3>1. e.next = EntryOf(n, ref).next /\ act = ref
      BY <1>5, <2>1
    <3>2. want = IF CfNodes[n].hitMiss THEN CfNodes[n].hit ELSE CfNodes[n].next[ref]
      BY <1>1, <2>1, <3>1, TableNode
    <3>3. QED
      BY <1>1, <1>3, <2>1, <3>1, <3>2, StoredIs
  <2>2. CASE ~known
    <3>1. e.next = DefaultOf(n, dflt).next /\ act = dflt
      BY <1>5, <2>2
    <3>2. want = IF CfNodes[n].hitMiss THEN CfNodes[n].miss
                 ELSE IF dflt = "none" THEN CfNodes[n].base ELSE CfNodes[n].next[dflt]
      BY <1>1, <2>2, <3>1, TableNode
    <3>3. QED
      BY <1>1, <1>3, <3>1, <3>2, StoredIs, ZenonT(40)
  <2>3. QED
    BY <2>1, <2>2
<1>q. q = Moved(p, e.act, e.next, want)
  OBVIOUS
<1> HIDE DEF p, n, e, want, q
<1>7. q \in [node : CfPlaces, want : CfPlaces, key : CfKeys, exit : BOOLEAN] /\ q.node = q.want
  BY <1>2, <1>6, <1>q, ActionTyped
<1>8. QED
  BY <1>1, <1>7, PacketMoves

\* A packet meets a conditional or an action call, leaves or enters.
LEMMA OtherNodesKeep ==
  ASSUME CfInv, NEW t \in CfThreads,
         ApplyCondition(t) \/ ApplyCall(t) \/ PipelineExit(t) \/ \E k \in CfKeys : PipelineStart(t, k)
  PROVE  CfInv'
<1> DEFINE p == cfPkt[t]
<1>1. p \in [node : CfPlaces, want : CfPlaces, key : CfKeys, exit : BOOLEAN]
      /\ (p.node # "end" => p.node \in DOMAIN CfNodes)
  BY CfInvIs DEF CfPlaces
<1>2. CASE ApplyCondition(t)
  <2> DEFINE next == IF p.key # 0 THEN CfNodes[p.node].true ELSE CfNodes[p.node].false
             q == [p EXCEPT !.node = next, !.want = next]
  <2>1. /\ p.node \in DOMAIN CfNodes /\ CfNodes[p.node].kind = "conditional"
        /\ cfPkt' = [cfPkt EXCEPT ![t] = q] /\ UNCHANGED <<cfTable, cfRef, cfOps>>
    BY <1>1, <1>2 DEF ApplyCondition, CfLeave
  <2>2. next \in CfPlaces
    BY <2>1, CfAssumption
  <2> HIDE DEF next
  <2>3. q \in [node : CfPlaces, want : CfPlaces, key : CfKeys, exit : BOOLEAN] /\ q.node = q.want
    BY <1>1, <2>2
  <2> HIDE DEF q
  <2>4. QED
    BY <2>1, <2>3, PacketMoves
<1>3. CASE ApplyCall(t)
  <2> DEFINE n == CfNodes[p.node]
             q == Moved(p, n.act, n.then, n.then)
  <2>1. /\ p.node \in DOMAIN CfNodes /\ n.kind = "action_call"
        /\ cfPkt' = [cfPkt EXCEPT ![t] = q] /\ UNCHANGED <<cfTable, cfRef, cfOps>>
    BY <1>1, <1>3 DEF ApplyCall, CfLeave, Moved
  <2>2. n.then \in CfPlaces
    BY <2>1, CfAssumption
  <2>q. q = Moved(p, n.act, n.then, n.then)
    OBVIOUS
  <2> HIDE DEF n, q
  <2>3. q \in [node : CfPlaces, want : CfPlaces, key : CfKeys, exit : BOOLEAN] /\ q.node = q.want
    BY <1>1, <2>2, <2>q, ActionTyped
  <2>4. QED
    BY <2>1, <2>3, PacketMoves
<1>4. CASE PipelineExit(t)
  <2> DEFINE q == [p EXCEPT !.node = "end", !.want = "end"]
  <2>1. cfPkt' = [cfPkt EXCEPT ![t] = q] /\ UNCHANGED <<cfTable, cfRef, cfOps>>
    BY <1>4 DEF PipelineExit, CfLeave
  <2>2. q \in [node : CfPlaces, want : CfPlaces, key : CfKeys, exit : BOOLEAN] /\ q.node = q.want
    BY <1>1 DEF CfPlaces
  <2> HIDE DEF q
  <2>3. QED
    BY <2>1, <2>2, PacketMoves
<1>5. CASE \E k \in CfKeys : PipelineStart(t, k)
  <2>1. PICK k \in CfKeys : PipelineStart(t, k)
    BY <1>5
  <2> DEFINE q == [node |-> CfFirst, want |-> CfFirst, key |-> k, exit |-> FALSE]
  <2>2. cfPkt' = [cfPkt EXCEPT ![t] = q] /\ UNCHANGED <<cfTable, cfRef, cfOps>>
    BY <2>1 DEF PipelineStart
  <2>3. q \in [node : CfPlaces, want : CfPlaces, key : CfKeys, exit : BOOLEAN] /\ q.node = q.want
    BY CfAssumption
  <2> HIDE DEF q
  <2>4. QED
    BY <2>2, <2>3, PacketMoves
<1>6. QED
  BY <1>2, <1>3, <1>4, <1>5

\* Records of two fields.
LEMMA RecordIs ==
  ASSUME NEW E, NEW D, NEW r \in [entries : E, default : D]
  PROVE  r = [entries |-> r.entries, default |-> r.default]
OBVIOUS

IsTwo(r) == r = [entries |-> r.entries, default |-> r.default]

\* A table has two fields.
LEMMA TwoIs ==
  ASSUME NEW E, NEW D, NEW r \in [entries : E, default : D]
  PROVE  IsTwo(r)
BY DEF IsTwo

SetEntries(r, x) == [r EXCEPT !.entries = x]
SetDflt(r, y) == [r EXCEPT !.default = y]
SetBoth(r, x, y) == [r EXCEPT !.entries = x, !.default = y]

\* One of the two fields is written.
LEMMA TwoFields ==
  ASSUME NEW r, IsTwo(r), NEW x, NEW y
  PROVE  /\ SetDflt(r, y) = [entries |-> r.entries, default |-> y]
         /\ SetEntries(r, x) = [entries |-> x, default |-> r.default]
<1> DEFINE e == r.entries
           d == r.default
<1>1. r = [entries |-> e, default |-> d]
  BY DEF IsTwo
<1> HIDE DEF e, d
<1>2. /\ [[entries |-> e, default |-> d] EXCEPT !.default = y] = [entries |-> e, default |-> y]
      /\ [[entries |-> e, default |-> d] EXCEPT !.entries = x] = [entries |-> x, default |-> d]
  OBVIOUS
<1>3. SetDflt(r, y) = [entries |-> e, default |-> y] /\ SetEntries(r, x) = [entries |-> x, default |-> d]
  BY <1>1, <1>2 DEF SetDflt, SetEntries
<1>4. QED
  BY <1>3 DEF e, d

\* Both fields are written.
LEMMA BothFields ==
  ASSUME NEW r, IsTwo(r), NEW x, NEW y
  PROVE  SetBoth(r, x, y) = [entries |-> x, default |-> y]
<1> DEFINE q == SetBoth(r, x, y)
<1>1. r \in [entries : {r.entries}, default : {r.default}]
  BY DEF IsTwo
<1>2. q \in [entries : {x}, default : {y}]
  BY <1>1 DEF SetBoth
<1> HIDE DEF q
<1>3. IsTwo(q) /\ q.entries = x /\ q.default = y
  BY <1>2, TwoIs
<1>4. q = [entries |-> x, default |-> y]
  BY <1>3 DEF IsTwo
<1>5. QED
  BY <1>4 DEF q

\* What a table stores for a program's entries and default.
LEMMA StoredRecord ==
  ASSUME NEW n, NEW r
  PROVE  /\ IsTwo(Stored(n, r))
         /\ Stored(n, r).entries = [k \in CfKeys |-> EntryOf(n, r.entries[k])]
         /\ Stored(n, r).default = DefaultOf(n, r.default)
BY DEF Stored, IsTwo

\* A call of the control plane, and what it leaves stored for its table.
LEMMA CallKeeps ==
  ASSUME CfInv, NEW n \in CfTables, CfOp(n), cfPkt' = cfPkt,
         NEW r, r \in [entries : [CfKeys -> CfActs(n)], default : CfActs(n)],
         cfRef' = [cfRef EXCEPT ![n] = r], cfTable' = [cfTable EXCEPT ![n] = Stored(n, r)]
  PROVE  CfInv'
<1>1. cfOps' \in 0..CfMaxOps
  BY CfInvIs, CfAssumption DEF CfOp
<1>2. TablesOK(cfRef', cfTable')
  BY CfInvIs, TableSet
<1>3. PacketFollowsProgram'
  BY CfInvIs DEF PacketFollowsProgram
<1>4. QED
  BY <1>1, <1>2, <1>3, CfInvIs

\* An entry is set, or goes (act is none).
LEMMA EntrySet ==
  ASSUME CfInv, NEW n \in CfTables, NEW k \in CfKeys, NEW act \in CfActs(n), CfOp(n), cfPkt' = cfPkt,
         cfTable' = [cfTable EXCEPT ![n].entries[k] = EntryOf(n, act)],
         cfRef' = [cfRef EXCEPT ![n].entries[k] = act]
  PROVE  CfInv'
<1> DEFINE r == cfRef[n]
           es == [r.entries EXCEPT ![k] = act]
           new == [entries |-> es, default |-> r.default]
<1>1. /\ DOMAIN cfRef = CfTables /\ DOMAIN cfTable = CfTables /\ cfTable[n] = Stored(n, r)
      /\ r \in [entries : [CfKeys -> CfActs(n)], default : CfActs(n)]
  BY CfInvIs DEF TablesOK
<1>2. new \in [entries : [CfKeys -> CfActs(n)], default : CfActs(n)]
  BY <1>1
<1>3. cfRef' = [cfRef EXCEPT ![n] = new]
  <2>1. cfRef' = [cfRef EXCEPT ![n] = [r EXCEPT !.entries = es]]
    OBVIOUS
  <2>2. SetEntries(r, es) = new
    BY <1>1, TwoIs, TwoFields
  <2>3. QED
    BY <2>1, <2>2 DEF SetEntries
<1>4. cfTable' = [cfTable EXCEPT ![n] = Stored(n, new)]
  <2>1. Stored(n, new) = [Stored(n, r) EXCEPT !.entries[k] = EntryOf(n, act)]
    <3> DEFINE f == [j \in CfKeys |-> EntryOf(n, r.entries[j])]
               g == [j \in CfKeys |-> EntryOf(n, es[j])]
    <3>1. g = [f EXCEPT ![k] = EntryOf(n, act)]
      BY <1>1
    <3>2. Stored(n, r) = [entries |-> f, default |-> DefaultOf(n, r.default)]
          /\ Stored(n, new) = [entries |-> g, default |-> DefaultOf(n, r.default)]
      BY DEF Stored
    <3> HIDE DEF f, g
    <3>3. QED
      BY <3>1, <3>2
  <2>2. QED
    BY <1>1, <2>1
<1> HIDE DEF new
<1>5. QED
  BY <1>2, <1>3, <1>4, CallKeeps

\* A default is set.
LEMMA DefaultSet ==
  ASSUME CfInv, NEW n \in CfTables, NEW act \in CfActs(n), CfOp(n), cfPkt' = cfPkt,
         cfTable' = [cfTable EXCEPT ![n].default = DefaultOf(n, act)],
         cfRef' = [cfRef EXCEPT ![n].default = act]
  PROVE  CfInv'
<1> DEFINE r == cfRef[n]
           new == [entries |-> r.entries, default |-> act]
<1>1. /\ DOMAIN cfRef = CfTables /\ DOMAIN cfTable = CfTables /\ cfTable[n] = Stored(n, r)
      /\ r \in [entries : [CfKeys -> CfActs(n)], default : CfActs(n)]
  BY CfInvIs DEF TablesOK
<1>2. new \in [entries : [CfKeys -> CfActs(n)], default : CfActs(n)]
  BY <1>1
<1>3. cfRef' = [cfRef EXCEPT ![n] = new]
  <2>1. cfRef' = [cfRef EXCEPT ![n] = [r EXCEPT !.default = act]]
    OBVIOUS
  <2>2. SetDflt(r, act) = new
    BY <1>1, TwoIs, TwoFields
  <2>3. QED
    BY <2>1, <2>2 DEF SetDflt
<1>4. Stored(n, new) = [Stored(n, r) EXCEPT !.default = DefaultOf(n, act)]
  <2>1. SetDflt(Stored(n, r), DefaultOf(n, act))
          = [entries |-> Stored(n, r).entries, default |-> DefaultOf(n, act)]
    BY StoredRecord, TwoFields
  <2>2. Stored(n, new) = [entries |-> Stored(n, r).entries, default |-> DefaultOf(n, act)]
    BY DEF Stored
  <2>3. QED
    BY <2>1, <2>2 DEF SetDflt
<1>5. cfTable' = [cfTable EXCEPT ![n] = Stored(n, new)]
  BY <1>1, <1>4
<1> HIDE DEF new
<1>6. QED
  BY <1>2, <1>3, <1>5, CallKeeps

\* The entries go, with the default or without.
LEMMA EntriesGone ==
  ASSUME CfInv, NEW n \in CfTables, NEW d \in BOOLEAN, CfClearEntries(n, d)
  PROVE  CfInv'
<1> DEFINE r == cfRef[n]
           f == [k \in CfKeys |-> "none"]
           act == IF d THEN CfNodes[n].dflt ELSE r.default
           g == [k \in CfKeys |-> NoEntry]
           new == [entries |-> f, default |-> act]
<1>1. /\ DOMAIN cfRef = CfTables /\ DOMAIN cfTable = CfTables /\ cfTable[n] = Stored(n, r)
      /\ r \in [entries : [CfKeys -> CfActs(n)], default : CfActs(n)]
  BY CfInvIs DEF TablesOK
<1>2. act \in CfActs(n) /\ f \in [CfKeys -> CfActs(n)]
  BY <1>1, TableNode DEF CfActs
<1>3. CfOp(n) /\ cfPkt' = cfPkt
  BY DEF CfClearEntries
<1>4. cfRef' = [cfRef EXCEPT ![n] = [r EXCEPT !.entries = f, !.default = act]]
  BY <1>1 DEF CfClearEntries
<1>5. cfTable' = [cfTable EXCEPT ![n] = [Stored(n, r) EXCEPT !.entries = g,
                    !.default = IF d THEN DefaultDefault(n) ELSE Stored(n, r).default]]
  BY <1>1 DEF CfClearEntries
<1>6. (IF d THEN DefaultDefault(n) ELSE Stored(n, r).default) = DefaultOf(n, act)
  BY DefaultDefaultIs DEF Stored
<1>7. Stored(n, new) = [entries |-> g, default |-> DefaultOf(n, act)]
  BY DEF Stored, EntryOf
<1> HIDE DEF f, g, act
<1>9. cfRef' = [cfRef EXCEPT ![n] = new]
      /\ new \in [entries : [CfKeys -> CfActs(n)], default : CfActs(n)]
  <2>1. SetBoth(r, f, act) = new
    BY <1>1, TwoIs, BothFields
  <2>2. QED
    BY <1>2, <1>4, <2>1 DEF SetBoth
<1>10. cfTable' = [cfTable EXCEPT ![n] = Stored(n, new)]
  <2> DEFINE y == IF d THEN DefaultDefault(n) ELSE Stored(n, r).default
  <2>1. SetBoth(Stored(n, r), g, y) = [entries |-> g, default |-> y]
    <3> HIDE DEF y
    <3>1. QED
      BY StoredRecord, BothFields
  <2>2. QED
    BY <1>5, <1>6, <1>7, <2>1 DEF SetBoth
<1> HIDE DEF new
<1>11. QED
  BY <1>3, <1>9, <1>10, CallKeeps

\* Every step of a packet or a client keeps the invariant.
LEMMA CfNextKeeps ==
  ASSUME CfInv, [CfNext]_cfVars
  PROVE  CfInv'
<1>1. ASSUME NEW t \in CfThreads, ApplyTable(t) PROVE CfInv'
  BY <1>1, ApplyTableKeeps
<1>2. ASSUME NEW t \in CfThreads,
             ApplyCondition(t) \/ ApplyCall(t) \/ PipelineExit(t) \/ \E k \in CfKeys : PipelineStart(t, k)
      PROVE  CfInv'
  BY <1>2, OtherNodesKeep
<1>3. ASSUME NEW n \in CfTables, NEW k \in CfKeys, DeleteKey(n, k) PROVE CfInv'
  <2>1. "none" \in CfActs(n) /\ EntryOf(n, "none") = NoEntry
    BY DEF CfActs, EntryOf
  <2>2. QED
    BY <1>3, <2>1, EntrySet DEF DeleteKey
<1>4. ASSUME NEW n \in CfTables, NEW k \in CfKeys, NEW act \in DOMAIN CfNodes[n].next, AddOrModify(n, k, act)
      PROVE  CfInv'
  BY <1>4, EntrySet DEF AddOrModify, CfActs
<1>5. ASSUME NEW n \in CfTables, NEW act \in DOMAIN CfNodes[n].next, CfSetDefault(n, act) PROVE CfInv'
  <2>1. act \in CfActs(n) /\ act # "none"
    BY <1>5, TableNode DEF CfActs
  <2>2. NewDefault(n, act) = DefaultOf(n, act)
    BY <2>1 DEF NewDefault, DefaultOf
  <2>3. QED
    BY <1>5, <2>1, <2>2, DefaultSet DEF CfSetDefault
<1>6. ASSUME NEW n \in CfTables, ResetDefault(n) PROVE CfInv'
  <2>1. CfNodes[n].dflt \in CfActs(n) /\ DefaultDefault(n) = DefaultOf(n, CfNodes[n].dflt)
    BY TableNode, DefaultDefaultIs
  <2>2. QED
    BY <1>6, <2>1, DefaultSet DEF ResetDefault
<1>7. ASSUME NEW n \in CfTables, NEW d \in BOOLEAN, CfClearEntries(n, d) PROVE CfInv'
  BY <1>7, EntriesGone
<1>8. CASE UNCHANGED cfVars
  BY <1>8, CfInvIs DEF cfVars, PacketFollowsProgram
<1>9. QED
  BY <1>1, <1>2, <1>3, <1>4, <1>5, <1>6, <1>7, <1>8 DEF CfNext

\* The inductive invariant of the control flow: the node stored with every entry
\* and default of every table is the one the JSON gives for its action.
THEOREM ControlInvariant == CfSpec => []CfInv
<1>1. CfInit => CfInv
  BY CfInitOK
<1>2. CfInv /\ [CfNext]_cfVars => CfInv'
  BY CfNextKeeps
<1>3. QED
  BY <1>1, <1>2, PTL DEF CfSpec

\* Every packet is where the program leads it, for every configuration that
\* P4Objects accepts, whatever the control plane does between two nodes.
THEOREM ControlAlwaysFollowsProgram == CfSpec => []ControlFollowsProgram
<1>1. CfInv => ControlFollowsProgram
  <2>1. ASSUME CfInv, NEW n \in CfTables PROVE cfTable[n].default.next \in CfPlaces
    <3>1. cfRef[n].default \in CfActs(n) /\ cfTable[n] = Stored(n, cfRef[n])
      BY <2>1, CfInvIs DEF TablesOK
    <3>2. cfTable[n].default = DefaultOf(n, cfRef[n].default)
      BY <3>1 DEF Stored
    <3>3. QED
      BY <3>1, <3>2, StoredIs
  <2>2. ASSUME CfInv, NEW t \in CfThreads PROVE cfPkt[t].node \in CfPlaces /\ cfPkt[t].key \in CfKeys
    BY <2>2, CfInvIs
  <2>3. QED
    BY <2>1, <2>2, CfInvIs DEF ControlFollowsProgram, CfTypeOK
<1>2. QED
  BY <1>1, ControlInvariant, PTL

-----------------------------------------------------------------------------
(* AgeingMonitor.                                                          *)

\* What a sweep finds expired are handles.
LEMMA ExpiredHandles ==
  ASSUME AgeTypeOK, NEW t
  PROVE  Expired(t) \subseteq AgeHandles
<1>1. ASSUME NEW x \in ageLive PROVE AgeHandle(x) \in AgeHandles
  <2>1. x \in AgeSlots /\ ageVersion[x] \in 0 .. AgeVersions - 1
    BY DEF AgeTypeOK
  <2>2. QED
    BY <2>1 DEF AgeHandle, AgeHandles
<1>2. QED
  BY <1>1 DEF Expired

\* One table of a sweep: what becomes of its three sets.
LEMMA SweepFacts ==
  ASSUME SweepInv, SweepTable
  PROVE  \E t \in Tables, e \in SUBSET AgeHandles :
           /\ ageAt # 0 /\ t = AgeTables[ageAt] /\ ageTmp' = {} /\ ageEntries' = {}
           /\ agePrev' = [agePrev EXCEPT ![t] = e \ agePrev[t]]
           /\ ageExpired' = [ageExpired EXCEPT ![t] = e]
           /\ ageNotified' = [ageNotified EXCEPT ![t] = e \ agePrev[t]]
           /\ ageAt' \in 0 .. Len(AgeTables) /\ UNCHANGED ageTable
<1> DEFINE t == AgeTables[ageAt]
           e == Expired(t)
<1>1. ageTmp = {} /\ ageEntries = {} /\ ageAt \in 0 .. Len(AgeTables) /\ ageAt # 0
  BY DEF SweepInv, AgeTypeOK, SweepTable
<1>2. Len(AgeTables) \in Nat /\ Len(AgeTables) > 0
  BY AgeAssumption
<1>3. ageAt \in 1 .. Len(AgeTables)
  BY <1>1, <1>2
<1>4. t \in Tables
  BY <1>3 DEF Tables
<1>5. e \in SUBSET AgeHandles
  BY ExpiredHandles DEF SweepInv
<1>6. (ageAt + 1) % (Len(AgeTables) + 1) \in 0 .. Len(AgeTables)
  BY <1>2, <1>3
<1> HIDE DEF e
<1>7. ageTmp' = {} /\ ageEntries' = {}
  BY <1>1 DEF SweepTable, e
<1>8. /\ agePrev' = [agePrev EXCEPT ![t] = IF e = {} THEN {} ELSE e \ agePrev[t]]
      /\ ageExpired' = [ageExpired EXCEPT ![t] = e]
      /\ ageNotified' = [ageNotified EXCEPT ![t] = IF e = {} THEN {} ELSE e \ agePrev[t]]
      /\ ageAt' = (ageAt + 1) % (Len(AgeTables) + 1) /\ UNCHANGED ageTable
  BY <1>1 DEF SweepTable, e
<1>9. (IF e = {} THEN {} ELSE e \ agePrev[t]) = e \ agePrev[t]
  OBVIOUS
<1>10. QED
  BY <1>1, <1>4, <1>5, <1>6, <1>7, <1>8, <1>9

\* One table of a sweep reports what the last sweep did not.
LEMMA SweepTableKeeps ==
  ASSUME SweepInv, SweepTable
  PROVE  SweepInv' /\ ReportedEveryOtherSweep
<1>1. PICK t \in Tables, e \in SUBSET AgeHandles :
         /\ ageAt # 0 /\ t = AgeTables[ageAt] /\ ageTmp' = {} /\ ageEntries' = {}
         /\ agePrev' = [agePrev EXCEPT ![t] = e \ agePrev[t]]
         /\ ageExpired' = [ageExpired EXCEPT ![t] = e]
         /\ ageNotified' = [ageNotified EXCEPT ![t] = e \ agePrev[t]]
         /\ ageAt' \in 0 .. Len(AgeTables) /\ UNCHANGED ageTable
  BY SweepFacts
<1>2. /\ agePrev \in [Tables -> SUBSET AgeHandles] /\ ageExpired \in [Tables -> SUBSET AgeHandles]
      /\ ageNotified = agePrev /\ \A s \in Tables : agePrev[s] \subseteq ageExpired[s]
  BY DEF SweepInv, AgeTypeOK
<1>3. /\ agePrev' \in [Tables -> SUBSET AgeHandles] /\ ageExpired' \in [Tables -> SUBSET AgeHandles]
      /\ ageNotified' = agePrev'
  BY <1>1, <1>2
<1>4. \A s \in Tables : agePrev'[s] \subseteq ageExpired'[s]
  BY <1>1, <1>2
<1>5. AgeTypeOK'
  BY <1>1, <1>3 DEF SweepInv, AgeTypeOK, ageTable
<1>6. SweepInv'
  BY <1>1, <1>3, <1>4, <1>5 DEF SweepInv
<1>7. ReportedEveryOtherSweep
  <2>1. ageNotified'[t] = e \ agePrev[t] /\ ageExpired'[t] = e /\ ageNotified[t] = agePrev[t]
    BY <1>1, <1>2
  <2>2. QED
    BY <1>1, <2>1 DEF ReportedEveryOtherSweep
<1>8. QED
  BY <1>6, <1>7

\* Every other step leaves the sweep where it is, or begins one.
LEMMA NoSweepKeeps ==
  ASSUME SweepInv, [AgeNext]_ageVars, ~SweepTable
  PROVE  SweepInv' /\ ReportedEveryOtherSweep
<1> USE AgeAssumption
<1>1. ASSUME UNCHANGED ageMonitor, ageLive' \subseteq AgeSlots,
             ageVersion' \in [AgeSlots -> 0 .. AgeVersions - 1],
             ageTtl' \in [AgeSlots -> AgeTtls \cup {0}], ageIdle' \in [AgeSlots -> 0 .. AgeMaxIdle]
      PROVE  SweepInv' /\ ReportedEveryOtherSweep
  BY <1>1 DEF SweepInv, AgeTypeOK, ageMonitor, ReportedEveryOtherSweep
<1>2. /\ ageLive \subseteq AgeSlots /\ ageVersion \in [AgeSlots -> 0 .. AgeVersions - 1]
      /\ ageTtl \in [AgeSlots -> AgeTtls \cup {0}] /\ ageIdle \in [AgeSlots -> 0 .. AgeMaxIdle]
  BY DEF SweepInv, AgeTypeOK
<1>3. ASSUME NEW x \in AgeSlots, AgeAdd(x) PROVE SweepInv' /\ ReportedEveryOtherSweep
  BY <1>1, <1>2, <1>3 DEF AgeAdd
<1>4. ASSUME NEW x \in AgeSlots, AgeDelete(x) PROVE SweepInv' /\ ReportedEveryOtherSweep
  <2>1. (ageVersion[x] + 1) % AgeVersions \in 0 .. AgeVersions - 1
    BY <1>2
  <2>2. ageVersion' \in [AgeSlots -> 0 .. AgeVersions - 1]
    BY <1>2, <1>4, <2>1 DEF AgeDelete
  <2>3. QED
    BY <1>1, <1>2, <1>4, <2>2 DEF AgeDelete
<1>5. ASSUME NEW x \in AgeSlots, NEW ttl \in AgeTtls, AgeSetTtl(x, ttl)
      PROVE  SweepInv' /\ ReportedEveryOtherSweep
  BY <1>1, <1>2, <1>5 DEF AgeSetTtl
<1>6. ASSUME NEW x \in AgeSlots, AgeHit(x) PROVE SweepInv' /\ ReportedEveryOtherSweep
  BY <1>1, <1>2, <1>6 DEF AgeHit
<1>7. CASE AgeTick
  <2>1. ageIdle' \in [AgeSlots -> 0 .. AgeMaxIdle]
    <3>1. \A x \in AgeSlots : (IF x \in ageLive /\ ageIdle[x] < AgeMaxIdle
                               THEN ageIdle[x] + 1 ELSE ageIdle[x]) \in 0 .. AgeMaxIdle
      BY <1>2
    <3>2. QED
      BY <1>7, <3>1 DEF AgeTick
  <2>2. QED
    BY <1>1, <1>2, <1>7, <2>1 DEF AgeTick
<1>8. CASE SweepBegin
  <2>1. ageAt' \in 0 .. Len(AgeTables)
    BY <1>8 DEF SweepBegin
  <2>2. SweepInv'
    BY <1>8, <2>1 DEF SweepBegin, SweepInv, AgeTypeOK, ageTable
  <2>3. QED
    BY <1>8, <2>2 DEF SweepBegin, ReportedEveryOtherSweep
<1>9. CASE AgeResetState
  <2>1. SweepInv'
    BY <1>9 DEF AgeResetState, SweepInv, AgeTypeOK, ageTable
  <2>2. QED
    BY <1>9, <2>1 DEF AgeResetState, ReportedEveryOtherSweep
<1>10. CASE UNCHANGED ageVars
  BY <1>1, <1>2, <1>10 DEF ageVars, ageMonitor
<1>11. QED
  BY <1>3, <1>4, <1>5, <1>6, <1>7, <1>8, <1>9, <1>10 DEF AgeNext

\* An entry that stays expired is notified by every other sweep, whatever is
\* added, deleted and hit between the sweeps of two tables.
THEOREM SweepsAreSound == AgeSpec => SweepsSound
<1>1. AgeInit => SweepInv
  BY AgeAssumption DEF AgeInit, SweepInv, AgeTypeOK
<1>2. SweepInv /\ [AgeNext]_ageVars => SweepInv' /\ ReportedEveryOtherSweep
  BY SweepTableKeeps, NoSweepKeeps
<1>3. SweepInv' => AgeTypeOK'
  BY DEF SweepInv
<1>4. QED
  BY <1>1, <1>2, <1>3, PTL DEF AgeSpec, SweepsSound

-----------------------------------------------------------------------------
(* Registers.                                                              *)

\* What is stored fits the width of the register.
LEMMA MaskedFits ==
  ASSUME NEW v \in Nat
  PROVE  Masked(v) \in 0..2 ^ RgBits - 1
<1> DEFINE w == 2 ^ RgBits
<1>1. w \in Nat \ {0}
  BY RgAssumption
<1> HIDE DEF w
<1>2. v % w \in 0..w - 1
  BY <1>1
<1> QED  BY <1>2 DEF Masked, w

\* The loop of an action never goes back before its first primitive.
LEMMA NextIdxIs ==
  ASSUME NEW act \in RgActions, NEW i \in 1..Len(act), NEW tmp
  PROVE  NextIdx(act[i], i, tmp) \in Nat \ {0}
<1>1. act[i].op \in {"jump", "jump_if_zero"} => act[i].target \in Nat \ {0}
  BY RgAssumption
<1>2. Len(act) \in Nat
  BY RgAssumption
<1> QED  BY <1>1, <1>2 DEF NextIdx

\* An array an action refers to is one of the switch.
LEMMA SyncArrays ==
  ASSUME NEW act \in RgActions
  PROVE  RegisterSync(act) \subseteq RgArrays
BY RgAssumption DEF RegisterSync

\* No register array is taken and no action runs at the start.
LEMMA RgStarts ==
  RgInit => RgInv
<1> SUFFICES ASSUME RgInit PROVE RgInv
  OBVIOUS
<1> DEFINE w == 2 ^ RgBits
<1>1. 0 \in 0..w - 1
  BY RgAssumption
<1> HIDE DEF w
<1>2. RgIdle \in [act : RgActions \cup {<<>>}, idx : Nat, tmp : 0..w - 1, left : Nat]
  BY <1>1, RgAssumption DEF RgIdle
<1>3. RgIdle.idx = 0 /\ RgIdle.act = <<>>
  BY DEF RgIdle
<1> QED  BY <1>1, <1>2, <1>3 DEF RgInit, RgInv, RgTypeOK, w

\* Taking the mutexes of an action.
LEMMA RgLocks ==
  ASSUME RgInv, NEW t \in RgThreads, NEW act \in RgActions, ActionLock(t, act)
  PROVE  RgInv' /\ ExclusiveAccess
<1> DEFINE w == 2 ^ RgBits
<1> DEFINE s == [act |-> act, idx |-> 1, tmp |-> 0, left |-> rgThread[t].left - 1]
<1>1. 0 \in 0..w - 1
  BY RgAssumption
<1> HIDE DEF w
<1>2. s \in [act : RgActions \cup {<<>>}, idx : Nat, tmp : 0..w - 1, left : Nat]
  BY <1>1 DEF RgInv, ActionLock
<1>3. s.act = act
  OBVIOUS
<1>4. rgThread' = [rgThread EXCEPT ![t] = s] /\ rgValue' = rgValue
  BY DEF ActionLock
<1> HIDE DEF s
<1>5. rgOwner' \in [RgArrays -> RgThreads \cup {RgFree}]
  BY DEF ActionLock, RgInv, RgTypeOK
<1>6. rgThread' \in [RgThreads -> [act : RgActions \cup {<<>>}, idx : Nat,
                                   tmp : 0..w - 1, left : Nat]]
  BY <1>2, <1>4 DEF RgInv, w
<1>7. ASSUME NEW u \in RgThreads, rgThread'[u].idx # 0
      PROVE  /\ rgThread'[u].act \in RgActions
             /\ \A a \in RegisterSync(rgThread'[u].act) : rgOwner'[a] = u
  <2>1. CASE u = t
    BY <2>1, <1>3, <1>4, SyncArrays DEF ActionLock, RgInv
  <2>2. CASE u # t
    <3>1. rgThread'[u] = rgThread[u]
      BY <2>2, <1>4 DEF RgInv
    <3>2. rgThread[u].act \in RgActions
          /\ \A a \in RegisterSync(rgThread[u].act) : rgOwner[a] = u
      BY <3>1, <1>7 DEF RgInv
    <3>3. \A a \in RegisterSync(rgThread[u].act) : a \in RgArrays /\ a \notin RegisterSync(act)
      BY <3>2, SyncArrays, RgAssumption DEF ActionLock, RgFree
    <3> QED  BY <3>1, <3>2, <3>3 DEF ActionLock
  <2> QED  BY <2>1, <2>2
<1>8. RgTypeOK'
  BY <1>4, <1>5, <1>6 DEF RgInv, RgTypeOK
<1>9. RgInv'
  BY <1>6, <1>7, <1>8 DEF RgInv, w
<1> QED  BY <1>9, <1>4 DEF ExclusiveAccess

\* A primitive of an action: a store goes to an array whose mutex the action holds.
LEMMA RgExecutes ==
  ASSUME RgInv, NEW t \in RgThreads, ExecutePrimitive(t)
  PROVE  RgInv' /\ ExclusiveAccess
<1> DEFINE w == 2 ^ RgBits
<1> DEFINE act == rgThread[t].act
<1> DEFINE idx == rgThread[t].idx
<1> DEFINE prim == act[idx]
<1> DEFINE next == NextIdx(prim, idx, rgThread[t].tmp)
<1> DEFINE tmp == IF prim.op = "load" THEN rgValue[prim.array] ELSE rgThread[t].tmp
<1> DEFINE val == Masked(rgThread[t].tmp + 1)
<1>1. act \in RgActions /\ idx \in 1..Len(act) /\ Len(act) \in Nat
  <2>1. idx \in 1..Len(act) /\ idx \in Nat
    BY DEF ExecutePrimitive, RgInv
  <2>2. idx # 0
    BY <2>1
  <2>3. act \in RgActions
    BY <2>2 DEF RgInv
  <2> QED  BY <2>1, <2>3, RgAssumption
<1>2. prim.op \in {"load", "store"} => prim.array \in RegisterSync(act)
  BY <1>1 DEF RegisterSync
<1>3. prim.op \in {"load", "store"} => prim.array \in RgArrays /\ rgOwner[prim.array] = t
  BY <1>1, <1>2, SyncArrays DEF RgInv
<1>4. next \in Nat \ {0} /\ next # 0
  BY <1>1, NextIdxIs
<1>5. rgThread[t].tmp \in 0..w - 1 /\ rgValue \in [RgArrays -> 0..w - 1]
  BY DEF RgInv, RgTypeOK
<1>6. tmp \in 0..w - 1
  BY <1>3, <1>5
<1>7. val \in 0..w - 1
  <2>1. rgThread[t].tmp + 1 \in Nat
    BY <1>5
  <2> QED  BY <2>1, MaskedFits
<1>8. /\ rgThread' = [rgThread EXCEPT ![t].idx = next, ![t].tmp = tmp]
      /\ rgValue' = IF prim.op = "store" THEN [rgValue EXCEPT ![prim.array] = val] ELSE rgValue
      /\ rgOwner' = rgOwner
  BY DEF ExecutePrimitive
<1>9. next # idx \/ prim.op \in {"jump", "jump_if_zero"}
  BY <1>1 DEF NextIdx
<1> HIDE DEF w, next, tmp, val
<1>10. rgThread'[t] = [rgThread[t] EXCEPT !.idx = next, !.tmp = tmp]
       /\ \A u \in RgThreads \ {t} : rgThread'[u] = rgThread[u]
  BY <1>8 DEF RgInv
<1>11. rgThread' \in [RgThreads -> [act : RgActions \cup {<<>>}, idx : Nat,
                                    tmp : 0..w - 1, left : Nat]]
  <2>1. rgThread \in [RgThreads -> [act : RgActions \cup {<<>>}, idx : Nat,
                                    tmp : 0..w - 1, left : Nat]]
    BY DEF RgInv, w
  <2> HIDE DEF prim, idx, act
  <2> QED  BY <1>4, <1>6, <1>8, <2>1
<1>12. \A u \in RgThreads : rgThread'[u].act = rgThread[u].act
  BY <1>10, ZenonT(40) DEF RgInv
<1>13. rgValue' \in [RgArrays -> 0..w - 1]
  <2> HIDE DEF prim
  <2> QED  BY <1>3, <1>5, <1>7, <1>8
<1>14. RgTypeOK'
  BY <1>8, <1>11, <1>13 DEF RgInv, RgTypeOK, w
<1>15. rgThread[t].idx # 0
  BY <1>1
<1>16. RgInv'
  <2>1. ASSUME NEW u \in RgThreads, rgThread'[u].idx # 0
        PROVE  /\ rgThread'[u].act \in RgActions
               /\ \A a \in RegisterSync(rgThread'[u].act) : rgOwner'[a] = u
    <3>1. rgThread[u].idx # 0
      BY <2>1, <1>10, <1>15
    <3> QED  BY <3>1, <1>8, <1>12 DEF RgInv
  <2> QED  BY <2>1, <1>11, <1>14 DEF RgInv, w
<1>17. ASSUME NEW u \in RgThreads, rgThread[u].idx # 0, rgThread'[u] = rgThread[u],
              NEW i \in 1..Len(rgThread[u].act), rgThread[u].act[i].op \in {"load", "store"}
       PROVE  rgValue'[rgThread[u].act[i].array] = rgValue[rgThread[u].act[i].array]
  <2>1. CASE prim.op # "store"
    BY <2>1, <1>8
  <2>2. CASE prim.op = "store"
    <3>1. next # idx
      BY <2>2, <1>9
    <3>2. rgThread'[t].idx = next
      BY <1>10 DEF RgInv
    <3>3. u # t
      BY <3>1, <3>2, <1>17
    <3>4. rgThread[u].act[i].array \in RegisterSync(rgThread[u].act)
      BY <1>17 DEF RegisterSync
    <3>5. rgThread[u].act \in RgActions /\ rgOwner[rgThread[u].act[i].array] = u
      BY <3>4, <1>17 DEF RgInv
    <3>6. rgThread[u].act[i].array # prim.array
      BY <3>3, <3>5, <2>2, <1>3
    <3> HIDE DEF prim
    <3> QED  BY <3>6, <2>2, <1>3, <1>5, <1>8
  <2> QED  BY <2>1, <2>2
<1> QED  BY <1>16, <1>17 DEF ExclusiveAccess

\* The end of an action gives its mutexes back.
LEMMA RgUnlocks ==
  ASSUME RgInv, NEW t \in RgThreads, ActionUnlock(t)
  PROVE  RgInv' /\ ExclusiveAccess
<1> DEFINE w == 2 ^ RgBits
<1> DEFINE s == [RgIdle EXCEPT !.left = rgThread[t].left]
<1>1. 0 \in 0..w - 1
  BY RgAssumption
<1> HIDE DEF w
<1>2. s \in [act : RgActions \cup {<<>>}, idx : Nat, tmp : 0..w - 1, left : Nat]
  BY <1>1 DEF RgInv, RgIdle
<1>3. s.idx = 0
  BY DEF RgIdle
<1>4. rgThread' = [rgThread EXCEPT ![t] = s] /\ rgValue' = rgValue
  BY DEF ActionUnlock
<1> HIDE DEF s
<1>5. rgOwner' \in [RgArrays -> RgThreads \cup {RgFree}]
  BY DEF ActionUnlock, RgInv, RgTypeOK
<1>6. rgThread' \in [RgThreads -> [act : RgActions \cup {<<>>}, idx : Nat,
                                   tmp : 0..w - 1, left : Nat]]
  BY <1>2, <1>4 DEF RgInv, w
<1>7. ASSUME NEW u \in RgThreads, rgThread'[u].idx # 0
      PROVE  /\ rgThread'[u].act \in RgActions
             /\ \A a \in RegisterSync(rgThread'[u].act) : rgOwner'[a] = u
  <2>1. u # t /\ rgThread'[u] = rgThread[u]
    BY <1>3, <1>4, <1>7 DEF RgInv
  <2>2. rgThread[u].act \in RgActions
        /\ \A a \in RegisterSync(rgThread[u].act) : rgOwner[a] = u
    BY <2>1, <1>7 DEF RgInv
  <2> QED  BY <2>1, <2>2, SyncArrays DEF ActionUnlock
<1>8. RgTypeOK'
  BY <1>4, <1>5, <1>6 DEF RgInv, RgTypeOK
<1>9. RgInv'
  BY <1>6, <1>7, <1>8 DEF RgInv, w
<1> QED  BY <1>9, <1>4 DEF ExclusiveAccess

\* A write of the control plane waits for the mutex of the array.
LEMMA RgWrites ==
  ASSUME RgInv, NEW b \in RgArrays, NEW v \in 0..2 ^ RgBits, RegisterWrite(b, v)
  PROVE  RgInv' /\ ExclusiveAccess
<1> DEFINE w == 2 ^ RgBits
<1>1. v \in Nat
  BY RgAssumption
<1> DEFINE val == Masked(v)
<1>2. val \in 0..w - 1
  BY <1>1, MaskedFits
<1>3. rgValue' = [rgValue EXCEPT ![b] = val] /\ rgOwner[b] = RgFree
      /\ rgOwner' = rgOwner /\ rgThread' = rgThread
  BY DEF RegisterWrite
<1>4. rgValue \in [RgArrays -> 0..w - 1]
  BY DEF RgInv, RgTypeOK
<1> HIDE DEF w, val
<1>5. rgValue' \in [RgArrays -> 0..w - 1]
  BY <1>2, <1>3, <1>4
<1>6. RgInv'
  BY <1>3, <1>5 DEF RgInv, RgTypeOK, w
<1>7. ASSUME NEW u \in RgThreads, rgThread[u].idx # 0,
             NEW i \in 1..Len(rgThread[u].act), rgThread[u].act[i].op \in {"load", "store"}
      PROVE  rgValue'[rgThread[u].act[i].array] = rgValue[rgThread[u].act[i].array]
  <2>1. rgThread[u].act[i].array \in RegisterSync(rgThread[u].act)
    BY <1>7 DEF RegisterSync
  <2>2. rgOwner[rgThread[u].act[i].array] = u
    BY <2>1, <1>7 DEF RgInv
  <2>3. rgThread[u].act[i].array # b
    BY <2>2, <1>3, RgAssumption DEF RgFree
  <2> QED  BY <2>3, <1>3, <1>4
<1> QED  BY <1>6, <1>7 DEF ExclusiveAccess

\* reset_state takes no mutex, and keeps the registers in their width.
LEMMA RgResets ==
  ASSUME RgInv, NEW b \in RgArrays, RegisterReset(b)
  PROVE  RgInv' /\ ExclusiveAccess
<1> DEFINE w == 2 ^ RgBits
<1>1. 0 \in 0..w - 1
  BY RgAssumption
<1>2. rgValue \in [RgArrays -> 0..w - 1]
  BY DEF RgInv, RgTypeOK
<1> HIDE DEF w
<1>3. rgValue' \in [RgArrays -> 0..w - 1]
  BY <1>1, <1>2 DEF RegisterReset
<1>4. RgInv'
  BY <1>3 DEF RgInv, RgTypeOK, RegisterReset, w
<1> QED  BY <1>4 DEF ExclusiveAccess

\* RgInv is inductive, and every step respects the exclusive access.
LEMMA RgSteps ==
  ASSUME RgInv, RgNext
  PROVE  RgInv' /\ ExclusiveAccess
BY RgLocks, RgExecutes, RgUnlocks, RgWrites, RgResets DEF RgNext

\* While an action runs, no other action and no write of the control plane
\* changes a register it refers to, and registers never leave their width.
THEOREM RegistersAreExclusive ==
  RgSpec => RegistersExclusive
<1>1. RgInit => RgInv
  BY RgStarts
<1>2. RgInv /\ [RgNext]_rgVars => RgInv' /\ [RgTypeOK' /\ ExclusiveAccess]_rgVars
  <2>1. RgInv /\ UNCHANGED rgVars => RgInv'
    BY DEF RgInv, RgTypeOK, rgVars
  <2>2. RgInv' => RgTypeOK'
    BY DEF RgInv
  <2> QED  BY RgSteps, <2>1, <2>2
<1> QED  BY <1>1, <1>2, PTL DEF RgSpec, RegistersExclusive

-----------------------------------------------------------------------------
(* McPre: counting the members of a set from below.                        *)

\* Every set of numbers that is not empty has a smallest one.
LEMMA LeastNatural ==
  ASSUME NEW S, S \subseteq Nat, S # {}
  PROVE  \E n \in S : \A m \in S : n <= m
<1> DEFINE R == OpToRel(<, Nat)
<1>1. \A x, y \in Nat : <<x, y>> \in R <=> x < y
  BY DEF OpToRel
<1>2. IsWellFoundedOn(R, Nat)
  BY NatLessThanWellFounded
<1> HIDE DEF R
<1>3. PICK n \in S : \A m \in S : ~(<<m, n>> \in R)
  BY <1>2, WFMin
<1>4. ASSUME NEW m \in S PROVE n <= m
  <2>1. n \in Nat /\ m \in Nat /\ ~(m < n)
    BY <1>1, <1>3
  <2> QED  BY <2>1
<1> QED  BY <1>3, <1>4

\* The rank grows by one at every member, and only there.
LEMMA RankGrows ==
  ASSUME NEW S, IsFiniteSet(S), S \subseteq Nat, NEW i \in Nat
  PROVE  /\ Rank(S, i) \in Nat
         /\ Rank(S, 0) = IF 0 \in S THEN 1 ELSE 0
         /\ Rank(S, i + 1) = IF i + 1 \in S THEN Rank(S, i) + 1 ELSE Rank(S, i)
<1> DEFINE low(n) == {j \in S : j <= n}
<1>1. \A n \in Nat : IsFiniteSet(low(n)) /\ Cardinality(low(n)) \in Nat
  BY FS_Subset, FS_CardinalityType
<1>2. low(0) = IF 0 \in S THEN {0} ELSE {}
  <2>1. \A j \in S : j <= 0 <=> j = 0
    OBVIOUS
  <2> QED  BY <2>1
<1>3. Cardinality(low(0)) = IF 0 \in S THEN 1 ELSE 0
  <2>1. Cardinality({0}) = 1 /\ Cardinality({}) = 0
    BY FS_Singleton, FS_EmptySet
  <2> QED  BY <1>2, <2>1
<1>4. low(i + 1) = IF i + 1 \in S THEN low(i) \cup {i + 1} ELSE low(i)
  <2>1. \A j \in S : j <= i + 1 <=> j <= i \/ j = i + 1
    OBVIOUS
  <2> QED  BY <2>1
<1>5. i + 1 \notin low(i)
  OBVIOUS
<1>6. Cardinality(low(i) \cup {i + 1}) = Cardinality(low(i)) + 1
  <2> HIDE DEF low
  <2> QED  BY <1>1, <1>5, FS_AddElement
<1>7. Cardinality(low(i + 1)) = IF i + 1 \in S THEN Cardinality(low(i)) + 1 ELSE Cardinality(low(i))
  <2> HIDE DEF low
  <2> QED  BY <1>4, <1>6
<1> QED  BY <1>1, <1>3, <1>7 DEF Rank

\* The k-th member of a set from below: no smaller number has its rank.
LEMMA RankReaches ==
  ASSUME NEW n \in Nat, NEW S \in SUBSET (0..n), NEW k \in 1..Cardinality(S)
  PROVE  \E i \in S : Rank(S, i) = k /\ \A j \in 0..i - 1 : Rank(S, j) < k
<1>1. IsFiniteSet(S) /\ S \subseteq Nat
  <2>1. IsFiniteSet(0..n)
    BY FS_Interval
  <2>2. IsFiniteSet(S)
    BY <2>1, FS_Subset
  <2> QED  BY <2>2
<1>2. Cardinality(S) \in Nat
  BY <1>1, FS_CardinalityType
<1> DEFINE above == {i \in Nat : Rank(S, i) >= k}
<1>3. n \in above
  <2>1. {j \in S : j <= n} = S
    <3>1. \A j \in S : j <= n
      OBVIOUS
    <3> QED  BY <3>1
  <2>2. Rank(S, n) = Cardinality(S)
    BY <2>1 DEF Rank
  <2> QED  BY <2>2, <1>2
<1>4. PICK i \in above : \A j \in above : i <= j
  <2>1. above \subseteq Nat /\ above # {}
    BY <1>3
  <2> HIDE DEF above
  <2> QED  BY <2>1, LeastNatural
<1>5. \A j \in Nat : Rank(S, j) \in Nat
  BY <1>1, RankGrows
<1>6. \A j \in 0..i - 1 : Rank(S, j) < k
  BY <1>2, <1>4, <1>5
<1>7. i \in S /\ Rank(S, i) = k
  <2>1. CASE i = 0
    <3>1. Rank(S, 0) = IF 0 \in S THEN 1 ELSE 0
      BY <1>1, RankGrows
    <3> QED  BY <3>1, <2>1, <1>2, <1>4
  <2>2. CASE i # 0
    <3>1. PICK m \in Nat : i = m + 1 /\ m \in 0..i - 1
      <4>1. i - 1 \in Nat /\ i = (i - 1) + 1 /\ i - 1 \in 0..i - 1
        BY <2>2, <1>4
      <4> QED  BY <4>1
    <3>2. Rank(S, m + 1) = IF m + 1 \in S THEN Rank(S, m) + 1 ELSE Rank(S, m)
      BY <1>1, RankGrows
    <3>3. Rank(S, m) < k /\ Rank(S, m) \in Nat
      BY <1>5, <1>6, <3>1
    <3> QED  BY <3>1, <3>2, <3>3, <1>2, <1>4
  <2> QED  BY <2>1, <2>2
<1> QED  BY <1>6, <1>7

\* Every element of rest is one of list other than x, once if it was once there.
IsTrimmed(rest, list, x) ==
  \A k \in 1..Len(rest) :
    \E i \in 1..Len(list) :
      /\ rest[k] = list[i] /\ list[i] # x
      /\ \A m \in 1..Len(rest) :
           rest[m] = list[i]
           /\ (\A j \in 1..Len(list) : list[j] = list[i] => j = i) => m = k

\* What is left of a list without a node: its other nodes, once each if they
\* were listed once.
LEMMA RemovedIs ==
  ASSUME NEW H, NEW list \in Seq(H), NEW x
  PROVE  /\ Removed(list, x) \in Seq(H)
         /\ IsTrimmed(Removed(list, x), list, x)
<1> DEFINE kept == {i \in 1..Len(list) : list[i] # x}
<1> DEFINE at(k) == CHOOSE i \in kept : Rank(kept, i) = k
<1> DEFINE size == Cardinality(kept)
<1>1. Len(list) \in Nat /\ kept \in SUBSET (0..Len(list))
  OBVIOUS
<1>2. size \in Nat
  <2>1. IsFiniteSet(0..Len(list))
    BY <1>1, FS_Interval
  <2> QED  BY <1>1, <2>1, FS_Subset, FS_CardinalityType
<1>3. \A k \in 1..size : at(k) \in kept /\ Rank(kept, at(k)) = k
  <2> SUFFICES ASSUME NEW k \in 1..size PROVE at(k) \in kept /\ Rank(kept, at(k)) = k
    OBVIOUS
  <2> HIDE DEF kept
  <2>1. \E i \in kept : Rank(kept, i) = k
    BY <1>1, RankReaches
  <2> QED  BY <2>1
<1>4. Removed(list, x) = [k \in 1..size |-> list[at(k)]]
  BY DEF Removed
<1>5. \A k \in 1..size : at(k) \in 1..Len(list) /\ list[at(k)] # x /\ list[at(k)] \in H
  <2>1. \A i \in kept : i \in 1..Len(list) /\ list[i] # x /\ list[i] \in H
    OBVIOUS
  <2> HIDE DEF kept, at, size
  <2> QED  BY <1>3, <2>1
<1>6. \A k, m \in 1..size : at(m) = at(k) => m = k
  BY <1>3
<1> HIDE DEF at, size, kept
<1>7. Removed(list, x) \in Seq(H) /\ Len(Removed(list, x)) = size
  BY <1>2, <1>4, <1>5
<1>8. ASSUME NEW k \in 1..size
      PROVE  \E i \in 1..Len(list) :
                /\ Removed(list, x)[k] = list[i] /\ list[i] # x
                /\ \A m \in 1..size :
                     Removed(list, x)[m] = list[i]
                     /\ (\A j \in 1..Len(list) : list[j] = list[i] => j = i) => m = k
  <2>1. Removed(list, x)[k] = list[at(k)] /\ at(k) \in 1..Len(list) /\ list[at(k)] # x
    BY <1>4, <1>5
  <2>2. ASSUME NEW m \in 1..size, Removed(list, x)[m] = list[at(k)],
               \A j \in 1..Len(list) : list[j] = list[at(k)] => j = at(k)
        PROVE  m = k
    <3>1. list[at(m)] = list[at(k)] /\ at(m) \in 1..Len(list)
      BY <2>2, <1>4, <1>5
    <3> QED  BY <3>1, <2>2, <1>6
  <2> QED  BY <2>1, <2>2
<1> QED  BY <1>7, <1>8 DEF IsTrimmed

\* The port of a LAG with members is one of them.
LEMMA LagPortIsMember ==
  ASSUME NEW ports \in PortMaps, ports # {}
  PROVE  LagPort(ports) \in ports
<1>1. PrePorts \in Nat /\ PreLagHash \in Nat /\ ports \subseteq 0..PrePorts - 1
  BY PreAssumption DEF PortMaps
<1>2. PrePorts - 1 \in Nat /\ ports \in SUBSET Nat
  <2>1. PICK port \in ports : port \in 0..PrePorts - 1
    BY <1>1
  <2> QED  BY <1>1, <2>1
<1>3. IsFiniteSet(ports) /\ Cardinality(ports) \in Nat /\ Cardinality(ports) # 0
  <2>1. IsFiniteSet(0..PrePorts - 1)
    BY <1>2, FS_Interval
  <2>2. IsFiniteSet(ports)
    BY <1>1, <2>1, FS_Subset
  <2> QED  BY <2>2, FS_CardinalityType, FS_EmptySet
<1> DEFINE wanted == (PreLagHash % Cardinality(ports)) + 1
<1>4. wanted \in 1..Cardinality(ports)
  <2> DEFINE size == Cardinality(ports)
  <2> HIDE DEF size
  <2>1. size \in Nat \ {0}
    BY <1>3 DEF size
  <2>2. PreLagHash % size \in 0..size - 1
    BY <2>1, <1>1
  <2> QED  BY <2>1, <2>2 DEF size
<1> HIDE DEF wanted
<1>5. PICK q \in ports : Rank(ports, q) = wanted /\ \A j \in 0..q - 1 : Rank(ports, j) < wanted
  BY <1>1, <1>2, <1>4, RankReaches
<1> DEFINE good(p) == Rank(ports, p) = wanted /\ \A i \in 0..p - 1 : Rank(ports, i) # wanted
<1>6. wanted \in Nat /\ \A j \in Nat : Rank(ports, j) \in Nat
  <2>1. \A j \in Nat : Rank(ports, j) \in Nat
    BY <1>2, <1>3, RankGrows
  <2> QED  BY <1>3, <1>4, <2>1
<1>7. q \in 0..PrePorts - 1 /\ good(q)
  <2>1. q \in 0..PrePorts - 1
    BY <1>1
  <2>2. \A j \in 0..q - 1 : j \in Nat /\ Rank(ports, j) < wanted
    BY <2>1, <1>5
  <2> QED  BY <2>1, <2>2, <1>5, <1>6
<1> DEFINE p == LagPort(ports)
<1>8. p \in 0..PrePorts - 1 /\ good(p)
  <2>1. p = CHOOSE port \in 0..PrePorts - 1 : good(port)
    BY DEF LagPort, wanted
  <2> HIDE DEF good, p
  <2> QED  BY <2>1, <1>7
<1>9. ~(p < q)
  <2> HIDE DEF p
  <2>1. p < q => p \in 0..q - 1
    BY <1>7, <1>8
  <2> QED  BY <2>1, <1>5, <1>6, <1>8
<1>10. ~(q < p)
  <2> HIDE DEF p
  <2>1. q < p => q \in 0..p - 1
    BY <1>7, <1>8
  <2> QED  BY <2>1, <1>5, <1>8
<1>11. p = q
  <2> HIDE DEF p, good
  <2> QED  BY <1>7, <1>8, <1>9, <1>10
<1> QED  BY <1>11

\* While the table is not full, get_handle finds a handle that is free.
LEMMA FreeHandleIsFree ==
  ASSUME NEW f, DOMAIN f \subseteq PreHandles, Cardinality(DOMAIN f) < PreL1Max
  PROVE  FreeHandle(f) \in PreHandles \ DOMAIN f
<1> DEFINE free == PreHandles \ DOMAIN f
<1>1. PreHandles \subseteq Nat /\ IsFiniteSet(PreHandles) /\ Cardinality(PreHandles) = PreL1Max
  BY PreAssumption, FS_Interval DEF PreHandles
<1>2. free # {}
  <2>1. DOMAIN f # PreHandles
    BY <1>1, PreAssumption
  <2> QED  BY <2>1
<1>3. PICK h \in free : \A m \in free : h <= m
  <2>1. free \subseteq Nat
    BY <1>1
  <2> HIDE DEF free
  <2> QED  BY <1>2, <2>1, LeastNatural
<1>4. \A m \in 0..h - 1 : m \in DOMAIN f
  <2> SUFFICES ASSUME NEW m \in 0..h - 1, m \notin DOMAIN f PROVE FALSE
    OBVIOUS
  <2>1. h \in 0..PreL1Max - 1 /\ PreL1Max \in Nat
    BY <1>3, PreAssumption DEF PreHandles
  <2>2. m \in free
    BY <2>1 DEF PreHandles
  <2>3. h <= m
    BY <2>2, <1>3
  <2> QED  BY <2>1, <2>3
<1>5. \E g \in free : 0..g - 1 \subseteq DOMAIN f
  BY <1>4
<1> QED  BY <1>5 DEF FreeHandle

-----------------------------------------------------------------------------
(* McPre: the tree.                                                        *)

\* Setting and removing an entry of a map.
LEMMA WithIs ==
  ASSUME NEW f, NEW k, NEW v
  PROVE  /\ DOMAIN With(f, k, v) = DOMAIN f \cup {k}
         /\ With(f, k, v)[k] = v
         /\ \A x \in DOMAIN f : x # k => With(f, k, v)[x] = f[x]
BY DEF With

\* A key is taken out of a map, the others stay.
LEMMA WithoutIs ==
  ASSUME NEW f, NEW k
  PROVE  /\ DOMAIN Without(f, k) = DOMAIN f \ {k}
         /\ \A x \in DOMAIN f : x # k => Without(f, k)[x] = f[x]
BY DEF Without

\* A map with one more value keeps its type.
LEMMA WithTyped ==
  ASSUME NEW f, NEW k, NEW v, NEW R, f \in [DOMAIN f -> R], v \in R
  PROVE  With(f, k, v) \in [DOMAIN With(f, k, v) -> R]
BY DEF With

\* A map with a key less keeps its type.
LEMMA WithoutTyped ==
  ASSUME NEW f, NEW k, NEW R, f \in [DOMAIN f -> R]
  PROVE  Without(f, k) \in [DOMAIN Without(f, k) -> R]
BY DEF Without

\* A list without one of its nodes is sound, and does not hold it.
LEMMA ListTrimmed ==
  ASSUME PreInv, NEW g \in DOMAIN preGroups, NEW x
  PROVE  /\ Removed(preGroups[g], x) \in Seq(PreHandles)
         /\ ListSound(g, Removed(preGroups[g], x))
         /\ \A k \in 1..Len(Removed(preGroups[g], x)) : Removed(preGroups[g], x)[k] # x
<1> DEFINE list == preGroups[g]
<1> DEFINE rest == Removed(list, x)
<1>1. list \in Seq(PreHandles) /\ ListSound(g, list)
  BY DEF PreInv, PreMaps, ReplicationTreeSound
<1> HIDE DEF list
<1>2. /\ rest \in Seq(PreHandles)
      /\ IsTrimmed(rest, list, x)
  BY <1>1, RemovedIs
<1> HIDE DEF rest
<1>3. ASSUME NEW k \in 1..Len(rest)
      PROVE  /\ rest[k] \in DOMAIN preL1 /\ preL1[rest[k]].l2 \in DOMAIN preL2
             /\ preL1[rest[k]].associated /\ preL1[rest[k]].mgrp = g
             /\ \A m \in 1..Len(rest) : rest[m] = rest[k] => m = k
             /\ rest[k] # x
  <2>1. PICK i \in 1..Len(list) :
             /\ rest[k] = list[i] /\ list[i] # x
             /\ \A m \in 1..Len(rest) :
                  rest[m] = list[i]
                  /\ (\A j \in 1..Len(list) : list[j] = list[i] => j = i) => m = k
    BY <1>2 DEF IsTrimmed
  <2>2. /\ list[i] \in DOMAIN preL1 /\ preL1[list[i]].l2 \in DOMAIN preL2
        /\ preL1[list[i]].associated /\ preL1[list[i]].mgrp = g
        /\ \A j \in 1..Len(list) : list[j] = list[i] => j = i
    BY <1>1 DEF ListSound
  <2> QED  BY <2>1, <2>2
<1>4. ListSound(g, rest)
  BY <1>3 DEF ListSound
<1> QED  BY <1>2, <1>3, <1>4 DEF rest, list

\* Every node has an L2 node, and its own.
LEMMA NodeOwns ==
  ASSUME PreInv, NEW x \in DOMAIN preL1
  PROVE  /\ preL1[x] \in L1Nodes /\ preL1[x].l2 \in DOMAIN preL2
         /\ \A y \in DOMAIN preL1 : preL1[x].l2 = preL1[y].l2 => x = y
BY DEF PreInv, PreMaps, ReplicationTreeSound

\* At the start the replication engine is empty.
LEMMA PreStarts ==
  PreInit => PreInv
<1> SUFFICES ASSUME PreInit PROVE PreInv
  OBVIOUS
<1>1. preGroups = <<>> /\ preL1 = <<>> /\ preL2 = <<>> /\ preLag = <<>>
  BY DEF PreInit
<1>2. DOMAIN <<>> = {} /\ \A R : <<>> \in [{} -> R]
  OBVIOUS
<1>3. PreMaps
  BY <1>1, <1>2 DEF PreMaps
<1>4. ReplicationTreeSound
  BY <1>1, <1>2 DEF ReplicationTreeSound
<1> QED  BY <1>3, <1>4 DEF PreInv

\* reset_state empties it again.
LEMMA PreStartsAgain ==
  ASSUME PreResetState
  PROVE  PreInv'
<1>1. preGroups' = <<>> /\ preL1' = <<>> /\ preL2' = <<>> /\ preLag' = <<>>
  BY DEF PreResetState
<1>2. DOMAIN <<>> = {} /\ \A R : <<>> \in [{} -> R]
  OBVIOUS
<1>3. PreMaps'
  BY <1>1, <1>2 DEF PreMaps
<1>4. ReplicationTreeSound'
  BY <1>1, <1>2 DEF ReplicationTreeSound
<1> QED  BY <1>3, <1>4 DEF PreInv

\* A multicast group is created without nodes.
LEMMA MgrpCreateKeeps ==
  ASSUME PreInv, NEW g \in PreMgids, MgrpCreate(g)
  PROVE  PreInv'
<1> DEFINE new == IF g \in DOMAIN preGroups THEN preGroups[g] ELSE <<>>
<1>1. preGroups' = With(preGroups, g, new) /\ UNCHANGED <<preL1, preL2, preLag>>
  BY DEF MgrpCreate
<1>2. new \in Seq(PreHandles) /\ ListSound(g, new)
  <2>1. CASE g \in DOMAIN preGroups
    BY <2>1 DEF PreInv, PreMaps, ReplicationTreeSound
  <2>2. CASE g \notin DOMAIN preGroups
    <3>1. new = <<>> /\ 1..Len(new) = {} /\ new \in Seq(PreHandles)
      BY <2>2
    <3> HIDE DEF new
    <3> QED  BY <3>1 DEF ListSound
  <2> QED  BY <2>1, <2>2
<1> HIDE DEF new
<1>6. /\ DOMAIN preGroups' = DOMAIN preGroups \cup {g} /\ preGroups'[g] = new
      /\ \A h \in DOMAIN preGroups : h # g => preGroups'[h] = preGroups[h]
  <2>1. /\ DOMAIN With(preGroups, g, new) = DOMAIN preGroups \cup {g}
        /\ With(preGroups, g, new)[g] = new
        /\ \A h \in DOMAIN preGroups : h # g => With(preGroups, g, new)[h] = preGroups[h]
    BY DEF With
  <2> QED  BY <2>1, <1>1
<1>3. PreMaps'
  <2>1. DOMAIN preGroups' \subseteq PreMgids
    BY <1>6 DEF PreInv, PreMaps
  <2>2. preGroups' \in [DOMAIN preGroups' -> Seq(PreHandles)]
    BY <1>1, <1>2, WithTyped DEF PreInv, PreMaps
  <2> QED  BY <1>1, <2>1, <2>2 DEF PreInv, PreMaps, L1Nodes, L2Nodes
<1>4. ASSUME NEW h \in DOMAIN preGroups' PROVE ListSound(h, preGroups'[h])
  BY <1>2, <1>6 DEF PreInv, ReplicationTreeSound
<1>5. ReplicationTreeSound'
  BY <1>1, <1>4 DEF PreInv, ReplicationTreeSound, ListSound
<1> QED  BY <1>3, <1>5 DEF PreInv

\* A destroyed group leaves its nodes behind, which no packet finds.
LEMMA MgrpDestroyKeeps ==
  ASSUME PreInv, NEW g \in PreMgids, MgrpDestroy(g)
  PROVE  PreInv'
<1>1. preGroups' = Without(preGroups, g) /\ UNCHANGED <<preL1, preL2, preLag>>
  BY DEF MgrpDestroy
<1>2. DOMAIN preGroups' \subseteq DOMAIN preGroups
      /\ \A h \in DOMAIN preGroups' : preGroups'[h] = preGroups[h]
  BY <1>1, WithoutIs
<1>3. PreMaps'
  <2>1. preGroups' \in [DOMAIN preGroups' -> Seq(PreHandles)]
    BY <1>1, WithoutTyped DEF PreInv, PreMaps
  <2> QED  BY <1>1, <1>2, <2>1 DEF PreInv, PreMaps, L1Nodes, L2Nodes
<1>4. ReplicationTreeSound'
  BY <1>1, <1>2 DEF PreInv, ReplicationTreeSound, ListSound
<1> QED  BY <1>3, <1>4 DEF PreInv

\* There are as many L2 nodes as L1 nodes, so creating a node finds two handles.
LEMMA NodeCreateKeeps ==
  ASSUME PreInv, NEW ports \in PortMaps, NEW lags \in SUBSET PreLags, NodeCreate(ports, lags)
  PROVE  PreInv'
<1> DEFINE l1 == FreeHandle(preL1)
<1> DEFINE l2 == FreeHandle(preL2)
<1> DEFINE node == [l2 |-> l2, associated |-> FALSE, mgrp |-> 0]
<1> DEFINE leaf == [ports |-> ports, lags |-> lags]
<1>1. /\ Cardinality(DOMAIN preL1) < PreL1Max
      /\ preL1' = With(preL1, l1, node) /\ preL2' = With(preL2, l2, leaf)
      /\ UNCHANGED <<preGroups, preLag>>
  BY DEF NodeCreate
<1>2. DOMAIN preL1 \subseteq PreHandles /\ DOMAIN preL2 \subseteq PreHandles
  BY DEF PreInv, PreMaps, ReplicationTreeSound, L1Nodes
<1>3. IsFiniteSet(DOMAIN preL1) /\ PreL1Max \in Nat
  <2>1. PreL1Max \in Nat /\ IsFiniteSet(PreHandles)
    BY PreAssumption, FS_Interval DEF PreHandles
  <2> QED  BY <2>1, <1>2, FS_Subset
<1>4. Cardinality(DOMAIN preL2) < PreL1Max
  <2> DEFINE own == [x \in DOMAIN preL1 |-> preL1[x].l2]
  <2>1. own \in Surjection(DOMAIN preL1, DOMAIN preL2)
    <3>1. DOMAIN preL2 = {preL1[x].l2 : x \in DOMAIN preL1}
      BY DEF PreInv, ReplicationTreeSound
    <3> QED  BY <3>1 DEF Surjection
  <2> HIDE DEF own
  <2>2. IsFiniteSet(DOMAIN preL2) /\ Cardinality(DOMAIN preL2) <= Cardinality(DOMAIN preL1)
    BY <2>1, <1>3, FS_Surjection
  <2>3. Cardinality(DOMAIN preL1) \in Nat /\ Cardinality(DOMAIN preL2) \in Nat
    BY <2>2, <1>3, FS_CardinalityType
  <2> QED  BY <2>2, <2>3, <1>1, <1>3
<1>5. l1 \in PreHandles \ DOMAIN preL1 /\ l2 \in PreHandles \ DOMAIN preL2
  BY <1>1, <1>2, <1>4, FreeHandleIsFree
<1> HIDE DEF l1, l2
<1>6. node \in L1Nodes /\ node.l2 = l2 /\ leaf \in L2Nodes
  BY <1>5 DEF L1Nodes, L2Nodes
<1> HIDE DEF node, leaf
<1>7. /\ DOMAIN preL1' = DOMAIN preL1 \cup {l1} /\ preL1'[l1] = node
      /\ \A x \in DOMAIN preL1 : preL1'[x] = preL1[x]
      /\ DOMAIN preL2' = DOMAIN preL2 \cup {l2}
  <2>1. /\ DOMAIN With(preL1, l1, node) = DOMAIN preL1 \cup {l1} /\ With(preL1, l1, node)[l1] = node
        /\ \A x \in DOMAIN preL1 : x # l1 => With(preL1, l1, node)[x] = preL1[x]
    BY DEF With
  <2>2. DOMAIN With(preL2, l2, leaf) = DOMAIN preL2 \cup {l2}
    BY WithIs
  <2> QED  BY <2>1, <2>2, <1>1, <1>5
<1>8. PreMaps'
  <2>1. preL1' \in [DOMAIN preL1' -> L1Nodes] /\ preL2' \in [DOMAIN preL2' -> L2Nodes]
    BY <1>1, <1>6, WithTyped DEF PreInv, PreMaps
  <2> QED  BY <1>1, <1>2, <1>5, <1>7, <2>1 DEF PreInv, PreMaps, L1Nodes, L2Nodes
<1>9. \A h \in DOMAIN preGroups' : ListSound(h, preGroups[h])'
  BY <1>1, <1>7 DEF PreInv, ReplicationTreeSound, ListSound
<1>10. /\ \A x, y \in DOMAIN preL1' : preL1'[x].l2 = preL1'[y].l2 => x = y
       /\ DOMAIN preL2' = {preL1'[x].l2 : x \in DOMAIN preL1'}
  <2>1. \A x \in DOMAIN preL1 : preL1[x].l2 # l2
    BY <1>5, NodeOwns
  <2>2. DOMAIN preL2 = {preL1[x].l2 : x \in DOMAIN preL1}
    BY DEF PreInv, ReplicationTreeSound
  <2>3. DOMAIN preL2' = {preL1'[x].l2 : x \in DOMAIN preL1'}
    BY <1>6, <1>7, <2>2
  <2>4. \A x, y \in DOMAIN preL1' : preL1'[x].l2 = preL1'[y].l2 => x = y
    BY <1>6, <1>7, <2>1, NodeOwns
  <2> QED  BY <2>3, <2>4
<1>11. ReplicationTreeSound'
  BY <1>9, <1>10 DEF ReplicationTreeSound
<1> QED  BY <1>8, <1>11 DEF PreInv

\* A node is put into a group.
LEMMA NodeAssociateKeeps ==
  ASSUME PreInv, NEW g \in PreMgids, NEW l1 \in PreHandles, NodeAssociate(g, l1)
  PROVE  PreInv'
<1> DEFINE list == preGroups[g]
<1> DEFINE node == [preL1[l1] EXCEPT !.mgrp = g, !.associated = TRUE]
<1>1. /\ l1 \in DOMAIN preL1 /\ g \in DOMAIN preGroups /\ ~preL1[l1].associated
      /\ preGroups' = [preGroups EXCEPT ![g] = Append(list, l1)]
      /\ preL1' = [preL1 EXCEPT ![l1] = node]
      /\ UNCHANGED <<preL2, preLag>>
  BY DEF NodeAssociate
<1>2. list \in Seq(PreHandles) /\ ListSound(g, list) /\ preL1[l1] \in L1Nodes
      /\ preL1[l1].l2 \in DOMAIN preL2
  BY <1>1, NodeOwns DEF PreInv, PreMaps, ReplicationTreeSound
<1>3. /\ node \in L1Nodes /\ node.l2 = preL1[l1].l2
      /\ node.associated /\ node.mgrp = g
  BY <1>2 DEF L1Nodes
<1> HIDE DEF node
<1>4. /\ DOMAIN preL1' = DOMAIN preL1 /\ preL1'[l1] = node
      /\ \A x \in DOMAIN preL1 : x # l1 => preL1'[x] = preL1[x]
      /\ \A x \in DOMAIN preL1 : preL1'[x].l2 = preL1[x].l2
  BY <1>1, <1>3
<1>5. \A h \in DOMAIN preGroups : \A i \in 1..Len(preGroups[h]) : preGroups[h][i] # l1
  BY <1>1 DEF PreInv, ReplicationTreeSound, ListSound
<1>6. PreMaps'
  <2>1. preL1' \in [DOMAIN preL1' -> L1Nodes]
    BY <1>1, <1>3 DEF PreInv, PreMaps
  <2>2. Append(list, l1) \in Seq(PreHandles)
    BY <1>2
  <2> DEFINE lists == Seq(PreHandles)
  <2>3. preGroups \in [DOMAIN preGroups -> lists]
    BY DEF PreInv, PreMaps
  <2> HIDE DEF lists, list
  <2>4. preGroups' \in [DOMAIN preGroups' -> lists] /\ DOMAIN preGroups' = DOMAIN preGroups
    BY <1>1, <2>2, <2>3 DEF lists
  <2> QED  BY <1>1, <1>4, <2>1, <2>4 DEF PreInv, PreMaps, L1Nodes, L2Nodes, lists
<1>7. ASSUME NEW h \in DOMAIN preGroups' PROVE ListSound(h, preGroups[h])'
  <2>1. CASE h # g
    <3>1. preGroups'[h] = preGroups[h] /\ h \in DOMAIN preGroups
      BY <1>1, <2>1
    <3>2. ListSound(h, preGroups[h])
      BY <3>1 DEF PreInv, ReplicationTreeSound
    <3> QED  BY <3>1, <3>2, <1>1, <1>4, <1>5 DEF ListSound
  <2>2. CASE h = g
    <3> DEFINE longer == Append(list, l1)
    <3>1. preGroups'[h] = longer
      BY <1>1, <2>2
    <3>2. /\ Len(longer) = Len(list) + 1 /\ longer[Len(list) + 1] = l1 /\ Len(list) \in Nat
          /\ \A i \in 1..Len(list) : longer[i] = list[i]
      BY <1>2
    <3> HIDE DEF longer, list
    <3>3. \A i \in 1..Len(list) : list[i] # l1
      BY <1>1, <1>5 DEF list
    <3>4. \A i \in 1..Len(longer) : i \in 1..Len(list) \/ i = Len(list) + 1
      BY <3>2
    <3>5. ASSUME NEW i \in 1..Len(longer)
          PROVE  /\ longer[i] \in DOMAIN preL1' /\ preL1'[longer[i]].l2 \in DOMAIN preL2'
                 /\ preL1'[longer[i]].associated /\ preL1'[longer[i]].mgrp = g
                 /\ \A j \in 1..Len(longer) : longer[j] = longer[i] => j = i
      <4>1. CASE i \in 1..Len(list)
        <5>1. /\ longer[i] = list[i] /\ list[i] \in DOMAIN preL1 /\ preL1[list[i]].l2 \in DOMAIN preL2
              /\ preL1[list[i]].associated /\ preL1[list[i]].mgrp = g
              /\ \A j \in 1..Len(list) : list[j] = list[i] => j = i
          BY <4>1, <3>2, <1>2 DEF ListSound
        <5>2. \A j \in 1..Len(longer) : longer[j] = longer[i] => j = i
          BY <3>2, <3>3, <3>4, <4>1, <5>1
        <5> QED  BY <5>1, <5>2, <3>3, <4>1, <1>1, <1>4
      <4>2. CASE i = Len(list) + 1
        <5>1. longer[i] = l1
          BY <4>2, <3>2
        <5>2. \A j \in 1..Len(longer) : longer[j] = longer[i] => j = i
          BY <3>2, <3>3, <3>4, <4>2, <5>1
        <5> QED  BY <5>1, <5>2, <1>1, <1>2, <1>3, <1>4
      <4> QED  BY <4>1, <4>2, <3>4
    <3> QED  BY <3>1, <3>5, <2>2 DEF ListSound
  <2> QED  BY <2>1, <2>2
<1>8. /\ \A x, y \in DOMAIN preL1' : preL1'[x].l2 = preL1'[y].l2 => x = y
      /\ DOMAIN preL2' = {preL1'[x].l2 : x \in DOMAIN preL1'}
  <2>1. DOMAIN preL2 = {preL1[x].l2 : x \in DOMAIN preL1}
    BY DEF PreInv, ReplicationTreeSound
  <2>2. {preL1'[x].l2 : x \in DOMAIN preL1'} = {preL1[x].l2 : x \in DOMAIN preL1}
    BY <1>4
  <2>3. DOMAIN preL2' = {preL1'[x].l2 : x \in DOMAIN preL1'}
    BY <1>1, <2>1, <2>2
  <2>4. \A x, y \in DOMAIN preL1' : preL1'[x].l2 = preL1'[y].l2 => x = y
    BY <1>4, NodeOwns
  <2> QED  BY <2>3, <2>4
<1>9. ReplicationTreeSound'
  BY <1>7, <1>8 DEF ReplicationTreeSound
<1> QED  BY <1>6, <1>9 DEF PreInv

\* A node is taken out of its group.
LEMMA NodeDissociateKeeps ==
  ASSUME PreInv, NEW g \in PreMgids, NEW l1 \in PreHandles, NodeDissociate(g, l1)
  PROVE  PreInv'
<1> DEFINE rest == Removed(preGroups[g], l1)
<1> DEFINE node == [preL1[l1] EXCEPT !.associated = FALSE]
<1>1. /\ l1 \in DOMAIN preL1 /\ g \in DOMAIN preGroups /\ preL1[l1].mgrp = g
      /\ preGroups' = [preGroups EXCEPT ![g] = rest]
      /\ preL1' = [preL1 EXCEPT ![l1] = node]
      /\ UNCHANGED <<preL2, preLag>>
  BY DEF NodeDissociate, Dissociated
<1>2. rest \in Seq(PreHandles) /\ ListSound(g, rest) /\ \A k \in 1..Len(rest) : rest[k] # l1
  BY <1>1, ListTrimmed
<1> HIDE DEF rest
<1>3. node \in L1Nodes /\ node.l2 = preL1[l1].l2
  <2>1. preL1[l1] \in L1Nodes
    BY <1>1, NodeOwns
  <2> QED  BY <2>1 DEF L1Nodes
<1> HIDE DEF node
<1>4. /\ DOMAIN preL1' = DOMAIN preL1
      /\ \A x \in DOMAIN preL1 : x # l1 => preL1'[x] = preL1[x]
      /\ \A x \in DOMAIN preL1 : preL1'[x].l2 = preL1[x].l2
  BY <1>1, <1>3
<1>6. PreMaps'
  <2>1. preL1' \in [DOMAIN preL1' -> L1Nodes]
    BY <1>1, <1>3 DEF PreInv, PreMaps
  <2> DEFINE lists == Seq(PreHandles)
  <2>3. preGroups \in [DOMAIN preGroups -> lists]
    BY DEF PreInv, PreMaps
  <2> HIDE DEF lists
  <2>4. preGroups' \in [DOMAIN preGroups' -> lists] /\ DOMAIN preGroups' = DOMAIN preGroups
    BY <1>1, <1>2, <2>3 DEF lists
  <2> QED  BY <1>1, <1>4, <2>1, <2>4 DEF PreInv, PreMaps, L1Nodes, L2Nodes, lists
<1>7. ASSUME NEW h \in DOMAIN preGroups' PROVE ListSound(h, preGroups[h])'
  <2>0. h \in DOMAIN preGroups
    BY <1>1
  <2>1. ListSound(h, preGroups'[h]) /\ \A i \in 1..Len(preGroups'[h]) : preGroups'[h][i] # l1
    <3>1. CASE h = g
      BY <3>1, <1>1, <1>2
    <3>2. CASE h # g
      <4>1. preGroups'[h] = preGroups[h]
        BY <3>2, <2>0, <1>1
      <4>2. ListSound(h, preGroups[h])
        BY <2>0 DEF PreInv, ReplicationTreeSound
      <4> QED  BY <4>1, <4>2, <3>2, <1>1 DEF ListSound
    <3> QED  BY <3>1, <3>2
  <2> QED  BY <2>1, <1>1, <1>4 DEF ListSound
<1>8. /\ \A x, y \in DOMAIN preL1' : preL1'[x].l2 = preL1'[y].l2 => x = y
      /\ DOMAIN preL2' = {preL1'[x].l2 : x \in DOMAIN preL1'}
  <2>1. DOMAIN preL2 = {preL1[x].l2 : x \in DOMAIN preL1}
    BY DEF PreInv, ReplicationTreeSound
  <2>2. {preL1'[x].l2 : x \in DOMAIN preL1'} = {preL1[x].l2 : x \in DOMAIN preL1}
    BY <1>4
  <2>3. DOMAIN preL2' = {preL1'[x].l2 : x \in DOMAIN preL1'}
    BY <1>1, <2>1, <2>2
  <2>4. \A x, y \in DOMAIN preL1' : preL1'[x].l2 = preL1'[y].l2 => x = y
    BY <1>4, NodeOwns
  <2> QED  BY <2>3, <2>4
<1>9. ReplicationTreeSound'
  BY <1>7, <1>8 DEF ReplicationTreeSound
<1> QED  BY <1>6, <1>9 DEF PreInv

\* A node that is destroyed is in no list afterwards: the only group that could
\* list it is the one it is associated with.
LEMMA NodeDestroyKeeps ==
  ASSUME PreInv, NEW l1 \in PreHandles, NodeDestroy(l1)
  PROVE  PreInv'
<1> DEFINE gone == preL1[l1].l2
<1>1. /\ l1 \in DOMAIN preL1 /\ UNCHANGED preLag
      /\ preL2' = Without(preL2, gone) /\ preL1' = Without(preL1, l1)
  BY DEF NodeDestroy
<1>2. /\ DOMAIN preL1' = DOMAIN preL1 \ {l1} /\ DOMAIN preL2' = DOMAIN preL2 \ {gone}
      /\ \A x \in DOMAIN preL1' : preL1'[x] = preL1[x]
  <2>1. DOMAIN Without(preL1, l1) = DOMAIN preL1 \ {l1}
        /\ \A x \in DOMAIN preL1 : x # l1 => Without(preL1, l1)[x] = preL1[x]
    BY WithoutIs
  <2>2. DOMAIN Without(preL2, gone) = DOMAIN preL2 \ {gone}
    BY WithoutIs
  <2> QED  BY <2>1, <2>2, <1>1
<1>3. /\ preGroups' \in [DOMAIN preGroups -> Seq(PreHandles)]
      /\ \A h \in DOMAIN preGroups :
           /\ ListSound(h, preGroups'[h])
           /\ \A i \in 1..Len(preGroups'[h]) : preGroups'[h][i] # l1
  <2> DEFINE lists == Seq(PreHandles)
  <2>1. preGroups \in [DOMAIN preGroups -> lists]
    BY DEF PreInv, PreMaps
  <2>2. \A h \in DOMAIN preGroups : ListSound(h, preGroups[h])
    BY DEF PreInv, ReplicationTreeSound
  <2>3. CASE preL1[l1].associated
    <3> DEFINE g == preL1[l1].mgrp
    <3> DEFINE rest == Removed(preGroups[g], l1)
    <3>1. g \in DOMAIN preGroups /\ preGroups' = [preGroups EXCEPT ![g] = rest]
      BY <2>3 DEF NodeDestroy, Dissociated
    <3>2. rest \in lists /\ ListSound(g, rest) /\ \A k \in 1..Len(rest) : rest[k] # l1
      BY <3>1, ListTrimmed
    <3> HIDE DEF rest, g, lists
    <3>3. preGroups' \in [DOMAIN preGroups -> lists]
      BY <2>1, <3>1, <3>2
    <3>4. ASSUME NEW h \in DOMAIN preGroups
          PROVE  /\ ListSound(h, preGroups'[h])
                 /\ \A i \in 1..Len(preGroups'[h]) : preGroups'[h][i] # l1
      <4>1. CASE h = g
        BY <4>1, <3>1, <3>2
      <4>2. CASE h # g
        <5>1. preGroups'[h] = preGroups[h]
          BY <4>2, <3>1
        <5> QED  BY <5>1, <4>2, <2>2 DEF ListSound, g
      <4> QED  BY <4>1, <4>2
    <3> QED  BY <3>3, <3>4 DEF lists
  <2>4. CASE ~preL1[l1].associated
    <3>1. preGroups' = preGroups
      BY <2>4 DEF NodeDestroy
    <3>2. \A h \in DOMAIN preGroups : \A i \in 1..Len(preGroups[h]) : preGroups[h][i] # l1
      BY <2>2, <2>4 DEF ListSound
    <3> QED  BY <3>1, <3>2, <2>1, <2>2
  <2> QED  BY <2>3, <2>4
<1>4. PreMaps'
  <2>1. preL1' \in [DOMAIN preL1' -> L1Nodes]
    BY <1>1, WithoutTyped DEF PreInv, PreMaps
  <2>2. preL2' \in [DOMAIN preL2' -> L2Nodes]
    BY <1>1, WithoutTyped DEF PreInv, PreMaps
  <2> QED  BY <1>1, <1>2, <1>3, <2>1, <2>2 DEF PreInv, PreMaps, L1Nodes, L2Nodes
<1>5. \A x \in DOMAIN preL1 : x # l1 => preL1[x].l2 \in DOMAIN preL2'
  BY <1>1, <1>2, NodeOwns
<1>6. ASSUME NEW h \in DOMAIN preGroups' PROVE ListSound(h, preGroups[h])'
  <2>1. ListSound(h, preGroups'[h]) /\ \A i \in 1..Len(preGroups'[h]) : preGroups'[h][i] # l1
    BY <1>3
  <2> QED  BY <2>1, <1>2, <1>5 DEF ListSound
<1>7. /\ \A x, y \in DOMAIN preL1' : preL1'[x].l2 = preL1'[y].l2 => x = y
      /\ DOMAIN preL2' = {preL1'[x].l2 : x \in DOMAIN preL1'}
  <2>1. DOMAIN preL2 = {preL1[x].l2 : x \in DOMAIN preL1}
    BY DEF PreInv, ReplicationTreeSound
  <2>2. \A x \in DOMAIN preL1 : x # l1 => preL1[x].l2 # gone
    BY <1>1, NodeOwns
  <2>3. DOMAIN preL2' = {preL1'[x].l2 : x \in DOMAIN preL1'}
    BY <1>1, <1>2, <2>1, <2>2
  <2>4. \A x, y \in DOMAIN preL1' : preL1'[x].l2 = preL1'[y].l2 => x = y
    BY <1>2, NodeOwns
  <2> QED  BY <2>3, <2>4
<1>8. ReplicationTreeSound'
  BY <1>6, <1>7 DEF ReplicationTreeSound
<1> QED  BY <1>4, <1>8 DEF PreInv

\* The ports and LAGs of a node are replaced.
LEMMA NodeUpdateKeeps ==
  ASSUME PreInv, NEW l1, NEW ports \in PortMaps, NEW lags \in SUBSET PreLags,
         NodeUpdate(l1, ports, lags)
  PROVE  PreInv'
<1> DEFINE l2 == preL1[l1].l2
<1> DEFINE leaf == [ports |-> ports, lags |-> lags]
<1>1. /\ l1 \in DOMAIN preL1 /\ preL2' = With(preL2, l2, leaf)
      /\ UNCHANGED <<preGroups, preL1, preLag>>
  BY DEF NodeUpdate
<1>2. leaf \in L2Nodes
  BY DEF L2Nodes
<1>3. l2 \in DOMAIN preL2
  BY <1>1, NodeOwns
<1> HIDE DEF leaf, l2
<1>4. DOMAIN preL2' = DOMAIN preL2
  <2>1. DOMAIN With(preL2, l2, leaf) = DOMAIN preL2 \cup {l2}
    BY WithIs
  <2> QED  BY <2>1, <1>1, <1>3
<1>5. PreMaps'
  <2>1. preL2' \in [DOMAIN preL2' -> L2Nodes]
    BY <1>1, <1>2, WithTyped DEF PreInv, PreMaps
  <2> QED  BY <1>1, <2>1 DEF PreInv, PreMaps, L1Nodes, L2Nodes
<1>6. ReplicationTreeSound'
  BY <1>1, <1>4 DEF PreInv, ReplicationTreeSound, ListSound
<1> QED  BY <1>5, <1>6 DEF PreInv

\* The ports of a LAG are replaced.
LEMMA SetLagMembershipKeeps ==
  ASSUME PreInv, NEW lag, NEW ports \in PortMaps, SetLagMembership(lag, ports)
  PROVE  PreInv'
<1>1. preLag' = With(preLag, lag, ports) /\ UNCHANGED <<preGroups, preL1, preL2>>
  BY DEF SetLagMembership
<1>2. preLag' \in [DOMAIN preLag' -> PortMaps]
  BY <1>1, WithTyped DEF PreInv, PreMaps
<1>3. PreMaps'
  BY <1>1, <1>2 DEF PreInv, PreMaps, L1Nodes, L2Nodes
<1>4. ReplicationTreeSound'
  BY <1>1 DEF PreInv, ReplicationTreeSound, ListSound
<1> QED  BY <1>3, <1>4 DEF PreInv

\* The calls on groups and nodes that Thrift and the PI share.
LEMMA GroupRequestKeeps ==
  ASSUME PreInv, GroupRequest
  PROVE  PreInv'
<1>1. ASSUME NEW g \in PreMgids, MgrpCreate(g) PROVE PreInv'
  BY <1>1, MgrpCreateKeeps
<1>2. ASSUME NEW g \in PreMgids, MgrpDestroy(g) PROVE PreInv'
  BY <1>2, MgrpDestroyKeeps
<1>3. ASSUME NEW g \in PreMgids, NEW l1 \in PreHandles, NodeAssociate(g, l1) PROVE PreInv'
  BY <1>3, NodeAssociateKeeps
<1>4. ASSUME NEW g \in PreMgids, NEW l1 \in PreHandles, NodeDissociate(g, l1) PROVE PreInv'
  BY <1>4, NodeDissociateKeeps
<1>5. ASSUME NEW l1 \in PreHandles, NodeDestroy(l1) PROVE PreInv'
  BY <1>5, NodeDestroyKeeps
<1> QED  BY <1>1, <1>2, <1>3, <1>4, <1>5 DEF GroupRequest

\* Every call keeps the invariant of the replication engine.
LEMMA PreSteps ==
  ASSUME PreInv, PreNext
  PROVE  PreInv'
<1>1. CASE GroupRequest
  BY <1>1, GroupRequestKeeps
<1>2. ASSUME NEW ports \in PortMaps, NEW lags \in SUBSET PreLags, NodeCreate(ports, lags)
      PROVE  PreInv'
  BY <1>2, NodeCreateKeeps
<1>3. ASSUME NEW ports \in PortMaps, NEW lags \in SUBSET PreLags, NEW l1,
             NodeUpdate(l1, ports, lags)
      PROVE  PreInv'
  BY <1>3, NodeUpdateKeeps
<1>4. ASSUME NEW lag \in PreLags, NEW ports \in PortMaps, SetLagMembership(lag, ports)
      PROVE  PreInv'
  BY <1>4, SetLagMembershipKeeps
<1>5. CASE ThriftRequest
  BY <1>1, <1>2, <1>3, <1>4, <1>5 DEF ThriftRequest
<1>6. CASE PiRequest
  <2>1. \A list \in [1..2 -> 0..PrePorts - 1] : ConvertMap(list) \in PortMaps
    <3> SUFFICES ASSUME NEW list \in [1..2 -> 0..PrePorts - 1]
                 PROVE  ConvertMap(list) \in PortMaps
      OBVIOUS
    <3>1. list = [i \in 1..2 |-> list[i]] /\ \A i \in 1..2 : list[i] \in 0..PrePorts - 1
      OBVIOUS
    <3>2. Len(list) = 2
      BY <3>1
    <3> QED  BY <3>1, <3>2 DEF ConvertMap, PortMaps
  <2>2. \A l1 \in DOMAIN preL1 : preL2[preL1[l1].l2].lags \in SUBSET PreLags
    BY NodeOwns DEF PreInv, PreMaps, L2Nodes
  <2>3. ASSUME NEW list \in [1..2 -> 0..PrePorts - 1], NodeCreate(ConvertMap(list), {})
        PROVE  PreInv'
    BY <2>1, <2>3, <1>2
  <2>4. ASSUME NEW list \in [1..2 -> 0..PrePorts - 1], NEW l1 \in DOMAIN preL1,
               NodeUpdate(l1, ConvertMap(list), preL2[preL1[l1].l2].lags)
        PROVE  PreInv'
    BY <2>1, <2>2, <2>4, <1>3
  <2> QED  BY <1>1, <1>6, <2>3, <2>4 DEF PiRequest
<1>7. CASE PreResetState
  BY <1>7, PreStartsAgain
<1> QED  BY <1>5, <1>6, <1>7 DEF PreNext

\* A copy goes to a port of its node or of a LAG of its node that has members,
\* and every such LAG gets one.
LEMMA CopiesReachMembers ==
  PreInv => LagCopyIsMember
<1> SUFFICES ASSUME PreInv, NEW g \in DOMAIN preGroups
             PROVE  LET copies == Replicate(g)
                        lagsOf(n) == preL2[preL1[n].l2].lags \cap DOMAIN preLag
                    IN /\ \A copy \in copies :
                            \/ copy[2] \in preL2[preL1[copy[1]].l2].ports
                            \/ \E lag \in lagsOf(copy[1]) : copy[2] \in preLag[lag]
                       /\ \A i \in 1..Len(preGroups[g]) : \A lag \in lagsOf(preGroups[g][i]) :
                            preLag[lag] # {} =>
                              \E port \in preLag[lag] : <<preGroups[g][i], port>> \in copies
  BY DEF LagCopyIsMember
<1> DEFINE list == preGroups[g]
<1> DEFINE leaf(n) == preL2[preL1[n].l2]
<1>1. Replicate(g) = UNION {NodeCopies(list[i]) : i \in 1..Len(list)}
  BY DEF Replicate
<1>2. \A lag \in DOMAIN preLag : preLag[lag] # {} => LagPort(preLag[lag]) \in preLag[lag]
  BY LagPortIsMember DEF PreInv, PreMaps
<1>3. ASSUME NEW copy \in Replicate(g)
      PROVE  \/ copy[2] \in leaf(copy[1]).ports
             \/ \E lag \in leaf(copy[1]).lags \cap DOMAIN preLag : copy[2] \in preLag[lag]
  <2>1. PICK i \in 1..Len(list) : copy \in NodeCopies(list[i])
    <3> HIDE DEF list
    <3> QED  BY <1>1, <1>3
  <2> DEFINE n == list[i]
  <2>2. CASE copy \in {<<n, port>> : port \in leaf(n).ports}
    <3>1. PICK port \in leaf(n).ports : copy = <<n, port>>
      BY <2>2
    <3> QED  BY <3>1
  <2>3. CASE copy \in {<<n, LagPort(preLag[lag])>> : lag \in LiveLags(n)}
    <3>1. PICK lag \in LiveLags(n) : copy = <<n, LagPort(preLag[lag])>>
      BY <2>3
    <3>2. lag \in leaf(n).lags \cap DOMAIN preLag /\ LagPort(preLag[lag]) \in preLag[lag]
      BY <1>2 DEF LiveLags
    <3> QED  BY <3>1, <3>2
  <2> QED  BY <2>1, <2>2, <2>3 DEF NodeCopies
<1>4. ASSUME NEW i \in 1..Len(list),
             NEW lag \in leaf(list[i]).lags \cap DOMAIN preLag, preLag[lag] # {}
      PROVE  \E port \in preLag[lag] : <<list[i], port>> \in Replicate(g)
  <2>1. lag \in LiveLags(list[i])
    BY <1>4 DEF LiveLags
  <2>2. <<list[i], LagPort(preLag[lag])>> \in NodeCopies(list[i])
    BY <2>1 DEF NodeCopies
  <2>3. <<list[i], LagPort(preLag[lag])>> \in Replicate(g)
    <3> HIDE DEF list
    <3> QED  BY <2>2, <1>1, <1>4
  <2> QED  BY <2>3, <1>2, <1>4
<1> QED  BY <1>3, <1>4

\* The invariant is strong enough.
LEMMA PreInvSuffices ==
  PreInv => ReplicationSound
<1> SUFFICES ASSUME PreInv PROVE PreTypeOK
  BY CopiesReachMembers DEF PreInv, ReplicationSound
<1> QED  BY DEF PreInv, PreMaps, PreTypeOK, L2Nodes

\* PreInv holds in every state of the replication engine.
THEOREM TreeInvariant ==
  PreSpec => []PreInv
<1>1. PreInv /\ [PreNext]_preVars => PreInv'
  <2>1. PreInv /\ UNCHANGED preVars => PreInv'
    BY DEF PreInv, PreMaps, ReplicationTreeSound, ListSound, preVars, L1Nodes, L2Nodes
  <2> QED  BY <2>1, PreSteps
<1> QED  BY <1>1, PreStarts, PTL DEF PreSpec

\* For any number of groups, nodes, ports and LAGs, and whatever clients create,
\* associate, update and destroy in whichever order, replicate finds every node
\* it needs, copies to no node twice, and serves every LAG that has members.
THEOREM ReplicationIsSound ==
  PreSpec => []ReplicationSound
BY TreeInvariant, PreInvSuffices, PTL

-----------------------------------------------------------------------------
(* Meters.                                                                 *)

\* More time earns more tokens.
LEMMA Earns ==
  ASSUME NEW a \in Nat, NEW b \in Nat, NEW rate \in Nat, a <= b
  PROVE  a * rate \in Nat /\ b * rate \in Nat /\ a * rate <= b * rate
OBVIOUS

\* The smaller of two numbers.
LEMMA MinOfTwo ==
  ASSUME NEW a \in Int, NEW b \in Int
  PROVE  Min({a, b}) = IF a <= b THEN a ELSE b
<1> DEFINE m == IF a <= b THEN a ELSE b
<1>1. m \in {a, b} /\ \A y \in {a, b} : m <= y
  OBVIOUS
<1>2. Min({a, b}) \in {a, b} /\ \A y \in {a, b} : Min({a, b}) <= y
  BY <1>1 DEF Min
<1> QED  BY <1>1, <1>2

\* The larger of two numbers.
LEMMA MaxOfTwo ==
  ASSUME NEW a \in Int, NEW b \in Int
  PROVE  Max({a, b}) = IF a >= b THEN a ELSE b
<1> DEFINE m == IF a >= b THEN a ELSE b
<1>1. m \in {a, b} /\ \A y \in {a, b} : m >= y
  OBVIOUS
<1>2. Max({a, b}) \in {a, b} /\ \A y \in {a, b} : Max({a, b}) >= y
  BY <1>1 DEF Max
<1> QED  BY <1>1, <1>2

\* Filling a bucket: what was earned since it was filled last, up to the burst.
LEMMA FilledIs ==
  ASSUME NEW r \in MtrRate, NEW now \in Nat, r.tokens <= r.burst, now * r.rate >= r.last
  PROVE  /\ Filled(r, now) \in MtrRate /\ Filled(r, now).tokens <= r.burst
         /\ Filled(r, now).tokens <= r.tokens + (now * r.rate - r.last)
         /\ Filled(r, now).last = now * r.rate /\ Filled(r, now).rate = r.rate
         /\ Filled(r, now).burst = r.burst /\ Filled(r, now).color = r.color
<1> DEFINE earned == now * r.rate
<1>1. r.rate \in Nat /\ r.burst \in Nat /\ r.tokens \in Nat /\ r.last \in Nat /\ r.color \in Nat
  BY DEF MtrRate
<1>2. earned \in Nat /\ earned >= r.last
  BY <1>1, Earns
<1> HIDE DEF earned
<1> DEFINE got == r.tokens + earned - r.last
<1>3. got \in Nat /\ got = r.tokens + (earned - r.last)
  BY <1>1, <1>2
<1> DEFINE tokens == Min({got, r.burst})
<1>4. tokens \in Nat /\ tokens <= r.burst /\ tokens <= got
  <2> HIDE DEF got
  <2>1. tokens = IF got <= r.burst THEN got ELSE r.burst
    BY <1>1, <1>3, MinOfTwo
  <2> HIDE DEF tokens
  <2> QED  BY <2>1, <1>1, <1>3
<1>5. Filled(r, now) = [r EXCEPT !.tokens = tokens, !.last = earned]
  BY DEF Filled, earned
<1> HIDE DEF tokens, got
<1> QED  BY <1>1, <1>2, <1>3, <1>4, <1>5 DEF MtrRate, earned

\* Taking the input from a bucket that was filled at time now keeps it accounted
\* for, for the time the rates have been in use.
LEMMA TakingAccounts ==
  ASSUME NEW r \in MtrRate, NEW q \in MtrRate, NEW now \in Nat, NEW input \in Nat,
         NEW passed \in Nat, NEW more \in Nat, NEW since \in Nat, NEW from \in Nat,
         r.tokens <= r.burst, now * r.rate >= r.last,
         Accounted(r, passed, since), from <= since, from <= now,
         q.rate = r.rate, q.burst = r.burst, q.last = now * r.rate,
         more + q.tokens <= passed + Filled(r, now).tokens
  PROVE  Accounted(q, more, from)
<1> DEFINE earned == now * r.rate
<1> DEFINE before == since * r.rate
<1> DEFINE start == from * r.rate
<1>1. /\ r.rate \in Nat /\ r.burst \in Nat /\ r.tokens \in Nat /\ r.last \in Nat
      /\ q.tokens \in Nat /\ q.burst \in Nat /\ q.last \in Nat
  BY DEF MtrRate
<1>2. /\ earned \in Nat /\ before \in Nat /\ start \in Nat
      /\ start <= earned /\ start <= before
  BY <1>1, Earns
<1> DEFINE tokens == Filled(r, now).tokens
<1>3. tokens \in Nat /\ tokens <= r.burst /\ tokens <= r.tokens + (earned - r.last)
  BY FilledIs DEF MtrRate
<1>4. IF r.last >= before THEN passed + r.tokens <= r.burst + (r.last - before) ELSE passed = 0
  BY DEF Accounted
<1>5. earned >= r.last /\ q.last = earned /\ more + q.tokens <= passed + tokens
  OBVIOUS
<1> HIDE DEF earned, before, start, tokens
<1>6. passed + tokens <= r.burst + (earned - start)
  BY <1>1, <1>2, <1>3, <1>4, <1>5
<1>7. more + q.tokens <= q.burst + (q.last - start) /\ q.last >= start
  BY <1>1, <1>2, <1>3, <1>5, <1>6
<1> QED  BY <1>7 DEF Accounted, start

\* A rate that is not reached stays accounted for when the start moves back.
LEMMA WaitingAccounts ==
  ASSUME NEW r \in MtrRate, NEW passed \in Nat, NEW since \in Nat, NEW from \in Nat,
         r.tokens <= r.burst, Accounted(r, passed, since), from <= since
  PROVE  Accounted(r, passed, from)
<1> DEFINE before == since * r.rate
<1> DEFINE start == from * r.rate
<1>1. r.rate \in Nat /\ r.burst \in Nat /\ r.tokens \in Nat /\ r.last \in Nat
  BY DEF MtrRate
<1>2. before \in Nat /\ start \in Nat /\ start <= before
  BY <1>1, Earns
<1>3. IF r.last >= before THEN passed + r.tokens <= r.burst + (r.last - before) ELSE passed = 0
  BY DEF Accounted
<1> HIDE DEF before, start
<1>4. IF r.last >= start THEN passed + r.tokens <= r.burst + (r.last - start) ELSE passed = 0
  BY <1>1, <1>2, <1>3
<1> QED  BY <1>4 DEF Accounted, start

\* The rate at which the loop of execute stops.
LEMMA StopsIs ==
  ASSUME MtrTypes, NEW now \in Nat, NEW input \in Nat
  PROVE  /\ Stops(now, input) \in 1..MtrCount + 1
         /\ \A i \in 1..MtrCount : i < Stops(now, input) => ~(Filled(mtrRates[i], now).tokens < input)
<1> DEFINE short == {i \in 1..MtrCount : Filled(mtrRates[i], now).tokens < input} \cup {MtrCount + 1}
<1>1. short \subseteq 1..MtrCount + 1 /\ short \subseteq Nat /\ MtrCount \in Nat
  BY MtrAssumption
<1>2. \E m \in short : \A y \in short : m <= y
  <2>1. short # {}
    OBVIOUS
  <2> HIDE DEF short
  <2> QED  BY <1>1, <2>1, LeastNatural
<1>3. Stops(now, input) = Min(short)
  BY DEF Stops
<1> DEFINE stop == Stops(now, input)
<1>4. stop \in short /\ \A y \in short : stop <= y
  <2> HIDE DEF short
  <2> QED  BY <1>2, <1>3 DEF Min
<1>5. ASSUME NEW i \in 1..MtrCount, i < stop PROVE i \notin short
  <2> HIDE DEF short, stop
  <2> QED  BY <1>1, <1>4, <1>5
<1>6. stop \in 1..MtrCount + 1
  <2> HIDE DEF short, stop
  <2> QED  BY <1>1, <1>4
<1> QED  BY <1>5, <1>6

\* At the start the meter has no rates.
LEMMA MtrStarts ==
  MtrInit => MtrInv
<1> SUFFICES ASSUME MtrInit PROVE MtrInv
  OBVIOUS
<1>1. NoRate \in MtrRate /\ NoRate.tokens <= NoRate.burst
  BY DEF NoRate, MtrRate
<1>2. MtrTypes
  BY <1>1, MtrAssumption DEF MtrInit, MtrTypes, NotExecuting, NonePassed
<1> QED  BY <1>2 DEF MtrInv, MtrInit

\* Writing the rates of a client.
LEMMA WrittenIs ==
  ASSUME MtrTypes, NEW configs \in Seq(MtrConfig), Len(configs) = MtrCount
  PROVE  /\ Written(mtrRates, configs) \in [1..MtrCount -> MtrRate]
         /\ \A i \in 1..MtrCount :
              Written(mtrRates, configs)[i].tokens <= Written(mtrRates, configs)[i].burst
         /\ Sorted(configs) => \A i \in 1..MtrCount :
              Written(mtrRates, configs)[i] = SetRate(configs[i], i)
<1> DEFINE bad == {i \in 2..MtrCount : configs[i - 1].rate > configs[i].rate}
<1> DEFINE upto == IF bad = {} THEN MtrCount ELSE Min(bad)
<1>1. Written(mtrRates, configs) =
        [i \in 1..MtrCount |-> IF i <= upto THEN SetRate(configs[i], i) ELSE mtrRates[i]]
  BY DEF Written
<1>2. ASSUME NEW i \in 1..MtrCount
      PROVE  /\ SetRate(configs[i], i) \in MtrRate
             /\ SetRate(configs[i], i).tokens <= SetRate(configs[i], i).burst
  <2>1. configs[i] \in MtrConfig
    OBVIOUS
  <2>2. configs[i].rate \in Nat /\ configs[i].burst \in Nat /\ i \in Nat
    BY <2>1 DEF MtrConfig
  <2> QED  BY <2>2 DEF SetRate, MtrRate
<1>3. Sorted(configs) => \A i \in 1..MtrCount : i <= upto
  <2>1. MtrCount \in Nat /\ \A i \in 1..MtrCount : configs[i].rate \in Nat
    <3>1. MtrCount \in Nat /\ \A i \in 1..MtrCount : configs[i] \in MtrConfig
      BY MtrAssumption
    <3> QED  BY <3>1 DEF MtrConfig
  <2>2. Sorted(configs) => bad = {}
    BY <2>1 DEF Sorted
  <2> HIDE DEF bad
  <2> QED  BY <2>1, <2>2
<1> HIDE DEF upto, bad
<1> QED  BY <1>1, <1>2, <1>3 DEF MtrTypes

\* A fresh bucket is accounted for.
LEMMA FreshAccounts ==
  ASSUME NEW config \in MtrConfig, NEW c \in Nat, NEW time \in Nat
  PROVE  /\ SetRate(config, c).color = c /\ SetRate(config, c).rate = config.rate
         /\ SetRate(config, c).burst = config.burst
         /\ SetRate(config, c).last <= time * SetRate(config, c).rate
         /\ Accounted(SetRate(config, c), 0, time)
<1>1. config.rate \in Nat /\ config.burst \in Nat
  BY DEF MtrConfig
<1> DEFINE start == time * config.rate
<1>2. start \in Nat
  BY <1>1, Earns
<1> HIDE DEF start
<1>3. IF 0 >= start THEN 0 + config.burst <= config.burst + (0 - start) ELSE 0 = 0
  BY <1>1, <1>2
<1>4. 0 <= start
  BY <1>2
<1> QED  BY <1>3, <1>4 DEF Accounted, SetRate, start

\* set_rates: a refused call keeps part of the former configuration.
LEMMA SetRatesKeeps ==
  ASSUME MtrInv, NEW configs \in MtrConfigs, SetRates(configs)
  PROVE  MtrInv'
<1> DEFINE written == Written(mtrRates, configs)
<1>1. configs \in Seq(MtrConfig) /\ Len(configs) = MtrCount /\ MtrCount \in Nat
  BY MtrAssumption DEF SetRates, MtrConfig
<1>2. /\ written \in [1..MtrCount -> MtrRate]
      /\ \A i \in 1..MtrCount : written[i].tokens <= written[i].burst
      /\ Sorted(configs) => \A i \in 1..MtrCount : written[i] = SetRate(configs[i], i)
  BY <1>1, WrittenIs DEF MtrInv
<1>3. /\ mtrSince' = mtrTime /\ mtrPassed' = NonePassed
      /\ UNCHANGED <<mtrTime, mtrThread, mtrAborted, mtrFile>>
  BY DEF SetRates, Forget
<1>4. mtrRates' = written \/ mtrRates' = Reverse(written)
  BY DEF SetRates
<1>5. Reverse(written) = [i \in 1..MtrCount |-> written[(MtrCount - i) + 1]]
  <2>1. written = [i \in 1..MtrCount |-> written[i]]
    BY <1>2
  <2> HIDE DEF written
  <2>2. Len(written) = MtrCount
    BY <1>1, <2>1
  <2> QED  BY <2>2 DEF Reverse
<1>6. \A i \in 1..MtrCount : (MtrCount - i) + 1 \in 1..MtrCount
  BY <1>1
<1> HIDE DEF written
<1>7. MtrTypes'
  <2>1. mtrRates' \in [1..MtrCount -> MtrRate]
        /\ \A i \in 1..MtrCount : mtrRates'[i].tokens <= mtrRates'[i].burst
    BY <1>2, <1>4, <1>5, <1>6
  <2>2. mtrTime \in 0..mtrTime /\ mtrPassed' \in [1..MtrCount -> Nat]
    BY <1>3, MtrAssumption DEF MtrInv, MtrTypes, NonePassed
  <2> QED  BY <2>1, <2>2, <1>3 DEF MtrInv, MtrTypes
<1>8. ASSUME mtrFrom' = "set", NEW c \in 1..MtrCount PROVE RateSound(c)'
  <2>1. Sorted(configs) /\ mtrRates' = Reverse(written) /\ mtrGiven' = configs
    BY <1>8 DEF SetRates, Forget, written
  <2>2. MtrCount + 1 - c \in 1..MtrCount /\ (MtrCount - (MtrCount + 1 - c)) + 1 = c
    BY <1>1
  <2>3. mtrRates'[MtrCount + 1 - c] = SetRate(configs[c], c)
    BY <1>2, <1>5, <2>1, <2>2
  <2>4. configs[c] \in MtrConfig /\ c \in Nat /\ mtrTime \in Nat
    BY <1>1, MtrAssumption DEF MtrInv, MtrTypes
  <2>5. mtrPassed'[c] = 0 /\ mtrSince' = mtrTime /\ mtrTime' = mtrTime
    BY <1>3 DEF NonePassed
  <2> DEFINE r == SetRate(configs[c], c)
  <2>6. /\ r.color = c /\ r.rate = configs[c].rate /\ r.burst = configs[c].burst
        /\ r.last <= mtrTime * r.rate /\ Accounted(r, 0, mtrTime)
    BY <2>4, FreshAccounts
  <2> HIDE DEF r
  <2> QED  BY <2>1, <2>3, <2>5, <2>6 DEF RateSound, r
<1> QED  BY <1>7, <1>8 DEF MtrInv

\* Reading the clock, the clock itself and resetting the rates.
LEMMA MtrOthersKeep ==
  ASSUME MtrInv, ResetRates \/ Tick \/ SaveMeter \/ \E t \in MtrThreads : ReadClock(t)
  PROVE  MtrInv'
<1>1. CASE ResetRates
  <2>1. /\ mtrSince' = mtrTime /\ mtrPassed' = NonePassed /\ mtrFrom' = "other"
        /\ UNCHANGED <<mtrRates, mtrTime, mtrThread, mtrAborted, mtrFile>>
    BY <1>1 DEF ResetRates, Forget
  <2>2. mtrTime \in 0..mtrTime /\ mtrPassed' \in [1..MtrCount -> Nat]
    BY <2>1, MtrAssumption DEF MtrInv, MtrTypes, NonePassed
  <2>3. MtrTypes'
    BY <2>1, <2>2 DEF MtrInv, MtrTypes
  <2> QED  BY <2>1, <2>3 DEF MtrInv
<1>2. CASE Tick
  <2>1. /\ mtrTime < MtrMaxTime /\ mtrTime' = mtrTime + 1
        /\ UNCHANGED <<mtrRates, mtrOn, mtrThread, mtrAborted, mtrFile,
                       mtrGiven, mtrFrom, mtrSince, mtrPassed>>
    BY <1>2 DEF Tick
  <2>2. /\ mtrTime \in Nat /\ mtrTime' \in 0..MtrMaxTime /\ mtrTime <= mtrTime'
        /\ mtrSince \in 0..mtrTime'
    BY <2>1, MtrAssumption DEF MtrInv, MtrTypes
  <2>3. mtrThread \in [MtrThreads -> NotExecuting..mtrTime']
    BY <2>1, <2>2 DEF MtrInv, MtrTypes, NotExecuting
  <2>4. MtrTypes'
    BY <2>1, <2>2, <2>3 DEF MtrInv, MtrTypes
  <2>5. ASSUME mtrFrom = "set", NEW c \in 1..MtrCount PROVE RateSound(c)'
    <3> DEFINE r == mtrRates[MtrCount + 1 - c]
    <3>1. r \in MtrRate
      <4>1. MtrCount + 1 - c \in 1..MtrCount
        BY MtrAssumption
      <4> QED  BY <4>1 DEF MtrInv, MtrTypes
    <3>2. r.last \in Nat /\ r.rate \in Nat
      BY <3>1 DEF MtrRate
    <3>3. r.last <= mtrTime * r.rate
      BY <2>5 DEF MtrInv, RateSound
    <3>4. /\ mtrTime * r.rate \in Nat /\ mtrTime' * r.rate \in Nat
          /\ mtrTime * r.rate <= mtrTime' * r.rate
      <4>1. mtrTime' \in Nat
        BY <2>1, <2>2
      <4> HIDE DEF r
      <4> QED  BY <2>2, <3>2, <4>1, Earns
    <3>5. r.last <= mtrTime' * r.rate
      <4> DEFINE early == mtrTime * r.rate
      <4> DEFINE late == mtrTime' * r.rate
      <4> HIDE DEF early, late, r
      <4>1. early \in Nat /\ late \in Nat /\ early <= late /\ r.last <= early
        BY <3>3, <3>4 DEF early, late
      <4>2. r.last <= late
        BY <4>1, <3>2
      <4> QED  BY <4>2 DEF late
    <3> QED  BY <2>1, <2>5, <3>5 DEF MtrInv, RateSound
  <2> QED  BY <2>1, <2>4, <2>5 DEF MtrInv
<1>3. CASE SaveMeter
  <2> DEFINE saved == [i \in 1..MtrCount |-> [rate |-> mtrRates[i].rate, burst |-> mtrRates[i].burst]]
  <2>1. /\ mtrFile' = saved
        /\ UNCHANGED <<mtrRates, mtrOn, mtrTime, mtrThread, mtrAborted,
                       mtrGiven, mtrFrom, mtrSince, mtrPassed>>
    BY <1>3 DEF SaveMeter
  <2>2. saved \in [1..MtrCount -> MtrConfig]
    BY DEF MtrInv, MtrTypes, MtrRate, MtrConfig
  <2> HIDE DEF saved
  <2>3. MtrTypes'
    BY <2>1, <2>2 DEF MtrInv, MtrTypes
  <2>4. \A c \in 1..MtrCount : RateSound(c) => RateSound(c)'
    BY <2>1 DEF RateSound
  <2> QED  BY <2>1, <2>3, <2>4 DEF MtrInv
<1>4. ASSUME NEW t \in MtrThreads, ReadClock(t) PROVE MtrInv'
  <2>1. /\ mtrThread' = [mtrThread EXCEPT ![t] = mtrTime]
        /\ UNCHANGED <<mtrRates, mtrOn, mtrTime, mtrAborted, mtrFile,
                       mtrGiven, mtrFrom, mtrSince, mtrPassed>>
    BY <1>4 DEF ReadClock
  <2>2. mtrTime \in NotExecuting..mtrTime
    BY MtrAssumption DEF MtrInv, MtrTypes, NotExecuting
  <2>3. MtrTypes'
    BY <2>1, <2>2 DEF MtrInv, MtrTypes
  <2>4. \A c \in 1..MtrCount : RateSound(c) => RateSound(c)'
    BY <2>1 DEF RateSound
  <2> QED  BY <2>1, <2>3, <2>4 DEF MtrInv
<1> QED  BY <1>1, <1>2, <1>3, <1>4

\* A meter restored from a file has its rates and new buckets.
LEMMA RestoreMeterKeeps ==
  ASSUME MtrInv, RestoreMeter
  PROVE  MtrInv'
<1>1. /\ mtrFile \in [1..MtrCount -> MtrConfig] /\ mtrTime' = 0 /\ mtrSince' = 0 /\ mtrFile' = <<>>
      /\ mtrRates' = [i \in 1..MtrCount |-> SetRate(mtrFile[i], i)]
      /\ mtrThread' = [t \in MtrThreads |-> NotExecuting]
      /\ mtrPassed' = NonePassed /\ mtrFrom' = "restored"
  BY DEF RestoreMeter, Forget, MtrInv, MtrTypes
<1>2. ASSUME NEW i \in 1..MtrCount
      PROVE  mtrRates'[i] \in MtrRate /\ mtrRates'[i].tokens <= mtrRates'[i].burst
  <2>1. mtrFile[i] \in MtrConfig
    BY <1>1
  <2>2. mtrFile[i].rate \in Nat /\ mtrFile[i].burst \in Nat /\ i \in Nat
    BY <2>1 DEF MtrConfig
  <2>3. mtrRates'[i] = SetRate(mtrFile[i], i)
    BY <1>1
  <2> QED  BY <2>2, <2>3 DEF SetRate, MtrRate
<1>3. mtrRates' \in [1..MtrCount -> MtrRate]
  <2>1. mtrRates' = [i \in 1..MtrCount |-> mtrRates'[i]]
    BY <1>1
  <2> QED  BY <2>1, <1>2
<1>4. /\ 0 \in 0..MtrMaxTime /\ 0 \in 0..0 /\ NotExecuting \in NotExecuting..0
      /\ NonePassed \in [1..MtrCount -> Nat]
  BY MtrAssumption DEF NotExecuting, NonePassed
<1>5. MtrTypes'
  BY <1>1, <1>2, <1>3, <1>4 DEF MtrTypes
<1> QED  BY <1>1, <1>5 DEF MtrInv

\* execute fills the buckets and takes the packet's tokens.
LEMMA ExecuteMeterKeeps ==
  ASSUME MtrInv, NEW t \in MtrThreads, NEW input \in MtrSizes, NEW pre \in 0..1,
         ExecuteMeter(t, input, pre)
  PROVE  MtrInv'
<1> DEFINE now == mtrThread[t]
<1> DEFINE stop == Stops(now, input)
<1> DEFINE packet_color == IF stop <= MtrCount THEN mtrRates[stop].color ELSE 0
<1> DEFINE color == Max({pre, packet_color})
<1> DEFINE taken(i) == [Filled(mtrRates[i], now) EXCEPT !.tokens = @ - input]
<1>1. /\ now # NotExecuting /\ mtrThread' = [mtrThread EXCEPT ![t] = NotExecuting]
      /\ UNCHANGED <<mtrOn, mtrTime, mtrFile, mtrGiven, mtrFrom>>
  BY DEF ExecuteMeter
<1>2. now \in Nat /\ now <= mtrTime /\ mtrTime \in Nat /\ mtrSince \in Nat /\ mtrSince <= mtrTime
      /\ input \in Nat /\ MtrCount \in Nat
  BY <1>1, MtrAssumption DEF MtrInv, MtrTypes, NotExecuting
<1>3. mtrThread' \in [MtrThreads -> NotExecuting..mtrTime]
  <2>1. NotExecuting \in NotExecuting..mtrTime
    BY <1>2 DEF NotExecuting
  <2> QED  BY <1>1, <2>1 DEF MtrInv, MtrTypes
<1>4. CASE UNCHANGED <<mtrRates, mtrSince, mtrPassed>>
  <2>1. MtrTypes'
    BY <1>1, <1>3, <1>4 DEF MtrInv, MtrTypes
  <2>2. \A c \in 1..MtrCount : RateSound(c) => RateSound(c)'
    BY <1>1, <1>4 DEF RateSound
  <2> QED  BY <2>1, <2>2, <1>1 DEF MtrInv
<1>5. CASE ~UNCHANGED <<mtrRates, mtrSince, mtrPassed>>
  <2>1. /\ ClockGoesOn(now, input)
        /\ mtrRates' = [i \in 1..MtrCount |->
             CASE i < stop -> taken(i)
               [] i = stop -> Filled(mtrRates[i], now)
               [] i > stop -> mtrRates[i]]
        /\ mtrSince' = Min({mtrSince, now})
        /\ mtrPassed' = [c \in 1..MtrCount |->
             IF color < c /\ mtrFrom # "other"
             THEN Min({mtrPassed[c] + input, MtrMaxPassed}) ELSE mtrPassed[c]]
    BY <1>5 DEF ExecuteMeter
  <2>2. /\ stop \in 1..MtrCount + 1
        /\ \A i \in 1..MtrCount : i < stop => ~(Filled(mtrRates[i], now).tokens < input)
    BY <1>2, StopsIs DEF MtrInv
  <2>3. \A i \in 1..MtrCount : i <= stop => now * mtrRates[i].rate >= mtrRates[i].last
    BY <2>1 DEF ClockGoesOn
  <2>4. mtrSince' \in Nat /\ mtrSince' <= mtrSince /\ mtrSince' <= now /\ mtrSince' <= mtrTime
    <3>1. mtrSince' = IF mtrSince <= now THEN mtrSince ELSE now
      BY <1>2, <2>1, MinOfTwo
    <3> QED  BY <3>1, <1>2
  <2> HIDE DEF now, stop
  <2>5. ASSUME NEW i \in 1..MtrCount
        PROVE  /\ mtrRates[i] \in MtrRate /\ mtrRates[i].tokens <= mtrRates[i].burst
               /\ i <= stop => /\ Filled(mtrRates[i], now) \in MtrRate
                               /\ Filled(mtrRates[i], now).tokens <= mtrRates[i].burst
                               /\ Filled(mtrRates[i], now).last = now * mtrRates[i].rate
                               /\ Filled(mtrRates[i], now).rate = mtrRates[i].rate
                               /\ Filled(mtrRates[i], now).burst = mtrRates[i].burst
                               /\ Filled(mtrRates[i], now).color = mtrRates[i].color
    <3>1. mtrRates[i] \in MtrRate /\ mtrRates[i].tokens <= mtrRates[i].burst
      BY DEF MtrInv, MtrTypes
    <3> QED  BY <3>1, <1>2, <2>3, FilledIs
  <2>6. ASSUME NEW i \in 1..MtrCount, i < stop
        PROVE  /\ mtrRates'[i] \in MtrRate /\ mtrRates'[i].last = now * mtrRates[i].rate
               /\ mtrRates'[i].rate = mtrRates[i].rate /\ mtrRates'[i].burst = mtrRates[i].burst
               /\ mtrRates'[i].color = mtrRates[i].color
               /\ mtrRates'[i].tokens + input = Filled(mtrRates[i], now).tokens
               /\ mtrRates'[i].tokens <= mtrRates'[i].burst
    <3> DEFINE f == Filled(mtrRates[i], now)
    <3>1. mtrRates'[i] = [f EXCEPT !.tokens = @ - input]
      BY <2>1, <2>2, <2>6
    <3>2. i <= stop
      BY <2>2, <2>6, <1>2
    <3>3. /\ f \in MtrRate /\ f.last = now * mtrRates[i].rate /\ f.rate = mtrRates[i].rate
          /\ f.burst = mtrRates[i].burst /\ f.color = mtrRates[i].color
          /\ f.tokens <= mtrRates[i].burst /\ ~(f.tokens < input)
      BY <3>2, <2>2, <2>5, <2>6
    <3> HIDE DEF f
    <3>4. f.tokens \in Nat /\ f.tokens - input \in Nat /\ mtrRates[i].burst \in Nat
      BY <3>3, <1>2, <2>5 DEF MtrRate
    <3>5. /\ mtrRates'[i].tokens = f.tokens - input /\ mtrRates'[i].last = f.last
          /\ mtrRates'[i].rate = f.rate /\ mtrRates'[i].burst = f.burst
          /\ mtrRates'[i].color = f.color /\ mtrRates'[i] \in MtrRate
      BY <3>1, <3>3, <3>4 DEF MtrRate
    <3>6. f.tokens - input + input = f.tokens /\ f.tokens - input <= mtrRates[i].burst
      BY <3>3, <3>4, <1>2
    <3> QED  BY <3>3, <3>5, <3>6 DEF f
  <2>7. ASSUME NEW i \in 1..MtrCount, i = stop
        PROVE  mtrRates'[i] = Filled(mtrRates[i], now)
    BY <2>1, <2>2, <2>7, <1>2
  <2>8. ASSUME NEW i \in 1..MtrCount, i > stop
        PROVE  mtrRates'[i] = mtrRates[i]
    BY <2>1, <2>2, <2>8, <1>2
  <2>9. ASSUME NEW i \in 1..MtrCount
        PROVE  mtrRates'[i] \in MtrRate /\ mtrRates'[i].tokens <= mtrRates'[i].burst
    <3>1. i < stop \/ i = stop \/ i > stop
      BY <2>2, <1>2
    <3>2. CASE i = stop
      <4>1. i <= stop
        BY <3>2, <1>2
      <4> QED  BY <3>2, <4>1, <2>5, <2>7
    <3> QED  BY <3>1, <3>2, <2>5, <2>6, <2>8
  <2>10. ASSUME NEW c \in 1..MtrCount
         PROVE  /\ mtrPassed[c] \in Nat /\ mtrPassed'[c] \in Nat
                /\ mtrPassed'[c] <= mtrPassed[c] + input
                /\ ~(color < c) => mtrPassed'[c] = mtrPassed[c]
    <3>1. mtrPassed[c] \in Nat /\ mtrPassed[c] + input \in Nat /\ MtrMaxPassed \in Nat
      BY <1>2, MtrAssumption DEF MtrInv, MtrTypes
    <3> DEFINE sum == mtrPassed[c] + input
    <3> DEFINE capped == Min({sum, MtrMaxPassed})
    <3>2. capped = IF sum <= MtrMaxPassed THEN sum ELSE MtrMaxPassed
      <4> HIDE DEF sum
      <4> QED  BY <3>1, MinOfTwo DEF sum
    <3>3. mtrPassed'[c] = IF color < c /\ mtrFrom # "other" THEN capped ELSE mtrPassed[c]
      BY <2>1
    <3> HIDE DEF capped, color
    <3> QED  BY <3>1, <3>2, <3>3, <1>2
  <2>11. MtrTypes'
    <3>1. mtrRates' \in [1..MtrCount -> MtrRate]
      <4> DEFINE next(i) == CASE i < stop -> taken(i)
                              [] i = stop -> Filled(mtrRates[i], now)
                              [] i > stop -> mtrRates[i]
      <4>0. mtrRates' = [i \in 1..MtrCount |-> next(i)]
        BY <2>1
      <4> HIDE DEF next
      <4>1. mtrRates' = [i \in 1..MtrCount |-> mtrRates'[i]]
        BY <4>0
      <4> QED  BY <4>1, <2>9
    <3>2. mtrPassed' \in [1..MtrCount -> Nat]
      <4>1. mtrPassed' = [c \in 1..MtrCount |-> mtrPassed'[c]]
        BY <2>1
      <4> QED  BY <4>1, <2>10
    <3>3. mtrSince' \in 0..mtrTime
      BY <2>4, <1>2
    <3> QED  BY <1>1, <1>3, <2>9, <3>1, <3>2, <3>3 DEF MtrInv, MtrTypes
  <2>12. ASSUME mtrFrom = "set", NEW c \in 1..MtrCount PROVE RateSound(c)'
    <3> DEFINE i == MtrCount + 1 - c
    <3> DEFINE r == mtrRates[i]
    <3> DEFINE q == mtrRates'[i]
    <3>1. i \in 1..MtrCount /\ c \in Nat
      BY <1>2
    <3>2. /\ r.color = c /\ r.rate = mtrGiven[c].rate /\ r.burst = mtrGiven[c].burst
          /\ r.last <= mtrTime * r.rate /\ Accounted(r, mtrPassed[c], mtrSince)
      BY <2>12 DEF MtrInv, RateSound
    <3>3. color < c => i < stop
      <4>1. CASE stop <= MtrCount
        <5>1. stop \in 1..MtrCount /\ MtrCount + 1 - stop \in 1..MtrCount
              /\ MtrCount + 1 - (MtrCount + 1 - stop) = stop
          BY <4>1, <2>2, <1>2
        <5>2. mtrRates[stop].color = MtrCount + 1 - stop
          BY <5>1, <2>12 DEF MtrInv, RateSound
        <5>3. packet_color = MtrCount + 1 - stop /\ packet_color \in Nat /\ stop \in Nat
          BY <4>1, <5>1, <5>2
        <5> HIDE DEF packet_color
        <5>4. color = IF pre >= packet_color THEN pre ELSE packet_color
          BY <5>3, MaxOfTwo
        <5> HIDE DEF color
        <5> QED  BY <5>3, <5>4, <1>2
      <4>2. CASE ~(stop <= MtrCount)
        BY <4>2, <2>2, <3>1, <1>2
      <4> QED  BY <4>1, <4>2
    <3> HIDE DEF i, color, packet_color
    <3>4. r \in MtrRate /\ r.tokens <= r.burst /\ r.rate \in Nat /\ r.last \in Nat
      BY <3>1, <2>5 DEF MtrRate
    <3>5. now * r.rate \in Nat /\ mtrTime * r.rate \in Nat /\ now * r.rate <= mtrTime * r.rate
      <4> HIDE DEF r
      <4> QED  BY <3>4, <1>2, Earns
    <3>6. q \in MtrRate /\ q.color = r.color /\ q.rate = r.rate /\ q.burst = r.burst
          /\ q.last <= mtrTime * r.rate /\ Accounted(q, mtrPassed'[c], mtrSince')
      <4>1. CASE i < stop
        <5>1. /\ q \in MtrRate /\ q.last = now * r.rate /\ q.rate = r.rate /\ q.burst = r.burst
              /\ q.color = r.color /\ q.tokens + input = Filled(r, now).tokens
          BY <4>1, <3>1, <2>6
        <5>2. now * r.rate >= r.last
          BY <4>1, <3>1, <2>2, <2>3, <1>2
        <5>3. mtrPassed'[c] + q.tokens <= mtrPassed[c] + Filled(r, now).tokens
          <6>1. q.tokens \in Nat
            BY <5>1 DEF MtrRate
          <6> HIDE DEF q, r
          <6> QED  BY <5>1, <6>1, <2>10, <1>2
        <5> HIDE DEF q, r
        <5>4. Accounted(q, mtrPassed'[c], mtrSince')
          BY <5>1, <5>2, <5>3, <3>2, <3>4, <2>4, <2>10, <1>2, TakingAccounts
        <5> QED  BY <5>1, <5>4, <3>5
      <4>2. CASE i = stop
        <5>0. i <= stop /\ ~(i < stop)
          BY <4>2, <3>1, <1>2
        <5>1. /\ q = Filled(r, now) /\ q \in MtrRate /\ q.last = now * r.rate
              /\ q.rate = r.rate /\ q.burst = r.burst /\ q.color = r.color
          BY <4>2, <5>0, <3>1, <2>5, <2>7
        <5>2. now * r.rate >= r.last
          BY <5>0, <3>1, <2>3
        <5>3. mtrPassed'[c] + q.tokens <= mtrPassed[c] + Filled(r, now).tokens
          <6>1. q.tokens \in Nat /\ mtrPassed'[c] = mtrPassed[c] /\ mtrPassed[c] \in Nat
            BY <5>0, <5>1, <3>3, <2>10 DEF MtrRate
          <6> HIDE DEF q, r
          <6> QED  BY <5>1, <6>1
        <5> HIDE DEF q, r
        <5>4. Accounted(q, mtrPassed'[c], mtrSince')
          BY <5>1, <5>2, <5>3, <3>2, <3>4, <2>4, <2>10, <1>2, TakingAccounts
        <5> QED  BY <5>1, <5>4, <3>5
      <4>3. CASE i > stop
        <5>0. ~(i < stop)
          BY <4>3, <3>1, <2>2, <1>2
        <5>1. q = r /\ mtrPassed'[c] = mtrPassed[c] /\ mtrPassed[c] \in Nat
          BY <4>3, <5>0, <3>1, <3>3, <2>8, <2>10
        <5> HIDE DEF q, r
        <5>2. Accounted(r, mtrPassed[c], mtrSince')
          BY <3>2, <3>4, <5>1, <2>4, <1>2, WaitingAccounts
        <5> QED  BY <5>1, <5>2, <3>2, <3>4
      <4> QED  BY <4>1, <4>2, <4>3, <3>1, <2>2, <1>2
    <3> HIDE DEF q, r
    <3>7. q.color = c /\ q.rate = mtrGiven[c].rate /\ q.burst = mtrGiven[c].burst
          /\ q.last <= mtrTime * q.rate /\ Accounted(q, mtrPassed'[c], mtrSince')
      BY <3>2, <3>6
    <3> QED  BY <3>7, <1>1 DEF RateSound, q, i
  <2> QED  BY <2>11, <2>12, <1>1 DEF MtrInv
<1> QED  BY <1>4, <1>5

\* Every step keeps the invariant of the meter.
LEMMA MtrSteps ==
  ASSUME MtrInv, MtrNext
  PROVE  MtrInv'
<1>1. ASSUME NEW configs \in MtrConfigs, SetRates(configs) PROVE MtrInv'
  BY <1>1, SetRatesKeeps
<1>2. CASE RestoreMeter
  BY <1>2, RestoreMeterKeeps
<1>3. CASE ResetRates \/ Tick \/ SaveMeter \/ \E t \in MtrThreads : ReadClock(t)
  BY <1>3, MtrOthersKeep
<1>4. ASSUME NEW t \in MtrThreads, NEW input \in MtrSizes, NEW pre \in 0..1,
             ExecuteMeter(t, input, pre)
      PROVE  MtrInv'
  BY <1>4, ExecuteMeterKeeps
<1> QED  BY <1>1, <1>2, <1>3, <1>4 DEF MtrNext

\* The invariant is strong enough.
LEMMA MtrInvSuffices ==
  MtrInv => MetersSound
<1> SUFFICES ASSUME MtrInv PROVE MtrTypeOK /\ ColorsWithinRates
  BY DEF MetersSound
<1>1. MtrTypeOK
  <2>1. \A i \in 1..MtrCount : mtrRates[i].tokens \in Nat /\ mtrRates[i].burst \in Nat
    BY DEF MtrInv, MtrTypes, MtrRate
  <2> QED  BY <2>1 DEF MtrInv, MtrTypes, MtrTypeOK
<1>2. ASSUME mtrFrom = "set", NEW c \in 1..MtrCount
      PROVE  mtrPassed[c] <= mtrGiven[c].burst + mtrGiven[c].rate * (mtrTime - mtrSince)
  <2> DEFINE r == mtrRates[MtrCount + 1 - c]
  <2>1. r \in MtrRate /\ mtrPassed[c] \in Nat
    <3>1. MtrCount + 1 - c \in 1..MtrCount
      BY MtrAssumption
    <3> QED  BY <3>1 DEF MtrInv, MtrTypes
  <2>2. r.rate \in Nat /\ r.burst \in Nat /\ r.tokens \in Nat /\ r.last \in Nat
    BY <2>1 DEF MtrRate
  <2>3. /\ r.rate = mtrGiven[c].rate /\ r.burst = mtrGiven[c].burst
        /\ r.last <= mtrTime * r.rate /\ Accounted(r, mtrPassed[c], mtrSince)
    BY <1>2 DEF MtrInv, RateSound
  <2>4. mtrTime \in Nat /\ mtrSince \in Nat /\ mtrSince <= mtrTime
    BY MtrAssumption DEF MtrInv, MtrTypes
  <2> HIDE DEF r
  <2> DEFINE start == mtrSince * r.rate
  <2> DEFINE end == mtrTime * r.rate
  <2> DEFINE long == r.rate * (mtrTime - mtrSince)
  <2>5. start \in Nat /\ end \in Nat /\ start <= end
    BY <2>2, <2>4, Earns
  <2>6. long = end - start
    BY <2>2, <2>4
  <2>7. IF r.last >= start THEN mtrPassed[c] + r.tokens <= r.burst + (r.last - start)
        ELSE mtrPassed[c] = 0
    BY <2>3 DEF Accounted
  <2>8. r.last <= end
    BY <2>3
  <2> HIDE DEF start, end, long
  <2>9. mtrPassed[c] <= r.burst + long
    BY <2>1, <2>2, <2>5, <2>6, <2>7, <2>8
  <2> QED  BY <2>3, <2>9 DEF long
<1>3. ColorsWithinRates
  BY <1>2 DEF ColorsWithinRates, Within
<1> QED  BY <1>1, <1>3

\* For any number of rates, threads and packets, and whatever clock values the
\* threads bring to the mutex: the rates a client set are never exceeded below
\* their colors, and no bucket holds more than its burst.
THEOREM MetersAreSound ==
  MtrSpec => []MetersSound
<1>1. MtrInv /\ [MtrNext]_mtrVars => MtrInv'
  <2>1. MtrInv /\ UNCHANGED mtrVars => MtrInv'
    BY DEF MtrInv, MtrTypes, RateSound, mtrVars
  <2> QED  BY <2>1, MtrSteps
<1> QED  BY <1>1, MtrStarts, MtrInvSuffices, PTL DEF MtrSpec

-----------------------------------------------------------------------------
(* Remainders, as the versions of handles need them.                       *)

\* A small number is its own remainder.
LEMMA ModSmall == ASSUME NEW n \in Nat \ {0}, NEW k \in 0 .. n - 1 PROVE k % n = k
OBVIOUS

\* A number leaves no remainder of itself.
LEMMA ModItself == ASSUME NEW n \in Nat \ {0} PROVE n % n = 0
OBVIOUS

-----------------------------------------------------------------------------
(* MatchTable: a handle that was given out names its own entry or none.    *)

\* The free slot an add takes is a free slot.
LEMMA FreeSlotIsFree ==
  ASSUME mtUsed \subseteq Slots, mtUsed # Slots
  PROVE  FreeSlot \in Slots \ mtUsed
<1>0. Slots \subseteq Nat
  BY MtAssumption DEF Slots
<1>1. Slots \ mtUsed \subseteq Nat /\ Slots \ mtUsed # {}
  BY <1>0
<1>2. PICK n \in Slots \ mtUsed : \A m \in Slots \ mtUsed : n =< m
  BY <1>1, LeastNatural
<1> QED  BY <1>2 DEF FreeSlot, Min

\* The initial table has given out no handle.
LEMMA HandleBegins == MtInit => HandleInv
<1> SUFFICES ASSUME MtInit PROVE HandleInv  OBVIOUS
<1>1. mtEntries \in [Slots -> MtEntry]
  BY MtAssumption DEF MtInit, EmptyEntry, MtEntry
<1>2. \A s \in Slots : mtEntries[s].version = 0
  BY DEF MtInit, EmptyEntry
<1>3. \A s \in Slots, v \in 0 .. MtVersions - 1 : [slot |-> s, version |-> v] \in Handles
  BY DEF Handles
<1> QED  BY <1>1, <1>2, <1>3, MtAssumption DEF MtInit, HandleInv, Spent

\* An add gives out a handle that no client has had.
LEMMA AddKeepsHandles ==
  ASSUME HandleInv, NEW k \in MtKeys, NEW p \in MtPriorities, NEW a \in MtActions,
         MtAddEntry(k, p, a)
  PROVE  HandleInv'
<1> DEFINE s == FreeSlot
           version == mtEntries[s].version
           h == [slot |-> s, version |-> version]
<1>1. s \in Slots \ mtUsed
  BY FreeSlotIsFree DEF HandleInv, MtAddEntry
<1>2. /\ mtAdds \in Nat /\ mtAdds < MtMaxAdds /\ mtAdds' = mtAdds + 1
      /\ mtEntries' = [mtEntries EXCEPT ![s] =
             [key |-> k, priority |-> p, value |-> a, version |-> version]]
      /\ mtUsed' = mtUsed \cup {s}
      /\ mtSerial' = [mtSerial EXCEPT ![s] = mtAdds + 1]
      /\ mtIssued' = [mtIssued EXCEPT ![h] = @ \cup {mtAdds + 1}]
  BY MtAssumption DEF HandleInv, MtAddEntry
<1>3. /\ version \in 0 .. MtVersions - 1 /\ h \in Handles
      /\ \A r \in Slots : mtEntries[r].version \in 0 .. MtVersions - 1
  BY <1>1 DEF HandleInv, MtEntry, Handles
<1>4. \A r \in Slots : ~Spent(r)
  BY <1>2, MtAssumption DEF Spent
<1> HIDE DEF s, version
<1>5. /\ mtEntries' \in [Slots -> MtEntry] /\ mtUsed' \subseteq Slots
      /\ mtAdds' \in 0 .. MtMaxAdds /\ mtSerial' \in [Slots -> Nat]
  BY <1>1, <1>2, <1>3, MtAssumption DEF HandleInv, MtEntry
<1>6. mtIssued' \in [Handles -> SUBSET Nat]
  BY <1>2, <1>3 DEF HandleInv
<1>7. ASSUME NEW r \in Slots
      PROVE  /\ mtEntries'[r].version =< mtAdds'
             /\ r \in mtUsed' => mtEntries'[r].version < mtAdds'
             /\ \A v \in mtEntries'[r].version .. MtVersions - 1 :
                  mtIssued'[[slot |-> r, version |-> v]] =
                    IF r \in mtUsed' /\ v = mtEntries'[r].version
                    THEN {mtSerial'[r]} ELSE {}
  <2>1. mtEntries'[r].version = mtEntries[r].version
    BY <1>1, <1>2, <1>3 DEF HandleInv, version
  <2>0. mtEntries[r].version =< mtAdds
    BY <1>4 DEF HandleInv
  <2>2. mtEntries[r].version =< mtAdds /\ mtEntries[r].version \in Nat
    BY <1>3, <2>0
  <2>3. ASSUME NEW v \in mtEntries[r].version .. MtVersions - 1
        PROVE  mtIssued'[[slot |-> r, version |-> v]] =
                 IF r \in mtUsed' /\ v = mtEntries[r].version THEN {mtSerial'[r]} ELSE {}
    <3>1. v \in 0 .. MtVersions - 1 /\ [slot |-> r, version |-> v] \in Handles
      BY <2>2, <2>3, MtAssumption DEF Handles
    <3>2. mtIssued[[slot |-> r, version |-> v]] =
            IF r \in mtUsed /\ v = mtEntries[r].version THEN {mtSerial[r]} ELSE {}
      BY <1>4, <2>3 DEF HandleInv
    <3>3. CASE r = s /\ v = version
      BY <1>1, <1>2, <1>3, <3>1, <3>2, <3>3 DEF HandleInv, version
    <3>4. CASE ~(r = s /\ v = version)
      <4>1. [slot |-> r, version |-> v] # h
        BY <3>4
      <4>2. mtIssued'[[slot |-> r, version |-> v]] = mtIssued[[slot |-> r, version |-> v]]
        BY <1>2, <1>3, <3>1, <4>1 DEF HandleInv
      <4>3. CASE r = s
        BY <1>1, <3>2, <3>4, <4>2, <4>3 DEF version
      <4>4. CASE r # s
        BY <1>1, <1>2, <3>2, <4>2, <4>4 DEF HandleInv
      <4> QED  BY <4>3, <4>4
    <3> QED  BY <3>3, <3>4
  <2>4. mtEntries[r].version < mtAdds'
    BY <1>2, <2>2
  <2>5. mtEntries[r].version =< mtAdds'
    BY <1>2, <2>2
  <2> QED  BY <2>1, <2>3, <2>4, <2>5
<1> QED  BY <1>5, <1>6, <1>7 DEF HandleInv

\* A delete moves the version on, to one that was never given out or, when the
\* version wraps, to one that no add is left for.
LEMMA DeleteKeepsHandles ==
  ASSUME HandleInv, NEW h \in Handles, MtDeleteEntry(h)
  PROVE  HandleInv'
<1> DEFINE s == h.slot
           version == mtEntries[s].version
           next == (version + 1) % MtVersions
<1>1. /\ s \in Slots /\ s \in mtUsed
      /\ mtEntries' = [mtEntries EXCEPT ![s].version = next]
      /\ mtUsed' = mtUsed \ {s}
      /\ mtAdds' = mtAdds /\ mtSerial' = mtSerial /\ mtIssued' = mtIssued
  BY DEF HandleInv, MtDeleteEntry, MtValidHandle, Handles
<1>a. \A r \in Slots : mtEntries[r].version \in 0 .. MtVersions - 1
  BY DEF HandleInv, MtEntry
<1>b. mtAdds \in 0 .. MtMaxAdds
  BY DEF HandleInv
<1>c. version < mtAdds
  BY <1>1 DEF HandleInv, Spent
<1>2. /\ \A r \in Slots : mtEntries[r].version \in 0 .. MtVersions - 1
      /\ version \in 0 .. MtVersions - 1
      /\ mtAdds \in Nat /\ mtAdds =< MtVersions /\ mtAdds =< MtMaxAdds /\ version < mtAdds
  <2>1. version \in 0 .. MtVersions - 1
    BY <1>1, <1>a
  <2>2. mtAdds \in Nat /\ mtAdds =< MtVersions /\ mtAdds =< MtMaxAdds
    BY <1>b, MtAssumption
  <2> QED  BY <1>a, <1>c, <2>1, <2>2
<1>3. /\ next \in 0 .. MtVersions - 1
      /\ next = version + 1 \/ mtAdds = MtMaxAdds
  <2>1. CASE version + 1 < MtVersions
    BY <1>2, <2>1, MtAssumption, ModSmall
  <2>2. CASE version + 1 = MtVersions
    BY <1>2, <2>2, MtAssumption, ModItself
  <2> QED  BY <1>2, <2>1, <2>2, MtAssumption
<1> HIDE DEF s, next
<1>4. /\ mtEntries' \in [Slots -> MtEntry]
      /\ mtEntries'[s].version = next
      /\ \A r \in Slots : r # s => mtEntries'[r] = mtEntries[r]
  BY <1>1, <1>3 DEF HandleInv, MtEntry
<1>5. ASSUME NEW r \in Slots, ~Spent(r)'
      PROVE  /\ mtEntries'[r].version =< mtAdds'
             /\ r \in mtUsed' => mtEntries'[r].version < mtAdds'
             /\ \A v \in mtEntries'[r].version .. MtVersions - 1 :
                  mtIssued'[[slot |-> r, version |-> v]] =
                    IF r \in mtUsed' /\ v = mtEntries'[r].version
                    THEN {mtSerial'[r]} ELSE {}
  <2>1. CASE r # s
    BY <1>1, <1>4, <1>5, <2>1 DEF HandleInv, Spent
  <2>2. CASE r = s
    <3>1. next = version + 1 /\ ~Spent(s) /\ r \notin mtUsed'
      BY <1>1, <1>3, <1>5, <2>2 DEF Spent
    <3>2. ASSUME NEW v \in next .. MtVersions - 1
          PROVE  mtIssued[[slot |-> s, version |-> v]] = {}
      <4>1. v \in version .. MtVersions - 1 /\ v # version
        BY <1>2, <3>1
      <4> QED  BY <1>1, <3>1, <4>1 DEF HandleInv
    <3> QED  BY <1>1, <1>2, <1>4, <2>2, <3>1, <3>2
  <2> QED  BY <2>1, <2>2
<1> QED  BY <1>1, <1>4, <1>5 DEF HandleInv

\* Every step of the table keeps the accounts of its handles.
LEMMA HandleStep == HandleInv /\ [MtNext]_mtVars => HandleInv'
<1> SUFFICES ASSUME HandleInv, [MtNext]_mtVars PROVE HandleInv'  OBVIOUS
<1>1. ASSUME NEW h \in Handles, NEW a \in MtActions, MtModifyEntry(h, a) PROVE HandleInv'
  <2>1. /\ mtEntries' \in [Slots -> MtEntry]
        /\ \A r \in Slots : mtEntries'[r].version = mtEntries[r].version
    BY <1>1 DEF MtModifyEntry, HandleInv, MtEntry, Handles
  <2>2. UNCHANGED <<mtUsed, mtAdds, mtSerial, mtIssued>>
    BY <1>1 DEF MtModifyEntry
  <2>3. ASSUME NEW s \in Slots, ~Spent(s)'
        PROVE  /\ mtEntries'[s].version =< mtAdds'
               /\ s \in mtUsed' => mtEntries'[s].version < mtAdds'
               /\ \A v \in mtEntries'[s].version .. MtVersions - 1 :
                    mtIssued'[[slot |-> s, version |-> v]] =
                      IF s \in mtUsed' /\ v = mtEntries'[s].version
                      THEN {mtSerial'[s]} ELSE {}
    <3>1. ~Spent(s)
      BY <2>2, <2>3 DEF Spent
    <3> QED  BY <2>1, <2>2, <3>1, ZenonT(40) DEF HandleInv
  <2> QED  BY <2>1, <2>2, <2>3 DEF HandleInv
<1>2. ASSUME NEW b \in BOOLEAN, MtResetState(b) PROVE HandleInv'
  <2>1. mtEntries' \in [Slots -> MtEntry]
    BY <1>2, MtAssumption DEF MtResetState, EmptyEntry, MtEntry
  <2>2. \A s \in Slots : mtEntries'[s].version = 0
    BY <1>2 DEF MtResetState, EmptyEntry
  <2>3. \A s \in Slots, v \in 0 .. MtVersions - 1 : [slot |-> s, version |-> v] \in Handles
    BY DEF Handles
  <2> QED  BY <1>2, <2>1, <2>2, <2>3, MtAssumption DEF MtResetState, HandleInv, Spent
<1>3. ASSUME UNCHANGED <<mtEntries, mtUsed, mtAdds, mtSerial, mtIssued>> PROVE HandleInv'
  BY <1>3 DEF HandleInv, Spent
<1>4. CASE \/ \E a \in MtActions : SetDefaultAction(a)
           \/ MtResetDefaultEntry
           \/ \E t \in MtThreads, pkt \in MtPackets : LookupStart(t, pkt)
           \/ \E t \in MtThreads : LookupFill(t)
           \/ UNCHANGED mtVars
  BY <1>3, <1>4 DEF SetDefaultAction, MtResetDefaultEntry, LookupStart, LookupFill, mtVars
<1> QED  BY <1>1, <1>2, <1>4, AddKeepsHandles, DeleteKeepsHandles DEF MtNext

\* A handle a client was given names the entry it was given for or nothing,
\* for every size of the table and every width of the versions: the versions
\* of match_units.cpp do their work until they wrap.
THEOREM HandlesNameTheirEntries == MtSpec => []HandleNamesItsEntry
<1>1. HandleInv => HandleNamesItsEntry
  <2> SUFFICES ASSUME HandleInv, NEW h \in Handles, MtValidHandle(h)
               PROVE  mtIssued[h] = {mtSerial[h.slot]}
    BY DEF HandleNamesItsEntry
  <2>1. /\ h = [slot |-> h.slot, version |-> h.version] /\ h.slot \in Slots
        /\ h.version \in 0 .. MtVersions - 1
    BY DEF Handles
  <2>2. h.slot \in mtUsed /\ ~Spent(h.slot) /\ mtEntries[h.slot].version = h.version
    BY DEF MtValidHandle, Spent
  <2>3. h.version \in mtEntries[h.slot].version .. MtVersions - 1
    BY <2>1, <2>2, MtAssumption
  <2>4. mtIssued[[slot |-> h.slot, version |-> h.version]] = {mtSerial[h.slot]}
    BY <2>1, <2>2, <2>3 DEF HandleInv
  <2> QED  BY <2>1, <2>4
<1>2. QED
  BY <1>1, HandleBegins, HandleStep, PTL DEF MtSpec

-----------------------------------------------------------------------------
(* EntryCounters: the threads between the two additions.                   *)

\* The threads at slot s.
At(s) == {t \in CtThreads : ctThread[t] = s}

\* Their number is a number.
LEMMA HalfIsNumber ==
  ASSUME NEW s
  PROVE  IsFiniteSet(At(s)) /\ CtHalf(s) \in Nat /\ CtHalf(s) = Cardinality(At(s))
<1>1. IsFiniteSet(At(s))
  BY CtAssumption, FS_Subset DEF At
<1>2. QED
  BY <1>1, FS_CardinalityType DEF At, CtHalf

\* No thread is at a slot exactly if the number is zero.
LEMMA HalfIsZero ==
  ASSUME NEW s
  PROVE  CtHalf(s) = 0 <=> \A t \in CtThreads : ctThread[t] # s
<1>1. CtHalf(s) = 0 <=> At(s) = {}
  BY HalfIsNumber, FS_EmptySet
<1>2. QED
  BY <1>1 DEF At

\* A thread that comes to a slot adds one there and changes no other slot.
LEMMA HalfComes ==
  ASSUME ctThread \in [CtThreads -> CtSlots \cup {CtNone}],
         NEW t \in CtThreads, ctThread[t] = CtNone, NEW s \in CtSlots,
         ctThread' = [ctThread EXCEPT ![t] = s]
  PROVE  /\ CtHalf(s)' = CtHalf(s) + 1
         /\ \A r \in CtSlots : r # s => CtHalf(r)' = CtHalf(r)
<1>0. CtNone \notin CtSlots
  BY CtAssumption DEF CtNone, CtSlots
<1>1. At(s)' = At(s) \cup {t} /\ t \notin At(s)
  BY <1>0 DEF At
<1>2. CtHalf(s)' = Cardinality(At(s)')
  BY DEF CtHalf, At
<1>3. Cardinality(At(s) \cup {t}) = CtHalf(s) + 1
  BY <1>1, HalfIsNumber, FS_AddElement
<1>4. ASSUME NEW r \in CtSlots, r # s PROVE CtHalf(r)' = CtHalf(r)
  <2>1. {u \in CtThreads : ctThread'[u] = r} = {u \in CtThreads : ctThread[u] = r}
    BY <1>0, <1>4
  <2> QED  BY <2>1 DEF CtHalf
<1> QED  BY <1>1, <1>2, <1>3, <1>4

\* A thread that leaves its slot takes one away there and nowhere else.
LEMMA HalfGoes ==
  ASSUME ctThread \in [CtThreads -> CtSlots \cup {CtNone}],
         NEW t \in CtThreads, NEW s \in CtSlots, ctThread[t] = s,
         ctThread' = [ctThread EXCEPT ![t] = CtNone]
  PROVE  /\ CtHalf(s) > 0 /\ CtHalf(s)' = CtHalf(s) - 1
         /\ \A r \in CtSlots : r # s => CtHalf(r)' = CtHalf(r)
<1>0. CtNone \notin CtSlots
  BY CtAssumption DEF CtNone, CtSlots
<1>1. At(s)' = At(s) \ {t} /\ t \in At(s)
  BY <1>0 DEF At
<1>2. CtHalf(s)' = Cardinality(At(s)')
  BY DEF CtHalf, At
<1>3. Cardinality(At(s) \ {t}) = CtHalf(s) - 1
  BY <1>1, HalfIsNumber, FS_RemoveElement
<1>4. ASSUME NEW r \in CtSlots, r # s PROVE CtHalf(r)' = CtHalf(r)
  <2>1. {u \in CtThreads : ctThread'[u] = r} = {u \in CtThreads : ctThread[u] = r}
    BY <1>0, <1>4
  <2> QED  BY <2>1 DEF CtHalf
<1>5. CtHalf(s) # 0 /\ CtHalf(s) \in Nat
  BY HalfIsZero, HalfIsNumber
<1> QED  BY <1>1, <1>2, <1>3, <1>4, <1>5

-----------------------------------------------------------------------------
(* EntryCounters: the invariant, one lemma per kind of step.               *)

\* The counters begin at zero, nobody at them.
LEMMA CountersBegin == CtInit => CtInv
<1> SUFFICES ASSUME CtInit PROVE CtInv  OBVIOUS
<1>1. CtTypes
  BY CtAssumption DEF CtInit, CtTypes, CtCounts, CtZero, CtNone, NoQuery, NoReset
<1>2. LockKeepsSlots
  BY DEF CtInit, LockKeepsSlots, NoQuery
<1>3. CountersExact
  BY DEF CtInit, CountersExact, Between, CtZero
<1>4. ResetAlone /\ QueryInBounds
  BY DEF CtInit, ResetAlone, QueryInBounds, NoQuery, NoReset
<1> QED  BY <1>1, <1>2, <1>3, <1>4 DEF CtInv

\* The facts every step starts from.
LEMMA CountersHave ==
  ASSUME CtInv
  PROVE  /\ CtNone \notin CtSlots
         /\ ctLive \subseteq CtSlots
         /\ ctValue \in [CtSlots -> CtCounts] /\ ctTrue \in [CtSlots -> CtCounts]
         /\ ctThread \in [CtThreads -> CtSlots \cup {CtNone}]
         /\ ctReset \in [slot : CtSlots \cup {CtNone}, half : BOOLEAN]
         /\ ctReset.half => ctReset.slot \in CtSlots
         /\ ctQuery.slot = CtNone => ctQuery = NoQuery
         /\ \A s \in CtSlots : /\ ctValue[s].bytes \in Nat /\ ctValue[s].packets \in Nat
                               /\ ctTrue[s].bytes \in Nat /\ ctTrue[s].packets \in Nat
                               /\ CtHalf(s) \in Nat
         /\ LockKeepsSlots /\ CountersExact
         /\ ~ctRaced => ResetAlone /\ QueryInBounds
<1>1. CtNone \notin CtSlots
  BY CtAssumption DEF CtNone, CtSlots
<1>2. \A s \in CtSlots : /\ ctValue[s].bytes \in Nat /\ ctValue[s].packets \in Nat
                         /\ ctTrue[s].bytes \in Nat /\ ctTrue[s].packets \in Nat
  BY DEF CtInv, CtTypes, CtCounts
<1> QED  BY <1>1, <1>2, HalfIsNumber DEF CtInv, CtTypes

\* A slot gets a new value under the write lock: add_entry and write_counters.
LEMMA SetKeepsCounters ==
  ASSUME CtInv, Unlocked, NEW s \in CtSlots, NEW v \in CtCounts, SetSlot(s, v),
         ctLive' = ctLive \cup {s},
         UNCHANGED <<ctThread, ctQuery, ctReset, ctAnswer>>
  PROVE  CtInv'
<1> USE CountersHave
<1>1. /\ ctValue' = [ctValue EXCEPT ![s] = v] /\ ctTrue' = [ctTrue EXCEPT ![s] = v]
      /\ ctRaced' = (ctRaced \/ ResetHalf(s))
  BY DEF SetSlot
<1>2. \A r \in CtSlots : CtHalf(r) = 0 /\ CtHalf(r)' = 0
  <2>1. \A r \in CtSlots : CtHalf(r) = 0
    BY HalfIsZero DEF Unlocked
  <2>2. \A r \in CtSlots : CtHalf(r)' = CtHalf(r)
    BY DEF CtHalf
  <2> QED  BY <2>1, <2>2
<1>3. CtTypes'
  <2>1. ctRaced' \in BOOLEAN
    BY <1>1 DEF ResetHalf
  <2> QED  BY <1>1, <2>1 DEF CtInv, CtTypes, NoQuery
<1>4. LockKeepsSlots'
  BY DEF LockKeepsSlots
<1>5. ASSUME ~ctRaced' PROVE ResetAlone' /\ QueryInBounds'
  <2>1. ~ctRaced /\ ~ResetHalf(s)
    BY <1>1, <1>5
  <2>2. QueryInBounds'
    BY DEF QueryInBounds, Unlocked, NoQuery
  <2>3. ResetAlone'
    BY <1>1, <1>2, <2>1 DEF ResetAlone, ResetHalf, Unlocked, NoQuery
  <2> QED  BY <2>2, <2>3
<1>6. CountersExact'
  <2> SUFFICES ASSUME ~ctRaced'
               PROVE  \A r \in ctLive' :
                        /\ ctValue'[r].bytes = ctTrue'[r].bytes
                        /\ ~ResetHalf(r)' => ctValue'[r].packets + CtHalf(r)' = ctTrue'[r].packets
    <3>1. CASE ctRaced  BY <1>1, <3>1 DEF CountersExact
    <3>2. CASE ~ctRaced  BY <3>2 DEF CountersExact, Between
    <3> QED  BY <3>1, <3>2
  <2>1. ~ctRaced
    BY <1>1
  <2>2. ASSUME NEW r \in ctLive', r # s
        PROVE  /\ ctValue'[r].bytes = ctTrue'[r].bytes
               /\ ~ResetHalf(r)' => ctValue'[r].packets + CtHalf(r)' = ctTrue'[r].packets
    <3>1. r \in ctLive /\ r \in CtSlots /\ ctValue'[r] = ctValue[r] /\ ctTrue'[r] = ctTrue[r]
      BY <1>1, <2>2
    <3>2. ResetHalf(r)' = ResetHalf(r)
      BY DEF ResetHalf
    <3> QED  BY <1>2, <2>1, <3>1, <3>2 DEF CountersExact
  <2>3. ctValue'[s] = v /\ ctTrue'[s] = v /\ v.packets \in Nat
    BY <1>1 DEF CtCounts
  <2>4. v.packets + 0 = v.packets
    BY <2>3
  <2> QED  BY <1>2, <2>2, <2>3, <2>4
<1> QED  BY <1>3, <1>4, <1>5, <1>6 DEF CtInv

\* A packet adds its bytes: its slot has one thread more, and one packet more
\* to be counted.
LEMMA CountBytesKeeps ==
  ASSUME CtInv, NEW t \in CtThreads, NEW s \in CtSlots, NEW len \in CtLens,
         CountBytes(t, s, len)
  PROVE  CtInv'
<1> USE CountersHave
<1>1. /\ ctThread[t] = CtNone /\ s \in ctLive /\ len \in Nat
      /\ ctThread' = [ctThread EXCEPT ![t] = s]
      /\ ctValue' = [ctValue EXCEPT ![s].bytes = @ + len]
      /\ ctTrue' = [ctTrue EXCEPT ![s] = [bytes |-> @.bytes + len, packets |-> @.packets + 1]]
      /\ ctRaced' = (ctRaced \/ ResetHalf(s))
      /\ UNCHANGED <<ctLive, ctQuery, ctReset, ctAnswer>>
  BY CtAssumption DEF CountBytes
<1>2. /\ CtHalf(s)' = CtHalf(s) + 1
      /\ \A r \in CtSlots : r # s => CtHalf(r)' = CtHalf(r)
  BY <1>1, HalfComes
<1>3. /\ ctValue'[s].bytes = ctValue[s].bytes + len /\ ctValue'[s].packets = ctValue[s].packets
      /\ ctTrue'[s].bytes = ctTrue[s].bytes + len /\ ctTrue'[s].packets = ctTrue[s].packets + 1
      /\ \A r \in CtSlots : r # s => ctValue'[r] = ctValue[r] /\ ctTrue'[r] = ctTrue[r]
  BY <1>1 DEF CtCounts
<1>4. CtTypes'
  <2>1. ctRaced' \in BOOLEAN
    BY <1>1 DEF ResetHalf
  <2>2. ctValue' \in [CtSlots -> CtCounts]
    BY <1>1 DEF CtCounts
  <2>3. ctTrue' \in [CtSlots -> CtCounts]
    BY <1>1 DEF CtCounts
  <2> QED  BY <1>1, <2>1, <2>2, <2>3 DEF CtTypes, NoQuery
<1>5. LockKeepsSlots'
  BY <1>1 DEF LockKeepsSlots
<1>6. ASSUME ~ctRaced' PROVE ResetAlone' /\ QueryInBounds'
  <2>1. ~ctRaced /\ ~ResetHalf(s) /\ ResetAlone /\ QueryInBounds
    BY <1>1, <1>6
  <2>2. ResetAlone'
    BY <1>1, <1>2, <1>3, <2>1 DEF ResetAlone, ResetHalf
  <2>3. QueryInBounds'
    <3>1. CASE ctQuery.slot = CtNone
      BY <1>1, <3>1 DEF QueryInBounds
    <3>2. CASE ctQuery.slot # CtNone /\ ctQuery.slot # s
      BY <1>1, <1>3, <2>1, <3>2 DEF QueryInBounds, LockKeepsSlots
    <3>3. CASE ctQuery.slot = s
      BY <1>1, <1>3, <2>1, <3>3 DEF QueryInBounds, Between, CtCounts
    <3> QED  BY <3>1, <3>2, <3>3
  <2> QED  BY <2>2, <2>3
<1>7. CountersExact'
  <2> SUFFICES ASSUME ~ctRaced'
               PROVE  \A r \in ctLive' :
                        /\ ctValue'[r].bytes = ctTrue'[r].bytes
                        /\ ~ResetHalf(r)' => ctValue'[r].packets + CtHalf(r)' = ctTrue'[r].packets
    BY <1>1 DEF CountersExact, Between
  <2>1. ~ctRaced /\ ~ResetHalf(s)
    BY <1>1
  <2>2. \A r \in ctLive : r \in CtSlots /\ ResetHalf(r)' = ResetHalf(r)
    BY <1>1 DEF ResetHalf
  <2>3. ctValue[s].bytes = ctTrue[s].bytes /\ ctValue[s].packets + CtHalf(s) = ctTrue[s].packets
    BY <1>1, <2>1 DEF CountersExact
  <2>4. ctValue'[s].bytes = ctTrue'[s].bytes
    BY <1>3, <2>3
  <2>5. ctValue'[s].packets + CtHalf(s)' = ctTrue'[s].packets
    <3>1. PICK v \in Nat, h \in Nat : v = ctValue[s].packets /\ h = CtHalf(s)
      OBVIOUS
    <3>2. ctTrue[s].packets = v + h
      BY <2>3, <3>1
    <3>3. ctValue'[s].packets = v /\ CtHalf(s)' = h + 1 /\ ctTrue'[s].packets = v + h + 1
      BY <1>2, <1>3, <3>1, <3>2
    <3>4. v + (h + 1) = v + h + 1
      OBVIOUS
    <3> QED  BY <3>3, <3>4
  <2>6. ASSUME NEW r \in ctLive, r # s
        PROVE  /\ ctValue'[r].bytes = ctTrue'[r].bytes
               /\ ~ResetHalf(r)' => ctValue'[r].packets + CtHalf(r)' = ctTrue'[r].packets
    <3>1. /\ r \in CtSlots /\ ResetHalf(r)' = ResetHalf(r) /\ CtHalf(r)' = CtHalf(r)
          /\ ctValue'[r] = ctValue[r] /\ ctTrue'[r] = ctTrue[r]
      BY <1>2, <1>3, <2>2, <2>6
    <3>2. /\ ctValue[r].bytes = ctTrue[r].bytes
          /\ ~ResetHalf(r) => ctValue[r].packets + CtHalf(r) = ctTrue[r].packets
      BY <1>1, <2>1 DEF CountersExact
    <3> QED  BY <3>1, <3>2
  <2>7. ctLive' = ctLive
    BY <1>1
  <2> QED  BY <2>4, <2>5, <2>6, <2>7
<1> QED  BY <1>4, <1>5, <1>6, <1>7 DEF CtInv

\* It adds its packet: one thread less, one packet more counted.
LEMMA CountPacketsKeeps ==
  ASSUME CtInv, NEW t \in CtThreads, CountPackets(t)
  PROVE  CtInv'
<1> USE CountersHave
<1> DEFINE s == ctThread[t]
<1>1. /\ s \in CtSlots /\ s \in ctLive
      /\ ctThread' = [ctThread EXCEPT ![t] = CtNone]
      /\ ctValue' = [ctValue EXCEPT ![s].packets = @ + 1]
      /\ UNCHANGED <<ctLive, ctQuery, ctReset, ctAnswer, ctTrue, ctRaced>>
  BY DEF CountPackets, LockKeepsSlots
<1>2. PICK r \in CtSlots : r = s
  BY <1>1
<1>3. /\ CtHalf(r) > 0 /\ CtHalf(r)' = CtHalf(r) - 1
      /\ \A x \in CtSlots : x # r => CtHalf(x)' = CtHalf(x)
  BY <1>1, <1>2, HalfGoes
<1>4. /\ ctValue'[r].bytes = ctValue[r].bytes /\ ctValue'[r].packets = ctValue[r].packets + 1
      /\ \A x \in CtSlots : x # r => ctValue'[x] = ctValue[x]
  BY <1>1, <1>2 DEF CtCounts
<1>5. CtTypes'
  <2>1. ctValue' \in [CtSlots -> CtCounts]
    BY <1>1 DEF CtCounts
  <2> QED  BY <1>1, <2>1 DEF CtInv, CtTypes, NoQuery
<1>6. LockKeepsSlots'
  BY <1>1 DEF LockKeepsSlots
<1>7. ASSUME ~ctRaced' PROVE ResetAlone' /\ QueryInBounds' /\ ~ResetHalf(r)
  <2>1. ~ctRaced /\ ResetAlone /\ QueryInBounds
    BY <1>1, <1>7
  <2>2. ~ResetHalf(r)
    BY <1>3, <2>1 DEF ResetAlone, ResetHalf
  <2>3. ResetAlone'
    BY <1>1, <1>3, <2>1, <2>2 DEF ResetAlone, ResetHalf
  <2>4. QueryInBounds'
    <3>1. CASE ctQuery.slot = CtNone
      BY <1>1, <3>1 DEF QueryInBounds
    <3>2. CASE ctQuery.slot # CtNone /\ ctQuery.slot # r
      BY <1>1, <1>4, <2>1, <3>2 DEF QueryInBounds, LockKeepsSlots
    <3>3. CASE ctQuery.slot = r
      BY <1>1, <1>4, <2>1, <3>3 DEF QueryInBounds, Between, CtCounts
    <3> QED  BY <3>1, <3>2, <3>3
  <2> QED  BY <2>2, <2>3, <2>4
<1>8. CountersExact'
  <2> SUFFICES ASSUME ~ctRaced'
               PROVE  \A x \in ctLive' :
                        /\ ctValue'[x].bytes = ctTrue'[x].bytes
                        /\ ~ResetHalf(x)' => ctValue'[x].packets + CtHalf(x)' = ctTrue'[x].packets
    BY <1>1 DEF CountersExact, Between
  <2>1. ~ctRaced /\ ~ResetHalf(r)
    BY <1>1, <1>7
  <2>2. \A x \in ctLive : x \in CtSlots /\ ResetHalf(x)' = ResetHalf(x)
    BY <1>1 DEF ResetHalf
  <2>3. ctValue[r].bytes = ctTrue[r].bytes /\ ctValue[r].packets + CtHalf(r) = ctTrue[r].packets
    BY <1>1, <1>2, <2>1 DEF CountersExact
  <2>4. ctValue'[r].packets + CtHalf(r)' = ctTrue[r].packets
    BY <1>3, <1>4, <2>3
  <2> QED  BY <1>1, <1>3, <1>4, <2>1, <2>2, <2>3, <2>4 DEF CountersExact
<1> QED  BY <1>5, <1>6, <1>7, <1>8 DEF CtInv

\* A query begins: what it has read of a slot that is not being reset is what
\* was finished.
LEMMA QueryBytesKeeps ==
  ASSUME CtInv, NEW s \in CtSlots, QueryBytes(s)
  PROVE  CtInv'
<1> USE CountersHave
<1>1. /\ ctQuery = NoQuery /\ s \in ctLive
      /\ ctQuery' = [slot |-> s, bytes |-> ctValue[s].bytes, from |-> Finished(s)]
      /\ ctRaced' = (ctRaced \/ ResetHalf(s))
      /\ UNCHANGED <<ctLive, ctValue, ctThread, ctReset, ctAnswer, ctTrue>>
  BY DEF QueryBytes
<1>2. \A x \in CtSlots : CtHalf(x)' = CtHalf(x) /\ ResetHalf(x)' = ResetHalf(x)
  BY <1>1 DEF CtHalf, ResetHalf
<1>3. CtTypes'
  <2>1. ctRaced' \in BOOLEAN
    BY <1>1 DEF ResetHalf
  <2> QED  BY <1>1, <2>1 DEF CtTypes
<1>4. LockKeepsSlots'
  BY <1>1 DEF LockKeepsSlots
<1>5. ASSUME ~ctRaced' PROVE ResetAlone' /\ QueryInBounds'
  <2>1. ~ctRaced /\ ~ResetHalf(s) /\ ResetAlone
    BY <1>1, <1>5
  <2>2. ctValue[s].bytes = ctTrue[s].bytes /\ ctValue[s].packets + CtHalf(s) = ctTrue[s].packets
    BY <1>1, <2>1 DEF CountersExact
  <2>3. ctTrue[s].packets - CtHalf(s) = ctValue[s].packets
    BY <2>2
  <2>4. Finished(s) = [bytes |-> ctTrue[s].bytes, packets |-> ctValue[s].packets]
    BY <2>3 DEF Finished
  <2>5. QueryInBounds'
    BY <1>1, <2>2, <2>4 DEF QueryInBounds, Between, CtCounts
  <2>6. ResetAlone'
    BY <1>1, <1>2, <2>1 DEF ResetAlone, ResetHalf
  <2> QED  BY <2>5, <2>6
<1>6. CountersExact'
  BY <1>1, <1>2 DEF CountersExact, Between
<1> QED  BY <1>3, <1>4, <1>5, <1>6 DEF CtInv

\* A query ends: its packets are no more than were begun.
LEMMA QueryPacketsKeeps ==
  ASSUME CtInv, QueryPackets
  PROVE  CtInv'
<1> USE CountersHave
<1> DEFINE s == ctQuery.slot
<1>1. /\ s # CtNone /\ s \in ctLive /\ s \in CtSlots
      /\ ctAnswer' = [read |-> [bytes |-> ctQuery.bytes, packets |-> ctValue[s].packets],
                      from |-> ctQuery.from, to |-> ctTrue[s]]
      /\ ctQuery' = NoQuery
      /\ UNCHANGED <<ctLive, ctValue, ctThread, ctReset, ctTrue, ctRaced>>
  BY DEF QueryPackets, LockKeepsSlots
<1>2. \A x \in CtSlots : CtHalf(x)' = CtHalf(x) /\ ResetHalf(x)' = ResetHalf(x)
  BY <1>1 DEF CtHalf, ResetHalf
<1>3. CtTypes' /\ LockKeepsSlots'
  BY <1>1 DEF CtInv, CtTypes, LockKeepsSlots, NoQuery
<1>4. ASSUME ~ctRaced' PROVE ResetAlone' /\ QueryInBounds'
  BY <1>1, <1>2, <1>4 DEF ResetAlone, QueryInBounds, NoQuery
<1>5. CountersExact'
  <2> SUFFICES ASSUME ~ctRaced' PROVE CountersExact'  BY DEF CountersExact
  <2>1. ~ctRaced /\ ResetAlone /\ QueryInBounds
    BY <1>1
  <2>2. ctValue[s].packets + CtHalf(s) = ctTrue[s].packets
    BY <1>1, <2>1 DEF ResetAlone, ResetHalf, CountersExact
  <2>3. ctValue[s].packets =< ctTrue[s].packets
    BY <1>1, <2>2
  <2>4. /\ Between(ctQuery.bytes, ctQuery.from.bytes, ctTrue[s].bytes)
        /\ Between(ctValue[s].packets, ctQuery.from.packets, ctTrue[s].packets)
    BY <1>1, <2>1, <2>3 DEF QueryInBounds, Between
  <2>5. /\ Between(ctAnswer'.read.bytes, ctAnswer'.from.bytes, ctAnswer'.to.bytes)
        /\ Between(ctAnswer'.read.packets, ctAnswer'.from.packets, ctAnswer'.to.packets)
    BY <1>1, <2>4
  <2> QED  BY <1>1, <1>2, <2>1, <2>5 DEF CountersExact
<1> QED  BY <1>3, <1>4, <1>5 DEF CtInv

\* The reset zeroes the bytes: whoever is at the slot is a race.
LEMMA ResetBytesKeeps ==
  ASSUME CtInv, ResetBytes
  PROVE  CtInv'
<1> USE CountersHave
<1> DEFINE s == ctReset.slot
<1>1. /\ s \in CtSlots \cup {CtNone} /\ ~ctReset.half /\ ctReset # NoReset
      /\ ctReset' = [ctReset EXCEPT !.half = TRUE]
      /\ ctValue' = [ctValue EXCEPT ![s].bytes = 0]
      /\ ctTrue' = [ctTrue EXCEPT ![s] = CtZero]
      /\ ctRaced' = (ctRaced \/ CtHalf(s) > 0 \/ ctQuery.slot = s)
      /\ UNCHANGED <<ctLive, ctThread, ctQuery, ctAnswer>>
  BY DEF ResetBytes
<1>2. s \in CtSlots
  <2>1. ctReset = [slot |-> s, half |-> ctReset.half] /\ ctReset.half \in BOOLEAN
    OBVIOUS
  <2>2. ctReset.half = FALSE
    BY <1>1, <2>1
  <2> QED  BY <1>1, <2>1, <2>2 DEF NoReset
<1>3. \A x \in CtSlots : CtHalf(x)' = CtHalf(x)
  BY <1>1 DEF CtHalf
<1>4. /\ ctReset'.slot = s /\ ctReset'.half
      /\ ctValue'[s].bytes = 0 /\ ctTrue'[s] = CtZero
      /\ \A x \in CtSlots : x # s => ctValue'[x] = ctValue[x] /\ ctTrue'[x] = ctTrue[x]
  BY <1>1, <1>2 DEF CtCounts
<1>5. CtTypes'
  <2>1. ctRaced' \in BOOLEAN
    BY <1>1
  <2>2. ctValue' \in [CtSlots -> CtCounts]
    BY <1>1, <1>2 DEF CtCounts
  <2>3. ctTrue' \in [CtSlots -> CtCounts]
    BY <1>1 DEF CtCounts, CtZero
  <2>4. ctReset' \in [slot : CtSlots \cup {CtNone}, half : BOOLEAN] /\ ctReset'.slot \in CtSlots
    BY <1>1, <1>2
  <2> QED  BY <1>1, <2>1, <2>2, <2>3, <2>4 DEF CtTypes, NoQuery
<1>6. LockKeepsSlots'
  BY <1>1 DEF LockKeepsSlots
<1>7. ASSUME ~ctRaced' PROVE ResetAlone' /\ QueryInBounds'
  <2>1. ~ctRaced /\ ~(CtHalf(s) > 0) /\ ctQuery.slot # s /\ QueryInBounds
    BY <1>1, <1>7
  <2>2. CtHalf(s) = 0
    BY <1>2, <2>1
  <2>3. ResetAlone'
    BY <1>1, <1>2, <1>3, <1>4, <2>1, <2>2 DEF ResetAlone
  <2>4. QueryInBounds'
    BY <1>1, <1>4, <2>1 DEF QueryInBounds, LockKeepsSlots
  <2> QED  BY <2>3, <2>4
<1>8. CountersExact'
  <2> SUFFICES ASSUME ~ctRaced'
               PROVE  \A x \in ctLive' :
                        /\ ctValue'[x].bytes = ctTrue'[x].bytes
                        /\ ~ResetHalf(x)' => ctValue'[x].packets + CtHalf(x)' = ctTrue'[x].packets
    BY <1>1 DEF CountersExact, Between
  <2>1. ~ctRaced
    BY <1>1
  <2>2. ASSUME NEW x \in ctLive, x # s
        PROVE  x \in CtSlots /\ ~ResetHalf(x)
    BY <2>2 DEF ResetHalf
  <2>3. ResetHalf(s)'
    BY <1>4 DEF ResetHalf
  <2> QED  BY <1>1, <1>3, <1>4, <2>1, <2>2, <2>3 DEF CountersExact, CtZero, ResetHalf
<1> QED  BY <1>5, <1>6, <1>7, <1>8 DEF CtInv

\* It zeroes the packets and goes on to the next slot.
LEMMA ResetPacketsKeeps ==
  ASSUME CtInv, ResetPackets
  PROVE  CtInv'
<1> USE CountersHave
<1> DEFINE s == ctReset.slot
<1>1. /\ ctReset.half /\ s \in CtSlots
      /\ ctReset' = [slot |-> s + 1, half |-> FALSE]
      /\ ctValue' = [ctValue EXCEPT ![s].packets = 0]
      /\ UNCHANGED <<ctLive, ctThread, ctQuery, ctAnswer, ctTrue, ctRaced>>
  BY DEF ResetPackets
<1>2. \A x \in CtSlots : CtHalf(x)' = CtHalf(x) /\ ~ResetHalf(x)'
  BY <1>1 DEF CtHalf, ResetHalf
<1>3. /\ ctValue'[s].packets = 0 /\ ctValue'[s].bytes = ctValue[s].bytes
      /\ \A x \in CtSlots : x # s => ctValue'[x] = ctValue[x]
  BY <1>1 DEF CtCounts
<1>4. CtTypes'
  <2>1. s + 1 \in CtSlots \cup {CtNone}
    BY <1>1, CtAssumption DEF CtSlots, CtNone
  <2>2. ctValue' \in [CtSlots -> CtCounts]
    BY <1>1 DEF CtCounts
  <2> QED  BY <1>1, <2>1, <2>2 DEF CtInv, CtTypes, NoQuery
<1>5. LockKeepsSlots'
  BY <1>1 DEF LockKeepsSlots
<1>6. ASSUME ~ctRaced' PROVE ResetAlone' /\ QueryInBounds'
  <2>1. ctQuery.slot # s /\ QueryInBounds
    BY <1>1, <1>6 DEF ResetAlone
  <2>2. QueryInBounds'
    BY <1>1, <1>3, <2>1 DEF QueryInBounds, LockKeepsSlots
  <2> QED  BY <1>1, <2>2 DEF ResetAlone
<1>7. CountersExact'
  <2> SUFFICES ASSUME ~ctRaced'
               PROVE  \A x \in ctLive' :
                        /\ ctValue'[x].bytes = ctTrue'[x].bytes
                        /\ ~ResetHalf(x)' => ctValue'[x].packets + CtHalf(x)' = ctTrue'[x].packets
    BY <1>1 DEF CountersExact, Between
  <2>1. ~ctRaced /\ ctTrue[s].packets = 0 /\ CtHalf(s) = 0
    BY <1>1 DEF ResetAlone, CtZero
  <2>2. ASSUME NEW x \in ctLive, x # s
        PROVE  x \in CtSlots /\ ~ResetHalf(x)
    BY <2>2 DEF ResetHalf
  <2>3. ctValue'[s].packets + CtHalf(s) = ctTrue[s].packets
    BY <1>3, <2>1
  <2> QED  BY <1>1, <1>2, <1>3, <2>1, <2>2, <2>3 DEF CountersExact
<1> QED  BY <1>4, <1>5, <1>6, <1>7 DEF CtInv

\* A reset begins at slot 0; a delete leaves the counters alone.
LEMMA QuietKeepsCounters ==
  ASSUME CtInv, ResetBegin \/ (\E s \in CtSlots : CtDeleteEntry(s)) \/ UNCHANGED ctVars
  PROVE  CtInv'
<1> USE CountersHave
<1>1. CASE ResetBegin
  <2>1. /\ ctReset = NoReset /\ ctReset' = [slot |-> 0, half |-> FALSE]
        /\ UNCHANGED <<ctLive, ctValue, ctThread, ctQuery, ctAnswer, ctTrue, ctRaced>>
    BY <1>1 DEF ResetBegin
  <2>2. \A x \in CtSlots : CtHalf(x)' = CtHalf(x) /\ ~ResetHalf(x) /\ ~ResetHalf(x)'
    BY <2>1 DEF CtHalf, ResetHalf, NoReset
  <2>3. 0 \in CtSlots
    BY CtAssumption DEF CtSlots
  <2>4. CtTypes' /\ LockKeepsSlots'
    BY <2>1, <2>3 DEF CtInv, CtTypes, LockKeepsSlots, NoQuery
  <2>5. ~ctRaced' => ResetAlone' /\ QueryInBounds'
    BY <2>1 DEF ResetAlone, QueryInBounds
  <2>6. CountersExact'
    BY <2>1, <2>2 DEF CountersExact, Between
  <2> QED  BY <2>4, <2>5, <2>6 DEF CtInv
<1>2. ASSUME NEW s \in CtSlots, CtDeleteEntry(s) PROVE CtInv'
  <2>1. /\ Unlocked /\ ctLive' = ctLive \ {s}
        /\ UNCHANGED <<ctValue, ctTrue, ctRaced, ctThread, ctQuery, ctReset, ctAnswer>>
    BY <1>2 DEF CtDeleteEntry
  <2>2. \A x \in CtSlots : CtHalf(x)' = CtHalf(x) /\ ResetHalf(x)' = ResetHalf(x)
    BY <2>1 DEF CtHalf, ResetHalf
  <2>3. CtTypes'
    BY <2>1 DEF CtInv, CtTypes, NoQuery
  <2>4. LockKeepsSlots'
    BY <2>1 DEF LockKeepsSlots, Unlocked, NoQuery
  <2>5. ~ctRaced' => ResetAlone' /\ QueryInBounds'
    BY <2>1, <2>2 DEF ResetAlone, QueryInBounds
  <2>6. CountersExact'
    BY <2>1, <2>2 DEF CountersExact, Between
  <2> QED  BY <2>3, <2>4, <2>5, <2>6 DEF CtInv
<1>3. CASE UNCHANGED ctVars
  BY <1>3 DEF ctVars, CtInv, CtTypes, LockKeepsSlots, ResetAlone, QueryInBounds, CountersExact,
              Between, CtHalf, ResetHalf, NoQuery
<1> QED  BY <1>1, <1>2, <1>3

\* Every step keeps the counters exact.
LEMMA CounterSteps == CtInv /\ [CtNext]_ctVars => CtInv'
<1> SUFFICES ASSUME CtInv, [CtNext]_ctVars PROVE CtInv'  OBVIOUS
<1>1. ASSUME NEW s \in CtSlots, CtAddEntry(s) PROVE CtInv'
  <2>1. CtZero \in CtCounts
    BY DEF CtZero, CtCounts
  <2> QED  BY <1>1, <2>1, SetKeepsCounters DEF CtAddEntry
<1>2. ASSUME NEW s \in CtSlots, NEW b \in CtLens, WriteCounters(s, [bytes |-> b, packets |-> 1])
      PROVE  CtInv'
  <2>1. [bytes |-> b, packets |-> 1] \in CtCounts
    BY CtAssumption DEF CtCounts
  <2>2. ctLive' = ctLive \cup {s}
    BY <1>2 DEF WriteCounters
  <2> QED  BY <1>2, <2>1, <2>2, SetKeepsCounters DEF WriteCounters
<1> QED
  BY <1>1, <1>2, CountBytesKeeps, CountPacketsKeeps, QueryBytesKeeps, QueryPacketsKeeps,
     ResetBytesKeeps, ResetPacketsKeeps, QuietKeepsCounters DEF CtNext

\* The counters of entries are exact for every number of slots and packet
\* threads: the two atomics of a Counter agree with the packets of the entry
\* that owns the slot, and a query is within its bounds, unless the reset that
\* takes no lock has met somebody.
THEOREM CountersInvariant == CtSpec => []CtInv
BY CountersBegin, CounterSteps, PTL DEF CtSpec

\* A slot that is used again belongs to its new entry alone, its handle and its
\* counter, for every size of the table and every number of threads.
THEOREM HandlesAreSound == MtSpec /\ CtSpec => []TableHandles
<1>1. CtInv => CtTypeOK /\ CountersExact
  BY CountersHave DEF CtTypeOK
<1>2. HandleNamesItsEntry /\ CtTypeOK /\ CountersExact => TableHandles
  BY DEF TableHandles
<1>3. QED
  BY <1>1, <1>2, HandlesNameTheirEntries, CountersInvariant, PTL

-----------------------------------------------------------------------------
(* Induction over numbers, for values that are computed step by step.      *)

\* Induction up to N, for a set of numbers.
LEMMA UpTo ==
  ASSUME NEW N \in Nat, NEW S, 0 \in S, \A n \in 1 .. N : n - 1 \in S => n \in S
  PROVE  \A n \in 0 .. N : n \in S
<1> DEFINE bad == {n \in 0 .. N : n \notin S}
<1>1. SUFFICES ASSUME bad # {} PROVE FALSE
  OBVIOUS
<1>2. bad \subseteq Nat
  OBVIOUS
<1>3. PICK n \in bad : \A m \in bad : n <= m
  BY <1>1, <1>2, LeastNatural
<1>4. n # 0 /\ n \in 1 .. N
  BY <1>3
<1>5. n - 1 \in 0 .. N /\ n - 1 \notin bad
  BY <1>3, <1>4
<1> QED  BY <1>3, <1>4, <1>5

\* A run of N steps from base, the n-th step being step[n].
StepsOf(N, V) == [1 .. N -> [V -> V]]
RunsOf(N, V, base, step) ==
  {w \in [0 .. N -> V] : w[0] = base /\ \A n \in 1 .. N : w[n] = step[n][w[n - 1]]}

\* A value that is computed step by step from base exists.
LEMMA Iterates ==
  ASSUME NEW N \in Nat, NEW V, NEW base \in V, NEW step \in StepsOf(N, V)
  PROVE  RunsOf(N, V, base, step) # {}
<1> USE DEF StepsOf
<1> DEFINE Upto(k, w) == w[0] = base /\ \A n \in 1 .. k : w[n] = step[n][w[n - 1]]
           S == {k \in 0 .. N : \E w \in [0 .. k -> V] : Upto(k, w)}
<1>1. 0 \in S
  <2> DEFINE v == [n \in 0 .. 0 |-> base]
  <2>1. v \in [0 .. 0 -> V] /\ Upto(0, v)
    OBVIOUS
  <2> HIDE DEF v, Upto
  <2> QED  BY <2>1
<1>2. ASSUME NEW k \in 1 .. N, k - 1 \in S PROVE k \in S
  <2>1. PICK w \in [0 .. k - 1 -> V] : Upto(k - 1, w)
    BY <1>2
  <2> DEFINE v == [n \in 0 .. k |-> IF n = k THEN step[k][w[k - 1]] ELSE w[n]]
  <2>2. w[k - 1] \in V /\ step[k][w[k - 1]] \in V
    OBVIOUS
  <2>3. v \in [0 .. k -> V] /\ v[0] = base /\ v[k] = step[k][w[k - 1]] /\ v[k - 1] = w[k - 1]
    BY <2>1, <2>2
  <2>4. ASSUME NEW n \in 1 .. k - 1 PROVE v[n] = step[n][v[n - 1]]
    <3>1. v[n] = w[n] /\ v[n - 1] = w[n - 1]
      OBVIOUS
    <3> QED  BY <2>1, <3>1
  <2>5. Upto(k, v)
    <3> HIDE DEF v
    <3>1. ASSUME NEW n \in 1 .. k PROVE v[n] = step[n][v[n - 1]]
      BY <2>3, <2>4
    <3> QED  BY <2>3, <3>1
  <2> HIDE DEF v, Upto
  <2>6. k \in 0 .. N
    OBVIOUS
  <2> QED  BY <2>3, <2>5, <2>6
<1> HIDE DEF S
<1>3. \A n \in 0 .. N : n \in S
  BY <1>1, <1>2, UpTo
<1>4. PICK w \in [0 .. N -> V] : Upto(N, w)
  BY <1>3 DEF S
<1> QED  BY <1>4 DEF RunsOf

-----------------------------------------------------------------------------
(* MatchTable: a packet gets the best live entry, from the list or from    *)
(* the cache.                                                              *)

\* One more slot of the walk.
WalkOn(seen) ==
  IF seen = << >> \/ mtLink[Last(seen)].next = NoSlot THEN seen
  ELSE Append(seen, mtLink[Last(seen)].next)
WalkStart == IF mtHead = NoSlot THEN << >> ELSE <<mtHead>>

\* The walk is what its equation says.
LEMMA WalkIs ==
  ASSUME MtTypeOK
  PROVE  \E w \in [0 .. MtSize -> Seq(Slots)] :
           /\ Listed = w[MtSize] /\ w[0] = WalkStart
           /\ \A n \in 1 .. MtSize : w[n] = WalkOn(w[n - 1])
<1> DEFINE V == Seq(Slots)
           Eq(w) == w = [n \in 0 .. MtSize |-> IF n = 0 THEN WalkStart ELSE WalkOn(w[n - 1])]
           step == [n \in 1 .. MtSize |-> [x \in V |-> WalkOn(x)]]
<1>0. MtSize \in Nat
  BY MtAssumption
<1>1. WalkStart \in V
  BY DEF WalkStart, MtTypeOK
<1>2. ASSUME NEW x \in V PROVE WalkOn(x) \in V
  <2>1. CASE x = << >>
    BY <2>1 DEF WalkOn
  <2>2. CASE x # << >> /\ mtLink[Last(x)].next # NoSlot
    <3>1. Last(x) \in Slots
      BY <2>2 DEF Last
    <3>2. mtLink[Last(x)].next \in Slots
      BY <2>2, <3>1 DEF MtTypeOK
    <3> QED  BY <2>2, <3>2 DEF WalkOn
  <2>3. CASE x # << >> /\ mtLink[Last(x)].next = NoSlot
    BY <2>3 DEF WalkOn
  <2> QED  BY <2>1, <2>2, <2>3
<1>3. step \in [1 .. MtSize -> [V -> V]]
  BY <1>2
<1>4. PICK w \in [0 .. MtSize -> V] :
         w[0] = WalkStart /\ \A n \in 1 .. MtSize : w[n] = step[n][w[n - 1]]
  <2>1. step \in StepsOf(MtSize, V)
    BY <1>3 DEF StepsOf
  <2> HIDE DEF V, step
  <2>2. RunsOf(MtSize, V, WalkStart, step) # {}
    BY <1>0, <1>1, <2>1, Iterates
  <2> QED  BY <2>2 DEF RunsOf
<1>5. \A n \in 1 .. MtSize : w[n] = WalkOn(w[n - 1])
  <2>1. ASSUME NEW n \in 1 .. MtSize PROVE w[n] = WalkOn(w[n - 1])
    <3>1. n - 1 \in 0 .. MtSize /\ w[n - 1] \in V
      BY <1>0
    <3> QED  BY <1>4, <3>1
  <2> QED  BY <2>1
<1>6. Eq(w)
  <2>1. ASSUME NEW n \in 0 .. MtSize PROVE w[n] = IF n = 0 THEN WalkStart ELSE WalkOn(w[n - 1])
    BY <1>0, <1>4, <1>5
  <2> QED  BY <2>1
<1>7. PICK v : Eq(v) /\ Listed = v[MtSize]
  <2>1. Listed = (CHOOSE v : Eq(v))[MtSize]
    BY DEF Listed, WalkStart, WalkOn
  <2>2. Eq(CHOOSE v : Eq(v))
    BY <1>6
  <2> QED  BY <2>1, <2>2
<1>8. v[0] = WalkStart /\ \A n \in 1 .. MtSize : v[n] = WalkOn(v[n - 1])
  BY <1>0, <1>7
<1>9. v \in [0 .. MtSize -> V]
  <2> DEFINE S == {n \in 0 .. MtSize : v[n] \in V}
  <2>1. 0 \in S
    BY <1>0, <1>1, <1>8
  <2>2. ASSUME NEW n \in 1 .. MtSize, n - 1 \in S PROVE n \in S
    BY <1>0, <1>2, <1>8, <2>2
  <2>3. \A n \in 0 .. MtSize : n \in S
    <3> HIDE DEF S
    <3> QED  BY <1>0, <2>1, <2>2, UpTo
  <2> QED  BY <1>7, <2>3
<1> QED  BY <1>7, <1>8, <1>9

\* A sequence of slots that has met the allocated ones in order, and all of them.
MetInOrder(q) ==
  /\ q \in Seq(mtUsed)
  /\ \A i, j \in 1 .. Len(q) : i < j => q[i] < q[j]
  /\ \A i \in 1 .. Len(q) : i - 1 <= q[i]
Covers(q) == \A s \in mtUsed : \E i \in 1 .. Len(q) : q[i] = s
MetBelow(q) == \A s \in mtUsed : (\E i \in 1 .. Len(q) : q[i] = s) \/ (q # << >> /\ q[Len(q)] < s)

\* The walk starts at the first allocated slot.
LEMMA WalkStartsInOrder ==
  ASSUME MtTypeOK, ListInv
  PROVE  MetInOrder(WalkStart) /\ MetBelow(WalkStart) /\ (Len(WalkStart) = 1 \/ Covers(WalkStart))
<1>1. CASE mtHead = NoSlot
  <2>1. mtUsed = {}
    BY <1>1, MtAssumption DEF ListInv, IsNext, MtTypeOK, Slots, NoSlot
  <2>2. WalkStart = << >>
    BY <1>1 DEF WalkStart
  <2> QED  BY <2>1, <2>2 DEF MetInOrder, Covers, MetBelow
<1>2. CASE mtHead # NoSlot
  <2>1. mtHead \in mtUsed /\ mtHead \in Nat
    BY <1>2, MtAssumption DEF ListInv, IsNext, MtTypeOK, Slots
  <2>2. \A r \in mtUsed : r \in Nat /\ mtHead <= r
    BY <1>2, MtAssumption DEF ListInv, IsNext, MtTypeOK, Slots, NoSlot
  <2>3. WalkStart = <<mtHead>>
    BY <1>2 DEF WalkStart
  <2>4. MetInOrder(<<mtHead>>)
    BY <2>1 DEF MetInOrder
  <2>5. MetBelow(<<mtHead>>)
    <3> SUFFICES ASSUME NEW s \in mtUsed, s # mtHead PROVE mtHead < s
      BY <2>1 DEF MetBelow
    <3> QED  BY <2>1, <2>2
  <2> QED  BY <2>3, <2>4, <2>5
<1> QED  BY <1>1, <1>2

\* One more slot of the walk keeps the order: next is the next allocated slot.
LEMMA WalkGoesOnInOrder ==
  ASSUME MtTypeOK, ListInv, NEW q, MetInOrder(q), MetBelow(q), NEW n \in Nat, Len(q) = n \/ Covers(q)
  PROVE  MetInOrder(WalkOn(q)) /\ MetBelow(WalkOn(q)) /\ (Len(WalkOn(q)) = n + 1 \/ Covers(WalkOn(q)))
<1>0. mtUsed \subseteq Nat /\ q \in Seq(mtUsed) /\ Len(q) \in Nat
  BY MtAssumption DEF MtTypeOK, Slots, MetInOrder
<1>1. CASE q = << >>
  <2>1. mtUsed = {}
    BY <1>1 DEF MetBelow
  <2>2. WalkOn(q) = q
    BY <1>1 DEF WalkOn
  <2> QED  BY <2>1, <2>2 DEF Covers
<1>2. CASE q # << >>
  <2> DEFINE l == q[Len(q)]
             x == mtLink[l].next
  <2>1. Len(q) # 0 /\ Len(q) \in 1 .. Len(q)
    BY <1>0, <1>2
  <2>2. l \in mtUsed /\ Last(q) = l
    BY <1>0, <2>1 DEF Last
  <2>3. IsNext(l, x)
    BY <2>2 DEF ListInv
  <2>4. CASE x = NoSlot
    <3>1. \A r \in mtUsed : ~(l < r)
      BY <2>3, <2>4 DEF IsNext
    <3>2. WalkOn(q) = q
      BY <2>2, <2>4 DEF WalkOn
    <3>3. Covers(q)
      BY <3>1 DEF MetBelow, Covers
    <3> QED  BY <3>2, <3>3
  <2>5. CASE x # NoSlot
    <3> DEFINE u == Append(q, x)
    <3>1. x \in mtUsed /\ x \in Nat /\ l \in Nat /\ l < x
      BY <1>0, <2>2, <2>3, <2>5 DEF IsNext
    <3>2. WalkOn(q) = u
      BY <1>2, <2>2, <2>5 DEF WalkOn
    <3>3. u \in Seq(mtUsed) /\ Len(u) = Len(q) + 1 /\ u[Len(q) + 1] = x
          /\ \A i \in 1 .. Len(q) : u[i] = q[i] /\ q[i] \in Nat /\ u[i] \in Nat
      <4>1. u \in Seq(mtUsed) /\ Len(u) = Len(q) + 1 /\ u[Len(q) + 1] = x
        BY <1>0, <3>1
      <4>2. \A i \in 1 .. Len(q) : u[i] = q[i] /\ q[i] \in mtUsed
        BY <1>0, <3>1
      <4> QED  BY <1>0, <4>1, <4>2
    <3>4. \A i \in 1 .. Len(q) : q[i] < x
      <4>1. ASSUME NEW i \in 1 .. Len(q) PROVE q[i] < x
        <5>1. q[i] \in Nat /\ (i = Len(q) \/ q[i] < l)
          BY <2>1, <3>3 DEF MetInOrder
        <5> QED  BY <3>1, <5>1
      <4> QED  BY <4>1
    <3>5. MetInOrder(u)
      <4> HIDE DEF u, x, l
      <4>1. ASSUME NEW i \in 1 .. Len(u), NEW j \in 1 .. Len(u), i < j PROVE u[i] < u[j]
        <5>1. i \in 1 .. Len(q)
          BY <1>0, <3>3, <4>1
        <5>2. CASE j = Len(q) + 1
          BY <3>3, <3>4, <5>1, <5>2
        <5>3. CASE j # Len(q) + 1
          <6>1. j \in 1 .. Len(q)
            BY <1>0, <3>3, <5>3
          <6> QED  BY <3>3, <4>1, <5>1, <6>1 DEF MetInOrder
        <5> QED  BY <5>2, <5>3
      <4>2. ASSUME NEW i \in 1 .. Len(u) PROVE i - 1 <= u[i]
        <5>1. CASE i \in 1 .. Len(q)
          BY <3>3, <5>1 DEF MetInOrder
        <5>2. CASE i = Len(q) + 1
          <6>1. Len(q) - 1 <= q[Len(q)]
            BY <2>1 DEF MetInOrder
          <6> QED  BY <1>0, <3>1, <3>3, <5>2, <6>1 DEF l
        <5> QED  BY <1>0, <3>3, <5>1, <5>2
      <4> QED  BY <3>3, <4>1, <4>2 DEF MetInOrder
    <3>6. MetBelow(u)
      <4>1. ASSUME NEW s \in mtUsed PROVE (\E i \in 1 .. Len(u) : u[i] = s) \/ (u # << >> /\ u[Len(u)] < s)
        <5> HIDE DEF u, x, l
        <5>1. CASE \E i \in 1 .. Len(q) : q[i] = s
          BY <1>0, <3>3, <5>1
        <5>2. CASE l < s
          <6>1. x <= s
            BY <2>3, <5>2 DEF IsNext
          <6>2. s \in Nat /\ u # << >> /\ Len(q) + 1 \in 1 .. Len(u)
            BY <1>0, <3>3
          <6> QED  BY <3>1, <3>3, <6>1, <6>2
        <5> QED  BY <5>1, <5>2 DEF MetBelow, l
      <4> QED  BY <4>1 DEF MetBelow
    <3>7. Len(u) = n + 1
      <4>1. ~Covers(q)
        <5>1. \A i \in 1 .. Len(q) : q[i] # x
          BY <3>1, <3>3, <3>4
        <5> QED  BY <3>1, <5>1 DEF Covers
      <4> QED  BY <3>3, <4>1
    <3> QED  BY <3>2, <3>5, <3>6, <3>7
  <2> QED  BY <2>4, <2>5
<1> QED  BY <1>1, <1>2

\* The list is the allocated slots, all of them and in the order of their numbers.
LEMMA ListedIs ==
  ASSUME MtTypeOK, ListInv
  PROVE  MetInOrder(Listed) /\ Covers(Listed)
<1>1. PICK w \in [0 .. MtSize -> Seq(Slots)] :
        /\ Listed = w[MtSize] /\ w[0] = WalkStart
        /\ \A n \in 1 .. MtSize : w[n] = WalkOn(w[n - 1])
  BY WalkIs
<1> DEFINE S == {n \in 0 .. MtSize : MetInOrder(w[n]) /\ MetBelow(w[n]) /\ (Len(w[n]) = n + 1 \/ Covers(w[n]))}
<1>0. MtSize \in Nat \ {0}
  BY MtAssumption
<1>2. 0 \in S
  BY <1>0, <1>1, WalkStartsInOrder
<1>3. ASSUME NEW n \in 1 .. MtSize, n - 1 \in S PROVE n \in S
  <2>1. n \in Nat /\ (Len(w[n - 1]) = n \/ Covers(w[n - 1]))
    BY <1>0, <1>3
  <2>2. MetInOrder(w[n - 1]) /\ MetBelow(w[n - 1])
    BY <1>3
  <2> QED  BY <1>0, <1>1, <2>1, <2>2, WalkGoesOnInOrder
<1>4. MtSize \in S
  <2>1. MtSize \in Nat /\ MtSize \in 0 .. MtSize
    BY <1>0
  <2> HIDE DEF S
  <2> QED  BY <1>2, <1>3, <2>1, UpTo
<1>5. MetInOrder(Listed) /\ (Len(Listed) = MtSize + 1 \/ Covers(Listed))
  BY <1>1, <1>4
<1>6. Len(Listed) # MtSize + 1
  <2> SUFFICES ASSUME Len(Listed) = MtSize + 1 PROVE FALSE
    OBVIOUS
  <2>1. MtSize + 1 \in 1 .. Len(Listed)
    BY <1>0
  <2>2. MtSize <= Listed[MtSize + 1] /\ Listed[MtSize + 1] \in mtUsed
    BY <1>0, <1>5, <2>1 DEF MetInOrder
  <2>3. Listed[MtSize + 1] \in 0 .. MtSize - 1
    BY <2>2 DEF MtTypeOK, Slots
  <2> HIDE DEF S
  <2> QED  BY <1>0, <2>2, <2>3
<1> QED  BY <1>5, <1>6

-----------------------------------------------------------------------------
\* One more entry of the scan.
Matched(pkt, s) == <<mtEntries[s].key, pkt>> \in MtMatches
ScanOn(pkt, s, b) ==
  IF /\ Matched(pkt, s)
     /\ b = NoSlot \/ mtEntries[s].priority < mtEntries[b].priority
  THEN s ELSE b

\* The scan is what its equation says.
LEMMA ScanStepsAre ==
  ASSUME MtTypeOK, ListInv, NEW pkt
  PROVE  \E w \in [0 .. Len(Listed) -> mtUsed \cup {NoSlot}] :
           /\ Scan(pkt) = w[Len(Listed)] /\ w[0] = NoSlot
           /\ \A n \in 1 .. Len(Listed) : w[n] = ScanOn(pkt, Listed[n], w[n - 1])
<1> DEFINE N == Len(Listed)
           V == mtUsed \cup {NoSlot}
           Eq(w) == w = [n \in 0 .. N |-> IF n = 0 THEN NoSlot ELSE ScanOn(pkt, Listed[n], w[n - 1])]
           step == [n \in 1 .. N |-> [x \in V |-> ScanOn(pkt, Listed[n], x)]]
<1>0. N \in Nat /\ \A n \in 1 .. N : Listed[n] \in mtUsed
  BY ListedIs DEF MetInOrder
<1>1. NoSlot \in V
  OBVIOUS
<1>2. ASSUME NEW x \in V, NEW n \in 1 .. N PROVE ScanOn(pkt, Listed[n], x) \in V
  BY <1>0 DEF ScanOn
<1>3. step \in [1 .. N -> [V -> V]]
  BY <1>2
<1>4. PICK w \in [0 .. N -> V] :
         w[0] = NoSlot /\ \A n \in 1 .. N : w[n] = step[n][w[n - 1]]
  <2>1. step \in StepsOf(N, V)
    BY <1>3 DEF StepsOf
  <2> HIDE DEF V, step, N
  <2>2. RunsOf(N, V, NoSlot, step) # {}
    BY <1>0, <1>1, <2>1, Iterates
  <2> QED  BY <2>2 DEF RunsOf
<1>5. ASSUME NEW n \in 1 .. N PROVE w[n] = ScanOn(pkt, Listed[n], w[n - 1])
  <2>1. n - 1 \in 0 .. N /\ w[n - 1] \in V
    <3> HIDE DEF V, N
    <3> QED  BY <1>0
  <2> HIDE DEF V, N, Eq
  <2> QED  BY <1>4, <2>1
<1>6. Eq(w)
  <2>1. ASSUME NEW n \in 0 .. N PROVE w[n] = IF n = 0 THEN NoSlot ELSE ScanOn(pkt, Listed[n], w[n - 1])
    BY <1>0, <1>4, <1>5
  <2> QED  BY <2>1
<1>7. PICK v : Eq(v) /\ Scan(pkt) = v[N]
  <2>1. Scan(pkt) = (CHOOSE v : Eq(v))[N]
    BY DEF Scan, ScanOn, Matched
  <2>2. Eq(CHOOSE v : Eq(v))
    BY <1>6
  <2> QED  BY <2>1, <2>2
<1>8. v[0] = NoSlot /\ \A n \in 1 .. N : v[n] = ScanOn(pkt, Listed[n], v[n - 1])
  <2>1. \A n \in 0 .. N : v[n] = IF n = 0 THEN NoSlot ELSE ScanOn(pkt, Listed[n], v[n - 1])
    BY <1>7
  <2> HIDE DEF N, Eq
  <2>2. 0 \in 0 .. N /\ \A n \in 1 .. N : n \in 0 .. N /\ n # 0
    BY <1>0
  <2> QED  BY <2>1, <2>2
<1>9. v \in [0 .. N -> V]
  <2> DEFINE S == {n \in 0 .. N : v[n] \in V}
  <2>1. 0 \in S
    BY <1>0, <1>1, <1>8
  <2>2. ASSUME NEW n \in 1 .. N, n - 1 \in S PROVE n \in S
    <3> HIDE DEF N, V, Eq
    <3>1. n \in 0 .. N /\ v[n - 1] \in V
      BY <1>0, <2>2
    <3> QED  BY <1>2, <1>8, <3>1
  <2>3. \A n \in 0 .. N : n \in S
    <3> HIDE DEF S, N
    <3> QED  BY <1>0, <2>1, <2>2, UpTo
  <2> QED  BY <1>7, <2>3
<1> QED  BY <1>7, <1>8, <1>9

\* s is the best match among the first n listed slots, NoSlot if there is none.
BestOfFirst(pkt, n, s) ==
  /\ s # NoSlot => /\ Matched(pkt, s)
                   /\ \E k \in 1 .. n : Listed[k] = s
  /\ \A k \in 1 .. n : Matched(pkt, Listed[k]) => s # NoSlot /\ Better(s, Listed[k])

\* Slots and priorities are numbers.
LEMMA SlotsAreNumbers ==
  ASSUME MtTypeOK, NEW s \in Slots
  PROVE  s \in Nat /\ s # NoSlot /\ mtEntries[s].priority \in Int
<1>1. s \in Nat /\ s # NoSlot
  BY MtAssumption DEF Slots, NoSlot
<1>2. mtEntries[s] \in MtEntry
  BY DEF MtTypeOK
<1>3. mtEntries[s].priority \in MtPriorities \cup {0}
  BY <1>2 DEF MtEntry
<1>4. MtPriorities \subseteq Int
  BY MtAssumption
<1>5. \A x \in MtPriorities \cup {0} : x \in Int
  BY <1>4
<1> HIDE DEF Slots
<1> QED  BY <1>1, <1>3, <1>5

\* Entry by entry, the scan holds the best match of the entries it has passed.
LEMMA ScanFindsBest ==
  ASSUME MtTypeOK, ListInv, NEW pkt
  PROVE  BestOfFirst(pkt, Len(Listed), Scan(pkt))
<1> DEFINE N == Len(Listed)
<1>1. PICK w \in [0 .. N -> mtUsed \cup {NoSlot}] :
        /\ Scan(pkt) = w[N] /\ w[0] = NoSlot
        /\ \A n \in 1 .. N : w[n] = ScanOn(pkt, Listed[n], w[n - 1])
  BY ScanStepsAre
<1>2. N \in Nat /\ \A n \in 1 .. N : Listed[n] \in mtUsed
  BY ListedIs DEF MetInOrder
<1>3. \A i, j \in 1 .. N : i < j => Listed[i] < Listed[j]
  BY ListedIs DEF MetInOrder
<1>4. \A s \in mtUsed : s \in Nat /\ s # NoSlot /\ mtEntries[s].priority \in Int
  BY SlotsAreNumbers DEF MtTypeOK
<1> DEFINE S == {n \in 0 .. N : BestOfFirst(pkt, n, w[n])}
<1>5. 0 \in S
  BY <1>1, <1>2 DEF BestOfFirst
<1>6. ASSUME NEW n \in 1 .. N, n - 1 \in S PROVE n \in S
  <2> DEFINE b == w[n - 1]
             s == Listed[n]
  <2>1. BestOfFirst(pkt, n - 1, b) /\ w[n] = ScanOn(pkt, s, b) /\ n \in 0 .. N
    BY <1>1, <1>2, <1>6
  <2>2. s \in mtUsed /\ b \in mtUsed \cup {NoSlot}
    <3>1. n - 1 \in 0 .. N
      BY <1>2
    <3> QED  BY <1>2, <3>1
  <2>3. \A k \in 1 .. n : k \in 1 .. N /\ (k = n \/ k \in 1 .. n - 1)
    BY <1>2
  <2>4. \A k \in 1 .. n - 1 : k \in 1 .. n /\ k \in 1 .. N /\ k < n
    BY <1>2
  <2> HIDE DEF S, b, s, N
  <2>5. CASE Matched(pkt, s) /\ (b = NoSlot \/ mtEntries[s].priority < mtEntries[b].priority)
    <3>1. w[n] = s
      BY <2>1, <2>5 DEF ScanOn
    <3>2. n \in 1 .. n
      BY <1>2
    <3>3. ASSUME NEW k \in 1 .. n, Matched(pkt, Listed[k]) PROVE Better(s, Listed[k])
      <4>1. CASE k = n
        BY <1>4, <2>2, <4>1 DEF Better, s
      <4>2. CASE k # n
        <5>1. k \in 1 .. n - 1 /\ k \in 1 .. N /\ Listed[k] \in mtUsed
          BY <1>2, <2>3, <4>2
        <5>2. b # NoSlot /\ Better(b, Listed[k])
          BY <2>1, <3>3, <5>1 DEF BestOfFirst
        <5>3. b \in mtUsed /\ mtEntries[s].priority < mtEntries[b].priority
          BY <2>2, <2>5, <5>2
        <5>4. mtEntries[s].priority \in Int /\ mtEntries[b].priority \in Int
              /\ mtEntries[Listed[k]].priority \in Int
          BY <1>4, <2>2, <5>1, <5>3
        <5> QED  BY <5>2, <5>3, <5>4 DEF Better
      <4> QED  BY <4>1, <4>2
    <3>4. BestOfFirst(pkt, n, s)
      BY <1>4, <2>2, <2>5, <3>2, <3>3 DEF BestOfFirst, s
    <3> QED  BY <2>1, <3>1, <3>4 DEF S
  <2>6. CASE ~(Matched(pkt, s) /\ (b = NoSlot \/ mtEntries[s].priority < mtEntries[b].priority))
    <3>1. w[n] = b
      BY <2>1, <2>6 DEF ScanOn
    <3>2. ASSUME NEW k \in 1 .. n, Matched(pkt, Listed[k]) PROVE b # NoSlot /\ Better(b, Listed[k])
      <4>1. CASE k # n
        BY <2>1, <2>3, <3>2, <4>1 DEF BestOfFirst
      <4>2. CASE k = n
        <5>1. b # NoSlot /\ ~(mtEntries[s].priority < mtEntries[b].priority)
          BY <2>6, <3>2, <4>2 DEF s
        <5>2. b \in mtUsed
          BY <2>2, <5>1
        <5>3. PICK j \in 1 .. n - 1 : Listed[j] = b
          BY <2>1, <5>1 DEF BestOfFirst
        <5>4. b < s
          BY <1>3, <2>4, <5>3 DEF s
        <5>5. b \in Nat /\ s \in Nat /\ mtEntries[s].priority \in Int /\ mtEntries[b].priority \in Int
          BY <1>4, <2>2, <5>2
        <5> QED  BY <4>2, <5>1, <5>4, <5>5 DEF Better, s
      <4> QED  BY <4>1, <4>2
    <3>3. b # NoSlot => Matched(pkt, b) /\ \E k \in 1 .. n : Listed[k] = b
      BY <2>1, <2>4 DEF BestOfFirst
    <3>4. BestOfFirst(pkt, n, b)
      BY <3>2, <3>3 DEF BestOfFirst
    <3> QED  BY <2>1, <3>1, <3>4 DEF S
  <2> QED  BY <2>5, <2>6
<1>7. N \in S
  <2>1. N \in 0 .. N
    BY <1>2
  <2> HIDE DEF S, N
  <2> QED  BY <1>2, <1>5, <1>6, <2>1, UpTo
<1> QED  BY <1>1, <1>7

\* There is one best match.
LEMMA BestIsUnique ==
  ASSUME MtTypeOK, NEW pkt, NEW s, IsBest(pkt, s)
  PROVE  BestMatch(pkt) = s /\ s \in Slots
<1>1. s \in Slots /\ Hits(pkt) # {} /\ s \in Hits(pkt)
  BY DEF IsBest, Hits, MtTypeOK
<1>2. ASSUME NEW r \in Slots, IsBest(pkt, r) PROVE r = s
  <2>1. Better(r, s) /\ Better(s, r)
    BY <1>2 DEF IsBest
  <2>2. r \in Nat /\ s \in Nat /\ mtEntries[r].priority \in Int /\ mtEntries[s].priority \in Int
    BY <1>1, SlotsAreNumbers
  <2> QED  BY <2>1, <2>2 DEF Better
<1>3. (CHOOSE r \in Slots : IsBest(pkt, r)) = s
  BY <1>1, <1>2
<1> QED  BY <1>1, <1>3 DEF BestMatch

\* The scan of the list returns the best live entry.
LEMMA ScanIsBestMatch ==
  ASSUME MtTypeOK, ListInv, NEW pkt
  PROVE  /\ Scan(pkt) = BestMatch(pkt)
         /\ Hits(pkt) # {} => IsBest(pkt, Scan(pkt))
         /\ Scan(pkt) # NoSlot => Hits(pkt) # {}
<1>1. BestOfFirst(pkt, Len(Listed), Scan(pkt))
  BY ScanFindsBest
<1>2. \A n \in 1 .. Len(Listed) : Listed[n] \in mtUsed
  BY ListedIs DEF MetInOrder
<1>3. \A s \in mtUsed : \E i \in 1 .. Len(Listed) : Listed[i] = s
  BY ListedIs DEF Covers
<1>4. Scan(pkt) # NoSlot => Scan(pkt) \in Hits(pkt)
  BY <1>1, <1>2 DEF BestOfFirst, Hits, Matched
<1>5. \A r \in Hits(pkt) : Scan(pkt) # NoSlot /\ Better(Scan(pkt), r)
  BY <1>1, <1>3 DEF BestOfFirst, Hits, Matched
<1>6. Hits(pkt) # {} => IsBest(pkt, Scan(pkt))
  BY <1>4, <1>5 DEF IsBest
<1>7. CASE Hits(pkt) = {}
  BY <1>4, <1>7 DEF BestMatch
<1>8. CASE Hits(pkt) # {}
  BY <1>6, <1>8, BestIsUnique
<1> QED  BY <1>4, <1>6, <1>7, <1>8

-----------------------------------------------------------------------------
\* find_entry finds an entry that is listed, and nothing only if none is.
LEMMA FindEntryIs ==
  ASSUME MtTypeOK, ListInv, NEW k, NEW p
  PROVE  /\ FindEntry(k, p) = 0 =>
              \A s \in mtUsed : ~(mtEntries[s].key = k /\ mtEntries[s].priority = p)
         /\ \A s \in mtUsed : mtEntries[s].key = k /\ mtEntries[s].priority = p
              => Listed[FindEntry(k, p)] = s
<1> DEFINE I == {i \in 1 .. Len(Listed) : mtEntries[Listed[i]].key = k /\ mtEntries[Listed[i]].priority = p}
<1>1. FindEntry(k, p) = IF I # {} THEN Min(I) ELSE 0
  BY DEF FindEntry, SelectInSeq
<1>2. I \subseteq Nat /\ 0 \notin I /\ Len(Listed) \in Nat
  BY ListedIs DEF MetInOrder
<1>3. \A s \in mtUsed : mtEntries[s].key = k /\ mtEntries[s].priority = p => I # {}
  BY ListedIs DEF Covers
<1>4. \A i \in I : Listed[i] \in mtUsed /\ mtEntries[Listed[i]].key = k /\ mtEntries[Listed[i]].priority = p
  BY ListedIs DEF MetInOrder
<1>5. I # {} => Min(I) \in I
  <2> HIDE DEF I
  <2>1. ASSUME I # {} PROVE \E n \in I : \A m \in I : n <= m
    BY <1>2, <2>1, LeastNatural
  <2> QED  BY <2>1 DEF Min
<1> HIDE DEF I
<1>6. FindEntry(k, p) = 0 => I = {}
  BY <1>1, <1>2, <1>5
<1>7. ASSUME NEW s \in mtUsed, mtEntries[s].key = k, mtEntries[s].priority = p
      PROVE  Listed[FindEntry(k, p)] = s
  <2>1. FindEntry(k, p) \in I
    BY <1>1, <1>3, <1>5, <1>7
  <2> QED  BY <1>4, <1>7, <2>1 DEF ListInv
<1> QED  BY <1>3, <1>6, <1>7

\* The free slot an add takes is a free slot and the first one.
LEMMA FreeSlotIsFirst ==
  ASSUME mtUsed \subseteq Slots, mtUsed # Slots
  PROVE  FreeSlot \in Slots \ mtUsed /\ \A r \in Slots : r < FreeSlot => r \in mtUsed
<1>0. Slots \subseteq Nat
  BY MtAssumption DEF Slots
<1>1. Slots \ mtUsed \subseteq Nat /\ Slots \ mtUsed # {}
  BY <1>0
<1>2. PICK n \in Slots \ mtUsed : \A m \in Slots \ mtUsed : n =< m
  BY <1>1, LeastNatural
<1>3. FreeSlot \in Slots \ mtUsed /\ \A m \in Slots \ mtUsed : FreeSlot =< m
  BY <1>2 DEF FreeSlot, Min
<1> QED  BY <1>0, <1>3

\* The list of the initial table.
LEMMA LookupBegins == MtInit => LookupInv
<1> SUFFICES ASSUME MtInit PROVE LookupInv  OBVIOUS
<1>1. EmptyEntry \in MtEntry
  BY MtAssumption DEF EmptyEntry, MtEntry
<1>2. MtTypeOK
  <2>1. mtCache = << >> /\ Len(mtCache) = 0 /\ mtAdds \in 0 .. MtMaxAdds /\ CacheSize \in Nat
    BY MtAssumption DEF MtInit
  <2>2. mtEntries \in [Slots -> MtEntry]
    BY <1>1 DEF MtInit
  <2>3. mtLink \in [Slots -> [prev : Slots \cup {NoSlot}, next : Slots \cup {NoSlot}]]
    BY DEF MtInit
  <2>4. mtReader \in [MtThreads -> MtPackets \cup {Idle}] /\ mtUseCache \in BOOLEAN
        /\ mtDefault \in MtActions \cup {MtDefaultDefault} /\ mtUsed \subseteq Slots
        /\ mtHead \in Slots \cup {NoSlot}
    BY DEF MtInit
  <2>5. Len(mtCache) =< CacheSize /\ \A i \in 1 .. Len(mtCache) : mtCache[i] \in [pkt : MtPackets, slot : Slots]
    BY <2>1
  <2> QED  BY <2>1, <2>2, <2>3, <2>4, <2>5 DEF MtTypeOK
<1>3. ListInv
  BY DEF MtInit, ListInv, IsNext
<1>4. CacheInv
  BY DEF MtInit, CacheInv
<1> QED  BY <1>2, <1>3, <1>4 DEF LookupInv

\* A free slot s, all below it allocated: linking it after s - 1 keeps the order.
LEMMA SpliceKeepsOrder ==
  ASSUME MtTypeOK, ListInv, NEW s \in Slots \ mtUsed, \A r \in Slots : r < s => r \in mtUsed,
         mtUsed' = mtUsed \cup {s}, mtLink' = Spliced(s), mtHead' = IF s = 0 THEN s ELSE mtHead
  PROVE  /\ IsNext(NoSlot, mtHead)'
         /\ \A x \in mtUsed' : IsNext(x, mtLink[x].next)' /\ IsPrev(x, mtLink[x].prev)'
         /\ mtLink' \in [Slots -> [prev : Slots \cup {NoSlot}, next : Slots \cup {NoSlot}]]
         /\ mtHead' \in Slots \cup {NoSlot}
<1>a. PICK p : p = s - 1
  OBVIOUS
<1>b. PICK n : n = IF s = 0 THEN mtHead ELSE mtLink[s - 1].next
  OBVIOUS
<1>0. /\ mtUsed \subseteq Nat /\ s \in Nat /\ s \notin mtUsed /\ p \in Int /\ NoSlot = -1
      /\ mtUsed \subseteq Slots
  BY <1>a, MtAssumption DEF MtTypeOK, Slots, NoSlot
<1>1. s # 0 => p \in mtUsed /\ p \in Slots
  BY <1>a, MtAssumption DEF Slots
<1>2. (IF s = 0 THEN NoSlot ELSE s - 1) = p
  BY <1>0, <1>a
<1>3. IsNext(p, n)
  <2>1. CASE s = 0
    BY <1>0, <1>a, <1>b, <2>1 DEF ListInv
  <2>2. CASE s # 0
    BY <1>1, <1>a, <1>b, <2>2 DEF ListInv
  <2> QED  BY <2>1, <2>2
<1>4. mtLink' = [x \in Slots |->
           IF x = s THEN [prev |-> p, next |-> n]
           ELSE [prev |-> IF x = n THEN s ELSE mtLink[x].prev,
                 next |-> IF x = p THEN s ELSE mtLink[x].next]]
  BY <1>2, <1>b DEF Spliced
<1>5. p \in Slots \cup {NoSlot}
  BY <1>0, <1>1, <1>2
<1>6. n \in Slots \cup {NoSlot}
  BY <1>0, <1>3 DEF IsNext
<1>7. p = s - 1
  BY <1>a
<1>8. n = NoSlot \/ (n \in mtUsed /\ s < n)
  <2>1. CASE n # NoSlot
    <3>1. n \in mtUsed /\ p < n
      BY <1>3, <2>1 DEF IsNext
    <3> QED  BY <1>0, <1>7, <3>1
  <2> QED  BY <2>1
<1>9. \A r \in mtUsed : s < r => n # NoSlot /\ n =< r
  BY <1>0, <1>3, <1>7 DEF IsNext
<1>10. IsNext(s, n)'
  BY <1>0, <1>8, <1>9 DEF IsNext
<1>11. IsPrev(s, p)'
  <2>1. p = NoSlot \/ (p \in mtUsed' /\ p < s)
    BY <1>0, <1>1, <1>7
  <2>2. \A r \in mtUsed' : r < s => r =< p
    BY <1>0, <1>7
  <2> QED  BY <2>1, <2>2 DEF IsPrev
<1>12. IsNext(NoSlot, mtHead)'
  <2>1. CASE s = 0
    <3>1. mtHead' = s /\ mtHead' \in mtUsed'
      BY <2>1
    <3> QED  BY <1>0, <2>1, <3>1 DEF IsNext
  <2>2. CASE s # 0
    <3>1. mtHead' = mtHead /\ p \in mtUsed /\ p \in Nat
      BY <1>0, <1>1, <2>2
    <3>2. mtHead # NoSlot /\ mtHead \in mtUsed /\ mtHead =< p
      BY <1>0, <3>1 DEF ListInv, IsNext
    <3>3. \A r \in mtUsed : mtHead =< r
      BY <1>0, <3>1 DEF ListInv, IsNext
    <3> QED  BY <1>0, <1>7, <3>1, <3>2, <3>3 DEF IsNext
  <2> QED  BY <2>1, <2>2
<1>13. ASSUME NEW x \in mtUsed, x = p PROVE IsNext(x, s)'
  BY <1>0, <1>7, <1>13 DEF IsNext
<1>14. ASSUME NEW x \in mtUsed, x # p PROVE IsNext(x, mtLink[x].next)'
  <2> DEFINE m == mtLink[x].next
  <2>1. IsNext(x, m) /\ x \in Slots /\ x # s
    BY <1>0 DEF ListInv
  <2>2. mtLink'[x].next = m
    BY <1>4, <1>14, <2>1
  <2> HIDE DEF m
  <2>3. m = NoSlot \/ (m \in mtUsed' /\ x < m)
    BY <1>0, <2>1 DEF IsNext
  <2>4. ASSUME NEW r \in mtUsed', x < r PROVE m # NoSlot /\ m =< r
    <3>1. CASE r \in mtUsed
      BY <2>1, <2>4, <3>1 DEF IsNext
    <3>2. CASE r = s
      <4>1. x < p /\ s # 0
        BY <1>0, <1>7, <1>14, <2>4, <3>2
      <4>2. m # NoSlot /\ m =< p /\ m \in mtUsed
        BY <1>1, <2>1, <4>1 DEF IsNext
      <4> QED  BY <1>0, <1>7, <3>2, <4>2
    <3> QED  BY <1>0, <3>1, <3>2
  <2> QED  BY <2>2, <2>3, <2>4 DEF IsNext
<1>15. ASSUME NEW x \in mtUsed, x = n PROVE IsPrev(x, s)'
  <2>1. s < x
    BY <1>0, <1>8, <1>15
  <2>2. ASSUME NEW r \in mtUsed', r < x PROVE r =< s
    <3>1. CASE r \in mtUsed
      BY <1>0, <1>9, <1>15, <2>2, <3>1
    <3> QED  BY <1>0, <3>1
  <2> QED  BY <1>0, <2>1, <2>2 DEF IsPrev
<1>16. ASSUME NEW x \in mtUsed, x # n PROVE IsPrev(x, mtLink[x].prev)'
  <2> DEFINE m == mtLink[x].prev
  <2>1. IsPrev(x, m) /\ x \in Slots /\ x # s
    BY <1>0 DEF ListInv
  <2>2. mtLink'[x].prev = m
    BY <1>4, <1>16, <2>1
  <2> HIDE DEF m
  <2>3. m = NoSlot \/ (m \in mtUsed' /\ m < x)
    BY <1>0, <2>1 DEF IsPrev
  <2>4. ASSUME NEW r \in mtUsed', r < x PROVE r =< m
    <3>1. CASE r \in mtUsed
      BY <2>1, <2>4, <3>1 DEF IsPrev
    <3>2. CASE r = s
      <4>1. n # NoSlot /\ n =< x
        BY <1>9, <2>4, <3>2
      <4>2. n \in mtUsed /\ s < n /\ n < x
        <5>1. n \in mtUsed /\ s < n
          BY <1>8, <4>1
        <5>2. n \in Nat /\ x \in Nat
          BY <1>0, <5>1
        <5> QED  BY <1>16, <4>1, <5>1, <5>2
      <4>3. n =< m
        BY <2>1, <4>2 DEF IsPrev
      <4>4. m \in Int /\ n \in Nat /\ s \in Nat
        <5>1. m \in mtUsed \cup {s} => m \in Nat
          BY <1>0
        <5>2. m = NoSlot => m = -1
          BY <1>0
        <5>3. n \in Nat /\ s \in Nat
          BY <1>0, <4>2
        <5>4. m = NoSlot \/ m \in mtUsed \cup {s}
          BY <2>3
        <5> QED  BY <5>1, <5>2, <5>3, <5>4
      <4> QED  BY <3>2, <4>2, <4>3, <4>4
    <3> QED  BY <1>0, <3>1, <3>2
  <2> QED  BY <2>2, <2>3, <2>4 DEF IsPrev
<1>17. /\ mtLink' \in [Slots -> [prev : Slots \cup {NoSlot}, next : Slots \cup {NoSlot}]]
       /\ mtHead' \in Slots \cup {NoSlot}
  <2>1. \A x \in Slots : mtLink[x] \in [prev : Slots \cup {NoSlot}, next : Slots \cup {NoSlot}]
    BY DEF MtTypeOK
  <2>2. mtHead' \in Slots \cup {NoSlot}
    BY DEF MtTypeOK
  <2> QED  BY <1>4, <1>5, <1>6, <2>1, <2>2
<1>18. ASSUME NEW x \in mtUsed' PROVE IsNext(x, mtLink[x].next)' /\ IsPrev(x, mtLink[x].prev)'
  <2>1. CASE x = s
    <3>1. mtLink'[x].next = n /\ mtLink'[x].prev = p
      BY <1>4, <2>1
    <3> QED  BY <1>10, <1>11, <2>1, <3>1 DEF IsNext, IsPrev
  <2>2. CASE x # s
    <3>1. x \in mtUsed /\ x \in Slots
      BY <1>0, <2>2
    <3>2. x = p => mtLink'[x].next = s
      BY <1>4, <2>2, <3>1
    <3>3. x = n => mtLink'[x].prev = s
      BY <1>4, <2>2, <3>1
    <3>4. IsNext(x, mtLink[x].next)'
      BY <1>13, <1>14, <3>1, <3>2 DEF IsNext
    <3>5. IsPrev(x, mtLink[x].prev)'
      BY <1>15, <1>16, <3>1, <3>3 DEF IsPrev
    <3> QED  BY <3>4, <3>5
  <2> QED  BY <2>1, <2>2
<1> QED  BY <1>12, <1>17, <1>18

\* The slot that is unlinked is between its neighbours: the order is kept.
LEMMA UnlinkKeepsOrder ==
  ASSUME MtTypeOK, ListInv, NEW s \in mtUsed, mtUsed' = mtUsed \ {s}, ListDelete(s)
  PROVE  /\ IsNext(NoSlot, mtHead)'
         /\ \A x \in mtUsed' : IsNext(x, mtLink[x].next)' /\ IsPrev(x, mtLink[x].prev)'
         /\ mtLink' \in [Slots -> [prev : Slots \cup {NoSlot}, next : Slots \cup {NoSlot}]]
         /\ mtHead' \in Slots \cup {NoSlot}
<1>a. PICK p : p = mtLink[s].prev
  OBVIOUS
<1>b. PICK n : n = mtLink[s].next
  OBVIOUS
<1>0. mtUsed \subseteq Nat /\ s \in Nat /\ NoSlot = -1 /\ mtUsed \subseteq Slots /\ s \in Slots
  BY MtAssumption DEF MtTypeOK, Slots, NoSlot
<1>1. IsNext(s, n) /\ IsPrev(s, p)
  BY <1>a, <1>b DEF ListInv
<1>2. /\ mtLink' = [x \in Slots |->
                      [prev |-> IF x = n THEN p ELSE mtLink[x].prev,
                       next |-> IF x = p THEN n ELSE mtLink[x].next]]
      /\ mtHead' = IF p = NoSlot THEN n ELSE mtHead
  BY <1>a, <1>b DEF ListDelete
<1>3. n = NoSlot \/ (n \in mtUsed /\ n \in mtUsed' /\ n \in Nat /\ s < n)
  <2>1. n = NoSlot \/ (n \in mtUsed /\ s < n)
    BY <1>1 DEF IsNext
  <2>2. ASSUME n # NoSlot PROVE n \in mtUsed /\ n \in mtUsed' /\ n \in Nat /\ s < n
    <3>1. n \in mtUsed /\ s < n
      BY <2>1, <2>2
    <3>2. n \in Nat
      BY <1>0, <3>1
    <3>3. n # s
      BY <1>0, <3>1, <3>2
    <3> QED  BY <3>1, <3>2, <3>3
  <2> QED  BY <2>2
<1>4. p = NoSlot \/ (p \in mtUsed /\ p \in mtUsed' /\ p \in Nat /\ p < s)
  <2>1. p = NoSlot \/ (p \in mtUsed /\ p < s)
    BY <1>1 DEF IsPrev
  <2>2. ASSUME p # NoSlot PROVE p \in mtUsed /\ p \in mtUsed' /\ p \in Nat /\ p < s
    <3>1. p \in mtUsed /\ p < s
      BY <2>1, <2>2
    <3>2. p \in Nat
      BY <1>0, <3>1
    <3>3. p # s
      BY <1>0, <3>1, <3>2
    <3> QED  BY <3>1, <3>2, <3>3
  <2> QED  BY <2>2
<1>5. \A r \in mtUsed : s < r => n # NoSlot /\ n =< r
  BY <1>1 DEF IsNext
<1>6. \A r \in mtUsed : r < s => r =< p
  BY <1>1 DEF IsPrev
<1>7. p = NoSlot => \A r \in mtUsed : ~(r < s)
  BY <1>0, <1>6
<1>8. \A r \in mtUsed' : r \in mtUsed /\ r \in Nat /\ r \in Slots /\ (r < s \/ s < r)
  BY <1>0
<1>9. IsNext(NoSlot, mtHead)'
  <2>1. CASE p = NoSlot
    <3>1. mtHead' = n
      BY <1>2, <2>1
    <3>2. \A r \in mtUsed' : n # NoSlot /\ n =< r
      BY <1>5, <1>7, <1>8, <2>1
    <3>3. n = NoSlot \/ (n \in mtUsed' /\ NoSlot < n)
      BY <1>0, <1>3
    <3> QED  BY <3>1, <3>2, <3>3 DEF IsNext
  <2>2. CASE p # NoSlot
    <3>1. mtHead' = mtHead /\ p \in mtUsed /\ p \in Nat /\ p < s
      BY <1>2, <1>4, <2>2
    <3>2. \A r \in mtUsed : mtHead # NoSlot /\ mtHead =< r
      BY <1>0 DEF ListInv, IsNext
    <3>3. mtHead \in mtUsed /\ mtHead \in Nat
      BY <1>0, <3>1, <3>2 DEF ListInv, IsNext
    <3>4. mtHead # s
      BY <1>0, <3>1, <3>2, <3>3
    <3>5. mtHead' \in mtUsed' /\ NoSlot < mtHead'
      BY <1>0, <3>1, <3>3, <3>4
    <3> QED  BY <1>8, <3>1, <3>2, <3>5 DEF IsNext
  <2> QED  BY <2>1, <2>2
<1>10. ASSUME NEW x \in mtUsed', x = p PROVE IsNext(x, n)'
  <2>1. n = NoSlot \/ (n \in mtUsed' /\ x < n)
    BY <1>0, <1>3, <1>4, <1>8, <1>10
  <2>2. ASSUME NEW r \in mtUsed', x < r PROVE n # NoSlot /\ n =< r
    <3>1. ~(r < s)
      BY <1>6, <1>8, <1>10, <2>2
    <3> QED  BY <1>5, <1>8, <3>1
  <2> QED  BY <2>1, <2>2 DEF IsNext
<1>11. ASSUME NEW x \in mtUsed', x # p PROVE IsNext(x, mtLink[x].next)'
  <2>a. PICK m : m = mtLink[x].next
    OBVIOUS
  <2>1. IsNext(x, m)
    BY <1>8, <2>a DEF ListInv
  <2>2. mtLink'[x].next = m
    BY <1>2, <1>8, <1>11, <2>a
  <2>3. m # s
    <3> SUFFICES ASSUME m = s PROVE FALSE
      OBVIOUS
    <3>1. x < s /\ x \in mtUsed
      BY <1>0, <1>8, <2>1 DEF IsNext
    <3>2. x =< p /\ p # NoSlot
      BY <1>6, <1>7, <3>1
    <3>3. p \in mtUsed /\ p \in Nat /\ p < s /\ x < p
      BY <1>4, <1>8, <1>11, <3>2
    <3>4. m =< p
      BY <2>1, <3>3 DEF IsNext
    <3> QED  BY <1>0, <3>3, <3>4
  <2>4. m = NoSlot \/ (m \in mtUsed' /\ x < m)
    BY <2>1, <2>3 DEF IsNext
  <2>5. \A r \in mtUsed' : x < r => m # NoSlot /\ m =< r
    BY <1>8, <2>1 DEF IsNext
  <2> QED  BY <2>2, <2>4, <2>5 DEF IsNext
<1>12. ASSUME NEW x \in mtUsed', x = n PROVE IsPrev(x, p)'
  <2>1. p = NoSlot \/ (p \in mtUsed' /\ p < x)
    BY <1>0, <1>3, <1>4, <1>8, <1>12
  <2>2. ASSUME NEW r \in mtUsed', r < x PROVE r =< p
    <3>1. ~(s < r)
      BY <1>5, <1>8, <1>12, <2>2
    <3> QED  BY <1>6, <1>8, <3>1
  <2> QED  BY <2>1, <2>2 DEF IsPrev
<1>13. ASSUME NEW x \in mtUsed', x # n PROVE IsPrev(x, mtLink[x].prev)'
  <2>a. PICK m : m = mtLink[x].prev
    OBVIOUS
  <2>1. IsPrev(x, m)
    BY <1>8, <2>a DEF ListInv
  <2>2. mtLink'[x].prev = m
    BY <1>2, <1>8, <1>13, <2>a
  <2>3. m # s
    <3> SUFFICES ASSUME m = s PROVE FALSE
      OBVIOUS
    <3>1. s < x /\ x \in mtUsed
      BY <1>0, <1>8, <2>1 DEF IsPrev
    <3>2. n =< x /\ n # NoSlot
      BY <1>5, <3>1
    <3>3. n \in mtUsed /\ n \in Nat /\ s < n /\ n < x
      BY <1>3, <1>8, <1>13, <3>2
    <3>4. n =< m
      BY <2>1, <3>3 DEF IsPrev
    <3> QED  BY <1>0, <3>3, <3>4
  <2>4. m = NoSlot \/ (m \in mtUsed' /\ m < x)
    BY <2>1, <2>3 DEF IsPrev
  <2>5. \A r \in mtUsed' : r < x => r =< m
    BY <1>8, <2>1 DEF IsPrev
  <2> QED  BY <2>2, <2>4, <2>5 DEF IsPrev
<1>14. /\ mtLink' \in [Slots -> [prev : Slots \cup {NoSlot}, next : Slots \cup {NoSlot}]]
       /\ mtHead' \in Slots \cup {NoSlot}
  <2>1. \A x \in Slots : mtLink[x] \in [prev : Slots \cup {NoSlot}, next : Slots \cup {NoSlot}]
    BY DEF MtTypeOK
  <2>2. p \in Slots \cup {NoSlot} /\ n \in Slots \cup {NoSlot}
    BY <1>0, <1>3, <1>4
  <2>3. mtHead' \in Slots \cup {NoSlot}
    BY <1>2, <2>2 DEF MtTypeOK
  <2> QED  BY <1>2, <2>1, <2>2, <2>3
<1>15. ASSUME NEW x \in mtUsed' PROVE IsNext(x, mtLink[x].next)' /\ IsPrev(x, mtLink[x].prev)'
  <2>1. x = p => mtLink'[x].next = n
    BY <1>2, <1>8
  <2>2. x = n => mtLink'[x].prev = p
    BY <1>2, <1>8
  <2>3. IsNext(x, mtLink[x].next)'
    BY <1>10, <1>11, <2>1 DEF IsNext
  <2>4. IsPrev(x, mtLink[x].prev)'
    BY <1>12, <1>13, <2>2 DEF IsPrev
  <2> QED  BY <2>3, <2>4
<1> QED  BY <1>9, <1>14, <1>15

\* An add that finds no equal entry and links the first free slot.
LEMMA AddKeepsLookups ==
  ASSUME LookupInv, NEW k \in MtKeys, NEW p \in MtPriorities, NEW a \in MtActions, MtAddEntry(k, p, a)
  PROVE  LookupInv'
<1>a. PICK s : s = FreeSlot
  OBVIOUS
<1>b. PICK e : e = [key |-> k, priority |-> p, value |-> a, version |-> mtEntries[s].version]
  OBVIOUS
<1>0. MtTypeOK /\ ListInv /\ CacheInv /\ WriteLock /\ FindEntry(k, p) = 0 /\ mtUsed # Slots
  BY DEF LookupInv, MtAddEntry
<1>1. s \in Slots \ mtUsed /\ \A r \in Slots : r < s => r \in mtUsed
  BY <1>0, <1>a, FreeSlotIsFirst DEF MtTypeOK
<1>2. /\ mtEntries' = [mtEntries EXCEPT ![s] = e] /\ mtUsed' = mtUsed \cup {s} /\ mtLink' = Spliced(s)
      /\ mtHead' = (IF s = 0 THEN s ELSE mtHead) /\ mtCache' = (IF mtUseCache THEN << >> ELSE mtCache)
      /\ mtUseCache' = (Cardinality(mtUsed) + 1 >= CacheMin)
      /\ mtAdds < MtMaxAdds /\ mtAdds' = mtAdds + 1 /\ mtDefault' = mtDefault /\ mtReader' = mtReader
  BY <1>a, <1>b DEF MtAddEntry, ListAdd
<1>3. /\ IsNext(NoSlot, mtHead)'
      /\ \A x \in mtUsed' : IsNext(x, mtLink[x].next)' /\ IsPrev(x, mtLink[x].prev)'
      /\ mtLink' \in [Slots -> [prev : Slots \cup {NoSlot}, next : Slots \cup {NoSlot}]]
      /\ mtHead' \in Slots \cup {NoSlot}
  BY <1>0, <1>1, <1>2, SpliceKeepsOrder
<1>4. e \in MtEntry
  <2>1. mtEntries[s] \in MtEntry
    BY <1>0, <1>1 DEF MtTypeOK
  <2> QED  BY <1>b, <2>1 DEF MtEntry
<1>5. mtCache' = << >>
  BY <1>0, <1>2 DEF CacheInv
<1>7. MtTypeOK'
  <2>1. mtEntries' \in [Slots -> MtEntry] /\ mtUsed' \subseteq Slots
    BY <1>0, <1>1, <1>2, <1>4 DEF MtTypeOK
  <2>2. mtAdds' \in 0 .. MtMaxAdds
    BY <1>0, <1>2, MtAssumption DEF MtTypeOK
  <2>3. Len(mtCache') =< CacheSize
        /\ \A i \in 1 .. Len(mtCache') : mtCache'[i] \in [pkt : MtPackets, slot : Slots]
    BY <1>5, MtAssumption
  <2>4. mtUseCache' \in BOOLEAN
    BY <1>2
  <2> QED  BY <1>0, <1>2, <1>3, <2>1, <2>2, <2>3, <2>4 DEF MtTypeOK
<1>8. ListInv'
  <2>1. \A r \in mtUsed : ~(mtEntries[r].key = k /\ mtEntries[r].priority = p)
    BY <1>0, FindEntryIs
  <2>2. \A r \in mtUsed : mtEntries'[r] = mtEntries[r]
    BY <1>0, <1>1, <1>2 DEF MtTypeOK
  <2>3. mtEntries'[s].key = k /\ mtEntries'[s].priority = p
    BY <1>0, <1>1, <1>2, <1>b DEF MtTypeOK
  <2>4. ASSUME NEW x \in mtUsed', NEW r \in mtUsed', mtEntries'[x].key = mtEntries'[r].key,
               mtEntries'[x].priority = mtEntries'[r].priority
        PROVE  x = r
    <3>1. CASE x \in mtUsed /\ r \in mtUsed
      BY <1>0, <2>2, <2>4, <3>1 DEF ListInv
    <3> QED  BY <1>2, <2>1, <2>2, <2>3, <2>4, <3>1
  <2> QED  BY <1>3, <2>4 DEF ListInv
<1>9. CacheInv'
  <2>1. \A t \in MtThreads : mtReader'[t] = Idle
    BY <1>0, <1>2 DEF WriteLock
  <2> QED  BY <1>5, <2>1 DEF CacheInv
<1> QED  BY <1>7, <1>8, <1>9 DEF LookupInv

\* A delete that unlinks the slot of its handle.
LEMMA DeleteKeepsLookups ==
  ASSUME LookupInv, NEW h \in Handles, MtDeleteEntry(h)
  PROVE  LookupInv'
<1>a. PICK s : s = h.slot
  OBVIOUS
<1>0. MtTypeOK /\ ListInv /\ CacheInv /\ WriteLock /\ s \in mtUsed /\ s \in Slots
  BY <1>a DEF LookupInv, MtDeleteEntry, MtValidHandle, MtTypeOK
<1>1. Listed[FindEntry(mtEntries[s].key, mtEntries[s].priority)] = s
  BY <1>0, FindEntryIs
<1>2. /\ mtEntries' = [mtEntries EXCEPT ![s].version = (@ + 1) % MtVersions] /\ mtUsed' = mtUsed \ {s}
      /\ ListDelete(s) /\ mtAdds' = mtAdds /\ mtDefault' = mtDefault /\ mtReader' = mtReader
  BY <1>1, <1>a DEF MtDeleteEntry
<1>3. /\ IsNext(NoSlot, mtHead)'
      /\ \A x \in mtUsed' : IsNext(x, mtLink[x].next)' /\ IsPrev(x, mtLink[x].prev)'
      /\ mtLink' \in [Slots -> [prev : Slots \cup {NoSlot}, next : Slots \cup {NoSlot}]]
      /\ mtHead' \in Slots \cup {NoSlot}
  BY <1>0, <1>2, UnlinkKeepsOrder
<1>4. mtCache' = << >> /\ mtUseCache' \in BOOLEAN
  BY <1>0, <1>2 DEF CacheInv, ListDelete
<1>5. mtEntries' \in [Slots -> MtEntry]
  <2>1. mtEntries[s] \in MtEntry
    BY <1>0 DEF MtTypeOK
  <2>2. mtEntries[s].version \in Nat /\ (mtEntries[s].version + 1) % MtVersions \in 0 .. MtVersions - 1
    BY <2>1, MtAssumption DEF MtEntry
  <2>3. [mtEntries[s] EXCEPT !.version = (@ + 1) % MtVersions] \in MtEntry
    BY <2>1, <2>2 DEF MtEntry
  <2> QED  BY <1>0, <1>2, <2>3 DEF MtTypeOK
<1>6. MtTypeOK'
  <2>1. Len(mtCache') =< CacheSize
        /\ \A i \in 1 .. Len(mtCache') : mtCache'[i] \in [pkt : MtPackets, slot : Slots]
    BY <1>4, MtAssumption
  <2> QED  BY <1>0, <1>2, <1>3, <1>4, <1>5, <2>1 DEF MtTypeOK
<1>7. ListInv'
  <2>1. \A r \in mtUsed : mtEntries'[r].key = mtEntries[r].key /\ mtEntries'[r].priority = mtEntries[r].priority
    <3>1. mtEntries \in [Slots -> MtEntry] /\ mtUsed \subseteq Slots
      BY <1>0 DEF MtTypeOK
    <3>2. mtEntries[s] \in MtEntry
      BY <1>0, <3>1
    <3> QED  BY <1>0, <1>2, <3>1, <3>2 DEF MtEntry
  <2> QED  BY <1>0, <1>2, <1>3, <2>1 DEF ListInv
<1>8. CacheInv'
  <2>1. \A t \in MtThreads : mtReader'[t] = Idle
    BY <1>0, <1>2 DEF WriteLock
  <2> QED  BY <1>4, <2>1 DEF CacheInv
<1> QED  BY <1>6, <1>7, <1>8 DEF LookupInv

\* Steps that leave the keys, the priorities and the list alone leave the best matches alone.
LEMMA SameBest ==
  ASSUME MtTypeOK, ListInv, mtUsed' = mtUsed, mtLink' = mtLink, mtHead' = mtHead,
         \A r \in mtUsed : mtEntries'[r].key = mtEntries[r].key /\ mtEntries'[r].priority = mtEntries[r].priority
  PROVE  ListInv' /\ \A pkt, s : Hits(pkt)' = Hits(pkt) /\ (IsBest(pkt, s) => IsBest(pkt, s)')
<1>1. ListInv'
  BY DEF ListInv, IsNext, IsPrev
<1>2. \A pkt : Hits(pkt)' = Hits(pkt)
  BY DEF Hits
<1>3. ASSUME NEW pkt, NEW s, IsBest(pkt, s) PROVE IsBest(pkt, s)'
  <2>1. s \in Hits(pkt) /\ \A r \in Hits(pkt) : r \in mtUsed
    BY <1>3 DEF IsBest, Hits
  <2>2. \A r \in Hits(pkt) : Better(s, r) => Better(s, r)'
    BY <2>1 DEF Better
  <2> QED  BY <1>2, <1>3, <2>1, <2>2 DEF IsBest
<1> QED  BY <1>1, <1>2, <1>3

\* A modify changes no key and no priority.
LEMMA ModifyKeepsLookups ==
  ASSUME LookupInv, NEW h \in Handles, NEW a \in MtActions, MtModifyEntry(h, a)
  PROVE  LookupInv'
<1>a. PICK s : s = h.slot
  OBVIOUS
<1>0. MtTypeOK /\ ListInv /\ CacheInv /\ s \in mtUsed /\ s \in Slots
  BY <1>a DEF LookupInv, MtModifyEntry, MtValidHandle, MtTypeOK
<1>1. /\ mtEntries' = [mtEntries EXCEPT ![s].value = a]
      /\ UNCHANGED <<mtUsed, mtLink, mtHead, mtCache, mtUseCache, mtDefault, mtReader, mtAdds>>
  BY <1>a DEF MtModifyEntry
<1>2. mtEntries \in [Slots -> MtEntry] /\ mtUsed \subseteq Slots /\ mtEntries[s] \in MtEntry
  BY <1>0 DEF MtTypeOK
<1>3. \A r \in mtUsed : mtEntries'[r].key = mtEntries[r].key /\ mtEntries'[r].priority = mtEntries[r].priority
  BY <1>0, <1>1, <1>2 DEF MtEntry
<1>4. mtEntries' \in [Slots -> MtEntry]
  <2>1. [mtEntries[s] EXCEPT !.value = a] \in MtEntry
    BY <1>2 DEF MtEntry
  <2> QED  BY <1>0, <1>1, <1>2, <2>1
<1>5. MtTypeOK'
  BY <1>0, <1>1, <1>4 DEF MtTypeOK
<1>6. ListInv' /\ \A pkt, x : Hits(pkt)' = Hits(pkt) /\ (IsBest(pkt, x) => IsBest(pkt, x)')
  BY <1>0, <1>1, <1>3, SameBest
<1>7. CacheInv'
  <2>1. \A i \in 1 .. Len(mtCache) : IsBest(mtCache[i].pkt, mtCache[i].slot)'
    <3>1. ASSUME NEW i \in 1 .. Len(mtCache) PROVE IsBest(mtCache[i].pkt, mtCache[i].slot)'
      <4>1. PICK c : c = mtCache[i]
        OBVIOUS
      <4>2. IsBest(c.pkt, c.slot)'
        BY <1>0, <1>6, <4>1 DEF CacheInv
      <4>3. mtCache'[i] = c
        BY <1>1, <4>1
      <4> QED  BY <4>2, <4>3 DEF IsBest, Hits, Better
    <3> QED  BY <3>1, <1>1
  <2>2. \A t \in MtThreads : mtReader'[t] # Idle => mtUseCache' /\ Hits(mtReader[t])' # {}
    <3>1. ASSUME NEW t \in MtThreads, mtReader'[t] # Idle PROVE mtUseCache' /\ Hits(mtReader[t])' # {}
      <4>1. PICK q : q = mtReader[t]
        OBVIOUS
      <4>2. mtUseCache' /\ Hits(q)' # {} /\ mtReader'[t] = q
        BY <1>0, <1>1, <1>6, <3>1, <4>1 DEF CacheInv
      <4> QED  BY <4>2 DEF Hits
    <3> QED  BY <3>1
  <2>3. mtCache' = mtCache
    BY <1>1
  <2> QED  BY <1>0, <1>1, <2>1, <2>2, <2>3 DEF CacheInv
<1> QED  BY <1>5, <1>6, <1>7 DEF LookupInv

\* A reset leaves an empty list and an empty cache.
LEMMA ResetKeepsLookups ==
  ASSUME LookupInv, NEW b \in BOOLEAN, MtResetState(b)
  PROVE  LookupInv'
<1>0. MtTypeOK /\ WriteLock
  BY DEF LookupInv, MtResetState
<1>1. EmptyEntry \in MtEntry
  BY MtAssumption DEF EmptyEntry, MtEntry
<1>2. mtCache' = << >> /\ Len(mtCache') = 0 /\ mtUsed' = {} /\ mtHead' = NoSlot /\ mtReader' = mtReader
  BY DEF MtResetState
<1>3. MtTypeOK'
  <2>1. mtEntries' \in [Slots -> MtEntry] /\ mtLink' = mtLink /\ mtUseCache' \in BOOLEAN
    BY <1>1 DEF MtResetState
  <2>2. mtDefault' \in MtActions \cup {MtDefaultDefault}
    BY <1>0 DEF MtResetState, MtTypeOK
  <2>3. mtAdds' \in 0 .. MtMaxAdds /\ Len(mtCache') =< CacheSize
    BY <1>2, MtAssumption DEF MtResetState
  <2>4. \A i \in 1 .. Len(mtCache') : mtCache'[i] \in [pkt : MtPackets, slot : Slots]
    BY <1>2
  <2> QED  BY <1>0, <1>2, <2>1, <2>2, <2>3, <2>4 DEF MtTypeOK
<1>4. ListInv'
  BY <1>2 DEF ListInv, IsNext
<1>5. CacheInv'
  BY <1>0, <1>2 DEF CacheInv, WriteLock
<1> QED  BY <1>3, <1>4, <1>5 DEF LookupInv

\* What SelectInSeq finds in the cache.
LEMMA CacheIndexIs ==
  ASSUME CacheInv, NEW pkt, CacheIndex(pkt) # 0
  PROVE  CacheIndex(pkt) \in 1 .. Len(mtCache) /\ mtCache[CacheIndex(pkt)].pkt = pkt
<1> DEFINE I == {i \in 1 .. Len(mtCache) : mtCache[i].pkt = pkt}
<1>1. CacheIndex(pkt) = IF I # {} THEN Min(I) ELSE 0
  BY DEF CacheIndex, SelectInSeq
<1>2. I \subseteq Nat
  BY DEF CacheInv
<1>3. I # {} => Min(I) \in I
  <2> HIDE DEF I
  <2>1. ASSUME I # {} PROVE \E n \in I : \A m \in I : n <= m
    BY <1>2, <2>1, LeastNatural
  <2> QED  BY <2>1 DEF Min
<1> QED  BY <1>1, <1>3

\* The cache after a step that touches nothing else: fresh ones are best matches.
LEMMA CacheOfBestOnes ==
  ASSUME LookupInv, mtCache' \in Seq([pkt : MtPackets, slot : Slots]), Len(mtCache') =< CacheSize,
         \A i \in 1 .. Len(mtCache') : IsBest(mtCache'[i].pkt, mtCache'[i].slot),
         mtReader' \in [MtThreads -> MtPackets \cup {Idle}],
         \A t \in MtThreads : mtReader'[t] # Idle => mtUseCache /\ Hits(mtReader'[t]) # {},
         ~mtUseCache => mtCache' = << >>,
         UNCHANGED <<mtEntries, mtUsed, mtLink, mtHead, mtUseCache, mtDefault, mtAdds>>
  PROVE  LookupInv'
<1>0. MtTypeOK /\ ListInv /\ CacheInv
  BY DEF LookupInv
<1>1. ListInv' /\ \A pkt, x : Hits(pkt)' = Hits(pkt) /\ (IsBest(pkt, x) => IsBest(pkt, x)')
  BY <1>0, SameBest
<1>2. \A i \in 1 .. Len(mtCache') : mtCache'[i] \in [pkt : MtPackets, slot : Slots]
  <2> DEFINE C == [pkt : MtPackets, slot : Slots]
  <2>1. mtCache' \in Seq(C)
    OBVIOUS
  <2> HIDE DEF C
  <2>2. \A i \in 1 .. Len(mtCache') : mtCache'[i] \in C
    BY <2>1
  <2> QED  BY <2>2 DEF C
<1>3. MtTypeOK'
  BY <1>0, <1>2 DEF MtTypeOK
<1>4. \A i \in 1 .. Len(mtCache') : IsBest(mtCache[i].pkt, mtCache[i].slot)'
  BY DEF IsBest, Hits, Better
<1>5. \A t \in MtThreads : mtReader'[t] # Idle => mtUseCache' /\ Hits(mtReader[t])' # {}
  BY DEF Hits
<1> QED  BY <1>1, <1>3, <1>4, <1>5 DEF LookupInv, CacheInv

\* What a concatenation is made of.
LEMMA ConcatIs ==
  ASSUME NEW C, NEW u \in Seq(C), NEW v \in Seq(C)
  PROVE  /\ u \o v \in Seq(C) /\ Len(u \o v) = Len(u) + Len(v)
         /\ \A j \in 1 .. Len(u) + Len(v) : (u \o v)[j] = IF j <= Len(u) THEN u[j] ELSE v[j - Len(u)]
OBVIOUS

\* A lookup that the cache answers moves the answer to the head.
LEMMA StartKeepsLookups ==
  ASSUME LookupInv, NEW t \in MtThreads, NEW pkt \in MtPackets, LookupStart(t, pkt)
  PROVE  LookupInv'
<1>0. MtTypeOK /\ ListInv /\ CacheInv
  BY DEF LookupInv
<1>1. CASE InCache(pkt)
  <2>a. PICK i : i = CacheIndex(pkt)
    OBVIOUS
  <2>1. mtCache' = <<mtCache[i]>> \o (SubSeq(mtCache, 1, i - 1) \o SubSeq(mtCache, i + 1, Len(mtCache)))
        /\ mtReader' = mtReader
    BY <1>1, <2>a DEF LookupStart, MoveToHead, RemoveAt
  <2>2. i \in 1 .. Len(mtCache) /\ mtUseCache
    BY <1>0, <1>1, <2>a, CacheIndexIs DEF InCache
  <2> DEFINE C == [pkt : MtPackets, slot : Slots]
  <2>3. mtCache \in Seq(C) /\ Len(mtCache) =< CacheSize /\ CacheSize \in Nat
    BY <1>0, MtAssumption DEF CacheInv, MtTypeOK
  <2> HIDE DEF C
  <2>4. /\ mtCache' \in Seq(C) /\ Len(mtCache') = Len(mtCache)
        /\ \A j \in 1 .. Len(mtCache) : \E m \in 1 .. Len(mtCache) : mtCache'[j] = mtCache[m]
    <3> DEFINE u == SubSeq(mtCache, 1, i - 1)
               v == SubSeq(mtCache, i + 1, Len(mtCache))
    <3>1. u \in Seq(C) /\ Len(u) = i - 1 /\ \A j \in 1 .. i - 1 : u[j] = mtCache[j]
      BY <2>2, <2>3
    <3>2. v \in Seq(C) /\ Len(v) = Len(mtCache) - i /\ \A j \in 1 .. Len(mtCache) - i : v[j] = mtCache[j + i]
      BY <2>2, <2>3
    <3> HIDE DEF u, v
    <3>3. mtCache' = <<mtCache[i]>> \o (u \o v)
      BY <2>1 DEF u, v
    <3>4. mtCache[i] \in C
      BY <2>2, <2>3
    <3>5. u \o v \in Seq(C) /\ Len(u \o v) = Len(mtCache) - 1
          /\ \A j \in 1 .. Len(mtCache) - 1 : (u \o v)[j] = IF j < i THEN u[j] ELSE v[j - i + 1]
      <4>1. u \o v \in Seq(C) /\ Len(u \o v) = Len(mtCache) - 1
        <5>1. u \o v \in Seq(C) /\ Len(u \o v) = Len(u) + Len(v)
          BY <3>1, <3>2, ConcatIs
        <5> QED  BY <2>2, <2>3, <3>1, <3>2, <5>1
      <4>2. ASSUME NEW j \in 1 .. Len(mtCache) - 1
            PROVE  (u \o v)[j] = IF j < i THEN u[j] ELSE v[j - i + 1]
        <5>1. j \in 1 .. Len(u) + Len(v)
          BY <2>2, <2>3, <3>1, <3>2
        <5>2. (u \o v)[j] = IF j <= Len(u) THEN u[j] ELSE v[j - Len(u)]
          BY <3>1, <3>2, <5>1, ConcatIs
        <5> QED  BY <2>2, <2>3, <3>1, <5>2
      <4> QED  BY <4>1, <4>2
    <3>6. mtCache' \in Seq(C) /\ Len(mtCache') = Len(mtCache)
          /\ \A j \in 1 .. Len(mtCache) : mtCache'[j] = IF j = 1 THEN mtCache[i] ELSE (u \o v)[j - 1]
      BY <2>2, <2>3, <3>3, <3>4, <3>5
    <3>7. ASSUME NEW j \in 1 .. Len(mtCache) PROVE \E m \in 1 .. Len(mtCache) : mtCache'[j] = mtCache[m]
      <4>1. CASE j = 1
        BY <2>2, <3>6, <4>1
      <4>2. CASE j # 1 /\ j - 1 < i
        <5>1. j - 1 \in 1 .. Len(mtCache) - 1 /\ j - 1 \in 1 .. i - 1 /\ j - 1 \in 1 .. Len(mtCache)
          BY <2>2, <2>3, <4>2
        <5> QED  BY <3>1, <3>5, <3>6, <4>2, <5>1
      <4>3. CASE j # 1 /\ ~(j - 1 < i)
        <5>1. j - 1 \in 1 .. Len(mtCache) - 1 /\ j - 1 - i + 1 \in 1 .. Len(mtCache) - i
              /\ (j - 1 - i + 1) + i = j
          BY <2>2, <2>3, <4>3
        <5> QED  BY <3>2, <3>5, <3>6, <4>3, <5>1
      <4> QED  BY <4>1, <4>2, <4>3
    <3> QED  BY <3>6, <3>7
  <2>5. \A j \in 1 .. Len(mtCache') : IsBest(mtCache'[j].pkt, mtCache'[j].slot)
    BY <1>0, <2>4 DEF CacheInv
  <2>6. /\ UNCHANGED <<mtEntries, mtUsed, mtLink, mtHead, mtUseCache, mtDefault, mtAdds>>
        /\ mtReader' \in [MtThreads -> MtPackets \cup {Idle}]
        /\ \A u \in MtThreads : mtReader'[u] # Idle => mtUseCache /\ Hits(mtReader'[u]) # {}
    BY <1>0, <2>1 DEF LookupStart, CacheInv, MtTypeOK
  <2> QED  BY <2>2, <2>3, <2>4, <2>5, <2>6, CacheOfBestOnes DEF C
<1>2. CASE ~InCache(pkt)
  <2>1. mtCache' = mtCache
        /\ mtReader' = [mtReader EXCEPT ![t] = IF mtUseCache /\ Scan(pkt) # NoSlot THEN pkt ELSE Idle]
    BY <1>2 DEF LookupStart
  <2>2. mtReader' \in [MtThreads -> MtPackets \cup {Idle}]
    BY <1>0, <2>1 DEF MtTypeOK
  <2>3. ASSUME NEW u \in MtThreads, mtReader'[u] # Idle PROVE mtUseCache /\ Hits(mtReader'[u]) # {}
    <3>1. CASE u = t
      <4>1. mtUseCache /\ Scan(pkt) # NoSlot /\ mtReader'[u] = pkt
        BY <1>0, <2>1, <2>3, <3>1 DEF MtTypeOK
      <4> QED  BY <1>0, <4>1, ScanIsBestMatch
    <3>2. CASE u # t
      <4>1. mtReader'[u] = mtReader[u]
        BY <1>0, <2>1, <3>2 DEF MtTypeOK
      <4> QED  BY <1>0, <2>3, <4>1 DEF CacheInv
    <3> QED  BY <3>1, <3>2
  <2>4. UNCHANGED <<mtEntries, mtUsed, mtLink, mtHead, mtUseCache, mtDefault, mtAdds>>
    BY DEF LookupStart
  <2>5. /\ mtCache' \in Seq([pkt : MtPackets, slot : Slots]) /\ Len(mtCache') =< CacheSize
        /\ \A i \in 1 .. Len(mtCache') : IsBest(mtCache'[i].pkt, mtCache'[i].slot)
        /\ ~mtUseCache => mtCache' = << >>
    BY <1>0, <2>1 DEF CacheInv, MtTypeOK
  <2> QED  BY <2>2, <2>3, <2>4, <2>5, CacheOfBestOnes
<1> QED  BY <1>1, <1>2

\* A lookup that fills the cache puts the best match there.
LEMMA FillKeepsLookups ==
  ASSUME LookupInv, NEW t \in MtThreads, LookupFill(t)
  PROVE  LookupInv'
<1>a. PICK pkt : pkt = mtReader[t]
  OBVIOUS
<1>b. PICK e : e = [pkt |-> pkt, slot |-> Scan(pkt)]
  OBVIOUS
<1>0. MtTypeOK /\ ListInv /\ CacheInv /\ pkt # Idle
  BY <1>a DEF LookupInv, LookupFill
<1> DEFINE C == [pkt : MtPackets, slot : Slots]
<1>1. pkt \in MtPackets /\ mtUseCache /\ Hits(pkt) # {}
  BY <1>0, <1>a DEF MtTypeOK, CacheInv
<1>2. IsBest(pkt, Scan(pkt)) /\ Scan(pkt) \in Slots
  BY <1>0, <1>1, ScanIsBestMatch, BestIsUnique
<1>3. e \in C /\ IsBest(e.pkt, e.slot)
  BY <1>1, <1>2, <1>b
<1> HIDE DEF C
<1>4. /\ mtReader' = [mtReader EXCEPT ![t] = Idle]
      /\ UNCHANGED <<mtEntries, mtUsed, mtLink, mtHead, mtUseCache, mtDefault, mtAdds>>
      /\ mtCache' = CacheAdd(pkt, Scan(pkt))
  BY <1>a DEF LookupFill
<1>5. mtCache \in Seq(C) /\ Len(mtCache) =< CacheSize /\ CacheSize \in Nat \ {0}
      /\ \A i \in 1 .. Len(mtCache) : IsBest(mtCache[i].pkt, mtCache[i].slot)
  BY <1>0, MtAssumption DEF CacheInv, MtTypeOK, C
<1>6. /\ mtCache' \in Seq(C) /\ Len(mtCache') =< CacheSize
      /\ \A i \in 1 .. Len(mtCache') : IsBest(mtCache'[i].pkt, mtCache'[i].slot)
  <2>1. CASE CacheIndex(pkt) # 0
    BY <1>4, <1>5, <2>1 DEF CacheAdd
  <2>2. CASE CacheIndex(pkt) = 0
    <3>1. PICK q : q = IF Len(mtCache) = CacheSize THEN Front(mtCache) ELSE mtCache
      OBVIOUS
    <3>2. mtCache' = <<e>> \o q
      BY <1>4, <1>b, <2>2, <3>1 DEF CacheAdd
    <3>3. q \in Seq(C) /\ Len(q) + 1 =< CacheSize /\ Len(q) =< Len(mtCache)
          /\ \A i \in 1 .. Len(q) : q[i] = mtCache[i]
      <4>1. CASE Len(mtCache) = CacheSize
        <5>1. q = SubSeq(mtCache, 1, Len(mtCache) - 1)
          BY <3>1, <4>1 DEF Front
        <5> QED  BY <1>5, <4>1, <5>1
      <4>2. CASE Len(mtCache) # CacheSize
        BY <1>5, <3>1, <4>2
      <4> QED  BY <4>1, <4>2
    <3>4. \A i \in 1 .. Len(q) : IsBest(q[i].pkt, q[i].slot)
      BY <1>5, <3>3
    <3>5. mtCache' \in Seq(C) /\ Len(mtCache') = Len(q) + 1
          /\ \A i \in 1 .. Len(mtCache') : mtCache'[i] = IF i = 1 THEN e ELSE q[i - 1]
      BY <1>3, <3>2, <3>3
    <3>6. ASSUME NEW i \in 1 .. Len(mtCache') PROVE IsBest(mtCache'[i].pkt, mtCache'[i].slot)
      <4>1. CASE i = 1
        BY <1>3, <3>5, <4>1
      <4>2. CASE i # 1
        <5>1. i - 1 \in 1 .. Len(q) /\ mtCache'[i] = q[i - 1]
          BY <3>3, <3>5, <4>2
        <5> QED  BY <3>4, <5>1
      <4> QED  BY <4>1, <4>2
    <3> QED  BY <3>3, <3>5, <3>6
  <2> QED  BY <2>1, <2>2
<1>7. mtReader' \in [MtThreads -> MtPackets \cup {Idle}]
  BY <1>0, <1>4 DEF MtTypeOK
<1>8. ASSUME NEW u \in MtThreads, mtReader'[u] # Idle PROVE mtUseCache /\ Hits(mtReader'[u]) # {}
  <2>1. mtReader'[u] = mtReader[u]
    BY <1>0, <1>4, <1>8 DEF MtTypeOK
  <2> QED  BY <1>0, <1>8, <2>1 DEF CacheInv
<1> QED  BY <1>1, <1>4, <1>6, <1>7, <1>8, CacheOfBestOnes DEF C

\* Only the default entry changes.
LEMMA QuietKeepsLookups ==
  ASSUME LookupInv, mtDefault' \in MtActions \cup {MtDefaultDefault},
         UNCHANGED <<mtEntries, mtUsed, mtLink, mtHead, mtCache, mtUseCache, mtReader, mtAdds>>
  PROVE  LookupInv'
<1>0. MtTypeOK /\ ListInv /\ CacheInv
  BY DEF LookupInv
<1>1. MtTypeOK'
  BY <1>0 DEF MtTypeOK
<1>2. ListInv' /\ \A pkt, x : Hits(pkt)' = Hits(pkt) /\ (IsBest(pkt, x) => IsBest(pkt, x)')
  BY <1>0, SameBest
<1>3. \A i \in 1 .. Len(mtCache) : IsBest(mtCache[i].pkt, mtCache[i].slot)'
  <2>1. \A i \in 1 .. Len(mtCache) : IsBest(mtCache[i].pkt, mtCache[i].slot)
    BY <1>0 DEF CacheInv
  <2> QED  BY <2>1 DEF IsBest, Hits, Better
<1>4. \A t \in MtThreads : mtReader'[t] # Idle => mtUseCache' /\ Hits(mtReader[t])' # {}
  BY <1>0 DEF Hits, CacheInv
<1>5. mtCache' \in Seq([pkt : MtPackets, slot : Slots]) /\ (~mtUseCache' => mtCache' = << >>) /\ mtCache' = mtCache
  BY <1>0 DEF CacheInv
<1>6. CacheInv'
  BY <1>3, <1>4, <1>5 DEF CacheInv
<1> QED  BY <1>1, <1>2, <1>6 DEF LookupInv

\* A step keeps the list and the cache.
LEMMA LookupStep == LookupInv /\ [MtNext]_mtVars => LookupInv'
<1> SUFFICES ASSUME LookupInv, [MtNext]_mtVars PROVE LookupInv'
  OBVIOUS
<1>1. ASSUME NEW a \in MtActions \cup {MtDefaultDefault}, SetDefaultAction(a) PROVE LookupInv'
  <2>2. UNCHANGED <<mtEntries, mtUsed, mtLink, mtHead, mtCache, mtUseCache, mtReader, mtAdds>> /\ mtDefault' = a
    BY <1>1 DEF SetDefaultAction
  <2> QED  BY <2>2, QuietKeepsLookups
<1>2. CASE UNCHANGED mtVars
  <2>1. mtDefault \in MtActions \cup {MtDefaultDefault}
    BY DEF LookupInv, MtTypeOK
  <2> QED  BY <1>2, <2>1, QuietKeepsLookups DEF mtVars
<1>3. CASE MtResetDefaultEntry
  BY <1>1, <1>3 DEF MtResetDefaultEntry
<1> QED
  BY <1>1, <1>2, <1>3, AddKeepsLookups, DeleteKeepsLookups, ModifyKeepsLookups, ResetKeepsLookups,
     StartKeepsLookups, FillKeepsLookups DEF MtNext

\* From the invariant, what packets get.
LEMMA LookupsHave == LookupInv => TableLookups
<1> SUFFICES ASSUME LookupInv PROVE TableLookups  OBVIOUS
<1>0. MtTypeOK /\ ListInv /\ CacheInv
  BY DEF LookupInv
<1>1. ASSUME NEW pkt \in MtPackets, InCache(pkt) PROVE mtCache[CacheIndex(pkt)].slot = BestMatch(pkt)
  <2>1. CacheIndex(pkt) \in 1 .. Len(mtCache) /\ mtCache[CacheIndex(pkt)].pkt = pkt
    BY <1>0, <1>1, CacheIndexIs DEF InCache
  <2>2. IsBest(pkt, mtCache[CacheIndex(pkt)].slot)
    BY <1>0, <2>1 DEF CacheInv
  <2> QED  BY <1>0, <2>2, BestIsUnique
<1> QED  BY <1>0, <1>1, ScanIsBestMatch DEF TableLookups, LookupIsBestMatch

\* For every size of the table, of the cache and every number of packet threads
\* EntryList is sorted by slot and complete, and TernaryCache holds best matches
\* only, also between the two times a lookup takes the cache's mutex.
THEOREM LookupInvariant == MtSpec => []LookupInv
BY LookupBegins, LookupStep, PTL DEF MtSpec

\* A lookup returns the live entry of the smallest priority, and of the smallest
\* slot among equals, whether the scan or the cache answers and whatever adds,
\* deletes, resets and lookups came before.
THEOREM LookupsAreBest == MtSpec => []TableLookups
BY LookupInvariant, LookupsHave, PTL
====
