------------------------------- MODULE McPre -------------------------------
(***************************************************************************)
(* The packet replication engine: simple_pre.cpp and simple_pre_lag.cpp,   *)
(* with the clients that program it (SimplePre_server.cpp,                 *)
(* SimplePreLAG_server.cpp, PI/src/pi_mc_imp.cpp, pdfixed/src/pd_pre.cpp). *)
(*                                                                         *)
(* A multicast group lists L1 nodes; an L1 node points to an L2 node, which*)
(* holds a set of ports and a set of LAGs.  Every operation runs under     *)
(* `mutex', so it is one step; packets read the tree with Replicate.  The  *)
(* rid of a node is data that no property tells apart and is left out.     *)
(***************************************************************************)
EXTENDS Naturals, FiniteSets, Sequences

CONSTANTS
  PreMgids,       \* multicast group identifiers
  PrePorts,       \* number of ports of a port map (PORT_MAP_SIZE)
  PreLags,        \* LAG indexes
  PreLagHash,     \* the constant lag_hash
  PreMgidSize,    \* MGID_TABLE_SIZE
  PreL1Max        \* L1_MAX_ENTRIES (L2_MAX_ENTRIES is larger)

ASSUME PreAssumption ==
  PrePorts \in Nat /\ PreL1Max \in Nat /\ PreLagHash \in Nat

VARIABLES
  preGroups,      \* mgid_entries: the l1_list of each group that exists
  preL1,          \* l1_entries
  preL2,          \* l2_entries
  preLag          \* lag_entries: the port map of each LAG that was set

preVars == <<preGroups, preL1, preL2, preLag>>

PortMaps == SUBSET (0..PrePorts - 1)
PreHandles == 0..PreL1Max - 1

PreInit == preGroups = <<>> /\ preL1 = <<>> /\ preL2 = <<>> /\ preLag = <<>>

\* A map with the entry k set to v, and a map without the entry k.
With(f, k, v) == [x \in DOMAIN f \cup {k} |-> IF x = k THEN v ELSE f[x]]
Without(f, k) == [x \in DOMAIN f \ {k} |-> f[x]]

\* HandleMgr::get_handle returns the smallest free handle.
FreeHandle(f) == CHOOSE h \in PreHandles \ DOMAIN f : 0..h - 1 \subseteq DOMAIN f

\* Creating a group that exists succeeds and keeps its nodes.
MgrpCreate(g) ==
  /\ Cardinality(DOMAIN preGroups) < PreMgidSize
  /\ preGroups' = With(preGroups, g,
                       IF g \in DOMAIN preGroups THEN preGroups[g] ELSE <<>>)
  /\ UNCHANGED <<preL1, preL2, preLag>>

\* The nodes of the group are left as they are: still associated.
MgrpDestroy(g) ==
  /\ preGroups' = Without(preGroups, g)
  /\ UNCHANGED <<preL1, preL2, preLag>>

NodeCreate(ports, lags) ==
  /\ Cardinality(DOMAIN preL1) < PreL1Max
  /\ LET l1 == FreeHandle(preL1)
         l2 == FreeHandle(preL2)
     IN /\ preL1' = With(preL1, l1, [l2 |-> l2, associated |-> FALSE, mgrp |-> 0])
        /\ preL2' = With(preL2, l2, [ports |-> ports, lags |-> lags])
  /\ UNCHANGED <<preGroups, preLag>>

\* A mutation of NodeAssociate: an associated node is not refused.
NodeAssociateTwice(g, l1) ==
  /\ l1 \in DOMAIN preL1 /\ g \in DOMAIN preGroups
  /\ Len(preGroups[g]) < 2 * PreL1Max
  /\ preGroups' = [preGroups EXCEPT ![g] = Append(@, l1)]
  /\ preL1' = [preL1 EXCEPT ![l1].mgrp = g, ![l1].associated = TRUE]
  /\ UNCHANGED <<preL2, preLag>>

NodeAssociate(g, l1) ==
  /\ l1 \in DOMAIN preL1 /\ g \in DOMAIN preGroups
  /\ ~preL1[l1].associated
  /\ preGroups' = [preGroups EXCEPT ![g] = Append(@, l1)]
  /\ preL1' = [preL1 EXCEPT ![l1].mgrp = g, ![l1].associated = TRUE]
  /\ UNCHANGED <<preL2, preLag>>

\* The number of members of a set that are not above i.
Rank(set, i) == Cardinality({j \in set : j <= i})

\* std::remove and erase: every occurrence of the node leaves the list, and the
\* others keep their order.
Removed(list, l1) ==
  LET kept == {i \in 1..Len(list) : list[i] # l1}
  IN [k \in 1..Cardinality(kept) |-> list[CHOOSE i \in kept : Rank(kept, i) = k]]

\* node_dissociate.
Dissociated(g, l1) == [preGroups EXCEPT ![g] = Removed(@, l1)]

NodeDissociate(g, l1) ==
  /\ l1 \in DOMAIN preL1 /\ g \in DOMAIN preGroups
  /\ preL1[l1].associated /\ preL1[l1].mgrp = g
  /\ preGroups' = Dissociated(g, l1)
  /\ preL1' = [preL1 EXCEPT ![l1].associated = FALSE]
  /\ UNCHANGED <<preL2, preLag>>

\* Destroying a node whose group was destroyed throws at mgid_entries.at before
\* anything is changed: it is not enabled here.
NodeDestroy(l1) ==
  /\ l1 \in DOMAIN preL1
  /\ IF preL1[l1].associated
     THEN /\ preL1[l1].mgrp \in DOMAIN preGroups
          /\ preGroups' = Dissociated(preL1[l1].mgrp, l1)
     ELSE preGroups' = preGroups
  /\ preL2' = Without(preL2, preL1[l1].l2)
  /\ preL1' = Without(preL1, l1)
  /\ UNCHANGED preLag

NodeUpdate(l1, ports, lags) ==
  /\ l1 \in DOMAIN preL1
  /\ preL2' = With(preL2, preL1[l1].l2, [ports |-> ports, lags |-> lags])
  /\ UNCHANGED <<preGroups, preL1, preLag>>

SetLagMembership(lag, ports) ==
  /\ preLag' = With(preLag, lag, ports)
  /\ UNCHANGED <<preGroups, preL1, preL2>>

PreResetState ==
  preGroups' = <<>> /\ preL1' = <<>> /\ preL2' = <<>> /\ preLag' = <<>>

-----------------------------------------------------------------------------
(* replicate.                                                               *)

\* The port of a LAG that gets the copy: ports are counted up to
\* lag_hash % member_count + 1.
LagPort(ports) ==
  LET wanted == (PreLagHash % Cardinality(ports)) + 1
  IN CHOOSE port \in 0..PrePorts - 1 :
       Rank(ports, port) = wanted /\ \A i \in 0..port - 1 : Rank(ports, i) # wanted

\* The LAGs of a node that have ports: a LAG that was never set, or is empty,
\* gets no copy.
LiveLags(n) == {lag \in preL2[preL1[n].l2].lags \cap DOMAIN preLag : preLag[lag] # {}}

\* The <<node, port>> copies made for a node.
NodeCopies(n) ==
  {<<n, port>> : port \in preL2[preL1[n].l2].ports} \cup
  {<<n, LagPort(preLag[lag])>> : lag \in LiveLags(n)}

\* The copies made of a packet sent to group g.
Replicate(g) ==
  IF g \notin DOMAIN preGroups THEN {}
  ELSE UNION {NodeCopies(preGroups[g][i]) : i \in 1..Len(preGroups[g])}

-----------------------------------------------------------------------------
(* Clients.                                                                 *)

\* convert_map of the PI: the string is cut or grown to each port in turn, so
\* a port is lost when a smaller one follows it.
ConvertMap(list) ==
  {list[i] : i \in {i \in 1..Len(list) :
                      \A j \in i + 1..Len(list) : list[i] <= list[j]}}

GroupRequest ==
  \/ \E g \in PreMgids : MgrpCreate(g) \/ MgrpDestroy(g)
  \/ \E g \in PreMgids, l1 \in PreHandles :
       NodeAssociate(g, l1) \/ NodeDissociate(g, l1)
  \/ \E l1 \in PreHandles : NodeDestroy(l1)

ThriftRequest ==
  \/ GroupRequest
  \/ \E ports \in PortMaps, lags \in SUBSET PreLags :
       \/ NodeCreate(ports, lags)
       \/ \E l1 \in PreHandles : NodeUpdate(l1, ports, lags)
  \/ \E lag \in PreLags, ports \in PortMaps : SetLagMembership(lag, ports)

\* The PI knows no LAG: it creates nodes without, and an update keeps those of
\* the node.
PiRequest ==
  \/ GroupRequest
  \/ \E list \in [1..2 -> 0..PrePorts - 1] :
       \/ NodeCreate(ConvertMap(list), {})
       \/ \E l1 \in DOMAIN preL1 :
            NodeUpdate(l1, ConvertMap(list), preL2[preL1[l1].l2].lags)

PreNext == ThriftRequest \/ PiRequest \/ PreResetState

PreSpec == PreInit /\ [][PreNext]_preVars

-----------------------------------------------------------------------------
PreTypeOK ==
  /\ DOMAIN preGroups \subseteq PreMgids
  /\ DOMAIN preL1 \subseteq PreHandles
  /\ \A h \in DOMAIN preL2 : preL2[h].ports \in PortMaps
  /\ \A lag \in DOMAIN preLag : preLag[lag] \in PortMaps

\* The nodes in the list of a group exist, are associated with that group and
\* are listed once.
ListSound(g, list) ==
  \A i \in 1..Len(list) :
    /\ list[i] \in DOMAIN preL1
    /\ preL1[list[i]].l2 \in DOMAIN preL2
    /\ preL1[list[i]].associated /\ preL1[list[i]].mgrp = g
    /\ \A j \in 1..Len(list) : list[j] = list[i] => j = i

\* replicate never throws and never makes two copies for one node: every node
\* of a group's list exists, has an L2 node of its own, is associated with that
\* group and is listed once, whatever the order in which groups and nodes were
\* created, associated and destroyed (simple_pre.cpp: the .at() of replicate,
\* is_associated).
ReplicationTreeSound ==
  /\ \A g \in DOMAIN preGroups : ListSound(g, preGroups[g])
  /\ \A x, y \in DOMAIN preL1 : preL1[x].l2 = preL1[y].l2 => x = y
  /\ DOMAIN preL2 = {preL1[x].l2 : x \in DOMAIN preL1}

\* A copy goes to a port of its node or to a member of one of its LAGs, and
\* every LAG of the node that has members gets one (simple_pre_lag.cpp:
\* the two counters of replicate).
LagCopyIsMember ==
  \A g \in DOMAIN preGroups :
    LET copies == Replicate(g)
        lagsOf(n) == preL2[preL1[n].l2].lags \cap DOMAIN preLag
    IN /\ \A copy \in copies :
            \/ copy[2] \in preL2[preL1[copy[1]].l2].ports
            \/ \E lag \in lagsOf(copy[1]) : copy[2] \in preLag[lag]
       /\ \A i \in 1..Len(preGroups[g]) : \A lag \in lagsOf(preGroups[g][i]) :
            preLag[lag] # {} =>
              \E port \in preLag[lag] : <<preGroups[g][i], port>> \in copies

\* replicate makes, without throwing, one copy per port of each node and one per
\* LAG (simple_pre.cpp, simple_pre_lag.cpp).
ReplicationSound == PreTypeOK /\ ReplicationTreeSound /\ LagCopyIsMember

-----------------------------------------------------------------------------
(* The inductive invariant behind ReplicationSound.                        *)

L1Nodes == [l2 : PreHandles, associated : BOOLEAN, mgrp : PreMgids \cup {0}]
L2Nodes == [ports : PortMaps, lags : SUBSET PreLags]

\* The maps hold lists of nodes, nodes and port maps.
PreMaps ==
  /\ DOMAIN preGroups \subseteq PreMgids /\ DOMAIN preL1 \subseteq PreHandles
  /\ preGroups \in [DOMAIN preGroups -> Seq(PreHandles)]
  /\ preL1 \in [DOMAIN preL1 -> L1Nodes] /\ preL2 \in [DOMAIN preL2 -> L2Nodes]
  /\ preLag \in [DOMAIN preLag -> PortMaps]

PreInv == PreMaps /\ ReplicationTreeSound
=============================================================================
