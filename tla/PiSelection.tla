----------------------------- MODULE PiSelection -----------------------------
(***************************************************************************)
(* Action profile groups through PI: every profile of a configuration gets *)
(* a GroupSelection object (group_selection.cpp) from the PI layer, which  *)
(* the profile keeps informed of its groups and asks for the member of a   *)
(* packet, and in which PI clients activate and deactivate members.  A new *)
(* configuration has its own profile and its own selection from the moment *)
(* it is loaded; packets use the old ones until the swap.                  *)
(***************************************************************************)
EXTENDS Integers, Sequences, FiniteSets

CONSTANTS
  PsMembers,      \* the handles of the members a client creates
  PsGroups,       \* the handles of groups
  PsHashes,       \* the values of the hash of a packet
  PsMaxOps        \* bound: the number of calls

ASSUME SelAssumption ==
  PsMembers \subseteq Nat /\ PsGroups \subseteq Nat /\ PsHashes \subseteq Nat /\ PsMaxOps \in Nat

VARIABLES
  psRun,          \* the profile packets use: [members, groups, sel]
  psNew,          \* the profile of a configuration that is loaded
  psSwap,         \* a configuration is loaded and not yet in use
  psDown,         \* (group, member) that are to get no packets (history): [run, new]
  psOps

psVars == <<psRun, psNew, psSwap, psDown, psOps>>

\* groups: the members of every group that exists; sel: the same as the
\* selection has it, with the members that are active.
EmptyProfile == [members |-> {}, groups |-> <<>>, sel |-> <<>>]

PsInit ==
  /\ psRun = EmptyProfile /\ psNew = EmptyProfile /\ psSwap = FALSE
  /\ psDown = [run |-> {}, new |-> {}]
  /\ psOps = 0

-----------------------------------------------------------------------------
(* GroupSelection *)

PsSet(f, x, v) == [y \in DOMAIN f \cup {x} |-> IF y = x THEN v ELSE f[y]]
PsDrop(f, x) == [y \in DOMAIN f \ {x} |-> f[y]]

SelOf(sel, g) == IF g \in DOMAIN sel THEN sel[g] ELSE [members |-> {}, active |-> {}]

\* add_member_to_group: a new member is active.
SelAdd(sel, g, m) ==
  PsSet(sel, g, [members |-> SelOf(sel, g).members \cup {m},
                 active |-> SelOf(sel, g).active \cup {m}])

\* remove_member_from_group for each of the members ms: an empty group is forgotten.
SelRemove(sel, g, ms) ==
  LET left == SelOf(sel, g).members \ ms
  IN IF left = {} THEN PsDrop(sel, g)
     ELSE PsSet(sel, g, [members |-> left, active |-> SelOf(sel, g).active \ ms])

\* RandAccessUIntSet::get_nth: the element that n others are smaller than.
GetNth(S, n) == CHOOSE x \in S : Cardinality({y \in S : y < x}) = n
\* The order in which handles and the members of a group are iterated over.
InOrder(S) == [i \in 1..Cardinality(S) |-> GetNth(S, i - 1)]

\* get_from_hash: the member whose rank among the active ones is the hash
\* modulo their number; there must be one.
GetFromHash(sel, g, h) ==
  GetNth(sel[g].active, h % Cardinality(sel[g].active))

-----------------------------------------------------------------------------
(* The calls, on the profile the runtime sees: the new one while a swap is   *)
(* pending.                                                                  *)

PsProfile == IF psSwap THEN psNew ELSE psRun
PsWhich == IF psSwap THEN "new" ELSE "run"

PsUpdate(prof, down) ==
  /\ psOps < PsMaxOps /\ psOps' = psOps + 1
  /\ psDown' = [psDown EXCEPT ![PsWhich] = down]
  /\ IF psSwap THEN psNew' = prof /\ UNCHANGED psRun
               ELSE psRun' = prof /\ UNCHANGED psNew
  /\ UNCHANGED psSwap

\* _pi_act_prof_mbr_create, _mbr_delete: a member of a group stays.
PsMbrCreate(m) ==
  LET p == PsProfile
  IN /\ m \notin p.members /\ \A n \in PsMembers \ p.members : m <= n
     /\ PsUpdate([p EXCEPT !.members = @ \cup {m}], psDown[PsWhich])
PsMbrDelete(m) ==
  LET p == PsProfile
  IN /\ m \in p.members
     /\ \A g \in DOMAIN p.groups : m \notin p.groups[g]
     /\ PsUpdate([p EXCEPT !.members = @ \ {m}], psDown[PsWhich])

\* _pi_act_prof_grp_create: the smallest free handle.
PsGrpCreate(g) ==
  LET p == PsProfile
  IN /\ g \notin DOMAIN p.groups /\ \A n \in PsGroups \ DOMAIN p.groups : g <= n
     /\ PsUpdate([p EXCEPT !.groups = PsSet(@, g, {})], psDown[PsWhich])

\* A mutation of PsGrpDelete: the selection is not told.
PsGrpDeleteOnly(g) ==
  LET p == PsProfile
  IN /\ g \in DOMAIN p.groups
     /\ PsUpdate([p EXCEPT !.groups = PsDrop(@, g)],
                 {d \in psDown[PsWhich] : d[1] # g})

\* _pi_act_prof_grp_delete: the selection loses the members one by one.
PsGrpDelete(g) ==
  LET p == PsProfile
  IN /\ g \in DOMAIN p.groups
     /\ PsUpdate([p EXCEPT !.groups = PsDrop(@, g),
                           !.sel = SelRemove(@, g, p.groups[g])],
                 {d \in psDown[PsWhich] : d[1] # g})

PsGrpAddMbr(g, m) ==
  LET p == PsProfile
  IN /\ g \in DOMAIN p.groups /\ m \in p.members \ p.groups[g]
     /\ PsUpdate([p EXCEPT !.groups[g] = @ \cup {m}, !.sel = SelAdd(@, g, m)],
                 psDown[PsWhich] \ {<<g, m>>})

PsGrpRemoveMbr(g, m) ==
  LET p == PsProfile
  IN /\ g \in DOMAIN p.groups /\ m \in p.groups[g]
     /\ PsUpdate([p EXCEPT !.groups[g] = @ \ {m}, !.sel = SelRemove(@, g, {m})],
                 psDown[PsWhich] \ {<<g, m>>})

\* _pi_act_prof_grp_activate_mbr: straight to the selection, whose map says
\* whether the member is in the group.
PsActivate(g, m) ==
  LET p == PsProfile
  IN /\ m \in SelOf(p.sel, g).members
     /\ PsUpdate([p EXCEPT !.sel[g].active = @ \cup {m}], psDown[PsWhich] \ {<<g, m>>})

PsDeactivate(g, m) ==
  LET p == PsProfile
  IN /\ m \in SelOf(p.sel, g).members
     /\ PsUpdate([p EXCEPT !.sel[g].active = @ \ {m}], psDown[PsWhich] \cup {<<g, m>>})

\* _pi_update_device_start: load_new_config, then a DeviceState for it.
PsUpdateStart ==
  /\ ~psSwap /\ psOps < PsMaxOps
  /\ psNew' = EmptyProfile /\ psSwap' = TRUE
  /\ psDown' = [psDown EXCEPT !.new = {}]
  /\ psOps' = psOps + 1
  /\ UNCHANGED psRun

\* _pi_update_device_end: swap_configs.
PsUpdateEnd ==
  /\ psSwap
  /\ psRun' = psNew /\ psNew' = EmptyProfile /\ psSwap' = FALSE
  /\ psDown' = [run |-> psDown.new, new |-> {}]
  /\ UNCHANGED psOps

PsNext ==
  \/ \E m \in PsMembers : PsMbrCreate(m) \/ PsMbrDelete(m)
  \/ \E g \in PsGroups : PsGrpCreate(g) \/ PsGrpDelete(g)
  \/ \E g \in PsGroups, m \in PsMembers :
       \/ PsGrpAddMbr(g, m) \/ PsGrpRemoveMbr(g, m)
       \/ PsActivate(g, m) \/ PsDeactivate(g, m)
  \/ PsUpdateStart \/ PsUpdateEnd

PsSpec == PsInit /\ [][PsNext]_psVars

-----------------------------------------------------------------------------
\* emit_groups: the members of all groups in one array, and for every group its
\* size and where its members start.
EmitGroups(p) ==
  LET gs == InOrder(DOMAIN p.groups)
      upto[i \in 0..Len(gs)] ==
        IF i = 0 THEN <<>> ELSE upto[i - 1] \o InOrder(p.groups[gs[i]])
  IN [handles |-> upto[Len(gs)],
      groups |-> [i \in 1..Len(gs) |->
        [grp |-> gs[i], num |-> Cardinality(p.groups[gs[i]]), offset |-> Len(upto[i - 1])]]]

PsTypeOK ==
  /\ psRun.members \subseteq PsMembers /\ DOMAIN psRun.groups \subseteq PsGroups
  /\ psOps \in 0..PsMaxOps

\* Whatever was created, deleted, reused, activated or deactivated, before and
\* after a change of configuration: as long as a group has an active member,
\* every packet that hits the group gets a member of it, one that exists and
\* that the client has not deactivated since it was last added or activated;
\* and the selection knows no group that the profile does not have.
PacketsReachActiveMembers ==
  /\ DOMAIN psRun.sel \subseteq DOMAIN psRun.groups
  /\ \A g \in DOMAIN psRun.groups :
       LET up == {m \in psRun.groups[g] : <<g, m>> \notin psDown.run}
       IN up # {} => \A h \in PsHashes :
            LET m == GetFromHash(psRun.sel, g, h) IN m \in up /\ m \in psRun.members

\* The groups a client reads back are the groups of the profile, all of them
\* and each with its members.
FetchedGroupsDecode ==
  LET res == EmitGroups(psRun)
  IN /\ {res.groups[i].grp : i \in 1..Len(res.groups)} = DOMAIN psRun.groups
     /\ \A i \in 1..Len(res.groups) :
          LET r == res.groups[i]
          IN {res.handles[k] : k \in r.offset + 1..r.offset + r.num} = psRun.groups[r.grp]

\* The groups of the profile, of the selection and of a client's read agree
\* (group_selection.cpp, pi_act_prof_imp.cpp).
SelectionSound == PsTypeOK /\ PacketsReachActiveMembers /\ FetchedGroupsDecode

\* What a profile, the selection made for it and the history of the members that
\* are down have to do with each other: the selection has the groups that are not
\* empty, with their members, and those that are not down are active.
ProfileInv(p, down) ==
  /\ DOMAIN p = {"members", "groups", "sel"}
  /\ p.members \subseteq PsMembers /\ IsFiniteSet(p.members)
  /\ DOMAIN p.groups \subseteq PsGroups /\ IsFiniteSet(DOMAIN p.groups)
  /\ \A g \in DOMAIN p.groups : p.groups[g] \subseteq p.members
  /\ DOMAIN p.sel = {g \in DOMAIN p.groups : p.groups[g] # {}}
  /\ \A g \in DOMAIN p.sel :
       p.sel[g] = [members |-> p.groups[g],
                   active |-> {m \in p.groups[g] : <<g, m>> \notin down}]

\* Why SelectionSound holds: every call keeps this of both profiles.
SelectionInv ==
  /\ DOMAIN psDown = {"run", "new"} /\ psSwap \in BOOLEAN /\ psOps \in 0..PsMaxOps
  /\ ProfileInv(psRun, psDown.run) /\ ProfileInv(psNew, psDown.new)

=============================================================================
