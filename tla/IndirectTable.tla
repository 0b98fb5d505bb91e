--------------------------- MODULE IndirectTable ---------------------------
(***************************************************************************)
(* A MatchTableIndirectWS and its ActionProfile: match entries that point  *)
(* to members or to groups of members, the reference counts that protect   *)
(* what is pointed to, and the handles both are named by.                  *)
(*                                                                         *)
(* Every operation runs under the write locks of the table and of the      *)
(* profile, so it is one action; a packet's lookup takes both read locks   *)
(* and sees one state.  An operation that is refused before it changes     *)
(* anything, or whose groups.at(grp) throws, is a step that changes        *)
(* nothing and has no action.  A failed assertion and an access outside a  *)
(* vector are the end of the process: fault.  An entry handle that is      *)
(* still current is named by the key of its entry.                         *)
(***************************************************************************)
EXTENDS HandleMgr, FiniteSets

CONSTANTS
  Keys,          \* match keys that can be built from a request
  Actions,       \* what a member may run
  TableSize,     \* entries the table can hold
  CountMod,      \* values of a reference count (2^32: unsigned int)
  MaxMbrs, MaxGrps,  \* bounds on the handles in use
  MaxLeaks,      \* bound on the references counted and not held
  MaxFailed      \* bound on the modifications refused

ASSUME TableAssumption ==
  /\ IsFiniteSet(Keys)
  /\ {TableSize, CountMod, MaxMbrs, MaxGrps, MaxLeaks, MaxFailed} \subseteq Nat
  /\ MaxLeaks + Cardinality(Keys) + MaxGrps + 1 < CountMod

VARIABLES
  mbr_handles, grp_handles,   \* HandleMgr of each
  action_entries,    \* the member vector
  groups,            \* GroupMgr's vector; what a deleted group held stays
  index_ref_count,   \* .mbr and .grp, vectors as long as the two above
  entries,           \* key -> the index it points to
  default_index,     \* the default entry's index, {} when default_set is false
  fault,
  \* History since the last reset_state:
  modify_failed,     \* modify_entry calls refused after they found their entry
  leaked             \* increments that no reference stands for

profileVars == <<mbr_handles, grp_handles, action_entries, groups>>
history == <<modify_failed, leaked>>
vars == <<profileVars, index_ref_count, entries, default_index, fault, history>>

Count == 0 .. CountMod - 1
Index == [grp : BOOLEAN, hdl : Nat]
MbrIndex(m) == [grp |-> FALSE, hdl |-> m]
GrpIndex(g) == [grp |-> TRUE, hdl |-> g]

\* Vectors are functions over 0 .. n - 1.
Vector(v, S, max) == \E n \in 0..max : v \in [0 .. n - 1 -> S]

\* Assignment to position i, or push_back when i is the size.
Put(v, i, x) == [j \in DOMAIN v \cup {i} |-> IF j = i THEN x ELSE v[j]]
Empty == [j \in {} |-> {}]

\* Types, and no more members, groups and entries than the bounds allow.
TypeOK ==
  /\ mbr_handles \in Mgr /\ grp_handles \in Mgr
  /\ Vector(action_entries, Actions, MaxMbrs)
  /\ Vector(groups, SUBSET (0 .. MaxMbrs - 1), MaxGrps)
  /\ index_ref_count \in [mbr : [DOMAIN action_entries -> Count],
                          grp : [DOMAIN groups -> Count]]
  /\ DOMAIN entries \subseteq Keys /\ entries \in [DOMAIN entries -> Index]
  /\ Cardinality(DOMAIN entries) <= TableSize
  /\ default_index \subseteq Index /\ Cardinality(default_index) <= 1
  /\ fault \in BOOLEAN
  /\ modify_failed \in 0..MaxFailed /\ leaked \in 0..MaxLeaks

Init ==
  /\ mbr_handles = NewMgr /\ grp_handles = NewMgr
  /\ action_entries = Empty /\ groups = Empty
  /\ index_ref_count = [mbr |-> Empty, grp |-> Empty]
  /\ entries = Empty /\ default_index = {}
  /\ fault = FALSE /\ modify_failed = 0 /\ leaked = 0

-----------------------------------------------------------------------------
(* ActionProfile *)

\* ref_count_increase (d = 1) and ref_count_decrease (d = -1)
RefCount(rc, i, d) ==
  IF i.grp THEN [rc EXCEPT !.grp[i.hdl] = (@ + d) % CountMod]
           ELSE [rc EXCEPT !.mbr[i.hdl] = (@ + d) % CountMod]

\* The process dies; nobody looks at the state again.
Fault ==
  /\ fault' = TRUE
  /\ UNCHANGED <<profileVars, index_ref_count, entries, default_index, history>>

AddMember(a) ==
  LET m == mbr_handles.first_unset
  IN  /\ ~fault
      /\ m < MaxMbrs
      /\ mbr_handles' = GetHandle(mbr_handles)
      /\ action_entries' = Put(action_entries, m, a)
      /\ index_ref_count' = [index_ref_count EXCEPT !.mbr = Put(@, m, 0)]
      /\ UNCHANGED <<grp_handles, groups, entries, default_index, fault, history>>

DeleteMember(m) ==
  /\ ~fault
  /\ ValidHandle(mbr_handles, m)
  /\ index_ref_count.mbr[m] = 0
  /\ mbr_handles' = ReleaseHandle(mbr_handles, m)
  /\ UNCHANGED <<grp_handles, action_entries, groups, index_ref_count, entries,
                 default_index, fault, history>>

ModifyMember(m, a) ==
  /\ ~fault
  /\ ValidHandle(mbr_handles, m)
  /\ action_entries' = [action_entries EXCEPT ![m] = a]
  /\ UNCHANGED <<mbr_handles, grp_handles, groups, index_ref_count, entries,
                 default_index, fault, history>>

\* insert_group asserts that the handle is at most one past the vector.
CreateGroup ==
  LET g == grp_handles.first_unset
  IN  /\ ~fault
      /\ g < MaxGrps
      /\ \/ /\ g \in DOMAIN groups \cup {Cardinality(DOMAIN groups)}
            /\ grp_handles' = GetHandle(grp_handles)
            /\ groups' = Put(groups, g, {})
            /\ index_ref_count' = [index_ref_count EXCEPT !.grp = Put(@, g, 0)]
            /\ UNCHANGED <<mbr_handles, action_entries, entries, default_index,
                           fault, history>>
         \/ /\ g \notin DOMAIN groups \cup {Cardinality(DOMAIN groups)}
            /\ Fault

\* Mutant: the members of a deleted group keep its references.
DeleteGroupKeepsCounts(g) ==
  /\ ~fault
  /\ ValidHandle(grp_handles, g)
  /\ \/ /\ g \in DOMAIN groups
        /\ index_ref_count.grp[g] = 0
        /\ grp_handles' = ReleaseHandle(grp_handles, g)
        /\ UNCHANGED <<mbr_handles, action_entries, groups, index_ref_count,
                       entries, default_index, fault, history>>
     \/ /\ g \notin DOMAIN groups
        /\ Fault

\* A group may be deleted with its members in it: they lose a reference each.
DeleteGroup(g) ==
  /\ ~fault
  /\ ValidHandle(grp_handles, g)
  /\ \/ /\ g \in DOMAIN groups
        /\ index_ref_count.grp[g] = 0
        /\ index_ref_count' =
             [index_ref_count EXCEPT !.mbr =
               [m \in DOMAIN @ |-> IF m \in groups[g] THEN (@[m] - 1) % CountMod
                                   ELSE @[m]]]
        /\ grp_handles' = ReleaseHandle(grp_handles, g)
        /\ UNCHANGED <<mbr_handles, action_entries, groups, entries,
                       default_index, fault, history>>
     \/ /\ g \notin DOMAIN groups    \* index_ref_count.get outside the vector
        /\ Fault

AddMemberToGroup(m, g) ==
  /\ ~fault
  /\ ValidHandle(mbr_handles, m)
  /\ ValidHandle(grp_handles, g) /\ g \in DOMAIN groups
  /\ m \notin groups[g]
  /\ groups' = [groups EXCEPT ![g] = @ \cup {m}]
  /\ index_ref_count' = RefCount(index_ref_count, MbrIndex(m), 1)
  /\ UNCHANGED <<mbr_handles, grp_handles, action_entries, entries,
                 default_index, fault, history>>

RemoveMemberFromGroup(m, g) ==
  /\ ~fault
  /\ ValidHandle(mbr_handles, m)
  /\ ValidHandle(grp_handles, g) /\ g \in DOMAIN groups
  /\ m \in groups[g]
  /\ groups' = [groups EXCEPT ![g] = @ \ {m}]
  /\ index_ref_count' = RefCount(index_ref_count, MbrIndex(m), -1)
  /\ UNCHANGED <<mbr_handles, grp_handles, action_entries, entries,
                 default_index, fault, history>>

-----------------------------------------------------------------------------
(* MatchTableIndirect and MatchTableIndirectWS *)

IsValid(i) == ValidHandle(IF i.grp THEN grp_handles ELSE mbr_handles, i.hdl)

\* What an entry may be pointed to: a member, or a group with members.  For a
\* valid handle without a group groups.at(grp) throws, and the request fails.
Usable(i) ==
  /\ IsValid(i)
  /\ i.grp => i.hdl \in DOMAIN groups /\ groups[i.hdl] # {}

\* match_unit->add_entry: not BAD_MATCH_KEY, DUPLICATE_ENTRY or TABLE_FULL
Accepted(k) ==
  /\ k \in Keys \ DOMAIN entries
  /\ Cardinality(DOMAIN entries) < TableSize

\* An entry that points to i: the reference is counted first.
AddIndex(k, i) ==
  /\ ~fault
  /\ Usable(i)
  /\ index_ref_count' = RefCount(index_ref_count, i, 1)
  /\ \/ /\ Accepted(k)
        /\ entries' = Put(entries, k, i)
        /\ UNCHANGED leaked
     \/ /\ ~Accepted(k)
        /\ leaked < MaxLeaks
        /\ leaked' = leaked + 1
        /\ UNCHANGED entries
  /\ UNCHANGED <<profileVars, default_index, fault, modify_failed>>

AddEntry(k, m) == AddIndex(k, MbrIndex(m))
AddEntryWs(k, g) == AddIndex(k, GrpIndex(g))

DeleteEntry(k) ==
  /\ ~fault
  /\ k \in DOMAIN entries
  /\ index_ref_count' = RefCount(index_ref_count, entries[k], -1)
  /\ entries' = [j \in DOMAIN entries \ {k} |-> entries[j]]
  /\ UNCHANGED <<profileVars, default_index, fault, history>>

\* An entry is made to point to i: the old reference is released first.
ModifyIndex(k, i) ==
  /\ ~fault
  /\ k \in DOMAIN entries
  /\ LET released == RefCount(index_ref_count, entries[k], -1)
     IN  \/ /\ Usable(i)
            /\ index_ref_count' = RefCount(released, i, 1)
            /\ entries' = [entries EXCEPT ![k] = i]
            /\ UNCHANGED modify_failed
         \/ /\ ~Usable(i)
            /\ index_ref_count' = released
            /\ modify_failed < MaxFailed
            /\ modify_failed' = modify_failed + 1
            /\ UNCHANGED entries
  /\ UNCHANGED <<profileVars, default_index, fault, leaked>>

ModifyEntry(k, m) == ModifyIndex(k, MbrIndex(m))
ModifyEntryWs(k, g) == ModifyIndex(k, GrpIndex(g))

\* The counts once the default entry, if any, has given up its reference
DefaultReleased ==
  IF default_index = {} THEN index_ref_count
  ELSE RefCount(index_ref_count, CHOOSE i \in default_index : TRUE, -1)

SetDefault(i) ==
  /\ index_ref_count' = RefCount(DefaultReleased, i, 1)
  /\ default_index' = {i}
  /\ UNCHANGED <<profileVars, entries, fault, history>>

SetDefaultMember(m) ==
  /\ ~fault
  /\ IsValid(MbrIndex(m))
  /\ SetDefault(MbrIndex(m))

\* An empty group is accepted.  After reset_state a valid handle may have no
\* group, and grp_count[grp]++ is outside the vector.
SetDefaultGroup(g) ==
  /\ ~fault
  /\ IsValid(GrpIndex(g))
  /\ IF g \in DOMAIN groups THEN SetDefault(GrpIndex(g)) ELSE Fault

ResetDefaultEntry ==
  /\ ~fault
  /\ index_ref_count' = DefaultReleased
  /\ default_index' = {}
  /\ UNCHANGED <<profileVars, entries, fault, history>>

\* mt_clear_entries: the table forgets its entries, not the references.
ClearEntries(reset_default_entry) ==
  LET dropped == IF reset_default_entry THEN Cardinality(default_index) ELSE 0
  IN  /\ ~fault
      /\ leaked' = leaked + Cardinality(DOMAIN entries) + dropped
      /\ leaked' <= MaxLeaks
      /\ entries' = Empty
      /\ default_index' = IF reset_default_entry THEN {} ELSE default_index
      /\ UNCHANGED <<profileVars, index_ref_count, fault, modify_failed>>

\* P4Objects::reset_state: the table, then the profile, which keeps
\* grp_handles.
ResetState ==
  /\ ~fault
  /\ entries' = Empty /\ default_index' = {}
  /\ index_ref_count' = [mbr |-> Empty, grp |-> Empty]
  /\ mbr_handles' = NewMgr
  /\ action_entries' = Empty /\ groups' = Empty
  /\ modify_failed' = 0 /\ leaked' = 0
  /\ UNCHANGED <<grp_handles, fault>>

BadKey == "BAD_MATCH_KEY"

Next ==
  \/ \E a \in Actions : AddMember(a)
  \/ \E m \in 0..MaxMbrs : DeleteMember(m)
  \/ \E m \in 0..MaxMbrs, a \in Actions : ModifyMember(m, a)
  \/ CreateGroup
  \/ \E g \in 0..MaxGrps : DeleteGroup(g)
  \/ \E m \in 0..MaxMbrs, g \in 0..MaxGrps : AddMemberToGroup(m, g)
  \/ \E m \in 0..MaxMbrs, g \in 0..MaxGrps : RemoveMemberFromGroup(m, g)
  \/ \E k \in Keys : DeleteEntry(k)
  \/ \E m \in 0..MaxMbrs :
       \/ \E k \in Keys \cup {BadKey} : AddEntry(k, m)
       \/ \E k \in Keys : ModifyEntry(k, m)
       \/ SetDefaultMember(m)
  \/ \E g \in 0..MaxGrps :
       \/ \E k \in Keys \cup {BadKey} : AddEntryWs(k, g)
       \/ \E k \in Keys : ModifyEntryWs(k, g)
       \/ SetDefaultGroup(g)
  \/ ResetDefaultEntry
  \/ \E b \in BOOLEAN : ClearEntries(b)
  \/ ResetState

Spec == Init /\ [][Next]_vars

-----------------------------------------------------------------------------
(* Properties *)

\* ActionProfile::lookup, for the worst hash.
ProfileLookup(i) ==
  IF IsValid(i) /\ (i.grp => groups[i.hdl] \subseteq mbr_handles.set)
  THEN "entry" ELSE "assertion"

\* MatchTableIndirect::lookup with index i: what the packet gets.  An empty
\* group leaves next_node unset.
Lookup(i) ==
  IF i.grp /\ groups[i.hdl] = {} THEN "empty_action" ELSE ProfileLookup(i)

Indices == {MbrIndex(m) : m \in 0..MaxMbrs} \cup {GrpIndex(g) : g \in 0..MaxGrps}
Held == {entries[k] : k \in DOMAIN entries} \cup default_index

\* The live groups a member is in
GroupsOf(m) == {g \in grp_handles.set \cap DOMAIN groups : m \in groups[g]}

\* The references to an index: match entries, the default entry, and for a
\* member the live groups it is in.
References(i) ==
  Cardinality({k \in DOMAIN entries : entries[k] = i})
  + Cardinality({i} \cap default_index)
  + (IF i.grp THEN 0 ELSE Cardinality(GroupsOf(i.hdl)))

CountOf(i) == IF i.grp THEN index_ref_count.grp[i.hdl] ELSE index_ref_count.mbr[i.hdl]

\* A packet never runs into the assertions of ActionProfile::lookup (an index,
\* or a member of a group, that is no longer valid), as long as no
\* modify_entry was refused: deleting is then held off by the counts, however
\* the entries, the groups and the default entry share a member.
LookupNeverAsserts ==
  modify_failed = 0 => \A i \in Held : Lookup(i) # "assertion"

\* The counts are never below the references held, and exceed them by no more
\* than what rejected add_entry calls and mt_clear_entries left behind: with
\* nothing left behind, what nobody points to can be deleted.
CountsMatchReferences ==
  modify_failed = 0 =>
    \A i \in Indices :
      (IsValid(i) /\ (i.grp => i.hdl \in DOMAIN groups)) =>
        /\ References(i) <= CountOf(i)
        /\ CountOf(i) <= References(i) + leaked

\* The assertions on handles in insert_group, IndirectIndexRefCount::set and
\* get_handle, and the bounds of the vectors, hold until a reset_state has
\* left group handles behind that have no group.
FaultsOnlyAfterReset ==
  fault => ~(grp_handles.set \subseteq DOMAIN groups)

\* "a member cannot be deleted if match entries are pointing to it"
\* (action_profile.h): delete_member refuses a member that is in use.
MemberKeptWhileUsed ==
  [][\A m \in mbr_handles.set \ mbr_handles'.set :
       \A k \in DOMAIN entries' : entries'[k] # MbrIndex(m)]_vars

\* What the profile counts, what entries point to and what a packet finds agree,
\* up to the calls that are known to break it (action_profile.cpp).
ReferencesSound ==
  TypeOK /\ LookupNeverAsserts /\ CountsMatchReferences /\ FaultsOnlyAfterReset

-----------------------------------------------------------------------------
(* The inductive invariant behind ReferencesSound.                         *)

\* first_unset is the smallest handle that is not set.
MgrOK(m) ==
  /\ m \in Mgr /\ m.set \subseteq 0 .. m.size - 1
  /\ m.first_unset <= m.size /\ m.first_unset \notin m.set
  /\ 0 .. m.first_unset - 1 \subseteq m.set

\* The handles given out are positions of the member vector; reset_state has
\* left group handles behind that are positions of no group.
HandlesInv ==
  /\ MgrOK(mbr_handles) /\ MgrOK(grp_handles)
  /\ DOMAIN action_entries = 0 .. mbr_handles.size - 1
  /\ default_index = {} \/ \E i \in Indices : default_index = {i}

Live(i) == IsValid(i) /\ (i.grp => i.hdl \in DOMAIN groups)

\* What is pointed to is there, until a modify_entry is refused.
HeldInv ==
  modify_failed = 0 =>
    /\ \A i \in Held : Live(i)
    /\ \A g \in grp_handles.set \cap DOMAIN groups : groups[g] \subseteq mbr_handles.set

ReferencesInv ==
  TypeOK /\ HandlesInv /\ HeldInv /\ CountsMatchReferences /\ FaultsOnlyAfterReset
====
