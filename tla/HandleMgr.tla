----------------------------- MODULE HandleMgr -----------------------------
(***************************************************************************)
(* HandleMgr of include/bm/bm_sim/handle_mgr.h: handles of match entries,  *)
(* members and groups are positions of a DynamicBitset, and first_unset    *)
(* caches the position the next get_handle gives out.                      *)
(***************************************************************************)
EXTENDS Integers

\* size: num_bits of the bitset; set: its positions that are set.
Mgr == [size : Nat, set : SUBSET Nat, first_unset : Nat]

NewMgr == [size |-> 0, set |-> {}, first_unset |-> 0]

ValidHandle(m, h) == h \in m.set

\* DynamicBitset::find_unset_next after pos, with npos replaced by s.
FindUnsetNext(set, size, pos, s) ==
  LET unset == {i \in pos + 1 .. size - 1 : i \notin set}
  IN  IF unset = {} THEN s
      ELSE CHOOSE i \in unset : \A j \in unset : i <= j

\* get_handle: the handle it returns is m.first_unset.
GetHandle(m) ==
  LET pos == m.first_unset
      now == m.set \cup {pos}
  IN  IF pos < m.size
      THEN [size |-> m.size, set |-> now,
            first_unset |-> FindUnsetNext(now, m.size, pos, m.size)]
      ELSE [size |-> m.size + 1, set |-> now, first_unset |-> pos + 1]

\* release_handle of a handle that is set
ReleaseHandle(m, h) ==
  [size |-> m.size, set |-> m.set \ {h},
   first_unset |-> IF m.first_unset > h THEN h ELSE m.first_unset]

\* set_handle of a handle that is not set; npos is replaced by the size the
\* bitset had before it was resized.
SetHandle(m, h) ==
  LET grown == IF h >= m.size THEN h + 1 ELSE m.size
      now == m.set \cup {h}
  IN  [size |-> grown, set |-> now,
       first_unset |-> IF m.first_unset = h
                       THEN FindUnsetNext(now, grown, h, m.size)
                       ELSE m.first_unset]

=============================================================================
