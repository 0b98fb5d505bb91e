------------------------------- MODULE TmFifo -------------------------------
(***************************************************************************)
(* What the traffic manager promises the egress side, seen from outside:   *)
(* one queue per egress worker, packets put in and released in order.      *)
(***************************************************************************)
EXTENDS Naturals, Sequences

CONSTANTS Pkts, Workers

VARIABLES q, out

Put(w, p) ==
  /\ q' = [q EXCEPT ![w] = Append(@, p)]
  /\ UNCHANGED out

Release(w) ==
  /\ q[w] # <<>>
  /\ out' = [out EXCEPT ![w] = Append(@, Head(q[w]))]
  /\ q' = [q EXCEPT ![w] = Tail(@)]

Init ==
  /\ q = [w \in Workers |-> <<>>]
  /\ out = [w \in Workers |-> <<>>]

Next == \E w \in Workers : Release(w) \/ \E p \in Pkts : Put(w, p)

Spec == Init /\ [][Next]_<<q, out>>
=============================================================================
