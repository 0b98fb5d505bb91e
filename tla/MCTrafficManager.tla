-------------------------- MODULE MCTrafficManager --------------------------
(* Instances of TrafficManager.  Ports 1 and 5 share worker 1 when there   *)
(* are four workers, as EGRESS_PORT_NUMBER has it; the colours are chosen  *)
(* so that a later packet may overtake an earlier one under SP.            *)
EXTENDS TrafficManager, TLC

CONSTANTS p1, p2, p3

MCPortOf == [p \in Pkts |-> IF p = p1 THEN 1 ELSE IF p = p2 THEN 5 ELSE 2]
MCColorOf == [p \in Pkts |-> IF p = p1 THEN 2 ELSE IF p = p2 THEN 0 ELSE 2]

\* Producers differ by name only.
ProducerSymmetry == Permutations(Producers)
=============================================================================
