--------------------------- MODULE MCSimpleSwitch ---------------------------
(* Instances of SimpleSwitch: two egress threads, every capacity at its    *)
(* smallest, one multicast group and a session that clones to a port.      *)
EXTENDS SimpleSwitch

MCMcastPorts == <<0, 1>>
MCSessions == {[mgid_valid |-> FALSE, egress_port |-> 0]}
=============================================================================
