-------------------------- MODULE MCFlexrayStartup --------------------------
(***************************************************************************)
(* FlexrayStartup on a few nodes.  One node is configured a second time,   *)
(* after it has taken part in the traffic.                                 *)
(***************************************************************************)
EXTENDS FlexrayStartup

MCMaxConfigs == [n \in Node |-> IF n = 2 THEN 2 ELSE 1]
=============================================================================
