-------------------------- MODULE MCFleetOperation --------------------------
(* Instances of FleetOperation for TLC.  Nodes are numbered in rollout     *)
(* order, so they are not interchangeable.                                 *)
EXTENDS FleetOperation, TLC

=============================================================================
