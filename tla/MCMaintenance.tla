---------------------------- MODULE MCMaintenance ----------------------------
(* Instances of Maintenance for TLC.                                       *)
EXTENDS Maintenance, TLC

CONSTANTS a, b

AllSubjects == {"node", "resource", "tunnel", "monitor", "certificate"}
OneCertificate == {"certificate"}
OneNode == {1}
TwoNodes == {1, 2}
TwoNames == {a, b}
TwoJobs == {1, 2}
ThreeJobs == {1, 2, 3}
=============================================================================
