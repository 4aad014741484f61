----------------------------- MODULE MCJobQueue -----------------------------
(* Instances of JobQueue for TLC.                                          *)
EXTENDS JobQueue, TLC

CONSTANTS n1, n2

TwoNodes == {n1, n2}
TwoJobs == 1 .. 2
=============================================================================
