------------------------ MODULE MCManagedDeployment ------------------------
(* Instances of ManagedDeployment for TLC.                                 *)
EXTENDS ManagedDeployment, TLC

CONSTANTS t1, t2

OneThread == {t1}
TwoThreads == {t1, t2}
ThreadSymmetry == Permutations(Threads)
=============================================================================
