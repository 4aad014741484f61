---------------------------- MODULE MCSshTransfers ----------------------------
(* Instances of SshTransfers for TLC.                                      *)
EXTENDS SshTransfers, TLC

TwoRequests == {1, 2}
TwoPaths == {-1, -2}
AllKinds == {"upload", "rename", "delete", "download"}
=============================================================================
