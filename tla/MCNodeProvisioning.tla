-------------------------- MODULE MCNodeProvisioning --------------------------
(* Instances of NodeProvisioning for TLC.                                  *)
EXTENDS NodeProvisioning, TLC

OneRow == {1}
TwoRows == {1, 2}
OneServer == {1}
TwoServers == {1, 2}
=============================================================================
