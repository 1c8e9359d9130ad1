-------------------------- MODULE MCRevisionGateway --------------------------
(* The expected revision and one other the pull request may move to.         *)
EXTENDS RevisionGateway

CONSTANTS r1, r2
=============================================================================
