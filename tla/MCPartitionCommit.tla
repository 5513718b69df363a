-------------------------- MODULE MCPartitionCommit --------------------------
(* The bounds of the checked instance of PartitionCommit.                  *)
EXTENDS PartitionCommit, TLC

CONSTANTS r1, r2
=============================================================================
