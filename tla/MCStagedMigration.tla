-------------------------- MODULE MCStagedMigration --------------------------
(* The bounds of the checked instance of StagedMigration.                  *)
EXTENDS StagedMigration
=============================================================================
