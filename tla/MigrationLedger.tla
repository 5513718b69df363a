--------------------------- MODULE MigrationLedger ---------------------------
(***************************************************************************)
(* The two durable records of a ClickHouse migration, as the Server keeps  *)
(* them for the Agent: the ledger entry of a transfer chunk and the record *)
(* of the run-owned restore object.  The operators are the checks that     *)
(* stand between a write and the row: which state may follow which, and    *)
(* which checkpoint the recovery code of a path recognises as its own.     *)
(***************************************************************************)
EXTENDS Naturals

LedgerStates == {"planned", "staging", "transferred", "verified",
  "commit_pending", "replicas_converging", "commit_unknown", "committed",
  "failed", "rollback_pending", "rolled_back", "rollback_blocked",
  "rollback_failed"}

(* The states a stored entry may move to. *)
LedgerTransitions == [from \in LedgerStates |->
  CASE from = "planned"             -> {"staging", "failed"}
    [] from = "staging"             -> {"transferred", "failed", "rollback_pending"}
    [] from = "transferred"         -> {"verified", "failed", "rollback_pending"}
    [] from = "verified"            -> {"commit_pending", "committed",
                                        "commit_unknown", "rollback_pending"}
    [] from = "commit_pending"      -> {"replicas_converging", "committed", "commit_unknown"}
    [] from = "replicas_converging" -> {"committed", "commit_unknown"}
    [] from = "commit_unknown"      -> {"verified", "replicas_converging", "committed",
                                        "rollback_pending", "rollback_blocked"}
    [] from = "committed"           -> {"rollback_pending", "rollback_blocked"}
    [] from = "failed"              -> {"rollback_pending"}
    [] from = "rollback_pending"    -> {"committed", "rolled_back",
                                        "rollback_blocked", "rollback_failed"}
    [] OTHER                        -> {}]

CanLedgerTransition(from, to) == to \in LedgerTransitions[from]

(* An upsert keeps the state or moves it along one transition.  An engine  *)
(* may take several transitions in memory before it stores the entry: only *)
(* the states on the two sides of the write are compared.                  *)
LedgerUpdateAllowed(from, to) == from = to \/ CanLedgerTransition(from, to)

(* The checkpoints the recovery code of a path accepts in the states that  *)
(* say a statement may have been issued.                                   *)
CheckpointOwned(state, checkpoint, partitioned) ==
  CASE state = "commit_pending"      -> partitioned /\ checkpoint = "replace_pending"
    [] state = "replicas_converging" -> partitioned /\ checkpoint = "replicas_converging"
    [] state = "commit_unknown"      ->
         checkpoint = IF partitioned THEN "commit_unknown" ELSE "exchange_intent"
    [] state = "rollback_pending"    ->
         checkpoint \in {"staging_drop_pending", "rollback_observation_pending"}
           \cup (IF partitioned
                   THEN {"drop_partition_pending", "rollback_replicas_converging"}
                   ELSE {"rollback_exchange_intent"})
    [] OTHER                         -> TRUE

-----------------------------------------------------------------------------

RestoreStates == {"intent", "creating", "ready", "cleanup_pending", "cleaned",
                  "manual_review"}

RestoreTransitions == [from \in RestoreStates |->
  CASE from = "intent"          -> {"creating", "ready", "manual_review"}
    [] from = "creating"        -> {"ready", "manual_review"}
    [] from = "ready"           -> {"cleanup_pending", "manual_review"}
    [] from = "cleanup_pending" -> {"cleaned", "manual_review"}
    [] OTHER                    -> {}]

(* A restore record starts as an intent, moves along its transitions, and  *)
(* never forgets or exchanges the identity of the object it has frozen.    *)
RestoreUpdateAllowed(first, from, to) ==
  IF first THEN to.state = "intent"
  ELSE /\ to.baseline = from.baseline
       /\ from.object # "none" => to.object = from.object
       /\ to.state = from.state \/ to.state \in RestoreTransitions[from.state]
=============================================================================
