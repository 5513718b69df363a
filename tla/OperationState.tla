---------------------------- MODULE OperationState ----------------------------
(***************************************************************************)
(* The vocabulary of an operation run: its lifecycle states and the table  *)
(* of transitions storage enforces, the phases of a task, the bounded      *)
(* actions a run is executed with, and the checkpoints it records.         *)
(***************************************************************************)
EXTENDS Integers

CONSTANTS
  \* Number of physical stages of the frozen plan (1 for a single-node run).
  NStages,
  \* Transitions added to the ones state.go lists, out of MissingEdges. {} is
  \* the code; with all of them a run of several stages gets past its first.
  ExtraTransitions

ASSUME NStagesAssumption == NStages \in Nat \ {0}

-----------------------------------------------------------------------------

State ==
  {"draft", "discovering", "prechecking", "planned", "awaiting_confirmation",
   "queued", "acquiring_lock", "creating_restore_point", "running",
   "verifying", "succeeded", "blocked", "failed", "rolling_back",
   "rolled_back", "rollback_failed", "interrupted", "canceled_before_apply"}

\* The edges the decision table of the Server relies on and state.go lacks: from
\* a verified stage to the next one, and from a failed or canceled preparation
\* of a stage to the rollback of the stages before it.
MissingEdges ==
  {<<"verifying", "creating_restore_point">>, <<"creating_restore_point", "rolling_back">>}

ASSUME ExtraTransitionsAssumption == ExtraTransitions \subseteq MissingEdges

PreApplyExit == {"canceled_before_apply", "interrupted", "blocked"}

\* The transitions table: the states each state may go to.
transitions ==
  [s \in State |->
    CASE s = "draft"          -> {"discovering", "canceled_before_apply"}
      [] s = "discovering"    -> {"prechecking"} \union PreApplyExit
      [] s = "prechecking"    -> {"planned"} \union PreApplyExit
      [] s = "planned"        -> {"awaiting_confirmation", "blocked", "canceled_before_apply"}
      [] s = "awaiting_confirmation" -> {"queued", "canceled_before_apply"}
      [] s = "queued"         -> {"acquiring_lock"} \union PreApplyExit
      [] s = "acquiring_lock" -> {"creating_restore_point"} \union PreApplyExit
      [] s = "creating_restore_point" -> {"running"} \union PreApplyExit
      [] s = "running"        -> {"verifying", "failed", "rolling_back", "interrupted"}
      [] s = "verifying"      -> {"succeeded", "failed", "rolling_back", "interrupted"}
      [] s = "failed"         -> {"rolling_back"}
      [] s = "interrupted"    -> {"queued", "rolling_back", "failed"}
      [] s = "rolling_back"   -> {"rolled_back", "rollback_failed", "interrupted"}
      [] OTHER                -> {}]

\* A mistake the properties must catch: any state may be canceled.
CanTransition_Cancel(from, to) ==
  to \in transitions[from] \union {"canceled_before_apply"}

CanTransition(from, to) ==
  \/ to \in transitions[from]
  \/ <<from, to>> \in ExtraTransitions

Terminal ==
  {"succeeded", "blocked", "canceled_before_apply", "rolled_back", "rollback_failed"}

\* States a run is in only with a durable journal (executionStateRequiresJournal).
RequiresJournal ==
  {"queued", "acquiring_lock", "creating_restore_point", "running", "verifying",
   "succeeded", "failed", "rolling_back", "rolled_back", "rollback_failed",
   "interrupted"}

-----------------------------------------------------------------------------

\* Task phases; "absent" is a task row that does not exist.
Phase == {"absent", "pending", "claimed", "running", "cancel_requested",
          "canceled", "succeeded", "failed"}
TerminalPhase == {"canceled", "succeeded", "failed"}
LivePhase == {"pending", "claimed", "running", "cancel_requested"}

Stage == 0 .. NStages - 1

Action == {"create_restore_point", "apply", "verify", "rollback", "verify_rollback"}
Destructive == {"apply", "rollback"}

\* A run's tasks: the planning task and one task per stage and action. The
\* identifiers of the latter are deterministic, so a task exists at most once.
Planning == <<0, "planning">>
ActionTask == Stage \X Action
Task == {Planning} \union ActionTask
operationStageTaskID(stage, action) == <<stage, action>>
StageOf(t) == t[1]
ActionOf(t) == t[2]

\* The state a run is in while the action of the task is carried out.
operationActionState(t) ==
  CASE ActionOf(t) = "create_restore_point" -> "creating_restore_point"
    [] ActionOf(t) = "apply"                -> "running"
    [] ActionOf(t) = "verify"               -> "verifying"
    [] OTHER                                -> "rolling_back"

-----------------------------------------------------------------------------

\* A checkpoint names what was recorded last: a plain mark, or a task with
\* "queued", its "result" in some phase, or a "reconnect_wait" after it.
Mark(name) == [kind |-> name, task |-> Planning, phase |-> "absent"]
QueuedMark(t) == [kind |-> "queued", task |-> t, phase |-> "pending"]
stagedActionResultCheckpoint(t, p) == [kind |-> "result", task |-> t, phase |-> p]
ReconnectMark(t) == [kind |-> "reconnect_wait", task |-> t, phase |-> "succeeded"]

PlainMark ==
  {"planning_queued", "discovering", "plan_ready", "planning_blocked",
   "agent_execution_interrupted", "task_canceled", "canceled_before_apply",
   "cancellation_converged", "canceled_before_apply_restore_point_retained",
   "canceled_before_apply_failure_reconciled", "confirmed_and_queued",
   "lease_acquired", "restore_point_failed", "apply_outcome_requires_reconcile",
   "verify_failed_without_rollback_proof", "rollback_failed", "verified",
   "rollback_verified", "cancellation_requires_reconcile"}

Checkpoint ==
  [kind : PlainMark \union {"queued", "result", "reconnect_wait"},
   task : Task, phase : Phase]

Recovery ==
  {"none", "restore_point_failed", "apply_outcome_uncertain",
   "rollback_prerequisites_missing", "rollback_failed",
   "cancellation_requested", "cancellation_requires_reconcile"}
=============================================================================
