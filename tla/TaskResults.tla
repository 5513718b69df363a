------------------------------ MODULE TaskResults ------------------------------
(***************************************************************************)
(* What an Agent submits for a task, and what the Server lets through: an  *)
(* Agent repeats a submission until it is taken, and takes no other task   *)
(* meanwhile, so that a result the Server refuses keeps it for ever.  The  *)
(* operators are the ways a result comes about, whatever a plugin or an    *)
(* operation definition returns, and the checks of the Agent's journal and *)
(* of the Server's handlers.                                               *)
(*                                                                         *)
(* A text is "none" when it is absent, "blank" when there is nothing to    *)
(* read in it, and "said".  A slice is the set of its elements, which say  *)
(* at which place they are; a pointer is {} or {what it points to}.        *)
(***************************************************************************)
EXTENDS Integers, FiniteSets

Text == {"none", "blank", "said"}

-----------------------------------------------------------------------------
(* Read-only checks.                                                       *)

\* A definition of a check has an id and the texts an item must repeat.
Definition(id, text) == [id |-> id, text |-> text]
Ids(checks) == {d.id : d \in checks}

ItemStatus == {"safe", "unsafe", "error", "manual_review", "not_applicable"}

NormalizeItem(i) ==
  IF i.status # "" THEN i
  ELSE IF ~i.applicable THEN [i EXCEPT !.status = "not_applicable"]
  ELSE IF i.error # "none" THEN [i EXCEPT !.status = "error"]
  ELSE IF i.compliant = "yes" THEN [i EXCEPT !.status = "safe"]
  ELSE IF i.compliant = "no" THEN [i EXCEPT !.status = "unsafe"]
  ELSE [i EXCEPT !.status = "error", !.error = "said"]

ValidateItem(i) ==
  /\ i.identified
  /\ \/ /\ i.status \in {"safe", "unsafe"} /\ i.applicable
        /\ i.compliant = IF i.status = "safe" THEN "yes" ELSE "no"
        /\ i.error = "none" /\ i.review = "none"
     \/ /\ i.status = "manual_review" /\ i.applicable
        /\ i.compliant = "none" /\ i.error = "none" /\ i.review = "said"
     \/ i.status = "error" /\ i.error # "none" /\ i.compliant = "none" /\ i.review = "none"
     \/ /\ i.status = "not_applicable" /\ ~i.applicable
        /\ i.compliant = "none" /\ i.error = "none" /\ i.review = "none"

\* A failure names a code and says something.
ValidateFailure(error) == error = "said"

\* The part of a task's contract its result is held against; the contract of
\* a result that was stored has no definitions.
ResultContract(contract) ==
  [plugin |-> contract.plugin, ids |-> Ids(contract.checks), defined |-> contract.checks]
ReplayResultContract(result) ==
  [plugin |-> result.plugin, ids |-> {i.id : i \in result.items}, defined |-> {}]

\* The result as the validation leaves it.
Normalized(result) == [result EXCEPT !.items = {NormalizeItem(i) : i \in @}]

\* A result ends after it started when "forward".
ValidateCheckResult(result, expected) ==
  LET items == Normalized(result).items IN
  /\ result.plugin = expected.plugin /\ result.forward
  /\ \/ result.state = "completed" /\ result.error = "none"
     \/ result.state = "error" /\ ValidateFailure(result.error)
  /\ \A i \in items :
       /\ ValidateItem(i) /\ i.id \in expected.ids
       /\ i.status = "error" => ValidateFailure(i.error)
       /\ \A d \in expected.defined : d.id = i.id => d.text = i.text
  /\ \A i, j \in items : i.id = j.id => i.at = j.at
  /\ result.state = "completed" => \A id \in expected.ids : \E i \in items : i.id = id

Invalid(result) == [result EXCEPT !.items = {}, !.state = "error", !.error = "said"]

\* One item for each check that was selected, with one conclusion.
ConclusionItems(checks, status, error) ==
  {[at |-> d.id, id |-> d.id, text |-> d.text, identified |-> TRUE, status |-> status,
    applicable |-> status = "error", compliant |-> "none",
    error |-> IF status = "error" THEN error ELSE "none", review |-> "none"] : d \in checks}

\* What a plugin does with the checks selected: "body" says whether it supports
\* the system, what its detection and its check return, and whether the wall
\* clock was set back meanwhile.
CheckReport(plugin, body, state, error, items) ==
  [plugin |-> plugin, state |-> state, error |-> error, items |-> items, forward |-> ~body.setBack]

ExecuteCheck(plugin, checks, body) ==
  LET report(state, error, items) == CheckReport(plugin, body, state, error, items)
      observed == report(IF body.error = "none" THEN "completed" ELSE "error", body.error,
                         {i \in body.items : i.id \in Ids(checks)})
      notApplicable == ConclusionItems(checks, "not_applicable", "none")
      failed == ConclusionItems(checks, "error", body.detection)
  IN IF ~body.supported THEN report("completed", "none", notApplicable)
     ELSE IF body.detection # "none" THEN report("error", body.detection, failed)
     ELSE IF ~body.applicable THEN report("completed", "none", notApplicable)
     ELSE IF ValidateCheckResult(observed, [plugin |-> plugin, ids |-> Ids(checks), defined |-> {}])
     THEN Normalized(observed) ELSE Invalid(observed)

\* The Agent's plugin is the one the contract was frozen from.
FreezeExecutionContract(metadata, ids) ==
  [plugin |-> metadata.plugin, checks |-> {d \in metadata.checks : d.id \in ids}]
MetadataForExecutionContract(metadata, contract) ==
  FreezeExecutionContract(metadata, Ids(contract.checks)) = contract

FailureResult(plugin) ==
  [plugin |-> plugin, state |-> "error", error |-> "said", items |-> {}, forward |-> TRUE]

\* The result held against the frozen contract once more, or the reason why the
\* check could not be run.
ObservedCheck(metadata, contract, body) ==
  ExecuteCheck(metadata.plugin, FreezeExecutionContract(metadata, Ids(contract.checks)).checks, body)

ExecuteTaskCheck(metadata, contract, body) ==
  LET result == ObservedCheck(metadata, contract, body)
  IN IF ~MetadataForExecutionContract(metadata, contract) THEN FailureResult(contract.plugin)
     ELSE IF ValidateCheckResult(result, ResultContract(contract)) THEN Normalized(result)
     ELSE Invalid(result)

CheckSubmission(result) ==
  [phase |-> IF result.state = "error" THEN "failed" ELSE "succeeded", result |-> result]
InterruptedCheck(contract) == [phase |-> "failed", result |-> FailureResult(contract.plugin)]
CanceledCheck(contract) == [phase |-> "canceled", result |-> FailureResult(contract.plugin)]

\* The Server's check of a submission; "stored" is the result it has, if any.
ValidateTaskResult(submission, contract, stored) ==
  /\ submission.result.state = IF submission.phase = "succeeded" THEN "completed" ELSE "error"
  /\ IF stored = {} THEN ValidateCheckResult(submission.result, ResultContract(contract))
     ELSE \E s \in stored : ValidateCheckResult(submission.result, ReplayResultContract(s))

-----------------------------------------------------------------------------
(* Planning of operations.                                                 *)

\* A stage of a plan: the node that carries it out, the observations it
\* depends on, and what it does to the owner of a virtual address.
ValidateExecutionStage(stage, participants) ==
  /\ stage.id # "" /\ stage.executor \in participants
  /\ \A p \in stage.preconditions :
       p.kind = "vip_owner" /\ p.node \in participants /\ p.observed
  /\ stage.mutation = "vip_owner" => \E p \in stage.preconditions : p.node = stage.executor
  /\ stage.barrier \in {"", "agent_reconnect"}

\* A run on one node needs no stages in its plan: it has one of its own.
ExecutionStagesValid(steps, participants) ==
  \/ Cardinality(participants) = 1
  \/ /\ steps # {}
     /\ \A s \in steps : ValidateExecutionStage(s, participants)
     /\ \A s, t \in steps : s.id = t.id => s.at = t.at

\* How far planning gets: a phase fails or is cut off, finds that the operation
\* cannot be done, or the plan is ready.  What a plan that is not ready found
\* out is left out: nobody looks at it.
ExecutePlanning(body) ==
  [state |-> CASE body.ends = "ready" -> "awaiting_confirmation"
               [] body.ends = "cut_off" -> "interrupted"
               [] OTHER -> "blocked",
   error |-> body.ends \in {"failed", "cut_off"},
   block |-> body.ends \in {"failed", "not_applicable", "not_passed"},
   forward |-> ~body.setBack,
   discovery |-> IF body.ends = "ready" THEN {body.discovery} ELSE {},
   precheck |-> IF body.ends = "ready" THEN {body.precheck} ELSE {},
   plan |-> IF body.ends = "ready" THEN {body.plan} ELSE {}]

PlanningSubmission(result) ==
  [phase |-> IF result.state = "interrupted" THEN "failed" ELSE "succeeded", result |-> result]

NoPlan(state, error, block) ==
  [state |-> state, error |-> error, block |-> block, forward |-> TRUE,
   discovery |-> {}, precheck |-> {}, plan |-> {}]
\* No definition, another version of it, secrets that cannot be delivered.
UnavailablePlanning == PlanningSubmission(NoPlan("blocked", TRUE, TRUE))
InterruptedPlanning == PlanningSubmission(NoPlan("interrupted", TRUE, FALSE))
CanceledPlanning ==
  [phase |-> "canceled", result |-> NoPlan("canceled_before_apply", FALSE, FALSE)]

\* An artifact's payload is never empty once it was encoded: nil becomes null.
ValidOperationArtifact(artifact) == artifact.versioned

ValidatePlanningEvidence(result) ==
  /\ \E d \in result.discovery : ValidOperationArtifact(d)
  /\ \E p \in result.precheck : ValidOperationArtifact(p)
  /\ \E p \in result.plan : p.versioned /\ ValidOperationArtifact(p.execution)

ValidateOperationPlanningResult(submission) ==
  LET result == submission.result IN
  /\ result.forward
  /\ \/ /\ submission.phase = "succeeded" /\ result.state = "awaiting_confirmation"
        /\ ~result.error /\ ValidatePlanningEvidence(result)
     \/ submission.phase = "succeeded" /\ result.state = "blocked" /\ result.block
     \/ submission.phase = "failed" /\ result.state = "interrupted" /\ result.error
     \/ submission.phase = "canceled" /\ result.state = "canceled_before_apply"

\* The plan is frozen with its stages in the transaction that stores the result.
PlanningAccepted(submission, participants) ==
  /\ ValidateOperationPlanningResult(submission)
  /\ \A p \in submission.result.plan : ExecutionStagesValid(p.steps, participants)

-----------------------------------------------------------------------------
(* Bounded actions.                                                        *)

Action == {"create_restore_point", "apply", "verify", "rollback", "verify_rollback"}

\* What Apply or Rollback leaves behind: which mutation it names, if any, and
\* whether it hands over to a reboot: "pending", "booted", or "malformed".
MutationEvidence == [mutation : {"", "named", "other"}, checkpoint : BOOLEAN, versioned : BOOLEAN,
                     payload : BOOLEAN, restored : BOOLEAN,
                     reconnect : {"none", "pending", "booted", "malformed"}]

ValidateMutationState(state, required) ==
  state = "named" \/ (state = "" /\ ~required)

ValidateOperationMutationEvidence(r, phase) ==
  /\ \A e \in r.apply :
       /\ ValidateMutationState(e.mutation, e.reconnect # "none")
       /\ e.reconnect # "none" =>
            /\ r.action = "apply" /\ e.reconnect # "malformed"
            /\ r.rollback = {} /\ r.restore = "none" /\ r.verification = "none"
  /\ \A e \in r.rollback :
       /\ ValidateMutationState(e.mutation, phase = "failed" \/ e.reconnect # "none")
       /\ ~(phase = "failed" /\ e.restored)
       /\ e.reconnect # "none" =>
            /\ r.action = "rollback" /\ e.reconnect # "malformed"
            /\ r.apply = {} /\ r.restore = "none" /\ r.verification = "none"

Output(contract, error) ==
  [of |-> contract, action |-> contract.action, restore |-> "none", apply |-> {}, rollback |-> {},
   verification |-> "none", error |-> error]

\* Evidence of an action that failed is kept when something can be read in it.
Meaningful(e) == e.checkpoint /\ e.versioned /\ e.payload

\* "body" says whether the action is admitted (contract, capability, authority),
\* which error it returns, with what evidence, and whether its restore point or
\* its verification is sound.
Execute(contract, body) ==
  LET failed == body.error # "none"
      kept == IF failed /\ ~Meaningful(body.evidence) THEN {} ELSE {body.evidence}
      out == Output(contract, body.error)
  IN IF ~body.admitted THEN Output(contract, "said")
     ELSE IF contract.action = "apply" THEN [out EXCEPT !.apply = kept]
     ELSE IF contract.action = "rollback" THEN [out EXCEPT !.rollback = kept]
     ELSE IF failed THEN out
     ELSE IF contract.action = "create_restore_point"
     THEN IF body.sound THEN [out EXCEPT !.restore = "created"] ELSE Output(contract, "said")
     ELSE IF body.sound THEN [out EXCEPT !.verification = "passed"]
     ELSE [Output(contract, "said") EXCEPT !.verification = "failed"]

ReconnectHandoff(r) ==
  CASE r.action = "apply" -> {e \in r.apply : e.reconnect # "none"}
    [] r.action = "rollback" -> {e \in r.rollback : e.reconnect # "none"}
    [] OTHER -> {}
HandoffRefused(r) ==
  CASE r.action = "apply" -> ReconnectHandoff(r) # {} /\ r.rollback # {}
    [] r.action = "rollback" -> ReconnectHandoff(r) # {} /\ r.apply # {}
    [] OTHER -> \E e \in r.apply \union r.rollback : e.reconnect # "none"

Refusal(contract) == [phase |-> "failed", result |-> Output(contract, "said")]
CanceledAction(contract) == [phase |-> "canceled", result |-> Output(contract, "said")]

FailReconnect(r) ==
  [phase |-> "failed",
   result |-> [[r EXCEPT !.rollback = {[e EXCEPT !.restored = FALSE] : e \in @}]
                 EXCEPT !.error = "said"]]

\* The host reboots and comes back with another boot identity.
Booted(evidence) == {[e EXCEPT !.reconnect = "booted"] : e \in evidence}
Reconnected(r) ==
  [phase |-> "succeeded",
   result |-> IF r.action = "apply" THEN [r EXCEPT !.apply = Booted(@)]
              ELSE [r EXCEPT !.rollback = Booted(@)]]

\* "host" says whether the host is the one that was to reboot, and did.
CacheReconnectAndReboot(contract, r, host) ==
  IF \E e \in ReconnectHandoff(r) : e.reconnect # "pending" THEN Refusal(contract)
  ELSE IF host = "reboots" THEN Reconnected(r) ELSE FailReconnect(r)

ExecuteOperationAction(contract, body) ==
  LET r == Execute(contract, body)
      phase == IF r.error = "none" THEN "succeeded" ELSE "failed"
  IN IF ~ValidateOperationMutationEvidence(r, phase) THEN Refusal(contract)
     ELSE IF phase = "failed" \/ (ReconnectHandoff(r) = {} /\ ~HandoffRefused(r))
     THEN [phase |-> phase, result |-> r]
     ELSE IF HandoffRefused(r) THEN Refusal(contract)
     ELSE CacheReconnectAndReboot(contract, r, body.host)

\* What the Agent's journal takes as a completed entry.
ValidateJournalEntry(submission) ==
  LET r == submission.result IN
  /\ ValidateOperationMutationEvidence(r, submission.phase)
  /\ ~HandoffRefused(r)
  /\ submission.phase = "succeeded" =>
       \A e \in ReconnectHandoff(r) : e.reconnect = "booted"

\* The evidence of a failure, once it was encoded.
ValidateFailedEvidence(e) == e.checkpoint /\ e.versioned

Outputs(r) ==
  {o \in {"restore_point", "apply", "rollback", "verification"} :
     /\ o = "restore_point" => r.restore = "created"
     /\ o = "apply" => r.apply # {}
     /\ o = "rollback" => r.rollback # {}
     /\ o = "verification" => r.verification # "none"}

ValidateFailedShape(r) ==
  /\ ValidateFailure(r.error)
  /\ CASE r.action \in {"verify", "verify_rollback"} ->
            r.restore = "none" /\ r.apply = {} /\ r.rollback = {} /\ r.verification # "passed"
       [] r.action = "apply" ->
            /\ r.restore = "none" /\ r.rollback = {} /\ r.verification = "none"
            /\ \A e \in r.apply : ValidateFailedEvidence(e)
       [] r.action = "rollback" ->
            /\ r.restore = "none" /\ r.apply = {} /\ r.verification = "none"
            /\ \A e \in r.rollback : ValidateFailedEvidence(e)
       [] r.action = "create_restore_point" -> Outputs(r) = {}

ValidateSucceededShape(r) ==
  /\ r.error = "none" /\ \E o \in Outputs(r) : Outputs(r) = {o}
  /\ \A e \in r.apply \union r.rollback : e.reconnect # "pending"
  /\ CASE r.action = "create_restore_point" -> r.restore = "created"
       [] r.action = "apply" -> r.apply # {}
       [] r.action = "rollback" -> r.rollback # {}
       [] r.action \in {"verify", "verify_rollback"} -> r.verification = "passed"

ValidateOperationExecutionResult(submission, contract) ==
  LET r == submission.result IN
  /\ r.of = contract /\ r.action = contract.action
  /\ ValidateOperationMutationEvidence(r, submission.phase)
  /\ submission.phase \in {"succeeded", "failed", "canceled"}
  /\ submission.phase = "succeeded" => ValidateSucceededShape(r)
  /\ submission.phase = "failed" => ValidateFailedShape(r)
  /\ submission.phase = "canceled" => ValidateFailure(r.error) /\ Outputs(r) = {}
================================================================================
