---------------------------- MODULE MCTaskProtocol ----------------------------
(* Instances of TaskProtocol for TLC, and what its submissions are worth to *)
(* the Server, on small inputs.                                             *)
EXTENDS TaskProtocol

Results == INSTANCE TaskResults

\* A check, a planning task and a bounded action, in this order.
Mixed == [t \in Task |-> CASE t = 1 -> "check" [] t = 2 -> "planning" [] OTHER -> "execution"]

-----------------------------------------------------------------------------
Item ==
  [at : {1}, id : {"a", "b"}, text : {"x", "y"}, identified : {TRUE},
   status : Results!ItemStatus \union {""}, applicable : BOOLEAN,
   compliant : {"none", "yes", "no"}, error : Results!Text, review : {"none", "said"}]
Contract(plugin) == [plugin |-> plugin, checks |-> {Results!Definition("a", "x")}]
Check ==
  [supported : BOOLEAN, detection : Results!Text, applicable : BOOLEAN, error : Results!Text,
   setBack : BOOLEAN, items : {{}} \union {{i} : i \in Item}]

\* A check's result is taken, and taken again, unless the clock was set back;
\* it reports success only if the one selected check has a sound item.
ASSUME ChecksAreTaken ==
  \A plugin \in {"p", "q"}, body \in Check :
    LET contract == Contract(plugin)
        found == Results!ExecuteTaskCheck(Contract("p"), contract, body)
        submission == Results!CheckSubmission(found)
    IN  /\ Results!ValidateTaskResult(submission, contract, {}) <=>
             ~(body.setBack /\ plugin = "p")
        /\ ~body.setBack => Results!ValidateTaskResult(submission, contract, {found})
        /\ submission.phase = "succeeded" =>
             \E i \in found.items : Results!ValidateItem(i) /\ i.id = "a"

Body ==
  [admitted : BOOLEAN, error : {"none", "said"}, sound : BOOLEAN, evidence : Results!MutationEvidence,
   host : {"reboots", "stays"}]

\* A bounded action's result is taken by the journal and by the Server unless
\* it is the failure of a reboot whose evidence cannot be kept.
ASSUME ActionsAreTaken ==
  \A action \in Results!Action, body \in Body :
    LET contract == [action |-> action]
        submission == Results!ExecuteOperationAction(contract, body)
        e == body.evidence
    IN  /\ Results!ValidateJournalEntry(submission)
        /\ Results!ValidateOperationExecutionResult(submission, contract) <=>
             ~(/\ submission.phase = "failed" /\ body.admitted /\ body.error = "none"
               /\ action \in {"apply", "rollback"} /\ e.mutation = "named"
               /\ e.reconnect = "pending" /\ ~(e.checkpoint /\ e.versioned))
=============================================================================
