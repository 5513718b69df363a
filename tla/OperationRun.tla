----------------------------- MODULE OperationRun -----------------------------
(***************************************************************************)
(* The Server's side of an operation run: the durable run record and its   *)
(* journal, the one bounded task it is bound to, the lease on the targets, *)
(* the request handlers that move it (Confirm, Cancel, the continuation    *)
(* after every submitted result) and the restart of the Server.            *)
(*                                                                         *)
(* Each SQLite transaction is one step. A handler that reads, decides and  *)
(* then writes is several steps, and other handlers run between them.      *)
(***************************************************************************)
EXTENDS OperationState

CONSTANTS
  Run,          \* operation runs
  Resource,     \* keys of lock resources
  Targets,      \* the frozen target keys of each run
  Barriers,     \* stages whose executor reconnects after Apply and Rollback
  Handler,      \* continuation handlers that may run at the same time
  NoRun,
  MaxCrashes,   \* bound: Server crashes
  MaxAborts,    \* bound: requests cut off between two of their steps
  MaxRenewalFailures \* bound: renewals of a supervised lease that fail

ASSUME TargetsAssumption == Targets \in [Run -> (SUBSET Resource) \ {{}}]
ASSUME NoRunAssumption == NoRun \notin Run
ASSUME BarriersAssumption == Barriers \subseteq Stage
ASSUME BoundsAssumption == MaxCrashes \in Nat /\ MaxAborts \in Nat /\ MaxRenewalFailures \in Nat

VARIABLES
  state,     \* state[r]: operation_runs.state
  mark,      \* mark[r]: operation_runs.checkpoint
  bound,     \* bound[r]: operation_runs.task_id
  recovery,  \* recovery[r]: code of operation_runs.recovery_json
  tail,      \* tail[r]: last entry of operation_journal
  fact,      \* fact[r][t]: execution evidence the action left
  phase,     \* phase[r][t]: tasks.phase
  lease,     \* runs that own a live row of operation_leases
  sup,       \* sup[r]: the supervisor's entry for r (in memory)
  mutating,  \* <<r, t>> whose Apply or Rollback is running on its node
  mutated,   \* <<r, t>> whose Apply or Rollback ever started
  seen,      \* <<r, t>> whose executor was heard of after t ended
  mu,        \* holder of confirmationMu
  h,         \* h[w]: the continuation handlers
  server,    \* "up", "down", or "resuming" before it listens
  todo,      \* runs ResumeOperationRuns has yet to visit
  owed,      \* runs whose continuation some request has yet to see through
  budget     \* faults that may still happen

run == <<state, mark, bound, recovery, tail>>
work == <<fact, phase>>
agents == <<mutating, mutated, seen>>
locks == <<lease, sup>>
proc == <<mu, h, server, todo, owed>>
vars == <<state, mark, bound, recovery, tail, fact, phase, lease, sup,
          mutating, mutated, seen, mu, h, server, todo, owed, budget>>

-----------------------------------------------------------------------------
(* Types.                                                                  *)

NoEntry == [state |-> "none", mark |-> Mark("planning_queued")]
Entry == [state : State, mark : Checkpoint] \union {NoEntry}

\* What a handler decided from the run it read: to queue a task, to advance
\* the run, to contain a cancellation by a rollback, or to settle the lease.
Decision ==
  [kind : {"nothing", "queue", "advance", "contain", "settle"},
   done : Task, next : Task, state : State, mark : Checkpoint,
   recovery : Recovery, ensure : BOOLEAN, release : BOOLEAN]

Nothing ==
  [kind |-> "nothing", done |-> Planning, next |-> Planning, state |-> "draft",
   mark |-> Mark("planning_queued"), recovery |-> "none",
   ensure |-> FALSE, release |-> FALSE]

HandlerState ==
  [pc : {"idle", "decided", "leased", "release"}, run : Run \union {NoRun}, d : Decision]
Idle == [pc |-> "idle", run |-> NoRun, d |-> Nothing]

Free == [op |-> "none", run |-> NoRun]
Mutex == [op : {"none", "confirm", "leased", "reconcile", "hold", "giveback"},
          run : Run \union {NoRun}]

TypeOK ==
  /\ state \in [Run -> State]
  /\ mark \in [Run -> Checkpoint]
  /\ bound \in [Run -> Task]
  /\ recovery \in [Run -> Recovery]
  /\ tail \in [Run -> Entry]
  /\ fact \in [Run -> [ActionTask -> {"none", "passed", "failed"}]]
  /\ phase \in [Run -> [Task -> Phase]]
  /\ lease \subseteq Run
  /\ sup \in [Run -> {"none", "active", "failed"}]
  /\ mutating \subseteq Run \X ActionTask
  /\ mutated \subseteq Run \X ActionTask
  /\ seen \subseteq Run \X ActionTask
  /\ mu \in Mutex
  /\ h \in [Handler -> HandlerState]
  /\ server \in {"up", "down", "resuming"}
  /\ todo \subseteq Run
  /\ owed \subseteq Run
  /\ budget \in [crash : 0 .. MaxCrashes, abort : 0 .. MaxAborts, renewal : 0 .. MaxRenewalFailures]

\* A run is created with its pending planning task (CreateOperationRun).
Init ==
  /\ state = [r \in Run |-> "draft"]
  /\ mark = [r \in Run |-> Mark("planning_queued")]
  /\ bound = [r \in Run |-> Planning]
  /\ recovery = [r \in Run |-> "none"]
  /\ tail = [r \in Run |-> NoEntry]
  /\ fact = [r \in Run |-> [t \in ActionTask |-> "none"]]
  /\ phase = [r \in Run |-> [t \in Task |-> IF t = Planning THEN "pending" ELSE "absent"]]
  /\ lease = {}
  /\ sup = [r \in Run |-> "none"]
  /\ mutating = {} /\ mutated = {} /\ seen = {}
  /\ mu = Free
  /\ h = [w \in Handler |-> Idle]
  /\ server = "up"
  /\ todo = {} /\ owed = {}
  /\ budget = [crash |-> MaxCrashes, abort |-> MaxAborts, renewal |-> MaxRenewalFailures]

-----------------------------------------------------------------------------
(* The lease, seen through the supervisor.                                 *)

Contends(r, q) == q # r /\ Targets[r] \cap Targets[q] # {}

\* A mistake the properties must catch: a lease is granted without looking at the
\* leases of other runs.
EnsureOK_NoContention(r) ==
  \/ sup[r] = "active" /\ r \in lease
  \/ sup[r] = "none"

\* ensureLease returns a lease: the supervised one, a stored one it resumes,
\* or a new one when no other run holds one of the targets.
EnsureOK(r) ==
  \/ sup[r] = "active" /\ r \in lease
  \/ sup[r] = "none" /\ (r \in lease \/ \A q \in lease : ~Contends(r, q))

EnsureLease(r) ==
  /\ EnsureOK(r)
  /\ lease' = lease \union {r}
  /\ sup' = [sup EXCEPT ![r] = "active"]

\* resumeAndReleaseLeaseIfPresent; a failed supervisor entry refuses it.
ResumeAndRelease(r) ==
  /\ sup[r] # "failed"
  /\ lease' = lease \ {r}
  /\ sup' = [sup EXCEPT ![r] = "none"]

\* A mistake the properties must catch: cancellation releases the lease at once.
AwaitsCanceledTask_Never(r) == FALSE

\* A canceled run keeps its lease, supervised, while the restore-point task
\* it was canceled under has not come to an end.
AwaitsCanceledTask(r) ==
  /\ state[r] = "canceled_before_apply"
  /\ bound[r] # Planning
  /\ phase[r][bound[r]] = "cancel_requested"

-----------------------------------------------------------------------------
(* The run record and its journal.                                         *)

\* A mistake the properties must catch: the transition table is not enforced.
CanAdvance_Unchecked(r, s) == TRUE

\* A transition storage accepts: allowed from the run's state and from the
\* journal's tail.
CanAdvance(r, s) ==
  /\ s = state[r] \/ CanTransition(state[r], s)
  /\ tail[r] = NoEntry \/ s = tail[r].state \/ CanTransition(tail[r].state, s)

\* A mistake the properties must catch: the run is updated without its journal.
Record_NoJournal(r, s, m) ==
  /\ state' = [state EXCEPT ![r] = s]
  /\ mark' = [mark EXCEPT ![r] = m]
  /\ tail' = tail

Record(r, s, m) ==
  /\ state' = [state EXCEPT ![r] = s]
  /\ mark' = [mark EXCEPT ![r] = m]
  /\ tail' = [tail EXCEPT ![r] = [state |-> s, mark |-> m]]

\* A mistake the properties must catch: storage takes a decision about a task the run
\* has moved on from, and a task that exists.
CanQueue_Unbound(r, done, next) == CanAdvance(r, operationActionState(next))

\* ContinueOperationRun of the store: the run must still be bound to the task
\* the decision was made about, and the next task must be new.
CanQueue(r, done, next) ==
  /\ bound[r] = done
  /\ CanAdvance(r, operationActionState(next))
  /\ phase[r][next] = "absent"

QueueTask(r, next) ==
  /\ Record(r, operationActionState(next), QueuedMark(next))
  /\ bound' = [bound EXCEPT ![r] = next]
  /\ phase' = [phase EXCEPT ![r][next] = "pending"]

-----------------------------------------------------------------------------
(* The agents: claiming, acknowledging and completing tasks.               *)

ClaimTask(r, t) ==
  /\ server = "up"
  /\ phase[r][t] = "pending"
  /\ phase' = [phase EXCEPT ![r][t] = "claimed"]
  /\ UNCHANGED <<run, fact, agents, locks, proc, budget>>

\* Acknowledging a planning task also moves its run to discovering.
AcknowledgeTask(r, t) ==
  /\ server = "up"
  /\ phase[r][t] = "claimed"
  /\ phase' = [phase EXCEPT ![r][t] = "running"]
  /\ IF t = Planning
     THEN /\ state' = [state EXCEPT ![r] = "discovering"]
          /\ mark' = [mark EXCEPT ![r] = Mark("discovering")]
     ELSE UNCHANGED <<state, mark>>
  /\ UNCHANGED <<bound, recovery, tail, fact, agents, locks, proc, budget>>

\* What planning reports: a plan, a reason it cannot be made, a failure; and
\* nothing but a cancellation once one was requested.
PlanningReport(r) ==
  {x \in {[phase |-> "succeeded", state |-> "awaiting_confirmation", mark |-> "plan_ready"],
         [phase |-> "succeeded", state |-> "blocked", mark |-> "planning_blocked"],
         [phase |-> "failed", state |-> "interrupted", mark |-> "agent_execution_interrupted"],
         [phase |-> "canceled", state |-> "canceled_before_apply", mark |-> "task_canceled"]} :
     x.phase = "canceled" <=> phase[r][Planning] = "cancel_requested"}

\* The result of planning replaces the run's state without a journal entry.
CompletePlanning(r, x) ==
  /\ server = "up"
  /\ phase[r][Planning] \in {"running", "cancel_requested"}
  /\ phase' = [phase EXCEPT ![r][Planning] = x.phase]
  /\ state' = [state EXCEPT ![r] = x.state]
  /\ mark' = [mark EXCEPT ![r] = Mark(x.mark)]
  /\ UNCHANGED <<bound, recovery, tail, fact, agents, locks, proc, budget>>

\* ValidateOperationLease, then Apply or Rollback starts on the node. The
\* agent asks the supervisor, and only for a running task.
BeginMutation(r, t) ==
  /\ server = "up"
  /\ ActionOf(t) \in Destructive
  /\ phase[r][t] = "running"
  /\ <<r, t>> \notin mutated
  /\ sup[r] = "active" /\ r \in lease
  /\ mutating' = mutating \union {<<r, t>>}
  /\ mutated' = mutated \union {<<r, t>>}
  /\ UNCHANGED <<run, work, seen, locks, proc, budget>>

\* Apply or Rollback returns, or the agent process dies in the middle of it.
EndMutation(r, t) ==
  /\ <<r, t>> \in mutating
  /\ mutating' = mutating \ {<<r, t>>}
  /\ UNCHANGED <<run, work, mutated, seen, locks, proc, budget>>

\* What the agent may report of a task it is not executing any more: its
\* terminal phase and the evidence that goes with it.
Report(r, t) ==
  LET mayHaveRun == ActionOf(t) \in Destructive => <<r, t>> \in mutated
  IN  {x \in {[phase |-> "succeeded", fact |-> "passed"],
              [phase |-> "failed",    fact |-> "failed"],
              [phase |-> "failed",    fact |-> "none"],
              [phase |-> "canceled",  fact |-> "none"]} :
        /\ x.fact # "none" => mayHaveRun
        /\ x.fact = "failed" => ActionOf(t) # "create_restore_point"
        /\ x.phase = "canceled" => phase[r][t] = "cancel_requested"}

\* The journal mark a reported restore point leaves on a run canceled under it.
CanceledMark(p) ==
  CASE p = "succeeded" -> Mark("canceled_before_apply_restore_point_retained")
    [] p = "failed"    -> Mark("canceled_before_apply_failure_reconciled")
    [] OTHER           -> Mark("cancellation_converged")

\* CompleteTask of an execution task: the result, the task's phase, the
\* evidence, the run's checkpoint and the journal entry in one transaction.
\* The agent submits the same result again until the request succeeds, so a
\* continuation of the run is owed from here on.
CompleteTask(r, t, x) ==
  /\ server = "up"
  /\ phase[r][t] \in {"running", "cancel_requested"}
  /\ <<r, t>> \notin mutating
  /\ x \in Report(r, t)
  /\ bound[r] = t
  /\ tail[r] = [state |-> state[r], mark |-> mark[r]]
  /\ fact[r][t] = "none"
  /\ IF state[r] = "canceled_before_apply"
     THEN /\ phase[r][t] = "cancel_requested"
          /\ ActionOf(t) = "create_restore_point"
          /\ Record(r, state[r], CanceledMark(x.phase))
     ELSE /\ state[r] = operationActionState(t)
          /\ Record(r, state[r], stagedActionResultCheckpoint(t, x.phase))
  /\ fact' = [fact EXCEPT ![r][t] = x.fact]
  /\ phase' = [phase EXCEPT ![r][t] = x.phase]
  /\ owed' = owed \union {r}
  /\ UNCHANGED <<bound, recovery, agents, locks, mu, h, server, todo, budget>>

\* A heartbeat of the executor after its Apply or Rollback ended.
ObserveExecutor(r, t) ==
  /\ server = "up"
  /\ StageOf(t) \in Barriers /\ ActionOf(t) \in Destructive
  /\ phase[r][t] = "succeeded"
  /\ <<r, t>> \notin seen
  /\ seen' = seen \union {<<r, t>>}
  /\ UNCHANGED <<run, work, mutating, mutated, locks, proc, budget>>

\* The response to a submitted result is lost: the agent submits it again.
LoseResponse(r) ==
  /\ server = "up" /\ budget.abort > 0
  /\ r \notin owed
  /\ bound[r] # Planning /\ phase[r][bound[r]] \in TerminalPhase
  /\ owed' = owed \union {r}
  /\ budget' = [budget EXCEPT !.abort = @ - 1]
  /\ UNCHANGED <<run, work, agents, locks, mu, h, server, todo>>

-----------------------------------------------------------------------------
(* The decision of continueOperationRun, from the run it read.             *)

Queue(done, next, ensure) ==
  [Nothing EXCEPT !.kind = "queue", !.done = done, !.next = next, !.ensure = ensure]

\* A mistake the properties must catch: a run ends and keeps its lease.
Advance_NoRelease(s, m, rec, release) ==
  [Nothing EXCEPT !.kind = "advance", !.state = s, !.mark = m, !.recovery = rec]

Advance(s, m, rec, release) ==
  [Nothing EXCEPT !.kind = "advance", !.state = s, !.mark = m,
                  !.recovery = rec, !.release = release]

\* Earlier stages whose Apply left evidence that no rollback verification undid.
AppliedBefore(r, s) ==
  {i \in Stage : /\ i < s
                 /\ fact[r][<<i, "apply">>] # "none"
                 /\ fact[r][<<i, "verify_rollback">>] = "none"}

previousAppliedStage(r, s) ==
  {i \in AppliedBefore(r, s) : \A j \in AppliedBefore(r, s) : j <= i}

\* A mistake the properties must catch: rollback stops at the stage that failed.
RollBackPrevious_Never(r, t, d) == {d}

\* Roll the previous applied stage back, or do d when there is none.
RollBackPrevious(r, t, d) ==
  IF AppliedBefore(r, StageOf(t)) = {} THEN {d}
  ELSE {Queue(t, <<i, "rollback">>, FALSE) : i \in previousAppliedStage(r, StageOf(t))}

\* A mistake the properties must catch: a failed verification rolls back from the first
\* stage on.
AfterFailure_FirstStage(r, t) ==
  IF ActionOf(t) = "verify" THEN {Queue(t, <<0, "rollback">>, TRUE)}
  ELSE {Advance("rollback_failed", Mark("rollback_failed"), "rollback_failed", TRUE)}

AfterFailure(r, t) ==
  LET s == StageOf(t)
  IN CASE ActionOf(t) = "create_restore_point" ->
            RollBackPrevious(r, t,
              Advance("blocked", Mark("restore_point_failed"), "restore_point_failed", TRUE))
       [] ActionOf(t) = "apply" ->
            {Advance("interrupted", Mark("apply_outcome_requires_reconcile"),
                     "apply_outcome_uncertain", FALSE)}
       [] ActionOf(t) = "verify" ->
            IF fact[r][<<s, "create_restore_point">>] # "none" /\ fact[r][<<s, "apply">>] # "none"
            THEN {Queue(t, <<s, "rollback">>, TRUE)}
            ELSE {Advance("interrupted", Mark("verify_failed_without_rollback_proof"),
                          "rollback_prerequisites_missing", FALSE)}
       [] OTHER ->
            {Advance("rollback_failed", Mark("rollback_failed"), "rollback_failed", TRUE)}

AfterSuccess(r, t) ==
  LET s == StageOf(t)
  IN CASE ActionOf(t) = "create_restore_point" -> {Queue(t, <<s, "apply">>, FALSE)}
       [] ActionOf(t) = "apply" ->
            IF s \in Barriers
            THEN {Advance("running", ReconnectMark(<<s, "apply">>), "none", FALSE)}
            ELSE {Queue(t, <<s, "verify">>, FALSE)}
       [] ActionOf(t) = "verify" ->
            IF s + 1 < NStages
            THEN {Queue(t, <<s + 1, "create_restore_point">>, FALSE)}
            ELSE {Advance("succeeded", Mark("verified"), "none", TRUE)}
       [] ActionOf(t) = "rollback" ->
            IF s \in Barriers
            THEN {Advance("rolling_back", ReconnectMark(<<s, "rollback">>), "none", FALSE)}
            ELSE {Queue(t, <<s, "verify_rollback">>, FALSE)}
       [] OTHER ->
            RollBackPrevious(r, t, Advance("rolled_back", Mark("rollback_verified"), "none", TRUE))

\* A barrier opens once the executor was heard of after the action ended.
AfterBarrier(r, t) ==
  LET forward == mark[r] # ReconnectMark(<<StageOf(t), "rollback">>)
      ended == <<StageOf(t), IF forward THEN "apply" ELSE "rollback">>
      next == <<StageOf(t), IF forward THEN "verify" ELSE "verify_rollback">>
  IN IF <<r, ended>> \in seen THEN {Queue(t, next, FALSE)} ELSE {}

\* A cancellation requested while a later stage prepared: roll the applied
\* stages back, or leave the run for reconciliation.
Contain(r, t) ==
  IF AppliedBefore(r, StageOf(t)) = {}
  THEN {Advance("interrupted", Mark("cancellation_requires_reconcile"),
                "cancellation_requires_reconcile", FALSE)}
  ELSE {[Queue(t, <<i, "rollback">>, TRUE) EXCEPT !.kind = "contain"] :
          i \in previousAppliedStage(r, StageOf(t))}

Settle(r) == [Nothing EXCEPT !.kind = "settle", !.ensure = AwaitsCanceledTask(r)]

\* The handler does nothing with a run whose bound task has not come to an
\* end, or whose checkpoint is not about the end of that task.
Decisions(r) ==
  LET t == bound[r]
      waits == mark[r] \in {ReconnectMark(<<StageOf(t), "apply">>),
                            ReconnectMark(<<StageOf(t), "rollback">>)}
  IN IF state[r] \in Terminal THEN {Settle(r)}
     ELSE IF t = Planning \/ phase[r][t] \notin TerminalPhase THEN {}
     ELSE IF mark[r] # stagedActionResultCheckpoint(t, phase[r][t]) /\ ~waits THEN {}
     ELSE IF recovery[r] = "cancellation_requested" /\ ActionOf(t) = "create_restore_point"
          THEN Contain(r, t)
     ELSE IF waits THEN AfterBarrier(r, t)
     ELSE IF phase[r][t] = "succeeded" THEN AfterSuccess(r, t) ELSE AfterFailure(r, t)

\* queueAction puts the evidence an action needs in its contract.
EvidenceFor(r, t) ==
  LET has(a) == fact[r][<<StageOf(t), a>>] # "none"
  IN CASE ActionOf(t) = "apply"    -> has("create_restore_point")
       [] ActionOf(t) = "verify"   -> has("apply")
       [] ActionOf(t) = "rollback" -> has("create_restore_point") /\ has("apply")
       [] ActionOf(t) = "verify_rollback" -> has("create_restore_point") /\ has("rollback")
       [] OTHER -> TRUE

-----------------------------------------------------------------------------
(* continueOperationRun: read and decide, then write. A request runs it     *)
(* after a result is stored, and ResumeOperationRuns for each run in turn.  *)

ExitServer ==
  /\ server' = "down"
  /\ h' = [w \in Handler |-> Idle]
  /\ mu' = Free
  /\ todo' = {}
  /\ sup' = [r \in Run |-> "none"]

Resumable(r) ==
  state[r] \in Terminal \union
    {"creating_restore_point", "running", "verifying", "rolling_back"}

CanContinue(w, r) ==
  /\ h[w] = Idle
  /\ \/ server = "up" /\ r \in owed
     \/ /\ server = "resuming" /\ r \in todo /\ Resumable(r)
        /\ \A v \in Handler : h[v] = Idle

Served(r) ==
  /\ IF server = "up" THEN owed' = owed \ {r} /\ todo' = todo
                      ELSE todo' = todo \ {r} /\ owed' = owed
  /\ UNCHANGED <<mu, server>>

\* The handler returns without an error.
Finish(w) == h' = [h EXCEPT ![w] = Idle] /\ Served(h[w].run)

\* It returns one: the request is answered with it and repeated, but an error
\* of ResumeOperationRuns ends the process.
Fail(w) ==
  /\ lease' = lease
  /\ IF server = "up"
     THEN /\ h' = [h EXCEPT ![w] = Idle]
          /\ owed' = owed \union {h[w].run}
          /\ UNCHANGED <<mu, server, todo, sup>>
     ELSE ExitServer /\ owed' = owed
  /\ UNCHANGED <<run, work, agents, budget>>

Decide(w, r) ==
  /\ CanContinue(w, r)
  /\ \E d \in Decisions(r) :
       h' = [h EXCEPT ![w] = [pc |-> "decided", run |-> r, d |-> d]]
  /\ UNCHANGED <<run, work, agents, locks, mu, server, todo, owed, budget>>

DecideNothing(w, r) ==
  /\ CanContinue(w, r)
  /\ Decisions(r) = {}
  /\ h' = h /\ Served(r)
  /\ UNCHANGED <<run, work, agents, locks, budget>>

\* A contained cancellation that cannot go on leaves the run interrupted.
FallBack(w) ==
  h' = [h EXCEPT ![w].pc = "decided",
                 ![w].d = Advance("interrupted", Mark("cancellation_requires_reconcile"),
                                  "cancellation_requires_reconcile", FALSE)]

NeedsLease(w) == h[w].pc = "decided" /\ h[w].d.kind \in {"queue", "contain"} /\ h[w].d.ensure

EnsureForContinuation(w) ==
  /\ NeedsLease(w)
  /\ EnsureLease(h[w].run)
  /\ h' = [h EXCEPT ![w].pc = "leased"]
  /\ UNCHANGED <<run, work, agents, mu, server, todo, owed, budget>>

EnsureRefused(w) ==
  /\ NeedsLease(w)
  /\ ~EnsureOK(h[w].run)
  /\ IF h[w].d.kind = "contain"
     THEN FallBack(w) /\ UNCHANGED <<run, work, agents, locks, mu, server, todo, owed, budget>>
     ELSE Fail(w)

Queueing(w) ==
  \/ h[w].pc = "leased"
  \/ h[w].pc = "decided" /\ h[w].d.kind = "queue" /\ ~h[w].d.ensure

QueueAccepted(w) ==
  /\ EvidenceFor(h[w].run, h[w].d.next)
  /\ CanQueue(h[w].run, h[w].d.done, h[w].d.next)

CommitQueue(w) ==
  /\ Queueing(w) /\ QueueAccepted(w)
  /\ QueueTask(h[w].run, h[w].d.next)
  /\ Finish(w)
  /\ UNCHANGED <<recovery, fact, agents, locks, budget>>

QueueRefused(w) ==
  /\ Queueing(w) /\ ~QueueAccepted(w)
  /\ IF h[w].d.kind = "contain"
     THEN FallBack(w) /\ UNCHANGED <<run, work, agents, locks, mu, server, todo, owed, budget>>
     ELSE Fail(w)

Advancing(w) == h[w].pc = "decided" /\ h[w].d.kind = "advance"

\* SaveOperationExecutionCheckpoint does not look at the task the run is bound to.
CommitAdvance(w) ==
  LET r == h[w].run
      d == h[w].d
  IN /\ Advancing(w)
     /\ CanAdvance(r, d.state)
     /\ Record(r, d.state, d.mark)
     /\ recovery' = IF d.recovery = "none" THEN recovery
                    ELSE [recovery EXCEPT ![r] = d.recovery]
     /\ IF d.release
        THEN h' = [h EXCEPT ![w].pc = "release"] /\ UNCHANGED <<mu, server, todo, owed>>
        ELSE Finish(w)
     /\ UNCHANGED <<bound, work, agents, locks, budget>>

AdvanceRefused(w) ==
  /\ Advancing(w)
  /\ ~CanAdvance(h[w].run, h[w].d.state)
  /\ Fail(w)

\* Release of the supervisor needs a lease it supervises.
ReleaseLease(w) ==
  /\ h[w].pc = "release"
  /\ sup[h[w].run] = "active"
  /\ lease' = lease \ {h[w].run}
  /\ sup' = [sup EXCEPT ![h[w].run] = "none"]
  /\ Finish(w)
  /\ UNCHANGED <<run, work, agents, budget>>

ReleaseRefused(w) ==
  /\ h[w].pc = "release"
  /\ sup[h[w].run] # "active"
  /\ Fail(w)

Settling(w) == h[w].pc = "decided" /\ h[w].d.kind = "settle"
CanSettle(r, hold) == IF hold THEN EnsureOK(r) ELSE sup[r] # "failed"

\* releaseLeaseIfBoundTaskConverged of a terminal run: whether to hold the
\* lease was read before it is held or released.
SettleLease(w) ==
  /\ Settling(w)
  /\ CanSettle(h[w].run, h[w].d.ensure)
  /\ IF h[w].d.ensure THEN EnsureLease(h[w].run) ELSE ResumeAndRelease(h[w].run)
  /\ Finish(w)
  /\ UNCHANGED <<run, work, agents, budget>>

SettleRefused(w) ==
  /\ Settling(w)
  /\ ~CanSettle(h[w].run, h[w].d.ensure)
  /\ Fail(w)

\* A mistake the properties must catch: the agent forgets a result whose submission failed.
Abort_Forgets(w) ==
  /\ server = "up" /\ h[w].pc # "idle"
  /\ budget.abort > 0
  /\ h' = [h EXCEPT ![w] = Idle]
  /\ owed' = owed \ {h[w].run}
  /\ budget' = [budget EXCEPT !.abort = @ - 1]
  /\ UNCHANGED <<run, work, agents, locks, mu, server, todo>>

\* A handler is cut off between two of its steps (its context is canceled); the
\* request is repeated.
Abort(w) ==
  /\ server = "up" /\ h[w].pc # "idle"
  /\ budget.abort > 0
  /\ h' = [h EXCEPT ![w] = Idle]
  /\ owed' = owed \union {h[w].run}
  /\ budget' = [budget EXCEPT !.abort = @ - 1]
  /\ UNCHANGED <<run, work, agents, locks, mu, server, todo>>

-----------------------------------------------------------------------------
(* Confirm, under confirmationMu.                                          *)

Holds(r, op) == mu = [op |-> op, run |-> r]
Enter(r, op) == mu' = [op |-> op, run |-> r]
Leave == mu' = Free
Confirmable == {"awaiting_confirmation", "queued", "acquiring_lock"}

ConfirmOperationRun(r) ==
  /\ server = "up" /\ mu = Free
  /\ state[r] \in Confirmable
  /\ Enter(r, "confirm")
  /\ UNCHANGED <<run, work, agents, locks, h, server, todo, owed, budget>>

ConfirmLease(r) ==
  /\ Holds(r, "confirm")
  /\ EnsureLease(r)
  /\ Enter(r, "leased")
  /\ UNCHANGED <<run, work, agents, h, server, todo, owed, budget>>

ConfirmRefused(r) ==
  /\ Holds(r, "confirm")
  /\ ~EnsureOK(r)
  /\ Leave
  /\ UNCHANGED <<run, work, agents, locks, h, server, todo, owed, budget>>

ConfirmAdvance(r) ==
  /\ Holds(r, "leased")
  /\ \/ state[r] = "awaiting_confirmation" /\ Record(r, "queued", Mark("confirmed_and_queued"))
     \/ state[r] = "queued" /\ Record(r, "acquiring_lock", Mark("lease_acquired"))
  /\ Enter(r, "confirm")
  /\ UNCHANGED <<bound, recovery, work, agents, locks, h, server, todo, owed, budget>>

FirstTask == <<0, "create_restore_point">>

ConfirmQueue(r) ==
  /\ Holds(r, "leased")
  /\ state[r] = "acquiring_lock"
  /\ CanQueue(r, bound[r], FirstTask)
  /\ QueueTask(r, FirstTask)
  /\ Leave
  /\ UNCHANGED <<recovery, fact, agents, locks, h, server, todo, owed, budget>>

-----------------------------------------------------------------------------
(* Cancel, under confirmationMu.                                           *)

operationRunHasUncontainedApply(r) == AppliedBefore(r, NStages) # {}
ContainmentCancellation(r) ==
  state[r] = "creating_restore_point" /\ operationRunHasUncontainedApply(r)

\* A mistake the properties must catch: a phase the task table does not know.
CancelTaskOf_Phase(r) ==
  phase' = [phase EXCEPT ![r][bound[r]] =
              IF @ = "pending" THEN "canceled_before_claim" ELSE "cancel_requested"]

CancelTaskOf(r) ==
  LET p == phase[r][bound[r]]
  IN phase' = [phase EXCEPT ![r][bound[r]] =
                 IF p = "pending" THEN "canceled"
                 ELSE IF p \in LivePhase THEN "cancel_requested" ELSE p]

JournalAllowsCancel(r) ==
  IF tail[r] = NoEntry THEN state[r] \notin RequiresJournal
  ELSE tail[r] = [state |-> state[r], mark |-> mark[r]]

\* The transaction of a cancellation before anything was applied; a run
\* without a journal gets no journal entry.
CancelBeforeApply(r) ==
  /\ server = "up" /\ mu = Free
  /\ ~ContainmentCancellation(r)
  /\ CanTransition(state[r], "canceled_before_apply")
  /\ JournalAllowsCancel(r)
  /\ CancelTaskOf(r)
  /\ state' = [state EXCEPT ![r] = "canceled_before_apply"]
  /\ mark' = [mark EXCEPT ![r] = Mark("canceled_before_apply")]
  /\ tail' = IF tail[r] = NoEntry THEN tail
             ELSE [tail EXCEPT ![r] = [state |-> "canceled_before_apply",
                                       mark |-> Mark("canceled_before_apply")]]
  /\ Enter(r, "reconcile")
  /\ UNCHANGED <<bound, recovery, fact, agents, locks, h, server, todo, owed, budget>>

CancelAgain(r) ==
  /\ server = "up" /\ mu = Free
  /\ state[r] = "canceled_before_apply"
  /\ Enter(r, "reconcile")
  /\ UNCHANGED <<run, work, agents, locks, h, server, todo, owed, budget>>

\* A cancellation that finds an earlier stage applied asks for containment and
\* continues the run.
CancelContained(r) ==
  LET t == bound[r]
      m == IF phase[r][t] = "pending"
           THEN stagedActionResultCheckpoint(t, "canceled") ELSE mark[r]
  IN /\ server = "up" /\ mu = Free
     /\ ContainmentCancellation(r)
     /\ JournalAllowsCancel(r)
     /\ CancelTaskOf(r)
     /\ IF recovery[r] = "cancellation_requested" THEN UNCHANGED <<state, mark, tail, recovery>>
        ELSE /\ Record(r, state[r], m)
             /\ recovery' = [recovery EXCEPT ![r] = "cancellation_requested"]
     /\ owed' = owed \union {r}
     /\ UNCHANGED <<bound, fact, agents, locks, mu, h, server, todo, budget>>

\* reconcileCanceledBeforeApplyLease reads the bound task ...
ReadCanceledTask(r) ==
  /\ Holds(r, "reconcile")
  /\ Enter(r, IF AwaitsCanceledTask(r) THEN "hold" ELSE "giveback")
  /\ UNCHANGED <<run, work, agents, locks, h, server, todo, owed, budget>>

\* ... and then holds the lease, or releases it.
ReconcileLease(r) ==
  /\ \/ Holds(r, "hold") /\ EnsureLease(r)
     \/ Holds(r, "giveback") /\ ResumeAndRelease(r)
  /\ Leave
  /\ UNCHANGED <<run, work, agents, h, server, todo, owed, budget>>

ReconcileRefused(r) ==
  /\ \/ Holds(r, "hold") /\ ~CanSettle(r, TRUE)
     \/ Holds(r, "giveback") /\ ~CanSettle(r, FALSE)
  /\ Leave
  /\ UNCHANGED <<run, work, agents, locks, h, server, todo, owed, budget>>

AbortMutex ==
  /\ mu # Free /\ budget.abort > 0
  /\ Leave
  /\ budget' = [budget EXCEPT !.abort = @ - 1]
  /\ UNCHANGED <<run, work, agents, locks, h, server, todo, owed>>

-----------------------------------------------------------------------------
(* The end of the process and the next one.                                *)

Crash ==
  /\ server # "down" /\ budget.crash > 0
  /\ ExitServer
  /\ budget' = [budget EXCEPT !.crash = @ - 1]
  /\ UNCHANGED <<run, work, agents, lease, owed>>

Start ==
  /\ server = "down"
  /\ server' = "resuming"
  /\ todo' = Run
  /\ UNCHANGED <<run, work, agents, locks, mu, h, owed, budget>>

Resuming(r) == server = "resuming" /\ r \in todo /\ \A w \in Handler : h[w] = Idle

\* A queued run gets its lease and advances one state, no further.
ResumeQueued(r) ==
  /\ Resuming(r) /\ state[r] = "queued"
  /\ EnsureLease(r)
  /\ Record(r, "acquiring_lock", Mark("lease_acquired"))
  /\ todo' = todo \ {r}
  /\ UNCHANGED <<bound, recovery, work, agents, mu, h, server, owed, budget>>

ResumeAcquiring(r) ==
  /\ Resuming(r) /\ state[r] = "acquiring_lock"
  /\ EnsureLease(r)
  /\ CanQueue(r, bound[r], FirstTask)
  /\ QueueTask(r, FirstTask)
  /\ todo' = todo \ {r}
  /\ UNCHANGED <<recovery, fact, agents, mu, h, server, owed, budget>>

ResumeRefused(r) ==
  /\ Resuming(r) /\ state[r] \in {"queued", "acquiring_lock"}
  /\ ~EnsureOK(r)
  /\ ExitServer
  /\ UNCHANGED <<run, work, agents, lease, owed, budget>>

\* An interrupted run is for reconciliation only.
ResumeSkip(r) ==
  /\ Resuming(r)
  /\ ~Resumable(r) /\ state[r] \notin {"queued", "acquiring_lock"}
  /\ todo' = todo \ {r}
  /\ UNCHANGED <<run, work, agents, locks, mu, h, server, owed, budget>>

Listen ==
  /\ server = "resuming" /\ todo = {}
  /\ server' = "up"
  /\ UNCHANGED <<run, work, agents, locks, mu, h, todo, owed, budget>>

\* A lease nobody renews runs out.
Expire(r) ==
  /\ r \in lease /\ sup[r] # "active"
  /\ lease' = lease \ {r}
  /\ UNCHANGED <<run, work, agents, sup, proc, budget>>

\* A renewal fails and the supervisor gives the lease up for lost.
RenewFail(r) ==
  /\ sup[r] = "active" /\ budget.renewal > 0
  /\ sup' = [sup EXCEPT ![r] = "failed"]
  /\ budget' = [budget EXCEPT !.renewal = @ - 1]
  /\ UNCHANGED <<run, work, agents, lease, proc>>

-----------------------------------------------------------------------------

AgentStep(r) ==
  \/ \E t \in Task : ClaimTask(r, t) \/ AcknowledgeTask(r, t)
  \/ \E x \in PlanningReport(r) : CompletePlanning(r, x)
  \/ \E t \in ActionTask :
       \/ BeginMutation(r, t) \/ EndMutation(r, t) \/ ObserveExecutor(r, t)
       \/ \E x \in Report(r, t) : CompleteTask(r, t, x)

HandlerStep(w) ==
  \/ \E r \in Run : Decide(w, r) \/ DecideNothing(w, r)
  \/ EnsureForContinuation(w) \/ EnsureRefused(w)
  \/ CommitQueue(w) \/ QueueRefused(w)
  \/ CommitAdvance(w) \/ AdvanceRefused(w)
  \/ ReleaseLease(w) \/ ReleaseRefused(w)
  \/ SettleLease(w) \/ SettleRefused(w)

MutexStep(r) ==
  \/ ConfirmLease(r) \/ ConfirmRefused(r) \/ ConfirmAdvance(r) \/ ConfirmQueue(r)
  \/ ReadCanceledTask(r) \/ ReconcileLease(r) \/ ReconcileRefused(r)

UserStep(r) ==
  \/ ConfirmOperationRun(r)
  \/ CancelBeforeApply(r) \/ CancelAgain(r) \/ CancelContained(r)

RestartStep ==
  \/ Start \/ Listen
  \/ \E r \in Run : ResumeQueued(r) \/ ResumeAcquiring(r) \/ ResumeRefused(r) \/ ResumeSkip(r)

Fault ==
  \/ Crash \/ AbortMutex
  \/ \E w \in Handler : Abort(w)
  \/ \E r \in Run : LoseResponse(r) \/ Expire(r) \/ RenewFail(r)

Next ==
  \/ \E r \in Run : AgentStep(r) \/ MutexStep(r) \/ UserStep(r)
  \/ \E w \in Handler : HandlerStep(w)
  \/ RestartStep
  \/ Fault

Spec == Init /\ [][Next]_vars

\* Agents poll and execute, requests run to their end or are repeated, and a
\* server that went down is started again. Users owe nothing, faults are bounded.
Fairness ==
  /\ \A r \in Run : WF_vars(AgentStep(r)) /\ WF_vars(MutexStep(r))
  /\ \A w \in Handler : WF_vars(HandlerStep(w))
  /\ WF_vars(RestartStep)

FairSpec == Spec /\ Fairness

-----------------------------------------------------------------------------
(* Properties.                                                             *)

\* A run that has a journal agrees with the last entry of it, and every
\* execution state has one: a result, a cancellation and a restart trust the
\* journal, and refuse a run that diverged from it.
JournalAgrees ==
  \A r \in Run :
    /\ tail[r] # NoEntry => tail[r] = [state |-> state[r], mark |-> mark[r]]
    /\ state[r] \in RequiresJournal \ {"interrupted"} \/ bound[r] # Planning => tail[r] # NoEntry

\* A run has at most one bounded action that is not over, the one it is bound
\* to: no repeated or late continuation puts a second one on a node.
OneLiveAction ==
  \A r \in Run : \A t \in Task : phase[r][t] \in LivePhase => t = bound[r]

\* A run canceled before Apply is that: whatever continuation was under way
\* when it was canceled, no Apply is queued or ever touches a node.
NoApplyAfterCancel ==
  \A r \in Run : state[r] = "canceled_before_apply" =>
    /\ \A s \in Stage : phase[r][<<s, "apply">>] = "absent"
    /\ \A t \in ActionTask : <<r, t>> \notin mutated

\* The verdict a run ends with is backed by evidence of every stage.
TerminalTruth ==
  \A r \in Run :
    /\ state[r] = "succeeded" => \A s \in Stage : fact[r][<<s, "verify">>] = "passed"
    /\ state[r] = "rolled_back" =>
         \A s \in Stage : fact[r][<<s, "apply">>] # "none" =>
                            fact[r][<<s, "verify_rollback">>] = "passed"
    /\ state[r] \in {"blocked", "canceled_before_apply"} =>
         \A s \in Stage : fact[r][<<s, "apply">>] = "none"

\* No server crash and no lost renewal so far.
LeaseSound == budget.crash = MaxCrashes /\ budget.renewal = MaxRenewalFailures

\* From its confirmation to its end a run holds its lease, supervised. So does
\* an interrupted one, whose nodes may be half changed, and a canceled one
\* whose restore-point action still runs.
CanceledAction(r) ==
  /\ state[r] = "canceled_before_apply"
  /\ bound[r] # Planning /\ phase[r][bound[r]] \in LivePhase

Unfinished(r) ==
  \/ state[r] \in RequiresJournal \ (Terminal \union {"interrupted"})
  \/ state[r] = "interrupted" /\ bound[r] # Planning
  \/ CanceledAction(r)

Containment ==
  LeaseSound => \A r \in Run : Unfinished(r) => sup[r] = "active" /\ r \in lease

\* Two runs that share a target never change their nodes at the same time.
MutualExclusion ==
  LeaseSound => \A r, q \in Run :
    (\E t \in ActionTask : <<r, t>> \in mutating) /\ Contends(r, q)
      => \A t \in ActionTask : <<q, t>> \notin mutating

LS == INSTANCE LeaseService WITH held <- lease, sup <- sup

\* Whatever the handlers, the restart and the expiry of leases do, they use the
\* leases as LeaseService allows: two runs never hold one target, and a lease
\* the supervisor vouches for is held (product_workflow.go, ensureLease).
KeepsLeasePromise == LS!Spec

\* Nothing is under way for r any more.
Quiet(r) ==
  /\ server = "up" /\ mu = Free /\ r \notin owed
  /\ \A w \in Handler : h[w].run # r

\* Once every request about a run that ended has been answered without an
\* error, the run holds no lease: its targets are free for the next one.
LeaseGivenBack ==
  \A r \in Run :
    Quiet(r) /\ state[r] \in Terminal \ {"canceled_before_apply"} => r \notin lease

\* A run that ended stays ended: no late acknowledgement, result, continuation
\* or restart moves it, binds it to another task or adds to its evidence,
\* but for the restore point a canceled run was waiting for.
TerminalIsFinal ==
  [][\A r \in Run : state[r] \in Terminal =>
       /\ state'[r] = state[r] /\ bound'[r] = bound[r]
       /\ fact'[r] = fact[r] \/ CanceledAction(r)]_vars

\* A bounded action is carried out once: a task that is over is never queued
\* again, by a repeated request, a second handler or a restart.
NoReplay ==
  [][\A r \in Run : \A t \in Task :
       phase[r][t] \in TerminalPhase => phase'[r][t] = phase[r][t]]_vars

\* Stages are undone in the reverse of the order they were applied in.
RollbackOrder ==
  \A r \in Run : \A i, j \in Stage :
    i < j /\ phase[r][<<i, "rollback">>] # "absent" /\ fact[r][<<j, "apply">>] # "none"
      => fact[r][<<j, "verify_rollback">>] = "passed"

\* An executing run comes to an end or to reconciliation, through crashes,
\* lost responses and aborted continuations.
ExecutionSettles ==
  \A r \in Run :
    state[r] \in {"creating_restore_point", "running", "verifying", "rolling_back"}
      ~> state[r] \in Terminal \union {"interrupted"}

\* A run that ended gives its lease back.
EndedRunFreesTargets ==
  \A r \in Run :
    state[r] \in {"succeeded", "blocked", "rolled_back", "rollback_failed"} ~> r \notin lease

-----------------------------------------------------------------------------
(* Expectations written down in the repository that the code does not meet: *)
(* TLC refutes each of them (README, "Where the code departs from what is   *)
(* written about it").                                                      *)

\* ResumeOperationRuns "reconstructs the exact durable Server checkpoint after
\* restart": a server that listens again supervises the lease of every run that
\* is not finished.
ContainmentAcrossRestart ==
  server = "up" /\ budget.renewal = MaxRenewalFailures =>
    \A r \in Run : Unfinished(r) => sup[r] = "active" /\ r \in lease

\* What product_workflow_cancel_convergence_test.go expects of a canceled run:
\* its lease is released after its task converged.
CanceledLeaseGivenBack ==
  \A r \in Run :
    Quiet(r) /\ state[r] = "canceled_before_apply" /\ phase[r][bound[r]] \in TerminalPhase
      => r \notin lease

\* product_workflow.go leaves the recovery of a confirmed run's lifecycle to
\* ResumeOperationRuns and ContinueOperationRun: it gets past its queue.
ConfirmedRunProceeds ==
  \A r \in Run : state[r] = "queued" ~> state[r] \notin {"queued", "acquiring_lock"}

\* A verified stage is followed by the next one, or by success.
VerifiedRunProceeds ==
  \A r \in Run : fact[r][<<0, "verify">>] = "passed" ~> state[r] # "verifying"
====
