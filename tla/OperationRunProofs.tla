-------------------------- MODULE OperationRunProofs --------------------------
(***************************************************************************)
(* Theorems about OperationRun, for every set of runs, targets, handlers,  *)
(* stages, barriers and bounds.                                            *)
(***************************************************************************)
EXTENDS OperationRun, TLAPS

(* Types of the values the model is built from.                            *)

LEMMA TaskTypes ==
  /\ Planning \in Task
  /\ Planning \notin ActionTask
  /\ ActionTask \subseteq Task
  /\ FirstTask \in ActionTask
  /\ 0 \in Stage
  /\ \A s \in Stage : \A a \in Action : <<s, a>> \in ActionTask
  /\ \A t \in ActionTask : StageOf(t) \in Stage /\ ActionOf(t) \in Action
<1>1. 0 \in Stage
  BY NStagesAssumption DEF Stage
<1>2. QED
  BY <1>1 DEF Planning, Task, ActionTask, FirstTask, StageOf, ActionOf, Action

LEMMA MarkTypes ==
  /\ \A name \in PlainMark : Mark(name) \in Checkpoint
  /\ \A t \in ActionTask : /\ QueuedMark(t) \in Checkpoint
                           /\ ReconnectMark(t) \in Checkpoint
                           /\ \A p \in Phase : stagedActionResultCheckpoint(t, p) \in Checkpoint
<1>1. Planning \in Task /\ ActionTask \subseteq Task
  BY TaskTypes
<1>2. \A name \in PlainMark : Mark(name) \in Checkpoint
  BY <1>1 DEF Mark, Checkpoint, Phase
<1>3. QED
  BY <1>1, <1>2 DEF QueuedMark, ReconnectMark, stagedActionResultCheckpoint, Checkpoint, Phase

LEMMA ActionStateType ==
  \A t : operationActionState(t) \in
           {"creating_restore_point", "running", "verifying", "rolling_back"}
BY DEF operationActionState

LEMMA NothingType == Nothing \in Decision
<1>1. Planning \in Task /\ Mark("planning_queued") \in Checkpoint
  BY TaskTypes, MarkTypes DEF PlainMark
<1>2. QED
  BY <1>1 DEF Nothing, Decision, State, Recovery

(* What a decision may be.                                                 *)

ContinuedState ==
  {"running", "succeeded", "blocked", "interrupted", "rolling_back",
   "rolled_back", "rollback_failed"}

DecisionOK(d) ==
  /\ d \in Decision
  /\ d.kind = "advance" => d.state \in ContinuedState
  /\ d.kind \in {"queue", "contain"} => d.next \in ActionTask /\ d.done \in ActionTask

LEMMA QueueOK ==
  ASSUME NEW done \in ActionTask, NEW next \in ActionTask, NEW ensure \in BOOLEAN
  PROVE  /\ DecisionOK(Queue(done, next, ensure))
         /\ Queue(done, next, ensure).kind = "queue"
         /\ Queue(done, next, ensure).done = done
BY NothingType, TaskTypes DEF Queue, DecisionOK, Decision, Nothing

LEMMA AdvanceOK ==
  ASSUME NEW s \in ContinuedState, NEW m \in Checkpoint, NEW rec \in Recovery,
         NEW release \in BOOLEAN
  PROVE  /\ DecisionOK(Advance(s, m, rec, release))
         /\ Advance(s, m, rec, release).kind = "advance"
<1>1. s \in State
  BY DEF ContinuedState, State
<1>2. QED
  BY <1>1, NothingType DEF Advance, DecisionOK, Decision, Nothing

LEMMA RollBackPreviousOK ==
  ASSUME TypeOK, NEW r \in Run, NEW t \in ActionTask, NEW d, DecisionOK(d),
         d.kind = "advance"
  PROVE  \A e \in RollBackPrevious(r, t, d) :
           /\ DecisionOK(e)
           /\ e.kind \in {"queue", "advance"}
           /\ e.kind = "queue" => e.done = t
<1>1. CASE AppliedBefore(r, StageOf(t)) = {}
  BY <1>1 DEF RollBackPrevious
<1>2. CASE AppliedBefore(r, StageOf(t)) # {}
  <2>1. \A i \in previousAppliedStage(r, StageOf(t)) : <<i, "rollback">> \in ActionTask
    BY TaskTypes DEF previousAppliedStage, AppliedBefore, Action
  <2>2. \A i \in previousAppliedStage(r, StageOf(t)) :
          /\ DecisionOK(Queue(t, <<i, "rollback">>, FALSE))
          /\ Queue(t, <<i, "rollback">>, FALSE).kind = "queue"
          /\ Queue(t, <<i, "rollback">>, FALSE).done = t
    BY <2>1, QueueOK
  <2>3. RollBackPrevious(r, t, d) =
          {Queue(t, <<i, "rollback">>, FALSE) : i \in previousAppliedStage(r, StageOf(t))}
    BY <1>2 DEF RollBackPrevious
  <2>4. QED
    BY <2>2, <2>3
<1>3. QED
  BY <1>1, <1>2

\* Every decision about a run that is not over is about its bound task t.
AboutTask(e, t) ==
  /\ DecisionOK(e)
  /\ e.kind \in {"queue", "contain", "advance"}
  /\ e.kind # "advance" => e.done = t

LEMMA QueueAbout ==
  ASSUME NEW t \in ActionTask, NEW next \in ActionTask, NEW ensure \in BOOLEAN
  PROVE  AboutTask(Queue(t, next, ensure), t)
BY QueueOK DEF AboutTask

LEMMA AdvanceAbout ==
  ASSUME NEW t, NEW s \in ContinuedState, NEW m \in Checkpoint,
         NEW rec \in Recovery, NEW release \in BOOLEAN
  PROVE  AboutTask(Advance(s, m, rec, release), t)
BY AdvanceOK DEF AboutTask

LEMMA AfterFailureOK ==
  ASSUME TypeOK, NEW r \in Run, NEW t \in ActionTask
  PROVE  \A e \in AfterFailure(r, t) : AboutTask(e, t)
<1> DEFINE s == StageOf(t)
<1>1. s \in Stage
  BY TaskTypes
<1>2. <<s, "rollback">> \in ActionTask
  BY <1>1, TaskTypes DEF Action
<1>3. AboutTask(Queue(t, <<s, "rollback">>, TRUE), t)
  BY <1>2, QueueAbout
<1>4. /\ AboutTask(Advance("blocked", Mark("restore_point_failed"), "restore_point_failed", TRUE), t)
      /\ AboutTask(Advance("interrupted", Mark("apply_outcome_requires_reconcile"),
                           "apply_outcome_uncertain", FALSE), t)
      /\ AboutTask(Advance("interrupted", Mark("verify_failed_without_rollback_proof"),
                           "rollback_prerequisites_missing", FALSE), t)
      /\ AboutTask(Advance("rollback_failed", Mark("rollback_failed"), "rollback_failed", TRUE), t)
  BY AdvanceAbout, MarkTypes DEF ContinuedState, PlainMark, Recovery
<1>5. \A e \in RollBackPrevious(r, t,
             Advance("blocked", Mark("restore_point_failed"), "restore_point_failed", TRUE)) :
        AboutTask(e, t)
  <2> DEFINE d == Advance("blocked", Mark("restore_point_failed"), "restore_point_failed", TRUE)
  <2>1. DecisionOK(d) /\ d.kind = "advance"
    BY AdvanceOK, MarkTypes DEF ContinuedState, PlainMark, Recovery
  <2> HIDE DEF d
  <2>2. \A e \in RollBackPrevious(r, t, d) : AboutTask(e, t)
    BY <2>1, RollBackPreviousOK DEF AboutTask
  <2>3. QED
    BY <2>2 DEF d
<1>6. QED
  BY <1>3, <1>4, <1>5, Zenon DEF AfterFailure

LEMMA AfterSuccessOK ==
  ASSUME TypeOK, NEW r \in Run, NEW t \in ActionTask
  PROVE  \A e \in AfterSuccess(r, t) : AboutTask(e, t)
<1> DEFINE s == StageOf(t)
<1>1. s \in Stage
  BY TaskTypes
<1>2. \A a \in Action : <<s, a>> \in ActionTask
  BY <1>1, TaskTypes
<1>3. /\ AboutTask(Queue(t, <<s, "apply">>, FALSE), t)
      /\ AboutTask(Queue(t, <<s, "verify">>, FALSE), t)
      /\ AboutTask(Queue(t, <<s, "verify_rollback">>, FALSE), t)
  BY <1>2, QueueAbout DEF Action
<1>4. s + 1 < NStages => AboutTask(Queue(t, <<s + 1, "create_restore_point">>, FALSE), t)
  <2>1. s + 1 < NStages => s + 1 \in Stage
    BY <1>1, NStagesAssumption DEF Stage
  <2>2. s + 1 < NStages => <<s + 1, "create_restore_point">> \in ActionTask
    BY <2>1, TaskTypes DEF Action
  <2>3. QED
    BY <2>2, QueueAbout
<1>5. /\ AboutTask(Advance("running", ReconnectMark(<<s, "apply">>), "none", FALSE), t)
      /\ AboutTask(Advance("succeeded", Mark("verified"), "none", TRUE), t)
      /\ AboutTask(Advance("rolling_back", ReconnectMark(<<s, "rollback">>), "none", FALSE), t)
  <2>1. /\ ReconnectMark(<<s, "apply">>) \in Checkpoint
        /\ ReconnectMark(<<s, "rollback">>) \in Checkpoint
        /\ Mark("verified") \in Checkpoint
    BY <1>2, MarkTypes DEF Action, PlainMark
  <2>2. QED
    BY <2>1, AdvanceAbout DEF ContinuedState, Recovery
<1>6. \A e \in RollBackPrevious(r, t,
             Advance("rolled_back", Mark("rollback_verified"), "none", TRUE)) :
        AboutTask(e, t)
  <2> DEFINE d == Advance("rolled_back", Mark("rollback_verified"), "none", TRUE)
  <2>1. DecisionOK(d) /\ d.kind = "advance"
    BY AdvanceOK, MarkTypes DEF ContinuedState, PlainMark, Recovery
  <2> HIDE DEF d
  <2>2. \A e \in RollBackPrevious(r, t, d) : AboutTask(e, t)
    BY <2>1, RollBackPreviousOK DEF AboutTask
  <2>3. QED
    BY <2>2 DEF d
<1>7. QED
  BY <1>3, <1>4, <1>5, <1>6, Zenon DEF AfterSuccess

LEMMA AfterBarrierOK ==
  ASSUME TypeOK, NEW r \in Run, NEW t \in ActionTask
  PROVE  \A e \in AfterBarrier(r, t) : AboutTask(e, t)
<1>1. \A a \in Action : AboutTask(Queue(t, <<StageOf(t), a>>, FALSE), t)
  BY TaskTypes, QueueAbout
<1>2. \A e \in AfterBarrier(r, t) :
        \E a \in Action : e = Queue(t, <<StageOf(t), a>>, FALSE)
  BY DEF AfterBarrier, Action
<1>3. QED
  BY <1>1, <1>2

LEMMA ContainOK ==
  ASSUME TypeOK, NEW r \in Run, NEW t \in ActionTask
  PROVE  \A e \in Contain(r, t) : AboutTask(e, t)
<1> DEFINE d == Advance("interrupted", Mark("cancellation_requires_reconcile"),
                        "cancellation_requires_reconcile", FALSE)
           q(i) == [Queue(t, <<i, "rollback">>, TRUE) EXCEPT !.kind = "contain"]
<1>1. AboutTask(d, t)
  BY AdvanceAbout, MarkTypes DEF ContinuedState, PlainMark, Recovery
<1>2. \A i \in previousAppliedStage(r, StageOf(t)) : AboutTask(q(i), t)
  <2> SUFFICES ASSUME NEW i \in previousAppliedStage(r, StageOf(t)) PROVE AboutTask(q(i), t)
    OBVIOUS
  <2>1. <<i, "rollback">> \in ActionTask
    BY TaskTypes DEF previousAppliedStage, AppliedBefore, Action
  <2> DEFINE e == Queue(t, <<i, "rollback">>, TRUE)
  <2>2. DecisionOK(e) /\ e.kind = "queue" /\ e.done = t
    BY <2>1, QueueOK
  <2> HIDE DEF e
  <2>3. AboutTask([e EXCEPT !.kind = "contain"], t)
    BY <2>2 DEF AboutTask, DecisionOK, Decision
  <2>4. QED
    BY <2>3 DEF e
<1> HIDE DEF d, q
<1>3. \/ Contain(r, t) = {d}
      \/ Contain(r, t) = {q(i) : i \in previousAppliedStage(r, StageOf(t))}
  BY DEF Contain, d, q
<1>4. QED
  BY <1>1, <1>2, <1>3

LEMMA SettleOK ==
  ASSUME TypeOK, NEW r \in Run
  PROVE  DecisionOK(Settle(r)) /\ Settle(r).kind = "settle"
<1>1. AwaitsCanceledTask(r) \in BOOLEAN
  BY DEF AwaitsCanceledTask
<1>2. QED
  BY <1>1, NothingType DEF Settle, DecisionOK, Decision, Nothing

\* A decision either settles the lease of a run that is over, or is about the
\* task the run is bound to, which is then a bounded action that ended.
LEMMA DecisionsOK ==
  ASSUME TypeOK, NEW r \in Run, NEW e \in Decisions(r)
  PROVE  \/ DecisionOK(e) /\ e.kind = "settle"
         \/ /\ AboutTask(e, bound[r])
            /\ bound[r] # Planning
            /\ phase[r][bound[r]] \in TerminalPhase
<1>1. CASE state[r] \in Terminal
  BY <1>1, SettleOK DEF Decisions
<1>2. CASE state[r] \notin Terminal
  <2>1. bound[r] # Planning /\ phase[r][bound[r]] \in TerminalPhase
    BY <1>2, Zenon DEF Decisions
  <2>2. bound[r] \in ActionTask
    BY <2>1 DEF TypeOK, Task
  <2>3. \/ e \in Contain(r, bound[r])
        \/ e \in AfterBarrier(r, bound[r])
        \/ e \in AfterSuccess(r, bound[r])
        \/ e \in AfterFailure(r, bound[r])
    BY <1>2, Zenon DEF Decisions
  <2>4. AboutTask(e, bound[r])
    BY <2>2, <2>3, ContainOK, AfterBarrierOK, AfterSuccessOK, AfterFailureOK
  <2>5. QED
    BY <2>1, <2>4
<1>3. QED
  BY <1>1, <1>2

-----------------------------------------------------------------------------
(* The inductive invariant.                                                *)

PlanningOver(r) == phase[r][Planning] \in TerminalPhase

\* What a handler holds between two of its steps stays true of the run,
\* whatever other handlers and requests do: the task its decision is about is
\* over, and the run is past its planning.
HandlerInv ==
  \A w \in Handler : h[w].pc # "idle" =>
    /\ h[w].run \in Run
    /\ DecisionOK(h[w].d)
    /\ h[w].pc = "leased" => h[w].d.kind \in {"queue", "contain"}
    /\ h[w].pc = "release" => h[w].d.kind = "advance"
    /\ h[w].d.kind \in {"queue", "contain"} =>
         phase[h[w].run][h[w].d.done] \in TerminalPhase
    /\ h[w].d.kind \in {"queue", "contain", "advance"} => bound[h[w].run] # Planning

\* Planning is over before the first journal entry, the journal starts before
\* the run is bound to a bounded action, and until then it is not executed.
StartInv ==
  \A r \in Run :
    /\ state[r] \notin {"draft", "discovering", "canceled_before_apply"} => PlanningOver(r)
    /\ tail[r] # NoEntry => PlanningOver(r)
    /\ bound[r] # Planning => tail[r] # NoEntry
    /\ state[r] \in {"awaiting_confirmation", "queued", "acquiring_lock"} => bound[r] = Planning

IInv == TypeOK /\ HandlerInv /\ StartInv /\ JournalAgrees /\ OneLiveAction

\* What no step undoes: the end of a task and the end of planning.
Stable ==
  /\ \A q \in Run : \A t \in Task :
       phase[q][t] \in TerminalPhase => phase'[q][t] = phase[q][t]
  /\ \A q \in Run : bound[q] # Planning => bound'[q] # Planning

LEMMA HandlerInvKept ==
  ASSUME TypeOK, HandlerInv, Stable,
         \A w \in Handler : h'[w] = h[w] \/ h'[w] = Idle
  PROVE  HandlerInv'
<1> SUFFICES ASSUME NEW w \in Handler, h'[w].pc # "idle"
             PROVE  /\ h'[w].run \in Run
                    /\ DecisionOK(h'[w].d)
                    /\ h'[w].pc = "leased" => h'[w].d.kind \in {"queue", "contain"}
                    /\ h'[w].pc = "release" => h'[w].d.kind = "advance"
                    /\ h'[w].d.kind \in {"queue", "contain"} =>
                         phase'[h'[w].run][h'[w].d.done] \in TerminalPhase
                    /\ h'[w].d.kind \in {"queue", "contain", "advance"} =>
                         bound'[h'[w].run] # Planning
  BY DEF HandlerInv
<1>1. h'[w] = h[w]
  BY DEF Idle
<1>2. /\ h[w].run \in Run
      /\ DecisionOK(h[w].d)
      /\ h[w].pc = "leased" => h[w].d.kind \in {"queue", "contain"}
      /\ h[w].pc = "release" => h[w].d.kind = "advance"
      /\ h[w].d.kind \in {"queue", "contain"} =>
           phase[h[w].run][h[w].d.done] \in TerminalPhase
      /\ h[w].d.kind \in {"queue", "contain", "advance"} => bound[h[w].run] # Planning
  BY <1>1 DEF HandlerInv
<1>3. h[w].d.kind \in {"queue", "contain"} => h[w].d.done \in Task
  BY <1>2, TaskTypes DEF DecisionOK
<1>4. QED
  BY <1>1, <1>2, <1>3 DEF Stable

\* A step that leaves the run record and the tasks alone, and at most ends
\* handlers, keeps the invariant.
LEMMA FrameKept ==
  ASSUME IInv, TypeOK', UNCHANGED <<state, mark, bound, tail, phase>>,
         \A w \in Handler : h'[w] = h[w] \/ h'[w] = Idle
  PROVE  IInv'
<1>1. Stable
  BY DEF Stable
<1>2. HandlerInv'
  BY <1>1, HandlerInvKept DEF IInv
<1>3. StartInv' /\ JournalAgrees' /\ OneLiveAction'
  BY DEF IInv, StartInv, PlanningOver, JournalAgrees, OneLiveAction
<1>4. QED
  BY <1>2, <1>3 DEF IInv

LEMMA InitOK == Init => IInv
<1> SUFFICES ASSUME Init PROVE IInv
  OBVIOUS
<1>1. /\ Mark("planning_queued") \in Checkpoint
      /\ Planning \in Task
      /\ Nothing \in Decision
  BY MarkTypes, TaskTypes, NothingType DEF PlainMark
<1>2. state \in [Run -> State] /\ recovery \in [Run -> Recovery]
  BY DEF Init, State, Recovery
<1>3. mark \in [Run -> Checkpoint] /\ bound \in [Run -> Task] /\ tail \in [Run -> Entry]
  BY <1>1 DEF Init, Entry
<1>4. /\ fact \in [Run -> [ActionTask -> {"none", "passed", "failed"}]]
      /\ phase \in [Run -> [Task -> Phase]]
  BY DEF Init, Phase
<1>5. mu \in Mutex /\ h \in [Handler -> HandlerState]
  BY <1>1 DEF Init, Free, Mutex, Idle, HandlerState
<1>6. budget \in [crash : 0 .. MaxCrashes, abort : 0 .. MaxAborts, renewal : 0 .. MaxRenewalFailures]
  BY BoundsAssumption DEF Init
<1>7. TypeOK
  BY <1>2, <1>3, <1>4, <1>5, <1>6 DEF Init, TypeOK
<1>8. HandlerInv
  BY DEF Init, HandlerInv, Idle
<1>9. StartInv /\ JournalAgrees
  BY DEF Init, StartInv, JournalAgrees, RequiresJournal
<1>10. OneLiveAction
  BY DEF Init, OneLiveAction, LivePhase
<1>11. QED
  BY <1>7, <1>8, <1>9, <1>10 DEF IInv

-----------------------------------------------------------------------------
(* What the building blocks of the actions do to the typed state.          *)

LEMMA EntryType ==
  ASSUME NEW s \in State, NEW m \in Checkpoint
  PROVE  [state |-> s, mark |-> m] \in Entry /\ [state |-> s, mark |-> m] # NoEntry
<1>1. [state |-> s, mark |-> m].state # NoEntry.state
  BY DEF NoEntry, State
<1>2. QED
  BY <1>1 DEF Entry

LEMMA RecordOK ==
  ASSUME TypeOK, NEW r \in Run, NEW s \in State, NEW m \in Checkpoint, Record(r, s, m)
  PROVE  /\ state' \in [Run -> State] /\ mark' \in [Run -> Checkpoint]
         /\ tail' \in [Run -> Entry]
         /\ tail'[r] = [state |-> state'[r], mark |-> mark'[r]] /\ tail'[r] # NoEntry
         /\ state'[r] = s
         /\ \A q \in Run \ {r} : /\ state'[q] = state[q] /\ mark'[q] = mark[q]
                                 /\ tail'[q] = tail[q]
BY EntryType DEF TypeOK, Record

\* One task of one run changes its phase.
LEMMA PhaseOK ==
  ASSUME TypeOK, NEW r \in Run, NEW t \in Task, NEW p \in Phase,
         phase' = [phase EXCEPT ![r][t] = p]
  PROVE  /\ phase' \in [Run -> [Task -> Phase]]
         /\ phase'[r][t] = p
         /\ \A q \in Run : \A u \in Task : q # r \/ u # t => phase'[q][u] = phase[q][u]
BY DEF TypeOK

LEMMA LeaseTypes ==
  ASSUME TypeOK, NEW r \in Run, EnsureLease(r) \/ ResumeAndRelease(r)
  PROVE  lease' \subseteq Run /\ sup' \in [Run -> {"none", "active", "failed"}]
BY DEF TypeOK, EnsureLease, ResumeAndRelease

LEMMA IdleType == Idle \in HandlerState
BY NothingType DEF Idle, HandlerState

LEMMA MutexTypes ==
  /\ Free \in Mutex
  /\ \A r \in Run : \A op \in {"confirm", "leased", "reconcile", "hold", "giveback"} :
       [op |-> op, run |-> r] \in Mutex
BY DEF Free, Mutex

LEMMA ExitServerOK ==
  ASSUME TypeOK, ExitServer
  PROVE  /\ server' \in {"up", "down", "resuming"} /\ h' \in [Handler -> HandlerState]
         /\ mu' \in Mutex /\ todo' \subseteq Run
         /\ sup' \in [Run -> {"none", "active", "failed"}]
         /\ \A w \in Handler : h'[w] = Idle
BY IdleType, MutexTypes DEF ExitServer

\* A fault that may happen does, and one less is left.
LEMMA BudgetOK ==
  ASSUME TypeOK,
         \/ budget.crash > 0 /\ budget' = [budget EXCEPT !.crash = @ - 1]
         \/ budget.abort > 0 /\ budget' = [budget EXCEPT !.abort = @ - 1]
         \/ budget.renewal > 0 /\ budget' = [budget EXCEPT !.renewal = @ - 1]
  PROVE  budget' \in [crash : 0 .. MaxCrashes, abort : 0 .. MaxAborts,
                      renewal : 0 .. MaxRenewalFailures]
<1> DEFINE B == [crash : 0 .. MaxCrashes, abort : 0 .. MaxAborts, renewal : 0 .. MaxRenewalFailures]
<1>1. budget \in B
  BY DEF TypeOK
<1>2. \A n \in Nat : \A i \in 0 .. n : i > 0 => i - 1 \in 0 .. n
  OBVIOUS
<1>3. /\ budget.crash \in 0 .. MaxCrashes /\ budget.abort \in 0 .. MaxAborts
      /\ budget.renewal \in 0 .. MaxRenewalFailures
  BY <1>1
<1>4. /\ budget.crash > 0 => budget.crash - 1 \in 0 .. MaxCrashes
      /\ budget.abort > 0 => budget.abort - 1 \in 0 .. MaxAborts
      /\ budget.renewal > 0 => budget.renewal - 1 \in 0 .. MaxRenewalFailures
  BY <1>2, <1>3, BoundsAssumption
<1>5. QED
  BY <1>1, <1>4

LEMMA ServedOK ==
  ASSUME TypeOK, NEW r \in Run, Served(r)
  PROVE  mu' = mu /\ server' = server /\ todo' \subseteq Run /\ owed' \subseteq Run
BY DEF TypeOK, Served

\* A handler's transition: one handler goes on, the others stay.
LEMMA HandlerTypes ==
  ASSUME TypeOK, NEW w \in Handler, NEW x \in HandlerState, h' = [h EXCEPT ![w] = x]
  PROVE  /\ h' \in [Handler -> HandlerState]
         /\ h'[w] = x /\ \A v \in Handler \ {w} : h'[v] = h[v]
BY DEF TypeOK

LEMMA FinishOK ==
  ASSUME TypeOK, NEW w \in Handler, h[w].run \in Run, Finish(w)
  PROVE  /\ h' \in [Handler -> HandlerState]
         /\ mu' \in Mutex /\ server' \in {"up", "down", "resuming"}
         /\ todo' \subseteq Run /\ owed' \subseteq Run
         /\ \A v \in Handler : h'[v] = h[v] \/ h'[v] = Idle
<1>1. h' = [h EXCEPT ![w] = Idle] /\ Served(h[w].run)
  BY DEF Finish
<1>2. QED
  BY <1>1, IdleType, HandlerTypes, ServedOK DEF TypeOK

LEMMA FailOK ==
  ASSUME IInv, NEW w \in Handler, h[w].pc # "idle", Fail(w)
  PROVE  IInv'
<1>1. TypeOK
  BY DEF IInv
<1>2. CASE server = "up"
  <2>1. /\ h' = [h EXCEPT ![w] = Idle] /\ UNCHANGED <<mu, server, todo, sup, lease>>
        /\ owed' = owed \union {h[w].run}
        /\ UNCHANGED <<run, work, agents, budget>>
    BY <1>2 DEF Fail
  <2>2. h' \in [Handler -> HandlerState] /\ \A v \in Handler : h'[v] = h[v] \/ h'[v] = Idle
    BY <1>1, <2>1, HandlerTypes, IdleType
  <2>3. h[w].run \in Run
    BY DEF IInv, HandlerInv
  <2>4. TypeOK'
    BY <1>1, <2>1, <2>2, <2>3 DEF TypeOK, run, work, agents
  <2>5. QED
    BY <2>1, <2>2, <2>4, FrameKept DEF run, work
<1>3. CASE server # "up"
  <2>1. ExitServer /\ UNCHANGED <<run, work, agents, owed, budget, lease>>
    BY <1>3 DEF Fail
  <2>2. /\ server' \in {"up", "down", "resuming"} /\ h' \in [Handler -> HandlerState]
        /\ mu' \in Mutex /\ todo' \subseteq Run
        /\ sup' \in [Run -> {"none", "active", "failed"}]
        /\ \A v \in Handler : h'[v] = Idle
    BY <1>1, <2>1, ExitServerOK
  <2>3. TypeOK'
    BY <1>1, <2>1, <2>2 DEF TypeOK, run, work, agents
  <2>4. QED
    BY <2>1, <2>2, <2>3, FrameKept DEF run, work
<1>4. QED
  BY <1>2, <1>3

-----------------------------------------------------------------------------
(* The agents.                                                             *)

\* A step that leaves handlers, and what they rely on, alone.
LEMMA HandlersRest ==
  ASSUME IInv, Stable, h' = h
  PROVE  HandlerInv'
BY HandlerInvKept DEF IInv

LEMMA ClaimTaskKept ==
  ASSUME IInv, NEW r \in Run, NEW t \in Task, ClaimTask(r, t)
  PROVE  IInv' /\ Stable
<1>1. TypeOK /\ HandlerInv /\ StartInv /\ JournalAgrees /\ OneLiveAction
  BY DEF IInv
<1>2. /\ phase[r][t] = "pending" /\ phase' = [phase EXCEPT ![r][t] = "claimed"]
      /\ UNCHANGED <<state, mark, bound, recovery, tail, fact, mutating, mutated, seen,
                     lease, sup, mu, h, server, todo, owed, budget>>
  BY DEF ClaimTask, run, agents, locks, proc
<1>3. /\ phase' \in [Run -> [Task -> Phase]]
      /\ phase'[r][t] = "claimed"
      /\ \A q \in Run : \A u \in Task : q # r \/ u # t => phase'[q][u] = phase[q][u]
  BY <1>1, <1>2, PhaseOK DEF Phase
<1>4. TypeOK'
  BY <1>1, <1>2, <1>3 DEF TypeOK
<1>5. Stable
  BY <1>2, <1>3 DEF Stable, TerminalPhase
<1>6. HandlerInv'
  BY <1>2, <1>5, HandlersRest
<1>7. \A q \in Run : PlanningOver(q) => PlanningOver(q)'
  BY <1>5, TaskTypes DEF Stable, PlanningOver
<1>8. StartInv'
  BY <1>1, <1>2, <1>7 DEF StartInv
<1>9. JournalAgrees'
  BY <1>1, <1>2 DEF JournalAgrees
<1>10. OneLiveAction'
  BY <1>1, <1>2, <1>3 DEF OneLiveAction, LivePhase
<1>11. QED
  BY <1>4, <1>5, <1>6, <1>8, <1>9, <1>10 DEF IInv

\* Planning that is not over: nothing has been journaled or executed yet.
LEMMA PlanningUnderWay ==
  ASSUME IInv, NEW r \in Run, ~PlanningOver(r)
  PROVE  /\ state[r] \in {"draft", "discovering", "canceled_before_apply"}
         /\ tail[r] = NoEntry
         /\ bound[r] = Planning
BY DEF IInv, StartInv

LEMMA AcknowledgeTaskKept ==
  ASSUME IInv, NEW r \in Run, NEW t \in Task, AcknowledgeTask(r, t)
  PROVE  IInv' /\ Stable
<1>1. TypeOK /\ HandlerInv /\ StartInv /\ JournalAgrees /\ OneLiveAction
  BY DEF IInv
<1>2. /\ phase[r][t] = "claimed" /\ phase' = [phase EXCEPT ![r][t] = "running"]
      /\ UNCHANGED <<bound, recovery, tail, fact, mutating, mutated, seen,
                     lease, sup, mu, h, server, todo, owed, budget>>
  BY DEF AcknowledgeTask, agents, locks, proc
<1>3. /\ phase' \in [Run -> [Task -> Phase]]
      /\ phase'[r][t] = "running"
      /\ \A q \in Run : \A u \in Task : q # r \/ u # t => phase'[q][u] = phase[q][u]
  BY <1>1, <1>2, PhaseOK DEF Phase
<1>4. Stable
  BY <1>2, <1>3 DEF Stable, TerminalPhase
<1>5. HandlerInv'
  BY <1>2, <1>4, HandlersRest
<1>6. OneLiveAction'
  BY <1>1, <1>2, <1>3 DEF OneLiveAction, LivePhase
<1>7. \A q \in Run : PlanningOver(q) => PlanningOver(q)'
  BY <1>4, TaskTypes DEF Stable, PlanningOver
<1>8. TypeOK' /\ StartInv' /\ JournalAgrees'
  <2>1. CASE t = Planning
    <3>1. /\ state' = [state EXCEPT ![r] = "discovering"]
          /\ mark' = [mark EXCEPT ![r] = Mark("discovering")]
      BY <2>1 DEF AcknowledgeTask
    <3>2. tail[r] = NoEntry /\ bound[r] = Planning
      BY <1>2, <2>1, PlanningUnderWay DEF PlanningOver, TerminalPhase
    <3>3. Mark("discovering") \in Checkpoint
      BY MarkTypes DEF PlainMark
    <3>4. state' \in [Run -> State] /\ mark' \in [Run -> Checkpoint]
      BY <1>1, <3>1, <3>3 DEF TypeOK, State
    <3>5. state'[r] = "discovering" /\ \A q \in Run \ {r} : state'[q] = state[q] /\ mark'[q] = mark[q]
      BY <1>1, <3>1 DEF TypeOK
    <3>6. TypeOK'
      BY <1>1, <1>2, <1>3, <3>4 DEF TypeOK
    <3>7. StartInv'
      BY <1>1, <1>2, <1>7, <3>2, <3>5 DEF StartInv
    <3>8. JournalAgrees'
      BY <1>1, <1>2, <3>2, <3>5 DEF JournalAgrees, RequiresJournal
    <3>9. QED
      BY <3>6, <3>7, <3>8
  <2>2. CASE t # Planning
    <3>1. UNCHANGED <<state, mark>>
      BY <2>2 DEF AcknowledgeTask
    <3>2. QED
      BY <1>1, <1>2, <1>3, <1>7, <3>1 DEF TypeOK, StartInv, JournalAgrees
  <2>3. QED
    BY <2>1, <2>2
<1>9. QED
  BY <1>4, <1>5, <1>6, <1>8 DEF IInv

LEMMA CompletePlanningKept ==
  ASSUME IInv, NEW r \in Run, NEW x \in PlanningReport(r), CompletePlanning(r, x)
  PROVE  IInv' /\ Stable
<1>1. TypeOK /\ HandlerInv /\ StartInv /\ JournalAgrees /\ OneLiveAction
  BY DEF IInv
<1>2. /\ phase[r][Planning] \in {"running", "cancel_requested"}
      /\ phase' = [phase EXCEPT ![r][Planning] = x.phase]
      /\ state' = [state EXCEPT ![r] = x.state]
      /\ mark' = [mark EXCEPT ![r] = Mark(x.mark)]
      /\ UNCHANGED <<bound, recovery, tail, fact, mutating, mutated, seen,
                     lease, sup, mu, h, server, todo, owed, budget>>
  BY DEF CompletePlanning, agents, locks, proc
<1>3. /\ x.phase \in TerminalPhase
      /\ x.state \in {"awaiting_confirmation", "blocked", "interrupted", "canceled_before_apply"}
      /\ x.mark \in PlainMark
  BY DEF PlanningReport, TerminalPhase, PlainMark
<1>4. /\ phase' \in [Run -> [Task -> Phase]]
      /\ phase'[r][Planning] = x.phase
      /\ \A q \in Run : \A u \in Task : q # r \/ u # Planning => phase'[q][u] = phase[q][u]
  <2>1. x.phase \in Phase /\ Planning \in Task
    BY <1>3, TaskTypes DEF TerminalPhase, Phase
  <2>2. phase' = [phase EXCEPT ![r][Planning] = x.phase]
    BY <1>2
  <2>3. phase \in [Run -> [Task -> Phase]]
    BY <1>1 DEF TypeOK
  <2>4. QED
    BY <2>1, <2>2, <2>3
<1>5. state' \in [Run -> State] /\ mark' \in [Run -> Checkpoint]
  <2>1. x.state \in State /\ Mark(x.mark) \in Checkpoint
    BY <1>3, MarkTypes DEF State
  <2>2. QED
    BY <1>1, <1>2, <2>1 DEF TypeOK
<1>6. TypeOK'
  BY <1>1, <1>2, <1>4, <1>5 DEF TypeOK
<1>7. Stable
  BY <1>2, <1>4 DEF Stable, TerminalPhase
<1>8. HandlerInv'
  BY <1>2, <1>7, HandlersRest
<1>9. OneLiveAction'
  BY <1>1, <1>2, <1>3, <1>4 DEF OneLiveAction, LivePhase, TerminalPhase
<1>10. tail[r] = NoEntry /\ bound[r] = Planning
  BY <1>2, PlanningUnderWay DEF PlanningOver, TerminalPhase
<1>11. \A q \in Run \ {r} : state'[q] = state[q] /\ mark'[q] = mark[q]
  BY <1>1, <1>2 DEF TypeOK
<1>12. state'[r] = x.state /\ PlanningOver(r)'
  BY <1>1, <1>2, <1>3, <1>4 DEF TypeOK, PlanningOver
<1>13. \A q \in Run : PlanningOver(q) => PlanningOver(q)'
  BY <1>7, TaskTypes DEF Stable, PlanningOver
<1>14. StartInv'
  BY <1>1, <1>2, <1>10, <1>11, <1>12, <1>13 DEF StartInv
<1>15. JournalAgrees'
  BY <1>1, <1>2, <1>3, <1>10, <1>11, <1>12 DEF JournalAgrees, RequiresJournal
<1>16. QED
  BY <1>6, <1>7, <1>8, <1>9, <1>14, <1>15 DEF IInv

LEMMA CompleteTaskKept ==
  ASSUME IInv, NEW r \in Run, NEW t \in ActionTask, NEW x, CompleteTask(r, t, x)
  PROVE  IInv' /\ Stable
<1>1. TypeOK /\ HandlerInv /\ StartInv /\ JournalAgrees /\ OneLiveAction
  BY DEF IInv
<1>2. /\ phase[r][t] \in {"running", "cancel_requested"}
      /\ x \in Report(r, t)
      /\ tail[r] = [state |-> state[r], mark |-> mark[r]]
      /\ fact' = [fact EXCEPT ![r][t] = x.fact]
      /\ phase' = [phase EXCEPT ![r][t] = x.phase]
      /\ owed' = owed \union {r}
      /\ UNCHANGED <<bound, recovery, mutating, mutated, seen, lease, sup, mu, h,
                     server, todo, budget>>
  BY DEF CompleteTask, agents, locks
<1>3. x.phase \in TerminalPhase /\ x.fact \in {"none", "passed", "failed"}
  BY <1>2 DEF Report, TerminalPhase
<1>4. /\ phase' \in [Run -> [Task -> Phase]]
      /\ phase'[r][t] = x.phase
      /\ \A q \in Run : \A u \in Task : q # r \/ u # t => phase'[q][u] = phase[q][u]
  <2>1. x.phase \in Phase /\ t \in Task
    BY <1>3, TaskTypes DEF TerminalPhase, Phase
  <2>2. TypeOK /\ phase' = [phase EXCEPT ![r][t] = x.phase]
    BY <1>1, <1>2
  <2>3. phase \in [Run -> [Task -> Phase]]
    BY <1>1 DEF TypeOK
  <2>4. QED
    BY <2>1, <2>2, <2>3
<1>5. PICK m \in Checkpoint : Record(r, state[r], m)
  <2>1. CanceledMark(x.phase) \in Checkpoint
    BY MarkTypes DEF CanceledMark, PlainMark
  <2>2. stagedActionResultCheckpoint(t, x.phase) \in Checkpoint
    BY <1>3, MarkTypes DEF TerminalPhase, Phase
  <2>3. \/ Record(r, state[r], CanceledMark(x.phase))
        \/ Record(r, state[r], stagedActionResultCheckpoint(t, x.phase))
    BY Zenon DEF CompleteTask
  <2>4. QED
    BY <2>1, <2>2, <2>3
<1>6. state[r] \in State
  BY <1>1 DEF TypeOK
<1>7. /\ state' \in [Run -> State] /\ mark' \in [Run -> Checkpoint]
      /\ tail' \in [Run -> Entry]
      /\ tail'[r] = [state |-> state'[r], mark |-> mark'[r]] /\ tail'[r] # NoEntry
      /\ state'[r] = state[r]
      /\ \A q \in Run \ {r} : /\ state'[q] = state[q] /\ mark'[q] = mark[q]
                              /\ tail'[q] = tail[q]
  BY <1>1, <1>5, <1>6, RecordOK
<1>8. fact' \in [Run -> [ActionTask -> {"none", "passed", "failed"}]]
  BY <1>1, <1>2, <1>3 DEF TypeOK
<1>9. TypeOK'
  BY <1>1, <1>2, <1>4, <1>7, <1>8 DEF TypeOK
<1>10. Stable
  BY <1>2, <1>4 DEF Stable, TerminalPhase
<1>11. HandlerInv'
  BY <1>2, <1>10, HandlersRest
<1>12. OneLiveAction'
  BY <1>1, <1>2, <1>3, <1>4 DEF OneLiveAction, LivePhase, TerminalPhase
<1>13. \A q \in Run : PlanningOver(q) => PlanningOver(q)'
  BY <1>10, TaskTypes DEF Stable, PlanningOver
<1>14. tail[r] # NoEntry
  BY <1>1, <1>2, EntryType DEF TypeOK
<1>15. StartInv'
  BY <1>1, <1>2, <1>7, <1>13, <1>14 DEF StartInv
<1>16. JournalAgrees'
  BY <1>1, <1>2, <1>7 DEF JournalAgrees
<1>17. QED
  BY <1>9, <1>10, <1>11, <1>12, <1>15, <1>16 DEF IInv

\* The mutation, its end and an executor's heartbeat touch only the nodes.
LEMMA NodeStepKept ==
  ASSUME IInv, NEW r \in Run, NEW t \in ActionTask,
         BeginMutation(r, t) \/ EndMutation(r, t) \/ ObserveExecutor(r, t)
  PROVE  IInv' /\ Stable
<1>1. UNCHANGED <<state, mark, bound, recovery, tail, fact, phase, lease, sup, mu, h,
                  server, todo, owed, budget>>
  BY DEF BeginMutation, EndMutation, ObserveExecutor, run, work, locks, proc
<1>2. /\ mutating' \subseteq Run \X ActionTask
      /\ mutated' \subseteq Run \X ActionTask
      /\ seen' \subseteq Run \X ActionTask
  BY DEF IInv, TypeOK, BeginMutation, EndMutation, ObserveExecutor
<1>3. TypeOK'
  BY <1>1, <1>2 DEF IInv, TypeOK
<1>4. IInv'
  BY <1>1, <1>3, FrameKept
<1>5. QED
  BY <1>1, <1>4 DEF Stable

LEMMA AgentStepKept ==
  ASSUME IInv, NEW r \in Run, AgentStep(r)
  PROVE  IInv' /\ Stable
<1>1. CASE \E t \in Task : ClaimTask(r, t)
  BY <1>1, ClaimTaskKept
<1>2. CASE \E t \in Task : AcknowledgeTask(r, t)
  BY <1>2, AcknowledgeTaskKept
<1>3. CASE \E x \in PlanningReport(r) : CompletePlanning(r, x)
  BY <1>3, CompletePlanningKept
<1>4. CASE \E t \in ActionTask : BeginMutation(r, t) \/ EndMutation(r, t) \/ ObserveExecutor(r, t)
  BY <1>4, NodeStepKept
<1>5. CASE \E t \in ActionTask : \E x \in Report(r, t) : CompleteTask(r, t, x)
  BY <1>5, CompleteTaskKept
<1>6. QED
  BY <1>1, <1>2, <1>3, <1>4, <1>5, Zenon DEF AgentStep

-----------------------------------------------------------------------------
(* Requests.                                                               *)

\* A task is queued for a run whose earlier bounded action, if any, is over.
LEMMA QueueTaskKept ==
  ASSUME IInv, NEW r \in Run, NEW t \in ActionTask,
         phase[r][t] = "absent", QueueTask(r, t), PlanningOver(r),
         bound[r] = Planning \/ phase[r][bound[r]] \in TerminalPhase,
         UNCHANGED <<recovery, fact, mutating, mutated, seen>>,
         lease' \subseteq Run, sup' \in [Run -> {"none", "active", "failed"}],
         mu' \in Mutex, h' \in [Handler -> HandlerState],
         \A w \in Handler : h'[w] = h[w] \/ h'[w] = Idle,
         server' \in {"up", "down", "resuming"}, todo' \subseteq Run,
         owed' \subseteq Run, budget' = budget
  PROVE  IInv' /\ Stable
<1>1. TypeOK /\ HandlerInv /\ StartInv /\ JournalAgrees /\ OneLiveAction
  BY DEF IInv
<1>2. /\ Record(r, operationActionState(t), QueuedMark(t))
      /\ bound' = [bound EXCEPT ![r] = t]
      /\ phase' = [phase EXCEPT ![r][t] = "pending"]
  BY DEF QueueTask
<1>3. t \in Task /\ t # Planning
  BY TaskTypes
<1>4. /\ phase' \in [Run -> [Task -> Phase]]
      /\ phase'[r][t] = "pending"
      /\ \A q \in Run : \A u \in Task : q # r \/ u # t => phase'[q][u] = phase[q][u]
  BY <1>1, <1>2, <1>3, PhaseOK DEF Phase
<1>5. operationActionState(t) \in State
  BY ActionStateType DEF State
<1>6. /\ state' \in [Run -> State] /\ mark' \in [Run -> Checkpoint]
      /\ tail' \in [Run -> Entry]
      /\ tail'[r] = [state |-> state'[r], mark |-> mark'[r]] /\ tail'[r] # NoEntry
      /\ state'[r] = operationActionState(t)
      /\ \A q \in Run \ {r} : /\ state'[q] = state[q] /\ mark'[q] = mark[q]
                              /\ tail'[q] = tail[q]
  <2>1. QueuedMark(t) \in Checkpoint
    BY <1>3, MarkTypes
  <2>2. Record(r, operationActionState(t), QueuedMark(t))
    BY <1>2
  <2>3. TypeOK
    BY <1>1
  <2>4. QED
    BY <1>5, <2>1, <2>2, <2>3, RecordOK
<1>7. bound' \in [Run -> Task] /\ bound'[r] = t /\ \A q \in Run \ {r} : bound'[q] = bound[q]
  BY <1>1, <1>2, <1>3 DEF TypeOK
<1>8. TypeOK'
  BY <1>1, <1>4, <1>6, <1>7 DEF TypeOK
<1>9. Stable
  BY <1>3, <1>4, <1>7 DEF Stable, TerminalPhase
<1>10. HandlerInv'
  BY <1>1, <1>9, HandlerInvKept
<1>11. \A q \in Run : PlanningOver(q) => PlanningOver(q)'
  BY <1>9, TaskTypes DEF Stable, PlanningOver
<1>12. StartInv'
  <2>1. state'[r] \in {"creating_restore_point", "running", "verifying", "rolling_back"}
    BY <1>6, ActionStateType
  <2>2. PlanningOver(r)' /\ tail'[r] # NoEntry
    BY <1>6, <1>11
  <2>3. QED
    BY <1>1, <1>6, <1>7, <1>11, <2>1, <2>2 DEF StartInv
<1>13. JournalAgrees'
  <2>1. /\ tail'[r] # NoEntry
        /\ tail'[r] = [state |-> state'[r], mark |-> mark'[r]]
    BY <1>6
  <2>2. \A q \in Run \ {r} : /\ state'[q] = state[q] /\ mark'[q] = mark[q]
                            /\ tail'[q] = tail[q] /\ bound'[q] = bound[q]
    BY <1>6, <1>7
  <2>3. QED
    BY <1>1, <2>1, <2>2 DEF JournalAgrees
<1>14. OneLiveAction'
  <2>1. SUFFICES ASSUME NEW q \in Run, NEW u \in Task, phase'[q][u] \in LivePhase
                 PROVE  u = bound'[q]
    BY DEF OneLiveAction
  <2>2. CASE q # r
    BY <1>1, <1>4, <1>7, <2>1, <2>2 DEF OneLiveAction
  <2>3. CASE q = r /\ u # t
    <3>1. phase[r][u] \in LivePhase
      BY <1>4, <2>1, <2>3
    <3>2. u = bound[r]
      BY <1>1, <3>1 DEF OneLiveAction
    <3>3. phase[r][u] \in TerminalPhase
      BY <3>2 DEF PlanningOver
    <3>4. QED
      BY <3>1, <3>3 DEF LivePhase, TerminalPhase
  <2>4. QED
    BY <1>7, <2>2, <2>3
<1>15. QED
  BY <1>8, <1>9, <1>10, <1>12, <1>13, <1>14 DEF IInv

\* The run of r moves to a state past its queue, or through it, and nothing
\* about its tasks changes.
LEMMA RecordKept ==
  ASSUME IInv, NEW r \in Run, NEW s \in State, NEW m \in Checkpoint, Record(r, s, m),
         PlanningOver(r),
         s \in {"awaiting_confirmation", "queued", "acquiring_lock"} => bound[r] = Planning,
         recovery' \in [Run -> Recovery],
         UNCHANGED <<bound, fact, phase, mutating, mutated, seen>>,
         lease' \subseteq Run, sup' \in [Run -> {"none", "active", "failed"}],
         mu' \in Mutex, h' \in [Handler -> HandlerState], HandlerInv',
         server' \in {"up", "down", "resuming"}, todo' \subseteq Run,
         owed' \subseteq Run, budget' = budget
  PROVE  IInv' /\ Stable
<1>1. TypeOK /\ StartInv /\ JournalAgrees /\ OneLiveAction
  BY DEF IInv
<1>2. /\ state' \in [Run -> State] /\ mark' \in [Run -> Checkpoint]
      /\ tail' \in [Run -> Entry]
      /\ tail'[r] = [state |-> state'[r], mark |-> mark'[r]] /\ tail'[r] # NoEntry
      /\ state'[r] = s
      /\ \A q \in Run \ {r} : /\ state'[q] = state[q] /\ mark'[q] = mark[q]
                              /\ tail'[q] = tail[q]
  BY <1>1, RecordOK
<1>3. TypeOK'
  BY <1>1, <1>2 DEF TypeOK
<1>4. StartInv'
  BY <1>1, <1>2 DEF StartInv, PlanningOver
<1>5. JournalAgrees'
  BY <1>1, <1>2 DEF JournalAgrees
<1>6. OneLiveAction'
  BY <1>1 DEF OneLiveAction
<1>7. QED
  BY <1>3, <1>4, <1>5, <1>6 DEF IInv, Stable

\* A step of a request or of the supervisor that changes only the lease, the
\* mutex or the bookkeeping of the process.
LEMMA ProcessStepKept ==
  ASSUME IInv,
         UNCHANGED <<state, mark, bound, recovery, tail, fact, phase,
                     mutating, mutated, seen>>,
         lease' \subseteq Run, sup' \in [Run -> {"none", "active", "failed"}],
         mu' \in Mutex, h' \in [Handler -> HandlerState],
         \A w \in Handler : h'[w] = h[w] \/ h'[w] = Idle,
         server' \in {"up", "down", "resuming"}, todo' \subseteq Run, owed' \subseteq Run,
         budget' \in [crash : 0 .. MaxCrashes, abort : 0 .. MaxAborts,
                      renewal : 0 .. MaxRenewalFailures]
  PROVE  IInv' /\ Stable
<1>1. TypeOK'
  BY DEF IInv, TypeOK
<1>2. IInv'
  BY <1>1, FrameKept
<1>3. QED
  BY <1>2 DEF Stable

LEMMA MutexStepKept ==
  ASSUME IInv, NEW r \in Run, MutexStep(r)
  PROVE  IInv' /\ Stable
<1>1. TypeOK /\ HandlerInv /\ StartInv
  BY DEF IInv
<1>2. \A op \in {"confirm", "leased", "hold", "giveback"} : Enter(r, op) => mu' \in Mutex
  BY MutexTypes DEF Enter
<1>3. Leave => mu' \in Mutex
  BY MutexTypes DEF Leave
<1>4. CASE ConfirmLease(r)
  BY <1>1, <1>2, <1>4, LeaseTypes, ProcessStepKept
     DEF ConfirmLease, TypeOK, run, work, agents
<1>5. CASE ConfirmRefused(r)
  BY <1>1, <1>3, <1>5, ProcessStepKept DEF ConfirmRefused, TypeOK, run, work, agents, locks
<1>6. CASE ReadCanceledTask(r)
  <2>1. mu' \in Mutex
    BY <1>2, <1>6 DEF ReadCanceledTask
  <2>2. QED
    BY <1>1, <1>6, <2>1, ProcessStepKept DEF ReadCanceledTask, TypeOK, run, work, agents, locks
<1>7. CASE ReconcileLease(r)
  <2>1. EnsureLease(r) \/ ResumeAndRelease(r)
    BY <1>7 DEF ReconcileLease
  <2>2. lease' \subseteq Run /\ sup' \in [Run -> {"none", "active", "failed"}]
    BY <1>1, <2>1, LeaseTypes
  <2>3. QED
    BY <1>1, <1>3, <1>7, <2>2, ProcessStepKept DEF ReconcileLease, TypeOK, run, work, agents
<1>8. CASE ReconcileRefused(r)
  BY <1>1, <1>3, <1>8, ProcessStepKept DEF ReconcileRefused, TypeOK, run, work, agents, locks
<1>9. CASE ConfirmAdvance(r)
  <2>1. /\ Enter(r, "confirm")
        /\ UNCHANGED <<bound, recovery, fact, phase, mutating, mutated, seen, lease, sup, h,
                       server, todo, owed, budget>>
    BY <1>9 DEF ConfirmAdvance, work, agents, locks
  <2>2. state[r] \in {"awaiting_confirmation", "queued"}
    BY <1>9 DEF ConfirmAdvance
  <2>3. PlanningOver(r) /\ bound[r] = Planning
    BY <1>1, <2>2 DEF StartInv
  <2>4. HandlerInv'
    <3>1. Stable
      BY <2>1 DEF Stable
    <3>2. QED
      BY <2>1, <3>1, HandlersRest
  <2>5. \/ Record(r, "queued", Mark("confirmed_and_queued"))
        \/ Record(r, "acquiring_lock", Mark("lease_acquired"))
    BY <1>9 DEF ConfirmAdvance
  <2>6. PICK s \in State, m \in Checkpoint : Record(r, s, m)
    BY <2>5, MarkTypes DEF State, PlainMark
  <2>7. QED
    BY <1>1, <1>2, <2>1, <2>3, <2>4, <2>6, RecordKept DEF TypeOK
<1>10. CASE ConfirmQueue(r)
  <2>1. /\ state[r] = "acquiring_lock" /\ CanQueue(r, bound[r], FirstTask)
        /\ QueueTask(r, FirstTask) /\ Leave
        /\ UNCHANGED <<recovery, fact, mutating, mutated, seen, lease, sup, h, server, todo,
                       owed, budget>>
    BY <1>10 DEF ConfirmQueue, agents, locks
  <2>2. PlanningOver(r) /\ bound[r] = Planning
    BY <1>1, <2>1 DEF StartInv
  <2>3. phase[r][FirstTask] = "absent" /\ FirstTask \in ActionTask
    BY <2>1, TaskTypes DEF CanQueue
  <2>4. QED
    BY <1>1, <1>3, <2>1, <2>2, <2>3, QueueTaskKept DEF TypeOK
<1>11. QED
  BY <1>4, <1>5, <1>6, <1>7, <1>8, <1>9, <1>10 DEF MutexStep

\* What a cancellation does to the task the run is bound to.
LEMMA CancelTaskOK ==
  ASSUME IInv, NEW r \in Run, CancelTaskOf(r), bound' = bound
  PROVE  /\ phase' \in [Run -> [Task -> Phase]]
         /\ Stable /\ OneLiveAction'
<1>1. TypeOK /\ OneLiveAction
  BY DEF IInv
<1>2. bound[r] \in Task /\ phase[r][bound[r]] \in Phase
  BY <1>1 DEF TypeOK
<1>3. PICK p \in Phase :
        /\ phase' = [phase EXCEPT ![r][bound[r]] = p]
        /\ phase[r][bound[r]] \in TerminalPhase => p = phase[r][bound[r]]
  <2> DEFINE old == phase[r][bound[r]]
             p == IF old = "pending" THEN "canceled"
                  ELSE IF old \in LivePhase THEN "cancel_requested" ELSE old
  <2>1. phase' = [phase EXCEPT ![r][bound[r]] = p]
    BY DEF CancelTaskOf
  <2>2. p \in Phase /\ (old \in TerminalPhase => p = old)
    BY <1>2 DEF LivePhase, TerminalPhase, Phase
  <2>3. QED
    BY <2>1, <2>2
<1>4. /\ phase' \in [Run -> [Task -> Phase]]
      /\ phase'[r][bound[r]] = p
      /\ \A q \in Run : \A u \in Task : q # r \/ u # bound[r] => phase'[q][u] = phase[q][u]
  <2>1. phase \in [Run -> [Task -> Phase]]
    BY <1>1 DEF TypeOK
  <2>2. QED
    BY <1>2, <1>3, <2>1
<1>5. Stable
  BY <1>3, <1>4 DEF Stable
<1>6. OneLiveAction'
  BY <1>1, <1>4 DEF OneLiveAction
<1>7. QED
  BY <1>4, <1>5, <1>6

LEMMA UserStepKept ==
  ASSUME IInv, NEW r \in Run, UserStep(r)
  PROVE  IInv' /\ Stable
<1>1. TypeOK /\ HandlerInv /\ StartInv /\ JournalAgrees /\ OneLiveAction
  BY DEF IInv
<1>2. \A op \in {"confirm", "reconcile"} : Enter(r, op) => mu' \in Mutex
  BY MutexTypes DEF Enter
<1>3. CASE ConfirmOperationRun(r)
  BY <1>1, <1>2, <1>3, ProcessStepKept
     DEF ConfirmOperationRun, TypeOK, run, work, agents, locks
<1>4. CASE CancelAgain(r)
  BY <1>1, <1>2, <1>4, ProcessStepKept DEF CancelAgain, TypeOK, run, work, agents, locks
<1>5. CASE CancelBeforeApply(r)
  <2> DEFINE m == Mark("canceled_before_apply")
             e == [state |-> "canceled_before_apply", mark |-> m]
  <2>1. /\ CancelTaskOf(r)
        /\ state' = [state EXCEPT ![r] = "canceled_before_apply"]
        /\ mark' = [mark EXCEPT ![r] = m]
        /\ tail' = IF tail[r] = NoEntry THEN tail ELSE [tail EXCEPT ![r] = e]
        /\ Enter(r, "reconcile")
        /\ UNCHANGED <<bound, recovery, fact, mutating, mutated, seen, lease, sup, h, server,
                       todo, owed, budget>>
    BY <1>5 DEF CancelBeforeApply, agents, locks
  <2>2. phase' \in [Run -> [Task -> Phase]] /\ Stable /\ OneLiveAction'
    BY <2>1, CancelTaskOK
  <2>3. m \in Checkpoint /\ "canceled_before_apply" \in State
    BY MarkTypes DEF PlainMark, State
  <2> HIDE DEF m
  <2>4. e \in Entry /\ e # NoEntry
    BY <2>3, EntryType
  <2>5. state' \in [Run -> State] /\ mark' \in [Run -> Checkpoint] /\ tail' \in [Run -> Entry]
    BY <1>1, <2>1, <2>3, <2>4 DEF TypeOK
  <2>6. /\ state'[r] = "canceled_before_apply" /\ mark'[r] = m
        /\ tail'[r] = IF tail[r] = NoEntry THEN NoEntry ELSE e
        /\ \A q \in Run \ {r} : /\ state'[q] = state[q] /\ mark'[q] = mark[q]
                                /\ tail'[q] = tail[q]
    BY <1>1, <2>1 DEF TypeOK
  <2>7. TypeOK'
    BY <1>1, <1>2, <2>1, <2>2, <2>5 DEF TypeOK
  <2>8. \A q \in Run : PlanningOver(q) => PlanningOver(q)'
    BY <2>2, TaskTypes DEF Stable, PlanningOver
  <2>9. StartInv'
    BY <1>1, <2>1, <2>4, <2>6, <2>8 DEF StartInv
  <2>10. JournalAgrees'
    BY <1>1, <2>1, <2>4, <2>6 DEF JournalAgrees, StartInv, RequiresJournal
  <2>11. HandlerInv'
    BY <2>1, <2>2, HandlersRest
  <2>12. QED
    BY <2>2, <2>7, <2>9, <2>10, <2>11 DEF IInv
<1>6. CASE CancelContained(r)
  <2> DEFINE t == bound[r]
             m == IF phase[r][t] = "pending"
                  THEN stagedActionResultCheckpoint(t, "canceled") ELSE mark[r]
  <2>1. /\ state[r] = "creating_restore_point"
        /\ CancelTaskOf(r)
        /\ \/ UNCHANGED <<state, mark, tail, recovery>>
           \/ /\ Record(r, state[r], m)
              /\ recovery' = [recovery EXCEPT ![r] = "cancellation_requested"]
        /\ owed' = owed \union {r}
        /\ UNCHANGED <<bound, fact, mutating, mutated, seen, lease, sup, mu, h, server,
                       todo, budget>>
    BY <1>6 DEF CancelContained, ContainmentCancellation, agents, locks
  <2>2. phase' \in [Run -> [Task -> Phase]] /\ Stable /\ OneLiveAction'
    BY <2>1, CancelTaskOK
  <2>3. HandlerInv'
    BY <2>1, <2>2, HandlersRest
  <2>4. \A q \in Run : PlanningOver(q) => PlanningOver(q)'
    BY <2>2, TaskTypes DEF Stable, PlanningOver
  <2>5. CASE UNCHANGED <<state, mark, tail, recovery>>
    <3>1. TypeOK'
      BY <1>1, <2>1, <2>2, <2>5 DEF TypeOK
    <3>2. StartInv' /\ JournalAgrees'
      BY <1>1, <2>1, <2>4, <2>5 DEF StartInv, JournalAgrees
    <3>3. QED
      BY <2>2, <2>3, <3>1, <3>2 DEF IInv
  <2>6. CASE /\ Record(r, state[r], m)
             /\ recovery' = [recovery EXCEPT ![r] = "cancellation_requested"]
    <3>1. m \in Checkpoint
      <4>1. phase[r][t] = "pending" => t \in ActionTask
        BY <1>1, <2>1 DEF StartInv, PlanningOver, TerminalPhase, TypeOK, Task
      <4>2. phase[r][t] = "pending" => stagedActionResultCheckpoint(t, "canceled") \in Checkpoint
        BY <4>1, MarkTypes DEF Phase
      <4>3. QED
        BY <1>1, <4>2 DEF TypeOK
    <3>2. state[r] \in State
      BY <1>1 DEF TypeOK
    <3> HIDE DEF m
    <3>3. /\ state' \in [Run -> State] /\ mark' \in [Run -> Checkpoint]
          /\ tail' \in [Run -> Entry]
          /\ tail'[r] = [state |-> state'[r], mark |-> mark'[r]] /\ tail'[r] # NoEntry
          /\ state'[r] = state[r]
          /\ \A q \in Run \ {r} : /\ state'[q] = state[q] /\ mark'[q] = mark[q]
                                  /\ tail'[q] = tail[q]
      BY <1>1, <2>6, <3>1, <3>2, RecordOK
    <3>4. recovery' \in [Run -> Recovery]
      BY <1>1, <2>6 DEF TypeOK, Recovery
    <3>5. TypeOK'
      BY <1>1, <2>1, <2>2, <3>3, <3>4 DEF TypeOK
    <3>6. StartInv'
      BY <1>1, <2>1, <2>4, <3>3 DEF StartInv
    <3>7. JournalAgrees'
      BY <1>1, <2>1, <3>3 DEF JournalAgrees
    <3>8. QED
      BY <2>2, <2>3, <3>5, <3>6, <3>7 DEF IInv
  <2>7. QED
    BY <2>1, <2>5, <2>6
<1>7. QED
  BY <1>3, <1>4, <1>5, <1>6 DEF UserStep

-----------------------------------------------------------------------------
(* The continuation, the restart and the faults.                           *)

LEMMA DecideKept ==
  ASSUME IInv, NEW w \in Handler, NEW r \in Run, Decide(w, r)
  PROVE  IInv' /\ Stable
<1>1. TypeOK /\ HandlerInv
  BY DEF IInv
<1>2. PICK d \in Decisions(r) : h' = [h EXCEPT ![w] = [pc |-> "decided", run |-> r, d |-> d]]
  BY DEF Decide
<1>3. UNCHANGED <<state, mark, bound, recovery, tail, fact, phase, mutating, mutated, seen,
                  lease, sup, mu, server, todo, owed, budget>>
  BY DEF Decide, run, work, agents, locks
<1>4. \/ DecisionOK(d) /\ d.kind = "settle"
      \/ AboutTask(d, bound[r]) /\ bound[r] # Planning /\ phase[r][bound[r]] \in TerminalPhase
  BY <1>1, DecisionsOK
<1>5. DecisionOK(d) /\ d \in Decision
  BY <1>4 DEF AboutTask, DecisionOK
<1> DEFINE x == [pc |-> "decided", run |-> r, d |-> d]
<1>6. x \in HandlerState
  BY <1>5 DEF HandlerState
<1>7. x.pc = "decided" /\ x.run = r /\ x.d = d
  OBVIOUS
<1> HIDE DEF x
<1>8. h' \in [Handler -> HandlerState] /\ h'[w] = x /\ \A v \in Handler \ {w} : h'[v] = h[v]
  BY <1>1, <1>2, <1>6, HandlerTypes DEF x
<1>9. TypeOK'
  BY <1>1, <1>3, <1>8 DEF TypeOK
<1>10. HandlerInv'
  <2>1. SUFFICES ASSUME NEW v \in Handler, h'[v].pc # "idle"
                 PROVE  /\ h'[v].run \in Run
                        /\ DecisionOK(h'[v].d)
                        /\ h'[v].pc = "leased" => h'[v].d.kind \in {"queue", "contain"}
                        /\ h'[v].pc = "release" => h'[v].d.kind = "advance"
                        /\ h'[v].d.kind \in {"queue", "contain"} =>
                             phase[h'[v].run][h'[v].d.done] \in TerminalPhase
                        /\ h'[v].d.kind \in {"queue", "contain", "advance"} =>
                             bound[h'[v].run] # Planning
    BY <1>3 DEF HandlerInv
  <2>2. CASE v = w
    BY <1>4, <1>5, <1>7, <1>8, <2>2 DEF AboutTask
  <2>3. CASE v # w
    BY <1>1, <1>8, <2>1, <2>3 DEF HandlerInv
  <2>4. QED
    BY <2>2, <2>3
<1>11. StartInv' /\ JournalAgrees' /\ OneLiveAction'
  BY <1>3 DEF IInv, StartInv, PlanningOver, JournalAgrees, OneLiveAction
<1>12. QED
  BY <1>3, <1>9, <1>10, <1>11 DEF IInv, Stable

\* A handler goes on to its next step with a decision about the same task.
LEMMA HandlerGoesOn ==
  ASSUME IInv, NEW w \in Handler, NEW x \in HandlerState,
         h' = [h EXCEPT ![w] = x], h[w].pc # "idle",
         x.run = h[w].run, DecisionOK(x.d),
         x.pc = "leased" => x.d.kind \in {"queue", "contain"},
         x.pc = "release" => x.d.kind = "advance",
         x.d.kind # "settle" /\ x.d.kind # "nothing",
         x.d.kind \in {"queue", "contain"} => x.d = h[w].d,
         h[w].d.kind \in {"queue", "contain", "advance"},
         UNCHANGED <<bound, phase>>
  PROVE  h' \in [Handler -> HandlerState] /\ HandlerInv'
<1>1. TypeOK /\ HandlerInv
  BY DEF IInv
<1>2. h' \in [Handler -> HandlerState] /\ h'[w] = x /\ \A v \in Handler \ {w} : h'[v] = h[v]
  BY <1>1, HandlerTypes
<1>3. SUFFICES ASSUME NEW v \in Handler, h'[v].pc # "idle"
               PROVE  /\ h'[v].run \in Run
                      /\ DecisionOK(h'[v].d)
                      /\ h'[v].pc = "leased" => h'[v].d.kind \in {"queue", "contain"}
                      /\ h'[v].pc = "release" => h'[v].d.kind = "advance"
                      /\ h'[v].d.kind \in {"queue", "contain"} =>
                           phase[h'[v].run][h'[v].d.done] \in TerminalPhase
                      /\ h'[v].d.kind \in {"queue", "contain", "advance"} =>
                           bound[h'[v].run] # Planning
  BY <1>2 DEF HandlerInv
<1>4. CASE v = w
  BY <1>1, <1>2, <1>4 DEF HandlerInv
<1>5. CASE v # w
  BY <1>1, <1>2, <1>3, <1>5 DEF HandlerInv
<1>6. QED
  BY <1>4, <1>5

\* HandlerGoesOn, when nothing but the lease changes besides.
LEMMA HandlerGoesOnKept ==
  ASSUME IInv, HandlerInv', h' \in [Handler -> HandlerState],
         lease' \subseteq Run, sup' \in [Run -> {"none", "active", "failed"}],
         UNCHANGED <<state, mark, bound, recovery, tail, fact, phase, mutating, mutated, seen,
                     mu, server, todo, owed, budget>>
  PROVE  IInv' /\ Stable
<1>1. TypeOK'
  BY DEF IInv, TypeOK
<1>2. StartInv' /\ JournalAgrees' /\ OneLiveAction'
  BY DEF IInv, StartInv, PlanningOver, JournalAgrees, OneLiveAction
<1>3. QED
  BY <1>1, <1>2 DEF IInv, Stable

LEMMA EnsureForContinuationKept ==
  ASSUME IInv, NEW w \in Handler, EnsureForContinuation(w)
  PROVE  IInv' /\ Stable
<1>1. TypeOK /\ HandlerInv
  BY DEF IInv
<1>2. /\ h[w].pc = "decided" /\ h[w].d.kind \in {"queue", "contain"}
      /\ EnsureLease(h[w].run) /\ h' = [h EXCEPT ![w].pc = "leased"]
      /\ UNCHANGED <<state, mark, bound, recovery, tail, fact, phase, mutating, mutated, seen,
                     mu, server, todo, owed, budget>>
  BY DEF EnsureForContinuation, NeedsLease, run, work, agents
<1>3. h[w].run \in Run /\ DecisionOK(h[w].d) /\ h[w] \in HandlerState
  BY <1>1, <1>2 DEF HandlerInv, TypeOK
<1>4. lease' \subseteq Run /\ sup' \in [Run -> {"none", "active", "failed"}]
  BY <1>1, <1>2, <1>3, LeaseTypes
<1> DEFINE x == [h[w] EXCEPT !.pc = "leased"]
<1>5. h' = [h EXCEPT ![w] = x]
  BY <1>2
<1>6. x \in HandlerState /\ x.pc = "leased" /\ x.run = h[w].run /\ x.d = h[w].d
  BY <1>3 DEF HandlerState
<1> HIDE DEF x
<1>7. h' \in [Handler -> HandlerState] /\ HandlerInv'
  BY <1>2, <1>3, <1>5, <1>6, HandlerGoesOn
<1>8. QED
  BY <1>2, <1>4, <1>7, HandlerGoesOnKept

LEMMA FallBackKept ==
  ASSUME IInv, NEW w \in Handler, FallBack(w),
         h[w].pc # "idle", h[w].d.kind \in {"queue", "contain"},
         UNCHANGED <<run, work, agents, locks, mu, server, todo, owed, budget>>
  PROVE  IInv' /\ Stable
<1> DEFINE d == Advance("interrupted", Mark("cancellation_requires_reconcile"),
                        "cancellation_requires_reconcile", FALSE)
           x == [h[w] EXCEPT !.pc = "decided", !.d = d]
<1>1. TypeOK /\ HandlerInv
  BY DEF IInv
<1>2. h[w].run \in Run /\ h[w] \in HandlerState
  BY <1>1 DEF HandlerInv, TypeOK
<1>3. DecisionOK(d) /\ d.kind = "advance"
  <2>1. /\ Mark("cancellation_requires_reconcile") \in Checkpoint
        /\ "interrupted" \in ContinuedState
        /\ "cancellation_requires_reconcile" \in Recovery
    BY MarkTypes DEF ContinuedState, PlainMark, Recovery
  <2>2. QED
    BY <2>1, AdvanceOK, FALSE \in BOOLEAN
<1>4. h' = [h EXCEPT ![w] = x]
  <2>1. h' = [h EXCEPT ![w].pc = "decided", ![w].d = d]
    BY DEF FallBack
  <2> HIDE DEF d
  <2>2. QED
    BY <1>1, <2>1 DEF TypeOK
<1> HIDE DEF d
<1>5. x \in HandlerState /\ x.pc = "decided" /\ x.run = h[w].run /\ x.d = d
  BY <1>2, <1>3 DEF HandlerState, DecisionOK
<1> HIDE DEF x
<1>6. UNCHANGED <<state, mark, bound, recovery, tail, fact, phase, mutating, mutated, seen,
                  lease, sup, mu, server, todo, owed, budget>>
  BY DEF run, work, agents, locks
<1>7. h' \in [Handler -> HandlerState] /\ HandlerInv'
  BY <1>3, <1>4, <1>5, <1>6, HandlerGoesOn
<1>8. lease' \subseteq Run /\ sup' \in [Run -> {"none", "active", "failed"}]
  BY <1>1, <1>6 DEF TypeOK
<1>9. QED
  BY <1>6, <1>7, <1>8, HandlerGoesOnKept

LEMMA CommitQueueKept ==
  ASSUME IInv, NEW w \in Handler, CommitQueue(w)
  PROVE  IInv' /\ Stable
<1> DEFINE r == h[w].run
           d == h[w].d
<1>1. TypeOK /\ HandlerInv /\ StartInv
  BY DEF IInv
<1>2. /\ h[w].pc # "idle" /\ QueueAccepted(w) /\ QueueTask(r, d.next) /\ Finish(w)
      /\ UNCHANGED <<recovery, fact, mutating, mutated, seen, lease, sup, budget>>
  BY DEF CommitQueue, Queueing, agents, locks
<1>3. d.kind \in {"queue", "contain"}
  BY <1>1, <1>2 DEF CommitQueue, Queueing, HandlerInv
<1>4. /\ r \in Run /\ d.next \in ActionTask /\ d.done \in ActionTask
      /\ phase[r][d.done] \in TerminalPhase /\ bound[r] # Planning
  BY <1>1, <1>2, <1>3 DEF HandlerInv, DecisionOK
<1>5. bound[r] = d.done /\ phase[r][d.next] = "absent"
  BY <1>2 DEF QueueAccepted, CanQueue
<1>6. PlanningOver(r)
  BY <1>1, <1>4 DEF StartInv
<1> HIDE DEF d
<1>7. /\ h' \in [Handler -> HandlerState]
      /\ mu' \in Mutex /\ server' \in {"up", "down", "resuming"}
      /\ todo' \subseteq Run /\ owed' \subseteq Run
      /\ \A v \in Handler : h'[v] = h[v] \/ h'[v] = Idle
  BY <1>1, <1>2, <1>4, FinishOK
<1>8. lease' \subseteq Run /\ sup' \in [Run -> {"none", "active", "failed"}]
  BY <1>1, <1>2 DEF TypeOK
<1> HIDE DEF r
<1>9. QED
  BY <1>2, <1>4, <1>5, <1>6, <1>7, <1>8, QueueTaskKept

LEMMA CommitAdvanceKept ==
  ASSUME IInv, NEW w \in Handler, CommitAdvance(w)
  PROVE  IInv' /\ Stable
<1> DEFINE r == h[w].run
           d == h[w].d
<1>1. TypeOK /\ HandlerInv /\ StartInv
  BY DEF IInv
<1>2. /\ h[w].pc = "decided" /\ d.kind = "advance"
      /\ Record(r, d.state, d.mark)
      /\ recovery' = IF d.recovery = "none" THEN recovery
                     ELSE [recovery EXCEPT ![r] = d.recovery]
      /\ \/ h' = [h EXCEPT ![w].pc = "release"] /\ UNCHANGED <<mu, server, todo, owed>>
         \/ Finish(w)
      /\ UNCHANGED <<bound, fact, phase, mutating, mutated, seen, lease, sup, budget>>
  BY DEF CommitAdvance, Advancing, work, agents, locks
<1>3. /\ r \in Run /\ DecisionOK(d) /\ d.state \in ContinuedState
      /\ bound[r] # Planning /\ h[w] \in HandlerState
  BY <1>1, <1>2 DEF HandlerInv, DecisionOK, TypeOK
<1>4. d.state \in State /\ d.mark \in Checkpoint /\ d.recovery \in Recovery
  BY <1>3 DEF DecisionOK, Decision
<1>5. PlanningOver(r)
  BY <1>1, <1>3 DEF StartInv
<1>6. d.state \notin {"awaiting_confirmation", "queued", "acquiring_lock"}
  BY <1>3 DEF ContinuedState
<1>7. recovery' \in [Run -> Recovery]
  BY <1>1, <1>2, <1>4 DEF TypeOK
<1>8. /\ h' \in [Handler -> HandlerState] /\ HandlerInv'
      /\ mu' \in Mutex /\ server' \in {"up", "down", "resuming"}
      /\ todo' \subseteq Run /\ owed' \subseteq Run
  <2>1. CASE h' = [h EXCEPT ![w].pc = "release"] /\ UNCHANGED <<mu, server, todo, owed>>
    <3> DEFINE x == [h[w] EXCEPT !.pc = "release"]
    <3>1. h' = [h EXCEPT ![w] = x]
      BY <2>1
    <3>2. x \in HandlerState /\ x.pc = "release" /\ x.run = h[w].run /\ x.d = h[w].d
      BY <1>3 DEF HandlerState
    <3> HIDE DEF x
    <3>3. h' \in [Handler -> HandlerState] /\ HandlerInv'
      BY <1>2, <1>3, <3>1, <3>2, HandlerGoesOn
    <3>4. QED
      BY <1>1, <2>1, <3>3 DEF TypeOK
  <2>2. CASE Finish(w)
    <3>1. /\ h' \in [Handler -> HandlerState]
          /\ mu' \in Mutex /\ server' \in {"up", "down", "resuming"}
          /\ todo' \subseteq Run /\ owed' \subseteq Run
          /\ \A v \in Handler : h'[v] = h[v] \/ h'[v] = Idle
      BY <1>1, <1>3, <2>2, FinishOK
    <3>2. Stable
      BY <1>2 DEF Stable
    <3>3. QED
      BY <1>1, <3>1, <3>2, HandlerInvKept
  <2>3. QED
    BY <1>2, <2>1, <2>2
<1>9. lease' \subseteq Run /\ sup' \in [Run -> {"none", "active", "failed"}]
  BY <1>1, <1>2 DEF TypeOK
<1> HIDE DEF r, d
<1>10. QED
  BY <1>2, <1>3, <1>4, <1>5, <1>6, <1>7, <1>8, <1>9, RecordKept

\* The last step of a handler that only gives the lease back or holds it.
LEMMA FinishKept ==
  ASSUME IInv, NEW w \in Handler, h[w].run \in Run, Finish(w),
         lease' \subseteq Run, sup' \in [Run -> {"none", "active", "failed"}],
         UNCHANGED <<run, work, agents, budget>>
  PROVE  IInv' /\ Stable
<1>1. TypeOK
  BY DEF IInv
<1>2. /\ h' \in [Handler -> HandlerState]
      /\ mu' \in Mutex /\ server' \in {"up", "down", "resuming"}
      /\ todo' \subseteq Run /\ owed' \subseteq Run
      /\ \A v \in Handler : h'[v] = h[v] \/ h'[v] = Idle
  BY <1>1, FinishOK
<1>3. QED
  BY <1>1, <1>2, ProcessStepKept DEF TypeOK, run, work, agents

LEMMA HandlerStepKept ==
  ASSUME IInv, NEW w \in Handler, HandlerStep(w)
  PROVE  IInv' /\ Stable
<1>1. TypeOK /\ HandlerInv
  BY DEF IInv
<1>2. Fail(w) /\ h[w].pc # "idle" => IInv' /\ Stable
  BY FailOK DEF Fail, Stable, run, work
<1>3. CASE \E r \in Run : Decide(w, r)
  BY <1>3, DecideKept
<1>4. CASE \E r \in Run : DecideNothing(w, r)
  <2>1. PICK r \in Run : DecideNothing(w, r)
    BY <1>4
  <2>2. Served(r) /\ h' = h /\ UNCHANGED <<run, work, agents, locks, budget>>
    BY <2>1 DEF DecideNothing
  <2>3. mu' = mu /\ server' = server /\ todo' \subseteq Run /\ owed' \subseteq Run
    BY <1>1, <2>2, ServedOK
  <2>4. QED
    BY <1>1, <2>2, <2>3, ProcessStepKept DEF TypeOK, run, work, agents, locks
<1>5. CASE EnsureForContinuation(w)
  BY <1>5, EnsureForContinuationKept
<1>6. CASE EnsureRefused(w)
  BY <1>2, <1>6, FallBackKept DEF EnsureRefused, NeedsLease
<1>7. CASE CommitQueue(w)
  BY <1>7, CommitQueueKept
<1>8. CASE QueueRefused(w)
  BY <1>1, <1>2, <1>8, FallBackKept DEF QueueRefused, Queueing, HandlerInv
<1>9. CASE CommitAdvance(w)
  BY <1>9, CommitAdvanceKept
<1>10. CASE AdvanceRefused(w)
  BY <1>2, <1>10 DEF AdvanceRefused, Advancing
<1>11. CASE ReleaseLease(w)
  <2>1. h[w].run \in Run
    BY <1>1, <1>11 DEF ReleaseLease, HandlerInv
  <2>2. lease' \subseteq Run /\ sup' \in [Run -> {"none", "active", "failed"}]
    BY <1>1, <1>11 DEF ReleaseLease, TypeOK
  <2>3. QED
    BY <1>11, <2>1, <2>2, FinishKept DEF ReleaseLease
<1>12. CASE ReleaseRefused(w)
  BY <1>2, <1>12 DEF ReleaseRefused
<1>13. CASE SettleLease(w)
  <2>1. h[w].run \in Run
    BY <1>1, <1>13 DEF SettleLease, Settling, HandlerInv
  <2>2. EnsureLease(h[w].run) \/ ResumeAndRelease(h[w].run)
    BY <1>13 DEF SettleLease
  <2>3. lease' \subseteq Run /\ sup' \in [Run -> {"none", "active", "failed"}]
    BY <1>1, <2>1, <2>2, LeaseTypes
  <2>4. QED
    BY <1>13, <2>1, <2>3, FinishKept DEF SettleLease
<1>14. CASE SettleRefused(w)
  BY <1>2, <1>14 DEF SettleRefused, Settling
<1>15. QED
  BY <1>3, <1>4, <1>5, <1>6, <1>7, <1>8, <1>9, <1>10, <1>11, <1>12, <1>13, <1>14
     DEF HandlerStep

LEMMA RestartStepKept ==
  ASSUME IInv, RestartStep
  PROVE  IInv' /\ Stable
<1>1. TypeOK /\ HandlerInv /\ StartInv
  BY DEF IInv
<1>2. CASE Start
  BY <1>1, <1>2, ProcessStepKept DEF Start, TypeOK, run, work, agents, locks
<1>3. CASE Listen
  BY <1>1, <1>3, ProcessStepKept DEF Listen, TypeOK, run, work, agents, locks
<1>4. ASSUME NEW r \in Run, ResumeQueued(r)
      PROVE  IInv' /\ Stable
  <2>1. /\ state[r] = "queued" /\ EnsureLease(r)
        /\ Record(r, "acquiring_lock", Mark("lease_acquired"))
        /\ todo' = todo \ {r}
        /\ UNCHANGED <<bound, recovery, fact, phase, mutating, mutated, seen, mu, h, server,
                       owed, budget>>
    BY <1>4 DEF ResumeQueued, work, agents
  <2>2. PlanningOver(r) /\ bound[r] = Planning
    BY <1>1, <2>1 DEF StartInv
  <2>3. HandlerInv'
    <3>1. Stable
      BY <2>1 DEF Stable
    <3>2. QED
      BY <2>1, <3>1, HandlersRest
  <2>4. "acquiring_lock" \in State /\ Mark("lease_acquired") \in Checkpoint
    BY MarkTypes DEF State, PlainMark
  <2>5. lease' \subseteq Run /\ sup' \in [Run -> {"none", "active", "failed"}]
    BY <1>1, <2>1, LeaseTypes
  <2>6. QED
    BY <1>1, <2>1, <2>2, <2>3, <2>4, <2>5, RecordKept DEF TypeOK
<1>5. ASSUME NEW r \in Run, ResumeAcquiring(r)
      PROVE  IInv' /\ Stable
  <2>1. /\ state[r] = "acquiring_lock" /\ EnsureLease(r)
        /\ CanQueue(r, bound[r], FirstTask) /\ QueueTask(r, FirstTask)
        /\ todo' = todo \ {r}
        /\ UNCHANGED <<recovery, fact, mutating, mutated, seen, mu, h, server, owed, budget>>
    BY <1>5 DEF ResumeAcquiring, agents
  <2>2. PlanningOver(r) /\ bound[r] = Planning
    BY <1>1, <2>1 DEF StartInv
  <2>3. phase[r][FirstTask] = "absent" /\ FirstTask \in ActionTask
    BY <2>1, TaskTypes DEF CanQueue
  <2>4. lease' \subseteq Run /\ sup' \in [Run -> {"none", "active", "failed"}]
    BY <1>1, <2>1, LeaseTypes
  <2>5. QED
    BY <1>1, <2>1, <2>2, <2>3, <2>4, QueueTaskKept DEF TypeOK
<1>6. ASSUME NEW r \in Run, ResumeRefused(r)
      PROVE  IInv' /\ Stable
  <2>1. ExitServer /\ UNCHANGED <<run, work, agents, lease, owed, budget>>
    BY <1>6 DEF ResumeRefused
  <2>2. QED
    BY <1>1, <2>1, ExitServerOK, ProcessStepKept DEF TypeOK, run, work, agents
<1>7. ASSUME NEW r \in Run, ResumeSkip(r)
      PROVE  IInv' /\ Stable
  BY <1>1, <1>7, ProcessStepKept DEF ResumeSkip, TypeOK, run, work, agents, locks
<1>8. QED
  BY <1>2, <1>3, <1>4, <1>5, <1>6, <1>7 DEF RestartStep

LEMMA FaultKept ==
  ASSUME IInv, Fault
  PROVE  IInv' /\ Stable
<1>1. TypeOK
  BY DEF IInv
<1>2. CASE Crash
  <2>1. /\ ExitServer /\ UNCHANGED <<run, work, agents, lease, owed>>
        /\ budget.crash > 0 /\ budget' = [budget EXCEPT !.crash = @ - 1]
    BY <1>2 DEF Crash
  <2>2. QED
    BY <1>1, <2>1, ExitServerOK, BudgetOK, ProcessStepKept DEF TypeOK, run, work, agents
<1>3. CASE AbortMutex
  <2>1. /\ UNCHANGED <<run, work, agents, locks, h, server, todo, owed>>
        /\ mu' \in Mutex
        /\ budget.abort > 0 /\ budget' = [budget EXCEPT !.abort = @ - 1]
    BY <1>3, MutexTypes DEF AbortMutex, Leave
  <2>2. QED
    BY <1>1, <2>1, BudgetOK, ProcessStepKept DEF TypeOK, run, work, agents, locks
<1>4. ASSUME NEW w \in Handler, Abort(w)
      PROVE  IInv' /\ Stable
  <2>1. /\ h[w].pc # "idle" /\ h' = [h EXCEPT ![w] = Idle]
        /\ owed' = owed \union {h[w].run}
        /\ UNCHANGED <<run, work, agents, locks, mu, server, todo>>
        /\ budget.abort > 0 /\ budget' = [budget EXCEPT !.abort = @ - 1]
    BY <1>4 DEF Abort
  <2>2. h' \in [Handler -> HandlerState] /\ \A v \in Handler : h'[v] = h[v] \/ h'[v] = Idle
    BY <1>1, <2>1, HandlerTypes, IdleType
  <2>3. owed' \subseteq Run
    BY <1>1, <2>1 DEF IInv, HandlerInv, TypeOK
  <2>4. QED
    BY <1>1, <2>1, <2>2, <2>3, BudgetOK, ProcessStepKept DEF TypeOK, run, work, agents, locks
<1>5. ASSUME NEW r \in Run, LoseResponse(r)
      PROVE  IInv' /\ Stable
  <2>1. /\ owed' = owed \union {r}
        /\ UNCHANGED <<run, work, agents, locks, mu, h, server, todo>>
        /\ budget.abort > 0 /\ budget' = [budget EXCEPT !.abort = @ - 1]
    BY <1>5 DEF LoseResponse
  <2>2. QED
    BY <1>1, <2>1, BudgetOK, ProcessStepKept DEF TypeOK, run, work, agents, locks
<1>6. ASSUME NEW r \in Run, Expire(r)
      PROVE  IInv' /\ Stable
  BY <1>1, <1>6, ProcessStepKept DEF Expire, TypeOK, run, work, agents, proc
<1>7. ASSUME NEW r \in Run, RenewFail(r)
      PROVE  IInv' /\ Stable
  <2>1. /\ sup' = [sup EXCEPT ![r] = "failed"]
        /\ UNCHANGED <<run, work, agents, lease, proc>>
        /\ budget.renewal > 0 /\ budget' = [budget EXCEPT !.renewal = @ - 1]
    BY <1>7 DEF RenewFail
  <2>2. QED
    BY <1>1, <2>1, BudgetOK, ProcessStepKept DEF TypeOK, run, work, agents, proc
<1>8. QED
  BY <1>2, <1>3, <1>4, <1>5, <1>6, <1>7 DEF Fault

LEMMA NextKept ==
  ASSUME IInv, [Next]_vars
  PROVE  IInv' /\ Stable
<1>1. CASE UNCHANGED vars
  <2>1. IInv
    OBVIOUS
  <2>2. IInv'
    BY <1>1, <2>1, FrameKept DEF vars, IInv, TypeOK
  <2>3. QED
    BY <1>1, <2>2 DEF vars, Stable
<1>2. CASE Next
  BY <1>2, AgentStepKept, MutexStepKept, UserStepKept, HandlerStepKept, RestartStepKept,
     FaultKept DEF Next
<1>3. QED
  BY <1>1, <1>2

-----------------------------------------------------------------------------
(* The theorems.                                                           *)

\* The conjuncts of IInv hold together in every reachable state.
THEOREM Invariance == Spec => []IInv
<1>1. Init => IInv
  BY InitOK
<1>2. IInv /\ [Next]_vars => IInv'
  BY NextKept
<1>3. QED
  BY <1>1, <1>2, PTL DEF Spec

\* Every variable keeps its type.
THEOREM TypeCorrect == Spec => []TypeOK
<1>1. IInv => TypeOK
  BY DEF IInv
<1>2. QED
  BY <1>1, Invariance, PTL

\* The run record never diverges from its journal, however requests, results,
\* cancellations, crashes and restarts interleave.
THEOREM JournalNeverDiverges == Spec => []JournalAgrees
<1>1. IInv => JournalAgrees
  BY DEF IInv
<1>2. QED
  BY <1>1, Invariance, PTL

\* No number of concurrent or repeated continuations puts a second bounded
\* action of a run on its nodes.
THEOREM AtMostOneLiveAction == Spec => []OneLiveAction
<1>1. IInv => OneLiveAction
  BY DEF IInv
<1>2. QED
  BY <1>1, Invariance, PTL

\* A bounded action that came to an end is never carried out again.
THEOREM NothingIsReplayed == Spec => NoReplay
<1>1. IInv /\ [Next]_vars =>
        [\A r \in Run : \A t \in Task :
           phase[r][t] \in TerminalPhase => phase'[r][t] = phase[r][t]]_vars
  <2>1. SUFFICES ASSUME IInv, [Next]_vars
                 PROVE  \A r \in Run : \A t \in Task :
                          phase[r][t] \in TerminalPhase => phase'[r][t] = phase[r][t]
    OBVIOUS
  <2>2. QED
    BY <2>1, NextKept DEF Stable
<1>2. QED
  BY <1>1, Invariance, PTL DEF Spec, NoReplay

-----------------------------------------------------------------------------
(***************************************************************************)
(* What the tasks of a run and their evidence say of each other, and of    *)
(* the state and the verdict of the run: for any runs, targets, handlers,  *)
(* stages, barriers and bounds, and any of the missing edges.              *)
(***************************************************************************)

(* The tasks of a stage.                                                   *)

Prepare(s) == <<s, "create_restore_point">>
Apply(s) == <<s, "apply">>
Verify(s) == <<s, "verify">>
Rollback(s) == <<s, "rollback">>
VerifyRollback(s) == <<s, "verify_rollback">>

Present(r, t) == phase[r][t] # "absent"
Ok(r, t) == phase[r][t] = "succeeded"
Applied(r, s) == fact[r][Apply(s)] # "none"
Undoing == {"rollback", "verify_rollback"}
Held == {"running", "cancel_requested"}

-----------------------------------------------------------------------------
(* The invariant.                                                          *)

\* Each bounded action comes after the ones it relies on.
TaskOrder(r) ==
  \A s \in Stage :
    /\ Present(r, Prepare(s)) => \A i \in Stage : i < s => Ok(r, Verify(i))
    /\ Present(r, Apply(s)) => Ok(r, Prepare(s))
    /\ Present(r, Verify(s)) => Ok(r, Apply(s))
    /\ Present(r, Rollback(s)) =>
         /\ Present(r, Verify(s))
         /\ \A i \in Stage : i > s /\ Applied(r, i) => Ok(r, VerifyRollback(i))
    /\ Present(r, VerifyRollback(s)) => Ok(r, Rollback(s))

\* The bound task is the last one, and what came before it succeeded. Once a
\* stage is rolled back the run only rolls back, and some stage never verified.
BoundTask(r) ==
  /\ bound[r] = Planning => \A t \in ActionTask : ~Present(r, t)
  /\ bound[r] # Planning => Present(r, bound[r])
  /\ \A t \in ActionTask :
       Present(r, t) /\ t # bound[r] /\ ActionOf(t) \in {"apply"} \union Undoing => Ok(r, t)
  /\ \A s \in Stage :
       /\ bound[r] = Prepare(s) => ~Present(r, Apply(s))
       /\ bound[r] = Apply(s) => ~Present(r, Verify(s))
       /\ bound[r] \in {Prepare(s), Apply(s), Verify(s)} =>
            \A i \in Stage : i > s => ~Present(r, Prepare(i))
       /\ Present(r, Rollback(s)) => /\ ActionOf(bound[r]) \in Undoing
                                     /\ \E i \in Stage : ~Ok(r, Verify(i))

\* Evidence comes with the end of its task, and tells how it ended.
EvidenceOfPhase(r) ==
  \A t \in ActionTask :
    /\ fact[r][t] # "none" => phase[r][t] \in {"succeeded", "failed"}
    /\ fact[r][t] = "passed" <=> phase[r][t] = "succeeded"

Evidence(r) == TaskOrder(r) /\ BoundTask(r) /\ EvidenceOfPhase(r)

\* What the tasks must say before a run ends in state s.
VerdictOf(r, s) ==
  /\ s = "succeeded" => \A i \in Stage : Ok(r, Verify(i))
  /\ s = "rolled_back" => /\ \A i \in Stage : Applied(r, i) => Ok(r, VerifyRollback(i))
                          /\ \E i \in Stage : Present(r, Rollback(i))
  /\ s = "blocked" => phase[r][FirstTask] \in {"failed", "canceled"}
  /\ s = "rollback_failed" =>
       \E i \in Stage : \E a \in Undoing : phase[r][<<i, a>>] \in {"failed", "canceled"}

Ended == Terminal \ {"canceled_before_apply"}
Unconfirmed == {"draft", "discovering", "prechecking", "planned", "awaiting_confirmation",
                "queued", "acquiring_lock"}

StateInv(r) ==
  /\ state[r] = "creating_restore_point" => ActionOf(bound[r]) = "create_restore_point"
  /\ state[r] \in Unconfirmed => bound[r] = Planning
  /\ state[r] = "canceled_before_apply" =>
       /\ bound[r] \in {Planning, FirstTask}
       /\ phase[r][bound[r]] \notin {"pending", "claimed", "running"}
  /\ state[r] \in Ended => phase[r][bound[r]] \in TerminalPhase
  /\ state[r] \in {"succeeded", "rolled_back", "rollback_failed"} => bound[r] # Planning
  /\ bound[r] # Planning => VerdictOf(r, state[r])

\* What runs on a node is a task under way; what ran there was queued.
NodeInv ==
  \A r \in Run : \A t \in ActionTask :
    /\ <<r, t>> \in seen => Ok(r, t)
    /\ <<r, t>> \in mutated => Present(r, t) /\ ActionOf(t) \in Destructive
    /\ <<r, t>> \in mutating => phase[r][t] \in Held /\ ActionOf(t) \in Destructive

\* Why n may follow t.
NextOK(r, t, n) ==
  \A s \in Stage :
    /\ n = Prepare(s) => s > 0 /\ t = Verify(s - 1) /\ Ok(r, t)
    /\ n = Apply(s) => t = Prepare(s) /\ Ok(r, t)
    /\ n = Verify(s) => StageOf(t) = s /\ Ok(r, Apply(s))
    /\ n = Rollback(s) =>
         \/ t = Verify(s) /\ ~Ok(r, t)
         \/ \E i \in Stage :
              /\ s < i
              /\ t = Prepare(i) \/ (t = VerifyRollback(i) /\ Ok(r, t))
              /\ Applied(r, s)
              /\ \A j \in Stage : s < j /\ j < i /\ Applied(r, j) => Present(r, VerifyRollback(j))
    /\ n = VerifyRollback(s) => StageOf(t) = s /\ Ok(r, Rollback(s))

\* A decision stays backed by the run it was made about for as long as it can
\* still be carried out.
Backed(r, d) ==
  /\ d.kind \in {"queue", "contain"} /\ bound[r] = d.done => NextOK(r, d.done, d.next)
  /\ d.kind = "advance" => VerdictOf(r, d.state) /\ (d.release <=> d.state \in Ended)
  /\ d.kind = "settle" => /\ state[r] \in Terminal
                          /\ d.ensure => state[r] = "canceled_before_apply" /\ bound[r] # Planning
                          /\ ~d.ensure => ~CanceledAction(r)

DecisionInv ==
  \A w \in Handler : h[w].pc # "idle" =>
    /\ Backed(h[w].run, h[w].d)
    /\ h[w].pc = "release" => state[h[w].run] \in Ended

EInv == IInv /\ (\A r \in Run : Evidence(r) /\ StateInv(r)) /\ NodeInv /\ DecisionInv

-----------------------------------------------------------------------------
(* What one step is to one run.                                            *)

RunRests(r) ==
  /\ state'[r] = state[r] /\ bound'[r] = bound[r]
  /\ phase'[r] = phase[r] /\ fact'[r] = fact[r]

\* The bound task, not over yet, gets another phase, and evidence if it ends.
BoundTaskMoves(r) ==
  LET t == bound[r]
  IN /\ phase[r][t] \in LivePhase
     /\ bound'[r] = t
     /\ phase'[r][t] \in Phase \ {"absent"}
     /\ \A u \in Task : u # t => phase'[r][u] = phase[r][u]
     /\ \A u \in ActionTask : u # t => fact'[r][u] = fact[r][u]
     /\ t = Planning => fact'[r] = fact[r]
     /\ t # Planning =>
          /\ fact'[r][t] # "none" => phase'[r][t] \in {"succeeded", "failed"}
          /\ fact'[r][t] = "passed" <=> phase'[r][t] = "succeeded"
     /\ phase[r][t] \in Held /\ <<r, t>> \in mutating => phase'[r][t] \in Held

TaskMoves(r) ==
  /\ BoundTaskMoves(r)
  /\ state'[r] = state[r]
  /\ state[r] = "canceled_before_apply" => phase'[r][bound[r]] \in TerminalPhase

PlanningMoves(r) ==
  /\ BoundTaskMoves(r)
  /\ bound[r] = Planning
  /\ state[r] \in {"draft", "discovering", "canceled_before_apply"}
  /\ state'[r] \in {"discovering", "awaiting_confirmation", "blocked", "interrupted",
                    "canceled_before_apply"}
  /\ state[r] = "canceled_before_apply" => state'[r] = state[r]
  /\ state'[r] # "discovering" => phase'[r][Planning] \in TerminalPhase

RunAdvances(r) ==
  /\ bound'[r] = bound[r] /\ phase'[r] = phase[r] /\ fact'[r] = fact[r]
  /\ bound[r] # Planning
  /\ state'[r] \in ContinuedState
  /\ state'[r] = state[r] \/ CanTransition(state[r], state'[r])
  /\ VerdictOf(r, state'[r])

RunConfirmed(r) ==
  /\ bound'[r] = bound[r] /\ phase'[r] = phase[r] /\ fact'[r] = fact[r]
  /\ state[r] \in {"awaiting_confirmation", "queued"}
  /\ state'[r] \in {"queued", "acquiring_lock"}

TaskQueued(r) ==
  \E n \in ActionTask :
    /\ phase[r][n] = "absent" /\ phase'[r][n] = "pending"
    /\ \A u \in Task : u # n => phase'[r][u] = phase[r][u]
    /\ bound'[r] = n /\ fact'[r] = fact[r]
    /\ state'[r] = operationActionState(n)
    /\ state[r] \notin Terminal
    /\ \/ bound[r] = Planning /\ n = FirstTask /\ state[r] = "acquiring_lock"
       \/ /\ bound[r] # Planning /\ phase[r][bound[r]] \in TerminalPhase
          /\ NextOK(r, bound[r], n)

RunCanceled(r) ==
  /\ \/ phase'[r] = phase[r] /\ bound'[r] = bound[r] /\ phase[r][bound[r]] \notin LivePhase
     \/ BoundTaskMoves(r) /\ phase'[r][bound[r]] \in {"canceled", "cancel_requested"}
  /\ fact'[r] = fact[r]
  /\ state'[r] = "canceled_before_apply"
  /\ ~ContainmentCancellation(r)
  /\ CanTransition(state[r], state'[r])

RunMoves(r) ==
  \/ RunRests(r) \/ TaskMoves(r) \/ PlanningMoves(r) \/ RunAdvances(r)
  \/ RunConfirmed(r) \/ TaskQueued(r) \/ RunCanceled(r)

-----------------------------------------------------------------------------
(* A step that is a move of the run keeps what is known of the run.        *)

LEMMA StageTasks ==
  /\ \A s \in Stage : /\ Prepare(s) \in ActionTask /\ Apply(s) \in ActionTask
                      /\ Verify(s) \in ActionTask /\ Rollback(s) \in ActionTask
                      /\ VerifyRollback(s) \in ActionTask
  /\ \A t \in ActionTask : \E s \in Stage :
       t \in {Prepare(s), Apply(s), Verify(s), Rollback(s), VerifyRollback(s)}
  /\ \A s \in Stage : /\ ActionOf(Prepare(s)) = "create_restore_point"
                      /\ ActionOf(Apply(s)) = "apply" /\ ActionOf(Verify(s)) = "verify"
                      /\ ActionOf(Rollback(s)) = "rollback"
                      /\ ActionOf(VerifyRollback(s)) = "verify_rollback"
  /\ \A s \in Stage : /\ StageOf(Prepare(s)) = s /\ StageOf(Apply(s)) = s
                      /\ StageOf(Verify(s)) = s /\ StageOf(Rollback(s)) = s
                      /\ StageOf(VerifyRollback(s)) = s
  /\ FirstTask = Prepare(0) /\ 0 \in Stage
  /\ \A s \in Stage : s \in Nat
<1>1. \A t \in ActionTask : \E s \in Stage :
        t \in {Prepare(s), Apply(s), Verify(s), Rollback(s), VerifyRollback(s)}
  BY DEF ActionTask, Action, Prepare, Apply, Verify, Rollback, VerifyRollback
<1>2. QED
  BY <1>1, NStagesAssumption
     DEF ActionTask, Action, Stage, Prepare, Apply, Verify, Rollback, VerifyRollback, ActionOf,
         StageOf, FirstTask

\* Tasks of different kinds, or of different stages, differ.
LEMMA StageTasksDiffer ==
  \A s, i \in Stage :
    /\ Prepare(s) \notin {Apply(i), Verify(i), Rollback(i), VerifyRollback(i), Planning}
    /\ Apply(s) \notin {Prepare(i), Verify(i), Rollback(i), VerifyRollback(i), Planning}
    /\ Verify(s) \notin {Prepare(i), Apply(i), Rollback(i), VerifyRollback(i), Planning}
    /\ Rollback(s) \notin {Prepare(i), Apply(i), Verify(i), VerifyRollback(i), Planning}
    /\ VerifyRollback(s) \notin {Prepare(i), Apply(i), Verify(i), Rollback(i), Planning}
    /\ s # i => /\ Prepare(s) # Prepare(i) /\ Apply(s) # Apply(i) /\ Verify(s) # Verify(i)
                /\ Rollback(s) # Rollback(i) /\ VerifyRollback(s) # VerifyRollback(i)
BY DEF Prepare, Apply, Verify, Rollback, VerifyRollback, Planning

LEMMA EvidenceFrame ==
  ASSUME NEW r \in Run, Evidence(r),
         phase'[r] = phase[r], bound'[r] = bound[r], fact'[r] = fact[r]
  PROVE  Evidence(r)'
<1>1. \A t : (Present(r, t)' <=> Present(r, t)) /\ (Ok(r, t)' <=> Ok(r, t))
  BY DEF Present, Ok
<1>2. \A s : Applied(r, s)' <=> Applied(r, s)
  BY DEF Applied
<1>3. TaskOrder(r)'
  BY <1>1, <1>2 DEF Evidence, TaskOrder
<1>4. BoundTask(r)'
  BY <1>1 DEF Evidence, BoundTask
<1>5. EvidenceOfPhase(r)'
  BY DEF Evidence, EvidenceOfPhase
<1>6. QED
  BY <1>3, <1>4, <1>5 DEF Evidence

\* While the bound task moves no task appears and none that succeeded changes.
LEMMA BoundTaskMovesOK ==
  ASSUME TypeOK, NEW r \in Run, Evidence(r), BoundTaskMoves(r)
  PROVE  /\ \A t \in Task : Present(r, t)' <=> Present(r, t)
         /\ \A t \in Task : Ok(r, t) => Ok(r, t)'
         /\ \A t \in Task : t # bound[r] => (Ok(r, t)' <=> Ok(r, t))
         /\ \A s \in Stage : Apply(s) # bound[r] => (Applied(r, s)' <=> Applied(r, s))
         /\ bound'[r] = bound[r]
<1>1. /\ phase[r][bound[r]] \in LivePhase /\ bound'[r] = bound[r]
      /\ phase'[r][bound[r]] \in Phase \ {"absent"}
      /\ \A u \in Task : u # bound[r] => phase'[r][u] = phase[r][u]
      /\ \A u \in ActionTask : u # bound[r] => fact'[r][u] = fact[r][u]
  BY DEF BoundTaskMoves
<1>2. \A s \in Stage : Apply(s) \in ActionTask
  BY StageTasks
<1>3. QED
  BY <1>1, <1>2 DEF Present, Ok, Applied, LivePhase

LEMMA BoundTaskMovesEvidence ==
  ASSUME TypeOK, NEW r \in Run, Evidence(r), BoundTaskMoves(r)
  PROVE  Evidence(r)'
<1> DEFINE b == bound[r]
<1>1. /\ \A t \in Task : Present(r, t)' <=> Present(r, t)
      /\ \A t \in Task : Ok(r, t) => Ok(r, t)'
      /\ \A t \in Task : t # b => (Ok(r, t)' <=> Ok(r, t))
      /\ \A s \in Stage : Apply(s) # b => (Applied(r, s)' <=> Applied(r, s))
      /\ bound'[r] = b
  BY BoundTaskMovesOK
<1>2. TaskOrder(r) /\ BoundTask(r) /\ EvidenceOfPhase(r)
  BY DEF Evidence
<1>3. \A s \in Stage : /\ Prepare(s) \in Task /\ Apply(s) \in Task /\ Verify(s) \in Task
                       /\ Rollback(s) \in Task /\ VerifyRollback(s) \in Task
  BY StageTasks, TaskTypes
<1>4. \A s \in Stage : Present(r, Rollback(s)) => ActionOf(b) \in Undoing
  BY <1>2 DEF BoundTask
<1>5. \A s, i \in Stage : Present(r, Rollback(s)) => b # Apply(i) /\ b # Verify(i)
  BY <1>4, StageTasks DEF Undoing
<1> HIDE DEF b
<1>6. TaskOrder(r)'
  BY <1>1, <1>2, <1>3, <1>5 DEF TaskOrder
<1>7. BoundTask(r)'
  <2>1. \A t \in ActionTask : t \in Task
    BY TaskTypes
  <2>2. b \in Task
    BY DEF b, TypeOK
  <2>3. \A s \in Stage : Present(r, Rollback(s))' =>
          ActionOf(b) \in Undoing /\ \E i \in Stage : ~Ok(r, Verify(i))'
    BY <1>1, <1>2, <1>3, <1>5 DEF BoundTask, b
  <2>4. /\ b = Planning => \A t \in ActionTask : ~Present(r, t)'
        /\ b # Planning => Present(r, b)'
    BY <1>1, <1>2, <2>1, <2>2 DEF BoundTask, b
  <2>5. \A t \in ActionTask :
          Present(r, t)' /\ t # b /\ ActionOf(t) \in {"apply"} \union Undoing => Ok(r, t)'
    BY <1>1, <1>2, <2>1 DEF BoundTask, b
  <2>6. \A s \in Stage :
       /\ b = Prepare(s) => ~Present(r, Apply(s))'
       /\ b = Apply(s) => ~Present(r, Verify(s))'
       /\ b \in {Prepare(s), Apply(s), Verify(s)} =>
            \A i \in Stage : i > s => ~Present(r, Prepare(i))'
    BY <1>1, <1>2, <1>3 DEF BoundTask, b
  <2>7. QED
    BY <1>1, <2>3, <2>4, <2>5, <2>6 DEF BoundTask, b
<1>8. EvidenceOfPhase(r)'
  <2>1. \A u \in ActionTask : u # b => fact'[r][u] = fact[r][u] /\ phase'[r][u] = phase[r][u]
    BY TaskTypes DEF BoundTaskMoves, b
  <2>2. b # Planning =>
          /\ fact'[r][b] # "none" => phase'[r][b] \in {"succeeded", "failed"}
          /\ fact'[r][b] = "passed" <=> phase'[r][b] = "succeeded"
    BY DEF BoundTaskMoves, b
  <2>3. \A u \in ActionTask : u # Planning
    BY TaskTypes
  <2>4. QED
    BY <1>2, <2>1, <2>2, <2>3 DEF EvidenceOfPhase
<1>9. QED
  BY <1>6, <1>7, <1>8 DEF Evidence

\* What makes n fit behind the tasks there are.
Follows(r, n) ==
  /\ \A s \in Stage :
       /\ n = Prepare(s) => /\ \A i \in Stage : i < s => Ok(r, Verify(i))
                            /\ ~Present(r, Apply(s))
       /\ n = Apply(s) => Ok(r, Prepare(s)) /\ ~Present(r, Verify(s))
       /\ n = Verify(s) => Ok(r, Apply(s))
       /\ n = Rollback(s) => /\ Present(r, Verify(s))
                             /\ \A i \in Stage : i > s /\ Applied(r, i) => Ok(r, VerifyRollback(i))
       /\ n = VerifyRollback(s) => Ok(r, Rollback(s))
       /\ n \in {Prepare(s), Apply(s), Verify(s)} => \A i \in Stage : i > s => ~Present(r, Prepare(i))
       /\ Present(r, Rollback(s)) \/ n = Rollback(s) =>
            ActionOf(n) \in Undoing /\ \E i \in Stage : ~Ok(r, Verify(i))
  /\ \A t \in ActionTask :
       Present(r, t) /\ ActionOf(t) \in {"apply"} \union Undoing => Ok(r, t)

LEMMA FollowsEvidence ==
  ASSUME TypeOK, NEW r \in Run, Evidence(r), NEW n \in ActionTask, Follows(r, n),
         phase[r][n] = "absent", phase'[r][n] = "pending",
         \A u \in Task : u # n => phase'[r][u] = phase[r][u],
         bound'[r] = n, fact'[r] = fact[r]
  PROVE  Evidence(r)'
<1>1. TaskOrder(r) /\ BoundTask(r) /\ EvidenceOfPhase(r)
  BY DEF Evidence
<1>2. n \in Task /\ n # Planning
  BY TaskTypes
<1>3. /\ \A u \in Task : Present(r, u)' <=> Present(r, u) \/ u = n
      /\ \A u \in Task : Ok(r, u)' <=> Ok(r, u)
      /\ \A s \in Stage : Applied(r, s)' <=> Applied(r, s)
      /\ ~Present(r, n)
  BY <1>2 DEF Present, Ok, Applied
<1>4. \A s \in Stage : /\ Prepare(s) \in Task /\ Apply(s) \in Task /\ Verify(s) \in Task
                       /\ Rollback(s) \in Task /\ VerifyRollback(s) \in Task
  BY StageTasks, TaskTypes
<1>5. TaskOrder(r)'
  BY <1>1, <1>3, <1>4 DEF TaskOrder, Follows
<1>6. BoundTask(r)'
  <2>1. \A t \in ActionTask :
          Present(r, t)' /\ t # n /\ ActionOf(t) \in {"apply"} \union Undoing => Ok(r, t)'
    BY <1>3, TaskTypes DEF Follows
  <2>2. \A s \in Stage :
       /\ n = Prepare(s) => ~Present(r, Apply(s))'
       /\ n = Apply(s) => ~Present(r, Verify(s))'
    BY <1>3, <1>4, StageTasksDiffer DEF Follows
  <2>3. \A s \in Stage : n \in {Prepare(s), Apply(s), Verify(s)} =>
          \A i \in Stage : i > s => ~Present(r, Prepare(i))'
    <3>1. \A s, i \in Stage : i > s => s # i
      BY DEF Stage
    <3>2. \A s, i \in Stage : n \in {Prepare(s), Apply(s), Verify(s)} /\ i > s => n # Prepare(i)
      BY <3>1, StageTasksDiffer
    <3>3. QED
      BY <1>3, <1>4, <3>2 DEF Follows
  <2>4. \A s \in Stage : Present(r, Rollback(s))' =>
          ActionOf(n) \in Undoing /\ \E i \in Stage : ~Ok(r, Verify(i))'
    BY <1>3, <1>4 DEF Follows
  <2>5. Present(r, n)'
    BY <1>2, <1>3
  <2>6. QED
    BY <1>2, <2>1, <2>2, <2>3, <2>4, <2>5 DEF BoundTask
<1>7. EvidenceOfPhase(r)'
  <2>1. fact[r][n] = "none"
    BY <1>1, TypeOK DEF EvidenceOfPhase, TypeOK
  <2>2. QED
    BY <1>1, <2>1, TaskTypes DEF EvidenceOfPhase
<1>8. QED
  BY <1>5, <1>6, <1>7 DEF Evidence

\* The first task follows planning.
LEMMA FirstFollows ==
  ASSUME NEW r \in Run, Evidence(r), bound[r] = Planning
  PROVE  Follows(r, FirstTask)
<1>1. \A t \in ActionTask : ~Present(r, t)
  BY DEF Evidence, BoundTask
<1>2. \A s \in Stage : FirstTask = Prepare(s) => s = 0
  BY StageTasks, StageTasksDiffer
<1>3. \A i \in Stage : ~(i < 0)
  BY StageTasks
<1>4. QED
  BY <1>1, <1>2, <1>3, StageTasks, StageTasksDiffer DEF Follows

\* What a decision queues follows the task it was made about.
LEMMA NextFollows ==
  ASSUME NEW r \in Run, Evidence(r), NEW n \in ActionTask, ~Present(r, n),
         bound[r] \in ActionTask, NextOK(r, bound[r], n)
  PROVE  Follows(r, n)
<1>0. PICK b \in ActionTask : b = bound[r]
  OBVIOUS
<1>1. TaskOrder(r) /\ BoundTask(r) /\ EvidenceOfPhase(r)
  BY DEF Evidence
<1>2. Present(r, b) /\ NextOK(r, b, n)
  BY <1>0, <1>1, TaskTypes DEF BoundTask
<1>3. /\ \A t \in ActionTask :
           Present(r, t) /\ t # b /\ ActionOf(t) \in {"apply"} \union Undoing => Ok(r, t)
      /\ \A s \in Stage : b \in {Prepare(s), Apply(s), Verify(s)} =>
           \A i \in Stage : i > s => ~Present(r, Prepare(i))
      /\ \A s \in Stage : b = Prepare(s) => ~Present(r, Apply(s))
      /\ \A s \in Stage : Present(r, Rollback(s)) =>
            ActionOf(b) \in Undoing /\ \E i \in Stage : ~Ok(r, Verify(i))
  BY <1>0, <1>1 DEF BoundTask
<1>4. \A t : Ok(r, t) => Present(r, t)
  BY DEF Ok, Present
<1>5. PICK s \in Stage : n \in {Prepare(s), Apply(s), Verify(s), Rollback(s), VerifyRollback(s)}
  BY StageTasks
<1>6. s \in Nat /\ \A i \in Stage : i \in Nat
  BY StageTasks
<1>7. PICK k \in Stage : b \in {Prepare(k), Apply(k), Verify(k), Rollback(k), VerifyRollback(k)}
  BY StageTasks
<1>8. \A i \in Stage : n \in {Prepare(i), Apply(i), Verify(i), Rollback(i), VerifyRollback(i)} => i = s
  BY <1>5, StageTasksDiffer
<1>9. CASE n = Prepare(s)
  <2>1. s > 0 /\ b = Verify(s - 1) /\ Ok(r, b)
    BY <1>2, <1>9 DEF NextOK
  <2>2. s - 1 \in Stage
    BY <1>6, <2>1, NStagesAssumption DEF Stage
  <2>3. ActionOf(b) = "verify"
    BY <2>1, <2>2, StageTasks
  <2>4. Ok(r, Apply(s - 1)) /\ Ok(r, Prepare(s - 1))
    BY <1>1, <1>4, <2>1, <2>2 DEF TaskOrder
  <2>5. \A i \in Stage : i < s - 1 => Ok(r, Verify(i))
    BY <1>1, <1>4, <2>2, <2>4 DEF TaskOrder
  <2>6. \A i \in Stage : i < s => Ok(r, Verify(i))
    BY <1>6, <2>1, <2>5
  <2>7. ~Present(r, Apply(s))
    BY <1>1, <1>4, <1>9 DEF TaskOrder
  <2>8. \A i \in Stage : i > s => ~Present(r, Prepare(i))
    <3>1. \A i \in Stage : i > s => i > s - 1
      BY <1>6
    <3>2. QED
      BY <1>3, <2>1, <2>2, <3>1
  <2>9. \A i \in Stage : ~Present(r, Rollback(i)) /\ n # Rollback(i)
    BY <1>3, <1>9, <2>3, StageTasksDiffer DEF Undoing
  <2>10. \A t \in ActionTask :
       Present(r, t) /\ ActionOf(t) \in {"apply"} \union Undoing => Ok(r, t)
    BY <1>3, <2>3 DEF Undoing
  <2>11. QED
    BY <1>8, <1>9, <2>6, <2>7, <2>8, <2>9, <2>10, StageTasksDiffer DEF Follows
<1>10. CASE n = Apply(s)
  <2>1. b = Prepare(s) /\ Ok(r, b) /\ ActionOf(b) = "create_restore_point"
    BY <1>2, <1>10, StageTasks DEF NextOK
  <2>2. ~Present(r, Verify(s))
    BY <1>1, <1>4, <1>10 DEF TaskOrder
  <2>3. \A i \in Stage : i > s => ~Present(r, Prepare(i))
    BY <1>3, <2>1
  <2>4. \A i \in Stage : ~Present(r, Rollback(i)) /\ n # Rollback(i)
    BY <1>3, <1>10, <2>1, StageTasksDiffer DEF Undoing
  <2>5. \A t \in ActionTask :
       Present(r, t) /\ ActionOf(t) \in {"apply"} \union Undoing => Ok(r, t)
    BY <1>3, <2>1 DEF Undoing
  <2>6. QED
    BY <1>8, <1>10, <2>1, <2>2, <2>3, <2>4, <2>5, StageTasksDiffer DEF Follows
<1>11. CASE n = Verify(s)
  <2>1. StageOf(b) = s /\ Ok(r, Apply(s))
    BY <1>2, <1>11 DEF NextOK
  <2>2. k = s
    BY <1>7, <2>1, StageTasks
  <2>3. b \notin {Verify(s), Rollback(s), VerifyRollback(s)}
    BY <1>1, <1>2, <1>4, <1>11 DEF TaskOrder
  <2>4. b \in {Prepare(s), Apply(s)}
    BY <1>7, <2>2, <2>3
  <2>5. ActionOf(b) \notin Undoing
    BY <2>4, StageTasks DEF Undoing
  <2>6. \A i \in Stage : i > s => ~Present(r, Prepare(i))
    BY <1>3, <2>4
  <2>7. \A i \in Stage : ~Present(r, Rollback(i)) /\ n # Rollback(i)
    BY <1>3, <1>11, <2>5, StageTasksDiffer
  <2>8. \A t \in ActionTask :
       Present(r, t) /\ ActionOf(t) \in {"apply"} \union Undoing => Ok(r, t)
    <3>1. b = Apply(s) => Ok(r, b)
      BY <2>1
    <3>2. b = Prepare(s) => ActionOf(b) \notin {"apply"} \union Undoing
      BY StageTasks DEF Undoing
    <3>3. QED
      BY <1>3, <2>4, <3>1, <3>2
  <2>9. QED
    BY <1>8, <1>11, <2>1, <2>6, <2>7, <2>8, StageTasksDiffer DEF Follows
<1>12. CASE n = Rollback(s)
  <2>1. \/ b = Verify(s) /\ ~Ok(r, b)
        \/ \E i \in Stage :
              /\ s < i
              /\ b = Prepare(i) \/ (b = VerifyRollback(i) /\ Ok(r, b))
              /\ Applied(r, s)
              /\ \A j \in Stage : s < j /\ j < i /\ Applied(r, j) => Present(r, VerifyRollback(j))
    BY <1>2, <1>12 DEF NextOK
  <2>2. \A i \in Stage : Applied(r, i) => Present(r, Apply(i))
    BY <1>1, StageTasks DEF EvidenceOfPhase, Applied, Present
  <2>3. /\ Present(r, Verify(s))
        /\ \A i \in Stage : i > s /\ Applied(r, i) => Ok(r, VerifyRollback(i))
        /\ \E i \in Stage : ~Ok(r, Verify(i))
        /\ \A t \in ActionTask :
             Present(r, t) /\ ActionOf(t) \in {"apply"} \union Undoing => Ok(r, t)
    <3>1. CASE b = Verify(s) /\ ~Ok(r, b)
      <4>1. \A i \in Stage : i > s => ~Present(r, Prepare(i))
        BY <1>3, <3>1
      <4>2. \A i \in Stage : i > s => ~Applied(r, i)
        BY <1>1, <1>4, <2>2, <4>1 DEF TaskOrder
      <4>3. ActionOf(b) \notin {"apply"} \union Undoing
        BY <3>1, StageTasks DEF Undoing
      <4>4. QED
        BY <1>2, <1>3, <3>1, <4>2, <4>3
    <3>2. ASSUME NEW i \in Stage, s < i, b = Prepare(i)
          PROVE  /\ Present(r, Verify(s))
                 /\ \A j \in Stage : j > s /\ Applied(r, j) /\ j >= i => Ok(r, VerifyRollback(j))
                 /\ \E j \in Stage : ~Ok(r, Verify(j))
                 /\ \A t \in ActionTask :
                      Present(r, t) /\ ActionOf(t) \in {"apply"} \union Undoing => Ok(r, t)
      <4>1. Ok(r, Verify(s))
        BY <1>1, <1>2, <3>2 DEF TaskOrder
      <4>2. ~Present(r, Apply(i)) /\ \A j \in Stage : j > i => ~Present(r, Prepare(j))
        BY <1>3, <3>2
      <4>3. \A j \in Stage : j >= i => ~Present(r, Apply(j))
        <5>1. \A j \in Stage : j > i => ~Present(r, Apply(j))
          BY <1>1, <1>4, <4>2 DEF TaskOrder
        <5>2. QED
          BY <1>6, <4>2, <5>1
      <4>4. ~Ok(r, Verify(i))
        BY <1>1, <1>4, <4>2 DEF TaskOrder
      <4>5. ActionOf(b) \notin {"apply"} \union Undoing
        BY <3>2, StageTasks DEF Undoing
      <4>6. QED
        BY <1>3, <1>4, <2>2, <4>1, <4>3, <4>4, <4>5
    <3>3. ASSUME NEW i \in Stage, s < i, b = VerifyRollback(i), Ok(r, b)
          PROVE  /\ Present(r, Rollback(i)) /\ Present(r, Prepare(i))
                 /\ \A j \in Stage : j > s /\ Applied(r, j) /\ j >= i => Ok(r, VerifyRollback(j))
                 /\ \E j \in Stage : ~Ok(r, Verify(j))
                 /\ \A t \in ActionTask :
                      Present(r, t) /\ ActionOf(t) \in {"apply"} \union Undoing => Ok(r, t)
      <4>1. Present(r, Rollback(i))
        BY <1>1, <1>2, <1>4, <3>3 DEF TaskOrder
      <4>2. \A j \in Stage : j > i /\ Applied(r, j) => Ok(r, VerifyRollback(j))
        BY <1>1, <4>1 DEF TaskOrder
      <4>3. \A j \in Stage : Applied(r, j) /\ j >= i => Ok(r, VerifyRollback(j))
        BY <1>6, <3>3, <4>2
      <4>4. Present(r, Prepare(i))
        BY <1>1, <1>4, <4>1 DEF TaskOrder
      <4>5. QED
        BY <1>3, <3>3, <4>1, <4>3, <4>4
    <3>4. ASSUME NEW i \in Stage, s < i, b = Prepare(i) \/ (b = VerifyRollback(i) /\ Ok(r, b)),
                 \A j \in Stage : s < j /\ j < i /\ Applied(r, j) => Present(r, VerifyRollback(j))
          PROVE  /\ Present(r, Verify(s))
                 /\ \A j \in Stage : j > s /\ Applied(r, j) => Ok(r, VerifyRollback(j))
                 /\ \E j \in Stage : ~Ok(r, Verify(j))
                 /\ \A t \in ActionTask :
                      Present(r, t) /\ ActionOf(t) \in {"apply"} \union Undoing => Ok(r, t)
      <4>1. /\ \A j \in Stage : j > s /\ Applied(r, j) /\ j >= i => Ok(r, VerifyRollback(j))
            /\ \E j \in Stage : ~Ok(r, Verify(j))
            /\ \A t \in ActionTask :
                 Present(r, t) /\ ActionOf(t) \in {"apply"} \union Undoing => Ok(r, t)
        BY <3>2, <3>3, <3>4
      <4>2. Present(r, Verify(s))
        <5>1. Present(r, Prepare(i))
          BY <1>2, <3>3, <3>4
        <5>2. QED
          BY <1>1, <1>4, <3>4, <5>1 DEF TaskOrder
      <4>3. \A j \in Stage : Present(r, VerifyRollback(j)) => Ok(r, VerifyRollback(j))
        BY <4>1, StageTasks DEF Undoing
      <4>4. \A j \in Stage : j > s /\ Applied(r, j) => Ok(r, VerifyRollback(j))
        <5>1. SUFFICES ASSUME NEW j \in Stage, j > s, Applied(r, j)
                       PROVE  Ok(r, VerifyRollback(j))
          OBVIOUS
        <5>2. CASE j >= i
          BY <4>1, <5>1, <5>2
        <5>3. CASE j < i
          BY <3>4, <4>3, <5>1, <5>3
        <5>4. QED
          BY <1>6, <5>2, <5>3
      <4>5. QED
        BY <4>1, <4>2, <4>4
    <3>5. QED
      BY <2>1, <3>1, <3>4
  <2>4. ActionOf(n) \in Undoing
    BY <1>12, StageTasks DEF Undoing
  <2>5. QED
    BY <1>8, <1>12, <2>3, <2>4, StageTasksDiffer DEF Follows
<1>13. CASE n = VerifyRollback(s)
  <2>1. StageOf(b) = s /\ Ok(r, Rollback(s))
    BY <1>2, <1>13 DEF NextOK
  <2>2. ActionOf(b) \in Undoing /\ \E i \in Stage : ~Ok(r, Verify(i))
    BY <1>3, <1>4, <2>1
  <2>3. k = s
    BY <1>7, <2>1, StageTasks
  <2>4. b = Rollback(s)
    BY <1>2, <1>7, <1>13, <2>2, <2>3, StageTasks DEF Undoing
  <2>5. \A t \in ActionTask :
       Present(r, t) /\ ActionOf(t) \in {"apply"} \union Undoing => Ok(r, t)
    BY <1>3, <2>1, <2>4
  <2>6. ActionOf(n) \in Undoing
    BY <1>13, StageTasks DEF Undoing
  <2>7. QED
    BY <1>8, <1>13, <2>1, <2>2, <2>5, <2>6, StageTasksDiffer DEF Follows
<1>14. QED
  BY <1>5, <1>9, <1>10, <1>11, <1>12, <1>13

LEMMA TaskQueuedEvidence ==
  ASSUME TypeOK, NEW r \in Run, Evidence(r), TaskQueued(r)
  PROVE  Evidence(r)'
<1>1. PICK n \in ActionTask :
        /\ phase[r][n] = "absent" /\ phase'[r][n] = "pending"
        /\ \A u \in Task : u # n => phase'[r][u] = phase[r][u]
        /\ bound'[r] = n /\ fact'[r] = fact[r]
        /\ \/ bound[r] = Planning /\ n = FirstTask
           \/ bound[r] # Planning /\ NextOK(r, bound[r], n)
  BY DEF TaskQueued
<1>2. bound[r] # Planning => bound[r] \in ActionTask
  BY DEF TypeOK, Task
<1>3. Follows(r, n)
  BY <1>1, <1>2, FirstFollows, NextFollows DEF Present
<1>4. QED
  BY <1>1, <1>3, FollowsEvidence

-----------------------------------------------------------------------------
(* The state of a run, and what stays as it is.                            *)

\* No move takes a task away, or changes how one ended.
LEMMA MovesGrow ==
  ASSUME TypeOK, NEW r \in Run, RunMoves(r)
  PROVE  /\ \A t \in Task : Present(r, t) => Present(r, t)'
         /\ \A t \in Task : phase[r][t] \in TerminalPhase => phase'[r][t] = phase[r][t]
         /\ \A t \in Task : Ok(r, t) => Ok(r, t)'
<1>1. \A t \in Task : phase[r][t] \in TerminalPhase => phase'[r][t] = phase[r][t]
  <2>1. BoundTaskMoves(r) => \A t \in Task : phase[r][t] \in TerminalPhase => phase'[r][t] = phase[r][t]
    BY DEF BoundTaskMoves, LivePhase, TerminalPhase
  <2>2. TaskQueued(r) => \A t \in Task : phase[r][t] \in TerminalPhase => phase'[r][t] = phase[r][t]
    BY DEF TaskQueued, TerminalPhase
  <2>3. QED
    BY <2>1, <2>2 DEF RunMoves, RunRests, TaskMoves, PlanningMoves, RunAdvances, RunConfirmed,
                      RunCanceled
<1>2. \A t \in Task : Present(r, t) => Present(r, t)'
  <2>1. BoundTaskMoves(r) => \A t \in Task : Present(r, t) => Present(r, t)'
    BY DEF BoundTaskMoves, Present, LivePhase
  <2>2. TaskQueued(r) => \A t \in Task : Present(r, t) => Present(r, t)'
    BY DEF TaskQueued, Present
  <2>3. QED
    BY <2>1, <2>2 DEF RunMoves, RunRests, TaskMoves, PlanningMoves, RunAdvances, RunConfirmed,
                      RunCanceled, Present
<1>3. QED
  BY <1>1, <1>2 DEF Ok, TerminalPhase

\* Once a stage is rolled back no Apply leaves evidence any more.
LEMMA AppliedGrows ==
  ASSUME TypeOK, NEW r \in Run, Evidence(r), RunMoves(r), NEW i \in Stage, Present(r, Rollback(i))
  PROVE  \A s \in Stage : Applied(r, s)' => Applied(r, s)
<1>1. ActionOf(bound[r]) \in Undoing
  BY DEF Evidence, BoundTask
<1>2. \A s \in Stage : Apply(s) # bound[r]
  BY <1>1, StageTasks DEF Undoing
<1>3. BoundTaskMoves(r) => \A s \in Stage : Applied(r, s)' => Applied(r, s)
  BY <1>2, BoundTaskMovesOK
<1>4. QED
  BY <1>3 DEF RunMoves, RunRests, TaskMoves, PlanningMoves, RunAdvances, RunConfirmed,
              RunCanceled, TaskQueued, Applied

\* What a verdict rests on does not go away.
LEMMA VerdictStable ==
  ASSUME TypeOK, NEW r \in Run, Evidence(r), RunMoves(r), NEW s, VerdictOf(r, s)
  PROVE  VerdictOf(r, s)'
<1>1. /\ \A t \in Task : Present(r, t) => Present(r, t)'
      /\ \A t \in Task : phase[r][t] \in TerminalPhase => phase'[r][t] = phase[r][t]
      /\ \A t \in Task : Ok(r, t) => Ok(r, t)'
  BY MovesGrow
<1>2. \A i \in Stage : /\ Verify(i) \in Task /\ Rollback(i) \in Task /\ VerifyRollback(i) \in Task
                       /\ \A a \in Undoing : <<i, a>> \in Task
  BY StageTasks, TaskTypes DEF Undoing, Action
<1>3. s = "succeeded" => \A i \in Stage : Ok(r, Verify(i))'
  BY <1>1, <1>2 DEF VerdictOf
<1>4. s = "rolled_back" => /\ \A i \in Stage : Applied(r, i)' => Ok(r, VerifyRollback(i))'
                           /\ \E i \in Stage : Present(r, Rollback(i))'
  <2>1. SUFFICES ASSUME s = "rolled_back"
                 PROVE  /\ \A i \in Stage : Applied(r, i)' => Ok(r, VerifyRollback(i))'
                        /\ \E i \in Stage : Present(r, Rollback(i))'
    OBVIOUS
  <2>2. PICK i \in Stage : Present(r, Rollback(i))
    BY <2>1 DEF VerdictOf
  <2>3. \A j \in Stage : Applied(r, j)' => Applied(r, j)
    BY <2>2, AppliedGrows
  <2>4. \A j \in Stage : Applied(r, j) => Ok(r, VerifyRollback(j))
    BY <2>1 DEF VerdictOf
  <2>5. QED
    BY <1>1, <1>2, <2>2, <2>3, <2>4
<1>5. s = "blocked" => phase'[r][FirstTask] \in {"failed", "canceled"}
  BY <1>1, TaskTypes DEF VerdictOf, TerminalPhase
<1>6. s = "rollback_failed" =>
        \E i \in Stage : \E a \in Undoing : phase'[r][<<i, a>>] \in {"failed", "canceled"}
  BY <1>1, <1>2 DEF VerdictOf, TerminalPhase
<1>7. QED
  BY <1>3, <1>4, <1>5, <1>6 DEF VerdictOf

\* With a final verdict the bound task is over.
LEMMA VerdictEnds ==
  ASSUME TypeOK, NEW r \in Run, Evidence(r), bound[r] # Planning, NEW s \in Ended, VerdictOf(r, s)
  PROVE  phase[r][bound[r]] \in TerminalPhase
<1>0. PICK b \in ActionTask : b = bound[r]
  BY DEF TypeOK, Task
<1>1. TaskOrder(r) /\ EvidenceOfPhase(r) /\ Present(r, b)
  BY <1>0, TaskTypes DEF Evidence, BoundTask
<1>2. /\ \A t \in ActionTask :
           Present(r, t) /\ t # b /\ ActionOf(t) \in {"apply"} \union Undoing => Ok(r, t)
      /\ \A i \in Stage : /\ b = Prepare(i) => ~Present(r, Apply(i))
                          /\ b = Apply(i) => ~Present(r, Verify(i))
      /\ \A i \in Stage : Present(r, Rollback(i)) =>
            ActionOf(b) \in Undoing /\ \E j \in Stage : ~Ok(r, Verify(j))
  BY <1>0 DEF Evidence, BoundTask
<1>3. PICK k \in Stage : b \in {Prepare(k), Apply(k), Verify(k), Rollback(k), VerifyRollback(k)}
  BY StageTasks
<1>4. \A t : Ok(r, t) => Present(r, t)
  BY DEF Ok, Present
<1>5. Ok(r, b) => phase[r][b] \in TerminalPhase
  BY DEF Ok, TerminalPhase
<1>6. b \in {Rollback(k), VerifyRollback(k)} => Present(r, Rollback(k)) /\ Ok(r, Apply(k))
  BY <1>1, <1>4 DEF TaskOrder
<1>7. CASE s = "succeeded"
  <2>1. \A i \in Stage : Ok(r, Verify(i))
    BY <1>7 DEF VerdictOf
  <2>2. \A i \in Stage : ~Present(r, Rollback(i))
    BY <1>2, <2>1
  <2>3. Present(r, Verify(k)) /\ Present(r, Apply(k))
    BY <1>1, <1>4, <2>1 DEF TaskOrder
  <2>4. b = Verify(k)
    BY <1>2, <1>3, <1>6, <2>2, <2>3
  <2>5. QED
    BY <1>0, <1>5, <2>1, <2>4
<1>8. CASE s = "rolled_back"
  <2>1. PICK i \in Stage : Present(r, Rollback(i))
    BY <1>8 DEF VerdictOf
  <2>2. b \in {Rollback(k), VerifyRollback(k)}
    BY <1>2, <1>3, <2>1, StageTasks DEF Undoing
  <2>3. Applied(r, k)
    BY <1>1, <1>6, <2>2, StageTasks DEF EvidenceOfPhase, Ok, Applied
  <2>4. Ok(r, VerifyRollback(k))
    BY <1>8, <2>3 DEF VerdictOf
  <2>5. Ok(r, Rollback(k))
    BY <1>1, <1>4, <2>4 DEF TaskOrder
  <2>6. QED
    BY <1>0, <1>5, <2>2, <2>4, <2>5
<1>9. CASE s = "blocked"
  <2>1. phase[r][FirstTask] \in {"failed", "canceled"}
    BY <1>9 DEF VerdictOf
  <2>2. ~Ok(r, Prepare(0)) /\ 0 \in Stage /\ FirstTask = Prepare(0)
    BY <2>1, StageTasks DEF Ok
  <2>3. ~Ok(r, Verify(0))
    BY <1>1, <1>4, <2>2 DEF TaskOrder
  <2>4. ~Present(r, Prepare(k)) \/ k = 0
    BY <1>1, <2>2, <2>3, NStagesAssumption DEF TaskOrder, Stage
  <2>5. Present(r, Prepare(k))
    BY <1>1, <1>3, <1>4 DEF TaskOrder
  <2>6. ~Present(r, Apply(k))
    BY <1>1, <2>2, <2>4, <2>5 DEF TaskOrder
  <2>7. b = Prepare(k)
    BY <1>1, <1>3, <1>4, <2>6 DEF TaskOrder
  <2>8. QED
    BY <1>0, <2>1, <2>2, <2>4, <2>5, <2>7 DEF TerminalPhase
<1>10. CASE s = "rollback_failed"
  <2>1. PICK i \in Stage, a \in Undoing : phase[r][<<i, a>>] \in {"failed", "canceled"}
    BY <1>10 DEF VerdictOf
  <2>2. <<i, a>> \in ActionTask /\ ActionOf(<<i, a>>) \in Undoing
    BY TaskTypes DEF Undoing, Action, ActionOf
  <2>3. Present(r, <<i, a>>) /\ ~Ok(r, <<i, a>>)
    BY <2>1 DEF Present, Ok
  <2>4. b = <<i, a>>
    BY <1>2, <2>2, <2>3
  <2>5. QED
    BY <1>0, <2>1, <2>4 DEF TerminalPhase
<1>11. QED
  BY <1>7, <1>8, <1>9, <1>10 DEF Ended, Terminal

\* Nothing leads out of a state a run ends in, and little leads to cancellation.
LEMMA Edges ==
  /\ \A s \in Terminal : \A u : ~CanTransition(s, u)
  /\ \A s \in State : CanTransition(s, "canceled_before_apply") =>
       s \in Unconfirmed \union {"creating_restore_point"}
<1>1. \A s \in Terminal : transitions[s] = {}
  BY DEF Terminal, transitions, State
<1>2. \A s \in State : "canceled_before_apply" \in transitions[s] =>
        s \in Unconfirmed \union {"creating_restore_point"}
  BY DEF transitions, State, PreApplyExit, Unconfirmed
<1>3. \A s, u : CanTransition(s, u) =>
        u \in transitions[s] \/ <<s, u>> \in MissingEdges
  BY ExtraTransitionsAssumption DEF CanTransition
<1>4. \A s, u : <<s, u>> \in MissingEdges =>
        s \notin Terminal /\ u # "canceled_before_apply"
  BY DEF MissingEdges, Terminal
<1>5. QED
  BY <1>1, <1>2, <1>3, <1>4

\* A run is canceled before Apply only while nothing was applied to any stage.
LEMMA CanceledFirst ==
  ASSUME NEW r \in Run, Evidence(r), bound[r] # Planning, bound[r] \in ActionTask,
         ActionOf(bound[r]) = "create_restore_point", ~operationRunHasUncontainedApply(r)
  PROVE  bound[r] = FirstTask
<1>1. PICK k \in Stage : bound[r] = Prepare(k)
  BY StageTasks
<1>2. TaskOrder(r) /\ BoundTask(r) /\ EvidenceOfPhase(r)
  BY DEF Evidence
<1>3. Present(r, Prepare(k))
  BY <1>1, <1>2 DEF BoundTask
<1>4. \A t : Ok(r, t) => Present(r, t)
  BY DEF Ok, Present
<1>5. ~Present(r, Rollback(0)) /\ 0 \in Stage
  BY <1>2, StageTasks DEF BoundTask, Undoing
<1>6. ~Present(r, VerifyRollback(0))
  BY <1>2, <1>4, <1>5 DEF TaskOrder
<1>7. CASE k = 0
  BY <1>1, <1>7, StageTasks
<1>8. CASE k # 0
  <2>1. 0 < k
    BY <1>8, StageTasks
  <2>2. Ok(r, Apply(0))
    BY <1>2, <1>3, <1>4, <1>5, <2>1 DEF TaskOrder
  <2>3. fact[r][<<0, "apply">>] # "none"
    BY <1>2, <1>5, <2>2, StageTasks DEF EvidenceOfPhase, Ok, Apply
  <2>4. fact[r][<<0, "verify_rollback">>] = "none"
    BY <1>2, <1>5, <1>6, StageTasks DEF EvidenceOfPhase, Present, VerifyRollback
  <2>5. 0 \in AppliedBefore(r, NStages)
    BY <1>5, <2>3, <2>4, NStagesAssumption DEF AppliedBefore
  <2>6. QED
    BY <2>5 DEF operationRunHasUncontainedApply
<1>9. QED
  BY <1>7, <1>8

LEMMA VerdictCarries ==
  ASSUME NEW r \in Run, NEW s, VerdictOf(r, s)', state'[r] = s
  PROVE  VerdictOf(r, state[r])'
BY DEF VerdictOf

LEMMA MovesKeepRun ==
  ASSUME TypeOK, NEW r \in Run, Evidence(r), StateInv(r), RunMoves(r)
  PROVE  Evidence(r)' /\ StateInv(r)'
<1>1. Evidence(r)'
  <2>1. RunRests(r) \/ RunAdvances(r) \/ RunConfirmed(r) => Evidence(r)'
    BY EvidenceFrame DEF RunRests, RunAdvances, RunConfirmed
  <2>2. TaskMoves(r) \/ PlanningMoves(r) => Evidence(r)'
    BY BoundTaskMovesEvidence DEF TaskMoves, PlanningMoves
  <2>3. RunCanceled(r) => Evidence(r)'
    BY EvidenceFrame, BoundTaskMovesEvidence DEF RunCanceled
  <2>4. QED
    BY <2>1, <2>2, <2>3, TaskQueuedEvidence DEF RunMoves
<1>14. SUFFICES StateInv(r)'
  BY <1>1
<1>2. /\ state[r] \in State /\ bound[r] \in Task
      /\ bound[r] # Planning => bound[r] \in ActionTask
  BY DEF TypeOK, Task
<1>3. \A s : VerdictOf(r, s) => VerdictOf(r, s)'
  BY VerdictStable
<1>4. \A t \in Task : phase[r][t] \in TerminalPhase => phase'[r][t] = phase[r][t]
  BY MovesGrow
<1>5. \A s \in {"discovering", "awaiting_confirmation", "interrupted", "canceled_before_apply",
                "creating_restore_point", "running", "verifying", "rolling_back"} : VerdictOf(r, s)'
  BY DEF VerdictOf
<1>6. CASE RunRests(r)
  <2>1. state'[r] = state[r] /\ bound'[r] = bound[r] /\ phase'[r] = phase[r]
    BY <1>6 DEF RunRests
  <2>2. bound[r] # Planning => VerdictOf(r, state[r])'
    BY <1>3, <2>1, VerdictCarries DEF StateInv
  <2>3. QED
    BY <2>1, <2>2 DEF StateInv
<1>7. CASE TaskMoves(r)
  <2>1. /\ phase[r][bound[r]] \in LivePhase /\ bound'[r] = bound[r] /\ state'[r] = state[r]
        /\ state[r] = "canceled_before_apply" => phase'[r][bound[r]] \in TerminalPhase
    BY <1>7 DEF TaskMoves, BoundTaskMoves
  <2>2. state[r] \notin Ended
    BY <2>1 DEF StateInv, LivePhase, TerminalPhase
  <2>3. bound[r] # Planning => VerdictOf(r, state[r])'
    BY <1>3, <2>1, VerdictCarries DEF StateInv
  <2>4. QED
    BY <2>1, <2>2, <2>3 DEF StateInv, TerminalPhase
<1>8. CASE PlanningMoves(r)
  <2>1. /\ bound'[r] = Planning
        /\ state'[r] \in {"discovering", "awaiting_confirmation", "blocked", "interrupted",
                          "canceled_before_apply"}
        /\ state'[r] # "discovering" => phase'[r][Planning] \in TerminalPhase
    BY <1>8 DEF PlanningMoves, BoundTaskMoves
  <2>2. QED
    BY <2>1 DEF StateInv, TerminalPhase, Unconfirmed, Ended, Terminal
<1>9. CASE RunAdvances(r)
  <2>1. /\ bound'[r] = bound[r] /\ phase'[r] = phase[r] /\ bound[r] # Planning
        /\ state'[r] \in ContinuedState /\ VerdictOf(r, state'[r])
    BY <1>9 DEF RunAdvances
  <2>2. state'[r] \in Ended => phase[r][bound[r]] \in TerminalPhase
    BY <2>1, VerdictEnds
  <2>3. state'[r] \notin Unconfirmed \union {"creating_restore_point", "canceled_before_apply"}
    BY <2>1 DEF ContinuedState, Unconfirmed
  <2>4. VerdictOf(r, state[r])'
    <3>1. PICK s : s = state'[r] /\ VerdictOf(r, s)
      BY <2>1
    <3>2. VerdictOf(r, s)'
      BY <1>3, <3>1
    <3>3. QED
      BY <3>1, <3>2, VerdictCarries
  <2>5. QED
    BY <2>1, <2>2, <2>3, <2>4 DEF StateInv
<1>10. CASE RunConfirmed(r)
  <2>1. bound[r] = Planning
    BY <1>10 DEF RunConfirmed, StateInv, Unconfirmed
  <2>2. QED
    BY <1>10, <2>1 DEF RunConfirmed, StateInv, Ended, Terminal
<1>11. CASE TaskQueued(r)
  <2>1. PICK n \in ActionTask : bound'[r] = n /\ state'[r] = operationActionState(n)
    BY <1>11 DEF TaskQueued
  <2>2. /\ state'[r] \in {"creating_restore_point", "running", "verifying", "rolling_back"}
        /\ state'[r] = "creating_restore_point" => ActionOf(n) = "create_restore_point"
    BY <2>1 DEF operationActionState
  <2>3. VerdictOf(r, state[r])'
    BY <2>2 DEF VerdictOf
  <2>4. QED
    BY <2>1, <2>2, <2>3 DEF StateInv, Unconfirmed, Ended, Terminal
<1>12. CASE RunCanceled(r)
  <2>1. /\ bound'[r] = bound[r] /\ state'[r] = "canceled_before_apply"
        /\ ~ContainmentCancellation(r) /\ CanTransition(state[r], "canceled_before_apply")
    BY <1>12 DEF RunCanceled, BoundTaskMoves
  <2>2. phase'[r][bound[r]] \notin {"pending", "claimed", "running"}
    BY <1>12 DEF RunCanceled, LivePhase
  <2>3. state[r] \in Unconfirmed \/ state[r] = "creating_restore_point"
    BY <1>2, <2>1, Edges
  <2>4. bound[r] = Planning \/ bound[r] = FirstTask
    <3>1. CASE state[r] \in Unconfirmed
      BY <3>1 DEF StateInv
    <3>2. CASE state[r] = "creating_restore_point" /\ bound[r] # Planning
      BY <1>2, <2>1, <3>2, CanceledFirst DEF StateInv, ContainmentCancellation
    <3>3. QED
      BY <2>3, <3>1, <3>2
  <2>5. VerdictOf(r, state[r])'
    BY <2>1 DEF VerdictOf
  <2>6. QED
    BY <2>1, <2>2, <2>4, <2>5 DEF StateInv, Unconfirmed, Ended, Terminal
<1>13. QED
  BY <1>1, <1>6, <1>7, <1>8, <1>9, <1>10, <1>11, <1>12 DEF RunMoves

\* A move of a run that ended is at most the end of the restore point a canceled
\* run waits for.
LEMMA EndedRests ==
  ASSUME TypeOK, NEW r \in Run, Evidence(r), StateInv(r), RunMoves(r), state[r] \in Terminal
  PROVE  /\ state'[r] = state[r] /\ bound'[r] = bound[r]
         /\ fact'[r] = fact[r] \/ CanceledAction(r)
         /\ phase'[r][bound[r]] = phase[r][bound[r]] \/ phase[r][bound[r]] \in LivePhase
         /\ CanceledAction(r)' => CanceledAction(r)
<1>1. \A u : ~CanTransition(state[r], u)
  BY Edges
<1>2. \A s \in ContinuedState : s # "canceled_before_apply"
  BY DEF ContinuedState
<1>3. CASE RunRests(r)
  BY <1>3 DEF RunRests, CanceledAction
<1>4. CASE TaskMoves(r)
  <2>1. /\ phase[r][bound[r]] \in LivePhase /\ bound'[r] = bound[r] /\ state'[r] = state[r]
        /\ bound[r] = Planning => fact'[r] = fact[r]
    BY <1>4 DEF TaskMoves, BoundTaskMoves
  <2>2. state[r] = "canceled_before_apply"
    BY <2>1 DEF StateInv, Ended, LivePhase, TerminalPhase
  <2>3. /\ phase'[r][bound[r]] \in TerminalPhase
    BY <1>4, <2>2 DEF TaskMoves
  <2>4. bound[r] # Planning => CanceledAction(r)
    BY <2>1, <2>2 DEF CanceledAction
  <2>5. ~CanceledAction(r)'
    BY <2>1, <2>3 DEF CanceledAction, LivePhase, TerminalPhase
  <2>6. QED
    BY <1>4, <2>1, <2>4, <2>5
<1>5. CASE PlanningMoves(r)
  <2>1. /\ phase[r][bound[r]] \in LivePhase /\ bound'[r] = bound[r] /\ bound[r] = Planning
        /\ state[r] = "canceled_before_apply" => state'[r] = state[r]
        /\ bound[r] = Planning => fact'[r] = fact[r]
    BY <1>5 DEF PlanningMoves, BoundTaskMoves
  <2>2. state[r] = "canceled_before_apply"
    BY <1>5 DEF PlanningMoves, Terminal
  <2>3. QED
    BY <1>5, <2>1, <2>2 DEF CanceledAction
<1>6. CASE RunAdvances(r)
  BY <1>1, <1>6 DEF RunAdvances, CanceledAction
<1>7. CASE RunConfirmed(r) \/ TaskQueued(r)
  BY <1>7 DEF RunConfirmed, TaskQueued, Terminal
<1>8. CASE RunCanceled(r)
  BY <1>1, <1>8 DEF RunCanceled
<1>9. QED
  BY <1>3, <1>4, <1>5, <1>6, <1>7, <1>8 DEF RunMoves

-----------------------------------------------------------------------------
(* What a handler decides is backed by the run it read.                    *)

LEMMA NextIntro ==
  ASSUME NEW r \in Run, NEW t, NEW s \in Stage
  PROVE  /\ s > 0 /\ t = Verify(s - 1) /\ Ok(r, t) => NextOK(r, t, Prepare(s))
         /\ t = Prepare(s) /\ Ok(r, t) => NextOK(r, t, Apply(s))
         /\ StageOf(t) = s /\ Ok(r, Apply(s)) => NextOK(r, t, Verify(s))
         /\ t = Verify(s) /\ ~Ok(r, t) => NextOK(r, t, Rollback(s))
         /\ StageOf(t) = s /\ Ok(r, Rollback(s)) => NextOK(r, t, VerifyRollback(s))
<1>1. \A i \in Stage :
        /\ Prepare(s) \notin {Apply(i), Verify(i), Rollback(i), VerifyRollback(i)}
        /\ Apply(s) \notin {Prepare(i), Verify(i), Rollback(i), VerifyRollback(i)}
        /\ Verify(s) \notin {Prepare(i), Apply(i), Rollback(i), VerifyRollback(i)}
        /\ Rollback(s) \notin {Prepare(i), Apply(i), Verify(i), VerifyRollback(i)}
        /\ VerifyRollback(s) \notin {Prepare(i), Apply(i), Verify(i), Rollback(i)}
        /\ Prepare(s) = Prepare(i) => i = s
        /\ Apply(s) = Apply(i) => i = s
        /\ Verify(s) = Verify(i) => i = s
        /\ Rollback(s) = Rollback(i) => i = s
        /\ VerifyRollback(s) = VerifyRollback(i) => i = s
  BY StageTasksDiffer
<1>2. s > 0 /\ t = Verify(s - 1) /\ Ok(r, t) => NextOK(r, t, Prepare(s))
  BY <1>1 DEF NextOK
<1>3. t = Prepare(s) /\ Ok(r, t) => NextOK(r, t, Apply(s))
  BY <1>1 DEF NextOK
<1>4. StageOf(t) = s /\ Ok(r, Apply(s)) => NextOK(r, t, Verify(s))
  BY <1>1 DEF NextOK
<1>5. t = Verify(s) /\ ~Ok(r, t) => NextOK(r, t, Rollback(s))
  BY <1>1 DEF NextOK
<1>6. StageOf(t) = s /\ Ok(r, Rollback(s)) => NextOK(r, t, VerifyRollback(s))
  BY <1>1 DEF NextOK
<1>7. QED
  BY <1>2, <1>3, <1>4, <1>5, <1>6

\* The rollback of the previous applied stage.
LEMMA NextPrevious ==
  ASSUME NEW r \in Run, Evidence(r), NEW k \in Stage, NEW t,
         t = Prepare(k) \/ (t = VerifyRollback(k) /\ Ok(r, t)),
         NEW i \in previousAppliedStage(r, k)
  PROVE  i \in Stage /\ NextOK(r, t, Rollback(i))
<1>1. /\ i \in Stage /\ i < k /\ Applied(r, i)
      /\ \A j \in AppliedBefore(r, k) : j <= i
  BY DEF previousAppliedStage, AppliedBefore, Applied, Apply
<1>2. \A j \in Stage : i < j /\ j < k /\ Applied(r, j) => Present(r, VerifyRollback(j))
  <2>1. SUFFICES ASSUME NEW j \in Stage, i < j, j < k, Applied(r, j)
                 PROVE  Present(r, VerifyRollback(j))
    OBVIOUS
  <2>2. j \notin AppliedBefore(r, k)
    BY <1>1, <2>1, StageTasks
  <2>3. fact[r][VerifyRollback(j)] # "none"
    BY <2>1, <2>2 DEF AppliedBefore, Applied, Apply, VerifyRollback
  <2>4. QED
    BY <2>3, StageTasks DEF Evidence, EvidenceOfPhase, Present
<1>3. \A s \in Stage :
        /\ Rollback(i) \notin {Prepare(s), Apply(s), Verify(s), VerifyRollback(s)}
        /\ Rollback(i) = Rollback(s) => s = i
  BY <1>1, StageTasksDiffer
<1>4. QED
  BY <1>1, <1>2, <1>3 DEF NextOK

LEMMA QueueBacked ==
  ASSUME NEW r \in Run, NEW t, NEW n, NEW ensure, NextOK(r, t, n)
  PROVE  /\ Backed(r, Queue(t, n, ensure))
         /\ Backed(r, [Queue(t, n, ensure) EXCEPT !.kind = "contain"])
BY DEF Backed, Queue, Nothing

LEMMA AdvanceBacked ==
  ASSUME NEW r \in Run, NEW s, NEW m, NEW rec, NEW release \in BOOLEAN,
         VerdictOf(r, s), release <=> s \in Ended
  PROVE  Backed(r, Advance(s, m, rec, release))
<1>1. /\ Advance(s, m, rec, release).kind = "advance"
      /\ Advance(s, m, rec, release).state = s
      /\ Advance(s, m, rec, release).release = release
  BY DEF Advance, Nothing
<1>2. QED
  BY <1>1 DEF Backed

\* Before a later stage is prepared the first one was applied, and nothing undid it.
LEMMA FirstApplied ==
  ASSUME NEW r \in Run, Evidence(r), NEW k \in Stage, bound[r] = Prepare(k), k # 0
  PROVE  0 \in AppliedBefore(r, k) /\ 0 \in AppliedBefore(r, NStages)
<1>1. TaskOrder(r) /\ BoundTask(r) /\ EvidenceOfPhase(r)
  BY DEF Evidence
<1>2. Present(r, Prepare(k)) /\ ActionOf(bound[r]) \notin Undoing
  BY <1>1, StageTasks, StageTasksDiffer DEF BoundTask, Undoing
<1>3. \A t : Ok(r, t) => Present(r, t)
  BY DEF Ok, Present
<1>4. ~Present(r, Rollback(0)) /\ 0 \in Stage
  BY <1>1, <1>2, StageTasks DEF BoundTask
<1>5. ~Present(r, VerifyRollback(0))
  BY <1>1, <1>3, <1>4 DEF TaskOrder
<1>6. 0 < k /\ 0 < NStages
  BY StageTasks, NStagesAssumption
<1>7. Ok(r, Apply(0))
  BY <1>1, <1>2, <1>3, <1>4, <1>6 DEF TaskOrder
<1>8. fact[r][<<0, "apply">>] # "none"
  BY <1>1, <1>4, <1>7, StageTasks DEF EvidenceOfPhase, Ok, Apply
<1>9. fact[r][<<0, "verify_rollback">>] = "none"
  BY <1>1, <1>4, <1>5, StageTasks DEF EvidenceOfPhase, Present, VerifyRollback
<1>10. QED
  BY <1>4, <1>6, <1>8, <1>9 DEF AppliedBefore

LEMMA AfterFailureBacked ==
  ASSUME TypeOK, NEW r \in Run, Evidence(r), NEW t \in ActionTask, t = bound[r],
         phase[r][t] \in {"failed", "canceled"}
  PROVE  \A e \in AfterFailure(r, t) : Backed(r, e)
<1>1. PICK k \in Stage : t \in {Prepare(k), Apply(k), Verify(k), Rollback(k), VerifyRollback(k)}
  BY StageTasks
<1>2. StageOf(t) = k
  BY <1>1, StageTasks
<1>3. \A m, rec : Backed(r, Advance("interrupted", m, rec, FALSE))
  BY AdvanceBacked DEF VerdictOf, Ended, Terminal
<1>4. CASE t = Prepare(k)
  <2> DEFINE d == Advance("blocked", Mark("restore_point_failed"), "restore_point_failed", TRUE)
  <2>0. ActionOf(t) = "create_restore_point"
    BY <1>4, StageTasks
  <2>1. AfterFailure(r, t) = RollBackPrevious(r, t, d)
    BY <2>0 DEF AfterFailure
  <2>2. CASE AppliedBefore(r, k) = {}
    <3>1. k = 0
      BY <1>4, <2>2, FirstApplied
    <3>2. VerdictOf(r, "blocked")
      BY <1>4, <3>1, StageTasks DEF VerdictOf
    <3>3. Backed(r, d)
      BY <3>2, AdvanceBacked DEF Ended, Terminal
    <3>4. QED
      BY <1>2, <2>1, <2>2, <3>3 DEF RollBackPrevious
  <2>3. CASE AppliedBefore(r, k) # {}
    <3>1. \A i \in previousAppliedStage(r, k) : Backed(r, Queue(t, Rollback(i), FALSE))
      BY <1>4, NextPrevious, QueueBacked
    <3>2. QED
      BY <1>2, <2>1, <2>3, <3>1 DEF RollBackPrevious, Rollback
  <2>4. QED
    BY <2>2, <2>3
<1>5. CASE t = Apply(k)
  <2>1. ActionOf(t) = "apply"
    BY <1>5, StageTasks
  <2>2. QED
    BY <1>3, <2>1 DEF AfterFailure
<1>6. CASE t = Verify(k)
  <2>1. ActionOf(t) = "verify"
    BY <1>6, StageTasks
  <2>2. Backed(r, Queue(t, Rollback(k), TRUE))
    BY <1>6, NextIntro, QueueBacked DEF Ok
  <2>3. QED
    BY <1>2, <1>3, <2>1, <2>2 DEF AfterFailure, Rollback
<1>7. CASE t \in {Rollback(k), VerifyRollback(k)}
  <2>1. ActionOf(t) \in Undoing
    BY <1>7, StageTasks DEF Undoing
  <2>2. VerdictOf(r, "rollback_failed")
    <3>1. \E a \in Undoing : t = <<k, a>>
      BY <1>7 DEF Undoing, Rollback, VerifyRollback
    <3>2. QED
      BY <3>1 DEF VerdictOf
  <2>3. Backed(r, Advance("rollback_failed", Mark("rollback_failed"), "rollback_failed", TRUE))
    BY <2>2, AdvanceBacked DEF Ended, Terminal
  <2>4. QED
    BY <2>1, <2>3 DEF AfterFailure, Undoing
<1>8. QED
  BY <1>1, <1>4, <1>5, <1>6, <1>7

LEMMA AfterSuccessBacked ==
  ASSUME TypeOK, NEW r \in Run, Evidence(r), NEW t \in ActionTask, t = bound[r], Ok(r, t)
  PROVE  \A e \in AfterSuccess(r, t) : Backed(r, e)
<1>1. PICK k \in Stage : t \in {Prepare(k), Apply(k), Verify(k), Rollback(k), VerifyRollback(k)}
  BY StageTasks
<1>2. StageOf(t) = k /\ k \in Nat
  BY <1>1, StageTasks
<1>3. /\ \A m, rec : Backed(r, Advance("running", m, rec, FALSE))
      /\ \A m, rec : Backed(r, Advance("rolling_back", m, rec, FALSE))
  BY AdvanceBacked DEF VerdictOf, Ended, Terminal
<1>4. TaskOrder(r) /\ BoundTask(r) /\ EvidenceOfPhase(r)
  BY DEF Evidence
<1>5. \A u : Ok(r, u) => Present(r, u)
  BY DEF Ok, Present
<1>6. CASE t = Prepare(k)
  <2>1. ActionOf(t) = "create_restore_point"
    BY <1>6, StageTasks
  <2>2. Backed(r, Queue(t, Apply(k), FALSE))
    BY <1>6, NextIntro, QueueBacked
  <2>3. QED
    BY <1>2, <2>1, <2>2 DEF AfterSuccess, Apply
<1>7. CASE t = Apply(k)
  <2>1. ActionOf(t) = "apply"
    BY <1>7, StageTasks
  <2>2. Backed(r, Queue(t, Verify(k), FALSE))
    BY <1>2, <1>7, NextIntro, QueueBacked
  <2>3. QED
    BY <1>2, <1>3, <2>1, <2>2 DEF AfterSuccess, Verify
<1>8. CASE t = Verify(k)
  <2>1. ActionOf(t) = "verify"
    BY <1>8, StageTasks
  <2>2. CASE k + 1 < NStages
    <3>1. k + 1 \in Stage /\ k + 1 > 0 /\ (k + 1) - 1 = k
      BY <1>2, <2>2, NStagesAssumption DEF Stage
    <3>2. NextOK(r, t, Prepare(k + 1))
      BY <1>8, <3>1, NextIntro
    <3>3. Backed(r, Queue(t, Prepare(k + 1), FALSE))
      BY <3>2, QueueBacked
    <3>4. QED
      BY <1>2, <2>1, <2>2, <3>3 DEF AfterSuccess, Prepare
  <2>3. CASE ~(k + 1 < NStages)
    <3>1. \A i \in Stage : i = k \/ i < k
      BY <2>3, NStagesAssumption DEF Stage
    <3>2. Present(r, Prepare(k))
      BY <1>4, <1>5, <1>8 DEF TaskOrder
    <3>3. \A i \in Stage : Ok(r, Verify(i))
      BY <1>4, <1>8, <3>1, <3>2 DEF TaskOrder
    <3>4. Backed(r, Advance("succeeded", Mark("verified"), "none", TRUE))
      BY <3>3, AdvanceBacked DEF VerdictOf, Ended, Terminal
    <3>5. QED
      BY <1>2, <2>1, <2>3, <3>4 DEF AfterSuccess
  <2>4. QED
    BY <2>2, <2>3
<1>9. CASE t = Rollback(k)
  <2>1. ActionOf(t) = "rollback"
    BY <1>9, StageTasks
  <2>2. Backed(r, Queue(t, VerifyRollback(k), FALSE))
    BY <1>2, <1>9, NextIntro, QueueBacked
  <2>3. QED
    BY <1>2, <1>3, <2>1, <2>2 DEF AfterSuccess, VerifyRollback
<1>10. CASE t = VerifyRollback(k)
  <2> DEFINE d == Advance("rolled_back", Mark("rollback_verified"), "none", TRUE)
  <2>1. AfterSuccess(r, t) = RollBackPrevious(r, t, d)
    BY <1>10, StageTasks DEF AfterSuccess
  <2>2. CASE AppliedBefore(r, k) = {}
    <3>1. Present(r, Rollback(k))
      BY <1>4, <1>5, <1>10 DEF TaskOrder
    <3>2. \A i \in Stage : i > k /\ Applied(r, i) => Ok(r, VerifyRollback(i))
      BY <1>4, <3>1 DEF TaskOrder
    <3>3. \A i \in Stage : i < k /\ Applied(r, i) => Ok(r, VerifyRollback(i))
      <4>1. SUFFICES ASSUME NEW i \in Stage, i < k, Applied(r, i)
                     PROVE  Ok(r, VerifyRollback(i))
        OBVIOUS
      <4>2. fact[r][VerifyRollback(i)] # "none"
        BY <2>2, <4>1 DEF AppliedBefore, Applied, Apply, VerifyRollback
      <4>3. Present(r, VerifyRollback(i))
        BY <1>4, <4>2, StageTasks DEF EvidenceOfPhase, Present
      <4>4. VerifyRollback(i) # t
        BY <1>2, <1>10, <4>1, StageTasksDiffer
      <4>5. QED
        BY <1>4, <4>3, <4>4, StageTasks DEF BoundTask, Undoing
    <3>4. \A i \in Stage : i < k \/ i = k \/ i > k
      BY NStagesAssumption DEF Stage
    <3>5. VerdictOf(r, "rolled_back")
      BY <1>10, <3>1, <3>2, <3>3, <3>4 DEF VerdictOf
    <3>6. Backed(r, d)
      BY <3>5, AdvanceBacked DEF Ended, Terminal
    <3>7. QED
      BY <1>2, <2>1, <2>2, <3>6 DEF RollBackPrevious
  <2>3. CASE AppliedBefore(r, k) # {}
    <3>1. \A i \in previousAppliedStage(r, k) : Backed(r, Queue(t, Rollback(i), FALSE))
      BY <1>10, NextPrevious, QueueBacked
    <3>2. QED
      BY <1>2, <2>1, <2>3, <3>1 DEF RollBackPrevious, Rollback
  <2>4. QED
    BY <2>2, <2>3
<1>11. QED
  BY <1>1, <1>6, <1>7, <1>8, <1>9, <1>10

LEMMA AfterBarrierBacked ==
  ASSUME NodeInv, NEW r \in Run, NEW t \in ActionTask
  PROVE  \A e \in AfterBarrier(r, t) : Backed(r, e)
<1> DEFINE s == StageOf(t)
<1>1. s \in Stage /\ Apply(s) \in ActionTask /\ Rollback(s) \in ActionTask
  BY TaskTypes, StageTasks
<1>2. <<r, Apply(s)>> \in seen => Backed(r, Queue(t, Verify(s), FALSE))
  BY <1>1, NextIntro, QueueBacked DEF NodeInv
<1>3. <<r, Rollback(s)>> \in seen => Backed(r, Queue(t, VerifyRollback(s), FALSE))
  BY <1>1, NextIntro, QueueBacked DEF NodeInv
<1>4. QED
  BY <1>2, <1>3 DEF AfterBarrier, Apply, Verify, Rollback, VerifyRollback

LEMMA ContainBacked ==
  ASSUME NEW r \in Run, Evidence(r), NEW t \in ActionTask,
         ActionOf(t) = "create_restore_point"
  PROVE  \A e \in Contain(r, t) : Backed(r, e)
<1> DEFINE d == Advance("interrupted", Mark("cancellation_requires_reconcile"),
                        "cancellation_requires_reconcile", FALSE)
<1>1. PICK k \in Stage : t = Prepare(k) /\ StageOf(t) = k
  BY StageTasks
<1>2. Backed(r, d)
  BY AdvanceBacked DEF VerdictOf, Ended, Terminal
<1>3. \A i \in previousAppliedStage(r, k) :
        Backed(r, [Queue(t, Rollback(i), TRUE) EXCEPT !.kind = "contain"])
  BY <1>1, NextPrevious, QueueBacked
<1>4. QED
  BY <1>1, <1>2, <1>3 DEF Contain, Rollback

LEMMA SettleBacked ==
  ASSUME NEW r \in Run, StateInv(r), state[r] \in Terminal
  PROVE  Backed(r, Settle(r))
<1>1. Settle(r).kind = "settle" /\ Settle(r).ensure = AwaitsCanceledTask(r)
  BY DEF Settle, Nothing
<1>2. CanceledAction(r) => AwaitsCanceledTask(r)
  BY DEF StateInv, CanceledAction, AwaitsCanceledTask, LivePhase
<1>3. QED
  BY <1>1, <1>2 DEF Backed, AwaitsCanceledTask

LEMMA DecisionsBacked ==
  ASSUME TypeOK, NodeInv, NEW r \in Run, Evidence(r), StateInv(r), NEW e \in Decisions(r)
  PROVE  Backed(r, e)
<1>1. CASE state[r] \in Terminal
  BY <1>1, SettleBacked DEF Decisions
<1>2. CASE state[r] \notin Terminal
  <2>1. bound[r] # Planning /\ phase[r][bound[r]] \in TerminalPhase
    BY <1>2, Zenon DEF Decisions
  <2>2. PICK t \in ActionTask : t = bound[r]
    BY <2>1 DEF TypeOK, Task
  <2>3. \/ e \in Contain(r, t) /\ ActionOf(t) = "create_restore_point"
        \/ e \in AfterBarrier(r, t)
        \/ e \in AfterSuccess(r, t) /\ phase[r][t] = "succeeded"
        \/ e \in AfterFailure(r, t) /\ phase[r][t] # "succeeded"
    BY <1>2, <2>2, Zenon DEF Decisions
  <2>4. phase[r][t] # "succeeded" => phase[r][t] \in {"failed", "canceled"}
    BY <2>1, <2>2 DEF TerminalPhase
  <2>5. QED
    BY <2>2, <2>3, <2>4, ContainBacked, AfterBarrierBacked, AfterSuccessBacked,
       AfterFailureBacked DEF Ok
<1>3. QED
  BY <1>1, <1>2

-----------------------------------------------------------------------------
(* Every step is a move of each run.                                       *)

\* The one task that is not over gets another phase and leaves no evidence.
LEMMA BoundTaskMovesIntro ==
  ASSUME TypeOK, OneLiveAction, NEW r \in Run, Evidence(r), NEW t \in Task,
         phase[r][t] \in LivePhase, NEW p \in Phase \ {"absent"},
         phase' = [phase EXCEPT ![r][t] = p], bound' = bound, fact' = fact,
         p = "succeeded" => t = Planning,
         phase[r][t] \in Held /\ <<r, t>> \in mutating => p \in Held
  PROVE  /\ t = bound[r] /\ BoundTaskMoves(r) /\ phase'[r][t] = p
         /\ \A q \in Run \ {r} : phase'[q] = phase[q]
<1>1. t = bound[r]
  BY DEF OneLiveAction
<1>2. /\ phase'[r][t] = p
      /\ \A u \in Task : u # t => phase'[r][u] = phase[r][u]
      /\ \A q \in Run \ {r} : phase'[q] = phase[q]
  BY DEF TypeOK
<1>3. t # Planning => fact[r][t] = "none"
  <2>1. t # Planning => t \in ActionTask
    BY DEF Task
  <2>2. QED
    BY <2>1 DEF Evidence, EvidenceOfPhase, LivePhase, TypeOK
<1>4. BoundTaskMoves(r)
  BY <1>1, <1>2, <1>3 DEF BoundTaskMoves
<1>5. QED
  BY <1>1, <1>2, <1>4

LEMMA ClaimTaskMoves ==
  ASSUME TypeOK, OneLiveAction, NEW r \in Run, Evidence(r), StateInv(r), NEW t \in Task,
         ClaimTask(r, t)
  PROVE  \A q \in Run : RunMoves(q)
<1>1. /\ phase[r][t] = "pending" /\ phase' = [phase EXCEPT ![r][t] = "claimed"]
      /\ UNCHANGED <<state, bound, fact>>
  BY DEF ClaimTask, run
<1>2. /\ t = bound[r] /\ BoundTaskMoves(r)
      /\ \A q \in Run \ {r} : phase'[q] = phase[q]
  <2>1. /\ "claimed" \in Phase \ {"absent"} /\ "claimed" # "succeeded"
        /\ phase[r][t] \in LivePhase /\ phase[r][t] \notin Held
    BY <1>1 DEF LivePhase, Phase, Held
  <2> DEFINE p == "claimed"
  <2>2. /\ t = bound[r] /\ BoundTaskMoves(r)
        /\ \A q \in Run \ {r} : phase'[q] = phase[q]
    <3>1. phase' = [phase EXCEPT ![r][t] = p]
      BY <1>1
    <3> HIDE DEF p
    <3>2. QED
      BY <1>1, <2>1, <3>1, BoundTaskMovesIntro DEF p
  <2>3. QED
    BY <2>2
<1>3. state[r] # "canceled_before_apply"
  BY <1>1, <1>2 DEF StateInv
<1>4. TaskMoves(r)
  BY <1>1, <1>2, <1>3 DEF TaskMoves
<1>5. QED
  BY <1>1, <1>2, <1>4 DEF RunMoves, RunRests

LEMMA AcknowledgeTaskMoves ==
  ASSUME IInv, NEW r \in Run, Evidence(r), StateInv(r), NEW t \in Task,
         AcknowledgeTask(r, t)
  PROVE  \A q \in Run : RunMoves(q)
<1>0. TypeOK /\ OneLiveAction
  BY DEF IInv
<1>1. /\ phase[r][t] = "claimed" /\ phase' = [phase EXCEPT ![r][t] = "running"]
      /\ UNCHANGED <<bound, fact>>
  BY DEF AcknowledgeTask
<1>2. /\ t = bound[r] /\ BoundTaskMoves(r)
      /\ \A q \in Run \ {r} : phase'[q] = phase[q]
  <2>1. /\ "running" \in Phase \ {"absent"} /\ "running" # "succeeded"
        /\ phase[r][t] \in LivePhase /\ phase[r][t] \notin Held
    BY <1>1 DEF LivePhase, Phase, Held
  <2> DEFINE p == "running"
  <2>2. /\ t = bound[r] /\ BoundTaskMoves(r)
        /\ \A q \in Run \ {r} : phase'[q] = phase[q]
    <3>1. phase' = [phase EXCEPT ![r][t] = p]
      BY <1>1
    <3> HIDE DEF p
    <3>2. QED
      BY <1>0, <1>1, <2>1, <3>1, BoundTaskMovesIntro DEF p
  <2>3. QED
    BY <2>2
<1>3. state[r] # "canceled_before_apply"
  BY <1>1, <1>2 DEF StateInv
<1>4. CASE t = Planning
  <2>1. state' = [state EXCEPT ![r] = "discovering"]
    BY <1>4 DEF AcknowledgeTask
  <2>2. state'[r] = "discovering" /\ \A q \in Run \ {r} : state'[q] = state[q]
    BY <1>0, <2>1 DEF TypeOK
  <2>3. state[r] \in {"draft", "discovering"}
    BY <1>1, <1>3, <1>4, PlanningUnderWay DEF PlanningOver, TerminalPhase
  <2>4. PlanningMoves(r)
    BY <1>2, <1>4, <2>2, <2>3 DEF PlanningMoves
  <2>5. QED
    BY <1>1, <1>2, <2>2, <2>4 DEF RunMoves, RunRests
<1>5. CASE t # Planning
  <2>1. state' = state
    BY <1>5 DEF AcknowledgeTask
  <2>2. TaskMoves(r)
    BY <1>2, <1>3, <2>1 DEF TaskMoves
  <2>3. QED
    BY <1>1, <1>2, <2>1, <2>2 DEF RunMoves, RunRests
<1>6. QED
  BY <1>4, <1>5

LEMMA CompletePlanningMoves ==
  ASSUME IInv, NEW r \in Run, Evidence(r), StateInv(r), NEW x \in PlanningReport(r),
         CompletePlanning(r, x)
  PROVE  \A q \in Run : RunMoves(q)
<1>0. TypeOK /\ OneLiveAction
  BY DEF IInv
<1>1. /\ phase[r][Planning] \in {"running", "cancel_requested"}
      /\ phase' = [phase EXCEPT ![r][Planning] = x.phase]
      /\ state' = [state EXCEPT ![r] = x.state]
      /\ UNCHANGED <<bound, fact>>
  BY DEF CompletePlanning
<1>2. /\ x.phase \in TerminalPhase
      /\ x.state \in {"awaiting_confirmation", "blocked", "interrupted", "canceled_before_apply"}
      /\ phase[r][Planning] = "cancel_requested" => x.state = "canceled_before_apply"
  BY DEF PlanningReport, TerminalPhase
<1>3. <<r, Planning>> \notin mutating
  BY <1>0, TaskTypes DEF TypeOK
<1>4. Planning = bound[r] /\ BoundTaskMoves(r) /\ phase'[r][Planning] = x.phase
      /\ \A q \in Run \ {r} : phase'[q] = phase[q]
  <2>1. x.phase \in Phase \ {"absent"} /\ phase[r][Planning] \in LivePhase
    BY <1>1, <1>2 DEF Phase, TerminalPhase, LivePhase
  <2> DEFINE p == x.phase
  <2>2. phase' = [phase EXCEPT ![r][Planning] = p]
    BY <1>1
  <2> HIDE DEF p
  <2>3. /\ Planning = bound[r] /\ BoundTaskMoves(r) /\ phase'[r][Planning] = p
        /\ \A q \in Run \ {r} : phase'[q] = phase[q]
    BY <1>0, <1>1, <1>3, <2>1, <2>2, TaskTypes, BoundTaskMovesIntro DEF p
  <2>4. QED
    BY <2>3 DEF p
<1>5. state'[r] = x.state /\ \A q \in Run \ {r} : state'[q] = state[q]
  BY <1>0, <1>1 DEF TypeOK
<1>6. state[r] \in {"draft", "discovering", "canceled_before_apply"}
  BY <1>1, PlanningUnderWay DEF PlanningOver, TerminalPhase
<1>7. state[r] = "canceled_before_apply" => x.state = state[r]
  BY <1>1, <1>2, <1>4 DEF StateInv
<1>8. PlanningMoves(r)
  BY <1>2, <1>4, <1>5, <1>6, <1>7 DEF PlanningMoves
<1>9. QED
  BY <1>1, <1>4, <1>5, <1>8 DEF RunMoves, RunRests

LEMMA CompleteTaskMoves ==
  ASSUME TypeOK, OneLiveAction, NEW r \in Run, Evidence(r), NEW t \in ActionTask, NEW x,
         CompleteTask(r, t, x)
  PROVE  \A q \in Run : RunMoves(q)
<1>1. /\ phase[r][t] \in {"running", "cancel_requested"}
      /\ <<r, t>> \notin mutating
      /\ x \in Report(r, t)
      /\ fact' = [fact EXCEPT ![r][t] = x.fact]
      /\ phase' = [phase EXCEPT ![r][t] = x.phase]
      /\ bound' = bound /\ t = bound[r]
      /\ \E m : Record(r, state[r], m)
  BY DEF CompleteTask
<1>2. /\ x.phase \in TerminalPhase
      /\ x.fact # "none" => x.phase \in {"succeeded", "failed"}
      /\ x.fact = "passed" <=> x.phase = "succeeded"
  BY <1>1 DEF Report, TerminalPhase
<1>3. t \in Task /\ t # Planning
  BY TaskTypes
<1>4. /\ phase'[r][t] = x.phase /\ fact'[r][t] = x.fact
      /\ \A u \in Task : u # t => phase'[r][u] = phase[r][u]
      /\ \A u \in ActionTask : u # t => fact'[r][u] = fact[r][u]
      /\ \A q \in Run \ {r} : phase'[q] = phase[q] /\ fact'[q] = fact[q]
  BY <1>1, <1>3 DEF TypeOK
<1>5. state'[r] = state[r] /\ \A q \in Run \ {r} : state'[q] = state[q]
  BY <1>1 DEF TypeOK, Record
<1>6. BoundTaskMoves(r)
  BY <1>1, <1>2, <1>3, <1>4 DEF BoundTaskMoves, LivePhase, TerminalPhase, Phase
<1>7. TaskMoves(r)
  BY <1>1, <1>2, <1>4, <1>5, <1>6 DEF TaskMoves
<1>8. QED
  BY <1>1, <1>4, <1>5, <1>7 DEF RunMoves, RunRests

\* A step that leaves the runs and their tasks alone.
LEMMA RestMoves ==
  ASSUME UNCHANGED <<state, bound, phase, fact>>
  PROVE  \A q \in Run : RunMoves(q)
BY DEF RunMoves, RunRests

LEMMA AgentStepMoves ==
  ASSUME IInv, \A q \in Run : Evidence(q) /\ StateInv(q), NEW r \in Run, AgentStep(r)
  PROVE  \A q \in Run : RunMoves(q)
<1>0. TypeOK /\ OneLiveAction
  BY DEF IInv
<1>1. CASE \E t \in Task : ClaimTask(r, t)
  BY <1>0, <1>1, ClaimTaskMoves
<1>2. CASE \E t \in Task : AcknowledgeTask(r, t)
  BY <1>2, AcknowledgeTaskMoves
<1>3. CASE \E x \in PlanningReport(r) : CompletePlanning(r, x)
  BY <1>3, CompletePlanningMoves
<1>4. CASE \E t \in ActionTask : BeginMutation(r, t) \/ EndMutation(r, t) \/ ObserveExecutor(r, t)
  BY <1>4, RestMoves DEF BeginMutation, EndMutation, ObserveExecutor, run, work
<1>5. CASE \E t \in ActionTask : \E x \in Report(r, t) : CompleteTask(r, t, x)
  BY <1>0, <1>5, CompleteTaskMoves
<1>6. QED
  BY <1>1, <1>2, <1>3, <1>4, <1>5, Zenon DEF AgentStep

\* A task is queued for a run that has not ended.
LEMMA QueueTaskMoves ==
  ASSUME TypeOK, NEW r \in Run, NEW n \in ActionTask, phase[r][n] = "absent", QueueTask(r, n),
         fact' = fact, state[r] \notin Terminal,
         \/ bound[r] = Planning /\ n = FirstTask /\ state[r] = "acquiring_lock"
         \/ /\ bound[r] # Planning /\ phase[r][bound[r]] \in TerminalPhase
            /\ NextOK(r, bound[r], n)
  PROVE  \A q \in Run : RunMoves(q)
<1>1. /\ state' = [state EXCEPT ![r] = operationActionState(n)]
      /\ bound' = [bound EXCEPT ![r] = n]
      /\ phase' = [phase EXCEPT ![r][n] = "pending"]
  BY DEF QueueTask, Record
<1>2. n \in Task
  BY TaskTypes
<1>3. /\ state'[r] = operationActionState(n) /\ bound'[r] = n /\ phase'[r][n] = "pending"
      /\ \A u \in Task : u # n => phase'[r][u] = phase[r][u]
      /\ \A q \in Run \ {r} : state'[q] = state[q] /\ bound'[q] = bound[q] /\ phase'[q] = phase[q]
  BY <1>1, <1>2 DEF TypeOK
<1>4. TaskQueued(r)
  BY <1>3 DEF TaskQueued
<1>5. QED
  BY <1>3, <1>4 DEF RunMoves, RunRests

LEMMA ConfirmMoves ==
  ASSUME IInv, NEW r \in Run, \/ ConfirmAdvance(r) \/ ResumeQueued(r)
                              \/ ConfirmQueue(r) \/ ResumeAcquiring(r)
  PROVE  \A q \in Run : RunMoves(q)
<1>0. TypeOK /\ StartInv
  BY DEF IInv
<1>1. CASE ConfirmAdvance(r) \/ ResumeQueued(r)
  <2>1. /\ UNCHANGED <<bound, phase, fact>>
        /\ state[r] \in {"awaiting_confirmation", "queued"}
        /\ \E s \in {"queued", "acquiring_lock"} : state' = [state EXCEPT ![r] = s]
    BY <1>1 DEF ConfirmAdvance, ResumeQueued, Record, work
  <2>2. /\ state'[r] \in {"queued", "acquiring_lock"}
        /\ \A q \in Run \ {r} : state'[q] = state[q]
    BY <1>0, <2>1 DEF TypeOK
  <2>3. RunConfirmed(r)
    BY <2>1, <2>2 DEF RunConfirmed
  <2>4. QED
    BY <2>1, <2>2, <2>3 DEF RunMoves, RunRests
<1>2. CASE ConfirmQueue(r) \/ ResumeAcquiring(r)
  <2>1. /\ state[r] = "acquiring_lock" /\ CanQueue(r, bound[r], FirstTask)
        /\ QueueTask(r, FirstTask) /\ fact' = fact
    BY <1>2 DEF ConfirmQueue, ResumeAcquiring
  <2>2. bound[r] = Planning /\ state[r] \notin Terminal
    BY <1>0, <2>1 DEF StartInv, Terminal
  <2>3. phase[r][FirstTask] = "absent" /\ FirstTask \in ActionTask
    BY <2>1, TaskTypes DEF CanQueue
  <2>4. bound[r] = Planning /\ state[r] = "acquiring_lock"
    BY <2>1, <2>2
  <2>5. QED
    BY <1>0, <2>1, <2>2, <2>3, <2>4, QueueTaskMoves
<1>3. QED
  BY <1>1, <1>2

LEMMA CancelTaskMoves ==
  ASSUME TypeOK, OneLiveAction, NEW r \in Run, Evidence(r), CancelTaskOf(r),
         bound' = bound, fact' = fact
  PROVE  /\ \/ phase' = phase /\ phase[r][bound[r]] \notin LivePhase
            \/ BoundTaskMoves(r) /\ phase'[r][bound[r]] \in {"canceled", "cancel_requested"}
         /\ \A q \in Run \ {r} : phase'[q] = phase[q]
<1>0. PICK t \in Task : t = bound[r]
  BY DEF TypeOK
<1>1. CASE phase[r][t] \in LivePhase
  <2> DEFINE p == IF phase[r][t] = "pending" THEN "canceled" ELSE "cancel_requested"
  <2>1. phase' = [phase EXCEPT ![r][t] = p]
    BY <1>0, <1>1 DEF CancelTaskOf
  <2>2. /\ p \in {"canceled", "cancel_requested"}
        /\ phase[r][t] \in Held => p \in Held
    BY DEF Held
  <2> HIDE DEF p
  <2>3. /\ p \in Phase \ {"absent"}
        /\ p = "succeeded" => t = Planning
        /\ phase[r][t] \in Held /\ <<r, t>> \in mutating => p \in Held
    BY <2>2 DEF Phase
  <2>4. /\ t = bound[r] /\ BoundTaskMoves(r) /\ phase'[r][t] = p
        /\ \A q \in Run \ {r} : phase'[q] = phase[q]
    BY <1>1, <2>1, <2>3, BoundTaskMovesIntro
  <2>5. QED
    BY <1>0, <2>2, <2>4
<1>2. CASE phase[r][t] \notin LivePhase
  <2>1. phase' = [phase EXCEPT ![r][t] = phase[r][t]]
    BY <1>0, <1>2 DEF CancelTaskOf, LivePhase
  <2>2. phase' = phase
    BY <2>1 DEF TypeOK
  <2>3. QED
    BY <1>0, <1>2, <2>2
<1>3. QED
  BY <1>1, <1>2

LEMMA UserStepMoves ==
  ASSUME IInv, NEW r \in Run, Evidence(r), StateInv(r), UserStep(r)
  PROVE  \A q \in Run : RunMoves(q)
<1>0. TypeOK /\ OneLiveAction
  BY DEF IInv
<1>1. CASE ConfirmOperationRun(r) \/ CancelAgain(r)
  BY <1>1, RestMoves DEF ConfirmOperationRun, CancelAgain, run, work
<1>2. CASE CancelBeforeApply(r)
  <2>1. /\ ~ContainmentCancellation(r) /\ CanTransition(state[r], "canceled_before_apply")
        /\ CancelTaskOf(r) /\ bound' = bound /\ fact' = fact
        /\ state' = [state EXCEPT ![r] = "canceled_before_apply"]
    BY <1>2 DEF CancelBeforeApply
  <2>2. /\ state'[r] = "canceled_before_apply"
        /\ \A q \in Run \ {r} : state'[q] = state[q]
    BY <1>0, <2>1 DEF TypeOK
  <2>3. /\ \/ phase' = phase /\ phase[r][bound[r]] \notin LivePhase
           \/ BoundTaskMoves(r) /\ phase'[r][bound[r]] \in {"canceled", "cancel_requested"}
        /\ \A q \in Run \ {r} : phase'[q] = phase[q]
    BY <1>0, <2>1, CancelTaskMoves
  <2>4. RunCanceled(r)
    BY <2>1, <2>2, <2>3 DEF RunCanceled
  <2>5. QED
    BY <2>1, <2>2, <2>3, <2>4 DEF RunMoves, RunRests
<1>3. CASE CancelContained(r)
  <2>1. /\ state[r] = "creating_restore_point" /\ CancelTaskOf(r)
        /\ bound' = bound /\ fact' = fact
        /\ state' = state \/ \E m : Record(r, state[r], m)
    BY <1>3 DEF CancelContained, ContainmentCancellation
  <2>2. \A q \in Run : state'[q] = state[q]
    BY <1>0, <2>1 DEF TypeOK, Record
  <2>3. /\ \/ phase' = phase /\ phase[r][bound[r]] \notin LivePhase
           \/ BoundTaskMoves(r) /\ phase'[r][bound[r]] \in {"canceled", "cancel_requested"}
        /\ \A q \in Run \ {r} : phase'[q] = phase[q]
    BY <1>0, <2>1, CancelTaskMoves
  <2>4. RunRests(r) \/ TaskMoves(r)
    BY <2>1, <2>2, <2>3 DEF RunRests, TaskMoves
  <2>5. QED
    BY <2>1, <2>2, <2>3, <2>4 DEF RunMoves, RunRests
<1>4. QED
  BY <1>1, <1>2, <1>3 DEF UserStep

LEMMA MutexStepMoves ==
  ASSUME IInv, NEW r \in Run, MutexStep(r)
  PROVE  \A q \in Run : RunMoves(q)
<1>1. CASE ConfirmAdvance(r) \/ ConfirmQueue(r)
  BY <1>1, ConfirmMoves
<1>2. CASE \/ ConfirmLease(r) \/ ConfirmRefused(r) \/ ReadCanceledTask(r)
           \/ ReconcileLease(r) \/ ReconcileRefused(r)
  BY <1>2, RestMoves DEF ConfirmLease, ConfirmRefused, ReadCanceledTask, ReconcileLease,
                         ReconcileRefused, run, work
<1>3. QED
  BY <1>1, <1>2 DEF MutexStep

LEMMA CommitQueueMoves ==
  ASSUME IInv, NEW w \in Handler, Backed(h[w].run, h[w].d), CommitQueue(w)
  PROVE  \A q \in Run : RunMoves(q)
<1>0. TypeOK /\ HandlerInv
  BY DEF IInv
<1>1. /\ h[w].pc # "idle" /\ QueueAccepted(w) /\ QueueTask(h[w].run, h[w].d.next) /\ fact' = fact
      /\ h[w].pc = "leased" \/ h[w].d.kind = "queue"
  BY DEF CommitQueue, Queueing
<1>2. h[w].d.kind \in {"queue", "contain"}
  BY <1>0, <1>1 DEF HandlerInv
<1>3. PICK r \in Run, n \in ActionTask, b \in ActionTask :
        r = h[w].run /\ n = h[w].d.next /\ b = h[w].d.done
  BY <1>0, <1>1, <1>2 DEF HandlerInv, DecisionOK
<1>4. bound[r] = b /\ phase[r][n] = "absent" /\ CanAdvance(r, operationActionState(n))
  BY <1>1, <1>3 DEF QueueAccepted, CanQueue
<1>5. phase[r][b] \in TerminalPhase
  BY <1>0, <1>1, <1>2, <1>3 DEF HandlerInv
<1>6. NextOK(r, b, n)
  BY <1>2, <1>3, <1>4 DEF Backed
<1>7. state[r] \notin Terminal
  <2>1. operationActionState(n) \notin Terminal
    BY ActionStateType DEF Terminal
  <2>2. state[r] \in Terminal => ~CanTransition(state[r], operationActionState(n))
    BY Edges
  <2>3. QED
    BY <1>4, <2>1, <2>2 DEF CanAdvance
<1>8. QueueTask(r, n) /\ fact' = fact /\ bound[r] # Planning
  BY <1>1, <1>3, <1>4, TaskTypes
<1>9. QED
  BY <1>0, <1>4, <1>5, <1>6, <1>7, <1>8, QueueTaskMoves

LEMMA CommitAdvanceMoves ==
  ASSUME IInv, NEW w \in Handler, Backed(h[w].run, h[w].d), CommitAdvance(w)
  PROVE  \A q \in Run : RunMoves(q)
<1>0. TypeOK /\ HandlerInv
  BY DEF IInv
<1>1. PICK r, s, m : r = h[w].run /\ s = h[w].d.state /\ m = h[w].d.mark
  OBVIOUS
<1>2. /\ h[w].pc = "decided" /\ h[w].d.kind = "advance"
      /\ CanAdvance(r, s) /\ Record(r, s, m)
      /\ UNCHANGED <<bound, phase, fact>>
  BY <1>1 DEF CommitAdvance, Advancing, work
<1>3. r \in Run /\ s \in ContinuedState /\ bound[r] # Planning
  BY <1>0, <1>1, <1>2 DEF HandlerInv, DecisionOK
<1>4. VerdictOf(r, s)
  BY <1>1, <1>2 DEF Backed
<1>5. state'[r] = s /\ \A q \in Run \ {r} : state'[q] = state[q]
  BY <1>0, <1>2, <1>3 DEF TypeOK, Record
<1>6. RunAdvances(r)
  BY <1>2, <1>3, <1>4, <1>5 DEF RunAdvances, CanAdvance
<1>7. QED
  BY <1>2, <1>5, <1>6 DEF RunMoves, RunRests

\* A handler that ends without its step, or falls back, leaves the run alone.
LEMMA HandlerStepMoves ==
  ASSUME IInv, DecisionInv, NEW w \in Handler, HandlerStep(w)
  PROVE  \A q \in Run : RunMoves(q)
<1>1. Fail(w) => UNCHANGED <<state, bound, phase, fact>>
  BY DEF Fail, run, work
<1>2. CASE CommitQueue(w)
  BY <1>2, CommitQueueMoves DEF CommitQueue, Queueing, DecisionInv
<1>3. CASE CommitAdvance(w)
  BY <1>3, CommitAdvanceMoves DEF CommitAdvance, Advancing, DecisionInv
<1>4. CASE \/ \E r \in Run : Decide(w, r) \/ DecideNothing(w, r)
           \/ EnsureForContinuation(w) \/ EnsureRefused(w) \/ QueueRefused(w)
           \/ AdvanceRefused(w) \/ ReleaseLease(w) \/ ReleaseRefused(w)
           \/ SettleLease(w) \/ SettleRefused(w)
  <2>1. UNCHANGED <<state, bound, phase, fact>>
    BY <1>1, <1>4 DEF Decide, DecideNothing, EnsureForContinuation, EnsureRefused, QueueRefused,
                AdvanceRefused, ReleaseLease, ReleaseRefused, SettleLease, SettleRefused, run, work
  <2>2. QED
    BY <2>1, RestMoves
<1>5. QED
  BY <1>2, <1>3, <1>4 DEF HandlerStep

LEMMA RestartStepMoves ==
  ASSUME IInv, RestartStep
  PROVE  \A q \in Run : RunMoves(q)
<1>1. CASE \E r \in Run : ResumeQueued(r) \/ ResumeAcquiring(r)
  BY <1>1, ConfirmMoves
<1>2. CASE Start \/ Listen \/ \E r \in Run : ResumeRefused(r) \/ ResumeSkip(r)
  BY <1>2, RestMoves DEF Start, Listen, ResumeRefused, ResumeSkip, run, work
<1>3. QED
  BY <1>1, <1>2 DEF RestartStep

LEMMA FaultMoves ==
  ASSUME Fault
  PROVE  \A q \in Run : RunMoves(q)
BY RestMoves DEF Fault, Crash, AbortMutex, Abort, LoseResponse, Expire, RenewFail, run, work

LEMMA NextMoves ==
  ASSUME EInv, [Next]_vars
  PROVE  \A q \in Run : RunMoves(q)
<1>1. IInv /\ DecisionInv /\ \A q \in Run : Evidence(q) /\ StateInv(q)
  BY DEF EInv
<1>2. CASE UNCHANGED vars
  BY <1>2, RestMoves DEF vars
<1>3. CASE Next
  BY <1>1, <1>3, AgentStepMoves, MutexStepMoves, UserStepMoves, HandlerStepMoves,
     RestartStepMoves, FaultMoves DEF Next
<1>4. QED
  BY <1>2, <1>3

-----------------------------------------------------------------------------
(* The invariant is inductive.                                             *)

LEMMA NodeSteps ==
  ASSUME [Next]_vars
  PROVE  \/ UNCHANGED agents
         \/ \E r \in Run : \E t \in ActionTask :
              BeginMutation(r, t) \/ EndMutation(r, t) \/ ObserveExecutor(r, t)
<1>1. CASE UNCHANGED vars
  BY <1>1 DEF vars, agents
<1>2. ASSUME NEW r \in Run, AgentStep(r)
      PROVE  \/ UNCHANGED agents
             \/ \E t \in ActionTask :
                  BeginMutation(r, t) \/ EndMutation(r, t) \/ ObserveExecutor(r, t)
  BY <1>2 DEF AgentStep, ClaimTask, AcknowledgeTask, CompletePlanning, CompleteTask
<1>3. ASSUME NEW r \in Run, MutexStep(r) \/ UserStep(r)
      PROVE  UNCHANGED agents
  BY <1>3 DEF MutexStep, UserStep, ConfirmLease, ConfirmRefused, ConfirmAdvance, ConfirmQueue,
              ReadCanceledTask, ReconcileLease, ReconcileRefused, ConfirmOperationRun,
              CancelBeforeApply, CancelAgain, CancelContained
<1>4. ASSUME NEW w \in Handler, HandlerStep(w)
      PROVE  UNCHANGED agents
  <2>1. Fail(w) => UNCHANGED agents
    BY DEF Fail
  <2>2. QED
    BY <1>4, <2>1
       DEF HandlerStep, Decide, DecideNothing, EnsureForContinuation, EnsureRefused, CommitQueue,
           QueueRefused, CommitAdvance, AdvanceRefused, ReleaseLease, ReleaseRefused, SettleLease,
           SettleRefused
<1>5. RestartStep \/ Fault => UNCHANGED agents
  BY DEF RestartStep, Start, Listen, ResumeQueued, ResumeAcquiring, ResumeRefused, ResumeSkip,
         Fault, Crash, AbortMutex, Abort, LoseResponse, Expire, RenewFail
<1>6. QED
  BY <1>1, <1>2, <1>3, <1>4, <1>5 DEF Next

\* What runs on a node is under way until it ends there.
LEMMA HeldStays ==
  ASSUME TypeOK, NEW r \in Run, RunMoves(r), NEW t \in ActionTask, <<r, t>> \in mutating,
         phase[r][t] \in Held
  PROVE  phase'[r][t] \in Held
<1>1. t \in Task
  BY TaskTypes
<1>2. BoundTaskMoves(r) => phase'[r][t] \in Held
  BY <1>1 DEF BoundTaskMoves
<1>3. TaskQueued(r) => phase'[r][t] \in Held
  BY <1>1 DEF TaskQueued, Held
<1>4. QED
  BY <1>2, <1>3 DEF RunMoves, RunRests, TaskMoves, PlanningMoves, RunAdvances, RunConfirmed,
                    RunCanceled

LEMMA NodeInvKept ==
  ASSUME EInv, [Next]_vars
  PROVE  NodeInv'
<1>1. TypeOK /\ NodeInv /\ \A q \in Run : RunMoves(q)
  BY NextMoves DEF EInv, IInv
<1>2. SUFFICES ASSUME NEW r \in Run, NEW t \in ActionTask
               PROVE  /\ <<r, t>> \in seen' => Ok(r, t)'
                      /\ <<r, t>> \in mutated' => Present(r, t)' /\ ActionOf(t) \in Destructive
                      /\ <<r, t>> \in mutating' => phase'[r][t] \in Held /\ ActionOf(t) \in Destructive
  BY DEF NodeInv
<1>3. /\ Present(r, t) => Present(r, t)'
      /\ Ok(r, t) => Ok(r, t)'
      /\ <<r, t>> \in mutating /\ phase[r][t] \in Held => phase'[r][t] \in Held
  BY <1>1, MovesGrow, HeldStays, TaskTypes
<1>4. /\ <<r, t>> \in seen => Ok(r, t)
      /\ <<r, t>> \in mutated => Present(r, t) /\ ActionOf(t) \in Destructive
      /\ <<r, t>> \in mutating => phase[r][t] \in Held /\ ActionOf(t) \in Destructive
  BY <1>1 DEF NodeInv
<1>5. CASE UNCHANGED agents
  BY <1>3, <1>4, <1>5 DEF agents
<1>6. ASSUME NEW q \in Run, NEW u \in ActionTask, BeginMutation(q, u)
      PROVE  /\ <<r, t>> \in seen' => Ok(r, t)'
             /\ <<r, t>> \in mutated' => Present(r, t)' /\ ActionOf(t) \in Destructive
             /\ <<r, t>> \in mutating' => phase'[r][t] \in Held /\ ActionOf(t) \in Destructive
  <2>1. /\ phase[q][u] = "running" /\ ActionOf(u) \in Destructive
        /\ mutating' = mutating \union {<<q, u>>} /\ mutated' = mutated \union {<<q, u>>}
        /\ seen' = seen /\ phase' = phase
    BY <1>6 DEF BeginMutation, work
  <2>2. QED
    BY <1>3, <1>4, <2>1 DEF Present, Held
<1>7. ASSUME NEW q \in Run, NEW u \in ActionTask, EndMutation(q, u) \/ ObserveExecutor(q, u)
      PROVE  /\ <<r, t>> \in seen' => Ok(r, t)'
             /\ <<r, t>> \in mutated' => Present(r, t)' /\ ActionOf(t) \in Destructive
             /\ <<r, t>> \in mutating' => phase'[r][t] \in Held /\ ActionOf(t) \in Destructive
  BY <1>3, <1>4, <1>7 DEF EndMutation, ObserveExecutor, work, Ok
<1>8. QED
  BY <1>5, <1>6, <1>7, NodeSteps

\* A decision that can still be carried out stays backed.
LEMMA BackedStable ==
  ASSUME TypeOK, NEW r \in Run, Evidence(r), StateInv(r), RunMoves(r), NEW d, Backed(r, d),
         d.kind \in {"queue", "contain"} =>
           d.done \in ActionTask /\ phase[r][d.done] \in TerminalPhase
  PROVE  Backed(r, d)'
<1>1. d.kind \in {"queue", "contain"} /\ bound'[r] = d.done => NextOK(r, d.done, d.next)'
  <2>1. SUFFICES ASSUME d.kind \in {"queue", "contain"}, bound'[r] = d.done
                 PROVE  NextOK(r, d.done, d.next)'
    OBVIOUS
  <2>2. d.done \in Task /\ d.done # Planning /\ phase[r][d.done] \in TerminalPhase
    BY <2>1, TaskTypes
  <2>3. ~TaskQueued(r)
    BY <2>1, <2>2 DEF TaskQueued, TerminalPhase
  <2>4. bound[r] = d.done
    BY <2>1, <2>3 DEF RunMoves, RunRests, TaskMoves, PlanningMoves, RunAdvances, RunConfirmed,
                      RunCanceled, BoundTaskMoves
  <2>5. ~BoundTaskMoves(r)
    BY <2>2, <2>4 DEF BoundTaskMoves, LivePhase, TerminalPhase
  <2>6. phase'[r] = phase[r] /\ fact'[r] = fact[r]
    BY <2>3, <2>5 DEF RunMoves, RunRests, TaskMoves, PlanningMoves, RunAdvances, RunConfirmed,
                      RunCanceled
  <2>7. /\ \A t : Ok(r, t)' <=> Ok(r, t)
        /\ \A t : Present(r, t)' <=> Present(r, t)
        /\ \A s : Applied(r, s)' <=> Applied(r, s)
    BY <2>6 DEF Ok, Present, Applied
  <2>8. NextOK(r, d.done, d.next)
    BY <2>1, <2>4 DEF Backed
  <2>9. QED
    BY <2>7, <2>8 DEF NextOK
<1>2. d.kind = "advance" => VerdictOf(r, d.state)' /\ (d.release <=> d.state \in Ended)
  BY VerdictStable DEF Backed
<1>3. d.kind = "settle" => /\ state'[r] \in Terminal
                           /\ d.ensure => state'[r] = "canceled_before_apply" /\ bound'[r] # Planning
                           /\ ~d.ensure => ~CanceledAction(r)'
  BY EndedRests DEF Backed
<1>4. QED
  BY <1>1, <1>2, <1>3 DEF Backed

\* What a handler that is not over holds after a step.
Continued(w) ==
  \/ h'[w] = h[w]
  \/ \E r \in Run : \E d \in Decisions(r) : h'[w] = [pc |-> "decided", run |-> r, d |-> d]
  \/ h[w].pc # "idle" /\ h'[w] = [h[w] EXCEPT !.pc = "leased"]
  \/ /\ h[w].pc # "idle"
     /\ h'[w] = [h[w] EXCEPT !.pc = "decided",
                             !.d = Advance("interrupted", Mark("cancellation_requires_reconcile"),
                                           "cancellation_requires_reconcile", FALSE)]
  \/ /\ h[w].pc # "idle" /\ h[w].d.kind = "advance" /\ h[w].d.release
     /\ h'[w] = [h[w] EXCEPT !.pc = "release"]
     /\ state'[h[w].run] = h[w].d.state

LEMMA HandlerContinues ==
  ASSUME IInv, [Next]_vars, NEW w \in Handler, h'[w].pc # "idle"
  PROVE  Continued(w)
<1>0. TypeOK /\ HandlerInv /\ Idle.pc = "idle"
  BY DEF IInv, Idle
<1>1. h' = h => Continued(w)
  BY DEF Continued
<1>2. ExitServer => FALSE
  BY <1>0 DEF ExitServer
<1>3. ASSUME NEW v \in Handler, h' = [h EXCEPT ![v] = Idle]
      PROVE  Continued(w)
  <2>1. w # v
    BY <1>0, <1>3 DEF TypeOK
  <2>2. h'[w] = h[w]
    BY <1>0, <1>3, <2>1 DEF TypeOK
  <2>3. QED
    BY <2>2 DEF Continued
<1>4. ASSUME NEW v \in Handler, Fail(v) \/ Finish(v)
      PROVE  Continued(w)
  BY <1>2, <1>3, <1>4 DEF Fail, Finish
<1>5. ASSUME NEW v \in Handler, FallBack(v), h[v].pc # "idle"
      PROVE  Continued(w)
  <2>1. CASE w = v
    BY <1>0, <1>5, <2>1 DEF FallBack, Continued, TypeOK
  <2>2. CASE w # v
    BY <1>0, <1>5, <2>2 DEF FallBack, Continued, TypeOK
  <2>3. QED
    BY <2>1, <2>2
<1>6. ASSUME NEW v \in Handler, HandlerStep(v)
      PROVE  Continued(w)
  <2>1. CASE \E r \in Run : Decide(v, r)
    <3>1. PICK r \in Run : \E d \in Decisions(r) :
            h' = [h EXCEPT ![v] = [pc |-> "decided", run |-> r, d |-> d]]
      BY <2>1 DEF Decide
    <3>2. w = v => \E d \in Decisions(r) : h'[w] = [pc |-> "decided", run |-> r, d |-> d]
      BY <1>0, <3>1 DEF TypeOK
    <3>3. w # v => h'[w] = h[w]
      BY <1>0, <3>1 DEF TypeOK
    <3>4. QED
      BY <3>2, <3>3 DEF Continued
  <2>2. CASE \E r \in Run : DecideNothing(v, r)
    BY <1>1, <2>2 DEF DecideNothing
  <2>3. CASE EnsureForContinuation(v)
    <3>1. h[v].pc # "idle" /\ h' = [h EXCEPT ![v].pc = "leased"]
      BY <2>3 DEF EnsureForContinuation, NeedsLease
    <3>2. w = v => h'[w] = [h[w] EXCEPT !.pc = "leased"]
      BY <1>0, <3>1 DEF TypeOK
    <3>3. w # v => h'[w] = h[w]
      BY <1>0, <3>1 DEF TypeOK
    <3>4. QED
      BY <3>1, <3>2, <3>3 DEF Continued
  <2>4. CASE EnsureRefused(v)
    BY <1>4, <1>5, <2>4 DEF EnsureRefused, NeedsLease
  <2>5. CASE QueueRefused(v)
    BY <1>4, <1>5, <2>5 DEF QueueRefused, Queueing
  <2>6. CASE CommitAdvance(v)
    <3>1. CASE Finish(v)
      BY <1>4, <3>1
    <3>2. CASE h[v].d.release /\ h' = [h EXCEPT ![v].pc = "release"]
      <4>1. /\ h[v].pc # "idle" /\ h[v].d.kind = "advance"
            /\ Record(h[v].run, h[v].d.state, h[v].d.mark)
        BY <2>6 DEF CommitAdvance, Advancing
      <4>2. h[v].run \in Run
        BY <1>0, <4>1 DEF HandlerInv
      <4>3. state'[h[v].run] = h[v].d.state
        BY <1>0, <4>1, <4>2 DEF Record, TypeOK
      <4>4. w = v => h'[w] = [h[w] EXCEPT !.pc = "release"]
        BY <1>0, <3>2 DEF TypeOK
      <4>5. w # v => h'[w] = h[w]
        BY <1>0, <3>2 DEF TypeOK
      <4>6. QED
        BY <3>2, <4>1, <4>3, <4>4, <4>5 DEF Continued
    <3>3. QED
      BY <2>6, <3>1, <3>2 DEF CommitAdvance
  <2>7. CASE \/ CommitQueue(v) \/ AdvanceRefused(v) \/ ReleaseLease(v) \/ ReleaseRefused(v)
             \/ SettleLease(v) \/ SettleRefused(v)
    BY <1>4, <2>7 DEF CommitQueue, AdvanceRefused, ReleaseLease, ReleaseRefused, SettleLease,
                      SettleRefused
  <2>8. QED
    BY <1>6, <2>1, <2>2, <2>3, <2>4, <2>5, <2>6, <2>7 DEF HandlerStep
<1>7. ASSUME NEW r \in Run, AgentStep(r) \/ MutexStep(r) \/ UserStep(r)
      PROVE  Continued(w)
  <2>1. h' = h
    BY <1>7 DEF AgentStep, ClaimTask, AcknowledgeTask, CompletePlanning, CompleteTask,
                BeginMutation, EndMutation, ObserveExecutor, proc,
                MutexStep, UserStep, ConfirmLease, ConfirmRefused, ConfirmAdvance, ConfirmQueue,
                ReadCanceledTask, ReconcileLease, ReconcileRefused, ConfirmOperationRun,
                CancelBeforeApply, CancelAgain, CancelContained
  <2>2. QED
    BY <1>1, <2>1
<1>8. CASE RestartStep
  <2>1. h' = h \/ ExitServer
    BY <1>8 DEF RestartStep, Start, Listen, ResumeQueued, ResumeAcquiring, ResumeRefused, ResumeSkip
  <2>2. QED
    BY <1>1, <1>2, <2>1
<1>9. CASE Fault
  <2>1. h' = h \/ ExitServer \/ \E v \in Handler : h' = [h EXCEPT ![v] = Idle]
    BY <1>9 DEF Fault, Crash, AbortMutex, Abort, LoseResponse, Expire, RenewFail, proc
  <2>2. QED
    BY <1>1, <1>2, <1>3, <2>1
<1>10. CASE UNCHANGED vars
  BY <1>1, <1>10 DEF vars
<1>11. QED
  BY <1>6, <1>7, <1>8, <1>9, <1>10 DEF Next

LEMMA DecisionInvKept ==
  ASSUME EInv, [Next]_vars
  PROVE  DecisionInv'
<1>1. /\ IInv /\ TypeOK /\ HandlerInv /\ NodeInv /\ DecisionInv
      /\ \A q \in Run : Evidence(q) /\ StateInv(q)
      /\ \A q \in Run : RunMoves(q)
  BY NextMoves DEF EInv, IInv
<1>2. SUFFICES ASSUME NEW w \in Handler, h'[w].pc # "idle"
               PROVE  /\ Backed(h[w].run, h[w].d)'
                      /\ h'[w].pc = "release" => state'[h'[w].run] \in Ended
  BY DEF DecisionInv
<1>3. PICK e, r, d : e = h'[w] /\ r = e.run /\ d = e.d
  OBVIOUS
<1>4. /\ r \in Run /\ Backed(r, d)
      /\ d.kind \in {"queue", "contain"} =>
           d.done \in ActionTask /\ phase[r][d.done] \in TerminalPhase
      /\ e.pc = "release" => state'[r] \in Ended
  <2>1. CASE e = h[w]
    <3>1. r \in Run /\ Backed(r, d) /\ (e.pc = "release" => state[r] \in Ended)
      BY <1>1, <1>2, <1>3, <2>1 DEF HandlerInv, DecisionInv
    <3>2. state[r] \in Ended => state'[r] = state[r]
      BY <1>1, <3>1, EndedRests DEF Ended
    <3>3. d.kind \in {"queue", "contain"} =>
           d.done \in ActionTask /\ phase[r][d.done] \in TerminalPhase
      BY <1>1, <1>2, <1>3, <2>1 DEF HandlerInv, DecisionOK
    <3>4. QED
      BY <3>1, <3>2, <3>3
  <2>2. CASE \E q \in Run : \E c \in Decisions(q) : e = [pc |-> "decided", run |-> q, d |-> c]
    <3>1. r \in Run /\ d \in Decisions(r) /\ e.pc = "decided"
      BY <1>3, <2>2
    <3>2. Backed(r, d)
      BY <1>1, <3>1, DecisionsBacked
    <3>3. \/ d.kind = "settle"
          \/ AboutTask(d, bound[r]) /\ phase[r][bound[r]] \in TerminalPhase
      BY <1>1, <3>1, DecisionsOK
    <3>4. d.kind \in {"queue", "contain"} =>
           d.done \in ActionTask /\ phase[r][d.done] \in TerminalPhase
      BY <3>3 DEF AboutTask, DecisionOK
    <3>5. QED
      BY <3>1, <3>2, <3>4
  <2>3. CASE h[w].pc # "idle" /\ e = [h[w] EXCEPT !.pc = "leased"]
    <3>1. e.pc = "leased" /\ r = h[w].run /\ d = h[w].d
      BY <1>1, <1>3, <2>3 DEF TypeOK, HandlerState
    <3>2. QED
      BY <1>1, <2>3, <3>1 DEF HandlerInv, DecisionInv, DecisionOK
  <2>4. CASE h[w].pc # "idle" /\
             e = [h[w] EXCEPT !.pc = "decided",
                    !.d = Advance("interrupted", Mark("cancellation_requires_reconcile"),
                                  "cancellation_requires_reconcile", FALSE)]
    <3> DEFINE a == Advance("interrupted", Mark("cancellation_requires_reconcile"),
                            "cancellation_requires_reconcile", FALSE)
    <3>1. a.kind = "advance"
      BY DEF Advance, Nothing
    <3>2. h[w].run \in Run
      BY <1>1, <2>4 DEF HandlerInv
    <3>3. Backed(h[w].run, a)
      BY <3>2, AdvanceBacked DEF VerdictOf, Ended, Terminal
    <3> HIDE DEF a
    <3>4. e = [h[w] EXCEPT !.pc = "decided", !.d = a]
      BY <2>4 DEF a
    <3>5. e.pc = "decided" /\ r = h[w].run /\ d = a
      BY <1>1, <1>3, <3>4 DEF TypeOK, HandlerState
    <3>6. QED
      BY <3>1, <3>2, <3>3, <3>5
  <2>5. CASE /\ h[w].pc # "idle" /\ h[w].d.kind = "advance" /\ h[w].d.release
             /\ e = [h[w] EXCEPT !.pc = "release"]
             /\ state'[h[w].run] = h[w].d.state
    <3>1. e.pc = "release" /\ r = h[w].run /\ d = h[w].d
      BY <1>1, <1>3, <2>5 DEF TypeOK, HandlerState
    <3>2. r \in Run /\ Backed(r, d)
      BY <1>1, <2>5, <3>1 DEF HandlerInv, DecisionInv
    <3>3. state'[r] \in Ended
      BY <2>5, <3>1, <3>2 DEF Backed
    <3>4. QED
      BY <2>5, <3>1, <3>2, <3>3
  <2>6. QED
    BY <1>1, <1>2, <1>3, <2>1, <2>2, <2>3, <2>4, <2>5, HandlerContinues DEF Continued
<1>5. Backed(r, d)'
  BY <1>1, <1>4, BackedStable
<1>6. QED
  BY <1>3, <1>4, <1>5

LEMMA EvidenceInit == Init => EInv
<1>1. SUFFICES ASSUME Init PROVE EInv
  OBVIOUS
<1>2. IInv
  BY <1>1, InitOK
<1>3. ASSUME NEW r \in Run
      PROVE  Evidence(r) /\ StateInv(r)
  <2>1. /\ state[r] = "draft" /\ bound[r] = Planning
        /\ \A t \in ActionTask : phase[r][t] = "absent" /\ fact[r][t] = "none"
    BY <1>1, TaskTypes DEF Init
  <2>2. \A t \in ActionTask : ~Present(r, t)
    BY <2>1 DEF Present
  <2>3. TaskOrder(r)
    BY <2>2, StageTasks DEF TaskOrder
  <2>4. BoundTask(r)
    BY <2>1, <2>2, StageTasks, StageTasksDiffer DEF BoundTask
  <2>5. EvidenceOfPhase(r)
    BY <2>1 DEF EvidenceOfPhase
  <2>6. StateInv(r)
    BY <2>1 DEF StateInv, Ended, Terminal
  <2>7. QED
    BY <2>3, <2>4, <2>5, <2>6 DEF Evidence
<1>4. NodeInv
  BY <1>1 DEF Init, NodeInv
<1>5. DecisionInv
  BY <1>1 DEF Init, DecisionInv, Idle
<1>6. QED
  BY <1>2, <1>3, <1>4, <1>5 DEF EInv

LEMMA EvidenceKept ==
  ASSUME EInv, [Next]_vars
  PROVE  EInv' /\ \A q \in Run : RunMoves(q)
<1>1. \A q \in Run : RunMoves(q)
  BY NextMoves
<1>2. IInv'
  BY NextKept DEF EInv
<1>3. \A q \in Run : Evidence(q)' /\ StateInv(q)'
  BY <1>1, MovesKeepRun DEF EInv, IInv
<1>4. NodeInv' /\ DecisionInv'
  BY NodeInvKept, DecisionInvKept
<1>5. QED
  BY <1>1, <1>2, <1>3, <1>4 DEF EInv

\* What the tasks, the evidence, the state and the decisions under way say of
\* each other holds in every reachable state.
THEOREM EvidenceInvariance == Spec => []EInv
<1>1. Init => EInv
  BY EvidenceInit
<1>2. EInv /\ [Next]_vars => EInv'
  BY EvidenceKept
<1>3. QED
  BY <1>1, <1>2, PTL DEF Spec

-----------------------------------------------------------------------------
(* The theorems.                                                           *)

LEMMA CanceledUnapplied == EInv => NoApplyAfterCancel
<1>1. SUFFICES ASSUME EInv, NEW r \in Run, state[r] = "canceled_before_apply"
               PROVE  /\ \A s \in Stage : phase[r][<<s, "apply">>] = "absent"
                      /\ \A t \in ActionTask : <<r, t>> \notin mutated
  BY DEF NoApplyAfterCancel
<1>2. /\ TaskOrder(r) /\ BoundTask(r) /\ NodeInv
      /\ bound[r] = Planning \/ bound[r] = Prepare(0)
  BY <1>1, StageTasks DEF EInv, Evidence, StateInv
<1>3. \A s \in Stage : ~Present(r, Apply(s)) /\ ~Present(r, Rollback(s))
  <2>1. CASE bound[r] = Planning
    BY <1>2, <2>1, StageTasks DEF BoundTask
  <2>2. CASE bound[r] = Prepare(0)
    <3>1. /\ 0 \in Stage /\ ~Present(r, Apply(0))
          /\ \A i \in Stage : i > 0 => ~Present(r, Prepare(i))
          /\ \A i \in Stage : i = 0 \/ i > 0
      BY <1>2, <2>2, StageTasks DEF BoundTask
    <3>2. \A s \in Stage : ~Present(r, Apply(s))
      BY <1>2, <3>1 DEF TaskOrder, Ok, Present
    <3>3. \A s \in Stage : ~Present(r, Rollback(s))
      BY <1>2, <3>2 DEF TaskOrder, Ok, Present
    <3>4. QED
      BY <3>2, <3>3
  <2>3. QED
    BY <1>2, <2>1, <2>2
<1>4. \A t \in ActionTask : <<r, t>> \notin mutated
  <2>1. SUFFICES ASSUME NEW t \in ActionTask, <<r, t>> \in mutated
                 PROVE  FALSE
    OBVIOUS
  <2>2. Present(r, t) /\ ActionOf(t) \in {"apply", "rollback"}
    BY <1>2, <2>1 DEF NodeInv, Destructive
  <2>3. \E s \in Stage : t \in {Apply(s), Rollback(s)}
    BY <2>2, StageTasks
  <2>4. QED
    BY <1>3, <2>2, <2>3
<1>5. QED
  BY <1>3, <1>4 DEF Present, Apply

\* A run canceled before Apply never touches a node afterwards, whatever was
\* under way for it when the cancellation was committed.
THEOREM CanceledIsUnapplied == Spec => []NoApplyAfterCancel
BY CanceledUnapplied, EvidenceInvariance, PTL

LEMMA EvidenceOrdersRollback == EInv => RollbackOrder
<1>1. SUFFICES ASSUME EInv, NEW r \in Run, NEW i \in Stage, NEW j \in Stage, i < j,
                      phase[r][<<i, "rollback">>] # "absent", fact[r][<<j, "apply">>] # "none"
               PROVE  fact[r][<<j, "verify_rollback">>] = "passed"
  BY DEF RollbackOrder
<1>2. Present(r, Rollback(i)) /\ Applied(r, j) /\ TaskOrder(r) /\ EvidenceOfPhase(r) /\ j > i
  BY <1>1, StageTasks DEF Present, Rollback, Applied, Apply, EInv, Evidence
<1>3. Ok(r, VerifyRollback(j))
  BY <1>2 DEF TaskOrder
<1>4. QED
  BY <1>2, <1>3, StageTasks DEF EvidenceOfPhase, Ok, VerifyRollback

\* The stages of a run are undone from the last applied one backwards: no
\* rollback is queued before every later applied stage is verified undone.
THEOREM RollbackIsOrdered == Spec => []RollbackOrder
BY EvidenceOrdersRollback, EvidenceInvariance, PTL

LEMMA VerdictIsTrue == EInv => TerminalTruth
<1>1. SUFFICES ASSUME EInv, NEW r \in Run
               PROVE  /\ state[r] = "succeeded" => \A s \in Stage : fact[r][<<s, "verify">>] = "passed"
                      /\ state[r] = "rolled_back" =>
                           \A s \in Stage : fact[r][<<s, "apply">>] # "none" =>
                                              fact[r][<<s, "verify_rollback">>] = "passed"
                      /\ state[r] \in {"blocked", "canceled_before_apply"} =>
                           \A s \in Stage : fact[r][<<s, "apply">>] = "none"
  BY DEF TerminalTruth
<1>2. TaskOrder(r) /\ BoundTask(r) /\ EvidenceOfPhase(r) /\ StateInv(r)
  BY <1>1 DEF EInv, Evidence
<1>3. \A t \in ActionTask : Ok(r, t) => fact[r][t] = "passed"
  BY <1>2 DEF EvidenceOfPhase, Ok
<1>4. state[r] = "succeeded" => \A s \in Stage : fact[r][<<s, "verify">>] = "passed"
  BY <1>2, <1>3, StageTasks DEF StateInv, VerdictOf, Verify
<1>5. state[r] = "rolled_back" =>
        \A s \in Stage : fact[r][<<s, "apply">>] # "none" =>
                           fact[r][<<s, "verify_rollback">>] = "passed"
  BY <1>2, <1>3, StageTasks DEF StateInv, VerdictOf, Applied, Apply, VerifyRollback
<1>6. (\A s \in Stage : ~Present(r, Apply(s))) => \A s \in Stage : fact[r][<<s, "apply">>] = "none"
  BY <1>2, StageTasks DEF EvidenceOfPhase, Present, Apply
<1>7. state[r] = "canceled_before_apply" => \A s \in Stage : fact[r][<<s, "apply">>] = "none"
  BY <1>1, <1>6, CanceledUnapplied DEF NoApplyAfterCancel, Present, Apply
<1>8. state[r] = "blocked" => \A s \in Stage : ~Present(r, Apply(s))
  <2>1. SUFFICES ASSUME state[r] = "blocked", NEW s \in Stage, Present(r, Apply(s))
                 PROVE  FALSE
    OBVIOUS
  <2>2. bound[r] # Planning
    BY <1>2, <2>1, StageTasks DEF BoundTask
  <2>3. phase[r][FirstTask] \in {"failed", "canceled"}
    BY <1>2, <2>1, <2>2 DEF StateInv, VerdictOf
  <2>4. 0 \in Stage /\ ~Ok(r, Prepare(0)) /\ (s = 0 \/ s > 0)
    BY <2>3, StageTasks DEF Ok
  <2>5. Present(r, Prepare(s)) /\ Ok(r, Prepare(s))
    BY <1>2, <2>1 DEF TaskOrder, Ok, Present
  <2>6. s > 0
    BY <2>4, <2>5
  <2>7. Ok(r, Verify(0))
    BY <1>2, <2>4, <2>5, <2>6 DEF TaskOrder
  <2>8. Ok(r, Prepare(0))
    BY <1>2, <2>4, <2>7 DEF TaskOrder, Ok, Present
  <2>9. QED
    BY <2>4, <2>8
<1>9. QED
  BY <1>4, <1>5, <1>6, <1>7, <1>8

\* No run ends in a verdict its evidence does not back, in every stage.
THEOREM VerdictsAreTrue == Spec => []TerminalTruth
BY VerdictIsTrue, EvidenceInvariance, PTL

\* A run that ended is never moved again, but for the restore point a canceled
\* run was waiting for.
THEOREM EndsAreFinal == Spec => TerminalIsFinal
<1>1. EInv /\ [Next]_vars =>
        [\A r \in Run : state[r] \in Terminal =>
           /\ state'[r] = state[r] /\ bound'[r] = bound[r]
           /\ fact'[r] = fact[r] \/ CanceledAction(r)]_vars
  <2>1. SUFFICES ASSUME EInv, [Next]_vars
                 PROVE  \A r \in Run : state[r] \in Terminal =>
                          /\ state'[r] = state[r] /\ bound'[r] = bound[r]
                          /\ fact'[r] = fact[r] \/ CanceledAction(r)
    OBVIOUS
  <2>2. QED
    BY <2>1, EvidenceKept, EndedRests DEF EInv, IInv
<1>2. QED
  BY <1>1, EvidenceInvariance, PTL DEF Spec, TerminalIsFinal

-----------------------------------------------------------------------------
(***************************************************************************)
(* The runs use the leases as LeaseService allows, so that two runs never  *)
(* hold a common target: for any runs, targets, handlers and bounds.       *)
(***************************************************************************)

ServiceInv == LS!TypeOK /\ LS!Exclusive /\ LS!VouchedIsHeld

LEMMA ServiceInvInit == LS!Init => ServiceInv
BY DEF LS!Init, ServiceInv, LS!TypeOK, LS!Exclusive, LS!VouchedIsHeld

\* What a run gets whose targets nobody holds keeps the leases apart.
LEMMA GrantKeepsApart ==
  ASSUME LS!Exclusive, NEW r \in Run, \A q \in lease : ~LS!Contends(r, q),
         lease' = lease \union {r}
  PROVE  LS!Exclusive'
<1>1. \A q \in lease : ~LS!Contends(q, r)
  BY DEF LS!Contends
<1> QED
  BY <1>1 DEF LS!Exclusive, LS!Contends

\* A run takes its targets only when no other holds one of them ...
LEMMA ServiceTakeKeeps ==
  ASSUME ServiceInv, NEW r \in Run, LS!Take(r)
  PROVE  ServiceInv'
<1> USE DEF ServiceInv, LS!TypeOK, LS!VouchedIsHeld
<1>1. LS!TypeOK' /\ LS!VouchedIsHeld'
  BY DEF LS!Take
<1>2. CASE r \in lease
  <2>1. lease' = lease
    BY <1>2 DEF LS!Take
  <2> QED
    BY <1>1, <2>1 DEF LS!Exclusive, LS!Contends
<1>3. CASE r \notin lease
  BY <1>1, <1>3, GrantKeepsApart DEF LS!Take
<1> QED
  BY <1>2, <1>3

\* ... and so does a request that comes late.
LEMMA ServiceRetakeKeeps ==
  ASSUME ServiceInv, NEW r \in Run, LS!Retake(r)
  PROVE  ServiceInv'
<1>1. LS!Exclusive'
  BY GrantKeepsApart DEF ServiceInv, LS!Retake
<1> QED
  BY <1>1 DEF ServiceInv, LS!Retake, LS!TypeOK, LS!VouchedIsHeld

\* Everything else takes leases away or changes what is said of them.
LEMMA ServiceNextKeeps ==
  ASSUME ServiceInv, LS!Next
  PROVE  ServiceInv'
<1> USE DEF ServiceInv, LS!TypeOK, LS!Exclusive, LS!VouchedIsHeld, LS!Contends
<1>1. ASSUME NEW r \in Run, LS!Take(r) PROVE ServiceInv'
  BY <1>1, ServiceTakeKeeps
<1>2. ASSUME NEW r \in Run, LS!Forget(r) PROVE ServiceInv'
  BY <1>2 DEF LS!Forget
<1>3. ASSUME NEW r \in Run, LS!Give(r) PROVE ServiceInv'
  BY <1>3 DEF LS!Give
<1>4. ASSUME NEW r \in Run, LS!Fail(r) PROVE ServiceInv'
  BY <1>4 DEF LS!Fail
<1>5. ASSUME NEW r \in Run, LS!End(r) PROVE ServiceInv'
  BY <1>5 DEF LS!End
<1>6. ASSUME NEW r \in Run, LS!Retake(r) PROVE ServiceInv'
  BY <1>6, ServiceRetakeKeeps
<1>7. ASSUME NEW S \in SUBSET Run, LS!Leave(S) PROVE ServiceInv'
  BY <1>7 DEF LS!Leave
<1>8. ASSUME NEW S \in SUBSET Run, LS!Lapse(S) PROVE ServiceInv'
  BY <1>8 DEF LS!Lapse
<1>9. CASE LS!Exit
  BY <1>9 DEF LS!Exit
<1> QED
  BY <1>1, <1>2, <1>3, <1>4, <1>5, <1>6, <1>7, <1>8, <1>9 DEF LS!Next

\* No two runs hold a common target, and a lease that is vouched for is held:
\* what operation_locks.go and lease_supervisor.go are for.
THEOREM Exclusion == LS!Spec => [](LS!Exclusive /\ LS!VouchedIsHeld)
<1>1. LS!Init => ServiceInv
  BY ServiceInvInit
<1>2. ServiceInv /\ [LS!Next]_(LS!vars) => ServiceInv'
  <2>1. CASE UNCHANGED LS!vars
    BY <2>1 DEF ServiceInv, LS!TypeOK, LS!Exclusive, LS!VouchedIsHeld, LS!Contends, LS!vars
  <2> QED
    BY <2>1, ServiceNextKeeps
<1>3. ServiceInv => LS!Exclusive /\ LS!VouchedIsHeld
  BY DEF ServiceInv
<1> QED
  BY <1>1, <1>2, <1>3, PTL DEF LS!Spec

\* What a step of a run is to the lease service.
ServiceStep == LS!Next \/ UNCHANGED locks

LEMMA ServiceFrame == UNCHANGED locks => ServiceStep
BY DEF ServiceStep

LEMMA ServiceInit == Init => LS!Init
BY DEF Init, LS!Init

\* ensureLease finds the lease supervised, or the run takes it.
LEMMA EnsureIsTake ==
  ASSUME TypeOK, NEW r \in Run, EnsureLease(r)
  PROVE  ServiceStep
<1>1. CASE sup[r] = "active" /\ r \in lease
  BY <1>1 DEF EnsureLease, TypeOK, ServiceStep, locks
<1>2. CASE sup[r] = "none" /\ (r \in lease \/ \A q \in lease : ~Contends(r, q))
  <2>1. LS!Take(r)
    BY <1>2 DEF EnsureLease, LS!Take, LS!Contends, Contends
  <2> QED
    BY <2>1 DEF LS!Next, ServiceStep
<1> QED
  BY <1>1, <1>2 DEF EnsureLease, EnsureOK

LEMMA SettleIsGive ==
  ASSUME TypeOK, NEW r \in Run, ResumeAndRelease(r)
  PROVE  ServiceStep
<1>1. LS!Give(r)
  BY DEF TypeOK, ResumeAndRelease, LS!Give
<1> QED
  BY <1>1 DEF LS!Next, ServiceStep

LEMMA ExitIsExit ==
  ASSUME TypeOK, ExitServer, lease' = lease
  PROVE  ServiceStep
<1>1. LS!Exit
  BY DEF TypeOK, ExitServer, LS!Exit
<1> QED
  BY <1>1 DEF LS!Next, ServiceStep

LEMMA FailService ==
  ASSUME TypeOK, NEW w \in Handler, Fail(w)
  PROVE  ServiceStep
<1>1. CASE ExitServer
  BY <1>1, ExitIsExit DEF Fail
<1>2. CASE sup' = sup
  BY <1>2 DEF Fail, ServiceStep, locks
<1> QED
  BY <1>1, <1>2 DEF Fail

-----------------------------------------------------------------------------
(* One lemma per kind of step.                                             *)

LEMMA AgentStepService ==
  ASSUME NEW r \in Run, AgentStep(r)
  PROVE  ServiceStep
<1>1. UNCHANGED locks
  BY DEF AgentStep, ClaimTask, AcknowledgeTask, CompletePlanning, BeginMutation,
         EndMutation, ObserveExecutor, CompleteTask, locks
<1> QED
  BY <1>1, ServiceFrame

LEMMA MutexStepService ==
  ASSUME TypeOK, NEW r \in Run, MutexStep(r)
  PROVE  ServiceStep
<1>1. CASE ConfirmLease(r)
  BY <1>1, EnsureIsTake DEF ConfirmLease
<1>2. CASE ReconcileLease(r)
  BY <1>2, EnsureIsTake, SettleIsGive DEF ReconcileLease
<1>3. CASE ConfirmRefused(r) \/ ConfirmAdvance(r) \/ ConfirmQueue(r)
             \/ ReadCanceledTask(r) \/ ReconcileRefused(r)
  <2>1. UNCHANGED locks
    BY <1>3 DEF ConfirmRefused, ConfirmAdvance, ConfirmQueue, ReadCanceledTask, ReconcileRefused
  <2> QED
    BY <2>1, ServiceFrame
<1> QED
  BY <1>1, <1>2, <1>3 DEF MutexStep

LEMMA UserStepService ==
  ASSUME NEW r \in Run, UserStep(r)
  PROVE  ServiceStep
<1>1. UNCHANGED locks
  BY DEF UserStep, ConfirmOperationRun, CancelBeforeApply, CancelAgain, CancelContained
<1> QED
  BY <1>1, ServiceFrame

\* A handler past its reading knows its run.
LEMMA HandlerRun ==
  ASSUME HandlerInv, NEW w \in Handler, h[w].pc # "idle"
  PROVE  h[w].run \in Run
BY DEF HandlerInv

LEMMA HandlerStepService ==
  ASSUME TypeOK, HandlerInv, NEW w \in Handler, HandlerStep(w)
  PROVE  ServiceStep
<1>1. CASE EnsureForContinuation(w)
  <2>1. h[w].run \in Run
    BY <1>1, HandlerRun DEF EnsureForContinuation, NeedsLease
  <2> QED
    BY <1>1, <2>1, EnsureIsTake DEF EnsureForContinuation
<1>2. CASE SettleLease(w)
  <2>1. h[w].run \in Run
    BY <1>2, HandlerRun DEF SettleLease, Settling
  <2>2. CASE h[w].d.ensure
    BY <1>2, <2>1, <2>2, EnsureIsTake DEF SettleLease
  <2>3. CASE ~h[w].d.ensure
    BY <1>2, <2>1, <2>3, SettleIsGive DEF SettleLease
  <2> QED
    BY <2>2, <2>3
<1>3. CASE ReleaseLease(w)
  <2>1. h[w].run \in Run
    BY <1>3, HandlerRun DEF ReleaseLease
  <2>2. LS!Give(h[w].run)
    BY <1>3 DEF ReleaseLease, LS!Give
  <2> QED
    BY <2>1, <2>2 DEF LS!Next, ServiceStep
<1>4. CASE EnsureRefused(w) \/ QueueRefused(w) \/ AdvanceRefused(w)
             \/ ReleaseRefused(w) \/ SettleRefused(w)
  <2>1. Fail(w) \/ UNCHANGED locks
    BY <1>4 DEF EnsureRefused, QueueRefused, AdvanceRefused, ReleaseRefused, SettleRefused
  <2> QED
    BY <2>1, FailService, ServiceFrame
<1>5. CASE \/ \E r \in Run : Decide(w, r) \/ DecideNothing(w, r)
           \/ CommitQueue(w) \/ CommitAdvance(w)
  <2>1. UNCHANGED locks
    BY <1>5 DEF Decide, DecideNothing, CommitQueue, CommitAdvance
  <2> QED
    BY <2>1, ServiceFrame
<1> QED
  BY <1>1, <1>2, <1>3, <1>4, <1>5 DEF HandlerStep

LEMMA RestartStepService ==
  ASSUME TypeOK, RestartStep
  PROVE  ServiceStep
<1>1. ASSUME NEW r \in Run, ResumeQueued(r) \/ ResumeAcquiring(r)
      PROVE  ServiceStep
  BY <1>1, EnsureIsTake DEF ResumeQueued, ResumeAcquiring
<1>2. ASSUME NEW r \in Run, ResumeRefused(r)
      PROVE  ServiceStep
  BY <1>2, ExitIsExit DEF ResumeRefused
<1>3. ASSUME NEW r \in Run, ResumeSkip(r)
      PROVE  ServiceStep
  BY <1>3, ServiceFrame DEF ResumeSkip
<1>4. CASE Start \/ Listen
  BY <1>4, ServiceFrame DEF Start, Listen
<1> QED
  BY <1>1, <1>2, <1>3, <1>4 DEF RestartStep

LEMMA FaultService ==
  ASSUME TypeOK, Fault
  PROVE  ServiceStep
<1>1. ASSUME NEW r \in Run, Expire(r)
      PROVE  ServiceStep
  <2>1. LS!Lapse({r})
    BY <1>1 DEF Expire, LS!Lapse
  <2> QED
    BY <2>1 DEF LS!Next, ServiceStep
<1>2. ASSUME NEW r \in Run, RenewFail(r)
      PROVE  ServiceStep
  <2>1. LS!Fail(r)
    BY <1>2 DEF RenewFail, LS!Fail
  <2> QED
    BY <2>1 DEF LS!Next, ServiceStep
<1>3. CASE Crash
  BY <1>3, ExitIsExit DEF Crash
<1>4. CASE AbortMutex \/ (\E w \in Handler : Abort(w)) \/ (\E r \in Run : LoseResponse(r))
  <2>1. UNCHANGED locks
    BY <1>4 DEF AbortMutex, Abort, LoseResponse, locks
  <2> QED
    BY <2>1, ServiceFrame
<1> QED
  BY <1>1, <1>2, <1>3, <1>4 DEF Fault

LEMMA NextService ==
  ASSUME IInv, [Next]_vars
  PROVE  [LS!Next]_(LS!vars)
<1>1. TypeOK /\ HandlerInv
  BY DEF IInv
<1>2. CASE Next
  <2>1. ServiceStep
    BY <1>1, <1>2, AgentStepService, MutexStepService, UserStepService,
       HandlerStepService, RestartStepService, FaultService DEF Next
  <2> QED
    BY <2>1 DEF ServiceStep, locks, LS!vars
<1>3. CASE UNCHANGED vars
  BY <1>3 DEF vars, LS!vars
<1> QED
  BY <1>2, <1>3

\* The Server's runs use the leases as LeaseService allows: every step of a
\* handler, of the restart or of a fault is one of its steps, or none
\* (product_workflow.go, ensureLease and resumeAndReleaseLeaseIfPresent).
THEOREM LeasePromiseKept == Spec => KeepsLeasePromise
<1>1. Init => LS!Init
  BY ServiceInit
<1>2. IInv /\ [Next]_vars => [LS!Next]_(LS!vars)
  BY NextService
<1> QED
  BY <1>1, <1>2, Invariance, PTL DEF Spec, KeepsLeasePromise, LS!Spec

\* So two runs that share a target never hold their leases at the same time, and
\* a lease the supervisor vouches for is held.
THEOREM LeasesExclude == Spec => [](LS!Exclusive /\ LS!VouchedIsHeld)
BY Exclusion, LeasePromiseKept, PTL DEF KeepsLeasePromise

-----------------------------------------------------------------------------
(* Who holds a lease, and why: the inductive invariant.                    *)

\* Somebody has yet to see the run through: the restart, a request that will be
\* repeated, or a handler.
Attended(r) ==
  \/ server = "down"
  \/ server = "resuming" /\ r \in todo
  \/ r \in owed
  \/ \E w \in Handler : h[w].run = r

\* What the holder of confirmationMu relies on.
MutexOf(r) ==
  /\ mu.op \in {"confirm", "leased"} => state[r] \in Confirmable
  /\ mu.op = "leased" /\ LeaseSound => sup[r] = "active" /\ r \in lease
  /\ mu.op \in {"reconcile", "hold", "giveback"} => state[r] = "canceled_before_apply"
  /\ mu.op = "hold" => bound[r] # Planning
  /\ mu.op = "giveback" => ~CanceledAction(r)

\* Faults leave their trace, and a Server that does not listen confirms nothing.
FaultInv ==
  /\ server # "up" => budget.crash < MaxCrashes /\ mu = Free
  /\ \A r \in Run : sup[r] = "failed" => budget.renewal < MaxRenewalFailures

GivenBack(r) == state[r] \in Ended /\ r \in lease => Attended(r)

LInv ==
  /\ EInv
  /\ FaultInv
  /\ \A r \in Run : mu.run = r => MutexOf(r)
  /\ \A r \in lease : PlanningOver(r)
  /\ Containment
  /\ \A r \in Run : GivenBack(r)

\* What a step does to the leases, and what about the run allows it.
LockStep ==
  \/ UNCHANGED locks
  \/ \E r \in Run : /\ EnsureLease(r) /\ PlanningOver(r)
                    /\ state[r] \in Ended => \E w \in Handler : h'[w].run = r
  \/ \E r \in Run : ResumeAndRelease(r) /\ state[r] \in Terminal /\ ~CanceledAction(r)
  \/ \E r \in Run : Expire(r) \/ RenewFail(r)
  \/ ExitServer /\ lease' = lease /\ (Crash \/ server # "up")

-----------------------------------------------------------------------------
(* Faults are counted.                                                     *)

LEMMA BudgetDrops ==
  ASSUME TypeOK, [Next]_vars
  PROVE  /\ budget'.crash <= budget.crash /\ budget'.renewal <= budget.renewal
         /\ budget.crash \in 0 .. MaxCrashes /\ budget.renewal \in 0 .. MaxRenewalFailures
         /\ budget'.crash \in Int /\ budget'.renewal \in Int
<1>1. /\ budget.crash \in 0 .. MaxCrashes /\ budget.renewal \in 0 .. MaxRenewalFailures
      /\ budget.abort \in 0 .. MaxAborts
      /\ budget = [crash |-> budget.crash, abort |-> budget.abort, renewal |-> budget.renewal]
  BY DEF TypeOK
<1>2. budget.crash \in Int /\ budget.renewal \in Int /\ budget.abort \in Int
  BY <1>1, BoundsAssumption
<1>3. CASE budget' = budget
  BY <1>1, <1>2, <1>3
<1>4. CASE \/ budget' = [budget EXCEPT !.crash = @ - 1]
           \/ budget' = [budget EXCEPT !.abort = @ - 1]
           \/ budget' = [budget EXCEPT !.renewal = @ - 1]
  BY <1>1, <1>2, <1>4
<1>5. \A w \in Handler : Fail(w) => budget' = budget
  BY DEF Fail
<1>6. ASSUME NEW r \in Run, AgentStep(r) \/ MutexStep(r) \/ UserStep(r)
      PROVE  budget' = budget
  BY <1>6 DEF AgentStep, ClaimTask, AcknowledgeTask, CompletePlanning, CompleteTask,
              BeginMutation, EndMutation, ObserveExecutor,
              MutexStep, UserStep, ConfirmLease, ConfirmRefused, ConfirmAdvance, ConfirmQueue,
              ReadCanceledTask, ReconcileLease, ReconcileRefused, ConfirmOperationRun,
              CancelBeforeApply, CancelAgain, CancelContained
<1>7. ASSUME NEW w \in Handler, HandlerStep(w)
      PROVE  budget' = budget
  BY <1>5, <1>7
     DEF HandlerStep, Decide, DecideNothing, EnsureForContinuation, EnsureRefused, CommitQueue,
         QueueRefused, CommitAdvance, AdvanceRefused, ReleaseLease, ReleaseRefused, SettleLease,
         SettleRefused
<1>8. RestartStep => budget' = budget
  BY DEF RestartStep, Start, Listen, ResumeQueued, ResumeAcquiring, ResumeRefused, ResumeSkip
<1>9. Fault => \/ budget' = budget
               \/ budget' = [budget EXCEPT !.crash = @ - 1]
               \/ budget' = [budget EXCEPT !.abort = @ - 1]
               \/ budget' = [budget EXCEPT !.renewal = @ - 1]
  BY DEF Fault, Crash, AbortMutex, Abort, LoseResponse, Expire, RenewFail
<1>10. UNCHANGED vars => budget' = budget
  BY DEF vars
<1>11. QED
  BY <1>3, <1>4, <1>6, <1>7, <1>8, <1>9, <1>10 DEF Next

LEMMA SoundBefore ==
  ASSUME TypeOK, [Next]_vars, LeaseSound'
  PROVE  LeaseSound
<1>1. /\ budget'.crash = MaxCrashes /\ budget'.renewal = MaxRenewalFailures
  BY DEF LeaseSound
<1>2. QED
  BY <1>1, BudgetDrops, BoundsAssumption DEF LeaseSound

-----------------------------------------------------------------------------
(* Which steps touch the leases.                                           *)

\* What the run of a handler under way is like.
LEMMA HandlerFacts ==
  ASSUME EInv, NEW w \in Handler, h[w].pc # "idle"
  PROVE  /\ h[w].run \in Run
         /\ h[w].d.kind \in {"queue", "contain", "advance"} => PlanningOver(h[w].run)
         /\ h[w].pc = "release" => state[h[w].run] \in Ended
         /\ h[w].d.kind = "settle" => state[h[w].run] \in Terminal
         /\ h[w].d.kind = "settle" /\ h[w].d.ensure =>
              state[h[w].run] = "canceled_before_apply" /\ PlanningOver(h[w].run)
         /\ h[w].d.kind = "settle" /\ ~h[w].d.ensure => ~CanceledAction(h[w].run)
<1>1. IInv /\ DecisionInv /\ HandlerInv /\ StartInv
  BY DEF EInv, IInv
<1>2. /\ h[w].run \in Run /\ Backed(h[w].run, h[w].d)
      /\ h[w].pc = "release" => state[h[w].run] \in Ended
      /\ h[w].d.kind \in {"queue", "contain", "advance"} => bound[h[w].run] # Planning
  BY <1>1 DEF HandlerInv, DecisionInv
<1>3. \A r \in Run : bound[r] # Planning => PlanningOver(r)
  BY <1>1 DEF StartInv
<1>4. QED
  BY <1>2, <1>3 DEF Backed

LEMMA HandlerLocks ==
  ASSUME EInv, NEW w \in Handler, HandlerStep(w)
  PROVE  LockStep
<1>0. TypeOK
  BY DEF EInv, IInv
<1>1. Fail(w) => LockStep
  BY DEF Fail, LockStep, locks
<1>2. CASE EnsureForContinuation(w)
  <2>1. /\ EnsureLease(h[w].run) /\ h' = [h EXCEPT ![w].pc = "leased"]
        /\ h[w].pc # "idle" /\ h[w].d.kind \in {"queue", "contain"}
    BY <1>2 DEF EnsureForContinuation, NeedsLease
  <2>2. h'[w].run = h[w].run
    BY <1>0, <2>1 DEF TypeOK, HandlerState
  <2>3. QED
    BY <2>1, <2>2, HandlerFacts DEF LockStep
<1>3. CASE ReleaseLease(w)
  <2>1. /\ ResumeAndRelease(h[w].run) /\ h[w].pc = "release"
    BY <1>3 DEF ReleaseLease, ResumeAndRelease
  <2>2. h[w].run \in Run /\ state[h[w].run] \in Ended
    BY <2>1, HandlerFacts
  <2>3. QED
    BY <2>1, <2>2 DEF LockStep, Ended, CanceledAction
<1>4. CASE SettleLease(w)
  <2>1. /\ h[w].pc # "idle" /\ h[w].d.kind = "settle"
        /\ IF h[w].d.ensure THEN EnsureLease(h[w].run) ELSE ResumeAndRelease(h[w].run)
    BY <1>4 DEF SettleLease, Settling
  <2>2. "canceled_before_apply" \notin Ended
    BY DEF Ended
  <2>3. QED
    BY <2>1, <2>2, HandlerFacts DEF LockStep
<1>5. CASE \/ \E r \in Run : Decide(w, r) \/ DecideNothing(w, r)
           \/ EnsureRefused(w) \/ CommitQueue(w) \/ QueueRefused(w) \/ CommitAdvance(w)
           \/ AdvanceRefused(w) \/ ReleaseRefused(w) \/ SettleRefused(w)
  <2>1. Fail(w) \/ UNCHANGED locks
    BY <1>5 DEF Decide, DecideNothing, EnsureRefused, CommitQueue, QueueRefused, CommitAdvance,
                AdvanceRefused, ReleaseRefused, SettleRefused
  <2>2. QED
    BY <1>1, <2>1 DEF LockStep
<1>6. QED
  BY <1>2, <1>3, <1>4, <1>5 DEF HandlerStep

LEMMA NextLocks ==
  ASSUME LInv, [Next]_vars
  PROVE  LockStep
<1>1. /\ EInv /\ TypeOK /\ StartInv
      /\ \A r \in Run : mu.run = r => MutexOf(r)
  BY DEF LInv, EInv, IInv
<1>2. \A r \in Run : bound[r] # Planning => PlanningOver(r)
  BY <1>1 DEF StartInv
<1>3. \A r \in Run : state[r] \in Confirmable => PlanningOver(r) /\ state[r] \notin Ended
  BY <1>1 DEF StartInv, Confirmable, Ended, Terminal
<1>4. UNCHANGED locks => LockStep
  BY DEF LockStep
<1>5. CASE UNCHANGED vars
  BY <1>4, <1>5 DEF vars, locks
<1>6. ASSUME NEW r \in Run, AgentStep(r) \/ UserStep(r)
      PROVE  LockStep
  <2>1. UNCHANGED locks
    BY <1>6 DEF AgentStep, ClaimTask, AcknowledgeTask, CompletePlanning, CompleteTask,
                BeginMutation, EndMutation, ObserveExecutor, UserStep, ConfirmOperationRun,
                CancelBeforeApply, CancelAgain, CancelContained
  <2>2. QED
    BY <1>4, <2>1
<1>7. ASSUME NEW r \in Run, MutexStep(r)
      PROVE  LockStep
  <2>1. CASE ConfirmLease(r)
    <3>1. EnsureLease(r) /\ mu.op = "confirm" /\ mu.run = r
      BY <2>1 DEF ConfirmLease, Holds
    <3>2. state[r] \in Confirmable
      BY <1>1, <3>1 DEF MutexOf
    <3>3. QED
      BY <1>3, <3>1, <3>2 DEF LockStep
  <2>2. CASE ReconcileLease(r)
    <3>1. CASE Holds(r, "hold") /\ EnsureLease(r)
      <4>1. mu.op = "hold" /\ mu.run = r
        BY <3>1 DEF Holds
      <4>2. state[r] = "canceled_before_apply" /\ bound[r] # Planning
        BY <1>1, <4>1 DEF MutexOf
      <4>3. QED
        BY <1>2, <3>1, <4>2 DEF LockStep, Ended
    <3>2. CASE Holds(r, "giveback") /\ ResumeAndRelease(r)
      <4>1. mu.op = "giveback" /\ mu.run = r
        BY <3>2 DEF Holds
      <4>2. state[r] = "canceled_before_apply" /\ ~CanceledAction(r)
        BY <1>1, <4>1 DEF MutexOf
      <4>3. QED
        BY <3>2, <4>2 DEF LockStep, Terminal
    <3>3. QED
      BY <2>2, <3>1, <3>2 DEF ReconcileLease
  <2>3. CASE ConfirmRefused(r) \/ ConfirmAdvance(r) \/ ConfirmQueue(r)
             \/ ReadCanceledTask(r) \/ ReconcileRefused(r)
    BY <1>4, <2>3 DEF ConfirmRefused, ConfirmAdvance, ConfirmQueue, ReadCanceledTask,
                      ReconcileRefused
  <2>4. QED
    BY <1>7, <2>1, <2>2, <2>3 DEF MutexStep
<1>8. ASSUME NEW w \in Handler, HandlerStep(w)
      PROVE  LockStep
  BY <1>1, <1>8, HandlerLocks
<1>9. CASE RestartStep
  <2>1. ASSUME NEW r \in Run, ResumeQueued(r) \/ ResumeAcquiring(r)
        PROVE  LockStep
    <3>1. EnsureLease(r) /\ state[r] \in Confirmable
      BY <2>1 DEF ResumeQueued, ResumeAcquiring, Confirmable
    <3>2. QED
      BY <1>3, <3>1 DEF LockStep
  <2>2. ASSUME NEW r \in Run, ResumeRefused(r) \/ ResumeSkip(r)
        PROVE  LockStep
    BY <2>2 DEF ResumeRefused, ResumeSkip, Resuming, LockStep
  <2>3. Start \/ Listen => LockStep
    BY <1>4 DEF Start, Listen
  <2>4. QED
    BY <1>9, <2>1, <2>2, <2>3 DEF RestartStep
<1>10. CASE Fault
  <2>1. ASSUME NEW r \in Run, Expire(r) \/ RenewFail(r)
        PROVE  LockStep
    BY <2>1 DEF LockStep
  <2>2. Crash => LockStep
    BY DEF Crash, LockStep
  <2>3. AbortMutex \/ (\E w \in Handler : Abort(w)) \/ (\E r \in Run : LoseResponse(r)) => LockStep
    BY <1>4 DEF AbortMutex, Abort, LoseResponse, locks
  <2>4. QED
    BY <1>10, <2>1, <2>2, <2>3 DEF Fault
<1>11. QED
  BY <1>5, <1>6, <1>7, <1>8, <1>9, <1>10 DEF Next

-----------------------------------------------------------------------------
(* What each part of the invariant rests on.                               *)

LEMMA CrashCounted ==
  ASSUME LInv, [Next]_vars, Crash \/ server # "up"
  PROVE  budget'.crash < MaxCrashes
<1>1. TypeOK /\ FaultInv
  BY DEF LInv, EInv, IInv
<1>2. /\ budget'.crash <= budget.crash /\ budget.crash \in 0 .. MaxCrashes
      /\ budget'.crash \in Int
  BY <1>1, BudgetDrops
<1>3. CASE Crash
  <2>1. budget' = [budget EXCEPT !.crash = @ - 1]
    BY <1>3 DEF Crash
  <2>2. budget'.crash = budget.crash - 1
    BY <1>1, <2>1 DEF TypeOK
  <2>3. QED
    BY <1>2, <2>2, BoundsAssumption
<1>4. CASE server # "up"
  BY <1>1, <1>2, <1>4, BoundsAssumption DEF FaultInv
<1>5. QED
  BY <1>3, <1>4

LEMMA RenewalCounted ==
  ASSUME TypeOK, [Next]_vars, NEW r, RenewFail(r)
  PROVE  budget'.renewal < MaxRenewalFailures
<1>1. budget.renewal \in 0 .. MaxRenewalFailures
  BY BudgetDrops
<1>2. budget' = [budget EXCEPT !.renewal = @ - 1]
  BY DEF RenewFail
<1>3. budget'.renewal = budget.renewal - 1
  BY <1>2 DEF TypeOK
<1>4. QED
  BY <1>1, <1>3, BoundsAssumption

\* The process starts, listens, or ends; and while it does not listen nobody
\* takes confirmationMu.
LEMMA ServerSteps ==
  ASSUME LInv, [Next]_vars
  PROVE  \/ server' = server /\ (server # "up" => mu' = mu)
         \/ ExitServer /\ (Crash \/ server # "up")
         \/ server' = "resuming" /\ server = "down" /\ mu' = mu /\ todo' = Run
         \/ server' = "up" /\ server = "resuming" /\ todo = {}
            /\ mu' = mu /\ h' = h /\ owed' = owed
<1>1. FaultInv
  BY DEF LInv
<1>2. CASE UNCHANGED vars
  BY <1>2 DEF vars
<1>3. ASSUME NEW r \in Run, AgentStep(r)
      PROVE  server' = server /\ mu' = mu
  BY <1>3 DEF AgentStep, ClaimTask, AcknowledgeTask, CompletePlanning, CompleteTask,
              BeginMutation, EndMutation, ObserveExecutor, proc
<1>4. ASSUME NEW r \in Run, UserStep(r)
      PROVE  server' = server /\ server = "up"
  BY <1>4 DEF UserStep, ConfirmOperationRun, CancelBeforeApply, CancelAgain, CancelContained
<1>5. ASSUME NEW r \in Run, MutexStep(r)
      PROVE  server' = server /\ server = "up"
  <2>1. mu # Free
    <3>1. \E op \in {"confirm", "leased", "reconcile", "hold", "giveback"} : Holds(r, op)
      BY <1>5 DEF MutexStep, ConfirmLease, ConfirmRefused, ConfirmAdvance, ConfirmQueue,
                  ReadCanceledTask, ReconcileLease, ReconcileRefused
    <3>2. mu.op # "none"
      BY <3>1 DEF Holds
    <3>3. QED
      BY <3>2 DEF Free
  <2>2. server' = server
    BY <1>5 DEF MutexStep, ConfirmLease, ConfirmRefused, ConfirmAdvance, ConfirmQueue,
                ReadCanceledTask, ReconcileLease, ReconcileRefused
  <2>3. QED
    BY <1>1, <2>1, <2>2 DEF FaultInv
<1>6. ASSUME NEW w \in Handler, HandlerStep(w)
      PROVE  (server' = server /\ mu' = mu) \/ (ExitServer /\ server # "up")
  <2>1. Fail(w) => (server' = server /\ mu' = mu) \/ (ExitServer /\ server # "up")
    BY DEF Fail
  <2>2. \A r : Served(r) => server' = server /\ mu' = mu
    BY DEF Served
  <2>3. QED
    BY <1>6, <2>1, <2>2
       DEF HandlerStep, Decide, DecideNothing, EnsureForContinuation, EnsureRefused, CommitQueue,
           QueueRefused, CommitAdvance, AdvanceRefused, ReleaseLease, ReleaseRefused, SettleLease,
           SettleRefused, Finish
<1>7. CASE RestartStep
  BY <1>7 DEF RestartStep, Start, Listen, ResumeQueued, ResumeAcquiring, ResumeRefused,
              ResumeSkip, Resuming
<1>8. CASE Fault
  <2>1. AbortMutex => server' = server /\ server = "up"
    BY <1>1 DEF AbortMutex, FaultInv
  <2>2. Crash => ExitServer
    BY DEF Crash
  <2>3. (\E w \in Handler : Abort(w)) \/ (\E r \in Run : LoseResponse(r) \/ Expire(r) \/ RenewFail(r))
          => server' = server /\ mu' = mu
    BY DEF Abort, LoseResponse, Expire, RenewFail, proc
  <2>4. QED
    BY <1>8, <2>1, <2>2, <2>3 DEF Fault
<1>9. QED
  BY <1>2, <1>3, <1>4, <1>5, <1>6, <1>7, <1>8 DEF Next

LEMMA FaultInvKept ==
  ASSUME LInv, [Next]_vars
  PROVE  FaultInv'
<1>1. TypeOK /\ FaultInv
  BY DEF LInv, EInv, IInv
<1>2. server' # "up" => budget'.crash < MaxCrashes /\ mu' = Free
  <2>1. CASE server' = server /\ (server # "up" => mu' = mu)
    BY <1>1, <2>1, CrashCounted DEF FaultInv
  <2>2. CASE ExitServer /\ (Crash \/ server # "up")
    BY <2>2, CrashCounted DEF ExitServer
  <2>3. CASE server' = "resuming" /\ server = "down" /\ mu' = mu
    BY <1>1, <2>3, CrashCounted DEF FaultInv
  <2>4. QED
    BY <2>1, <2>2, <2>3, ServerSteps
<1>3. ASSUME NEW r \in Run, sup'[r] = "failed"
      PROVE  budget'.renewal < MaxRenewalFailures
  <2>1. sup[r] = "failed" \/ \E q \in Run : RenewFail(q)
    BY <1>1, <1>3, NextLocks
       DEF LockStep, locks, EnsureLease, ResumeAndRelease, Expire, ExitServer, TypeOK
  <2>2. sup[r] = "failed" => budget'.renewal < MaxRenewalFailures
    BY <1>1, BudgetDrops, BoundsAssumption DEF FaultInv
  <2>3. QED
    BY <1>1, <2>1, <2>2, RenewalCounted
<1>4. QED
  BY <1>2, <1>3 DEF FaultInv

\* Without a crash or a lost renewal a run keeps its lease until it ends.
LEMMA LeaseKept ==
  ASSUME LInv, [Next]_vars, LeaseSound', NEW r \in Run, sup[r] = "active", r \in lease,
         state[r] \notin Terminal \/ CanceledAction(r)
  PROVE  sup'[r] = "active" /\ r \in lease'
<1>1. TypeOK
  BY DEF LInv, EInv, IInv
<1>2. ~(Crash \/ server # "up")
  BY CrashCounted, BoundsAssumption DEF LeaseSound
<1>3. \A q \in Run : ~RenewFail(q)
  BY <1>1, RenewalCounted, BoundsAssumption DEF LeaseSound
<1>4. CASE UNCHANGED locks
  BY <1>4 DEF locks
<1>5. CASE \E q \in Run : EnsureLease(q)
  BY <1>1, <1>5 DEF EnsureLease, TypeOK
<1>6. ASSUME NEW q \in Run, ResumeAndRelease(q), state[q] \in Terminal, ~CanceledAction(q)
      PROVE  sup'[r] = "active" /\ r \in lease'
  BY <1>1, <1>6 DEF ResumeAndRelease, TypeOK
<1>7. CASE \E q \in Run : Expire(q)
  BY <1>7 DEF Expire
<1>8. QED
  BY <1>2, <1>3, <1>4, <1>5, <1>6, <1>7, NextLocks DEF LockStep

\* A run becomes unfinished by its confirmation, and by nothing else.
LEMMA UnfinishedMoves ==
  ASSUME TypeOK, NEW r \in Run, Evidence(r), StateInv(r), RunMoves(r), Unfinished(r)'
  PROVE  \/ Unfinished(r)
         \/ state[r] = "awaiting_confirmation" /\ state'[r] \in {"queued", "acquiring_lock"}
<1>1. bound[r] # Planning /\ state[r] \notin Terminal => Unfinished(r)
  <2>1. bound[r] # Planning => state[r] \notin Unconfirmed
    BY DEF StateInv
  <2>2. state[r] \in State
    BY DEF TypeOK
  <2>3. state[r] \notin Unconfirmed \union Terminal =>
          state[r] \in RequiresJournal \ Terminal
    BY <2>2 DEF State, Unconfirmed, RequiresJournal, Terminal
  <2>4. QED
    BY <2>1, <2>3 DEF Unfinished
<1>2. \A s : CanTransition(state[r], s) => state[r] \notin Terminal
  BY Edges
<1>3. CASE state[r] \in Terminal
  <2>1. state'[r] = state[r] /\ bound'[r] = bound[r] /\ (CanceledAction(r)' => CanceledAction(r))
    BY <1>3, EndedRests
  <2>2. CanceledAction(r)'
    BY <1>3, <2>1 DEF Unfinished, Terminal
  <2>3. QED
    BY <2>1, <2>2 DEF Unfinished
<1>4. CASE state[r] \notin Terminal /\ bound[r] = Planning
  <2>1. CASE RunRests(r)
    BY <2>1 DEF RunRests, Unfinished, CanceledAction
  <2>2. CASE TaskMoves(r)
    BY <1>4, <2>2 DEF TaskMoves, BoundTaskMoves, Unfinished, CanceledAction
  <2>3. CASE PlanningMoves(r)
    BY <1>4, <2>3 DEF PlanningMoves, BoundTaskMoves, Unfinished, CanceledAction, RequiresJournal,
                      Terminal
  <2>4. CASE RunAdvances(r)
    BY <1>4, <2>4 DEF RunAdvances
  <2>5. CASE RunConfirmed(r)
    BY <2>5 DEF RunConfirmed, Unfinished, RequiresJournal, Terminal
  <2>6. CASE TaskQueued(r)
    <3>1. state[r] = "acquiring_lock"
      BY <1>4, <2>6 DEF TaskQueued
    <3>2. QED
      BY <3>1 DEF Unfinished, RequiresJournal, Terminal
  <2>7. CASE RunCanceled(r)
    BY <1>4, <2>7 DEF RunCanceled, BoundTaskMoves, Unfinished, CanceledAction, RequiresJournal,
                      Terminal
  <2>8. QED
    BY <2>1, <2>2, <2>3, <2>4, <2>5, <2>6, <2>7 DEF RunMoves
<1>5. QED
  BY <1>1, <1>3, <1>4

-----------------------------------------------------------------------------
(* A confirmable run leaves that for a step of its own confirmation, for a  *)
(* cancellation, or for the restart.                                       *)

LEMMA ConfirmableMoves ==
  ASSUME LInv, [Next]_vars, NEW r \in Run, state[r] \in Confirmable
  PROVE  \/ state'[r] = state[r]
         \/ ConfirmAdvance(r) \/ ConfirmQueue(r) \/ CancelBeforeApply(r)
         \/ ResumeQueued(r) \/ ResumeAcquiring(r)
<1>1. TypeOK /\ HandlerInv /\ StartInv
  BY DEF LInv, EInv, IInv
<1>2. PlanningOver(r) /\ bound[r] = Planning
  BY <1>1 DEF StartInv, Confirmable
<1>3. \A q \in Run : \A s, m : q # r /\ Record(q, s, m) => state'[r] = state[r]
  BY <1>1 DEF Record, TypeOK
<1>4. \A q \in Run : \A m : Record(q, state[q], m) => state'[r] = state[r]
  BY <1>1 DEF Record, TypeOK
<1>5. ASSUME NEW q \in Run, AgentStep(q)
      PROVE  state'[r] = state[r]
  <2>1. CASE \E t \in Task : ClaimTask(q, t) \/ AcknowledgeTask(q, t)
    <3>1. state' = state \/ (phase[q][Planning] = "claimed" /\ state' = [state EXCEPT ![q] = "discovering"])
      BY <2>1 DEF ClaimTask, AcknowledgeTask, run
    <3>2. QED
      BY <1>1, <1>2, <3>1 DEF PlanningOver, TerminalPhase, TypeOK
  <2>2. CASE \E x \in PlanningReport(q) : CompletePlanning(q, x)
    <3>1. /\ phase[q][Planning] \in {"running", "cancel_requested"}
          /\ \E s : state' = [state EXCEPT ![q] = s]
      BY <2>2 DEF CompletePlanning
    <3>2. QED
      BY <1>1, <1>2, <3>1 DEF PlanningOver, TerminalPhase, TypeOK
  <2>3. CASE \E t \in ActionTask : \E x \in Report(q, t) : CompleteTask(q, t, x)
    BY <1>4, <2>3 DEF CompleteTask
  <2>4. CASE \E t \in ActionTask : BeginMutation(q, t) \/ EndMutation(q, t) \/ ObserveExecutor(q, t)
    BY <2>4 DEF BeginMutation, EndMutation, ObserveExecutor, run
  <2>5. QED
    BY <1>5, <2>1, <2>2, <2>3, <2>4 DEF AgentStep
<1>6. ASSUME NEW q \in Run, MutexStep(q)
      PROVE  state'[r] = state[r] \/ ConfirmAdvance(r) \/ ConfirmQueue(r)
  <2>1. CASE q # r /\ (ConfirmAdvance(q) \/ ConfirmQueue(q))
    BY <1>3, <2>1 DEF ConfirmAdvance, ConfirmQueue, QueueTask
  <2>2. CASE \/ ConfirmLease(q) \/ ConfirmRefused(q) \/ ReadCanceledTask(q) \/ ReconcileLease(q)
             \/ ReconcileRefused(q)
    BY <2>2 DEF ConfirmLease, ConfirmRefused, ReadCanceledTask, ReconcileLease, ReconcileRefused, run
  <2>3. QED
    BY <1>6, <2>1, <2>2 DEF MutexStep
<1>7. ASSUME NEW q \in Run, UserStep(q)
      PROVE  state'[r] = state[r] \/ CancelBeforeApply(r)
  <2>1. CASE q # r /\ CancelBeforeApply(q)
    BY <1>1, <2>1 DEF CancelBeforeApply, TypeOK
  <2>2. CASE CancelContained(q)
    BY <1>4, <2>2 DEF CancelContained
  <2>3. CASE ConfirmOperationRun(q) \/ CancelAgain(q)
    BY <2>3 DEF ConfirmOperationRun, CancelAgain, run
  <2>4. QED
    BY <1>7, <2>1, <2>2, <2>3 DEF UserStep
<1>8. ASSUME NEW w \in Handler, HandlerStep(w)
      PROVE  state'[r] = state[r]
  <2>1. CASE CommitQueue(w) \/ CommitAdvance(w)
    <3>1. /\ h[w].pc # "idle" /\ h[w].d.kind \in {"queue", "contain", "advance"}
          /\ \E s, m : Record(h[w].run, s, m)
      BY <1>1, <2>1 DEF CommitQueue, CommitAdvance, QueueTask, Queueing, Advancing, HandlerInv
    <3>2. h[w].run \in Run /\ h[w].run # r
      BY <1>1, <1>2, <3>1 DEF HandlerInv
    <3>3. QED
      BY <1>3, <3>1, <3>2
  <2>2. CASE \/ \E q \in Run : Decide(w, q) \/ DecideNothing(w, q)
             \/ EnsureForContinuation(w) \/ EnsureRefused(w) \/ QueueRefused(w) \/ AdvanceRefused(w)
             \/ ReleaseLease(w) \/ ReleaseRefused(w) \/ SettleLease(w) \/ SettleRefused(w)
    <3>1. Fail(w) => state' = state
      BY DEF Fail, run
    <3>2. state' = state
      BY <2>2, <3>1
         DEF Decide, DecideNothing, EnsureForContinuation, EnsureRefused, QueueRefused, AdvanceRefused,
             ReleaseLease, ReleaseRefused, SettleLease, SettleRefused, run
    <3>3. QED
      BY <3>2
  <2>3. QED
    BY <1>8, <2>1, <2>2 DEF HandlerStep
<1>9. CASE RestartStep
  <2>1. ASSUME NEW q \in Run, q # r, ResumeQueued(q) \/ ResumeAcquiring(q)
        PROVE  state'[r] = state[r]
    BY <1>3, <2>1 DEF ResumeQueued, ResumeAcquiring, QueueTask
  <2>2. ASSUME NEW q \in Run, ResumeRefused(q) \/ ResumeSkip(q)
        PROVE  state'[r] = state[r]
    BY <2>2 DEF ResumeRefused, ResumeSkip, run
  <2>3. Start \/ Listen => state'[r] = state[r]
    BY DEF Start, Listen, run
  <2>4. QED
    BY <1>9, <2>1, <2>2, <2>3 DEF RestartStep
<1>10. Fault \/ UNCHANGED vars => state' = state
  BY DEF Fault, Crash, AbortMutex, Abort, LoseResponse, Expire, RenewFail, run, vars
<1>11. QED
  BY <1>5, <1>6, <1>7, <1>8, <1>9, <1>10 DEF Next

\* The confirmation itself finds the lease taken, and leaves it.
LEMMA NextConfirms ==
  ASSUME LInv, [Next]_vars, NEW r \in Run, state[r] = "awaiting_confirmation",
         state'[r] \in {"queued", "acquiring_lock"}
  PROVE  Holds(r, "leased") /\ UNCHANGED locks
<1>1. TypeOK
  BY DEF LInv, EInv, IInv
<1>2. ~ConfirmQueue(r) /\ ~ResumeQueued(r) /\ ~ResumeAcquiring(r)
  BY DEF ConfirmQueue, ResumeQueued, ResumeAcquiring
<1>3. ~CancelBeforeApply(r)
  BY <1>1 DEF CancelBeforeApply, TypeOK
<1>4. ConfirmAdvance(r)
  BY <1>2, <1>3, ConfirmableMoves DEF Confirmable
<1>5. QED
  BY <1>4 DEF ConfirmAdvance

LEMMA ContainmentKept ==
  ASSUME LInv, [Next]_vars
  PROVE  Containment'
<1>1. SUFFICES ASSUME LeaseSound', NEW r \in Run, Unfinished(r)'
               PROVE  sup'[r] = "active" /\ r \in lease'
  BY DEF Containment
<1>2. /\ TypeOK /\ EInv /\ Containment /\ Evidence(r) /\ StateInv(r)
      /\ mu.run = r => MutexOf(r)
  BY DEF LInv, EInv, IInv
<1>3. LeaseSound
  BY <1>1, <1>2, SoundBefore
<1>4. RunMoves(r)
  BY <1>2, NextMoves
<1>5. CASE Unfinished(r)
  <2>1. sup[r] = "active" /\ r \in lease
    BY <1>2, <1>3, <1>5 DEF Containment
  <2>2. state[r] \notin Terminal \/ CanceledAction(r)
    BY <1>5 DEF Unfinished, Terminal
  <2>3. QED
    BY <1>1, <2>1, <2>2, LeaseKept
<1>6. CASE state[r] = "awaiting_confirmation" /\ state'[r] \in {"queued", "acquiring_lock"}
  <2>1. Holds(r, "leased") /\ UNCHANGED locks
    BY <1>6, NextConfirms
  <2>2. mu.op = "leased" /\ mu.run = r
    BY <2>1 DEF Holds
  <2>3. QED
    BY <1>2, <1>3, <2>1, <2>2 DEF MutexOf, locks
<1>7. QED
  BY <1>1, <1>2, <1>4, <1>5, <1>6, UnfinishedMoves

-----------------------------------------------------------------------------
(* What the holder of confirmationMu relies on stays so.                   *)

LEMMA MutexMoves ==
  ASSUME LInv, [Next]_vars
  PROVE  \/ mu' = mu \/ mu' = Free
         \/ \E q \in Run : \/ ConfirmOperationRun(q) \/ ConfirmLease(q) \/ ConfirmAdvance(q)
                           \/ CancelBeforeApply(q) \/ CancelAgain(q) \/ ReadCanceledTask(q)
<1>1. ASSUME NEW q \in Run, AgentStep(q)
      PROVE  mu' = mu
  BY <1>1 DEF AgentStep, ClaimTask, AcknowledgeTask, CompletePlanning, CompleteTask,
              BeginMutation, EndMutation, ObserveExecutor, proc
<1>2. ASSUME NEW q \in Run, MutexStep(q) \/ UserStep(q)
      PROVE  \/ mu' = mu \/ mu' = Free
             \/ ConfirmOperationRun(q) \/ ConfirmLease(q) \/ ConfirmAdvance(q)
             \/ CancelBeforeApply(q) \/ CancelAgain(q) \/ ReadCanceledTask(q)
  BY <1>2 DEF MutexStep, UserStep, ConfirmRefused, ConfirmQueue, ReconcileLease, ReconcileRefused,
              CancelContained, Leave
<1>3. CASE server' = server /\ (server # "up" => mu' = mu)
  <2>1. ASSUME NEW w \in Handler, HandlerStep(w)
        PROVE  mu' = mu \/ mu' = Free
    <3>1. Fail(w) => mu' = mu \/ mu' = Free
      BY DEF Fail, ExitServer
    <3>2. \A r : Served(r) => mu' = mu
      BY DEF Served
    <3>3. QED
      BY <2>1, <3>1, <3>2
         DEF HandlerStep, Decide, DecideNothing, EnsureForContinuation, EnsureRefused, CommitQueue,
             QueueRefused, CommitAdvance, AdvanceRefused, ReleaseLease, ReleaseRefused, SettleLease,
             SettleRefused, Finish
  <2>2. RestartStep \/ Fault \/ UNCHANGED vars => mu' = mu \/ mu' = Free
    BY DEF RestartStep, Start, Listen, ResumeQueued, ResumeAcquiring, ResumeRefused, ResumeSkip,
           ExitServer, Fault, Crash, AbortMutex, Abort, LoseResponse, Expire, RenewFail, Leave, proc,
           vars
  <2>3. QED
    BY <1>1, <1>2, <2>1, <2>2 DEF Next
<1>4. CASE ExitServer
  BY <1>4 DEF ExitServer
<1>5. CASE server # "up" /\ mu' = mu
  BY <1>5
<1>6. CASE server' = "up" /\ server # "up"
  BY <1>6, ServerSteps DEF ExitServer
<1>7. QED
  BY <1>3, <1>4, <1>5, <1>6, ServerSteps

LEMMA MutexKept ==
  ASSUME LInv, [Next]_vars, NEW r \in Run, mu'.run = r
  PROVE  MutexOf(r)'
<1>1. /\ TypeOK /\ EInv /\ FaultInv /\ Evidence(r) /\ StateInv(r)
      /\ mu.run = r => MutexOf(r)
  BY DEF LInv, EInv, IInv
<1>2. RunMoves(r)
  BY <1>1, NextMoves
<1>3. mu' # Free
  BY NoRunAssumption DEF Free
<1>4. CASE mu' = mu
  <2>1. mu.run = r /\ mu # Free /\ MutexOf(r)
    BY <1>1, <1>3, <1>4
  <2>2. server = "up"
    BY <1>1, <2>1 DEF FaultInv
  <2>3. mu.op \in {"confirm", "leased"} => state'[r] \in Confirmable
    <3>1. SUFFICES ASSUME state[r] \in Confirmable PROVE state'[r] \in Confirmable
      BY <2>1 DEF MutexOf
    <3>2. ~ConfirmAdvance(r)
      <4>1. ConfirmAdvance(r) => mu.op = "leased" /\ mu'.op = "confirm"
        BY DEF ConfirmAdvance, Holds, Enter
      <4>2. QED
        BY <1>4, <4>1
    <3>3. ~ConfirmQueue(r)
      BY <1>3 DEF ConfirmQueue, Leave
    <3>4. ~CancelBeforeApply(r)
      BY <2>1 DEF CancelBeforeApply
    <3>5. ~ResumeQueued(r) /\ ~ResumeAcquiring(r)
      BY <2>2 DEF ResumeQueued, ResumeAcquiring, Resuming
    <3>6. state'[r] = state[r]
      BY <3>1, <3>2, <3>3, <3>4, <3>5, ConfirmableMoves
    <3>7. QED
      BY <3>1, <3>6
  <2>4. mu.op = "leased" /\ LeaseSound' => sup'[r] = "active" /\ r \in lease'
    <3>1. SUFFICES ASSUME mu.op = "leased", LeaseSound'
                   PROVE  sup'[r] = "active" /\ r \in lease'
      OBVIOUS
    <3>2. LeaseSound
      BY <1>1, <3>1, SoundBefore
    <3>3. sup[r] = "active" /\ r \in lease /\ state[r] \in Confirmable
      BY <2>1, <3>1, <3>2 DEF MutexOf
    <3>4. state[r] \notin Terminal
      BY <3>3 DEF Confirmable, Terminal
    <3>5. QED
      BY <3>1, <3>3, <3>4, LeaseKept
  <2>5. state[r] = "canceled_before_apply" =>
          /\ state'[r] = state[r] /\ bound'[r] = bound[r]
          /\ CanceledAction(r)' => CanceledAction(r)
    BY <1>1, <1>2, EndedRests DEF Terminal
  <2>6. QED
    BY <1>4, <2>1, <2>3, <2>4, <2>5 DEF MutexOf
<1>5. ASSUME NEW q \in Run, ConfirmOperationRun(q) \/ ConfirmLease(q)
      PROVE  MutexOf(r)'
  <2>1. q = r /\ state' = state
    BY <1>5 DEF ConfirmOperationRun, ConfirmLease, Enter, run
  <2>2. CASE ConfirmOperationRun(r)
    <3>1. mu'.op = "confirm" /\ state[r] \in Confirmable
      BY <2>2 DEF ConfirmOperationRun, Enter
    <3>2. QED
      BY <2>1, <3>1 DEF MutexOf
  <2>3. CASE ConfirmLease(r)
    <3>1. mu'.op = "leased" /\ mu.op = "confirm" /\ mu.run = r
      BY <2>3 DEF ConfirmLease, Enter, Holds
    <3>2. sup'[r] = "active" /\ r \in lease'
      BY <1>1, <2>3 DEF ConfirmLease, EnsureLease, TypeOK
    <3>3. state[r] \in Confirmable
      BY <1>1, <3>1 DEF MutexOf
    <3>4. QED
      BY <2>1, <3>1, <3>2, <3>3 DEF MutexOf
  <2>4. QED
    BY <1>5, <2>1, <2>2, <2>3
<1>6. ASSUME NEW q \in Run, ConfirmAdvance(q)
      PROVE  MutexOf(r)'
  <2>1. q = r /\ mu'.op = "confirm"
    BY <1>6 DEF ConfirmAdvance, Enter
  <2>2. state'[r] \in {"queued", "acquiring_lock"}
    BY <1>1, <1>6, <2>1 DEF ConfirmAdvance, Record, TypeOK
  <2>3. QED
    BY <2>1, <2>2 DEF MutexOf, Confirmable
<1>7. ASSUME NEW q \in Run, CancelBeforeApply(q) \/ CancelAgain(q)
      PROVE  MutexOf(r)'
  <2>1. q = r /\ mu'.op = "reconcile"
    BY <1>7 DEF CancelBeforeApply, CancelAgain, Enter
  <2>2. state'[r] = "canceled_before_apply"
    BY <1>1, <1>7, <2>1 DEF CancelBeforeApply, CancelAgain, run, TypeOK
  <2>3. QED
    BY <2>1, <2>2 DEF MutexOf
<1>8. ASSUME NEW q \in Run, ReadCanceledTask(q)
      PROVE  MutexOf(r)'
  <2>1. /\ q = r /\ mu.op = "reconcile" /\ mu.run = r
        /\ mu'.op = (IF AwaitsCanceledTask(r) THEN "hold" ELSE "giveback")
        /\ state' = state /\ bound' = bound /\ phase' = phase
    BY <1>8 DEF ReadCanceledTask, Enter, Holds, run, work
  <2>2. state[r] = "canceled_before_apply"
    BY <1>1, <2>1 DEF MutexOf
  <2>3. CanceledAction(r) => AwaitsCanceledTask(r)
    BY <1>1 DEF CanceledAction, AwaitsCanceledTask, StateInv, LivePhase
  <2>4. CanceledAction(r)' => CanceledAction(r)
    BY <2>1 DEF CanceledAction
  <2>5. AwaitsCanceledTask(r) => bound[r] # Planning
    BY DEF AwaitsCanceledTask
  <2>6. QED
    BY <2>1, <2>2, <2>3, <2>4, <2>5 DEF MutexOf
<1>9. QED
  BY <1>3, <1>4, <1>5, <1>6, <1>7, <1>8, MutexMoves

-----------------------------------------------------------------------------
(* A run that ended is seen through before its lease is left to itself.    *)

\* A run ends in the hands of the handler that will release its lease, or of
\* planning, before it ever had one.
LEMMA EndsAttended ==
  ASSUME LInv, [Next]_vars, NEW r \in Run, state[r] \notin Ended, state'[r] \in Ended
  PROVE  ~PlanningOver(r) \/ \E w \in Handler : h'[w].run = r
<1>1. /\ TypeOK /\ HandlerInv /\ DecisionInv
  BY DEF LInv, EInv, IInv
<1>2. \A q \in Run : \A s, m : Record(q, s, m) /\ s \notin Ended => state'[r] \notin Ended
  BY <1>1 DEF Record, TypeOK
<1>3. \A q \in Run : \A m : ~Record(q, state[q], m)
  BY <1>1 DEF Record, TypeOK
<1>4. {"discovering", "queued", "acquiring_lock", "canceled_before_apply", "creating_restore_point",
       "running", "verifying", "rolling_back"} \cap Ended = {}
  BY DEF Ended, Terminal
<1>5. \A t : operationActionState(t) \notin Ended
  BY <1>4 DEF operationActionState
<1>6. \A q \in Run, t \in ActionTask : ~QueueTask(q, t)
  BY <1>2, <1>5 DEF QueueTask
<1>7. ASSUME NEW q \in Run, AgentStep(q)
      PROVE  ~PlanningOver(r)
  <2>1. CASE \E t \in Task : ClaimTask(q, t) \/ AcknowledgeTask(q, t)
    <3>1. state' = state \/ state' = [state EXCEPT ![q] = "discovering"]
      BY <2>1 DEF ClaimTask, AcknowledgeTask, run
    <3>2. QED
      BY <1>1, <1>4, <3>1 DEF TypeOK
  <2>2. CASE \E x \in PlanningReport(q) : CompletePlanning(q, x)
    <3>1. /\ phase[q][Planning] \in {"running", "cancel_requested"}
          /\ \E s : state' = [state EXCEPT ![q] = s]
      BY <2>2 DEF CompletePlanning
    <3>2. q = r
      BY <1>1, <3>1 DEF TypeOK
    <3>3. QED
      BY <3>1, <3>2 DEF PlanningOver, TerminalPhase
  <2>3. CASE \E t \in ActionTask : \E x \in Report(q, t) : CompleteTask(q, t, x)
    BY <1>3, <2>3 DEF CompleteTask
  <2>4. CASE \E t \in ActionTask : BeginMutation(q, t) \/ EndMutation(q, t) \/ ObserveExecutor(q, t)
    BY <2>4 DEF BeginMutation, EndMutation, ObserveExecutor, run
  <2>5. QED
    BY <1>7, <2>1, <2>2, <2>3, <2>4 DEF AgentStep
<1>8. ASSUME NEW q \in Run, MutexStep(q) \/ UserStep(q)
      PROVE  FALSE
  <2>1. ~ConfirmAdvance(q)
    BY <1>2, <1>4 DEF ConfirmAdvance
  <2>2. ~ConfirmQueue(q)
    BY <1>6, TaskTypes DEF ConfirmQueue
  <2>3. ~CancelBeforeApply(q)
    BY <1>1, <1>4 DEF CancelBeforeApply, TypeOK
  <2>4. ~CancelContained(q)
    BY <1>3 DEF CancelContained
  <2>5. QED
    BY <1>8, <2>1, <2>2, <2>3, <2>4
       DEF MutexStep, UserStep, ConfirmLease, ConfirmRefused, ReadCanceledTask, ReconcileLease,
           ReconcileRefused, ConfirmOperationRun, CancelAgain, run
<1>9. ASSUME NEW w \in Handler, HandlerStep(w)
      PROVE  \E v \in Handler : h'[v].run = r
  <2>1. CASE CommitAdvance(w)
    <3>1. /\ h[w].pc # "idle" /\ h[w].d.kind = "advance"
          /\ Record(h[w].run, h[w].d.state, h[w].d.mark)
          /\ h[w].d.release => h' = [h EXCEPT ![w].pc = "release"]
      BY <2>1 DEF CommitAdvance, Advancing
    <3>2. h[w].run \in Run /\ (h[w].d.release <=> h[w].d.state \in Ended)
      BY <1>1, <3>1 DEF HandlerInv, DecisionInv, Backed
    <3>3. h[w].run = r /\ h[w].d.state \in Ended
      BY <1>1, <3>1, <3>2 DEF Record, TypeOK
    <3>4. h'[w].run = r
      BY <1>1, <3>1, <3>2, <3>3 DEF TypeOK, HandlerState
    <3>5. QED
      BY <3>4
  <2>2. CASE CommitQueue(w)
    <3>1. h[w].pc # "idle" /\ h[w].d.kind \in {"queue", "contain"}
      BY <1>1, <2>2 DEF CommitQueue, Queueing, HandlerInv
    <3>2. h[w].run \in Run /\ h[w].d.next \in ActionTask
      BY <1>1, <3>1 DEF HandlerInv, DecisionOK
    <3>3. QED
      BY <1>6, <2>2, <3>2 DEF CommitQueue
  <2>3. CASE \/ \E q \in Run : Decide(w, q) \/ DecideNothing(w, q)
             \/ EnsureForContinuation(w) \/ EnsureRefused(w) \/ QueueRefused(w) \/ AdvanceRefused(w)
             \/ ReleaseLease(w) \/ ReleaseRefused(w) \/ SettleLease(w) \/ SettleRefused(w)
    <3>1. Fail(w) => state' = state
      BY DEF Fail, run
    <3>2. state' = state
      BY <2>3, <3>1
         DEF Decide, DecideNothing, EnsureForContinuation, EnsureRefused, QueueRefused, AdvanceRefused,
             ReleaseLease, ReleaseRefused, SettleLease, SettleRefused, run
    <3>3. QED
      BY <3>2
  <2>4. QED
    BY <1>9, <2>1, <2>2, <2>3 DEF HandlerStep
<1>10. ~RestartStep
  <2>1. ASSUME NEW q \in Run, ResumeQueued(q)
        PROVE  FALSE
    BY <1>2, <1>4, <2>1 DEF ResumeQueued
  <2>2. ASSUME NEW q \in Run, ResumeAcquiring(q)
        PROVE  FALSE
    BY <1>6, <2>2, TaskTypes DEF ResumeAcquiring
  <2>3. QED
    BY <2>1, <2>2 DEF RestartStep, Start, Listen, ResumeRefused, ResumeSkip, run
<1>11. ~Fault /\ ~UNCHANGED vars
  BY DEF Fault, Crash, AbortMutex, Abort, LoseResponse, Expire, RenewFail, run, vars
<1>12. QED
  BY <1>7, <1>8, <1>9, <1>10, <1>11 DEF Next

\* Nobody but the one who attends to a run stops doing so, and only when the
\* lease is gone.
LEMMA StillAttended ==
  ASSUME NEW r, Attended(r), server' = server, todo' = todo, owed \subseteq owed',
         \A w \in Handler : h[w].run = r => h'[w].run = r
  PROVE  Attended(r)'
BY DEF Attended

LEMMA ExitAttended ==
  ASSUME NEW r, ExitServer
  PROVE  Attended(r)'
BY DEF ExitServer, Attended

\* A handler that returns an error leaves its run to the next request.
LEMMA FailAttended ==
  ASSUME TypeOK, NEW r \in Run, NEW w \in Handler, Fail(w), Attended(r)
  PROVE  Attended(r)'
<1>1. CASE ExitServer
  BY <1>1, ExitAttended
<1>2. CASE /\ server = "up" /\ h' = [h EXCEPT ![w] = Idle] /\ owed' = owed \union {h[w].run}
           /\ UNCHANGED <<server, todo>>
  <2>1. CASE h[w].run = r
    BY <1>2, <2>1 DEF Attended
  <2>2. CASE h[w].run # r
    <3>1. \A v \in Handler : h[v].run = r => h'[v].run = r
      BY <1>2, <2>2 DEF TypeOK
    <3>2. QED
      BY <1>2, <3>1, StillAttended
  <2>3. QED
    BY <2>1, <2>2
<1>3. QED
  BY <1>1, <1>2 DEF Fail

\* One that is done with another run leaves r attended to.
LEMMA ServedAttended ==
  ASSUME TypeOK, NEW r \in Run, NEW q, q # r, Served(q), Attended(r),
         \A w \in Handler : h[w].run = r => h'[w].run = r
  PROVE  Attended(r)'
BY DEF Served, Attended

LEMMA HandlerAttends ==
  ASSUME EInv, NEW r \in Run, NEW w \in Handler, HandlerStep(w), RunMoves(r),
         state[r] \in Ended, Attended(r)
  PROVE  Attended(r)' \/ r \notin lease'
<1>1. TypeOK /\ HandlerInv /\ DecisionInv /\ Evidence(r) /\ StateInv(r)
  BY DEF EInv, IInv
<1>2. Ended \subseteq Terminal /\ "canceled_before_apply" \notin Ended
  BY DEF Ended
<1>3. state'[r] \in Ended
  BY <1>1, <1>2, EndedRests
<1>11. ASSUME FallBack(w) \/ \E p : h' = [h EXCEPT ![w].pc = p]
       PROVE  \A v \in Handler : h'[v].run = h[v].run
  <2>1. \A p, d : h' = [h EXCEPT ![w].pc = p, ![w].d = d] =>
          \A v \in Handler : h'[v].run = h[v].run
    BY <1>1 DEF TypeOK, HandlerState
  <2>2. \A p : h' = [h EXCEPT ![w].pc = p] => \A v \in Handler : h'[v].run = h[v].run
    BY <1>1 DEF TypeOK, HandlerState
  <2>3. QED
    BY <1>11, <2>1, <2>2 DEF FallBack
<1>4. CASE h[w].run = r /\ Finish(w)
  <2>1. ~CommitQueue(w)
    <3>1. SUFFICES ASSUME CommitQueue(w) PROVE FALSE
      OBVIOUS
    <3>2. state'[r] = operationActionState(h[w].d.next)
      BY <1>1, <1>4, <3>1 DEF CommitQueue, QueueTask, Record, TypeOK
    <3>3. QED
      BY <1>3, <3>2 DEF operationActionState, Ended, Terminal
  <2>2. ~CommitAdvance(w)
    <3>1. SUFFICES ASSUME CommitAdvance(w) PROVE FALSE
      OBVIOUS
    <3>2. /\ h[w].pc = "decided" /\ h[w].d.kind = "advance" /\ state'[r] = h[w].d.state
      BY <1>1, <1>4, <3>1 DEF CommitAdvance, Advancing, Record, TypeOK
    <3>3. h[w].d.release
      BY <1>1, <1>3, <1>4, <3>2 DEF DecisionInv, Backed
    <3>4. h' = [h EXCEPT ![w].pc = "release"] /\ h' = [h EXCEPT ![w] = Idle]
      BY <1>4, <3>1, <3>3 DEF CommitAdvance, Finish
    <3>5. h'[w].pc = "release" /\ h'[w] = Idle
      BY <1>1, <3>4 DEF TypeOK, HandlerState
    <3>6. QED
      BY <3>5 DEF Idle
  <2>3. CASE SettleLease(w)
    <3>1. /\ h[w].pc # "idle" /\ h[w].d.kind = "settle"
          /\ ~h[w].d.ensure => ResumeAndRelease(r)
      BY <1>4, <2>3 DEF SettleLease, Settling
    <3>2. ~h[w].d.ensure
      BY <1>2, <1>4, <3>1, HandlerFacts
    <3>3. QED
      BY <3>1, <3>2 DEF ResumeAndRelease
  <2>4. CASE ReleaseLease(w)
    BY <1>4, <2>4 DEF ReleaseLease
  <2>5. CASE Fail(w)
    BY <1>1, <2>5, FailAttended
  <2>6. CASE \E q \in Run : Decide(w, q) \/ DecideNothing(w, q)
    BY <1>4, <2>6, NoRunAssumption DEF Decide, DecideNothing, CanContinue, Idle
  <2>7. CASE h' = [h EXCEPT ![w].pc = "leased"] \/ FallBack(w)
    <3>1. h'[w].run = r
      BY <1>4, <1>11, <2>7
    <3>2. QED
      BY <3>1 DEF Attended
  <2>8. QED
    BY <2>1, <2>2, <2>3, <2>4, <2>5, <2>6, <2>7
       DEF HandlerStep, EnsureForContinuation, EnsureRefused, QueueRefused, AdvanceRefused,
           ReleaseRefused, SettleRefused
<1>5. CASE h[w].run # r /\ Finish(w)
  <2>1. \A v \in Handler : h[v].run = r => h'[v].run = r
    BY <1>1, <1>5 DEF Finish, TypeOK
  <2>2. QED
    BY <1>1, <1>5, <2>1, ServedAttended DEF Finish
<1>6. CASE Fail(w)
  BY <1>1, <1>6, FailAttended
<1>7. ASSUME NEW q \in Run, Decide(w, q)
      PROVE  Attended(r)'
  <2>1. /\ h[w] = Idle /\ \E e : h' = [h EXCEPT ![w] = e]
        /\ UNCHANGED <<server, todo, owed>>
    BY <1>7 DEF Decide, CanContinue
  <2>2. h[w].run # r
    BY <2>1, NoRunAssumption DEF Idle
  <2>3. \A v \in Handler : h[v].run = r => h'[v].run = r
    BY <1>1, <2>1, <2>2 DEF TypeOK
  <2>4. QED
    BY <2>1, <2>3, StillAttended
<1>8. ASSUME NEW q \in Run, DecideNothing(w, q)
      PROVE  Attended(r)'
  <2>1. Decisions(q) = {} /\ h' = h /\ Served(q)
    BY <1>8 DEF DecideNothing
  <2>2. Decisions(r) # {}
    BY <1>2 DEF Decisions
  <2>3. q # r
    BY <2>1, <2>2
  <2>4. QED
    BY <1>1, <2>1, <2>3, ServedAttended
<1>9. CASE /\ UNCHANGED <<server, todo, owed>>
           /\ \/ FallBack(w)
              \/ \E p : h' = [h EXCEPT ![w].pc = p]
  <2>1. \A v \in Handler : h[v].run = r => h'[v].run = r
    BY <1>9, <1>11
  <2>2. QED
    BY <1>9, <2>1, StillAttended
<1>10. QED
  BY <1>4, <1>5, <1>6, <1>7, <1>8, <1>9
     DEF HandlerStep, EnsureForContinuation, EnsureRefused, CommitQueue, QueueRefused, CommitAdvance,
         AdvanceRefused, ReleaseLease, ReleaseRefused, SettleLease, SettleRefused

LEMMA AttendedStays ==
  ASSUME LInv, [Next]_vars, NEW r \in Run, state[r] \in Ended, Attended(r)
  PROVE  Attended(r)' \/ r \notin lease'
<1>1. EInv /\ TypeOK /\ RunMoves(r)
  BY NextMoves DEF LInv, EInv, IInv
<1>2. Ended \subseteq Terminal /\ {"queued", "acquiring_lock"} \cap Ended = {}
  BY DEF Ended, Terminal
<1>3. CASE UNCHANGED vars
  BY <1>3, StillAttended DEF vars
<1>4. ASSUME NEW q \in Run, AgentStep(q) \/ MutexStep(q) \/ UserStep(q)
      PROVE  Attended(r)'
  <2>1. server' = server /\ todo' = todo /\ owed \subseteq owed' /\ h' = h
    BY <1>4 DEF AgentStep, ClaimTask, AcknowledgeTask, CompletePlanning, CompleteTask,
                BeginMutation, EndMutation, ObserveExecutor, proc,
                MutexStep, UserStep, ConfirmLease, ConfirmRefused, ConfirmAdvance, ConfirmQueue,
                ReadCanceledTask, ReconcileLease, ReconcileRefused, ConfirmOperationRun,
                CancelBeforeApply, CancelAgain, CancelContained
  <2>2. QED
    BY <2>1, StillAttended
<1>5. ASSUME NEW w \in Handler, HandlerStep(w)
      PROVE  Attended(r)' \/ r \notin lease'
  BY <1>1, <1>5, HandlerAttends
<1>6. CASE RestartStep
  <2>1. CASE Start
    BY <2>1 DEF Start, Attended
  <2>2. CASE Listen
    BY <2>2 DEF Listen, Attended
  <2>3. ASSUME NEW q \in Run, ResumeQueued(q) \/ ResumeAcquiring(q) \/ ResumeSkip(q)
        PROVE  Attended(r)'
    <3>1. q # r
      BY <1>2, <2>3 DEF ResumeQueued, ResumeAcquiring, ResumeSkip, Resumable
    <3>2. UNCHANGED <<server, owed, h>> /\ todo' = todo \ {q}
      BY <2>3 DEF ResumeQueued, ResumeAcquiring, ResumeSkip
    <3>3. QED
      BY <3>1, <3>2 DEF Attended
  <2>4. ASSUME NEW q \in Run, ResumeRefused(q)
        PROVE  Attended(r)'
    BY <2>4, ExitAttended DEF ResumeRefused
  <2>5. QED
    BY <1>6, <2>1, <2>2, <2>3, <2>4 DEF RestartStep
<1>7. CASE Fault
  <2>1. Crash => Attended(r)'
    BY ExitAttended DEF Crash
  <2>2. ASSUME NEW w \in Handler, Abort(w)
        PROVE  Attended(r)'
    <3>1. /\ h' = [h EXCEPT ![w] = Idle] /\ owed' = owed \union {h[w].run}
          /\ UNCHANGED <<server, todo>>
      BY <2>2 DEF Abort
    <3>2. CASE h[w].run = r
      BY <3>1, <3>2 DEF Attended
    <3>3. CASE h[w].run # r
      <4>1. \A v \in Handler : h[v].run = r => h'[v].run = r
        BY <1>1, <3>1, <3>3 DEF TypeOK
      <4>2. QED
        BY <3>1, <4>1, StillAttended
    <3>4. QED
      BY <3>2, <3>3
  <2>3. CASE AbortMutex \/ \E q \in Run : LoseResponse(q) \/ Expire(q) \/ RenewFail(q)
    <3>1. UNCHANGED <<server, todo, h>> /\ owed \subseteq owed'
      BY <2>3 DEF AbortMutex, LoseResponse, Expire, RenewFail, proc
    <3>2. QED
      BY <3>1, StillAttended
  <2>4. QED
    BY <1>7, <2>1, <2>2, <2>3 DEF Fault
<1>8. QED
  BY <1>3, <1>4, <1>5, <1>6, <1>7 DEF Next

-----------------------------------------------------------------------------
(* The invariant is inductive.                                             *)

LEMMA TakenAfterPlanning ==
  ASSUME LInv, [Next]_vars, NEW r \in lease'
  PROVE  /\ r \in Run /\ PlanningOver(r)
         /\ r \in lease \/ (state[r] \in Ended => Attended(r)')
<1>1. /\ TypeOK /\ \A q \in lease : PlanningOver(q)
  BY DEF LInv, EInv, IInv
<1>2. CASE r \in lease
  BY <1>1, <1>2 DEF TypeOK
<1>3. CASE r \notin lease
  <2>1. PICK q \in Run : /\ EnsureLease(q) /\ PlanningOver(q)
                         /\ state[q] \in Ended => \E w \in Handler : h'[w].run = q
    BY <1>3, NextLocks DEF LockStep, locks, ResumeAndRelease, Expire, RenewFail
  <2>2. q = r
    BY <1>3, <2>1 DEF EnsureLease
  <2>3. QED
    BY <2>1, <2>2 DEF Attended
<1>4. QED
  BY <1>2, <1>3

LEMMA GivenBackKept ==
  ASSUME LInv, [Next]_vars, NEW r \in Run
  PROVE  GivenBack(r)'
<1>1. SUFFICES ASSUME state'[r] \in Ended, r \in lease' PROVE Attended(r)'
  BY DEF GivenBack
<1>2. CASE state[r] \notin Ended
  <2>1. \E w \in Handler : h'[w].run = r
    BY <1>1, <1>2, EndsAttended, TakenAfterPlanning
  <2>2. QED
    BY <2>1 DEF Attended
<1>3. CASE state[r] \in Ended /\ r \in lease
  <2>1. Attended(r)
    BY <1>3 DEF LInv, GivenBack
  <2>2. QED
    BY <1>1, <1>3, <2>1, AttendedStays
<1>4. CASE state[r] \in Ended /\ r \notin lease
  BY <1>1, <1>4, TakenAfterPlanning
<1>5. QED
  BY <1>2, <1>3, <1>4

LEMMA LeasesInit == Init => LInv
<1>1. SUFFICES ASSUME Init PROVE LInv
  OBVIOUS
<1>2. EInv
  BY <1>1, EvidenceInit
<1>3. FaultInv
  BY <1>1 DEF Init, FaultInv
<1>4. \A r \in Run : mu.run = r => MutexOf(r)
  BY <1>1, NoRunAssumption DEF Init, Free
<1>5. Containment
  BY <1>1 DEF Init, Containment, Unfinished, CanceledAction, RequiresJournal
<1>6. \A r \in Run : GivenBack(r)
  BY <1>1 DEF Init, GivenBack, Ended, Terminal
<1>7. QED
  BY <1>1, <1>2, <1>3, <1>4, <1>5, <1>6 DEF Init, LInv

LEMMA LeasesKept ==
  ASSUME LInv, [Next]_vars
  PROVE  LInv'
<1>1. EInv /\ IInv
  BY DEF LInv, EInv
<1>2. EInv'
  BY <1>1, EvidenceKept
<1>3. FaultInv'
  BY FaultInvKept
<1>4. \A r \in Run : mu'.run = r => MutexOf(r)'
  BY MutexKept
<1>5. \A r \in lease' : PlanningOver(r)'
  <2>1. \A r \in lease' : r \in Run /\ PlanningOver(r)
    BY TakenAfterPlanning
  <2>2. Stable
    BY <1>1, NextKept
  <2>3. QED
    BY <2>1, <2>2, TaskTypes DEF Stable, PlanningOver
<1>6. Containment'
  BY ContainmentKept
<1>7. \A r \in Run : GivenBack(r)'
  BY GivenBackKept
<1>8. QED
  BY <1>2, <1>3, <1>4, <1>5, <1>6, <1>7 DEF LInv

\* Who holds a lease, and who will give it back, in every reachable state.
THEOREM LeaseInvariance == Spec => []LInv
<1>1. Init => LInv
  BY LeasesInit
<1>2. LInv /\ [Next]_vars => LInv'
  BY LeasesKept
<1>3. QED
  BY <1>1, <1>2, PTL DEF Spec

-----------------------------------------------------------------------------
(* The theorems.                                                           *)

\* From its confirmation to its end a run holds its lease, supervised, and so
\* does one that is left for reconciliation, as long as no process was lost and
\* no renewal failed (product_workflow.go, releaseLeaseIfBoundTaskConverged).
THEOREM LeaseIsKept == Spec => []Containment
<1>1. LInv => Containment
  BY DEF LInv
<1>2. QED
  BY <1>1, LeaseInvariance, PTL

LEMMA QuietIsUnattended ==
  ASSUME LInv
  PROVE  LeaseGivenBack
<1>1. \A r \in Run : Quiet(r) => ~Attended(r)
  BY DEF Quiet, Attended
<1>2. QED
  BY <1>1 DEF LInv, GivenBack, LeaseGivenBack, Ended

\* When every request about a run that ended was answered without an error, it
\* holds no lease: a handler that released nothing left somebody who will.
THEOREM EndedRunsHoldNoLease == Spec => []LeaseGivenBack
<1>1. LInv => LeaseGivenBack
  BY QuietIsUnattended
<1>2. QED
  BY <1>1, LeaseInvariance, PTL

LEMMA MutatorsHoldLeases ==
  ASSUME LInv, LeaseSound, NEW r \in Run, NEW t \in ActionTask, <<r, t>> \in mutating
  PROVE  r \in lease
<1>1. /\ TypeOK /\ NodeInv /\ OneLiveAction /\ Containment /\ Evidence(r) /\ StateInv(r)
  BY DEF LInv, EInv, IInv
<1>2. phase[r][t] \in LivePhase /\ t \in Task /\ t # Planning
  BY <1>1, TaskTypes DEF NodeInv, Held, LivePhase
<1>3. bound[r] = t
  BY <1>1, <1>2 DEF OneLiveAction
<1>4. state[r] \notin Ended
  BY <1>1, <1>2, <1>3 DEF StateInv, LivePhase, TerminalPhase
<1>5. state[r] \notin Unconfirmed
  BY <1>1, <1>2, <1>3 DEF StateInv
<1>6. state[r] \in State
  BY <1>1 DEF TypeOK
<1>7. Unfinished(r)
  BY <1>2, <1>3, <1>4, <1>5, <1>6
     DEF Unfinished, CanceledAction, Ended, Terminal, Unconfirmed, RequiresJournal, State
<1>8. QED
  BY <1>1, <1>7 DEF Containment

\* Two runs that share a target never change their nodes at the same time.
THEOREM NodesAreExclusive == Spec => []MutualExclusion
<1>1. LInv /\ LS!Exclusive => MutualExclusion
  <2>1. SUFFICES ASSUME LInv, LS!Exclusive, LeaseSound, NEW r \in Run, NEW q \in Run, Contends(r, q),
                        NEW t \in ActionTask, <<r, t>> \in mutating,
                        NEW u \in ActionTask, <<q, u>> \in mutating
                 PROVE  FALSE
    BY DEF MutualExclusion
  <2>2. r \in lease /\ q \in lease
    BY <2>1, MutatorsHoldLeases
  <2>3. QED
    BY <2>1, <2>2 DEF LS!Exclusive, LS!Contends, Contends
<1>2. QED
  BY <1>1, LeaseInvariance, LeasesExclude, PTL
=============================================================================
