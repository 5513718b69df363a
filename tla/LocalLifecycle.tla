---------------------------- MODULE LocalLifecycle ----------------------------
(***************************************************************************)
(* The coordinator that carries an operation out in one process, from its  *)
(* preparation to a settled end: it takes the lease of the target, keeps   *)
(* it renewed by a goroutine, has a restore point made, applies, verifies, *)
(* and rolls back on its own when something went wrong. Each state is in   *)
(* the journal before it is acted on. Runs contend for one target; calls   *)
(* are canceled, renewals and journal entries fail, processes stall.       *)
(***************************************************************************)
EXTENDS OperationState

CONSTANTS
  Run,
  Base,        \* what the target holds before any run
  MaxFailures  \* bound: failing calls, refused entries and stalls

ASSUME BaseAssumption == Base \notin Run
ASSUME FaultAssumption == MaxFailures \in Nat

VARIABLES
  pc,       \* where the call that drives the run is
  state,    \* the state it is in: that of the last entry of its journal
  memo,     \* what the call remembers
  canceled, \* the caller's context is canceled
  lease,    \* the row of operation_leases the run owns
  loop,     \* the goroutine that renews it
  session,  \* what the call and the goroutine share
  value,    \* what the target holds: the run that changed it last
  faults    \* faults that may still happen

lifecycleVars == <<pc, state, memo, canceled, lease, loop, session, value, faults>>

-----------------------------------------------------------------------------

Pc == {"new", "discover", "precheck", "plan", "impact", "prepared", "queued", "lock",
       "acquire", "cover", "leased", "restore", "prove", "proved", "sound", "go",
       "apply", "write", "wrote", "applied", "accept", "verify", "verified", "rollback",
       "announce", "undo", "restoring", "undone", "restored", "stop", "release",
       "settle", "returned"}

\* point: content of the restore point; failed: the last call failed;
\* cut: it failed because the lease was lost; goal and fallback: the state to
\* settle in, and the one if the lease cannot be given back.
NoMemo == [point |-> Base, failed |-> FALSE, cut |-> FALSE, goal |-> "draft",
           fallback |-> "draft"]

LifecycleTypes ==
  /\ pc \in [Run -> Pc]
  /\ state \in [Run -> State]
  /\ memo \in [Run -> [point : Run \union {Base}, failed : BOOLEAN, cut : BOOLEAN,
                       goal : State, fallback : State]]
  /\ canceled \in [Run -> BOOLEAN]
  /\ lease \in [Run -> {"none", "held", "expired"}]
  /\ loop \in [Run -> {"off", "wait", "renew", "failed", "ended"}]
  /\ session \in [Run -> [err : BOOLEAN, lost : BOOLEAN, stop : BOOLEAN]]
  /\ value \in Run \union {Base}
  /\ faults \in 0 .. MaxFailures

LifecycleInit ==
  /\ pc = [r \in Run |-> "new"] /\ state = [r \in Run |-> "draft"]
  /\ memo = [r \in Run |-> NoMemo] /\ canceled = [r \in Run |-> FALSE]
  /\ lease = [r \in Run |-> "none"] /\ loop = [r \in Run |-> "off"]
  /\ session = [r \in Run |-> [err |-> FALSE, lost |-> FALSE, stop |-> FALSE]]
  /\ value = Base /\ faults = MaxFailures

-----------------------------------------------------------------------------
(* Parts of the steps.                                                     *)

FaultHappens == faults > 0 /\ faults' = faults - 1
GoesTo(r, p) == pc' = [pc EXCEPT ![r] = p]
Remember(r, m) == memo' = [memo EXCEPT ![r] = m]
world == <<lease, loop, session, value>>

\* advance: the run is in the next state only once the journal has the entry.
Recorded(r, to, p) ==
  /\ CanTransition(state[r], to)
  /\ state' = [state EXCEPT ![r] = to]
  /\ GoesTo(r, p)
  /\ faults' = faults

\* The store refuses an entry under a canceled context, or fails.
Unrecorded(r, bound) ==
  /\ state' = state
  /\ IF bound /\ canceled[r] THEN faults' = faults ELSE FaultHappens

\* An entry written under the caller's context, and the call's next step ...
Advance(r, to, p) ==
  /\ ~canceled[r]
  /\ Recorded(r, to, p)

\* ... or it returns.
AdvanceOrReturn(r, to, p) ==
  \/ Advance(r, to, p)
  \/ Unrecorded(r, TRUE) /\ GoesTo(r, "returned")

\* An entry that closes a call, written whatever became of the context.
CloseWith(r, to) ==
  \/ Recorded(r, to, "returned")
  \/ ~CanTransition(state[r], to) /\ GoesTo(r, "returned") /\ UNCHANGED <<state, faults>>
  \/ CanTransition(state[r], to) /\ Unrecorded(r, FALSE) /\ GoesTo(r, "returned")

\* releaseLease comes next, and then the run settles.
EndWith(r, goal, fallback) ==
  /\ GoesTo(r, "stop")
  /\ Remember(r, [memo[r] EXCEPT !.goal = goal, !.fallback = fallback])

-----------------------------------------------------------------------------
(* Prepare.                                                                *)

prepareFailure(r) == CloseWith(r, IF canceled[r] THEN "interrupted" ELSE "blocked")

\* A call of the operation's definition that prepares the run: it answers and
\* the run goes on, or it says no, or it fails.
Prepare(r, from, next, p) ==
  /\ pc[r] = from
  /\ \/ AdvanceOrReturn(r, next, p)
     \/ from = "discover" /\ AdvanceOrReturn(r, "blocked", "returned")
     \/ from # "new" /\ prepareFailure(r)
  /\ UNCHANGED <<memo, canceled, world>>

Begin(r) == Prepare(r, "new", "discovering", "discover")
Discover(r) == Prepare(r, "discover", "prechecking", "precheck")
\* Precheck and then Plan, before there is anything new to record.
Precheck(r) ==
  /\ pc[r] = "precheck"
  /\ \/ GoesTo(r, "plan") /\ UNCHANGED <<state, faults>>
     \/ AdvanceOrReturn(r, "blocked", "returned")
     \/ prepareFailure(r)
  /\ UNCHANGED <<memo, canceled, world>>
Plan(r) == Prepare(r, "plan", "planned", "impact")
Impact(r) == Prepare(r, "impact", "awaiting_confirmation", "prepared")

-----------------------------------------------------------------------------
(* ExecuteConfirmed, up to the lease.                                      *)

\* The confirmation is a call of its own, under a context of its own.
ExecuteConfirmed(r) ==
  /\ pc[r] = "prepared"
  /\ canceled' = [canceled EXCEPT ![r] = FALSE]
  /\ \/ Recorded(r, "queued", "queued")
     \/ Unrecorded(r, FALSE) /\ GoesTo(r, "returned")
  /\ UNCHANGED <<memo, world>>

SeeContext(r) ==
  /\ pc[r] = "queued"
  /\ IF canceled[r] THEN CloseWith(r, "canceled_before_apply")
     ELSE GoesTo(r, "lock") /\ UNCHANGED <<state, faults>>
  /\ UNCHANGED <<memo, canceled, world>>

AnnounceLock(r) ==
  /\ pc[r] = "lock"
  /\ AdvanceOrReturn(r, "acquiring_lock", "acquire")
  /\ UNCHANGED <<memo, canceled, world>>

blockBeforeApply(r) == CloseWith(r, "blocked")

\* Acquire purges the leases that have run out; one that has not and is
\* another run's is in the way.
Busy(r) == \E q \in Run \ {r} : lease[q] = "held"
Acquire(r) ==
  /\ pc[r] = "acquire"
  /\ \/ /\ ~canceled[r] /\ ~Busy(r)
        /\ lease' = [q \in Run |-> IF q = r THEN "held"
                                   ELSE IF lease[q] = "expired" THEN "none" ELSE lease[q]]
        /\ GoesTo(r, "cover") /\ UNCHANGED <<state, faults>>
     \/ (canceled[r] \/ Busy(r)) /\ blockBeforeApply(r) /\ UNCHANGED lease
     \/ /\ FaultHappens /\ GoesTo(r, "returned") /\ UNCHANGED lease
        /\ state' = [state EXCEPT ![r] = "blocked"]
  /\ UNCHANGED <<memo, canceled, loop, session, value>>

\* ValidateLeaseCoverage: a lease that has run out meanwhile is given back.
Cover(r) ==
  /\ pc[r] = "cover"
  /\ IF lease[r] = "held"
     THEN /\ loop' = [loop EXCEPT ![r] = "wait"]
          /\ GoesTo(r, "leased") /\ UNCHANGED <<state, faults, lease>>
     ELSE /\ lease' = [lease EXCEPT ![r] = "none"] /\ loop' = loop
          /\ blockBeforeApply(r)
  /\ UNCHANGED <<memo, canceled, session, value>>

-----------------------------------------------------------------------------
(* The restore point.                                                      *)

\* finishPrewriteWithLease: what failed may or may not say that the caller
\* canceled.
Prewrite(r, interrupted) ==
  \E goal \in IF interrupted THEN {"interrupted"}
              ELSE {"blocked"} \union (IF canceled[r] THEN {"canceled_before_apply"} ELSE {}) :
    EndWith(r, goal, "interrupted")

AnnouncePoint(r) ==
  /\ pc[r] = "leased"
  /\ \/ Advance(r, "creating_restore_point", "restore") /\ UNCHANGED memo
     \/ Unrecorded(r, TRUE) /\ Prewrite(r, FALSE)
  /\ UNCHANGED <<canceled, world>>

CreatePoint(r) ==
  /\ pc[r] = "restore"
  /\ \/ /\ GoesTo(r, "prove") /\ Remember(r, [memo[r] EXCEPT !.point = value])
        /\ faults' = faults
     \/ (IF canceled[r] THEN faults' = faults ELSE FaultHappens) /\ Prewrite(r, FALSE)
  /\ UNCHANGED <<state, canceled, world>>

\* Verify, and ValidateRestorePoint.
ProvePoint(r) ==
  /\ pc[r] = "prove"
  /\ \/ GoesTo(r, "proved") /\ UNCHANGED <<memo, faults>>
     \/ (IF canceled[r] THEN faults' = faults ELSE FaultHappens) /\ Prewrite(r, FALSE)
  /\ UNCHANGED <<state, canceled, world>>

SeeLease(r) ==
  /\ pc[r] = "proved"
  /\ IF session[r].err THEN Prewrite(r, TRUE) ELSE GoesTo(r, "sound") /\ memo' = memo
  /\ UNCHANGED <<state, canceled, world, faults>>

SeeCancel(r) ==
  /\ pc[r] = "sound"
  /\ IF canceled[r] THEN Prewrite(r, FALSE) ELSE GoesTo(r, "go") /\ memo' = memo
  /\ UNCHANGED <<state, canceled, world, faults>>

AnnounceApply(r) ==
  /\ pc[r] = "go"
  /\ \/ Advance(r, "running", "apply") /\ UNCHANGED memo
     \/ Unrecorded(r, TRUE) /\ Prewrite(r, TRUE)
  /\ UNCHANGED <<canceled, world>>

-----------------------------------------------------------------------------
(* Apply and Verify run under a context that ends with the lease: the      *)
(* definition looks at the lease right before it changes the target.       *)

Interrupt(r) == EndWith(r, "interrupted", "interrupted")

\* The definition fails: its context ended, its lease ran out, or it just does.
Fails(r) ==
  /\ Remember(r, [memo[r] EXCEPT !.failed = TRUE, !.cut = @ \/ session[r].lost])
  /\ IF canceled[r] \/ session[r].lost \/ lease[r] # "held" THEN faults' = faults ELSE FaultHappens

ApplyValidates(r) ==
  /\ pc[r] = "apply"
  /\ lease[r] = "held"
  /\ GoesTo(r, "write")
  /\ UNCHANGED <<state, memo, canceled, world, faults>>

ApplyWrites(r) ==
  /\ pc[r] = "write"
  /\ value' = r
  /\ GoesTo(r, "wrote")
  /\ UNCHANGED <<state, memo, canceled, lease, loop, session, faults>>

ApplyReturns(r) ==
  /\ \/ pc[r] = "wrote" /\ UNCHANGED <<memo, faults>>
     \/ pc[r] \in {"apply", "write", "wrote"} /\ Fails(r)
  /\ GoesTo(r, "applied")
  /\ UNCHANGED <<state, canceled, world>>

\* Before anything is made of the result: is the lease still ours?
SeeApplied(r) ==
  /\ pc[r] = "applied"
  /\ IF session[r].err THEN Interrupt(r)
     ELSE GoesTo(r, IF memo[r].failed THEN "rollback" ELSE "accept") /\ memo' = memo
  /\ UNCHANGED <<state, canceled, world, faults>>

AnnounceVerify(r) ==
  /\ pc[r] = "accept"
  /\ \/ Recorded(r, "verifying", "verify")
     \/ Unrecorded(r, FALSE) /\ GoesTo(r, "rollback")
  /\ UNCHANGED <<memo, canceled, world>>

Verify(r) ==
  /\ pc[r] = "verify"
  /\ \/ value = r /\ UNCHANGED <<memo, faults>>
     \/ value # r /\ Remember(r, [memo[r] EXCEPT !.failed = TRUE]) /\ faults' = faults
     \/ Fails(r)
  /\ GoesTo(r, "verified")
  /\ UNCHANGED <<state, canceled, world>>

SeeVerified(r) ==
  /\ pc[r] = "verified"
  /\ IF session[r].err THEN Interrupt(r)
     ELSE IF memo[r].failed THEN GoesTo(r, "rollback") /\ memo' = memo
     ELSE EndWith(r, "succeeded", "interrupted")
  /\ UNCHANGED <<state, canceled, world, faults>>

-----------------------------------------------------------------------------
(* rollback: under a context of its own, which does not end with the lease.*)

SeeRollback(r) ==
  /\ pc[r] = "rollback"
  /\ IF session[r].err THEN Interrupt(r) ELSE GoesTo(r, "announce") /\ memo' = memo
  /\ UNCHANGED <<state, canceled, world, faults>>

\* When the entry is refused the call returns as it is, the lease with it.
AnnounceRollback(r) ==
  /\ pc[r] = "announce"
  /\ \/ Recorded(r, "rolling_back", "undo")
     \/ Unrecorded(r, FALSE) /\ GoesTo(r, "returned")
  /\ UNCHANGED <<memo, canceled, world>>

rollbackFailed(r) == EndWith(r, "rollback_failed", "rollback_failed")

RollbackValidates(r) ==
  /\ pc[r] = "undo"
  /\ lease[r] = "held"
  /\ GoesTo(r, "restoring")
  /\ UNCHANGED <<state, memo, canceled, world, faults>>

\* It undoes a change of its own, or returns without having done so.
RollbackWrites(r) ==
  /\ pc[r] = "restoring"
  /\ \/ value' = (IF value = r THEN memo[r].point ELSE value) /\ faults' = faults
     \/ value' = value /\ FaultHappens
  /\ GoesTo(r, "undone")
  /\ UNCHANGED <<state, memo, canceled, lease, loop, session>>

RollbackFails(r) ==
  /\ \/ pc[r] = "undo" /\ lease[r] # "held" /\ faults' = faults
     \/ pc[r] \in {"undo", "restoring", "undone"} /\ FaultHappens
  /\ rollbackFailed(r)
  /\ UNCHANGED <<state, canceled, world>>

\* VerifyRollback is the definition's own word for it.
VerifyRollback(r) ==
  /\ pc[r] = "undone"
  /\ GoesTo(r, "restored")
  /\ UNCHANGED <<state, memo, canceled, world, faults>>

\* The provider of the restore point compares the target with it.
VerifyRestored(r) ==
  /\ pc[r] = "restored"
  /\ \/ /\ value = memo[r].point /\ faults' = faults
        /\ EndWith(r, "rolled_back", "interrupted")
     \/ /\ IF value = memo[r].point THEN FaultHappens ELSE faults' = faults
        /\ rollbackFailed(r)
  /\ UNCHANGED <<state, canceled, world>>

-----------------------------------------------------------------------------
(* releaseLease: stop the goroutine, wait for it, delete the row.          *)

\* A mistake the properties must catch: the goroutine is not told.
Stop_Silently(r) ==
  /\ pc[r] = "stop"
  /\ GoesTo(r, "release")
  /\ UNCHANGED <<state, memo, canceled, world, faults>>

Stop(r) ==
  /\ pc[r] = "stop"
  /\ session' = [session EXCEPT ![r].stop = TRUE]
  /\ GoesTo(r, "release")
  /\ UNCHANGED <<state, memo, canceled, lease, loop, value, faults>>

\* A lease that is gone counts as given back.
releaseLease(r) ==
  /\ pc[r] = "release" /\ loop[r] = "ended"
  /\ \/ lease' = [lease EXCEPT ![r] = "none"] /\ UNCHANGED <<memo, faults>>
     \/ /\ lease' = lease /\ FaultHappens
        /\ Remember(r, [memo[r] EXCEPT !.goal = memo[r].fallback])
  /\ GoesTo(r, "settle")
  /\ UNCHANGED <<state, canceled, loop, session, value>>

Settle(r) ==
  /\ pc[r] = "settle"
  /\ CloseWith(r, memo[r].goal)
  /\ UNCHANGED <<memo, canceled, world>>

-----------------------------------------------------------------------------
(* renewLoop, and the world around the calls.                              *)

Tick(r) ==
  /\ loop[r] = "wait"
  /\ loop' = [loop EXCEPT ![r] = "renew"]
  /\ UNCHANGED <<pc, state, memo, canceled, lease, session, value, faults>>

StopLoop(r) ==
  /\ loop[r] = "wait" /\ session[r].stop
  /\ loop' = [loop EXCEPT ![r] = "ended"]
  /\ UNCHANGED <<pc, state, memo, canceled, lease, session, value, faults>>

Renew(r) ==
  /\ loop[r] = "renew" /\ lease[r] = "held"
  /\ loop' = [loop EXCEPT ![r] = "wait"]
  /\ UNCHANGED <<pc, state, memo, canceled, lease, session, value, faults>>

\* A mistake the properties must catch: the contexts of the operation end
\* before the session says why.
RenewFails_LostFirst(r) ==
  /\ loop[r] = "renew"
  /\ IF lease[r] = "held" THEN FaultHappens ELSE faults' = faults
  /\ loop' = [loop EXCEPT ![r] = "failed"]
  /\ session' = [session EXCEPT ![r].lost = TRUE]
  /\ UNCHANGED <<pc, state, memo, canceled, lease, value>>

RenewFails(r) ==
  /\ loop[r] = "renew"
  /\ IF lease[r] = "held" THEN FaultHappens ELSE faults' = faults
  /\ loop' = [loop EXCEPT ![r] = "failed"]
  /\ session' = [session EXCEPT ![r].err = TRUE]
  /\ UNCHANGED <<pc, state, memo, canceled, lease, value>>

CloseLost(r) ==
  /\ loop[r] = "failed"
  /\ loop' = [loop EXCEPT ![r] = "ended"]
  /\ session' = [session EXCEPT ![r].err = TRUE, ![r].lost = TRUE]
  /\ UNCHANGED <<pc, state, memo, canceled, lease, value, faults>>

\* A lease nobody renews runs out; so does one whose process stalls.
Expire(r) ==
  /\ lease[r] = "held"
  /\ IF loop[r] = "ended" THEN faults' = faults ELSE FaultHappens
  /\ lease' = [lease EXCEPT ![r] = "expired"]
  /\ UNCHANGED <<pc, state, memo, canceled, loop, session, value>>

\* The caller gives up.
Cancel(r) ==
  /\ ~canceled[r] /\ pc[r] \notin {"prepared", "returned"}
  /\ FaultHappens
  /\ canceled' = [canceled EXCEPT ![r] = TRUE]
  /\ UNCHANGED <<pc, state, memo, world>>

Drive(r) ==
  \/ Begin(r) \/ Discover(r) \/ Precheck(r) \/ Plan(r) \/ Impact(r)
  \/ ExecuteConfirmed(r) \/ SeeContext(r) \/ AnnounceLock(r) \/ Acquire(r) \/ Cover(r)
  \/ AnnouncePoint(r) \/ CreatePoint(r) \/ ProvePoint(r) \/ SeeLease(r) \/ SeeCancel(r)
  \/ AnnounceApply(r) \/ ApplyValidates(r) \/ ApplyWrites(r) \/ ApplyReturns(r)
  \/ SeeApplied(r) \/ AnnounceVerify(r) \/ Verify(r) \/ SeeVerified(r)
  \/ SeeRollback(r) \/ AnnounceRollback(r) \/ RollbackValidates(r) \/ RollbackWrites(r)
  \/ RollbackFails(r) \/ VerifyRollback(r) \/ VerifyRestored(r)
  \/ Stop(r) \/ releaseLease(r) \/ Settle(r)

renewLoop(r) == Tick(r) \/ StopLoop(r) \/ Renew(r) \/ RenewFails(r) \/ CloseLost(r)

LifecycleNext == \E r \in Run : Drive(r) \/ renewLoop(r) \/ Expire(r) \/ Cancel(r)

LifecycleSpec == LifecycleInit /\ [][LifecycleNext]_lifecycleVars

\* Calls come to an end. A select that finds both the tick and the order to
\* stop ready takes either of them, so the order is seen in the end. A lease
\* nobody renews runs out with time alone.
Fairness ==
  \A r \in Run :
    /\ WF_lifecycleVars(Drive(r)) /\ WF_lifecycleVars(renewLoop(r))
    /\ SF_lifecycleVars(StopLoop(r))
    /\ WF_lifecycleVars(loop[r] = "ended" /\ Expire(r))

FairSpec == LifecycleSpec /\ Fairness

-----------------------------------------------------------------------------

\* A run that is recorded as blocked or canceled before its apply has left
\* nothing on the target, for no change precedes a proved restore point; and an
\* undone change was looked for after it was undone (lifecycle.go, the two
\* verifications of rollback). It comes back only if another run, to which the
\* lease had gone meanwhile, made its own restore point of it and was rolled
\* back to that.
Undone ==
  \A r \in Run : value = r =>
    /\ state[r] \notin {"blocked", "canceled_before_apply"}
    /\ state[r] = "rolled_back" =>
         \E q \in Run \ {r} :
           /\ memo[q].point = r
           /\ state[q] \in {"rolling_back", "rolled_back", "rollback_failed", "interrupted"}

\* "lock ownership became uncertain after write started; automated writes
\* stopped" (lifecycle.go, interruptAfterWrite): a run whose apply or
\* verification was cut off because the lease was lost neither rolls back nor
\* succeeds.
AutomatedWritesStop ==
  \A r \in Run : memo[r].cut => state[r] \in {"running", "verifying", "interrupted"}

\* How a local run ends is backed by the target, and no automated write comes
\* after its lease is known to be lost (lifecycle.go, rollback and
\* interruptAfterWrite).
EndIsBacked == LifecycleTypes /\ Undone /\ AutomatedWritesStop

\* A confirmed run is driven to the end of its call, past the renewal that is
\* under way when the goroutine is told to stop, and its lease comes free,
\* given back or run out; unless the call could not record that it rolls back
\* (AnnounceRollback), after which the goroutine goes on.
ReturnsTheLease ==
  \A r \in Run :
    pc[r] = "queued" ~>
      pc[r] = "returned" /\ (lease[r] # "held" \/ state[r] \in {"running", "verifying"})
=============================================================================
