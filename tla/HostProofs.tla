------------------------------ MODULE HostProofs ------------------------------
(***************************************************************************)
(* What goes on around one host.  An agent enrolls: no rotation locks it   *)
(* out, what an operator revokes stays out, a retired node is not seen     *)
(* again, and an Apply leaves no token behind.  A local run changes the    *)
(* host: how the run ends is backed by what the host holds, and nothing is *)
(* written once its lease is known to be lost.  For any installations,     *)
(* credentials, runs, faults and acts of operators.                        *)
(***************************************************************************)
EXTENDS LocalLifecycle, NodeEnrollment, SequenceTheorems, TLAPS

(***************************************************************************)
(* The local run.                                                          *)
(***************************************************************************)

CallMemo == [point : Run \union {Base}, failed : BOOLEAN, cut : BOOLEAN, goal : State,
         fallback : State]

\* States of a run that may have changed the target, and of one rolled back.
Changed == {"running", "verifying", "succeeded", "failed", "interrupted", "rolling_back",
            "rolled_back", "rollback_failed"}
Rolling == {"rolling_back", "rolled_back", "rollback_failed", "interrupted"}
Closing == {"stop", "release", "settle"}

\* The state a run is in while its call is at p.
StateFits(p, s) ==
  /\ p = "new" => s = "draft"
  /\ p = "discover" => s = "discovering"
  /\ p \in {"precheck", "plan"} => s = "prechecking"
  /\ p = "impact" => s = "planned"
  /\ p = "prepared" => s = "awaiting_confirmation"
  /\ p \in {"queued", "lock"} => s = "queued"
  /\ p \in {"acquire", "cover", "leased"} => s = "acquiring_lock"
  /\ p \in {"restore", "prove", "proved", "sound", "go"} => s = "creating_restore_point"
  /\ p \in {"apply", "write", "wrote", "applied", "accept"} => s = "running"
  /\ p \in {"verify", "verified"} => s = "verifying"
  /\ p \in {"rollback", "announce"} => s \in {"running", "verifying"}
  /\ p \in {"undo", "restoring", "undone", "restored"} => s = "rolling_back"

\* The states a run that is closed may settle in.
EndFits(s, goal) ==
  \/ s \in {"acquiring_lock", "creating_restore_point"} /\ goal \in PreApplyExit
  \/ s \in {"running", "verifying"} /\ goal \in {"interrupted", "succeeded"}
  \/ s = "rolling_back" /\ goal \in {"rolled_back", "rollback_failed", "interrupted"}

\* A call that was cut off because its lease was lost knows, and gives up.
CutFits(p, s, m, err) ==
  m.cut => /\ err
           /\ p \in {"applied", "verified", "returned"} \union Closing
           /\ s \in {"running", "verifying", "interrupted"}
           /\ p \in Closing => m.goal = "interrupted" /\ m.fallback = "interrupted"

LineFits(p, s, m, err) ==
  /\ StateFits(p, s)
  /\ p \in Closing => /\ EndFits(s, m.goal) /\ EndFits(s, m.fallback)
                     /\ m.fallback # "rolled_back"
  /\ CutFits(p, s, m, err)

\* The change is said to be undone, or about to be.
SaidUndone(p, s, m) == s = "rolled_back" \/ (p \in Closing /\ m.goal = "rolled_back")

ReplacedBy(r) == {q \in Run \ {r} : memo[q].point = r}

\* What is so of a run; s stands for its state.
TargetFits(r) ==
  /\ memo[r].point # r
  /\ value = r \/ ReplacedBy(r) # {} => state[r] \in Changed
  /\ SaidUndone(pc[r], state[r], memo[r]) /\ value = r
       => \E q \in ReplacedBy(r) : state[q] \in Rolling

LInv ==
  /\ LifecycleTypes
  /\ \A r \in Run : LineFits(pc[r], state[r], memo[r], session[r].err)
  /\ \A r \in Run : session[r].lost => session[r].err
  /\ \A r \in Run : TargetFits(r)

-----------------------------------------------------------------------------
(* Steps.                                                                  *)

\* A step of the call of r, in all but what it does to the target.
Moved(r, p, s, m) ==
  /\ pc' = [pc EXCEPT ![r] = p]
  /\ state' = [state EXCEPT ![r] = s]
  /\ memo' = [memo EXCEPT ![r] = m]

\* Where it may go.
Fits(r, p, s, m) ==
  /\ p \in Pc /\ s \in State /\ m \in CallMemo
  /\ LineFits(p, s, m, session[r].err)
  /\ state[r] \in Changed => s \in Changed
  /\ state[r] \in Rolling => s \in Rolling
  /\ m.point = memo[r].point \/ (m.point = value /\ state[r] \notin Changed)
  /\ SaidUndone(p, s, m) => SaidUndone(pc[r], state[r], memo[r]) \/ value # r

\* What a step of a call leaves alone, or changes within its type.
RestFits ==
  /\ canceled' \in [Run -> BOOLEAN]
  /\ lease' \in [Run -> {"none", "held", "expired"}]
  /\ loop' \in [Run -> {"off", "wait", "renew", "failed", "ended"}]
  /\ session' \in [Run -> [err : BOOLEAN, lost : BOOLEAN, stop : BOOLEAN]]
  /\ faults' \in 0 .. MaxFailures
  /\ \A r \in Run : /\ session[r].err => session'[r].err
                    /\ session'[r].lost => session'[r].err

LEMMA CallMoves ==
  ASSUME LInv, NEW r \in Run, NEW p, NEW s, NEW m,
         Moved(r, p, s, m), Fits(r, p, s, m), RestFits, value' = value
  PROVE  LInv'
<1>1. /\ pc \in [Run -> Pc] /\ state \in [Run -> State] /\ memo \in [Run -> CallMemo]
      /\ value \in Run \union {Base}
  BY DEF LInv, LifecycleTypes, CallMemo
<1>2. /\ p \in Pc /\ s \in State /\ m \in CallMemo
  BY DEF Fits
<1>3. /\ \A q \in Run : pc'[q] = IF q = r THEN p ELSE pc[q]
      /\ \A q \in Run : state'[q] = IF q = r THEN s ELSE state[q]
      /\ \A q \in Run : memo'[q] = IF q = r THEN m ELSE memo[q]
  BY <1>1 DEF Moved
<1>4. LifecycleTypes'
  BY <1>1, <1>2 DEF Moved, RestFits, LifecycleTypes, CallMemo
<1>5. ASSUME NEW q \in Run
      PROVE  LineFits(pc'[q], state'[q], memo'[q], session'[q].err)
  <2>1. LineFits(pc'[q], state'[q], memo'[q], session[q].err)
    BY <1>3 DEF LInv, Fits
  <2>2. session[q].err => session'[q].err
    BY DEF RestFits
  <2>3. QED
    BY <2>1, <2>2 DEF LineFits, CutFits
<1>6. m.point # r
  BY BaseAssumption DEF Fits, LInv, TargetFits
<1>7. ASSUME NEW q \in Run
      PROVE  TargetFits(q)'
  <2>1. memo'[q].point # q
    BY <1>3, <1>6 DEF LInv, TargetFits
  <2>2. TargetFits(q) /\ TargetFits(r)
    BY DEF LInv
  <2>3. \A k \in Run \ {q} : memo'[k].point = q => k \in ReplacedBy(q) \/ value = q
    BY <1>3 DEF Fits, ReplacedBy
  <2>4. ReplacedBy(q)' # {} => ReplacedBy(q) # {} \/ value = q
    BY <2>3 DEF ReplacedBy
  <2>5. value' = q \/ ReplacedBy(q)' # {} => state[q] \in Changed
    BY <2>2, <2>4 DEF TargetFits
  <2>6. value' = q \/ ReplacedBy(q)' # {} => state'[q] \in Changed
    BY <2>5, <1>3 DEF Fits
  <2>7. ASSUME SaidUndone(pc'[q], state'[q], memo'[q]), value = q
        PROVE  \E k \in ReplacedBy(q)' : state'[k] \in Rolling
    <3>1. SaidUndone(pc[q], state[q], memo[q])
      BY <2>7, <1>3 DEF Fits
    <3>2. PICK k \in ReplacedBy(q) : state[k] \in Rolling
      BY <2>2, <2>7, <3>1 DEF TargetFits
    <3>3. state'[k] \in Rolling
      BY <3>2, <1>3 DEF Fits, ReplacedBy
    <3>4. memo'[k].point = q
      BY <3>2, <1>3 DEF Fits, ReplacedBy, Rolling, Changed
    <3>5. QED
      BY <3>2, <3>3, <3>4 DEF ReplacedBy
  <2>8. QED
    BY <2>1, <2>6, <2>7 DEF TargetFits
<1>8. QED
  BY <1>4, <1>5, <1>7 DEF LInv, RestFits


-----------------------------------------------------------------------------
(* The parts of the steps.                                                 *)

LEMMA Local ==
  ASSUME LInv, NEW r \in Run
  PROVE  /\ pc[r] \in Pc /\ state[r] \in State /\ memo[r] \in CallMemo
         /\ canceled[r] \in BOOLEAN /\ faults \in 0 .. MaxFailures
         /\ LineFits(pc[r], state[r], memo[r], session[r].err)
         /\ state = [state EXCEPT ![r] = state[r]]
         /\ memo = [memo EXCEPT ![r] = memo[r]]
<1>1. pc \in [Run -> Pc] /\ state \in [Run -> State] /\ memo \in [Run -> CallMemo]
  BY DEF LInv, LifecycleTypes, CallMemo
<1>2. state = [state EXCEPT ![r] = state[r]] /\ memo = [memo EXCEPT ![r] = memo[r]]
  BY <1>1
<1>3. QED
  BY <1>1, <1>2 DEF LInv, LifecycleTypes

LEMMA FaultBound == LInv /\ (FaultHappens \/ faults' = faults) => faults' \in 0 .. MaxFailures
BY FaultAssumption DEF LInv, LifecycleTypes, FaultHappens

LEMMA RestStays ==
  LInv /\ UNCHANGED <<canceled, lease, loop, session>> /\ faults' \in 0 .. MaxFailures => RestFits
BY DEF LInv, LifecycleTypes, RestFits

\* A call can always return as things are.
LEMMA MayReturn == ASSUME LInv, NEW r \in Run PROVE Fits(r, "returned", state[r], memo[r])
<1>1. LineFits("returned", state[r], memo[r], session[r].err)
  BY Local DEF LineFits, StateFits, CutFits, Closing
<1>2. QED
  BY <1>1, Local DEF Fits, Pc, SaidUndone, Closing

LEMMA Steady ==
  ASSUME LInv, NEW r \in Run, NEW p, GoesTo(r, p), UNCHANGED <<state, memo>>
  PROVE  Moved(r, p, state[r], memo[r])
BY Local DEF GoesTo, Moved

LEMMA RecordedMoves ==
  ASSUME LInv, NEW r \in Run, NEW to, NEW p, Recorded(r, to, p), memo' = memo
  PROVE  Moved(r, p, to, memo[r]) /\ faults' \in 0 .. MaxFailures
BY Local DEF Recorded, GoesTo, Moved

LEMMA UnrecordedStays ==
  ASSUME LInv, NEW r \in Run, NEW bound, Unrecorded(r, bound)
  PROVE  state' = state /\ faults' \in 0 .. MaxFailures
BY FaultBound DEF Unrecorded

LEMMA AdvanceKeeps ==
  ASSUME LInv, NEW r \in Run, NEW to, NEW p, AdvanceOrReturn(r, to, p),
         Fits(r, p, to, memo[r]), UNCHANGED <<memo, canceled, world>>
  PROVE  LInv'
<1>1. UNCHANGED <<memo, value, canceled, lease, loop, session>>
  BY DEF world
<1>2. CASE Advance(r, to, p)
  <2>1. Moved(r, p, to, memo[r]) /\ faults' \in 0 .. MaxFailures
    BY <1>1, <1>2, RecordedMoves DEF Advance
  <2>2. QED
    BY <1>1, <2>1, RestStays, CallMoves
<1>3. CASE Unrecorded(r, TRUE) /\ GoesTo(r, "returned")
  <2>1. state' = state /\ faults' \in 0 .. MaxFailures
    BY <1>3, UnrecordedStays
  <2>2. Moved(r, "returned", state[r], memo[r])
    BY <1>1, <1>3, <2>1, Steady
  <2>3. QED
    BY <1>1, <2>1, <2>2, MayReturn, RestStays, CallMoves
<1>4. QED
  BY <1>2, <1>3 DEF AdvanceOrReturn

LEMMA CloseKeeps ==
  ASSUME LInv, NEW r \in Run, NEW to, CloseWith(r, to), UNCHANGED <<memo, canceled, value, lease, loop, session>>,
         Fits(r, "returned", to, memo[r])
  PROVE  LInv'
<1>1. CASE Recorded(r, to, "returned")
  <2>1. Moved(r, "returned", to, memo[r]) /\ faults' \in 0 .. MaxFailures
    BY <1>1, RecordedMoves
  <2>2. QED
    BY <2>1, RestStays, CallMoves
<1>2. CASE ~ Recorded(r, to, "returned")
  <2>1. GoesTo(r, "returned") /\ state' = state /\ faults' \in 0 .. MaxFailures
    BY <1>2, UnrecordedStays, Local DEF CloseWith
  <2>2. Moved(r, "returned", state[r], memo[r])
    BY <2>1, Steady
  <2>3. QED
    BY <2>1, <2>2, MayReturn, RestStays, CallMoves
<1>3. QED
  BY <1>1, <1>2

-----------------------------------------------------------------------------
(* Up to the restore point: the target is left alone, and nobody has seen  *)
(* a change of the run there.                                              *)

\* Nothing has failed yet, and the run may go to any state before its apply.
LEMMA EarlyFits ==
  ASSUME LInv, NEW r \in Run, NEW p \in Pc \ Closing, NEW s \in State,
         pc[r] \in {"new", "discover", "precheck", "plan", "impact", "prepared", "queued",
                    "lock", "acquire", "cover", "leased", "restore", "prove", "proved",
                    "sound", "go"},
         StateFits(p, s), s # "rolled_back"
  PROVE  Fits(r, p, s, memo[r])
<1>1. /\ memo[r] \in CallMemo /\ ~memo[r].cut /\ state[r] \notin Changed
  BY Local DEF LineFits, StateFits, CutFits, Changed, Closing, CallMemo
<1>2. LineFits(p, s, memo[r], session[r].err)
  BY <1>1 DEF LineFits, CutFits
<1>3. QED
  BY <1>1, <1>2 DEF Fits, SaidUndone, Rolling, Changed

LEMMA PrepareSteps ==
  ASSUME LInv, NEW r \in Run,
         Begin(r) \/ Discover(r) \/ Precheck(r) \/ Plan(r) \/ Impact(r)
  PROVE  LInv'
<1>1. ASSUME NEW from \in {"new", "discover", "plan", "impact"}, NEW to, NEW p \in Pc \ Closing,
             Prepare(r, from, to, p), StateFits(p, to), to \in State, to # "rolled_back"
      PROVE  LInv'
  <2>1. pc[r] = from /\ UNCHANGED <<memo, canceled, world>>
    BY <1>1 DEF Prepare
  <2>2. Fits(r, p, to, memo[r])
    BY <1>1, <2>1, EarlyFits
  <2>3. \A s \in {"blocked", "interrupted"} : Fits(r, "returned", s, memo[r])
    BY <2>1, EarlyFits DEF StateFits, Pc, Closing, State
  <2>4. CASE AdvanceOrReturn(r, to, p)
    BY <2>1, <2>2, <2>4, AdvanceKeeps
  <2>5. CASE AdvanceOrReturn(r, "blocked", "returned")
    BY <2>1, <2>3, <2>5, AdvanceKeeps
  <2>6. CASE prepareFailure(r)
    BY <2>1, <2>3, <2>6, CloseKeeps DEF prepareFailure, world
  <2>7. QED
    BY <1>1, <2>4, <2>5, <2>6 DEF Prepare
<1>2. CASE Begin(r)
  BY <1>1, <1>2 DEF Begin, StateFits, Pc, Closing, State
<1>3. CASE Discover(r)
  BY <1>1, <1>3 DEF Discover, StateFits, Pc, Closing, State
<1>4. CASE Precheck(r)
  <2>1. pc[r] = "precheck" /\ UNCHANGED <<memo, canceled, world>> /\ state[r] = "prechecking"
    BY <1>4, Local DEF Precheck, LineFits, StateFits
  <2>2. \A s \in {"blocked", "interrupted"} : Fits(r, "returned", s, memo[r])
    BY <2>1, EarlyFits DEF StateFits, Pc, Closing, State
  <2>3. Fits(r, "plan", state[r], memo[r])
    BY <2>1, EarlyFits DEF StateFits, Pc, Closing, State
  <2>4. CASE GoesTo(r, "plan") /\ UNCHANGED <<state, faults>>
    <3>1. Moved(r, "plan", state[r], memo[r]) /\ faults' \in 0 .. MaxFailures
      BY <2>1, <2>4, Steady, Local
    <3>2. QED
      BY <2>1, <2>3, <3>1, RestStays, CallMoves DEF world
  <2>5. CASE AdvanceOrReturn(r, "blocked", "returned")
    BY <2>1, <2>2, <2>5, AdvanceKeeps
  <2>6. CASE prepareFailure(r)
    BY <2>1, <2>2, <2>6, CloseKeeps DEF prepareFailure, world
  <2>7. QED
    BY <1>4, <2>4, <2>5, <2>6 DEF Precheck
<1>5. CASE Plan(r)
  BY <1>1, <1>5 DEF Plan, StateFits, Pc, Closing, State
<1>6. CASE Impact(r)
  BY <1>1, <1>6 DEF Impact, StateFits, Pc, Closing, State
<1>7. QED
  BY <1>2, <1>3, <1>4, <1>5, <1>6


-----------------------------------------------------------------------------
(* Confirmation, lease and restore point.                                  *)

LEMMA LeaseSteps ==
  ASSUME LInv, NEW r \in Run,
         ExecuteConfirmed(r) \/ SeeContext(r) \/ AnnounceLock(r) \/ Acquire(r) \/ Cover(r)
  PROVE  LInv'
<1>1. CASE ExecuteConfirmed(r)
  <2>1. /\ pc[r] = "prepared" /\ canceled' = [canceled EXCEPT ![r] = FALSE]
        /\ UNCHANGED <<memo, lease, loop, session, value>>
    BY <1>1 DEF ExecuteConfirmed, world
  <2>2. Fits(r, "queued", "queued", memo[r])
    BY <2>1, EarlyFits DEF StateFits, Pc, Closing, State
  <2>3. canceled' \in [Run -> BOOLEAN]
    BY <2>1 DEF LInv, LifecycleTypes
  <2>4. faults' \in 0 .. MaxFailures => RestFits
    BY <2>1, <2>3 DEF LInv, LifecycleTypes, RestFits
  <2>5. CASE Recorded(r, "queued", "queued")
    BY <2>1, <2>2, <2>4, <2>5, RecordedMoves, CallMoves
  <2>6. CASE Unrecorded(r, FALSE) /\ GoesTo(r, "returned")
    BY <2>1, <2>4, <2>6, UnrecordedStays, Steady, MayReturn, CallMoves
  <2>7. QED
    BY <1>1, <2>5, <2>6 DEF ExecuteConfirmed
<1>2. CASE SeeContext(r)
  <2>1. pc[r] = "queued" /\ UNCHANGED <<memo, canceled, world>> /\ state[r] = "queued"
    BY <1>2, Local DEF SeeContext, LineFits, StateFits
  <2>2. Fits(r, "returned", "canceled_before_apply", memo[r]) /\ Fits(r, "lock", state[r], memo[r])
    BY <2>1, EarlyFits DEF StateFits, Pc, Closing, State
  <2>3. CASE CloseWith(r, "canceled_before_apply")
    BY <2>1, <2>2, <2>3, CloseKeeps DEF world
  <2>4. CASE GoesTo(r, "lock") /\ UNCHANGED <<state, faults>>
    <3>1. Moved(r, "lock", state[r], memo[r]) /\ faults' \in 0 .. MaxFailures
      BY <2>1, <2>4, Steady, Local
    <3>2. QED
      BY <2>1, <2>2, <3>1, RestStays, CallMoves DEF world
  <2>5. QED
    BY <1>2, <2>3, <2>4 DEF SeeContext
<1>3. CASE AnnounceLock(r)
  <2>1. pc[r] = "lock" /\ UNCHANGED <<memo, canceled, world>>
    BY <1>3 DEF AnnounceLock
  <2>2. Fits(r, "acquire", "acquiring_lock", memo[r])
    BY <2>1, EarlyFits DEF StateFits, Pc, Closing, State
  <2>3. QED
    BY <1>3, <2>1, <2>2, AdvanceKeeps DEF AnnounceLock
<1>4. CASE Acquire(r)
  <2>1. /\ pc[r] = "acquire" /\ state[r] = "acquiring_lock"
        /\ UNCHANGED <<memo, canceled, loop, session, value>>
    BY <1>4, Local DEF Acquire, LineFits, StateFits
  <2>2. Fits(r, "returned", "blocked", memo[r]) /\ Fits(r, "cover", state[r], memo[r])
    BY <2>1, EarlyFits DEF StateFits, Pc, Closing, State
  <2>3. CASE /\ lease' = [q \in Run |-> IF q = r THEN "held"
                                        ELSE IF lease[q] = "expired" THEN "none" ELSE lease[q]]
             /\ GoesTo(r, "cover") /\ UNCHANGED <<state, faults>>
    <3>1. Moved(r, "cover", state[r], memo[r]) /\ faults' \in 0 .. MaxFailures
      BY <2>1, <2>3, Steady, Local
    <3>2. lease' \in [Run -> {"none", "held", "expired"}]
      BY <2>3 DEF LInv, LifecycleTypes
    <3>3. RestFits
      BY <2>1, <3>1, <3>2 DEF LInv, LifecycleTypes, RestFits
    <3>4. QED
      BY <2>1, <2>2, <3>1, <3>3, CallMoves
  <2>4. CASE blockBeforeApply(r) /\ UNCHANGED lease
    BY <2>1, <2>2, <2>4, CloseKeeps DEF blockBeforeApply
  <2>5. CASE /\ FaultHappens /\ GoesTo(r, "returned") /\ UNCHANGED lease
             /\ state' = [state EXCEPT ![r] = "blocked"]
    <3>1. Moved(r, "returned", "blocked", memo[r]) /\ faults' \in 0 .. MaxFailures
      BY <2>1, <2>5, Local, FaultBound DEF GoesTo, Moved
    <3>2. QED
      BY <2>1, <2>2, <2>5, <3>1, RestStays, CallMoves
  <2>6. QED
    BY <1>4, <2>3, <2>4, <2>5 DEF Acquire
<1>5. CASE Cover(r)
  <2>1. /\ pc[r] = "cover" /\ state[r] = "acquiring_lock"
        /\ UNCHANGED <<memo, canceled, session, value>>
    BY <1>5, Local DEF Cover, LineFits, StateFits
  <2>2. Fits(r, "returned", "blocked", memo[r]) /\ Fits(r, "leased", state[r], memo[r])
    BY <2>1, EarlyFits DEF StateFits, Pc, Closing, State
  <2>3. /\ lease' \in [Run -> {"none", "held", "expired"}]
        /\ loop' \in [Run -> {"off", "wait", "renew", "failed", "ended"}]
    BY <1>5 DEF Cover, LInv, LifecycleTypes
  <2>4. faults' \in 0 .. MaxFailures => RestFits
    BY <2>1, <2>3 DEF LInv, LifecycleTypes, RestFits
  <2>5. CASE lease[r] = "held"
    <3>1. Moved(r, "leased", state[r], memo[r]) /\ faults' \in 0 .. MaxFailures
      BY <1>5, <2>1, <2>5, Steady, Local DEF Cover
    <3>2. QED
      BY <2>1, <2>2, <2>4, <3>1, CallMoves
  <2>6. CASE lease[r] # "held"
    <3>1. blockBeforeApply(r)
      BY <1>5, <2>6 DEF Cover
    <3>2. CASE Recorded(r, "blocked", "returned")
      BY <2>1, <2>2, <2>4, <3>2, RecordedMoves, CallMoves
    <3>3. CASE ~ Recorded(r, "blocked", "returned")
      <4>1. GoesTo(r, "returned") /\ state' = state /\ faults' \in 0 .. MaxFailures
        BY <3>1, <3>3, UnrecordedStays, Local DEF blockBeforeApply, CloseWith
      <4>2. QED
        BY <2>1, <2>4, <4>1, Steady, MayReturn, CallMoves
    <3>4. QED
      BY <3>2, <3>3
  <2>7. QED
    BY <2>5, <2>6
<1>6. QED
  BY <1>1, <1>2, <1>3, <1>4, <1>5


\* A call that was not cut off ends: its lease is given back, and it settles.
LEMMA EndKeeps ==
  ASSUME LInv, NEW r \in Run, NEW goal \in State, NEW fallback \in State,
         EndWith(r, goal, fallback), UNCHANGED <<state, canceled, world>>,
         faults' \in 0 .. MaxFailures,
         EndFits(state[r], goal), EndFits(state[r], fallback), fallback # "rolled_back",
         memo[r].cut => goal = "interrupted" /\ fallback = "interrupted",
         goal = "rolled_back" => value # r
  PROVE  LInv'
<1> DEFINE m == [memo[r] EXCEPT !.goal = goal, !.fallback = fallback]
<1>1. /\ memo[r] \in CallMemo /\ m \in CallMemo /\ m.point = memo[r].point /\ m.cut = memo[r].cut
      /\ m.goal = goal /\ m.fallback = fallback
  <2>1. memo[r] \in CallMemo
    BY Local
  <2>2. QED
    BY <2>1 DEF CallMemo
<1>2. Moved(r, "stop", state[r], m)
  BY Local DEF EndWith, GoesTo, Remember, Moved
<1>3. UNCHANGED <<canceled, lease, loop, session, value>>
  BY DEF world
<1> HIDE DEF m
<1>4. state[r] # "rolled_back"
  BY DEF EndFits
<1>5. CutFits("stop", state[r], m, session[r].err)
  BY <1>1, Local DEF LineFits, CutFits, Closing
<1>6. LineFits("stop", state[r], m, session[r].err)
  BY <1>1, <1>5 DEF LineFits, StateFits, Closing
<1>7. Fits(r, "stop", state[r], m)
  BY <1>1, <1>4, <1>6, Local DEF Fits, SaidUndone, Closing, Pc
<1>8. QED
  BY <1>2, <1>3, <1>7, RestStays, CallMoves

LEMMA PrewriteKeeps ==
  ASSUME LInv, NEW r \in Run, NEW interrupted \in BOOLEAN, Prewrite(r, interrupted),
         UNCHANGED <<state, canceled, world>>, faults' \in 0 .. MaxFailures,
         pc[r] \in {"leased", "restore", "prove", "proved", "sound", "go"}
  PROVE  LInv'
<1>1. PICK goal \in PreApplyExit : EndWith(r, goal, "interrupted")
  BY DEF Prewrite, PreApplyExit
<1>2. /\ state[r] \in {"acquiring_lock", "creating_restore_point"} /\ ~memo[r].cut
      /\ goal \in State /\ "interrupted" \in State
  BY Local DEF LineFits, StateFits, CutFits, Closing, PreApplyExit, State, CallMemo
<1>3. EndFits(state[r], goal) /\ EndFits(state[r], "interrupted") /\ goal # "rolled_back"
  BY <1>2 DEF EndFits, PreApplyExit
<1>4. QED
  BY <1>1, <1>2, <1>3, EndKeeps

LEMMA PointSteps ==
  ASSUME LInv, NEW r \in Run,
         \/ AnnouncePoint(r) \/ CreatePoint(r) \/ ProvePoint(r)
         \/ SeeLease(r) \/ SeeCancel(r) \/ AnnounceApply(r)
  PROVE  LInv'
<1>1. ASSUME NEW p \in {"prove", "proved", "sound", "go"}, GoesTo(r, p), UNCHANGED <<state, memo, canceled, world>>,
             faults' \in 0 .. MaxFailures, pc[r] \in {"restore", "prove", "proved", "sound"}
      PROVE  LInv'
  <2>1. state[r] = "creating_restore_point"
    BY <1>1, Local DEF LineFits, StateFits
  <2>2. Fits(r, p, state[r], memo[r])
    BY <1>1, <2>1, EarlyFits DEF StateFits, Pc, Closing, State
  <2>3. Moved(r, p, state[r], memo[r])
    BY <1>1, Steady
  <2>4. QED
    BY <1>1, <2>2, <2>3, RestStays, CallMoves DEF world
<1>2. ASSUME NEW to \in State, NEW p \in Pc \ Closing, Advance(r, to, p),
             UNCHANGED <<memo, canceled, world>>, Fits(r, p, to, memo[r])
      PROVE  LInv'
  BY <1>2, AdvanceKeeps DEF AdvanceOrReturn
<1>3. CASE AnnouncePoint(r)
  <2>1. pc[r] = "leased" /\ UNCHANGED <<canceled, world>>
    BY <1>3 DEF AnnouncePoint
  <2>2. Fits(r, "restore", "creating_restore_point", memo[r])
    BY <2>1, EarlyFits DEF StateFits, Pc, Closing, State
  <2>3. CASE Advance(r, "creating_restore_point", "restore") /\ UNCHANGED memo
    BY <1>2, <2>1, <2>2, <2>3 DEF Pc, Closing, State
  <2>4. CASE Unrecorded(r, TRUE) /\ Prewrite(r, FALSE)
    BY <2>1, <2>4, UnrecordedStays, PrewriteKeeps
  <2>5. QED
    BY <1>3, <2>3, <2>4 DEF AnnouncePoint
<1>4. CASE CreatePoint(r)
  <2>1. /\ pc[r] = "restore" /\ UNCHANGED <<state, canceled, world>>
        /\ faults' \in 0 .. MaxFailures
    BY <1>4, FaultBound DEF CreatePoint
  <2>2. CASE GoesTo(r, "prove") /\ Remember(r, [memo[r] EXCEPT !.point = value])
    <3> DEFINE m == [memo[r] EXCEPT !.point = value]
    <3>1. memo[r] \in CallMemo /\ ~memo[r].cut /\ state[r] = "creating_restore_point" /\ value \in Run \union {Base}
      BY <2>1, Local DEF LineFits, StateFits, CutFits, Closing, CallMemo, LInv, LifecycleTypes
    <3>2. m \in CallMemo /\ m.point = value /\ ~m.cut
      BY <3>1 DEF CallMemo
    <3>3. Moved(r, "prove", state[r], m)
      BY <2>1, <2>2, Local DEF GoesTo, Remember, Moved
    <3> HIDE DEF m
    <3>4. LineFits("prove", state[r], m, session[r].err)
      BY <3>1, <3>2 DEF LineFits, StateFits, CutFits, Closing
    <3>5. Fits(r, "prove", state[r], m)
      BY <3>1, <3>2, <3>4, Local DEF Fits, SaidUndone, Closing, Changed, Pc
    <3>6. QED
      BY <2>1, <3>3, <3>5, RestStays, CallMoves DEF world
  <2>3. CASE Prewrite(r, FALSE)
    BY <2>1, <2>3, PrewriteKeeps
  <2>4. QED
    BY <1>4, <2>2, <2>3 DEF CreatePoint
<1>5. CASE ProvePoint(r)
  <2>1. /\ pc[r] = "prove" /\ UNCHANGED <<state, canceled, world>>
        /\ faults' \in 0 .. MaxFailures
    BY <1>5, FaultBound DEF ProvePoint
  <2>2. CASE GoesTo(r, "proved") /\ UNCHANGED memo
    BY <1>1, <2>1, <2>2
  <2>3. CASE Prewrite(r, FALSE)
    BY <2>1, <2>3, PrewriteKeeps
  <2>4. QED
    BY <1>5, <2>2, <2>3 DEF ProvePoint
<1>6. CASE SeeLease(r)
  <2>1. /\ pc[r] = "proved" /\ UNCHANGED <<state, canceled, world>>
        /\ faults' \in 0 .. MaxFailures
    BY <1>6, FaultBound DEF SeeLease
  <2>2. CASE GoesTo(r, "sound") /\ UNCHANGED memo
    BY <1>1, <2>1, <2>2
  <2>3. CASE Prewrite(r, TRUE)
    BY <2>1, <2>3, PrewriteKeeps
  <2>4. QED
    BY <1>6, <2>2, <2>3 DEF SeeLease
<1>7. CASE SeeCancel(r)
  <2>1. /\ pc[r] = "sound" /\ UNCHANGED <<state, canceled, world>>
        /\ faults' \in 0 .. MaxFailures
    BY <1>7, FaultBound DEF SeeCancel
  <2>2. CASE GoesTo(r, "go") /\ UNCHANGED memo
    BY <1>1, <2>1, <2>2
  <2>3. CASE Prewrite(r, FALSE)
    BY <2>1, <2>3, PrewriteKeeps
  <2>4. QED
    BY <1>7, <2>2, <2>3 DEF SeeCancel
<1>8. CASE AnnounceApply(r)
  <2>1. pc[r] = "go" /\ UNCHANGED <<canceled, world>>
    BY <1>8 DEF AnnounceApply
  <2>2. Fits(r, "apply", "running", memo[r])
    BY <2>1, EarlyFits DEF StateFits, Pc, Closing, State
  <2>3. CASE Advance(r, "running", "apply") /\ UNCHANGED memo
    BY <1>2, <2>1, <2>2, <2>3 DEF Pc, Closing, State
  <2>4. CASE Unrecorded(r, TRUE) /\ Prewrite(r, TRUE)
    BY <2>1, <2>4, UnrecordedStays, PrewriteKeeps
  <2>5. QED
    BY <1>8, <2>3, <2>4 DEF AnnounceApply
<1>9. QED
  BY <1>3, <1>4, <1>5, <1>6, <1>7, <1>8


-----------------------------------------------------------------------------
(* Apply, verification and rollback.                                       *)

\* A call that goes on with its change, or with undoing it.
LEMMA LateFits ==
  ASSUME LInv, NEW r \in Run, NEW p \in Pc \ Closing, NEW s, NEW m \in CallMemo,
         state[r] \in {"running", "verifying", "rolling_back"}, StateFits(p, s),
         s \in {"running", "verifying", "rolling_back"},
         state[r] = "rolling_back" => s = "rolling_back",
         m.point = memo[r].point, CutFits(p, s, m, session[r].err)
  PROVE  Fits(r, p, s, m)
<1>1. LineFits(p, s, m, session[r].err)
  BY DEF LineFits
<1>2. QED
  BY <1>1 DEF Fits, SaidUndone, Rolling, Changed, State

LEMMA LateKeeps ==
  ASSUME LInv, NEW r \in Run, NEW p \in Pc \ Closing, GoesTo(r, p), UNCHANGED <<state, memo, canceled, world>>,
         faults' \in 0 .. MaxFailures, state[r] \in {"running", "verifying", "rolling_back"},
         StateFits(p, state[r]), ~memo[r].cut
  PROVE  LInv'
<1>1. Moved(r, p, state[r], memo[r])
  BY Steady
<1>2. Fits(r, p, state[r], memo[r])
  BY Local, LateFits DEF CutFits
<1>3. QED
  BY <1>1, <1>2, RestStays, CallMoves DEF world

\* What a call that has not been cut off is in.
LEMMA LateState ==
  ASSUME LInv, NEW r \in Run
  PROVE  /\ pc[r] \in {"apply", "write", "wrote", "accept"} => state[r] = "running" /\ ~memo[r].cut
         /\ pc[r] = "verify" => state[r] = "verifying" /\ ~memo[r].cut
         /\ pc[r] \in {"rollback", "announce"} => state[r] \in {"running", "verifying"} /\ ~memo[r].cut
         /\ pc[r] \in {"undo", "restoring", "undone", "restored"} => state[r] = "rolling_back" /\ ~memo[r].cut
         /\ pc[r] = "applied" => state[r] = "running"
         /\ pc[r] = "verified" => state[r] = "verifying"
         /\ ~session[r].err => ~memo[r].cut
BY Local DEF LineFits, StateFits, CutFits, Closing, CallMemo

\* The definition's call fails; if the lease is lost, that is why.
LEMMA FailKeeps ==
  ASSUME LInv, NEW r \in Run, NEW p \in {"applied", "verified"}, Fails(r), GoesTo(r, p),
         UNCHANGED <<state, canceled, world>>, StateFits(p, state[r]),
         state[r] \in {"running", "verifying"}
  PROVE  LInv'
<1> DEFINE m == [memo[r] EXCEPT !.failed = TRUE, !.cut = @ \/ session[r].lost]
<1>1. /\ memo[r] \in CallMemo /\ m \in CallMemo /\ m.point = memo[r].point
      /\ m.cut => memo[r].cut \/ session[r].lost
  <2>1. memo[r] \in CallMemo /\ session[r].lost \in BOOLEAN
    BY Local DEF LInv, LifecycleTypes
  <2>2. (memo[r].cut \/ session[r].lost) \in BOOLEAN
    OBVIOUS
  <2>3. QED
    BY <2>1, <2>2 DEF CallMemo
<1>2. Moved(r, p, state[r], m) /\ faults' \in 0 .. MaxFailures
  BY Local, FaultBound DEF Fails, GoesTo, Remember, Moved
<1> HIDE DEF m
<1>3. CutFits(p, state[r], m, session[r].err)
  BY <1>1, Local DEF LInv, LineFits, CutFits, Closing
<1>4. Fits(r, p, state[r], m)
  BY <1>1, <1>3, LateFits DEF Pc, Closing
<1>5. QED
  BY <1>2, <1>4, RestStays, CallMoves DEF world

\* The run changes the target.
LEMMA ApplyWritesStep ==
  ASSUME LInv, NEW r \in Run, ApplyWrites(r)
  PROVE  LInv'
<1>1. /\ pc[r] = "write" /\ value' = r /\ pc' = [pc EXCEPT ![r] = "wrote"]
      /\ UNCHANGED <<state, memo, canceled, lease, loop, session, faults>>
  BY DEF ApplyWrites, GoesTo
<1>2. state[r] = "running" /\ ~memo[r].cut
  BY <1>1, LateState
<1>3. LifecycleTypes'
  BY <1>1 DEF LInv, LifecycleTypes, Pc
<1>4. \A q \in Run : pc'[q] = IF q = r THEN "wrote" ELSE pc[q]
  BY <1>1 DEF LInv, LifecycleTypes
<1>5. ASSUME NEW q \in Run PROVE LineFits(pc'[q], state'[q], memo'[q], session'[q].err)
  BY <1>1, <1>2, <1>4 DEF LInv, LineFits, StateFits, CutFits, Closing
<1>6. ASSUME NEW q \in Run PROVE TargetFits(q)'
  BY <1>1, <1>2, <1>4 DEF LInv, TargetFits, ReplacedBy, SaidUndone, Changed, Closing
<1>7. QED
  BY <1>1, <1>3, <1>5, <1>6 DEF LInv

\* The run puts back what it found: if that is a change of another run, then
\* that other run was replaced by this one.
LEMMA RollbackWritesStep ==
  ASSUME LInv, NEW r \in Run, RollbackWrites(r)
  PROVE  LInv'
<1>1. /\ pc[r] = "restoring" /\ GoesTo(r, "undone")
      /\ UNCHANGED <<state, memo, canceled, lease, loop, session>>
      /\ faults' \in 0 .. MaxFailures /\ value' \in {value, memo[r].point}
  BY FaultBound DEF RollbackWrites
<1>2. state[r] = "rolling_back" /\ ~memo[r].cut
  BY <1>1, LateState
<1>3. CASE value' = value
  BY <1>1, <1>2, <1>3, LateKeeps DEF world, StateFits, Pc, Closing
<1>4. CASE value' = memo[r].point
  <2>1. LifecycleTypes'
    BY <1>1, <1>4 DEF LInv, LifecycleTypes, GoesTo, Pc
  <2>2. \A q \in Run : pc'[q] = IF q = r THEN "undone" ELSE pc[q]
    BY <1>1 DEF LInv, LifecycleTypes, GoesTo
  <2>3. ASSUME NEW q \in Run PROVE LineFits(pc'[q], state'[q], memo'[q], session'[q].err)
    BY <1>1, <1>2, <2>2 DEF LInv, LineFits, StateFits, CutFits, Closing
  <2>4. ASSUME NEW q \in Run PROVE TargetFits(q)'
    <3>1. TargetFits(q) /\ TargetFits(r)
      BY DEF LInv
    <3>2. ReplacedBy(q)' = ReplacedBy(q)
      BY <1>1 DEF ReplacedBy
    <3>3. value' = q => r \in ReplacedBy(q)
      BY <1>4, <3>1 DEF TargetFits, ReplacedBy
    <3>4. state[r] \in Rolling
      BY <1>2 DEF Rolling
    <3>5. QED
      BY <1>1, <3>1, <3>2, <3>3, <3>4 DEF TargetFits
  <2>5. QED
    BY <1>1, <2>1, <2>3, <2>4 DEF LInv
<1>5. QED
  BY <1>1, <1>3, <1>4

LEMMA ApplySteps ==
  ASSUME LInv, NEW r \in Run,
         \/ ApplyValidates(r) \/ ApplyReturns(r) \/ SeeApplied(r) \/ AnnounceVerify(r)
         \/ Verify(r) \/ SeeVerified(r) \/ SeeRollback(r) \/ AnnounceRollback(r)
  PROVE  LInv'
<1>1. faults \in 0 .. MaxFailures /\ memo[r] \in CallMemo
  BY Local
<1>2. ASSUME Interrupt(r), UNCHANGED <<state, canceled, world>>, faults' = faults,
             state[r] \in {"running", "verifying"}
      PROVE  LInv'
  BY <1>1, <1>2, EndKeeps DEF Interrupt, EndFits, State
<1>3. CASE ApplyValidates(r)
  BY <1>1, <1>3, LateState, LateKeeps DEF ApplyValidates, StateFits, Pc, Closing
<1>4. CASE ApplyReturns(r)
  <2>1. /\ pc[r] \in {"apply", "write", "wrote"} /\ GoesTo(r, "applied")
        /\ UNCHANGED <<state, canceled, world>>
    BY <1>4 DEF ApplyReturns
  <2>2. state[r] = "running" /\ ~memo[r].cut /\ StateFits("applied", state[r])
    BY <2>1, LateState DEF StateFits
  <2>3. CASE UNCHANGED <<memo, faults>>
    BY <1>1, <2>1, <2>2, <2>3, LateKeeps DEF Pc, Closing
  <2>4. CASE Fails(r)
    BY <2>1, <2>2, <2>4, FailKeeps
  <2>5. QED
    BY <1>4, <2>3, <2>4 DEF ApplyReturns
<1>5. CASE SeeApplied(r)
  <2>1. pc[r] = "applied" /\ state[r] = "running" /\ UNCHANGED <<state, canceled, world, faults>>
    BY <1>5, LateState DEF SeeApplied
  <2>2. CASE session[r].err
    BY <1>2, <1>5, <2>1, <2>2 DEF SeeApplied
  <2>3. CASE ~session[r].err
    <3>1. PICK p \in {"rollback", "accept"} : GoesTo(r, p) /\ UNCHANGED memo
      BY <1>5, <2>3 DEF SeeApplied
    <3>2. StateFits(p, state[r]) /\ p \in Pc \ Closing
      BY <2>1 DEF StateFits, Pc, Closing
    <3>3. QED
      BY <1>1, <2>1, <2>3, <3>1, <3>2, LateState, LateKeeps
  <2>4. QED
    BY <2>2, <2>3
<1>6. CASE AnnounceVerify(r)
  <2>1. pc[r] = "accept" /\ state[r] = "running" /\ ~memo[r].cut /\ UNCHANGED <<memo, canceled, world>>
    BY <1>6, LateState DEF AnnounceVerify
  <2>2. CASE Recorded(r, "verifying", "verify")
    <3>1. Moved(r, "verify", "verifying", memo[r]) /\ faults' \in 0 .. MaxFailures
      BY <2>1, <2>2, RecordedMoves
    <3>2. Fits(r, "verify", "verifying", memo[r])
      BY <1>1, <2>1, LateFits DEF CutFits, StateFits, Pc, Closing
    <3>3. QED
      BY <2>1, <3>1, <3>2, RestStays, CallMoves DEF world
  <2>3. CASE Unrecorded(r, FALSE) /\ GoesTo(r, "rollback")
    BY <2>1, <2>3, UnrecordedStays, LateKeeps DEF StateFits, Pc, Closing
  <2>4. QED
    BY <1>6, <2>2, <2>3 DEF AnnounceVerify
<1>7. CASE Verify(r)
  <2>1. /\ pc[r] = "verify" /\ state[r] = "verifying" /\ ~memo[r].cut
        /\ GoesTo(r, "verified") /\ UNCHANGED <<state, canceled, world>>
    BY <1>7, LateState DEF Verify
  <2>2. StateFits("verified", state[r]) /\ "verified" \in Pc \ Closing
    BY <2>1 DEF StateFits, Pc, Closing
  <2>3. CASE UNCHANGED <<memo, faults>>
    BY <1>1, <2>1, <2>2, <2>3, LateKeeps
  <2>4. CASE Remember(r, [memo[r] EXCEPT !.failed = TRUE]) /\ faults' = faults
    <3> DEFINE m == [memo[r] EXCEPT !.failed = TRUE]
    <3>1. m \in CallMemo /\ m.point = memo[r].point /\ ~m.cut
      BY <1>1, <2>1 DEF CallMemo
    <3>2. Moved(r, "verified", state[r], m)
      BY <2>1, <2>4, Local DEF GoesTo, Remember, Moved
    <3> HIDE DEF m
    <3>3. Fits(r, "verified", state[r], m)
      BY <2>1, <2>2, <3>1, LateFits DEF CutFits
    <3>4. QED
      BY <1>1, <2>1, <2>4, <3>2, <3>3, RestStays, CallMoves DEF world
  <2>5. CASE Fails(r)
    BY <2>1, <2>2, <2>5, FailKeeps
  <2>6. QED
    BY <1>7, <2>3, <2>4, <2>5 DEF Verify
<1>8. CASE SeeVerified(r)
  <2>1. pc[r] = "verified" /\ state[r] = "verifying" /\ UNCHANGED <<state, canceled, world, faults>>
    BY <1>8, LateState DEF SeeVerified
  <2>2. CASE session[r].err
    BY <1>2, <1>8, <2>1, <2>2 DEF SeeVerified
  <2>3. CASE ~session[r].err /\ memo[r].failed
    <3>1. GoesTo(r, "rollback") /\ UNCHANGED memo
      BY <1>8, <2>3 DEF SeeVerified
    <3>2. StateFits("rollback", state[r]) /\ "rollback" \in Pc \ Closing
      BY <2>1 DEF StateFits, Pc, Closing
    <3>3. QED
      BY <1>1, <2>1, <2>3, <3>1, <3>2, LateState, LateKeeps
  <2>4. CASE ~session[r].err /\ ~memo[r].failed
    <3>1. EndWith(r, "succeeded", "interrupted") /\ ~memo[r].cut
      BY <1>8, <2>4, LateState DEF SeeVerified
    <3>2. QED
      BY <1>1, <2>1, <3>1, EndKeeps DEF EndFits, State
  <2>5. QED
    BY <2>2, <2>3, <2>4
<1>9. CASE SeeRollback(r)
  <2>1. /\ pc[r] = "rollback" /\ state[r] \in {"running", "verifying"} /\ ~memo[r].cut
        /\ UNCHANGED <<state, canceled, world, faults>>
    BY <1>9, LateState DEF SeeRollback
  <2>2. CASE session[r].err
    BY <1>2, <1>9, <2>1, <2>2 DEF SeeRollback
  <2>3. CASE ~session[r].err
    BY <1>1, <1>9, <2>1, <2>3, LateKeeps DEF SeeRollback, StateFits, Pc, Closing
  <2>4. QED
    BY <2>2, <2>3
<1>10. CASE AnnounceRollback(r)
  <2>1. /\ pc[r] = "announce" /\ state[r] \in {"running", "verifying"} /\ ~memo[r].cut
        /\ UNCHANGED <<memo, canceled, world>>
    BY <1>10, LateState DEF AnnounceRollback
  <2>2. CASE Recorded(r, "rolling_back", "undo")
    <3>1. Moved(r, "undo", "rolling_back", memo[r]) /\ faults' \in 0 .. MaxFailures
      BY <2>1, <2>2, RecordedMoves
    <3>2. Fits(r, "undo", "rolling_back", memo[r])
      BY <1>1, <2>1, LateFits DEF CutFits, StateFits, Pc, Closing
    <3>3. QED
      BY <2>1, <3>1, <3>2, RestStays, CallMoves DEF world
  <2>3. CASE Unrecorded(r, FALSE) /\ GoesTo(r, "returned")
    <3>1. state' = state /\ faults' \in 0 .. MaxFailures
      BY <2>3, UnrecordedStays
    <3>2. Moved(r, "returned", state[r], memo[r])
      BY <2>1, <2>3, <3>1, Steady
    <3>3. QED
      BY <2>1, <3>1, <3>2, MayReturn, RestStays, CallMoves DEF world
  <2>4. QED
    BY <1>10, <2>2, <2>3 DEF AnnounceRollback
<1>11. QED
  BY <1>3, <1>4, <1>5, <1>6, <1>7, <1>8, <1>9, <1>10

LEMMA UndoSteps ==
  ASSUME LInv, NEW r \in Run,
         RollbackValidates(r) \/ RollbackFails(r) \/ VerifyRollback(r) \/ VerifyRestored(r)
  PROVE  LInv'
<1>1. faults \in 0 .. MaxFailures /\ memo[r] \in CallMemo
  BY Local
<1>2. /\ pc[r] \in {"undo", "restoring", "undone", "restored"}
      /\ UNCHANGED <<state, canceled, world>> /\ faults' \in 0 .. MaxFailures
  BY <1>1, FaultBound DEF RollbackValidates, RollbackFails, VerifyRollback, VerifyRestored
<1>3. state[r] = "rolling_back" /\ ~memo[r].cut
  BY <1>2, LateState
<1>4. ASSUME rollbackFailed(r) PROVE LInv'
  BY <1>2, <1>3, <1>4, EndKeeps DEF rollbackFailed, EndFits, State
<1>5. ASSUME NEW p \in {"restoring", "restored"}, GoesTo(r, p), UNCHANGED memo PROVE LInv'
  <2>1. StateFits(p, state[r]) /\ p \in Pc \ Closing
    BY <1>3, <1>5 DEF StateFits, Pc, Closing
  <2>2. QED
    BY <1>2, <1>3, <1>5, <2>1, LateKeeps
<1>6. CASE VerifyRestored(r) /\ EndWith(r, "rolled_back", "interrupted") /\ value = memo[r].point
  <2>1. value # r
    BY <1>6 DEF LInv, TargetFits
  <2>2. QED
    BY <1>2, <1>3, <1>6, <2>1, EndKeeps DEF EndFits, State
<1>7. QED
  BY <1>4, <1>5, <1>6 DEF RollbackValidates, RollbackFails, VerifyRollback, VerifyRestored


-----------------------------------------------------------------------------
(* The end of a call, the goroutine and the world.                         *)

LEMMA CloseSteps ==
  ASSUME LInv, NEW r \in Run, Stop(r) \/ releaseLease(r) \/ Settle(r)
  PROVE  LInv'
<1>1. /\ pc[r] \in Closing /\ memo[r] \in CallMemo /\ faults \in 0 .. MaxFailures
      /\ EndFits(state[r], memo[r].goal) /\ EndFits(state[r], memo[r].fallback)
      /\ memo[r].fallback # "rolled_back"
      /\ CutFits(pc[r], state[r], memo[r], session[r].err)
      /\ memo[r].goal \in State /\ memo[r].fallback \in State
  BY Local DEF Stop, releaseLease, Settle, Closing, LineFits, CallMemo
<1>2. state[r] \notin {"rolled_back"}
  BY <1>1 DEF EndFits
<1>3. ASSUME NEW p \in Closing
      PROVE  Fits(r, p, state[r], memo[r])
  <2>1. LineFits(p, state[r], memo[r], session[r].err)
    BY <1>1, <1>3 DEF LineFits, StateFits, CutFits, Closing
  <2>2. QED
    BY <1>1, <2>1, Local DEF Fits, SaidUndone, Pc, Closing
<1>4. CASE Stop(r)
  <2>1. /\ session' = [session EXCEPT ![r].stop = TRUE] /\ GoesTo(r, "release")
        /\ UNCHANGED <<state, memo, canceled, lease, loop, value, faults>>
    BY <1>4 DEF Stop
  <2>2. /\ session' \in [Run -> [err : BOOLEAN, lost : BOOLEAN, stop : BOOLEAN]]
        /\ \A q \in Run : session'[q].err = session[q].err /\ session'[q].lost = session[q].lost
    BY <2>1 DEF LInv, LifecycleTypes
  <2>3. RestFits
    BY <1>1, <2>1, <2>2 DEF LInv, LifecycleTypes, RestFits
  <2>4. Moved(r, "release", state[r], memo[r]) /\ Fits(r, "release", state[r], memo[r])
    BY <1>3, <2>1, Steady DEF Closing
  <2>5. QED
    BY <2>1, <2>3, <2>4, CallMoves
<1>5. CASE releaseLease(r)
  <2>1. /\ GoesTo(r, "settle") /\ UNCHANGED <<state, canceled, loop, session, value>>
        /\ lease' \in [Run -> {"none", "held", "expired"}] /\ faults' \in 0 .. MaxFailures
    BY <1>1, <1>5, FaultBound DEF releaseLease, LInv, LifecycleTypes
  <2>2. RestFits
    BY <2>1 DEF LInv, LifecycleTypes, RestFits
  <2>3. CASE UNCHANGED memo
    BY <1>3, <2>1, <2>2, <2>3, Steady, CallMoves DEF Closing
  <2>4. CASE Remember(r, [memo[r] EXCEPT !.goal = memo[r].fallback])
    <3> DEFINE m == [memo[r] EXCEPT !.goal = memo[r].fallback]
    <3>1. /\ m \in CallMemo /\ m.point = memo[r].point /\ m.cut = memo[r].cut
          /\ m.goal = memo[r].fallback /\ m.fallback = memo[r].fallback
      BY <1>1 DEF CallMemo
    <3>2. Moved(r, "settle", state[r], m)
      BY <2>1, <2>4, Local DEF GoesTo, Remember, Moved
    <3> HIDE DEF m
    <3>3. LineFits("settle", state[r], m, session[r].err)
      BY <1>1, <3>1 DEF LineFits, StateFits, CutFits, Closing
    <3>4. ~SaidUndone("settle", state[r], m)
      BY <1>1, <1>2, <3>1 DEF SaidUndone
    <3>5. Fits(r, "settle", state[r], m)
      BY <1>1, <3>1, <3>3, <3>4, Local DEF Fits, Pc
    <3>6. QED
      BY <2>1, <2>2, <3>2, <3>5, CallMoves
  <2>5. QED
    BY <1>5, <2>3, <2>4 DEF releaseLease
<1>6. CASE Settle(r)
  <2>1. LineFits("returned", memo[r].goal, memo[r], session[r].err)
    BY <1>1 DEF LineFits, StateFits, CutFits, Closing, EndFits
  <2>2. /\ state[r] \in Changed => memo[r].goal \in Changed
        /\ state[r] \in Rolling => memo[r].goal \in Rolling
    BY <1>1 DEF EndFits, Changed, Rolling, PreApplyExit
  <2>3. Fits(r, "returned", memo[r].goal, memo[r])
    BY <1>1, <2>1, <2>2 DEF Fits, SaidUndone, Pc, Closing
  <2>4. QED
    BY <1>6, <2>3, CloseKeeps DEF Settle, world
<1>7. QED
  BY <1>4, <1>5, <1>6

\* The goroutine and the world do nothing to the call but tell it.
LEMMA WorldKeeps ==
  ASSUME LInv, RestFits, UNCHANGED <<pc, state, memo, value>>
  PROVE  LInv'
<1>1. LifecycleTypes'
  BY DEF LInv, LifecycleTypes, RestFits
<1>2. \A r \in Run : LineFits(pc[r], state[r], memo[r], session'[r].err)
  BY DEF LInv, RestFits, LineFits, CutFits
<1>3. \A r \in Run : TargetFits(r)'
  BY DEF LInv, TargetFits, ReplacedBy
<1>4. QED
  BY <1>1, <1>2, <1>3 DEF LInv, RestFits

LEMMA WorldSteps ==
  ASSUME LInv, NEW r \in Run, renewLoop(r) \/ Expire(r) \/ Cancel(r)
  PROVE  LInv'
<1>1. CASE Tick(r) \/ StopLoop(r) \/ Renew(r)
  <2>1. UNCHANGED <<pc, state, memo, value, canceled, lease, session, faults>>
    BY <1>1 DEF Tick, StopLoop, Renew
  <2>2. loop' \in [Run -> {"off", "wait", "renew", "failed", "ended"}]
    BY <1>1 DEF LInv, LifecycleTypes, Tick, StopLoop, Renew
  <2>3. RestFits
    BY <2>1, <2>2 DEF LInv, LifecycleTypes, RestFits
  <2>4. QED
    BY <2>1, <2>3, WorldKeeps
<1>2. CASE RenewFails(r) \/ CloseLost(r)
  <2>1. UNCHANGED <<pc, state, memo, value, canceled, lease>> /\ faults' \in 0 .. MaxFailures
    BY <1>2, FaultBound DEF RenewFails, CloseLost
  <2>2. loop' \in [Run -> {"off", "wait", "renew", "failed", "ended"}]
    BY <1>2 DEF LInv, LifecycleTypes, RenewFails, CloseLost
  <2>3. session \in [Run -> [err : BOOLEAN, lost : BOOLEAN, stop : BOOLEAN]]
    BY DEF LInv, LifecycleTypes
  <2>4. /\ session' \in [Run -> [err : BOOLEAN, lost : BOOLEAN, stop : BOOLEAN]]
        /\ \A q \in Run : /\ session[q].err => session'[q].err
                          /\ session'[q].lost => session'[q].err
    <3>1. CASE RenewFails(r)
      BY <2>3, <3>1 DEF RenewFails, LInv
    <3>2. CASE CloseLost(r)
      BY <2>3, <3>2 DEF CloseLost, LInv
    <3>3. QED
      BY <1>2, <3>1, <3>2
  <2>5. RestFits
    BY <2>1, <2>2, <2>4 DEF LInv, LifecycleTypes, RestFits
  <2>6. QED
    BY <2>1, <2>5, WorldKeeps
<1>3. CASE Expire(r)
  <2>1. UNCHANGED <<pc, state, memo, value, canceled, loop, session>> /\ faults' \in 0 .. MaxFailures
    BY <1>3, FaultBound DEF Expire
  <2>2. lease' \in [Run -> {"none", "held", "expired"}]
    BY <1>3 DEF LInv, LifecycleTypes, Expire
  <2>3. RestFits
    BY <2>1, <2>2 DEF LInv, LifecycleTypes, RestFits
  <2>4. QED
    BY <2>1, <2>3, WorldKeeps
<1>4. CASE Cancel(r)
  <2>1. UNCHANGED <<pc, state, memo, value, lease, loop, session>> /\ faults' \in 0 .. MaxFailures
    BY <1>4, FaultBound DEF Cancel, world
  <2>2. canceled' \in [Run -> BOOLEAN]
    BY <1>4 DEF LInv, LifecycleTypes, Cancel
  <2>3. RestFits
    BY <2>1, <2>2 DEF LInv, LifecycleTypes, RestFits
  <2>4. QED
    BY <2>1, <2>3, WorldKeeps
<1>5. QED
  BY <1>1, <1>2, <1>3, <1>4 DEF renewLoop

-----------------------------------------------------------------------------
(* The theorems.                                                           *)

LEMMA LifecycleStarts == LifecycleInit => LInv
<1> SUFFICES ASSUME LifecycleInit PROVE LInv
  OBVIOUS
<1>1. LifecycleTypes
  BY FaultAssumption DEF LifecycleInit, LifecycleTypes, NoMemo, Pc, State
<1>2. \A r \in Run : /\ pc[r] = "new" /\ state[r] = "draft" /\ memo[r] = NoMemo
                     /\ ~session[r].err /\ ~session[r].lost
  BY DEF LifecycleInit
<1>3. \A r \in Run : LineFits(pc[r], state[r], memo[r], session[r].err)
  BY <1>2 DEF LineFits, StateFits, CutFits, Closing, NoMemo
<1>4. \A r \in Run : memo[r].point = Base /\ value = Base /\ r # Base
  BY <1>2, BaseAssumption DEF LifecycleInit, NoMemo
<1>5. \A r \in Run : TargetFits(r)
  BY <1>4 DEF TargetFits, ReplacedBy
<1>6. QED
  BY <1>1, <1>2, <1>3, <1>5 DEF LInv

LEMMA LifecycleStep == LInv /\ [LifecycleNext]_lifecycleVars => LInv'
<1> SUFFICES ASSUME LInv, [LifecycleNext]_lifecycleVars PROVE LInv'
  OBVIOUS
<1>1. ASSUME NEW r \in Run, Drive(r) PROVE LInv'
  BY <1>1, PrepareSteps, LeaseSteps, PointSteps, ApplySteps, ApplyWritesStep, UndoSteps,
     RollbackWritesStep, CloseSteps DEF Drive
<1>2. ASSUME NEW r \in Run, renewLoop(r) \/ Expire(r) \/ Cancel(r) PROVE LInv'
  BY <1>2, WorldSteps
<1>3. CASE UNCHANGED lifecycleVars
  <2>1. UNCHANGED <<pc, state, memo, value, canceled, lease, loop, session, faults>>
    BY <1>3 DEF lifecycleVars
  <2>2. RestFits
    BY <2>1 DEF LInv, LifecycleTypes, RestFits
  <2>3. QED
    BY <2>1, <2>2, WorldKeeps
<1>4. QED
  BY <1>1, <1>2, <1>3 DEF LifecycleNext

\* The inductive invariant: where a call is tells the state its run is in and
\* the ends that are left to it, and what the target holds tells who wrote it.
THEOREM LifecycleInvariance == LifecycleSpec => []LInv
BY LifecycleStarts, LifecycleStep, PTL DEF LifecycleSpec

LEMMA BackedByInvariant == LInv => EndIsBacked
<1> SUFFICES ASSUME LInv PROVE EndIsBacked
  OBVIOUS
<1>1. Undone
  BY DEF LInv, TargetFits, ReplacedBy, SaidUndone, Changed, Rolling, Undone
<1>2. AutomatedWritesStop
  BY DEF LInv, LineFits, CutFits, AutomatedWritesStop
<1>3. QED
  BY <1>1, <1>2 DEF LInv, EndIsBacked

\* A run that says that it left or undid nothing is right, unless another run
\* made its restore point of the change and was rolled back to it; and a run
\* that was cut off by the loss of its lease writes no more (lifecycle.go,
\* rollback and interruptAfterWrite).
THEOREM EndsAreBacked == LifecycleSpec => []EndIsBacked
BY LifecycleInvariance, BackedByInvariant, PTL

-----------------------------------------------------------------------------
(***************************************************************************)
(* The enrollment of agents.                                               *)
(***************************************************************************)

States == {"none", "live", "used", "revoked", "expired"}
CredRow == [agent : Proc, from : Nat, revoked : BOOLEAN, barred : BOOLEAN]
HostFiles == [binary : BOOLEAN, token : Apply \union {None}, id : Proc \union {None},
              cred : 0 .. MaxCreds, staging : SUBSET Apply]
Memo == [pc : ProcPc, id : Proc \union {None}, cred : 0 .. MaxCreds,
         token : Apply \union {None}]

-----------------------------------------------------------------------------
(* The Apply and its token.                                                *)

Wired == {"connected", "probed", "resolved", "selected", "staging", "uploaded", "staged",
          "issued", "written", "tested", "promoted", "started", "identified", "online"}
Unissued == {"idle", "connected", "probed", "resolved", "selected", "staging", "uploaded",
             "staged"}
Named == {"identified", "online", "closed", "adopted", "assigned", "ok"}
Settled == {"undoStaging", "failed", "ok"}

ApplyFits(a) ==
  /\ apc[a] \in Wired => open[a]
  /\ apc[a] \in Unissued => token[a] = "none"
  /\ apc[a] \in Settled => token[a] # "live" \/ dirty[a]
  /\ apc[a] \in Named => agentID[a] # None
  /\ apc[a] \in {"online", "closed"} => (fresh[a] => again[a])
  /\ apc[a] \in {"adopted", "assigned", "ok"} => again[a]

ApplyTypes ==
  /\ apc \in [Apply -> ApplyPc]
  /\ open \in [Apply -> BOOLEAN] /\ fresh \in [Apply -> BOOLEAN]
  /\ again \in [Apply -> BOOLEAN] /\ dirty \in [Apply -> BOOLEAN]
  /\ agentID \in [Apply -> Proc \union {None}]
  /\ token \in [Apply -> States]

AInv == ApplyTypes /\ \A a \in Apply : ApplyFits(a)

-----------------------------------------------------------------------------
(* The credentials.                                                        *)

\* Where a process has the host's identity, where it has a credential, and
\* where it presents one that its host has stored.
Anonymous == {"off", "boot", "generated"}
Carrying == {"holding", "ready", "admitted", "running", "beating", "rotated", "saved"}
InUsePc == {"ready", "admitted", "running", "beating", "saved"}
UnsavedPc == {"holding", "rotated"}

From(c) == creds[c].from

CredTypes ==
  /\ creds \in Seq(CredRow) /\ Len(creds) <= MaxCreds
  /\ \A c \in DOMAIN creds : From(c) < c
  /\ node \in [Proc -> {"absent", "registered", "retired"}]
  /\ host \in HostFiles
  /\ proc \in [Proc -> Memo]
  /\ budget \in [fault : 0 .. MaxFaults, act : 0 .. MaxActs]

Identified ==
  /\ \A p \in Proc : proc[p].pc \notin Anonymous => proc[p].id = host.id /\ host.id # None
  /\ \A c \in DOMAIN creds : creds[c].agent = host.id

Carried ==
  /\ host.cred \in {0} \union DOMAIN creds
  /\ \A p \in Proc :
       /\ proc[p].pc \in Carrying => proc[p].cred \in DOMAIN creds
       /\ proc[p].pc \notin Carrying => proc[p].cred = 0
       /\ proc[p].pc \in {"rotated", "saved"} => p = Cli
       /\ proc[p].pc = "enrolling" => proc[p].token \in Apply

\* What is in use never replaces what the host has stored, unless it is that.
UseFits(p) ==
  proc[p].pc \in InUsePc /\ From(proc[p].cred) # 0 =>
    /\ host.cred # From(proc[p].cred)
    /\ host.cred # 0 /\ From(host.cred) = From(proc[p].cred) => host.cred = proc[p].cred

\* A credential that was just issued is nobody else's.
UnsavedFits(p) ==
  proc[p].pc \in UnsavedPc =>
    LET e == proc[p].cred IN
    /\ e # host.cred
    /\ \A d \in DOMAIN creds : From(d) # e
    /\ \A q \in Proc \ {p} : proc[q].cred # e
    /\ creds[e].revoked => creds[e].barred
    /\ proc[p].pc = "holding" <=> From(e) = 0

\* The credential a rotation starts from, and the one it started from, have
\* no other heir in use.
Claim == IF proc[Cli].pc = "ready" THEN proc[Cli].cred
         ELSE IF proc[Cli].pc = "rotated" THEN From(proc[Cli].cred) ELSE 0
ClaimFits ==
  Claim # 0 =>
    /\ \A q \in Proc : proc[q].pc \in InUsePc => From(proc[q].cred) # Claim
    /\ host.cred # 0 => From(host.cred) # Claim

Barred == \A c \in DOMAIN creds : creds[c].barred => creds[c].revoked

CInv ==
  /\ CredTypes /\ Identified /\ Carried
  /\ \A p \in Proc : UseFits(p) /\ UnsavedFits(p)
  /\ ClaimFits /\ Barred /\ NeverLockedOut /\ RevokedStaysOut

NInv == AInv /\ CInv

-----------------------------------------------------------------------------
(* Lemmas: the Apply.                                                      *)

LEMMA AInvInit == Init => AInv
BY DEF Init, AInv, ApplyTypes, ApplyFits, ApplyPc, States, Wired, Unissued, Settled, Named

\* What a step of one Apply leaves alone of the others.
OthersKeep(a) ==
  \A b \in Apply \ {a} :
    /\ apc'[b] = apc[b] /\ open'[b] = open[b] /\ agentID'[b] = agentID[b]
    /\ fresh'[b] = fresh[b] /\ again'[b] = again[b]
    /\ dirty'[b] = dirty[b] /\ token'[b] = token[b]

LEMMA OneApply ==
  ASSUME NEW a \in Apply, AInv, ApplyTypes', OthersKeep(a), ApplyFits(a)'
  PROVE  AInv'
<1>1. ASSUME NEW b \in Apply, b # a PROVE ApplyFits(b)'
  BY <1>1 DEF OthersKeep, AInv, ApplyFits
<1> QED BY <1>1 DEF AInv

LEMMA ApplyAdvances ==
  ASSUME NEW a \in Apply, AInv,
         \/ ConnectRefused(a) \/ Connect(a) \/ Probe(a) \/ ResolveCallback(a)
         \/ SelectArtifact(a) \/ Unfit(a) \/ PrepareStaging(a) \/ UploadAgent(a)
         \/ VerifyAgent(a) \/ IssueBootstrapEnrollment(a)
  PROVE  AInv'
<1> USE DEF AInv, ApplyTypes, ApplyFits, OthersKeep, Goto, Unwind, ApplyPc, States, Wired,
            Unissued, Settled, Named
<1>1. CASE ConnectRefused(a) BY <1>1, OneApply DEF ConnectRefused
<1>2. CASE Connect(a) BY <1>2, OneApply DEF Connect
<1>3. CASE Probe(a) BY <1>3, OneApply DEF Probe
<1>4. CASE ResolveCallback(a) BY <1>4, OneApply DEF ResolveCallback
<1>5. CASE SelectArtifact(a) BY <1>5, OneApply DEF SelectArtifact
<1>6. CASE Unfit(a) BY <1>6, OneApply DEF Unfit
<1>7. CASE PrepareStaging(a) BY <1>7, OneApply DEF PrepareStaging
<1>8. CASE UploadAgent(a) BY <1>8, OneApply DEF UploadAgent
<1>9. CASE VerifyAgent(a) BY <1>9, OneApply DEF VerifyAgent
<1>10. CASE IssueBootstrapEnrollment(a) BY <1>10, OneApply DEF IssueBootstrapEnrollment
<1> QED BY <1>1, <1>2, <1>3, <1>4, <1>5, <1>6, <1>7, <1>8, <1>9, <1>10

LEMMA ApplyInstalls ==
  ASSUME NEW a \in Apply, AInv,
         \/ WriteBootstrapFiles(a) \/ PromoteTest(a) \/ PromoteMove(a) \/ StartAgent(a)
         \/ WaitAgentID(a) \/ WaitOnline(a) \/ CloseTransport(a) \/ WaitHeartbeat(a)
         \/ AssignSite(a), host \in HostFiles
  PROVE  AInv'
<1> USE DEF AInv, ApplyTypes, ApplyFits, OthersKeep, Goto, Unwind, ApplyPc, States, Wired,
            Unissued, Settled, Named
<1>1. CASE WriteBootstrapFiles(a) BY <1>1, OneApply DEF WriteBootstrapFiles
<1>2. CASE PromoteTest(a) BY <1>2, OneApply DEF PromoteTest
<1>3. CASE PromoteMove(a) BY <1>3, OneApply DEF PromoteMove
<1>4. CASE StartAgent(a) BY <1>4, OneApply DEF StartAgent
<1>5. CASE WaitAgentID(a) BY <1>5, OneApply DEF WaitAgentID, HostFiles
<1>6. CASE WaitOnline(a) BY <1>6, OneApply DEF WaitOnline
<1>7. CASE CloseTransport(a) BY <1>7, OneApply DEF CloseTransport
<1>8. CASE WaitHeartbeat(a) BY <1>8, OneApply DEF WaitHeartbeat
<1>9. CASE AssignSite(a) BY <1>9, OneApply DEF AssignSite
<1> QED BY <1>1, <1>2, <1>3, <1>4, <1>5, <1>6, <1>7, <1>8, <1>9

LEMMA ApplyEnds ==
  ASSUME NEW a \in Apply, AInv,
         \/ ApplyDone(a) \/ TimesOut(a) \/ CommandFails(a)
         \/ CleanupEnrollmentToken(a) \/ RevokeOnTheWayOut(a) \/ CleanupStaging(a)
  PROVE  AInv'
<1> USE DEF AInv, ApplyTypes, ApplyFits, OthersKeep, Goto, Unwind, ApplyPc, States, Wired,
            Unissued, Settled, Named, Revoked
<1>1. CASE ApplyDone(a) BY <1>1, OneApply DEF ApplyDone
<1>2. CASE TimesOut(a) BY <1>2, OneApply DEF TimesOut
<1>3. CASE CommandFails(a) BY <1>3, OneApply DEF CommandFails
<1>4. CASE CleanupEnrollmentToken(a) BY <1>4, OneApply DEF CleanupEnrollmentToken
<1>5. CASE RevokeOnTheWayOut(a) BY <1>5, OneApply DEF RevokeOnTheWayOut
<1>6. CASE CleanupStaging(a) BY <1>6, OneApply DEF CleanupStaging
<1> QED BY <1>1, <1>2, <1>3, <1>4, <1>5, <1>6

\* A token is issued by its Apply alone: anybody else can only make it useless.
LEMMA TokenSettles ==
  ASSUME AInv, UNCHANGED apply, token' \in [Apply -> States],
         \A a \in Apply : token'[a] = token[a] \/ (token[a] = "live" /\ token'[a] # "live")
  PROVE  AInv'
BY DEF AInv, ApplyTypes, ApplyFits, apply, Unissued, Settled

\* Whoever waits for the node sees it.
LEMMA SeenKeeps ==
  ASSUME AInv, NEW id \in Proc, Seen(id), UNCHANGED <<apc, open, agentID, dirty, token>>
  PROVE  AInv'
BY NamesAssumption DEF AInv, ApplyTypes, ApplyFits, Seen, Proc, Named, Wired

LEMMA ServerDeath ==
  ASSUME AInv, ServerDies
  PROVE  AInv'
BY DEF AInv, ApplyTypes, ApplyFits, ServerDies, ApplyPc, Wired, Unissued, Settled, Named

-----------------------------------------------------------------------------
(* Lemmas: the credentials.                                                *)

LEMMA CInvInit == Init => CInv
<1> SUFFICES ASSUME Init PROVE CInv
  OBVIOUS
<1>1. creds = <<>> /\ creds \in Seq(CredRow) /\ Len(creds) = 0 /\ DOMAIN creds = {}
  BY EmptySeq DEF Init
<1>2. CredTypes
  BY <1>1, BoundAssumption, NamesAssumption DEF Init, CredTypes, HostFiles, Memo, ProcPc, Off, Proc
<1> QED BY <1>1, <1>2 DEF Init, CInv, Identified, Carried, UseFits, UnsavedFits, ClaimFits, Claim,
           Barred, NeverLockedOut, RevokedStaysOut, Off, Anonymous, Carrying, InUsePc, UnsavedPc

LEMMA CredsDomain == CredTypes => Len(creds) \in Nat /\ DOMAIN creds = 1 .. Len(creds)
BY LenProperties DEF CredTypes

LEMMA CredFields ==
  CredTypes => \A c \in DOMAIN creds :
    /\ creds[c] \in CredRow /\ From(c) \in Nat /\ From(c) < c /\ creds[c].revoked \in BOOLEAN
    /\ creds[c].barred \in BOOLEAN /\ c \in Nat \ {0}
<1> SUFFICES ASSUME CredTypes, NEW c \in DOMAIN creds
    PROVE /\ creds[c] \in CredRow /\ From(c) \in Nat /\ From(c) < c
          /\ creds[c].revoked \in BOOLEAN /\ creds[c].barred \in BOOLEAN /\ c \in Nat \ {0}
  OBVIOUS
<1>1. c \in 1 .. Len(creds) /\ Len(creds) \in Nat
  BY CredsDomain
<1>2. creds[c] \in CredRow
  BY <1>1, ElementOfSeq DEF CredTypes
<1> QED BY <1>1, <1>2 DEF CredTypes, CredRow, From

\* The files of the host that the credentials are about, and the rows.
SameRows == creds' = creds /\ host'.id = host.id /\ host'.cred = host.cred

OthersRun(p) == \A q \in Proc \ {p} : proc'[q] = proc[q]

\* A process that has no credential at hand.
Rests(m) ==
  /\ m.pc \in {"off", "boot", "generated", "named", "enrolling"} /\ m.cred = 0
  /\ m.pc \in {"named", "enrolling"} => m.id = host.id /\ host.id # None
  /\ m.pc = "enrolling" => m.token \in Apply

LEMMA NobodyMoves ==
  ASSUME CInv, CredTypes', SameRows, proc' = proc
  PROVE  CInv'
BY DEF CInv, SameRows, Identified, Carried, UseFits, UnsavedFits, ClaimFits, Claim, Barred,
       NeverLockedOut, RevokedStaysOut, From

LEMMA ProcessRests ==
  ASSUME CInv, NEW p \in Proc, CredTypes', SameRows, OthersRun(p), Rests(proc'[p])
  PROVE  CInv'
<1> USE DEF SameRows, From
<1>1. Identified' /\ Carried'
  BY DEF CInv, Identified, Carried, OthersRun, Rests, Anonymous, Carrying
<1>2. \A q \in Proc : UseFits(q)'
  BY DEF CInv, UseFits, OthersRun, Rests, InUsePc
<1>3. \A q \in Proc : UnsavedFits(q)'
  <2>1. ASSUME NEW q \in Proc, proc'[q].pc \in UnsavedPc PROVE UnsavedFits(q)'
    <3>1. q # p /\ proc'[q] = proc[q] /\ UnsavedFits(q)
      BY <2>1 DEF UnsavedPc, Rests, OthersRun, CInv
    <3>2. proc[q].cred # 0
      BY <2>1, <3>1, CredFields DEF CInv, Carried, UnsavedPc, Carrying
    <3> QED BY <2>1, <3>1, <3>2 DEF UnsavedFits, OthersRun, Rests
  <2> QED BY <2>1 DEF UnsavedFits
<1>4. ClaimFits'
  <2>1. Claim' = Claim \/ Claim' = 0
    BY DEF Claim, OthersRun, Rests, Proc
  <2> QED BY <2>1 DEF CInv, ClaimFits, OthersRun, Rests, InUsePc
<1>5. Barred' /\ NeverLockedOut' /\ RevokedStaysOut'
  BY DEF CInv, Barred, NeverLockedOut, RevokedStaysOut
<1> QED BY <1>1, <1>2, <1>3, <1>4, <1>5 DEF CInv

\* A process goes on with the credential it uses.
GoesOn(p) ==
  /\ proc[p].pc \in InUsePc /\ proc'[p].pc \in {"ready", "admitted", "running", "beating"}
  /\ p = Cli => proc'[p].pc # "ready"
  /\ proc'[p].cred = proc[p].cred /\ proc'[p].id = proc[p].id

LEMMA ProcessGoesOn ==
  ASSUME CInv, NEW p \in Proc, CredTypes', SameRows, OthersRun(p), GoesOn(p)
  PROVE  CInv'
<1> USE DEF SameRows, From
<1>1. Identified' /\ Carried'
  BY DEF CInv, Identified, Carried, OthersRun, GoesOn, Anonymous, Carrying, InUsePc
<1>2. \A q \in Proc : UseFits(q)'
  BY DEF CInv, UseFits, OthersRun, GoesOn, InUsePc
<1>3. \A q \in Proc : UnsavedFits(q)'
  BY DEF CInv, UnsavedFits, OthersRun, GoesOn, UnsavedPc, InUsePc
<1>4. ClaimFits'
  <2>1. Claim' = Claim \/ Claim' = 0
    BY DEF Claim, OthersRun, GoesOn, Proc, InUsePc
  <2> QED BY <2>1 DEF CInv, ClaimFits, OthersRun, GoesOn, InUsePc
<1>5. Barred' /\ NeverLockedOut' /\ RevokedStaysOut'
  BY DEF CInv, Barred, NeverLockedOut, RevokedStaysOut
<1> QED BY <1>1, <1>2, <1>3, <1>4, <1>5 DEF CInv

LEMMA Loads ==
  ASSUME CInv, NEW p \in Proc, LoadCredential(p)
  PROVE  CInv'
<1> USE DEF From, LoadCredential
<1>1. /\ proc'[p].pc = "ready" /\ proc'[p].cred = host.cred /\ proc'[p].id = proc[p].id
      /\ OthersRun(p) /\ UNCHANGED <<creds, host, node, budget>> /\ proc' \in [Proc -> Memo]
  BY DEF CInv, CredTypes, OthersRun, Memo, HostFiles, ProcPc
<1>2. CredTypes'
  BY <1>1 DEF CInv, CredTypes
<1>3. host.cred \in DOMAIN creds /\ From(host.cred) < host.cred /\ From(host.cred) \in Nat
      /\ host.cred \in Nat \ {0}
  BY CredFields DEF CInv, Carried
<1>4. proc[p].pc = "named"
  OBVIOUS
<1>5. Identified' /\ Carried'
  BY <1>1, <1>3, <1>4 DEF CInv, Identified, Carried, OthersRun, Anonymous, Carrying
<1>6. UseFits(p)'
  BY <1>1, <1>3 DEF UseFits
<1>7. \A q \in Proc \ {p} : UseFits(q)'
  BY <1>1 DEF CInv, UseFits, OthersRun
<1>8. \A q \in Proc : UnsavedFits(q)'
  BY <1>1 DEF CInv, UnsavedFits, OthersRun, UnsavedPc
<1>9. ClaimFits'
  <2>1. CASE p = Cli
    <3>1. Claim' = host.cred
      BY <1>1, <2>1 DEF Claim
    <3>2. ASSUME NEW q \in Proc, proc'[q].pc \in InUsePc PROVE From(proc[q].cred)' # host.cred
      <4>1. CASE q = p BY <1>1, <1>3, <4>1
      <4>2. CASE q # p
        BY <1>1, <1>3, <3>2, <4>2 DEF OthersRun, CInv, UseFits
      <4> QED BY <4>1, <4>2
    <3> QED BY <1>1, <1>3, <3>1, <3>2 DEF ClaimFits
  <2>2. CASE p # Cli
    <3>1. Claim' = Claim
      BY <1>1, <2>2 DEF Claim, OthersRun, Proc
    <3> QED BY <1>1, <1>3, <3>1 DEF ClaimFits, CInv, OthersRun
  <2> QED BY <2>1, <2>2
<1>10. Barred' /\ NeverLockedOut' /\ RevokedStaysOut'
  BY <1>1 DEF CInv, Barred, NeverLockedOut, RevokedStaysOut
<1> QED BY <1>2, <1>5, <1>6, <1>7, <1>8, <1>9, <1>10 DEF CInv

\* The rows of credentials, some of them revoked.
RevokesSome(D, gone, shut) ==
  /\ D \in Seq(CredRow) /\ Len(D) = Len(creds) /\ DOMAIN D = DOMAIN creds
  /\ \A d \in DOMAIN creds :
       /\ D[d].agent = creds[d].agent /\ D[d].from = creds[d].from
       /\ D[d].revoked = (creds[d].revoked \/ d \in gone)
       /\ D[d].barred = (creds[d].barred \/ d \in shut)

LEMMA IntervalEnd ==
  ASSUME NEW m \in Nat, NEW n \in Nat, 1 .. m = 1 .. n
  PROVE  m = n
<1>1. m \in 1 .. m \/ m = 0
  OBVIOUS
<1>2. n \in 1 .. n \/ n = 0
  OBVIOUS
<1>3. m <= n \/ m = 0
  BY <1>1
<1>4. n <= m \/ n = 0
  BY <1>2
<1> QED BY <1>3, <1>4

LEMMA MapIsSeq ==
  ASSUME CredTypes, NEW D \in [DOMAIN creds -> CredRow]
  PROVE  D \in Seq(CredRow) /\ Len(D) = Len(creds) /\ DOMAIN D = DOMAIN creds
<1>1. PICK n \in Nat : n = Len(creds) /\ DOMAIN creds = 1 .. n
  BY CredsDomain
<1>2. D \in [1 .. n -> CredRow]
  BY <1>1
<1>3. D \in Seq(CredRow)
  BY <1>2, SeqDef
<1>4. DOMAIN D = 1 .. Len(D) /\ Len(D) \in Nat
  BY <1>3, LenProperties
<1>5. DOMAIN D = 1 .. n
  BY <1>2
<1>6. Len(D) = n
  BY <1>4, <1>5, IntervalEnd
<1> QED BY <1>1, <1>3, <1>5, <1>6

LEMMA ActivatedRevokes ==
  ASSUME CredTypes, NEW c \in DOMAIN creds
  PROVE  RevokesSome(Activated(c), Superseded(c), {})
<1>1. Activated(c) \in [DOMAIN creds -> CredRow]
  BY CredFields DEF Activated, CredRow
<1>2. \A d \in DOMAIN creds :
        /\ Activated(c)[d].agent = creds[d].agent /\ Activated(c)[d].from = creds[d].from
        /\ Activated(c)[d].revoked = (creds[d].revoked \/ d \in Superseded(c))
        /\ Activated(c)[d].barred = creds[d].barred
  BY CredFields DEF Activated, CredRow
<1>3. \A d \in DOMAIN creds : creds[d].barred = (creds[d].barred \/ d \in {})
  BY CredFields
<1> QED BY <1>1, <1>2, <1>3, MapIsSeq DEF RevokesSome

LEMMA RevokeRevokes ==
  ASSUME CredTypes, NEW C \in SUBSET DOMAIN creds, Revoke(C)
  PROVE  RevokesSome(creds', C, C)
<1>1. creds' \in [DOMAIN creds -> CredRow]
  BY CredFields DEF Revoke, CredRow
<1>2. \A d \in DOMAIN creds :
        /\ creds'[d].agent = creds[d].agent /\ creds'[d].from = creds[d].from
        /\ creds'[d].revoked = (creds[d].revoked \/ d \in C)
        /\ creds'[d].barred = (creds[d].barred \/ d \in C)
  BY CredFields DEF Revoke, CredRow
<1> QED BY <1>1, <1>2, MapIsSeq DEF RevokesSome

\* The use of a credential spares what the host has stored and what is to be
\* stored.
LEMMA SupersededSpares ==
  ASSUME CInv, NEW p \in Proc, proc[p].pc \in InUsePc
  PROVE  /\ host.cred \notin Superseded(proc[p].cred)
         /\ \A q \in Proc : proc[q].pc \in UnsavedPc => proc[q].cred \notin Superseded(proc[p].cred)
<1> USE DEF Superseded, From
<1>1. proc[p].cred \in DOMAIN creds
  BY DEF CInv, Carried, InUsePc, Carrying
<1>2. host.cred \notin Superseded(proc[p].cred)
  BY <1>1, CredFields DEF CInv, UseFits, Carried
<1>3. ASSUME NEW q \in Proc, proc[q].pc \in UnsavedPc
      PROVE  proc[q].cred \notin Superseded(proc[p].cred)
  <2>1. UnsavedFits(q) /\ UseFits(p) /\ ClaimFits
    BY DEF CInv
  <2>2. proc[q].cred # From(proc[p].cred)
    BY <1>1, <1>3, <2>1 DEF UnsavedFits
  <2>3. CASE proc[q].pc = "holding"
    BY <1>3, <2>1, <2>2, <2>3 DEF UnsavedFits
  <2>4. CASE proc[q].pc = "rotated"
    <3>1. q = Cli /\ Claim = From(proc[q].cred) /\ From(proc[q].cred) # 0
      BY <1>3, <2>1, <2>4 DEF UnsavedFits, Claim, CInv, Carried
    <3>2. From(proc[p].cred) # From(proc[q].cred)
      BY <2>1, <3>1 DEF ClaimFits
    <3> QED BY <2>2, <3>2
  <2> QED BY <1>3, <2>3, <2>4 DEF UnsavedPc
<1> QED BY <1>2, <1>3

LEMMA Admits ==
  ASSUME CInv, NEW p \in Proc, Authenticate(p)
  PROVE  CInv'
<1> DEFINE c == proc[p].cred
<1>1. proc[p].pc \in InUsePc /\ OthersRun(p) /\ UNCHANGED <<node, host, budget>>
  BY DEF Authenticate, InUsePc, Exits, CInv, CredTypes, OthersRun
<1>2. CASE ~Authentic(c, proc[p].id)
  <2>1. creds' = creds /\ proc' = [proc EXCEPT ![p] = Off]
    BY <1>2 DEF Authenticate, Exits
  <2>2. Rests(proc'[p]) /\ proc' \in [Proc -> Memo]
    BY <2>1, BoundAssumption DEF Rests, Off, CInv, CredTypes, Memo, ProcPc
  <2>3. CredTypes'
    BY <1>1, <2>1, <2>2 DEF CInv, CredTypes, From
  <2> QED BY <1>1, <2>1, <2>2, <2>3, ProcessRests DEF SameRows
<1>3. CASE Authentic(c, proc[p].id)
  <2> USE DEF From
  <2>1. /\ creds' = Activated(c)
        /\ proc' = [proc EXCEPT ![p].pc = IF @ = "running" THEN "beating" ELSE "admitted"]
    BY <1>3 DEF Authenticate
  <2>2. c \in DOMAIN creds /\ CredTypes
    BY <1>3 DEF Authentic, CInv
  <2>3. RevokesSome(creds', Superseded(c), {})
    BY <2>1, <2>2, ActivatedRevokes
  <2>4. /\ DOMAIN creds' = DOMAIN creds
        /\ \A d \in DOMAIN creds : creds'[d].from = creds[d].from
    BY <2>3 DEF RevokesSome
  <2>5. /\ proc'[p].pc \in {"beating", "admitted"} /\ proc'[p].cred = c
        /\ proc'[p].id = proc[p].id /\ proc' \in [Proc -> Memo]
    BY <2>1 DEF CInv, CredTypes, Memo, ProcPc
  <2>6. CredTypes'
    BY <1>1, <2>2, <2>3, <2>4, <2>5 DEF CredTypes, RevokesSome
  <2>7. Identified' /\ Carried'
    BY <1>1, <2>3, <2>4, <2>5 DEF CInv, Identified, Carried, OthersRun, RevokesSome, Anonymous,
       Carrying, InUsePc
  <2>8. \A q \in Proc : UseFits(q)'
    BY <1>1, <2>4, <2>5 DEF CInv, UseFits, Carried, OthersRun, InUsePc, Carrying
  <2>9. ASSUME NEW q \in Proc, proc'[q].pc \in UnsavedPc PROVE UnsavedFits(q)'
    <3>1. q # p /\ proc'[q] = proc[q] /\ UnsavedFits(q)
      BY <1>1, <2>5, <2>9 DEF UnsavedPc, OthersRun, CInv
    <3>2. proc[q].cred \notin Superseded(c) /\ proc[q].cred \in DOMAIN creds
      BY <1>1, <2>9, <3>1, SupersededSpares DEF CInv, Carried, UnsavedPc, Carrying
    <3>3. creds'[proc[q].cred].revoked => creds'[proc[q].cred].barred
      BY <2>3, <2>9, <3>1, <3>2 DEF RevokesSome, UnsavedFits
    <3> QED BY <1>1, <2>4, <2>5, <2>9, <3>1, <3>2, <3>3 DEF UnsavedFits, OthersRun
  <2>10. ClaimFits'
    <3>1. Claim' = Claim \/ Claim' = 0
      BY <1>1, <2>4, <2>5 DEF Claim, OthersRun, Proc, CInv, Carried, Carrying
    <3> QED BY <1>1, <2>4, <2>5, <3>1 DEF ClaimFits, CInv, OthersRun, InUsePc, Carried, Carrying
  <2>11. Barred' /\ RevokedStaysOut'
    BY <2>3 DEF CInv, Barred, RevokedStaysOut, RevokesSome
  <2>12. NeverLockedOut'
    BY <1>1, <2>3, SupersededSpares DEF CInv, NeverLockedOut, RevokesSome, Carried
  <2> QED BY <2>6, <2>7, <2>8, <2>9, <2>10, <2>11, <2>12 DEF CInv, UnsavedFits
<1> QED BY <1>2, <1>3

\* The rows D, and one more.
Extends(D, row) ==
  /\ creds' \in Seq(CredRow) /\ Len(creds') = Len(creds) + 1
  /\ DOMAIN creds' = DOMAIN creds \union {Len(creds) + 1}
  /\ \A d \in DOMAIN creds : creds'[d] = D[d]
  /\ creds'[Len(creds) + 1] = row

LEMMA AppendExtends ==
  ASSUME CredTypes, NEW D \in Seq(CredRow), Len(D) = Len(creds), NEW row \in CredRow,
         creds' = Append(D, row)
  PROVE  Extends(D, row)
<1>1. PICK n \in Nat : n = Len(creds) /\ DOMAIN creds = 1 .. n
  BY CredsDomain
<1>2. /\ creds' \in Seq(CredRow) /\ Len(creds') = n + 1
      /\ \A i \in 1 .. n : creds'[i] = D[i]
      /\ creds'[n + 1] = row
  BY <1>1, AppendProperties
<1>3. DOMAIN creds' = 1 .. (n + 1)
  BY <1>2, LenProperties
<1>4. 1 .. (n + 1) = (1 .. n) \union {n + 1}
  OBVIOUS
<1> QED BY <1>1, <1>2, <1>3, <1>4 DEF Extends

LEMMA CredentialIsRow ==
  ASSUME NEW agent \in Proc, NEW from \in Nat
  PROVE  Credential(agent, from) \in CredRow
BY DEF Credential, CredRow

LEMMA Enrolls ==
  ASSUME CInv, AInv, NEW p \in Proc, Enroll(p)
  PROVE  CInv'
<1> USE DEF From
<1>1. PICK e \in Nat : e = Len(creds) + 1 /\ e <= MaxCreds /\ e \notin DOMAIN creds /\ e > 0
  <2>1. Len(creds) \in Nat /\ DOMAIN creds = 1 .. Len(creds) /\ Len(creds) < MaxCreds
    BY CredsDomain DEF Enroll, CInv
  <2>2. Len(creds) + 1 \in Nat /\ Len(creds) + 1 <= MaxCreds /\ Len(creds) + 1 \notin DOMAIN creds
    BY <2>1, BoundAssumption
  <2> QED BY <2>1, <2>2
<1>2. /\ proc[p].pc = "enrolling" /\ proc[p].id = host.id /\ host.id \in Proc
      /\ UNCHANGED <<node, host>>
  BY DEF Enroll, CInv, Identified, CredTypes, HostFiles, Anonymous
<1>3. Extends(creds, Credential(host.id, 0))
  BY <1>2, AppendExtends, CredentialIsRow DEF Enroll, CInv, CredTypes
<1>4. /\ DOMAIN creds' = DOMAIN creds \union {e} /\ \A d \in DOMAIN creds : creds'[d] = creds[d]
      /\ creds'[e] = [agent |-> host.id, from |-> 0, revoked |-> FALSE, barred |-> FALSE]
      /\ Len(creds') = e /\ creds' \in Seq(CredRow)
  BY <1>1, <1>3 DEF Extends, Credential
<1>5. OthersRun(p) /\ proc' \in [Proc -> Memo] /\ budget' \in [fault : 0 .. MaxFaults, act : 0 .. MaxActs]
  <2>1. proc \in [Proc -> Memo] /\ budget \in [fault : 0 .. MaxFaults, act : 0 .. MaxActs]
        /\ e \in 0 .. MaxCreds
    BY <1>1, BoundAssumption DEF CInv, CredTypes
  <2>2. CASE /\ proc' = [proc EXCEPT ![p].cred = Len(creds'), ![p].token = None, ![p].pc = "holding"]
             /\ UNCHANGED budget
    <3>1. proc' = [proc EXCEPT ![p].cred = e, ![p].token = None, ![p].pc = "holding"]
      BY <1>4, <2>2
    <3>2. proc' = [proc EXCEPT ![p] = proc'[p]]
      BY <2>1, <3>1
    <3>3. proc'[p] \in Memo
      BY <2>1, <3>1 DEF Memo, ProcPc
    <3> QED BY <2>1, <2>2, <3>2, <3>3 DEF OthersRun
  <2>3. CASE Fault /\ Exits(p)
    BY <2>1, <2>3, BoundAssumption DEF Exits, OthersRun, Memo, Off, ProcPc, Fault
  <2> QED BY <2>2, <2>3 DEF Enroll
<1>6. \/ proc'[p].pc = "holding" /\ proc'[p].cred = e /\ proc'[p].id = host.id
      \/ proc'[p].pc = "off" /\ proc'[p].cred = 0
  BY <1>2, <1>4 DEF Enroll, Exits, Off, CInv, CredTypes, Memo
<1>7. CredTypes'
  BY <1>1, <1>2, <1>4, <1>5 DEF CInv, CredTypes
<1>8. Identified' /\ Carried'
  <2>1. Identified /\ Carried
    BY DEF CInv
  <2>2. Identified'
    BY <1>2, <1>4, <1>5, <1>6, <2>1, NamesAssumption DEF Identified, OthersRun, Anonymous, Proc
  <2>3. Carried'
    BY <1>2, <1>4, <1>5, <1>6, <2>1 DEF Carried, OthersRun, Carrying
  <2> QED BY <2>2, <2>3
<1>9. \A q \in Proc : UseFits(q)'
  BY <1>2, <1>4, <1>5, <1>6, <1>1 DEF CInv, UseFits, Carried, OthersRun, InUsePc, Carrying
<1>10. UnsavedFits(p)'
  <2>1. SUFFICES ASSUME proc'[p].pc = "holding" /\ proc'[p].cred = e PROVE UnsavedFits(p)'
    BY <1>6 DEF UnsavedFits, UnsavedPc
  <2>2. e # host.cred /\ creds'[e].from = 0 /\ ~creds'[e].revoked
    BY <1>1, <1>4 DEF CInv, Carried
  <2>3. \A d \in DOMAIN creds' : creds'[d].from # e
    BY <1>1, <1>4, CredFields, CredsDomain DEF CInv
  <2>4. \A q \in Proc \ {p} : proc'[q].cred # e
    BY <1>1, <1>5 DEF CInv, Carried, OthersRun
  <2> QED BY <1>2, <2>1, <2>2, <2>3, <2>4 DEF UnsavedFits
<1>11. ASSUME NEW q \in Proc \ {p}, proc'[q].pc \in UnsavedPc PROVE UnsavedFits(q)'
  <2>1. proc'[q] = proc[q] /\ UnsavedFits(q) /\ proc[q].cred \in DOMAIN creds
    BY <1>5, <1>11 DEF OthersRun, CInv, Carried, UnsavedPc, Carrying
  <2>2. \A d \in DOMAIN creds' : creds'[d].from # proc[q].cred
    BY <1>1, <1>4, <1>11, <2>1, CredFields DEF UnsavedFits, CInv
  <2>3. \A r \in Proc \ {q} : proc'[r].cred # proc[q].cred
    BY <1>1, <1>5, <1>6, <1>11, <2>1, CredFields DEF UnsavedFits, OthersRun, CInv
  <2> QED BY <1>2, <1>4, <1>11, <2>1, <2>2, <2>3 DEF UnsavedFits
<1>12. ClaimFits'
  <2>1. Claim' = Claim \/ Claim' = 0
    BY <1>4, <1>5, <1>6 DEF Claim, OthersRun, Proc, CInv, Carried, Carrying
  <2> QED BY <1>1, <1>2, <1>4, <1>5, <1>6, <2>1 DEF ClaimFits, CInv, OthersRun, InUsePc, Carried, Carrying
<1>13. Barred' /\ NeverLockedOut'
  BY <1>1, <1>2, <1>4 DEF CInv, Barred, NeverLockedOut, Carried
<1>14. RevokedStaysOut'
  BY <1>1, <1>4, CredFields DEF CInv, RevokedStaysOut
<1> QED BY <1>7, <1>8, <1>9, <1>10, <1>11, <1>12, <1>13, <1>14 DEF CInv, UnsavedFits

LEMMA Rotates ==
  ASSUME CInv, NEW p \in Proc, Rotate(p)
  PROVE  CInv'
<1> USE DEF From
<1> DEFINE c == proc[p].cred
<1>1. PICK e \in Nat : e = Len(creds) + 1 /\ e <= MaxCreds /\ e \notin DOMAIN creds /\ e > 0
  <2>1. Len(creds) \in Nat /\ DOMAIN creds = 1 .. Len(creds) /\ Len(creds) < MaxCreds
    BY CredsDomain DEF Rotate, CInv
  <2>2. Len(creds) + 1 \in Nat /\ Len(creds) + 1 <= MaxCreds /\ Len(creds) + 1 \notin DOMAIN creds
    BY <2>1, BoundAssumption
  <2> QED BY <2>1, <2>2
<1>2. /\ proc[p].pc = "ready" /\ p = Cli /\ proc[p].id = host.id /\ host.id \in Proc
      /\ UNCHANGED <<node, host>> /\ c \in DOMAIN creds /\ ~creds[c].revoked
      /\ creds[c].agent = host.id
  BY DEF Rotate, CInv, Identified, CredTypes, HostFiles, Anonymous, Authentic
<1>3. PICK D : D = Activated(c) /\ RevokesSome(D, Superseded(c), {})
  BY <1>2, ActivatedRevokes DEF CInv
<1>4. Extends(D, Credential(host.id, c))
  <2>1. c \in Nat /\ creds' = Append(D, Credential(host.id, c))
    BY <1>2, <1>3, CredFields DEF Rotate, RotateAgentCredential, CInv
  <2> QED BY <1>2, <1>3, <2>1, AppendExtends, CredentialIsRow DEF CInv, RevokesSome
<1>5. /\ DOMAIN creds' = DOMAIN creds \union {e}
      /\ creds'[e] = [agent |-> host.id, from |-> c, revoked |-> FALSE, barred |-> FALSE]
      /\ Len(creds') = e /\ creds' \in Seq(CredRow)
  BY <1>1, <1>4 DEF Extends, Credential
<1>6. \A d \in DOMAIN creds :
        /\ creds'[d].agent = creds[d].agent /\ creds'[d].from = creds[d].from
        /\ creds'[d].revoked = (creds[d].revoked \/ d \in Superseded(c))
        /\ creds'[d].barred = creds[d].barred
  BY <1>3, <1>4, CredFields DEF Extends, RevokesSome, CInv
<1>7. OthersRun(p) /\ proc' \in [Proc -> Memo] /\ budget' \in [fault : 0 .. MaxFaults, act : 0 .. MaxActs]
  <2>1. proc \in [Proc -> Memo] /\ budget \in [fault : 0 .. MaxFaults, act : 0 .. MaxActs]
        /\ e \in 0 .. MaxCreds
    BY <1>1, BoundAssumption DEF CInv, CredTypes
  <2>2. CASE /\ proc' = [proc EXCEPT ![p].cred = Len(creds'), ![p].pc = "rotated"]
             /\ UNCHANGED budget
    <3>1. proc' = [proc EXCEPT ![p].cred = e, ![p].pc = "rotated"]
      BY <1>5, <2>2
    <3>2. proc' = [proc EXCEPT ![p] = proc'[p]]
      BY <2>1, <3>1
    <3>3. proc'[p] \in Memo
      BY <2>1, <3>1 DEF Memo, ProcPc
    <3> QED BY <2>1, <2>2, <3>2, <3>3 DEF OthersRun
  <2>3. CASE Fault /\ Exits(p)
    BY <2>1, <2>3, BoundAssumption DEF Exits, OthersRun, Memo, Off, ProcPc, Fault
  <2> QED BY <2>2, <2>3 DEF Rotate
<1>8. \/ proc'[p].pc = "rotated" /\ proc'[p].cred = e /\ proc'[p].id = host.id
      \/ proc'[p].pc = "off" /\ proc'[p].cred = 0
  BY <1>2, <1>5 DEF Rotate, Exits, Off, CInv, CredTypes, Memo
<1>9. CredTypes'
  <2>1. \A d \in DOMAIN creds' : creds'[d].from < d
    BY <1>1, <1>2, <1>5, <1>6, CredFields, CredsDomain DEF CInv
  <2> QED BY <1>1, <1>2, <1>5, <1>7, <2>1 DEF CInv, CredTypes
<1>10. Identified' /\ Carried'
  BY <1>2, <1>5, <1>6, <1>7, <1>8 DEF CInv, Identified, Carried, OthersRun, Anonymous, Carrying
<1>11. \A q \in Proc : UseFits(q)'
  BY <1>2, <1>5, <1>6, <1>7, <1>8, <1>1 DEF CInv, UseFits, Carried, OthersRun, InUsePc, Carrying
<1>12. UnsavedFits(p)'
  <2>1. SUFFICES ASSUME proc'[p].pc = "rotated" /\ proc'[p].cred = e PROVE UnsavedFits(p)'
    BY <1>8 DEF UnsavedFits, UnsavedPc
  <2>2. e # host.cred /\ creds'[e].from # 0 /\ ~creds'[e].revoked
    BY <1>1, <1>2, <1>5, CredFields DEF CInv, Carried
  <2>3. \A d \in DOMAIN creds' : creds'[d].from # e
    BY <1>1, <1>2, <1>5, <1>6, CredFields, CredsDomain DEF CInv
  <2>4. \A q \in Proc \ {p} : proc'[q].cred # e
    BY <1>1, <1>7 DEF CInv, Carried, OthersRun
  <2> QED BY <1>2, <2>1, <2>2, <2>3, <2>4 DEF UnsavedFits
<1>13. ASSUME NEW q \in Proc \ {p}, proc'[q].pc \in UnsavedPc PROVE UnsavedFits(q)'
  <2>1. proc'[q] = proc[q] /\ UnsavedFits(q) /\ proc[q].cred \in DOMAIN creds
    BY <1>7, <1>13 DEF OthersRun, CInv, Carried, UnsavedPc, Carrying
  <2>2. c # proc[q].cred
    BY <1>13, <2>1 DEF UnsavedFits
  <2>3. \A d \in DOMAIN creds' : creds'[d].from # proc[q].cred
    BY <1>1, <1>5, <1>6, <1>13, <2>1, <2>2 DEF UnsavedFits
  <2>4. \A r \in Proc \ {q} : proc'[r].cred # proc[q].cred
    BY <1>1, <1>7, <1>8, <1>13, <2>1, CredFields DEF UnsavedFits, OthersRun, CInv
  <2>5. proc[q].cred \notin Superseded(c)
    BY <1>2, <1>13, <2>1, SupersededSpares DEF InUsePc
  <2>6. creds'[proc[q].cred].revoked => creds'[proc[q].cred].barred
    BY <1>6, <1>13, <2>1, <2>5 DEF UnsavedFits
  <2> QED BY <1>2, <1>6, <1>13, <2>1, <2>3, <2>4, <2>6 DEF UnsavedFits
<1>14. ClaimFits'
  <2>1. Claim = c
    BY <1>2 DEF Claim
  <2>2. Claim' = c \/ Claim' = 0
    BY <1>2, <1>5, <1>8 DEF Claim
  <2>3. c # 0 /\ c \in DOMAIN creds
    BY <1>2, CredFields DEF CInv
  <2>4. ASSUME NEW q \in Proc, proc'[q].pc \in InUsePc PROVE creds'[proc'[q].cred].from # c
    <3>1. q # p /\ proc'[q] = proc[q] /\ proc[q].cred \in DOMAIN creds
      BY <1>7, <1>8, <2>4 DEF OthersRun, InUsePc, CInv, Carried, Carrying
    <3>2. creds[proc[q].cred].from # c
      BY <2>1, <2>3, <2>4, <3>1 DEF CInv, ClaimFits
    <3> QED BY <1>6, <3>1, <3>2
  <2>5. host.cred # 0 => creds'[host.cred].from # c
    BY <1>6, <2>1, <2>3 DEF CInv, ClaimFits, Carried
  <2> QED BY <1>2, <2>2, <2>4, <2>5 DEF ClaimFits
<1>15. Barred'
  <2>1. ASSUME NEW d \in DOMAIN creds' PROVE creds'[d].barred => creds'[d].revoked
    <3>1. CASE d = e BY <1>5, <3>1
    <3>2. CASE d \in DOMAIN creds BY <1>6, <3>2 DEF CInv, Barred
    <3> QED BY <1>5, <3>1, <3>2
  <2> QED BY <2>1 DEF Barred
<1>16. NeverLockedOut'
  <2>1. host.cred \notin Superseded(c)
    BY <1>2, SupersededSpares DEF InUsePc
  <2> QED BY <1>2, <1>6, <2>1 DEF CInv, NeverLockedOut, Carried
<1>17. RevokedStaysOut'
  <2>1. ~creds[c].barred
    BY <1>2 DEF CInv, Barred
  <2>2. \A d \in DOMAIN creds' : creds'[d].from # e
    BY <1>1, <1>2, <1>5, <1>6, CredFields, CredsDomain DEF CInv
  <2>3. ASSUME NEW b \in DOMAIN creds', NEW d \in DOMAIN creds',
               creds'[b].barred /\ creds'[d].from = b
        PROVE  creds'[d].revoked
    <3>1. b # e /\ b \in DOMAIN creds /\ creds[b].barred
      BY <1>5, <1>6, <2>2, <2>3
    <3>2. d # e
      BY <1>5, <2>1, <2>3, <3>1
    <3> QED BY <1>5, <1>6, <2>3, <3>1, <3>2 DEF CInv, RevokedStaysOut
  <2> QED BY <2>3 DEF RevokedStaysOut
<1> QED BY <1>9, <1>10, <1>11, <1>12, <1>13, <1>14, <1>15, <1>16, <1>17 DEF CInv, UnsavedFits

LEMMA Saves ==
  ASSUME CInv, NEW p \in Proc, SaveCredential(p)
  PROVE  CInv'
<1> USE DEF From
<1> DEFINE e == proc[p].cred
<1>1. /\ proc[p].pc \in UnsavedPc /\ UNCHANGED <<creds, node, budget>>
      /\ host' = [host EXCEPT !.cred = e] /\ host \in HostFiles
  BY DEF SaveCredential, UnsavedPc, CInv, CredTypes
<1>2. /\ host'.cred = e /\ host'.id = host.id /\ e \in DOMAIN creds /\ UnsavedFits(p)
      /\ e \in 0 .. MaxCreds /\ host' \in HostFiles
  BY <1>1 DEF CInv, CredTypes, Carried, UnsavedPc, Carrying, HostFiles, Memo
<1>3. OthersRun(p) /\ proc' \in [Proc -> Memo]
  BY BoundAssumption DEF SaveCredential, OthersRun, CInv, CredTypes, Memo, Off, ProcPc
<1>4. \/ proc[p].pc = "holding" /\ proc'[p].pc = "boot" /\ proc'[p].cred = 0
      \/ /\ proc[p].pc = "rotated" /\ p = Cli /\ proc'[p].pc = "saved" /\ proc'[p].cred = e
         /\ proc'[p].id = proc[p].id
  BY DEF SaveCredential, CInv, CredTypes, Memo, Off, Carried
<1>5. CredTypes'
  BY <1>1, <1>2, <1>3 DEF CInv, CredTypes
<1>6. Identified' /\ Carried'
  <2>1. Identified /\ Carried
    BY DEF CInv
  <2>2. Identified'
    BY <1>1, <1>2, <1>3, <1>4, <2>1 DEF Identified, OthersRun, Anonymous
  <2>3. Carried'
    BY <1>1, <1>2, <1>3, <1>4, <2>1 DEF Carried, OthersRun, Carrying
  <2> QED BY <2>2, <2>3
<1>7. UseFits(p)'
  BY <1>1, <1>2, <1>4 DEF UseFits, UnsavedFits, InUsePc
<1>8. ASSUME NEW q \in Proc \ {p}, proc'[q].pc \in InUsePc, From(proc[q].cred)' # 0 PROVE UseFits(q)'
  <2>1. proc'[q] = proc[q] /\ proc[q].cred \in DOMAIN creds /\ From(proc[q].cred) # e
    BY <1>1, <1>2, <1>3, <1>8 DEF OthersRun, CInv, Carried, InUsePc, Carrying, UnsavedFits
  <2>2. From(e) # From(proc[q].cred)
    <3>1. CASE proc[p].pc = "holding"
      BY <1>1, <1>2, <1>8, <2>1, <3>1 DEF UnsavedFits
    <3>2. CASE proc[p].pc = "rotated"
      <4>1. Claim = From(e) /\ From(e) # 0
        BY <1>1, <1>2, <1>4, <3>2 DEF Claim, UnsavedFits
      <4> QED BY <1>8, <2>1, <4>1 DEF CInv, ClaimFits
    <3> QED BY <1>4, <3>1, <3>2
  <2> QED BY <1>1, <1>2, <2>1, <2>2 DEF UseFits
<1>9. ASSUME NEW q \in Proc, proc'[q].pc \in UnsavedPc PROVE UnsavedFits(q)'
  <2>1. q # p /\ proc'[q] = proc[q] /\ UnsavedFits(q) /\ proc[q].cred # e
    BY <1>2, <1>3, <1>4, <1>9, <1>1 DEF UnsavedPc, OthersRun, CInv, UnsavedFits
  <2>2. proc[q].cred # 0
    BY <1>9, <2>1, CredFields DEF CInv, Carried, UnsavedPc, Carrying
  <2> QED BY <1>1, <1>2, <1>3, <1>4, <1>9, <2>1, <2>2 DEF UnsavedFits, OthersRun
<1>10. ClaimFits'
  <2>1. CASE p = Cli
    BY <1>1, <1>4, <2>1 DEF ClaimFits, Claim
  <2>2. CASE p # Cli
    <3>1. Claim' = Claim /\ From(e) = 0
      BY <1>1, <1>2, <1>3, <1>4, <2>2 DEF Claim, OthersRun, Proc, UnsavedFits
    <3> QED BY <1>1, <1>2, <1>3, <1>4, <3>1, <2>2 DEF ClaimFits, CInv, OthersRun, InUsePc
  <2> QED BY <2>1, <2>2
<1>11. Barred' /\ RevokedStaysOut'
  BY <1>1 DEF CInv, Barred, RevokedStaysOut
<1>12. NeverLockedOut'
  BY <1>1, <1>2 DEF CInv, NeverLockedOut, Identified, UnsavedFits
<1> QED BY <1>5, <1>6, <1>7, <1>8, <1>9, <1>10, <1>11, <1>12 DEF CInv, UseFits, UnsavedFits

LEMMA Links ==
  ASSUME CInv, NEW p \in Proc, LinkID(p)
  PROVE  CInv'
<1>1. /\ proc[p].pc = "generated" /\ UNCHANGED <<creds, node, budget>>
      /\ host' = [host EXCEPT !.id = IF @ = None THEN p ELSE @]
      /\ proc' = [proc EXCEPT ![p].id = host'.id, ![p].pc = "named"]
  BY DEF LinkID
<1>2. /\ host' \in HostFiles /\ host'.cred = host.cred /\ host'.id \in Proc
      /\ host.id # None => host'.id = host.id
  BY <1>1 DEF CInv, CredTypes, HostFiles
<1>3. /\ OthersRun(p) /\ proc' \in [Proc -> Memo]
      /\ proc'[p].pc = "named" /\ proc'[p].id = host'.id /\ proc'[p].cred = proc[p].cred
  <2>1. proc \in [Proc -> Memo]
    BY DEF CInv, CredTypes
  <2>2. PICK i \in Proc : i = host'.id
    BY <1>2
  <2>3. proc' = [proc EXCEPT ![p].id = i, ![p].pc = "named"]
    BY <1>1, <2>2
  <2> QED BY <2>1, <2>2, <2>3 DEF OthersRun, Memo, ProcPc
<1>4. proc[p].cred = 0 /\ host'.id # None
  BY <1>1, <1>2, NamesAssumption DEF CInv, Carried, Carrying, Proc
<1>5. CredTypes'
  BY <1>1, <1>2, <1>3 DEF CInv, CredTypes, From
<1>6. CASE host.id # None
  BY <1>1, <1>2, <1>3, <1>4, <1>5, <1>6, ProcessRests DEF SameRows, Rests, CInv
<1>7. CASE host.id = None
  <2>1. \A q \in Proc : proc[q].pc \in Anonymous
    BY <1>7 DEF CInv, Identified
  <2>2. DOMAIN creds = {}
    BY <1>7, NamesAssumption, CredFields DEF CInv, Identified, CredRow, Proc
  <2>3. \A q \in Proc : proc'[q].pc \in Anonymous \union {"named"} /\ proc'[q].cred = 0
    BY <1>3, <1>4, <2>1 DEF OthersRun, CInv, Carried, Anonymous, Carrying
  <2>4. Identified' /\ Carried'
    BY <1>1, <1>2, <1>3, <1>4, <2>1, <2>2, <2>3
       DEF CInv, Identified, Carried, OthersRun, Anonymous, Carrying
  <2>5. \A q \in Proc : UseFits(q)' /\ UnsavedFits(q)'
    BY <2>3 DEF UseFits, UnsavedFits, Anonymous, InUsePc, UnsavedPc
  <2>6. ClaimFits'
    BY <2>3 DEF ClaimFits, Claim, Anonymous, Proc
  <2>7. Barred' /\ NeverLockedOut' /\ RevokedStaysOut'
    BY <1>1, <1>2, <2>2 DEF CInv, Carried, Barred, NeverLockedOut, RevokedStaysOut
  <2> QED BY <1>5, <2>4, <2>5, <2>6, <2>7 DEF CInv
<1> QED BY <1>6, <1>7

\* Operators revoke a credential with all that stems from it.
LEMMA LineHasHeirs == \A c \in DOMAIN creds : c \in Line(c) /\ Heirs(Line(c)) \subseteq Line(c)
BY DEF Line, Heirs

LEMMA Bars ==
  ASSUME CInv, NEW C \in SUBSET DOMAIN creds, Revoke(C), Heirs(C) \subseteq C,
         UNCHANGED <<host, proc>>, node' \in [Proc -> {"absent", "registered", "retired"}],
         budget' \in [fault : 0 .. MaxFaults, act : 0 .. MaxActs]
  PROVE  CInv'
<1> USE DEF From
<1>1. RevokesSome(creds', C, C)
  BY RevokeRevokes DEF CInv
<1>2. /\ DOMAIN creds' = DOMAIN creds /\ Len(creds') = Len(creds) /\ creds' \in Seq(CredRow)
      /\ \A d \in DOMAIN creds : creds'[d].agent = creds[d].agent /\ creds'[d].from = creds[d].from
  BY <1>1 DEF RevokesSome
<1>3. \A d \in DOMAIN creds :
        /\ creds'[d].revoked = (creds[d].revoked \/ d \in C)
        /\ creds'[d].barred = (creds[d].barred \/ d \in C)
  BY <1>1 DEF RevokesSome
<1>4. CredTypes'
  BY <1>2 DEF CInv, CredTypes
<1>5. Identified' /\ Carried'
  BY <1>2 DEF CInv, Identified, Carried
<1>6. \A q \in Proc : UseFits(q)'
  BY <1>2 DEF CInv, UseFits, Carried, InUsePc, Carrying
<1>7. ASSUME NEW q \in Proc, proc[q].pc \in UnsavedPc PROVE UnsavedFits(q)'
  <2>1. UnsavedFits(q) /\ proc[q].cred \in DOMAIN creds
    BY <1>7 DEF CInv, Carried, UnsavedPc, Carrying
  <2>2. creds'[proc[q].cred].revoked => creds'[proc[q].cred].barred
    BY <1>3, <1>7, <2>1 DEF UnsavedFits
  <2> QED BY <1>2, <1>7, <2>1, <2>2 DEF UnsavedFits
<1>8. ClaimFits'
  <2>1. Claim' = Claim
    BY <1>2 DEF Claim, CInv, Carried, Carrying, Proc
  <2> QED BY <1>2, <2>1 DEF CInv, ClaimFits, Carried, InUsePc, Carrying
<1>9. Barred' /\ NeverLockedOut'
  BY <1>2, <1>3 DEF CInv, Barred, NeverLockedOut, Carried
<1>10. RevokedStaysOut'
  <2>1. ASSUME NEW b \in DOMAIN creds, NEW d \in DOMAIN creds,
               creds'[b].barred /\ creds'[d].from = b
        PROVE  creds'[d].revoked
    <3>1. CASE b \in C
      BY <1>2, <1>3, <2>1, <3>1 DEF Heirs
    <3>2. CASE b \notin C
      BY <1>2, <1>3, <2>1, <3>2 DEF CInv, RevokedStaysOut
    <3> QED BY <3>1, <3>2
  <2> QED BY <1>2, <2>1 DEF RevokedStaysOut
<1> QED BY <1>4, <1>5, <1>6, <1>7, <1>8, <1>9, <1>10 DEF CInv, UnsavedFits

-----------------------------------------------------------------------------
(* Steps.                                                                  *)

LEMMA BudgetShrinks ==
  ASSUME CredTypes, Fault \/ Act \/ UNCHANGED budget
  PROVE  budget' \in [fault : 0 .. MaxFaults, act : 0 .. MaxActs]
BY BoundAssumption DEF CredTypes, Fault, Act

\* An Apply touches files and starts and ends daemons, and no credential.
LEMMA ApplyTouches ==
  ASSUME CInv, NEW a \in Apply, ApplyStep(a)
  PROVE  CInv'
<1> DEFINE Bystands ==
      /\ creds' = creds /\ node' = node /\ host' \in HostFiles
      /\ host'.id = host.id /\ host'.cred = host.cred
      /\ Fault \/ UNCHANGED budget
      /\ \/ proc' = proc
         \/ proc' = [proc EXCEPT ![a] = Off]
         \/ proc[a].pc = "off" /\ proc' = [proc EXCEPT ![a].pc = "boot"]
<1>0. host \in HostFiles
  BY DEF CInv, CredTypes
<1>1. Bystands
  <2>1. CASE \/ ConnectRefused(a) \/ Connect(a) \/ Probe(a) \/ ResolveCallback(a)
             \/ SelectArtifact(a) \/ Unfit(a) \/ UploadAgent(a) \/ VerifyAgent(a)
             \/ IssueBootstrapEnrollment(a) \/ WriteBootstrapFiles(a) \/ PromoteTest(a)
             \/ WaitAgentID(a) \/ WaitOnline(a) \/ WaitHeartbeat(a) \/ AssignSite(a)
             \/ ApplyDone(a) \/ TimesOut(a) \/ RevokeOnTheWayOut(a)
    BY <1>0, <2>1 DEF ConnectRefused, Connect, Probe, ResolveCallback, SelectArtifact, Unfit,
       UploadAgent, VerifyAgent, IssueBootstrapEnrollment, WriteBootstrapFiles, PromoteTest,
       WaitAgentID, WaitOnline, WaitHeartbeat, AssignSite, ApplyDone, TimesOut, RevokeOnTheWayOut
  <2>2. CASE \/ PrepareStaging(a) \/ PromoteMove(a) \/ CleanupEnrollmentToken(a) \/ CleanupStaging(a)
    BY <1>0, <2>2 DEF PrepareStaging, PromoteMove, CleanupEnrollmentToken, CleanupStaging, HostFiles
  <2>3. CASE StartAgent(a) \/ CloseTransport(a)
    BY <1>0, <2>3 DEF StartAgent, CloseTransport
  <2>4. CASE CommandFails(a)
    BY <1>0, <2>4 DEF CommandFails, HostFiles
  <2> QED BY <2>1, <2>2, <2>3, <2>4 DEF ApplyStep
<1>2. a \in Proc /\ proc \in [Proc -> Memo]
  BY DEF Proc, CInv, CredTypes
<1>3. budget' \in [fault : 0 .. MaxFaults, act : 0 .. MaxActs]
  BY <1>1, BudgetShrinks DEF CInv
<1>4. proc' \in [Proc -> Memo]
  BY <1>1, <1>2, BoundAssumption DEF Memo, Off, ProcPc
<1>5. CredTypes' /\ SameRows
  BY <1>1, <1>3, <1>4 DEF CInv, CredTypes, From, SameRows
<1>6. CASE proc' = proc
  BY <1>5, <1>6, NobodyMoves
<1>7. CASE proc' = [proc EXCEPT ![a] = Off] \/ (proc[a].pc = "off" /\ proc' = [proc EXCEPT ![a].pc = "boot"])
  <2>1. OthersRun(a) /\ Rests(proc'[a])
    BY <1>2, <1>7 DEF OthersRun, Rests, Off, CInv, Carried, Carrying, Memo
  <2> QED BY <1>2, <1>5, <2>1, ProcessRests
<1> QED BY <1>1, <1>6, <1>7

LEMMA ProcessMoves ==
  ASSUME CInv, AInv, NEW p \in Proc, ProcStep(p)
  PROVE  CInv'
<1>0. proc \in [Proc -> Memo] /\ host \in HostFiles /\ creds \in Seq(CredRow) /\ CredTypes
  BY DEF CInv, CredTypes
<1>1. ASSUME UNCHANGED <<creds, node>>, host' \in HostFiles, host'.id = host.id,
             host'.cred = host.cred, Fault \/ Act \/ UNCHANGED budget,
             proc' = [proc EXCEPT ![p] = proc'[p]], proc'[p] \in Memo, Rests(proc'[p])
      PROVE  CInv'
  <2>1. budget' \in [fault : 0 .. MaxFaults, act : 0 .. MaxActs]
    BY <1>0, <1>1, BudgetShrinks
  <2>2. OthersRun(p) /\ proc' \in [Proc -> Memo]
    BY <1>0, <1>1 DEF OthersRun
  <2>3. CredTypes' /\ SameRows
    BY <1>1, <2>1, <2>2 DEF CInv, CredTypes, SameRows, From
  <2> QED BY <1>1, <2>2, <2>3, ProcessRests
<1>2. ASSUME UNCHANGED <<creds, host>>, Fault \/ Act \/ UNCHANGED budget,
             node' \in [Proc -> {"absent", "registered", "retired"}],
             proc' = [proc EXCEPT ![p] = proc'[p]], proc'[p] \in Memo,
             Rests(proc'[p]) \/ GoesOn(p)
      PROVE  CInv'
  <2>1. budget' \in [fault : 0 .. MaxFaults, act : 0 .. MaxActs]
    BY <1>0, <1>2, BudgetShrinks
  <2>2. OthersRun(p) /\ proc' \in [Proc -> Memo]
    BY <1>0, <1>2 DEF OthersRun
  <2>3. CredTypes' /\ SameRows
    BY <1>2, <2>1, <2>2 DEF CInv, CredTypes, SameRows, From
  <2> QED BY <1>2, <2>2, <2>3, ProcessRests, ProcessGoesOn
<1>3. Off \in Memo /\ Rests(Off)
  BY BoundAssumption DEF Off, Memo, ProcPc, Rests
<1>4. proc[p] \in Memo /\ (proc[p].pc \notin Carrying => proc[p].cred = 0)
  BY <1>0 DEF CInv, Carried
<1>5. proc[p].pc \notin Anonymous => proc[p].id = host.id /\ host.id # None
  BY DEF CInv, Identified
<1>6. CASE EnrollRefused(p) \/ SaveFails(p) \/ RotateRefused(p) \/ ProcessDies(p)
  BY <1>0, <1>1, <1>3, <1>6 DEF EnrollRefused, SaveFails, RotateRefused, ProcessDies, Exits
<1>7. CASE RunByHand(p)
  <2>1. proc'[p] \in Memo /\ Rests(proc'[p])
    BY <1>0, <1>4, <1>7 DEF RunByHand, Memo, ProcPc, Rests, Carrying
  <2> QED BY <1>0, <1>1, <1>7, <2>1 DEF RunByHand
<1>8. CASE ReadID(p)
  <2>1. proc'[p] \in Memo /\ Rests(proc'[p])
    BY <1>0, <1>4, <1>8 DEF ReadID, Memo, ProcPc, Rests, Carrying, HostFiles
  <2> QED BY <1>0, <1>1, <1>8, <2>1 DEF ReadID
<1>9. CASE ConsumeEnrollmentToken(p)
  <2>1. CASE host.token = None
    BY <1>0, <1>1, <1>3, <1>9, <2>1 DEF ConsumeEnrollmentToken, Exits
  <2>2. CASE host.token # None
    <3>1. proc'[p] \in Memo /\ Rests(proc'[p])
      BY <1>0, <1>4, <1>5, <1>9, <2>2
         DEF ConsumeEnrollmentToken, Memo, ProcPc, Rests, Carrying, HostFiles, Anonymous
    <3>2. host' \in HostFiles /\ host'.id = host.id /\ host'.cred = host.cred
      BY <1>0, <1>9, <2>2 DEF ConsumeEnrollmentToken, HostFiles
    <3> QED BY <1>0, <1>1, <1>9, <2>2, <3>1, <3>2 DEF ConsumeEnrollmentToken
  <2> QED BY <2>1, <2>2
<1>10. CASE Register(p) \/ Heartbeat(p) \/ ContactRefused(p)
  <2>1. node' \in [Proc -> {"absent", "registered", "retired"}]
    BY <1>0, <1>10 DEF Register, Heartbeat, ContactRefused, Contact, CredTypes
  <2>2. proc[p].pc \in InUsePc /\ UNCHANGED <<creds, host>> /\ (Fault \/ UNCHANGED budget)
    BY <1>10 DEF Register, Heartbeat, ContactRefused, InUsePc
  <2>3. PICK m : m \in {After(p), Otherwise(p)} /\ proc' = [proc EXCEPT ![p] = m]
    BY <1>10 DEF Register, Heartbeat, ContactRefused
  <2>4. m \in Memo /\ proc'[p] = m
    BY <1>0, <1>3, <1>4, <2>3 DEF After, Otherwise, Memo, ProcPc
  <2>5. Rests(m) \/ GoesOn(p)
    BY <1>0, <1>3, <1>4, <2>2, <2>3, <2>4 DEF After, Otherwise, GoesOn, Memo
  <2> QED BY <1>2, <2>1, <2>2, <2>3, <2>4, <2>5
<1>11. CASE LinkID(p) BY <1>11, Links
<1>12. CASE LoadCredential(p) BY <1>12, Loads
<1>13. CASE Enroll(p) BY <1>13, Enrolls
<1>14. CASE SaveCredential(p) BY <1>14, Saves
<1>15. CASE Rotate(p) BY <1>15, Rotates
<1>16. CASE Authenticate(p) BY <1>16, Admits
<1> QED BY <1>6, <1>7, <1>8, <1>9, <1>10, <1>11, <1>12, <1>13, <1>14, <1>15, <1>16 DEF ProcStep

LEMMA TokenMoves ==
  ASSUME AInv, CInv, NEW p \in Proc, ProcStep(p)
  PROVE  AInv'
<1>1. CASE Register(p) \/ Heartbeat(p)
  <2>1. proc[p].id \in Proc
    BY <1>1 DEF Register, Heartbeat, CInv, Identified, CredTypes, HostFiles, Anonymous
  <2> QED BY <1>1, <2>1, SeenKeeps DEF Register, Heartbeat
<1>2. CASE Enroll(p)
  <2>1. proc[p].token \in Apply
    BY <1>2 DEF Enroll, CInv, Carried
  <2> QED BY <1>2, <2>1, TokenSettles DEF Enroll, AInv, ApplyTypes, States
<1>3. CASE ~(Register(p) \/ Heartbeat(p) \/ Enroll(p))
  <2>1. UNCHANGED <<apply, token>>
    BY <1>3 DEF ProcStep, RunByHand, ReadID, LinkID, LoadCredential, ConsumeEnrollmentToken,
       EnrollRefused, SaveCredential, SaveFails, Rotate, RotateRefused, Authenticate,
       ContactRefused, ProcessDies
  <2> QED BY <2>1, TokenSettles DEF AInv, ApplyTypes
<1> QED BY <1>1, <1>2, <1>3

LEMMA NInvStep == NInv /\ [Next]_vars => NInv'
<1> SUFFICES ASSUME NInv, [Next]_vars PROVE NInv'
  OBVIOUS
<1>0. AInv /\ CInv /\ CredTypes /\ ApplyTypes
  BY DEF NInv, AInv, CInv
<1>1. ASSUME NEW a \in Apply, ApplyStep(a) PROVE NInv'
  <2>1. AInv'
    BY <1>0, <1>1, ApplyAdvances, ApplyInstalls, ApplyEnds DEF ApplyStep, CredTypes
  <2> QED BY <1>0, <1>1, <2>1, ApplyTouches DEF NInv
<1>2. ASSUME NEW p \in Proc, ProcStep(p) PROVE NInv'
  BY <1>0, <1>2, ProcessMoves, TokenMoves DEF NInv
<1>3. ASSUME NEW c \in 1 .. MaxCreds, RevokeByOperator(c) PROVE NInv'
  <2>1. /\ Revoke(Line(c)) /\ Heirs(Line(c)) \subseteq Line(c) /\ Line(c) \subseteq DOMAIN creds
        /\ UNCHANGED <<host, proc, node, apply, token>> /\ Act
    BY <1>3, LineHasHeirs DEF RevokeByOperator, RevokeAgentCredential, Line
  <2>2. CInv'
    BY <1>0, <2>1, Bars, BudgetShrinks DEF CredTypes
  <2> QED BY <1>0, <2>1, <2>2, TokenSettles DEF NInv, ApplyTypes
<1>4. ASSUME NEW id \in Proc, RetireNode(id) PROVE NInv'
  <2> DEFINE C == {c \in DOMAIN creds : creds[c].agent = id}
  <2>1. /\ Revoke(C) /\ UNCHANGED <<host, proc, apply, token>> /\ Act
        /\ node' \in [Proc -> {"absent", "registered", "retired"}]
    BY <1>0, <1>4 DEF RetireNode, CredTypes
  <2>2. C \in SUBSET DOMAIN creds /\ Heirs(C) \subseteq C
    BY <1>0 DEF Heirs, CInv, Identified
  <2>3. budget' \in [fault : 0 .. MaxFaults, act : 0 .. MaxActs]
    BY <1>0, <2>1, BudgetShrinks
  <2> HIDE DEF C
  <2>4. CInv'
    BY <1>0, <2>1, <2>2, <2>3, Bars
  <2> QED BY <1>0, <2>1, <2>4, TokenSettles DEF NInv, ApplyTypes
<1>5. ASSUME NEW a \in Apply, RevokeTokenByOperator(a) \/ TokenExpires(a) PROVE NInv'
  <2>1. AInv'
    BY <1>0, <1>5, TokenSettles DEF RevokeTokenByOperator, TokenExpires, Revoked, ApplyTypes, States
  <2>2. UNCHANGED <<creds, node, host, proc>> /\ (Act \/ UNCHANGED budget)
    BY <1>5 DEF RevokeTokenByOperator, TokenExpires
  <2>3. CredTypes'
    BY <1>0, <2>2, BudgetShrinks DEF CredTypes, From
  <2> QED BY <1>0, <2>1, <2>2, <2>3, NobodyMoves DEF NInv, SameRows
<1>6. CASE ServerDies
  <2>1. UNCHANGED <<creds, node, host, proc>> /\ Fault
    BY <1>6 DEF ServerDies
  <2>2. CredTypes'
    BY <1>0, <2>1, BudgetShrinks DEF CredTypes, From
  <2> QED BY <1>0, <1>6, <2>1, <2>2, ServerDeath, NobodyMoves DEF NInv, SameRows
<1>7. CASE UNCHANGED vars
  <2>1. AInv'
    BY <1>0, <1>7, TokenSettles DEF vars, apply, ApplyTypes
  <2>2. CInv'
    BY <1>0, <1>7, NobodyMoves DEF vars, SameRows, CredTypes, From
  <2> QED BY <2>1, <2>2 DEF NInv
<1> QED BY <1>1, <1>2, <1>3, <1>4, <1>5, <1>6, <1>7 DEF Next

-----------------------------------------------------------------------------
(* Theorems.                                                               *)

LEMMA Enrollments == Spec => []NInv
<1>1. Init => NInv
  BY AInvInit, CInvInit DEF NInv
<1> QED BY <1>1, NInvStep, PTL DEF Spec

LEMMA NInvTypes == NInv => TypeOK
<1> SUFFICES ASSUME NInv PROVE TypeOK
  OBVIOUS
<1>0. ApplyTypes /\ CredTypes
  BY DEF NInv, AInv, CInv
<1>1. Len(creds) \in 0 .. MaxCreds
  BY <1>0, CredsDomain, BoundAssumption DEF CredTypes
<1>2. ASSUME NEW c \in DOMAIN creds
      PROVE  creds[c] \in [agent : Proc, from : 0 .. (c - 1), revoked : BOOLEAN, barred : BOOLEAN]
  BY <1>0, CredFields DEF CredRow, From
<1> QED BY <1>0, <1>1, <1>2 DEF TypeOK, ApplyTypes, CredTypes, States, HostFiles, Memo

\* The credential a host has stored works until an operator revokes it, whatever
\* rotation was cut short and whichever processes raced to store theirs, and
\* what stems from a credential an operator revoked works no more
\* (authenticateCredential, RotateAgentCredential and RevokeAgentCredential of
\* auth.go, SaveCredential of credential.go).
THEOREM LineStaysOpen == Spec => []CredentialTruth
<1>1. NInv => CredentialTruth
  BY NInvTypes DEF NInv, CInv, CredentialTruth
<1> QED BY <1>1, Enrollments, PTL

\* An Apply that succeeds saw its agent come back after the session was closed,
\* and however an Apply ends, its token enrolls nobody any more unless the
\* revocation failed (Apply of service.go).
THEOREM ApplyIsClean == Spec => []ApplyKeepsItsWord
<1>1. NInv => ApplyKeepsItsWord
  BY DEF NInv, AInv, ApplyFits, ApplyKeepsItsWord, Settled
<1> QED BY <1>1, Enrollments, PTL

\* The row of a node that is retired is written by nobody any more, though its
\* agent was admitted before, and nobody who waits for the node sees it again
\* (RegisterNode and RecordHeartbeat of the node store).
THEOREM RetiredStaysRetired == Spec => RetiredForGood
<1> DEFINE Kept(id) == node[id] = "retired" =>
               /\ node'[id] = "retired"
               /\ \A a \in Apply : agentID[a] = id => again'[a] = again[a]
<1>1. ASSUME NInv, [Next]_vars, NEW id \in Proc PROVE Kept(id)
  <2>0. /\ node \in [Proc -> {"absent", "registered", "retired"}] /\ again \in [Apply -> BOOLEAN]
        /\ \A p \in Proc : proc[p].pc \notin Anonymous => proc[p].id \in Proc
    BY <1>1 DEF NInv, AInv, CInv, ApplyTypes, CredTypes, Identified, HostFiles
  <2>1. ASSUME NEW a \in Apply, ApplyStep(a) PROVE Kept(id)
    BY <2>1 DEF ApplyStep, ConnectRefused, Connect, Probe, ResolveCallback, SelectArtifact, Unfit,
       PrepareStaging, UploadAgent, VerifyAgent, IssueBootstrapEnrollment, WriteBootstrapFiles,
       PromoteTest, PromoteMove, StartAgent, WaitAgentID, WaitOnline, CloseTransport,
       WaitHeartbeat, AssignSite, ApplyDone, TimesOut, CommandFails, CleanupEnrollmentToken,
       RevokeOnTheWayOut, CleanupStaging
  <2>2. ASSUME NEW p \in Proc, ProcStep(p) PROVE Kept(id)
    <3>1. CASE Register(p) \/ Heartbeat(p)
      <4>1. PICK seen \in Proc : seen = proc[p].id
        BY <2>0, <3>1 DEF Register, Heartbeat, Anonymous
      <4>2. /\ node[seen] # "retired" /\ node' = [node EXCEPT ![seen] = "registered"]
            /\ Seen(seen)
        BY <3>1, <4>1 DEF Register, Heartbeat, Contact
      <4> QED BY <2>0, <4>1, <4>2 DEF Seen
    <3>2. CASE ~(Register(p) \/ Heartbeat(p))
      <4>1. UNCHANGED <<node, again>>
        BY <2>2, <3>2 DEF ProcStep, RunByHand, ReadID, LinkID, LoadCredential, apply,
           ConsumeEnrollmentToken, Enroll, EnrollRefused, SaveCredential, SaveFails, Rotate,
           RotateRefused, Authenticate, ContactRefused, ProcessDies
      <4> QED BY <4>1
    <3> QED BY <3>1, <3>2
  <2>3. ASSUME NEW c \in 1 .. MaxCreds, RevokeByOperator(c) PROVE Kept(id)
    BY <2>3 DEF RevokeByOperator, apply
  <2>4. ASSUME NEW r \in Proc, RetireNode(r) PROVE Kept(id)
    BY <2>0, <2>4 DEF RetireNode, apply
  <2>5. ASSUME NEW a \in Apply, RevokeTokenByOperator(a) \/ TokenExpires(a) PROVE Kept(id)
    BY <2>5 DEF RevokeTokenByOperator, TokenExpires, apply
  <2>6. CASE ServerDies BY <2>6 DEF ServerDies
  <2>7. CASE UNCHANGED vars BY <2>7 DEF vars
  <2> QED BY <1>1, <2>1, <2>2, <2>3, <2>4, <2>5, <2>6, <2>7 DEF Next
<1>2. NInv /\ [Next]_vars =>
        [\A id \in Proc : node[id] = "retired" =>
           /\ node'[id] = "retired"
           /\ \A a \in Apply : agentID[a] = id => again'[a] = again[a]]_vars
  BY <1>1
<1> QED BY <1>2, Enrollments, PTL DEF Spec, RetiredForGood
=============================================================================
