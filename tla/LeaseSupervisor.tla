---------------------------- MODULE LeaseSupervisor ----------------------------
(***************************************************************************)
(* The supervisor of operation leases: the rows in the database, the       *)
(* entries in memory, one goroutine per entry that renews its row, and the *)
(* requests that ensure, inspect, settle and release the lease of a run.   *)
(* They overlap in every way: several handlers may be at work on one run,  *)
(* and the runs contend for their targets.                                 *)
(*                                                                         *)
(* A section under the supervisor's mutex is one step, and so is a         *)
(* transaction; between two of them everybody else may move. One Tick is   *)
(* one renewal interval, and times are kept relative to now: `left' says   *)
(* how many Ticks a snapshot of a lease has to run.                        *)
(***************************************************************************)
EXTENDS Integers

CONSTANTS
  Run,
  Resource,
  Targets,    \* the frozen target keys of each run
  Caller,     \* requests that may be under way at the same time
  NoRun,
  TTL,        \* life of a lease, in renewal intervals
  MaxStarts,  \* bound: entries the supervisor ever starts
  MaxCrashes, \* bound: ends of the process
  MaxFaults   \* bound: requests cut off and database errors that matter

ASSUME TargetsAssumption == Targets \in [Run -> (SUBSET Resource) \ {{}}]
ASSUME NoRunAssumption == NoRun \notin Run
ASSUME TTLAssumption == TTL \in Nat /\ TTL > 1
ASSUME BoundsAssumption == MaxStarts \in Nat /\ MaxCrashes \in Nat /\ MaxFaults \in Nat

VARIABLES
  row,     \* row[r]: the live row of operation_leases owned by r
  entry,   \* entry[r]: supervisor.active[r]
  loop,    \* loop[g]: the goroutine of the g-th entry started
  call,    \* call[c]: position and memory of a request
  started, \* entries started; names lease IDs and entries apart
  closed,  \* supervisor.closed
  over,    \* runs that ended, whose last task is done with the targets
  budget   \* faults that may still happen

vars == <<row, entry, loop, call, started, closed, over, budget>>

Start == 1 .. MaxStarts

NoRow == [id |-> 0, left |-> 0]
Row == [id : Start, left : 1 .. TTL] \union {NoRow}

NoEntry == [gen |-> 0, id |-> 0, left |-> 0, stopping |-> FALSE, failed |-> FALSE]
Entry == [gen : Start, id : Start, left : 0 .. TTL, stopping : BOOLEAN, failed : BOOLEAN]
           \union {NoEntry}

NoLoop == [pc |-> "off", run |-> NoRun, id |-> 0, left |-> 0, due |-> FALSE, cut |-> FALSE]
Loop == [pc : {"wait", "renew", "renewed", "refused"}, run : Run, id : Start,
         left : 0 .. TTL, due : BOOLEAN, cut : BOOLEAN] \union {NoLoop}

NoCall == [pc |-> "idle", op |-> "none", run |-> NoRun, gen |-> 0, id |-> 0, left |-> 0]
Call == [pc : {"inspect", "adopt", "doom", "resume", "acquire", "release", "drain",
               "delete", "forget"},
         op : {"validate", "ensure", "settle", "release"}, run : Run,
         gen : 0 .. MaxStarts, id : 0 .. MaxStarts, left : 0 .. TTL] \union {NoCall}

TypeOK ==
  /\ row \in [Run -> Row]
  /\ entry \in [Run -> Entry]
  /\ loop \in [Start -> Loop]
  /\ call \in [Caller -> Call]
  /\ started \in 0 .. MaxStarts
  /\ closed \in BOOLEAN
  /\ over \subseteq Run
  /\ budget \in [crash : 0 .. MaxCrashes, fault : 0 .. MaxFaults]

Init ==
  /\ row = [r \in Run |-> NoRow]
  /\ entry = [r \in Run |-> NoEntry]
  /\ loop = [g \in Start |-> NoLoop]
  /\ call = [c \in Caller |-> NoCall]
  /\ started = 0
  /\ closed = FALSE
  /\ over = {}
  /\ budget = [crash |-> MaxCrashes, fault |-> MaxFaults]

-----------------------------------------------------------------------------
(* Parts of the operations.                                                *)

Held(r) == row[r] # NoRow
Supervised(r) == entry[r] # NoEntry
\* A mistake the properties must catch: a goroutine does not look whether its
\* entry failed.
Healthy_Failed(r) == Supervised(r) /\ ~entry[r].stopping

Healthy(r) == Supervised(r) /\ ~entry[r].stopping /\ ~entry[r].failed
Contends(r, q) == q # r /\ Targets[r] \cap Targets[q] # {}
\* A mistake the properties must catch: a lease is cleared an interval before it
\* runs out.
Free_Early(r) == \A q \in Run : row[q].left > 1 => ~Contends(r, q)

Free(r) == \A q \in Run : Held(q) => ~Contends(r, q)

Spend == budget.fault > 0 /\ budget' = [budget EXCEPT !.fault = @ - 1]

\* startLocked: a new entry for lease id, and its goroutine.
StartEntry(r, id, left) ==
  /\ started < MaxStarts
  /\ started' = started + 1
  /\ entry' = [entry EXCEPT ![r] = [gen |-> started + 1, id |-> id, left |-> left,
                                    stopping |-> FALSE, failed |-> FALSE]]
  /\ loop' = [loop EXCEPT ![started + 1] =
                [pc |-> "wait", run |-> r, id |-> id, left |-> 0, due |-> FALSE, cut |-> FALSE]]

\* The goroutine of an entry is told to stop.
Cut(l, r) ==
  IF l[entry[r].gen] = NoLoop THEN l ELSE [l EXCEPT ![entry[r].gen].cut = TRUE]

\* fail: the entry of the run fails, whichever lease it stands for by now.
FailEntry(r, l) ==
  IF Supervised(r) /\ ~entry[r].failed
  THEN /\ entry' = [entry EXCEPT ![r].failed = TRUE]
       /\ loop' = Cut(l, r)
  ELSE entry' = entry /\ loop' = l

Return(c) == call' = [call EXCEPT ![c] = NoCall]
Goto(c, pc) == call' = [call EXCEPT ![c].pc = pc]

-----------------------------------------------------------------------------
(* Requests. ensureLease inspects, then resumes, then acquires; a          *)
(* validation only inspects; settling resumes and releases.                *)

Begin(c, op, pc, r) ==
  call' = [call EXCEPT ![c] = [NoCall EXCEPT !.pc = pc, !.op = op, !.run = r,
                                 !.id = IF pc = "inspect" THEN entry[r].id ELSE 0]]

CanInspect(r) == Supervised(r) /\ ~closed /\ ~entry[r].failed

\* ValidateOperationLease of an agent.
Validate(c, r) ==
  /\ call[c] = NoCall
  /\ CanInspect(r)
  /\ Begin(c, "validate", "inspect", r)
  /\ UNCHANGED <<row, entry, loop, started, closed, over, budget>>

\* ensureLease, called to confirm or to continue a run.
Ensure(c, r) ==
  /\ call[c] = NoCall
  /\ Begin(c, "ensure", IF CanInspect(r) THEN "inspect" ELSE "resume", r)
  /\ UNCHANGED <<row, entry, loop, started, closed, over, budget>>

\* The row of a run says that it ended, for good, and the task it was bound to
\* has converged. Only from then on its lease is released.
EndRun(r) ==
  /\ over' = over \union {r}
  /\ UNCHANGED <<row, entry, loop, call, started, closed, budget>>

\* resumeAndReleaseLeaseIfPresent.
Settle(c, r) ==
  /\ call[c] = NoCall /\ r \in over
  /\ Begin(c, "settle", "resume", r)
  /\ UNCHANGED <<row, entry, loop, started, closed, over, budget>>

\* The row is the one the entry stands for ...
InspectFound(c) ==
  /\ call[c].pc = "inspect"
  /\ row[call[c].run].id = call[c].id
  /\ call' = [call EXCEPT ![c].pc = "adopt", ![c].left = row[call[c].run].left]
  /\ UNCHANGED <<row, entry, loop, started, closed, over, budget>>

\* ... is another one or gone, or the request is cut off while it reads.
InspectFailed(c) ==
  /\ call[c].pc = "inspect"
  /\ \/ row[call[c].run].id # call[c].id /\ budget' = budget
     \/ row[call[c].run].id = call[c].id /\ Spend
  /\ Goto(c, "doom")
  /\ UNCHANGED <<row, entry, loop, started, closed, over>>

\* The entry takes over the row as it was read, and the request is answered,
\* unless ensureLease finds that the lease ran out meanwhile.
Adopt(c) ==
  /\ call[c].pc = "adopt"
  /\ LET r == call[c].run IN
     entry' = IF Supervised(r) /\ ~entry[r].failed /\ entry[r].id = call[c].id
              THEN [entry EXCEPT ![r].left = call[c].left] ELSE entry
  /\ IF call[c].op = "ensure" /\ call[c].left = 0 THEN Goto(c, "resume") ELSE Return(c)
  /\ UNCHANGED <<row, loop, started, closed, over, budget>>

\* The inspection, or the release, fails the entry and returns its error.
Doom(c) ==
  /\ call[c].pc = "doom"
  /\ FailEntry(call[c].run, loop)
  /\ IF call[c].op = "ensure" THEN Goto(c, "resume") ELSE Return(c)
  /\ UNCHANGED <<row, started, closed, over, budget>>

Answered(c) == IF call[c].op = "settle" THEN Goto(c, "release") ELSE Return(c)

\* Resume: an entry that is not failed answers for itself.
ResumeSupervised(c) ==
  /\ call[c].pc = "resume"
  /\ ~closed /\ Supervised(call[c].run) /\ ~entry[call[c].run].failed
  /\ IF entry[call[c].run].left > 0 THEN Answered(c) ELSE Return(c)
  /\ UNCHANGED <<row, entry, loop, started, closed, over, budget>>

\* A mistake the properties must catch: the stored lease is supervised again, but
\* not renewed.
ResumeStored_Unrenewed(c) ==
  /\ call[c].pc = "resume"
  /\ LET r == call[c].run IN
     /\ ~closed /\ ~Supervised(r) /\ Held(r)
     /\ StartEntry(r, row[r].id, row[r].left)
  /\ Answered(c)
  /\ UNCHANGED <<row, closed, over, budget>>

\* A stored lease is renewed and supervised again.
ResumeStored(c) ==
  /\ call[c].pc = "resume"
  /\ LET r == call[c].run IN
     /\ ~closed /\ ~Supervised(r) /\ Held(r)
     /\ row' = [row EXCEPT ![r].left = TTL]
     /\ StartEntry(r, row[r].id, TTL)
  /\ Answered(c)
  /\ UNCHANGED <<closed, over, budget>>

\* There is none: nothing to settle, a new one to acquire.
ResumeAbsent(c) ==
  /\ call[c].pc = "resume"
  /\ ~closed /\ ~Supervised(call[c].run) /\ ~Held(call[c].run)
  /\ IF call[c].op = "ensure" THEN Goto(c, "acquire") ELSE Return(c)
  /\ UNCHANGED <<row, entry, loop, started, closed, over, budget>>

\* Acquire: the stored lease of the run as it is, or a new one.
Acquire(c) ==
  /\ call[c].pc = "acquire"
  /\ LET r == call[c].run IN
     /\ ~closed /\ ~Supervised(r)
     /\ ~Held(r) => Free(r)
     /\ row' = IF Held(r) THEN row
               ELSE [row EXCEPT ![r] = [id |-> started + 1, left |-> TTL]]
     /\ StartEntry(r, row'[r].id, row'[r].left)
  /\ Return(c)
  /\ UNCHANGED <<closed, over, budget>>

\* Both return with or without a lease and change nothing: somebody supervises
\* it, a target is busy, the supervisor is closed, or the database refuses.
LeaveAsIs(c) ==
  /\ call[c].pc \in {"resume", "acquire"}
  /\ Return(c)
  /\ UNCHANGED <<row, entry, loop, started, closed, over, budget>>

-----------------------------------------------------------------------------
(* Release: stop the goroutine, wait for it, look, delete the row, forget   *)
(* the entry.                                                              *)

\* A mistake the properties must catch: the entry under release is not marked.
StopRenewal_Unmarked(c, op, r) ==
  /\ Supervised(r) /\ ~entry[r].failed
  /\ loop' = Cut(loop, r)
  /\ call' = [call EXCEPT ![c] = [pc |-> "drain", op |-> op, run |-> r,
                                  gen |-> entry[r].gen, id |-> entry[r].id, left |-> 0]]
  /\ UNCHANGED <<row, entry, started, closed, over, budget>>

StopRenewal(c, op, r) ==
  /\ Supervised(r) /\ ~entry[r].failed
  /\ entry' = [entry EXCEPT ![r].stopping = TRUE]
  /\ loop' = Cut(loop, r)
  /\ call' = [call EXCEPT ![c] = [pc |-> "drain", op |-> op, run |-> r,
                                  gen |-> entry[r].gen, id |-> entry[r].id, left |-> 0]]
  /\ UNCHANGED <<row, started, closed, over, budget>>

\* releaseLease of the handler that ended the run.
Release(c, r) ==
  /\ call[c] = NoCall /\ r \in over
  /\ StopRenewal(c, "release", r)

SettledRelease(c) ==
  /\ call[c].pc = "release"
  /\ StopRenewal(c, "settle", call[c].run)

\* The entry is gone or failed: an error to the caller.
ReleaseRefused(c) ==
  /\ call[c].pc = "release"
  /\ ~Supervised(call[c].run) \/ entry[call[c].run].failed
  /\ Return(c)
  /\ UNCHANGED <<row, entry, loop, started, closed, over, budget>>

Drained(c) == call[c].pc = "drain" /\ loop[call[c].gen] = NoLoop

ReleaseFound(c) ==
  /\ Drained(c)
  /\ row[call[c].run].id = call[c].id
  /\ Goto(c, "delete")
  /\ UNCHANGED <<row, entry, loop, started, closed, over, budget>>

ReleaseLost(c) ==
  /\ Drained(c)
  /\ \/ row[call[c].run].id # call[c].id /\ budget' = budget
     \/ row[call[c].run].id = call[c].id /\ Spend
  /\ Goto(c, "doom")
  /\ UNCHANGED <<row, entry, loop, started, closed, over>>

\* The row is deleted by its ID; one that is gone is as good.
DeleteRow(c) ==
  /\ call[c].pc = "delete"
  /\ LET r == call[c].run IN
     row' = IF row[r].id = call[c].id THEN [row EXCEPT ![r] = NoRow] ELSE row
  /\ Goto(c, "forget")
  /\ UNCHANGED <<entry, loop, started, closed, over, budget>>

DeleteFailed(c) ==
  /\ call[c].pc = "delete"
  /\ Spend
  /\ Goto(c, "doom")
  /\ UNCHANGED <<row, entry, loop, started, closed, over>>

\* The entry of the run is dropped, whichever lease it stands for by now.
Forget(c) ==
  /\ call[c].pc = "forget"
  /\ entry' = [entry EXCEPT ![call[c].run] = NoEntry]
  /\ Return(c)
  /\ UNCHANGED <<row, loop, started, closed, over, budget>>

-----------------------------------------------------------------------------
(* renewLoop.                                                              *)

Ends(g) == loop' = [loop EXCEPT ![g] = NoLoop]

LoopStops(g) ==
  /\ loop[g].pc = "wait" /\ loop[g].cut
  /\ Ends(g)
  /\ UNCHANGED <<row, entry, call, started, closed, over, budget>>

\* A tick: a goroutine that is not the run's any more ends by itself.
LoopTakes(g) ==
  /\ loop[g].pc = "wait" /\ loop[g].due
  /\ LET r == loop[g].run IN
     IF Healthy(r) /\ entry[r].gen = g
     THEN loop' = [loop EXCEPT ![g].pc = "renew", ![g].due = FALSE, ![g].left = entry[r].left]
     ELSE Ends(g)
  /\ UNCHANGED <<row, entry, call, started, closed, over, budget>>

\* Renew wants the row exactly as the goroutine knows it.
Fresh(g) ==
  /\ loop[g].left > 0
  /\ row[loop[g].run] = [id |-> loop[g].id, left |-> loop[g].left]

\* A mistake the properties must catch: a renewal writes the row anew.
LoopRenews_Upsert(g) ==
  /\ loop[g].pc = "renew"
  /\ row' = [row EXCEPT ![loop[g].run] = [id |-> loop[g].id, left |-> TTL]]
  /\ loop' = [loop EXCEPT ![g].pc = "renewed", ![g].left = TTL]
  /\ UNCHANGED <<entry, call, started, closed, over, budget>>

LoopRenews(g) ==
  /\ loop[g].pc = "renew"
  /\ Fresh(g)
  /\ row' = [row EXCEPT ![loop[g].run].left = TTL]
  /\ loop' = [loop EXCEPT ![g].pc = "renewed", ![g].left = TTL]
  /\ UNCHANGED <<entry, call, started, closed, over, budget>>

\* It is refused, or the database fails; one that was stopped does not mind.
LoopRefused(g) ==
  /\ loop[g].pc = "renew"
  /\ IF loop[g].cut
     THEN Ends(g) /\ budget' = budget
     ELSE /\ loop' = [loop EXCEPT ![g].pc = "refused", ![g].left = 0]
          /\ \/ ~Fresh(g) /\ budget' = budget
             \/ Fresh(g) /\ Spend
  /\ UNCHANGED <<row, entry, call, started, closed, over>>

\* A mistake the properties must catch: Release waits under the mutex.
LoopFails_Locked(g) ==
  /\ loop[g].pc = "refused"
  /\ \A c \in Caller : call[c].pc = "drain" => call[c].run # loop[g].run
  /\ FailEntry(loop[g].run, [loop EXCEPT ![g] = NoLoop])
  /\ UNCHANGED <<row, call, started, closed, over, budget>>

LoopFails(g) ==
  /\ loop[g].pc = "refused"
  /\ FailEntry(loop[g].run, [loop EXCEPT ![g] = NoLoop])
  /\ UNCHANGED <<row, call, started, closed, over, budget>>

LoopAdopts(g) ==
  /\ loop[g].pc = "renewed"
  /\ LET r == loop[g].run IN
     entry' = IF Healthy(r) /\ entry[r].gen = g
              THEN [entry EXCEPT ![r].left = loop[g].left] ELSE entry
  /\ loop' = [loop EXCEPT ![g].pc = "wait", ![g].left = 0]
  /\ UNCHANGED <<row, call, started, closed, over, budget>>

-----------------------------------------------------------------------------
(* Time and the process.                                                   *)

Age(n) == IF n > 0 THEN n - 1 ELSE 0

\* The goroutine has a renewal to make, or is making one.
Pending(r) ==
  LET g == entry[r].gen IN loop[g].due \/ loop[g].pc \in {"renew", "renewed", "refused"}

\* A renewal that is due is made before the lease runs out: the interval is a
\* third of its life, and a transaction waits five seconds at most.
Timely == \A r \in Run : Healthy(r) /\ row[r].left = 1 => ~Pending(r)

\* A renewal interval passes: rows run out, and every ticker fires.
Tick ==
  /\ Timely
  /\ row' = [r \in Run |-> IF row[r].left > 1 THEN [row[r] EXCEPT !.left = @ - 1] ELSE NoRow]
  /\ entry' = [r \in Run |-> [entry[r] EXCEPT !.left = Age(@)]]
  /\ loop' = [g \in Start |-> IF loop[g] = NoLoop THEN NoLoop
                              ELSE [loop[g] EXCEPT !.left = Age(@), !.due = TRUE]]
  /\ call' = [c \in Caller |-> [call[c] EXCEPT !.left = Age(@)]]
  /\ UNCHANGED <<started, closed, over, budget>>

\* Close stops every goroutine; the process ends after it, or without it.
Close ==
  /\ ~closed /\ budget.crash > 0
  /\ closed' = TRUE
  /\ entry' = [r \in Run |-> IF Supervised(r) THEN [entry[r] EXCEPT !.stopping = TRUE]
                                              ELSE NoEntry]
  /\ loop' = [g \in Start |->
                IF \E r \in Run : Supervised(r) /\ entry[r].gen = g /\ loop[g] # NoLoop
                THEN [loop[g] EXCEPT !.cut = TRUE] ELSE loop[g]]
  /\ UNCHANGED <<row, call, started, over, budget>>

Restart ==
  /\ budget.crash > 0
  /\ budget' = [budget EXCEPT !.crash = @ - 1]
  /\ entry' = [r \in Run |-> NoEntry]
  /\ loop' = [g \in Start |-> NoLoop]
  /\ call' = [c \in Caller |-> NoCall]
  /\ closed' = FALSE
  /\ UNCHANGED <<row, started, over>>

-----------------------------------------------------------------------------
\* What a request does once it began.
Serve(c) ==
  \/ InspectFound(c) \/ InspectFailed(c) \/ Adopt(c) \/ Doom(c)
  \/ ResumeSupervised(c) \/ ResumeStored(c) \/ ResumeAbsent(c)
  \/ Acquire(c) \/ LeaveAsIs(c)
  \/ SettledRelease(c) \/ ReleaseRefused(c) \/ ReleaseFound(c) \/ ReleaseLost(c)
  \/ DeleteRow(c) \/ DeleteFailed(c) \/ Forget(c)

Arrive(c) ==
  \E r \in Run : Validate(c, r) \/ Ensure(c, r) \/ Settle(c, r) \/ Release(c, r)

Renew(g) ==
  \/ LoopStops(g) \/ LoopTakes(g) \/ LoopRenews(g) \/ LoopRefused(g) \/ LoopFails(g)
  \/ LoopAdopts(g)

Next ==
  \/ \E r \in Run : EndRun(r)
  \/ \E c \in Caller : Arrive(c) \/ Serve(c)
  \/ \E g \in Start : Renew(g)
  \/ Tick \/ Close \/ Restart

Spec == Init /\ [][Next]_vars

\* Requests that began and goroutines run on, and time passes. Nobody has to
\* make a request.
Fairness ==
  /\ \A c \in Caller : WF_vars(Serve(c))
  /\ \A g \in Start : WF_vars(Renew(g))
  /\ WF_vars(Tick)

FairSpec == Spec /\ Fairness

-----------------------------------------------------------------------------
(* Properties.                                                             *)

Vouched(r) ==
  IF entry[r].failed THEN "failed"
  ELSE IF entry[r].stopping THEN "leaving"
  ELSE IF Supervised(r) THEN "active" ELSE "none"

\* What the runs may rely on: nothing, for one that is over.
Standing(r) == IF r \in over THEN "over" ELSE Vouched(r)

LS == INSTANCE LeaseService
        WITH held <- {r \in Run : Held(r)}, sup <- [r \in Run |-> Standing(r)]

\* The supervisor keeps the promise of LeaseService, with runs that contend and
\* requests that overlap, releases included: two runs never hold one target; the
\* row of a lease it vouches for, of a run that is not over, never goes before it
\* stops vouching for it; and one it gave up for lost is not vouched for again by
\* this process (lease_supervisor.go; operation_locks.go, Acquire).
KeepsPromise == LS!Spec

\* Whoever stops the goroutine of an entry, or loses its renewal, has said so on
\* the entry: as long as one counts as healthy it has a goroutine of its own that
\* renews its lease or will find it lost, also after a Release that failed halfway
\* or was overtaken (lease_supervisor.go, Release and renewLoop).
HealthyIsRenewed ==
  \A r \in Run : Vouched(r) = "active" =>
    LET l == loop[entry[r].gen] IN l # NoLoop /\ l.run = r /\ ~l.cut

\* A lease that was released or ran out never comes back: no renewal, resume or
\* late request brings back its row (operation_locks.go, Renew).
NothingComesBack ==
  [][\A r \in Run : row'[r].id \in {0, row[r].id} \/ row'[r].id > started]_vars

\* A lease nobody answers for runs out, however requests overlap: the goroutine
\* of an entry that failed, was stopped or was dropped does not go on renewing it
\* (lease_supervisor.go, renewLoop), and its targets become free.
NobodysLeaseLapses ==
  \A r \in Run : (Held(r) /\ Vouched(r) # "active") ~> (~Held(r) \/ Vouched(r) = "active")

\* A release that waits for its goroutine is not kept waiting for ever: it and
\* the goroutine take the same mutex (lease_supervisor.go, Release).
ReleaseEnds == \A c \in Caller : call[c].pc = "drain" ~> call[c].pc # "drain"

\* "Plugins may verify ownership/coverage immediately before a destructive
\* checkpoint without managing the lease" (lock.go): as long as nothing went
\* wrong, no lease of a run that is not over is given up for lost because
\* somebody looked at it.  The code does not meet this: TLC refutes it (README,
\* "Where the code departs from what is written about it").
VerificationIsPassive ==
  ~closed /\ budget = [crash |-> MaxCrashes, fault |-> MaxFaults]
    => \A r \in Run \ over : ~entry[r].failed
=============================================================================
