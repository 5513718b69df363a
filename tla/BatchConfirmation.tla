--------------------------- MODULE BatchConfirmation ---------------------------
(***************************************************************************)
(* Confirming a batch of operation runs with one durable receipt.  A batch *)
(* names findings of one check run and, for each, the planned run that     *)
(* repairs it.  Accepting it freezes the list; the Server then confirms    *)
(* the runs one at a time ("fan-out"), each needing the lease of its node, *)
(* and whatever could not be confirmed stays pending until a lease is      *)
(* given back.  The runs themselves are OperationRun's: here a run is only *)
(* its place on the way to the first action and the lease it holds.        *)
(***************************************************************************)
EXTENDS Naturals, Sequences

CONSTANTS
  Run, Node,     \* planned runs and the nodes they write to
  NodeOf,        \* [Run -> Node]
  Finding,       \* findings of the source check run
  FindingOf,     \* [Run -> Finding]: the finding a run was planned for
  Actionable,    \* the findings whose remediation offer is actionable
  Batch, Key,    \* batch identifiers and idempotency keys clients may use
  Request,       \* the requests clients may send
  NoRun,         \* a lease nobody holds
  MaxByName,     \* confirmations of a run by name
  MaxTrouble     \* storage and lease failures, lease expiries and Server crashes

\* A member of a request names a finding, a run, and the digest of the plan the
\* client was shown: the run's own, or some other one.
Requested == [finding : Finding, run : Run, digest : {"plan", "other"}]

ASSUME NodeOfAssumption == NodeOf \in [Run -> Node]
ASSUME NoRunAssumption == NoRun \notin Run
ASSUME BoundsAssumption == MaxByName \in Nat /\ MaxTrouble \in Nat
ASSUME FindingOfAssumption == FindingOf \in [Run -> Finding] /\ Actionable \subseteq Finding
ASSUME RequestAssumption ==
  Request \subseteq [batch : Batch, key : Key, members : Seq(Requested)]

VARIABLES
  run,       \* state of each run
  lease,     \* who holds each node
  receipts,  \* accepted receipts, oldest first
  server,    \* "up", "resuming" or "down"
  mu,        \* the handler inside confirmationMu, and what it has left to do
  contained, \* canceled runs whose task an Agent may still be carrying out
  unacked,   \* runs whose final result the Agent has no answer to yet
  waiting,   \* those of them whose continuation waits for confirmationMu
  named,     \* how many times a client confirmed a run by name
  begun,     \* history: runs that were queued for execution
  faults, crashes

vars == <<run, lease, receipts, server, mu, contained, unacked, waiting, named,
          begun, faults, crashes>>
journal == <<named, begun>>
agents == <<contained, unacked>>
budget == <<faults, crashes>>

-----------------------------------------------------------------------------

RunState == {"awaiting_confirmation", "queued", "acquiring_lock",
             "executing", "terminal", "canceled_before_apply"}

\* operationRunWasConfirmed, on the states kept here.
operationRunWasConfirmed == {"queued", "acquiring_lock", "executing", "terminal"}

MemberState == {"pending", "confirmed", "suppressed_canceled"}

\* A member of a receipt by place: receipt number and ordinal.
Place == UNION {{n} \X DOMAIN receipts[n].members : n \in DOMAIN receipts}
Member(p) == receipts[p[1]].members[p[2]]
Pending(p) == Member(p).state = "pending"

\* The pending members of a receipt, and those of all receipts. A fan-out goes
\* through them receipt by receipt, as they were accepted, and in the order of
\* their ordinals.
PendingOf(n) == {p \in {n} \X DOMAIN receipts[n].members : Pending(p)}
ListPending == UNION {PendingOf(n) : n \in DOMAIN receipts}

\* confirmationMu: the operation inside, the run it is confirming, the step of
\* that confirmation, the places it still goes through, and the run whose
\* continuation it is (NoRun when it is none).
Idle == [op |-> "none", at |-> "none", run |-> NoRun, todo |-> {}, tail |-> NoRun]
FanOut(todo, tail) ==
  [op |-> "fanout", at |-> "member", run |-> NoRun, todo |-> todo, tail |-> tail]
Confirming(r) ==
  [op |-> "confirm", at |-> "lease", run |-> r, todo |-> {}, tail |-> NoRun]

NormalReceipt(q) ==
  [batch |-> q.batch, key |-> q.key,
   members |-> [i \in DOMAIN q.members |->
                  [finding |-> q.members[i].finding, run |-> q.members[i].run,
                   digest |-> q.members[i].digest, state |-> "pending"]]]

\* The fingerprint covers the batch, the check run and the ordered members
\* without their state.
Fingerprint(x) ==
  [batch |-> x.batch,
   members |-> [i \in DOMAIN x.members |->
                 <<x.members[i].finding, x.members[i].run, x.members[i].digest>>]]

RunsOf(x) == {x.members[i].run : i \in DOMAIN x.members}

-----------------------------------------------------------------------------

Init ==
  /\ run = [r \in Run |-> "awaiting_confirmation"]
  /\ lease = [n \in Node |-> NoRun]
  /\ receipts = <<>>
  /\ server = "up"
  /\ mu = Idle
  /\ contained = {} /\ unacked = {} /\ waiting = {}
  /\ named = 0 /\ begun = {}
  /\ faults = 0 /\ crashes = 0

FaultLeft == faults + crashes < MaxTrouble
Fault == FaultLeft /\ faults' = faults + 1 /\ UNCHANGED crashes

Free == server = "up" /\ mu = Idle

-----------------------------------------------------------------------------
(* Accepting a batch.                                                      *)

\* normalizeOperationBatchMembers: no finding and no run twice.
normalizeOperationBatchMembers(q) ==
  /\ q.members # <<>>
  /\ \A i, j \in DOMAIN q.members :
       i # j => /\ q.members[i].run # q.members[j].run
                /\ q.members[i].finding # q.members[j].finding

\* preflightOperationBatch: each finding is still actionable, its run awaits
\* confirmation, was planned for that finding and with the digest shown.
preflightOperationBatch(q) ==
  \A i \in DOMAIN q.members :
    LET m == q.members[i]
    IN /\ m.finding \in Actionable
       /\ run[m.run] = "awaiting_confirmation"
       /\ m.digest = "plan"
       /\ m.finding = FindingOf[m.run]

GetByKey(k) == {n \in DOMAIN receipts : receipts[n].key = k}
GetByID(b) == {n \in DOMAIN receipts : receipts[n].batch = b}

\* The insert succeeds: no receipt has the key or the batch identifier, and no
\* receipt's member row has one of the runs (the schema makes run_id unique).
Insertable(q) ==
  /\ GetByKey(q.key) = {} /\ GetByID(q.batch) = {}
  /\ \A n \in DOMAIN receipts : RunsOf(receipts[n]) \cap RunsOf(q) = {}

\* A mistake the properties must catch: a known key is answered with a fan-out
\* of what this request names.
RepeatRewrites(q) ==
  /\ Free /\ normalizeOperationBatchMembers(q)
  /\ \E n \in GetByKey(q.key) :
       /\ receipts[n].batch = q.batch
       /\ receipts' = [receipts EXCEPT ![n] = NormalReceipt(q)]
       /\ mu' = FanOut({n} \X DOMAIN q.members, NoRun)
  /\ UNCHANGED <<run, lease, server, agents, waiting, journal, budget>>

\* ConfirmOperationBatch with a key that was accepted before: the same
\* fingerprint goes through the members still pending, another is refused.
ConfirmBatchAgain(q) ==
  /\ Free /\ normalizeOperationBatchMembers(q)
  /\ \E n \in GetByKey(q.key) :
       /\ Fingerprint(receipts[n]) = Fingerprint(q)
       /\ mu' = FanOut(PendingOf(n), NoRun)
  /\ UNCHANGED <<run, lease, receipts, server, agents, waiting, journal, budget>>

\* ConfirmOperationBatch of a new batch: the receipt is committed, then its
\* members are gone through.
AcceptBatch(q) ==
  /\ Free /\ normalizeOperationBatchMembers(q)
  /\ GetByKey(q.key) = {} /\ preflightOperationBatch(q) /\ Insertable(q)
  /\ receipts' = Append(receipts, NormalReceipt(q))
  /\ mu' = FanOut({Len(receipts) + 1} \X DOMAIN q.members, NoRun)
  /\ UNCHANGED <<run, lease, server, agents, waiting, journal, budget>>

\* The receipt is committed but reading it back fails: the client has an error
\* and nothing is fanned out.
AcceptUnread(q) ==
  /\ Free /\ normalizeOperationBatchMembers(q)
  /\ GetByKey(q.key) = {} /\ preflightOperationBatch(q) /\ Insertable(q)
  /\ Fault
  /\ receipts' = Append(receipts, NormalReceipt(q))
  /\ UNCHANGED <<run, lease, server, mu, agents, waiting, journal>>

-----------------------------------------------------------------------------
(* Fan-out.                                                                *)

InFanOut == server # "down" /\ mu.op = "fanout" /\ mu.at = "member"

Before(p, q) == p[1] < q[1] \/ (p[1] = q[1] /\ p[2] <= q[2])
First == {p \in mu.todo : \A q \in mu.todo : Before(p, q)}
Skip(p) == mu' = [mu EXCEPT !.at = "member", !.run = NoRun, !.todo = @ \ {p}]

Mark(p, s) ==
  receipts' = [receipts EXCEPT ![p[1]].members[p[2]].state = s]

\* A canceled run's member is settled as suppressed.
SuppressMember(p) ==
  /\ InFanOut /\ run[Member(p).run] = "canceled_before_apply"
  /\ Mark(p, "suppressed_canceled") /\ Skip(p)
  /\ UNCHANGED <<run, lease, server, agents, waiting, journal, budget>>

\* A run that was confirmed already, by name or by an earlier fan-out that did
\* not get to record it, needs only its member marked.
MarkStarted(p) ==
  /\ InFanOut /\ run[Member(p).run] \in operationRunWasConfirmed
  /\ Member(p).digest = "plan"
  /\ Mark(p, "confirmed") /\ Skip(p)
  /\ UNCHANGED <<run, lease, server, agents, waiting, journal, budget>>

\* The run cannot be read, or is not what was accepted: its member is passed by.
PassMember(p) ==
  /\ InFanOut
  /\ \/ Fault
     \/ /\ Member(p).digest # "plan" /\ run[Member(p).run] # "canceled_before_apply"
        /\ UNCHANGED budget
  /\ Skip(p)
  /\ UNCHANGED <<run, lease, receipts, server, agents, waiting, journal>>

\* A run that awaits confirmation is confirmed in this handler's own steps.
StartMember(p) ==
  /\ InFanOut /\ run[Member(p).run] = "awaiting_confirmation"
  /\ Member(p).digest = "plan"
  /\ mu' = [mu EXCEPT !.at = "lease", !.run = Member(p).run]
  /\ UNCHANGED <<run, lease, receipts, server, agents, waiting, journal, budget>>

\* The row of the member cannot be written: the whole pass ends in an error.
\* During start the Server exits; an Agent's continuation is answered with an
\* error and comes again.
MarkFails(p) ==
  /\ InFanOut
  /\ \/ run[Member(p).run] = "canceled_before_apply"
     \/ run[Member(p).run] \in operationRunWasConfirmed /\ Member(p).digest = "plan"
  /\ Fault
  /\ mu' = Idle /\ waiting' = waiting \ {mu.tail}
  /\ server' = IF server = "resuming" THEN "down" ELSE server
  /\ UNCHANGED <<run, lease, receipts, agents, journal>>

\* Every member was gone through; the Agent that waits for it has its answer.
FanOutDone ==
  /\ InFanOut /\ mu.todo = {}
  /\ mu' = Idle /\ server' = "up"
  /\ unacked' = unacked \ {mu.tail} /\ waiting' = waiting \ {mu.tail}
  /\ UNCHANGED <<run, lease, receipts, contained, journal, budget>>

-----------------------------------------------------------------------------
(* Confirming one run, in its own handler or within a fan-out.             *)

\* ensureLease: the run holds its node, or takes it when nobody does.
EnsureLease(r) ==
  /\ lease[NodeOf[r]] \in {r, NoRun}
  /\ lease' = [lease EXCEPT ![NodeOf[r]] = r]

Busy(r) == lease[NodeOf[r]] \notin {r, NoRun}

At(place) == server # "down" /\ mu.op \in {"confirm", "fanout"} /\ mu.at = place

\* The next state of a run on its way to the first action.
Onward(s) ==
  CASE s = "awaiting_confirmation" -> "queued"
    [] s = "queued" -> "acquiring_lock"
    [] s = "acquiring_lock" -> "executing"
    [] OTHER -> s

\* One turn of the loop in confirmOperationRunUnlocked for a run not yet at its
\* first action: the lease is ensured, then the next state is recorded.
ConfirmTurn ==
  /\ At("lease") /\ EnsureLease(mu.run)
  /\ run[mu.run] \in {"awaiting_confirmation", "queued", "acquiring_lock"}
  /\ run' = [run EXCEPT ![mu.run] = Onward(@)]
  /\ mu' = IF run[mu.run] # "acquiring_lock" THEN mu
           ELSE IF mu.op = "confirm" THEN Idle
           ELSE [mu EXCEPT !.at = "mark"]
  /\ begun' = begun \union {mu.run}
  /\ UNCHANGED <<receipts, server, agents, waiting, named, budget>>

\* Another run holds the node: a client's confirmation is refused, a member
\* stays pending.
ConfirmBusy ==
  /\ At("lease") /\ Busy(mu.run)
  /\ IF mu.op = "confirm" THEN mu' = Idle ELSE \E p \in First : Skip(p)
  /\ UNCHANGED <<run, lease, receipts, server, agents, waiting, journal, budget>>

\* The lease service or storage fails between any two steps; the lease may have
\* been taken by then. A fan-out goes on with the next member.
ConfirmFails ==
  /\ At("lease") /\ Fault
  /\ \/ UNCHANGED lease
     \/ EnsureLease(mu.run)
  /\ IF mu.op = "confirm" THEN mu' = Idle ELSE \E p \in First : Skip(p)
  /\ UNCHANGED <<run, receipts, server, agents, waiting, journal>>

\* The confirmed member is recorded.
MarkConfirmed(p) ==
  /\ At("mark") /\ Mark(p, "confirmed") /\ Skip(p)
  /\ UNCHANGED <<run, lease, server, agents, waiting, journal, budget>>

MarkConfirmedFails ==
  /\ At("mark") /\ Fault
  /\ mu' = Idle /\ waiting' = waiting \ {mu.tail}
  /\ server' = IF server = "resuming" THEN "down" ELSE server
  /\ UNCHANGED <<run, lease, receipts, agents, journal>>

\* ConfirmOperationRun: a client confirms one run by name. It starts no fan-out.
ConfirmOperationRun(r) ==
  /\ Free /\ run[r] \in {"awaiting_confirmation", "queued", "acquiring_lock"}
  /\ mu' = Confirming(r) /\ named < MaxByName /\ named' = named + 1
  /\ UNCHANGED <<run, lease, receipts, server, agents, waiting, begun, budget>>

-----------------------------------------------------------------------------
(* What gives a lease back, and the fan-out that follows.                  *)

GiveBack(r) == lease' = [lease EXCEPT ![NodeOf[r]] = IF @ = r THEN NoRun ELSE @]

\* CancelOperationRun before the first action, or again: the run is canceled,
\* its lease given back (kept while an action of it may still be carried out),
\* and the members pending anywhere are gone through.
CancelOperationRun(r) ==
  /\ Free /\ run[r] \in RunState \ {"terminal", "executing"}
  /\ run' = [run EXCEPT ![r] = "canceled_before_apply"]
  /\ IF r \in contained THEN EnsureLease(r) ELSE GiveBack(r)
  /\ mu' = FanOut(ListPending, NoRun)
  /\ UNCHANGED <<receipts, server, agents, waiting, journal, budget>>

\* Canceling a run whose restore point is being made: storage cancels the run,
\* the lease is kept until the Agent's task has ended, and the fan-out runs.
CancelExecuting(r) ==
  /\ Free /\ run[r] = "executing" /\ lease[NodeOf[r]] = r
  /\ run' = [run EXCEPT ![r] = "canceled_before_apply"]
  /\ contained' = contained \union {r}
  /\ mu' = FanOut(ListPending, NoRun)
  /\ UNCHANGED <<lease, receipts, server, unacked, waiting, journal, budget>>

\* The lease cannot be given back: the cancellation stands, the client has an
\* error, and nothing is fanned out.
CancelKeepsLease(r) ==
  /\ Free /\ run[r] \in RunState \ {"terminal", "executing"}
  /\ Fault
  /\ run' = [run EXCEPT ![r] = "canceled_before_apply"]
  /\ UNCHANGED <<lease, receipts, server, mu, agents, waiting, journal>>

\* The Agent carries a run, or the last task of a canceled one, to its end;
\* the result is recorded and its answer is still owed.
RunEnds(r) ==
  /\ server = "up" /\ (run[r] = "executing" \/ r \in contained)
  /\ run' = [run EXCEPT ![r] = IF @ = "executing" THEN "terminal" ELSE @]
  /\ contained' = contained \ {r} /\ unacked' = unacked \union {r}
  /\ UNCHANGED <<lease, receipts, server, mu, waiting, journal, budget>>

\* A mistake the properties must catch: a finished run wakes nobody.
ContinueOnly(r) ==
  /\ server = "up" /\ r \in unacked \ waiting
  /\ GiveBack(r) /\ unacked' = unacked \ {r}
  /\ UNCHANGED <<run, receipts, server, mu, contained, waiting, journal, budget>>

\* continueOperationRun for a run that ended: its lease is given back, outside
\* confirmationMu, and the handler goes on to the fan-out.
ContinueOperationRun(r) ==
  /\ server = "up" /\ r \in unacked \ waiting
  /\ GiveBack(r) /\ waiting' = waiting \union {r}
  /\ UNCHANGED <<run, receipts, server, mu, agents, journal, budget>>

\* It has confirmationMu and goes through the members pending anywhere.
ResumeAfter(r) ==
  /\ Free /\ r \in waiting
  /\ mu' = FanOut(ListPending, r)
  /\ UNCHANGED <<run, lease, receipts, server, agents, waiting, journal, budget>>

\* A lease is not renewed in time; the run that held it is none the wiser.
Expire(n) ==
  /\ lease[n] # NoRun /\ Fault
  /\ lease' = [lease EXCEPT ![n] = NoRun]
  /\ UNCHANGED <<run, receipts, server, mu, agents, waiting, journal>>

-----------------------------------------------------------------------------
(* Restart.                                                                *)

Crash ==
  /\ server # "down" /\ FaultLeft /\ crashes' = crashes + 1
  /\ server' = "down" /\ mu' = Idle /\ waiting' = {}
  /\ UNCHANGED <<run, lease, receipts, agents, journal, faults>>

\* A run between confirmation and its first action when the Server went down.
Interim == {r \in Run : run[r] \in {"queued", "acquiring_lock"}}

\* A run that is over and has no action left that may still be carried out.
Ended(r) ==
  run[r] = "terminal" \/ (run[r] = "canceled_before_apply" /\ r \notin contained)

\* A mistake the properties must catch: only the runs are resumed at start.
StartUnbatched ==
  /\ server = "down"
  /\ lease' = [n \in Node |->
       IF \E r \in Interim : NodeOf[r] = n
       THEN CHOOSE r \in Interim : NodeOf[r] = n
       ELSE IF lease[n] # NoRun /\ Ended(lease[n]) THEN NoRun ELSE lease[n]]
  /\ run' = [r \in Run |-> IF r \in Interim THEN Onward(run[r]) ELSE run[r]]
  /\ server' = "up"
  /\ UNCHANGED <<receipts, mu, agents, waiting, journal, budget>>

\* ResumeOperationRuns, then ResumeBatchConfirmations: each run between
\* confirmation and its first action goes one step further when it has or gets
\* its lease (the Server exits when one does not), an ended run's lease is given
\* back, and the members pending anywhere are gone through.
Start ==
  /\ server = "down"
  /\ \A r \in Interim : lease[NodeOf[r]] \in {r, NoRun}
  /\ \A r, s \in Interim : NodeOf[r] = NodeOf[s] => r = s
  /\ lease' = [n \in Node |->
       IF \E r \in Interim : NodeOf[r] = n
       THEN CHOOSE r \in Interim : NodeOf[r] = n
       ELSE IF lease[n] # NoRun /\ Ended(lease[n]) THEN NoRun ELSE lease[n]]
  /\ run' = [r \in Run |-> IF r \in Interim THEN Onward(run[r]) ELSE run[r]]
  /\ server' = "resuming"
  /\ mu' = FanOut(ListPending, NoRun)
  /\ UNCHANGED <<receipts, agents, waiting, journal, budget>>

-----------------------------------------------------------------------------

HandlerStep ==
  \/ \E p \in First : \/ SuppressMember(p) \/ MarkStarted(p) \/ PassMember(p)
                     \/ StartMember(p) \/ MarkFails(p) \/ MarkConfirmed(p)
  \/ FanOutDone \/ ConfirmTurn \/ ConfirmBusy \/ ConfirmFails \/ MarkConfirmedFails

ClientStep ==
  \/ \E q \in Request : ConfirmBatchAgain(q) \/ AcceptBatch(q) \/ AcceptUnread(q)
  \/ \E r \in Run : \/ ConfirmOperationRun(r) \/ CancelOperationRun(r)
                    \/ CancelExecuting(r) \/ CancelKeepsLease(r)

Next ==
  \/ HandlerStep
  \/ ClientStep
  \/ \E r \in Run : RunEnds(r) \/ ContinueOperationRun(r) \/ ResumeAfter(r)
  \/ \E n \in Node : Expire(n)
  \/ Crash \/ Start

Spec == Init /\ [][Next]_vars

\* A handler inside confirmationMu goes on, a waiting one gets in however often
\* others do, an Agent finishes a run and repeats its result until it is
\* answered, and a Server that is down is started.
Fairness ==
  /\ WF_vars(HandlerStep)
  /\ WF_vars(Start)
  /\ \A r \in Run : /\ WF_vars(RunEnds(r)) /\ WF_vars(ContinueOperationRun(r))
                    /\ SF_vars(ResumeAfter(r))

FairSpec == Spec /\ Fairness

-----------------------------------------------------------------------------

TypeOK ==
  /\ run \in [Run -> RunState]
  /\ lease \in [Node -> Run \union {NoRun}]
  /\ \A n \in DOMAIN receipts :
       /\ receipts[n].batch \in Batch /\ receipts[n].key \in Key
       /\ \A i \in DOMAIN receipts[n].members :
            receipts[n].members[i] \in
              [finding : Finding, run : Run, digest : {"plan", "other"}, state : MemberState]
  /\ server \in {"up", "resuming", "down"}
  /\ mu.op \in {"none", "confirm", "fanout"} /\ mu.at \in {"none", "member", "lease", "mark"}
  /\ mu.run \in Run \union {NoRun} /\ mu.tail \in Run \union {NoRun}
  /\ mu.todo \subseteq Place
  /\ contained \subseteq Run /\ unacked \subseteq Run /\ waiting \subseteq unacked
  /\ begun \subseteq Run /\ named \in 0 .. MaxByName
  /\ faults + crashes \in 0 .. MaxTrouble

\* What a client accepted is never rewritten: receipts are only added, and a
\* member only goes from pending to one of the two facts about it, once.
ReceiptsFrozen ==
  [][/\ Len(receipts') >= Len(receipts)
     /\ \A n \in DOMAIN receipts :
          /\ Fingerprint(receipts'[n]) = Fingerprint(receipts[n])
          /\ receipts'[n].key = receipts[n].key
          /\ \A i \in DOMAIN receipts[n].members :
               receipts[n].members[i].state # "pending"
                 => receipts'[n].members[i] = receipts[n].members[i]]_vars

\* A run has at most one receipt, so canceling it settles the only batch that
\* could still start it.
OneReceiptPerRun ==
  \A n, k \in DOMAIN receipts :
    n # k => /\ RunsOf(receipts[n]) \cap RunsOf(receipts[k]) = {}
             /\ receipts[n].key # receipts[k].key

\* What is accepted can be carried out: a receipt holds only runs whose plan and
\* finding are the ones shown, so that no member is passed by for ever.
AcceptedAsShown ==
  \A n \in DOMAIN receipts : \A i \in DOMAIN receipts[n].members :
    LET m == receipts[n].members[i]
    IN m.digest = "plan" /\ m.finding = FindingOf[m.run] /\ m.finding \in Actionable

\* A receipt tells the truth: a confirmed member's run was queued, a suppressed
\* member's run is canceled, and neither is said while the opposite holds.
ReceiptTruth ==
  \A n \in DOMAIN receipts : \A i \in DOMAIN receipts[n].members :
    LET m == receipts[n].members[i]
    IN /\ m.state = "confirmed" => m.run \in begun
       /\ m.state = "suppressed_canceled" => run[m.run] = "canceled_before_apply"

\* A member is left waiting for a reason: unless a step failed or a lease
\* expired, whenever the Server rests a pending member's run either was started
\* by name or waits for a node that a run with work left holds. A crash is no
\* excuse: the receipt alone is enough to go on from.
PendingForAReason ==
  Free /\ faults = 0 /\ unacked = {} =>
    \A n \in DOMAIN receipts : \A i \in DOMAIN receipts[n].members :
      LET m == receipts[n].members[i]
      IN m.state = "pending" /\ run[m.run] = "awaiting_confirmation"
           => Busy(m.run) /\ ~Ended(lease[NodeOf[m.run]])

\* Every accepted member is settled in the end, whatever the order in which the
\* runs of the batch get their nodes, as long as nothing fails.
MembersSettle ==
  \A r \in Run :
    LET waits == /\ faults = 0 /\ crashes = 0
                 /\ \E n \in DOMAIN receipts : \E i \in DOMAIN receipts[n].members :
                      /\ receipts[n].members[i].run = r
                      /\ receipts[n].members[i].state = "pending"
    IN waits ~> ~waits

\* A receipt can be believed and carried out: it names each run once and as it
\* was shown, what it says of a member is so, and a member it leaves pending has
\* a run in its way (product_workflow.go, ConfirmOperationBatch and
\* ResumeOperationRuns; operation_batch_confirmations.go of the store).
ReceiptSound ==
  TypeOK /\ OneReceiptPerRun /\ AcceptedAsShown /\ ReceiptTruth /\ PendingForAReason
=============================================================================
