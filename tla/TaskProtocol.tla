----------------------------- MODULE TaskProtocol -----------------------------
(***************************************************************************)
(* One agent and the Server's table of its tasks. The agent claims a task,  *)
(* acknowledges it, executes it, caches the result in a journal of one      *)
(* entry and submits it until the Server accepts it. Requests and answers   *)
(* get lost or arrive late, users cancel tasks, the agent's process dies at *)
(* any point, and some actions end with a reboot of the agent's own host.   *)
(***************************************************************************)
EXTENDS Integers

CONSTANTS
  Task,          \* tasks of the agent, numbered in the order of their creation
  Kind,          \* Kind[t]: "check", "planning" or "execution"
  Reconnecting,  \* execution tasks whose action may hand over to a reboot
  MaxCrashes,    \* bound: deaths of the agent's process or its host
  MaxLosses,     \* bound: requests the agent gives up
  MaxLate        \* bound: given-up requests the Server still receives, later

ASSUME TaskAssumption == Task \subseteq Nat
ASSUME KindAssumption == Kind \in [Task -> {"check", "planning", "execution"}]
ASSUME ReconnectingAssumption == \A t \in Reconnecting : t \in Task /\ Kind[t] = "execution"
ASSUME BoundsAssumption == MaxCrashes \in Nat /\ MaxLosses \in Nat /\ MaxLate \in Nat

VARIABLES
  phase,      \* phase[t]: tasks.phase
  result,     \* result[t]: the stored task_results row
  journal,    \* the agent's journal file
  pc,         \* where the agent's ProcessOne is
  cur,        \* the task and submission it holds in memory
  work,       \* work[t]: what was done on the node
  handoff,    \* tasks whose action ended with a handoff to a reboot
  booted,     \* those whose host has booted since
  rebooting,  \* the host was told to reboot
  late,       \* given-up requests still on their way
  budget      \* faults that may still happen

server == <<phase, result>>
node == <<work, handoff, booted, rebooting>>
vars == <<phase, result, journal, pc, cur, work, handoff, booted, rebooting, late, budget>>

-----------------------------------------------------------------------------

Phase == {"pending", "claimed", "running", "cancel_requested",
          "canceled", "succeeded", "failed"}
TerminalPhase == {"canceled", "succeeded", "failed"}
HeldPhase == {"claimed", "running", "cancel_requested"}

\* A submission; an interrupted one is a failure of its own wording.
Submission == {"succeeded", "failed", "interrupted", "canceled"}
PhaseOf(s) == IF s = "interrupted" THEN "failed" ELSE s

None == [task |-> -1, sub |-> "none"]
Holding(t, s) == [task |-> t, sub |-> s]
NoEntry == [state |-> "none", task |-> -1, sub |-> "none"]
Entry(s, t, x) == [state |-> s, task |-> t, sub |-> x]

Request ==
  [op : {"claim", "acknowledge", "submit"}, task : Task \union {-1},
   sub : Submission \union {"none"}]

Pc == {"idle", "claimed", "acknowledge", "acknowledged", "execute", "executing",
       "cache", "refresh", "replace", "submit", "clear", "reconnect", "reboot"}

TypeOK ==
  /\ phase \in [Task -> Phase]
  /\ result \in [Task -> Submission \union {"none"}]
  /\ journal \in [state : {"none", "claimed", "executing", "reconnecting", "completed"},
                  task : Task \union {-1}, sub : Submission \union {"none"}]
  /\ pc \in Pc
  /\ cur \in [task : Task \union {-1}, sub : Submission \union {"none"}]
  /\ work \in [Task -> {"never", "begun", "ended", "again"}]
  /\ handoff \subseteq Task /\ booted \subseteq Task
  /\ rebooting \in BOOLEAN
  /\ late \subseteq Request
  /\ budget \in [crash : 0 .. MaxCrashes, loss : 0 .. MaxLosses, late : 0 .. MaxLate]

Init ==
  /\ phase = [t \in Task |-> "pending"]
  /\ result = [t \in Task |-> "none"]
  /\ journal = NoEntry
  /\ pc = "idle" /\ cur = None
  /\ work = [t \in Task |-> "never"]
  /\ handoff = {} /\ booted = {} /\ rebooting = FALSE
  /\ late = {}
  /\ budget = [crash |-> MaxCrashes, loss |-> MaxLosses, late |-> MaxLate]

-----------------------------------------------------------------------------
(* The Server: one transaction each.                                       *)

Oldest(S) == {t \in S : \A u \in S : t <= u}
Held == {t \in Task : phase[t] \in HeldPhase}
Pending == {t \in Task : phase[t] = "pending"}

\* ClaimTask hands out the task the agent already holds, else the oldest
\* pending one.
Claims(t) ==
  \/ t \in Oldest(Held) /\ phase' = phase
  \/ Held = {} /\ t \in Oldest(Pending) /\ phase' = [phase EXCEPT ![t] = "claimed"]
ClaimsNothing == Held = {} /\ Pending = {} /\ phase' = phase

Acknowledges(t) ==
  /\ phase[t] \in HeldPhase
  /\ phase' = [phase EXCEPT ![t] = IF @ = "claimed" THEN "running" ELSE @]

\* A mistake the properties must catch: a result that is stored is never
\* accepted again.
Accepts_Once(t, s) == phase[t] \in HeldPhase

\* CompleteTask: a task that is over accepts what it has stored, and one that
\* was canceled before it was claimed accepts anything.
Accepts(t, s) ==
  \/ phase[t] \in TerminalPhase /\ result[t] = s
  \/ phase[t] = "canceled" /\ result[t] = "none"
  \/ /\ phase[t] \in HeldPhase
     /\ (Kind[t] = "planning" /\ phase[t] = "cancel_requested") => s = "canceled"

Stores(t, s) ==
  /\ Accepts(t, s)
  /\ IF phase[t] \in TerminalPhase THEN UNCHANGED server
     ELSE /\ phase' = [phase EXCEPT ![t] = PhaseOf(s)]
          /\ result' = [result EXCEPT ![t] = s]

\* What the Server does with a request nobody waits for any more.
Handles(q) ==
  \/ q.op = "claim" /\ (ClaimsNothing \/ \E t \in Task : Claims(t)) /\ result' = result
  \/ q.op = "acknowledge" /\ Acknowledges(q.task) /\ result' = result
  \/ q.op = "submit" /\ Stores(q.task, q.sub)

\* A user cancels a task, or the run it belongs to.
CancelTask(t) ==
  /\ phase[t] \in {"pending", "claimed", "running"}
  /\ phase' = [phase EXCEPT ![t] = IF @ = "pending" THEN "canceled" ELSE "cancel_requested"]
  /\ UNCHANGED <<result, journal, pc, cur, node, late, budget>>

-----------------------------------------------------------------------------
(* The agent: ProcessOne, one remote call or one journal write at a time.  *)

\* What a claimed task needs: to be executed, or a result if another process of
\* the agent had it, or if it was canceled in the meantime.
Handover(p) ==
  CASE p = "claimed" -> [pc |-> "claimed", sub |-> "none"]
    [] p = "running" -> [pc |-> "cache", sub |-> "interrupted"]
    [] OTHER         -> [pc |-> "cache", sub |-> "canceled"]

\* A cycle begins with the journal, or with a claim when it is empty.
ClaimTask ==
  /\ pc = "idle" /\ journal = NoEntry
  /\ \E t \in Task :
       LET x == Handover(phase'[t])
       IN Claims(t) /\ pc' = x.pc /\ cur' = Holding(t, x.sub)
  /\ UNCHANGED <<result, journal, node, late, budget>>

SaveClaimed ==
  /\ pc = "claimed"
  /\ journal' = Entry("claimed", cur.task, "none")
  /\ pc' = "acknowledge"
  /\ UNCHANGED <<server, cur, node, late, budget>>

\* A mistake the properties must catch: an action that had begun begins again.
Resumption_Again(e) ==
  CASE e.state = "completed" -> [pc |-> "refresh", sub |-> e.sub]
    [] OTHER                 -> [pc |-> "acknowledge", sub |-> "none"]

\* Where a journal entry is taken up again.
Resumption(e) ==
  CASE e.state = "claimed"   -> [pc |-> "acknowledge", sub |-> "none"]
    [] e.state = "executing" -> [pc |-> "cache", sub |-> "interrupted"]
    [] OTHER                 -> [pc |-> "refresh", sub |-> e.sub]

Resume ==
  /\ pc = "idle" /\ journal.state \in {"claimed", "executing", "completed"}
  /\ LET x == Resumption(journal)
     IN pc' = x.pc /\ cur' = Holding(journal.task, x.sub)
  /\ UNCHANGED <<server, journal, node, late, budget>>

AcknowledgeTask ==
  /\ pc = "acknowledge"
  /\ Acknowledges(cur.task)
  /\ IF phase'[cur.task] = "cancel_requested"
     THEN pc' = "cache" /\ cur' = Holding(cur.task, "canceled")
     ELSE pc' = "acknowledged" /\ cur' = cur
  /\ UNCHANGED <<result, journal, node, late, budget>>

SaveExecuting ==
  /\ pc = "acknowledged"
  /\ journal' = Entry("executing", cur.task, "none")
  /\ pc' = "execute"
  /\ UNCHANGED <<server, cur, node, late, budget>>

\* The contract or the lease is refused before anything is done.
Refuse ==
  /\ pc = "execute"
  /\ pc' = "cache" /\ cur' = Holding(cur.task, "failed")
  /\ UNCHANGED <<server, journal, node, late, budget>>

Begin ==
  /\ pc = "execute"
  /\ work' = [work EXCEPT ![cur.task] = IF @ = "never" THEN "begun" ELSE "again"]
  /\ pc' = "executing"
  /\ UNCHANGED <<server, journal, cur, handoff, booted, rebooting, late, budget>>

End ==
  /\ pc = "executing"
  /\ work' = [work EXCEPT ![cur.task] = IF @ = "begun" THEN "ended" ELSE @]
  /\ \/ /\ \E s \in {"succeeded", "failed"} : cur' = Holding(cur.task, s)
        /\ pc' = "cache" /\ handoff' = handoff
     \/ /\ cur.task \in Reconnecting
        /\ cur' = Holding(cur.task, "succeeded")
        /\ pc' = "reconnect" /\ handoff' = handoff \union {cur.task}
  /\ UNCHANGED <<server, journal, booted, rebooting, late, budget>>

\* cacheAndSubmit: the result is durable before the Server hears of it.
Cache ==
  /\ pc = "cache"
  /\ journal' = Entry("completed", cur.task, cur.sub)
  /\ pc' = "refresh"
  /\ UNCHANGED <<server, cur, node, late, budget>>

\* A mistake the properties must catch: a result is called canceled whatever
\* was done for it.
Supersedes_Always(t) == phase[t] = "cancel_requested" /\ cur.sub # "canceled"

\* A cancellation supersedes a cached result, but not of a bounded action.
Supersedes(t) ==
  phase[t] = "cancel_requested" /\ cur.sub # "canceled" /\ Kind[t] # "execution"

\* The refresh before a submission is a ClaimTask.
Refresh ==
  /\ pc = "refresh"
  /\ \/ \E t \in Task :
          /\ Claims(t)
          /\ IF t = cur.task /\ Supersedes(t)
             THEN pc' = "replace" /\ cur' = Holding(t, "canceled")
             ELSE pc' = "submit" /\ cur' = cur
     \/ ClaimsNothing /\ pc' = "submit" /\ cur' = cur
  /\ UNCHANGED <<result, journal, node, late, budget>>

Replace ==
  /\ pc = "replace"
  /\ journal' = Entry("completed", cur.task, cur.sub)
  /\ pc' = "submit"
  /\ UNCHANGED <<server, cur, node, late, budget>>

Submit ==
  /\ pc = "submit"
  /\ Stores(cur.task, cur.sub)
  /\ pc' = "clear"
  /\ UNCHANGED <<journal, cur, node, late, budget>>

\* A refused submission stays in the journal for the next cycle.
SubmitRefused ==
  /\ pc = "submit"
  /\ ~Accepts(cur.task, cur.sub)
  /\ pc' = "idle" /\ cur' = None
  /\ UNCHANGED <<server, journal, node, late, budget>>

Clear ==
  /\ pc = "clear"
  /\ journal' = NoEntry
  /\ pc' = "idle" /\ cur' = None
  /\ UNCHANGED <<server, node, late, budget>>

\* The boot identity the action declared is not that of its host.
RefuseReconnect ==
  /\ pc = "reconnect"
  /\ pc' = "cache" /\ cur' = Holding(cur.task, "failed")
  /\ UNCHANGED <<server, journal, node, late, budget>>

\* cacheReconnectAndReboot: the evidence is durable before the host goes down.
SaveReconnecting ==
  /\ pc = "reconnect"
  /\ journal' = Entry("reconnecting", cur.task, "succeeded")
  /\ pc' = "reboot"
  /\ UNCHANGED <<server, cur, node, late, budget>>

\* The reboot command works, or its outcome is an error whatever it did.
Reboot ==
  /\ pc = "reboot"
  /\ \/ rebooting' = TRUE /\ pc' = "idle" /\ cur' = None
     \/ rebooting' \in {rebooting, TRUE} /\ pc' = "cache" /\ cur' = Holding(cur.task, "failed")
  /\ UNCHANGED <<server, journal, work, handoff, booted, late, budget>>

\* A mistake the properties must catch: the boot identity is not compared.
BootChanged_Unchecked(t) == TRUE

BootChanged(t) == t \in booted

\* resumeReconnect: success once the host has another boot identity.
ResumeReconnect ==
  /\ pc = "idle" /\ journal.state = "reconnecting"
  /\ BootChanged(journal.task)
  /\ journal' = Entry("completed", journal.task, "succeeded")
  /\ pc' = "refresh" /\ cur' = Holding(journal.task, "succeeded")
  /\ UNCHANGED <<server, node, late, budget>>

-----------------------------------------------------------------------------
(* Faults.                                                                 *)

Asked ==
  CASE pc = "idle" /\ journal = NoEntry -> {[op |-> "claim", task |-> -1, sub |-> "none"]}
    [] pc = "acknowledge" -> {[op |-> "acknowledge", task |-> cur.task, sub |-> "none"]}
    [] pc = "refresh"     -> {[op |-> "claim", task |-> -1, sub |-> "none"]}
    [] pc = "submit"      -> {[op |-> "submit", task |-> cur.task, sub |-> cur.sub]}
    [] OTHER              -> {}

\* The agent gives a request up: it is lost, its answer is, or it is late.
GiveUp ==
  /\ budget.loss > 0
  /\ \E q \in Asked :
       \/ /\ UNCHANGED <<server, late>>
          /\ budget' = [budget EXCEPT !.loss = @ - 1]
       \/ /\ Handles(q) /\ late' = late
          /\ budget' = [budget EXCEPT !.loss = @ - 1]
       \/ /\ budget.late > 0
          /\ late' = late \union {q} /\ UNCHANGED server
          /\ budget' = [budget EXCEPT !.loss = @ - 1, !.late = @ - 1]
  /\ pc' = "idle" /\ cur' = None
  /\ UNCHANGED <<journal, node>>

\* A late request reaches the Server, or nothing comes of it.
Arrive ==
  /\ \E q \in late :
       /\ late' = late \ {q}
       /\ Handles(q) \/ UNCHANGED server
  /\ UNCHANGED <<journal, pc, cur, node, budget>>

\* The agent's process dies; its journal survives.
Crash ==
  /\ budget.crash > 0
  /\ pc' = "idle" /\ cur' = None
  /\ booted' \in {booted, booted \union handoff}
  /\ budget' = [budget EXCEPT !.crash = @ - 1]
  /\ UNCHANGED <<server, journal, work, handoff, rebooting, late>>

\* The host boots as it was told to, and the agent with it.
HostReboot ==
  /\ rebooting
  /\ rebooting' = FALSE
  /\ booted' = booted \union handoff
  /\ pc' = "idle" /\ cur' = None
  /\ UNCHANGED <<server, journal, work, handoff, late, budget>>

-----------------------------------------------------------------------------

Agent ==
  \/ ClaimTask \/ SaveClaimed \/ Resume \/ AcknowledgeTask \/ SaveExecuting
  \/ Refuse \/ Begin \/ End \/ Cache \/ Refresh \/ Replace
  \/ Submit \/ SubmitRefused \/ Clear
  \/ RefuseReconnect \/ SaveReconnecting \/ Reboot \/ ResumeReconnect

User == \E t \in Task : CancelTask(t)

Fault == GiveUp \/ Arrive \/ Crash

Next == Agent \/ User \/ Fault \/ HostReboot

Spec == Init /\ [][Next]_vars

\* The agent polls for as long as its process runs, and a host that was told to
\* reboot does.
FairSpec == Spec /\ WF_vars(Agent) /\ WF_vars(HostReboot)

-----------------------------------------------------------------------------
(* Properties.                                                             *)

Verdict == [t \in Task |-> IF phase[t] \in TerminalPhase THEN phase[t] ELSE "none"]

Once == INSTANCE TaskOnce
          WITH Bounded <- {t \in Task : Kind[t] = "execution"}, verdict <- Verdict

\* Whatever is lost, late, repeated or canceled, and wherever the agent dies: a
\* task begins at most once and only before the Server's verdict on it, there is
\* one verdict, success means that it was carried out, and a bounded action that
\* is called canceled never began.
KeepsPromise == Once!Spec

\* An action that handed over to a reboot has succeeded only if its host has
\* booted since.
RebootProved ==
  \A t \in handoff : result[t] = "succeeded" => t \in booted

\* Every task comes to a verdict, lost requests and a death of the agent's process
\* notwithstanding: the agent gets stuck on one task only after a request that was
\* given up and arrived late, or when it died between the reconnecting entry and
\* the reboot command (task_worker_reconnect.go, resumeReconnect).
TasksSettle ==
  \A t \in Task : phase[t] = "pending" ~>
    \/ phase[t] \in TerminalPhase
    \/ budget.late < MaxLate
    \/ [](journal.state = "reconnecting")
=============================================================================
