----------------------------- MODULE AgentProofs -----------------------------
(***************************************************************************)
(* What is done on a node.  The Server and the agent keep the promise of   *)
(* TaskOnce, for any number of tasks, faults and late requests.  A repair  *)
(* of a kernel parameter comes to what it is reported to have come to, for *)
(* any files and anything an administrator does meanwhile.                 *)
(***************************************************************************)
EXTENDS TaskProtocol, SysctlRepair, FiniteSetTheorems, TLAPS

(***************************************************************************)
(* The task protocol.                                                      *)
(***************************************************************************)

-----------------------------------------------------------------------------
(* The inductive invariant.                                                *)

Started(t) == phase[t] \notin {"pending", "claimed"}

\* No submission for t was ever sent: it can only be settled by its agent.
Unsent(t) ==
  /\ phase[t] \in HeldPhase
  /\ \A q \in late : q.op = "submit" => q.task # t

\* What a submission says is true, and stays so.
Honest(t, s) ==
  /\ s \in Submission
  /\ s = "succeeded" => work[t] = "ended" /\ (t \in handoff => t \in booted)
  /\ (s = "canceled" /\ Kind[t] = "execution") => work[t] = "never"

JournalInv ==
  /\ journal.state = "none" => journal = NoEntry
  /\ journal.state # "none" => journal.task \in Task
  /\ journal.state = "claimed" => Unsent(journal.task)
  /\ journal.state \in {"executing", "reconnecting", "completed"} => Started(journal.task)
  /\ journal.state = "reconnecting" => work[journal.task] = "ended"
  /\ journal.state = "completed" => Honest(journal.task, journal.sub)

\* Which journal entry stands behind each step of the agent.
PcInv ==
  /\ pc # "idle" => cur.task \in Task
  /\ pc = "claimed" => journal = NoEntry
  /\ pc \in {"acknowledge", "acknowledged"} =>
       journal.state = "claimed" /\ journal.task = cur.task
  /\ pc \in {"execute", "executing", "reconnect"} =>
       journal.state = "executing" /\ journal.task = cur.task
  /\ pc = "reboot" => journal.state = "reconnecting" /\ journal.task = cur.task
  /\ pc = "cache" => journal = NoEntry \/ journal.task = cur.task
  /\ pc \in {"refresh", "replace", "submit", "clear"} =>
       journal.state = "completed" /\ journal.task = cur.task

\* What the agent holds in memory is still so.
HoldInv ==
  /\ pc \in {"claimed", "acknowledge", "acknowledged", "execute", "executing"} =>
       Unsent(cur.task)
  /\ pc \in {"acknowledged", "execute", "executing", "reconnect", "reboot", "cache",
             "refresh", "replace", "submit"} => Started(cur.task)
  /\ pc = "execute" => work[cur.task] = "never"
  /\ pc = "executing" => work[cur.task] = "begun"
  /\ pc \in {"reconnect", "reboot"} => work[cur.task] = "ended"
  /\ pc \in {"cache", "refresh", "replace", "submit"} => Honest(cur.task, cur.sub)
  /\ pc = "clear" => phase[cur.task] \in TerminalPhase

\* Work on a task that is not over has left its trace in the journal.
WorkInv ==
  \A t \in Task :
    /\ work[t] # "again"
    /\ t \in handoff => work[t] = "ended"
    /\ (work[t] # "never" /\ phase[t] \notin TerminalPhase) =>
         /\ Started(t)
         /\ journal.task = t /\ journal.state \in {"executing", "reconnecting", "completed"}

LateInv ==
  \A q \in late :
    /\ q.op # "claim" => q.task \in Task
    /\ q.op = "submit" => Started(q.task) /\ Honest(q.task, q.sub)

ResultInv ==
  \A t \in Task :
    /\ phase[t] \notin TerminalPhase => result[t] = "none"
    /\ (result[t] = "succeeded" /\ t \in handoff) => t \in booted

IInv == TypeOK /\ JournalInv /\ PcInv /\ HoldInv /\ WorkInv /\ LateInv /\ ResultInv

-----------------------------------------------------------------------------
(* The invariant is inductive.                                             *)

USE TaskAssumption, KindAssumption
USE DEF Phase, TerminalPhase, HeldPhase, Submission, None, Holding, NoEntry, Entry,
        server, node, Started

\* What ClaimTask changes in the table.
LEMMA ClaimsEffect ==
  ASSUME TypeOK, NEW t \in Task, Claims(t)
  PROVE  \/ phase[t] \in HeldPhase /\ phase' = phase
         \/ phase[t] = "pending" /\ phase' = [phase EXCEPT ![t] = "claimed"]
BY DEF Claims, Oldest, Held, Pending, TypeOK

Granted(t) == phase[t] = "pending" /\ phase' = [phase EXCEPT ![t] = "claimed"]
Confirmed(t) == phase[t] = "claimed" /\ phase' = [phase EXCEPT ![t] = "running"]
Settled(t, s) ==
  /\ phase[t] \in HeldPhase /\ phase' = [phase EXCEPT ![t] = PhaseOf(s)]
  /\ result' = [result EXCEPT ![t] = s]

\* What a request changes in the table, whenever the Server receives it.
LEMMA HandlesEffect ==
  ASSUME TypeOK, NEW q \in Request, Handles(q)
  PROVE  \/ UNCHANGED server
         \/ result' = result /\ \E t \in Task : Granted(t)
         \/ result' = result /\ q.op = "acknowledge" /\ Confirmed(q.task)
         \/ q.op = "submit" /\ Settled(q.task, q.sub)
<1>1. CASE q.op = "claim"
  BY <1>1, ClaimsEffect DEF Handles, ClaimsNothing, Granted
<1>2. CASE q.op = "acknowledge"
  <2>1. Acknowledges(q.task) /\ result' = result
    BY <1>2 DEF Handles
  <2>2. CASE phase[q.task] = "claimed"
    BY <1>2, <2>1, <2>2 DEF Acknowledges, Confirmed
  <2>3. CASE phase[q.task] # "claimed"
    <3>1. phase' = phase
      BY <2>1, <2>3 DEF Acknowledges, TypeOK
    <3>2. QED
      BY <2>1, <3>1
  <2>4. QED
    BY <2>2, <2>3
<1>3. CASE q.op = "submit"
  BY <1>3 DEF Handles, Stores, Accepts, Settled
<1>4. QED
  BY <1>1, <1>2, <1>3 DEF Request

\* A request keeps the invariant whenever the Server receives it: none that may
\* still arrive can settle a task the agent has not finished with.
LEMMA HandlesKeeps ==
  ASSUME IInv, NEW q \in Request,
         Handles(q) \/ UNCHANGED server,
         q \in late \/ q \in Asked,
         UNCHANGED <<journal, node>>,
         late' \subseteq late,
         (UNCHANGED <<pc, cur>> /\ q \in late) \/ (pc' = "idle" /\ cur' = None)
  PROVE  /\ phase' \in [Task -> Phase] /\ result' \in [Task -> Submission \union {"none"}]
         /\ JournalInv' /\ PcInv' /\ HoldInv' /\ WorkInv' /\ LateInv' /\ ResultInv'
<1>1. q.op # "claim" => q.task \in Task
  BY DEF IInv, LateInv, PcInv, Asked, None
<1>2. q.op = "submit" => Started(q.task) /\ Honest(q.task, q.sub)
  BY DEF IInv, LateInv, HoldInv, Asked
<1>3. ASSUME q.op = "submit"
      PROVE  /\ journal.state = "claimed" => journal.task # q.task
             /\ pc' \in {"claimed", "acknowledge", "acknowledged", "execute", "executing"} =>
                  cur'.task # q.task
  <2>1. CASE q \in late
    BY <1>3, <2>1 DEF IInv, JournalInv, HoldInv, Unsent
  <2>2. CASE q \in Asked /\ q \notin late
    BY <1>3, <2>2 DEF IInv, PcInv, Asked
  <2>3. QED
    BY <2>1, <2>2
<1>4. CASE UNCHANGED server
  BY <1>4, SMTT(30) DEF IInv, TypeOK, JournalInv, PcInv, HoldInv, WorkInv, LateInv,
     ResultInv, Unsent, Honest
<1>5. CASE result' = result /\ \E t \in Task : Granted(t)
  <2>1. PICK t \in Task : Granted(t)
    BY <1>5
  <2>2. phase' \in [Task -> Phase] /\ JournalInv' /\ PcInv'
    BY <1>5, <2>1 DEF Granted, IInv, TypeOK, JournalInv, PcInv, Unsent, Honest
  <2>3. HoldInv'
    BY <1>5, <2>1 DEF Granted, IInv, TypeOK, PcInv, HoldInv, Unsent, Honest
  <2>4. WorkInv' /\ LateInv' /\ ResultInv'
    BY <1>5, <2>1 DEF Granted, IInv, TypeOK, WorkInv, LateInv, ResultInv, Honest
  <2>5. QED
    BY <1>5, <2>2, <2>3, <2>4 DEF IInv, TypeOK
<1>6. CASE result' = result /\ q.op = "acknowledge" /\ Confirmed(q.task)
  <2>1. phase' \in [Task -> Phase] /\ JournalInv' /\ PcInv'
    BY <1>1, <1>6 DEF Confirmed, IInv, TypeOK, JournalInv, PcInv, Unsent, Honest
  <2>2. HoldInv'
    BY <1>1, <1>6 DEF Confirmed, IInv, TypeOK, PcInv, HoldInv, Unsent, Honest
  <2>3. WorkInv' /\ LateInv' /\ ResultInv'
    BY <1>1, <1>6 DEF Confirmed, IInv, TypeOK, WorkInv, LateInv, ResultInv, Honest
  <2>4. QED
    BY <1>6, <2>1, <2>2, <2>3 DEF IInv, TypeOK
<1>7. CASE q.op = "submit" /\ Settled(q.task, q.sub)
  <2>1. PhaseOf(q.sub) \in TerminalPhase
    BY <1>2, <1>7 DEF PhaseOf, Honest
  <2>2. /\ phase' \in [Task -> Phase] /\ result' \in [Task -> Submission \union {"none"}]
        /\ JournalInv' /\ PcInv'
    BY <1>1, <1>2, <1>3, <1>7, <2>1
       DEF Settled, IInv, TypeOK, JournalInv, PcInv, Unsent, Honest
  <2>3. HoldInv'
    BY <1>1, <1>2, <1>3, <1>7, <2>1 DEF Settled, IInv, TypeOK, PcInv, HoldInv, Unsent, Honest
  <2>4. WorkInv' /\ LateInv' /\ ResultInv'
    BY <1>1, <1>2, <1>7, <2>1 DEF Settled, IInv, TypeOK, WorkInv, LateInv, ResultInv, Honest
  <2>5. QED
    BY <2>2, <2>3, <2>4
<1>8. QED
  BY <1>4, <1>5, <1>6, <1>7, HandlesEffect DEF IInv


LEMMA ClaimTaskKeeps ==
  ASSUME IInv, ClaimTask
  PROVE  IInv'
<1>1. TypeOK'
  BY ClaimsEffect DEF ClaimTask, Handover, IInv, TypeOK, Pc, PcInv, HoldInv, JournalInv, Honest
<1>2. JournalInv' /\ PcInv' /\ HoldInv'
  BY ClaimsEffect DEF ClaimTask, Handover, IInv, TypeOK, JournalInv, PcInv, HoldInv,
     WorkInv, LateInv, Unsent, Honest
<1>3. WorkInv' /\ LateInv' /\ ResultInv'
  BY ClaimsEffect DEF ClaimTask, Handover, IInv, TypeOK, PcInv, HoldInv, WorkInv, LateInv,
     ResultInv, Unsent, Honest
<1>4. QED
  BY <1>1, <1>2, <1>3 DEF IInv

LEMMA SaveClaimedKeeps ==
  ASSUME IInv, SaveClaimed
  PROVE  IInv'
<1>1. TypeOK'
  BY DEF SaveClaimed, IInv, TypeOK, Pc, PcInv, HoldInv, JournalInv, Honest
<1>2. JournalInv' /\ PcInv' /\ HoldInv'
  BY DEF SaveClaimed, IInv, TypeOK, JournalInv, PcInv, HoldInv,
     WorkInv, LateInv, Unsent, Honest
<1>3. WorkInv' /\ LateInv' /\ ResultInv'
  BY DEF SaveClaimed, IInv, TypeOK, PcInv, HoldInv, WorkInv, LateInv,
     ResultInv, Unsent, Honest
<1>4. QED
  BY <1>1, <1>2, <1>3 DEF IInv

LEMMA ResumeKeeps ==
  ASSUME IInv, Resume
  PROVE  IInv'
<1>1. TypeOK'
  BY DEF Resume, Resumption, IInv, TypeOK, Pc, PcInv, HoldInv, JournalInv, Honest
<1>2. JournalInv' /\ PcInv' /\ HoldInv'
  BY DEF Resume, Resumption, IInv, TypeOK, JournalInv, PcInv, HoldInv,
     WorkInv, LateInv, Unsent, Honest
<1>3. WorkInv' /\ LateInv' /\ ResultInv'
  BY DEF Resume, Resumption, IInv, TypeOK, PcInv, HoldInv, WorkInv, LateInv,
     ResultInv, Unsent, Honest
<1>4. QED
  BY <1>1, <1>2, <1>3 DEF IInv

LEMMA AcknowledgeTaskKeeps ==
  ASSUME IInv, AcknowledgeTask
  PROVE  IInv'
<1>1. /\ cur.task \in Task /\ Unsent(cur.task) /\ work[cur.task] = "never"
      /\ journal.state = "claimed" /\ journal.task = cur.task
  BY DEF AcknowledgeTask, IInv, PcInv, HoldInv, WorkInv, Unsent
<1>2. /\ phase' \in [Task -> Phase]
      /\ phase'[cur.task] \in {"running", "cancel_requested"}
      /\ \A t \in Task : t # cur.task => phase'[t] = phase[t]
  BY <1>1 DEF AcknowledgeTask, Acknowledges, IInv, TypeOK
<1>3. \/ pc' = "cache" /\ cur' = Holding(cur.task, "canceled")
      \/ pc' = "acknowledged" /\ cur' = cur
  BY DEF AcknowledgeTask
<1>4. TypeOK'
  BY <1>1, <1>2, <1>3 DEF AcknowledgeTask, IInv, TypeOK, Pc
<1>5. JournalInv' /\ PcInv' /\ HoldInv'
  BY <1>1, <1>2, <1>3
     DEF AcknowledgeTask, IInv, TypeOK, JournalInv, PcInv, HoldInv, Unsent, Honest
<1>6. WorkInv'
  BY <1>1, <1>2 DEF AcknowledgeTask, IInv, TypeOK, WorkInv
<1>7. LateInv'
  <2>1. UNCHANGED <<node, late>>
    BY DEF AcknowledgeTask
  <2>2. \A t \in Task : Started(t) => Started(t)'
    BY <1>2
  <2>3. QED
    BY <2>1, <2>2 DEF IInv, LateInv, Honest
<1>8. ResultInv'
  BY <1>1, <1>2 DEF AcknowledgeTask, IInv, TypeOK, ResultInv, Unsent
<1>9. QED
  BY <1>4, <1>5, <1>6, <1>7, <1>8 DEF IInv

LEMMA SaveExecutingKeeps ==
  ASSUME IInv, SaveExecuting
  PROVE  IInv'
<1>1. /\ cur.task \in Task /\ Unsent(cur.task) /\ Started(cur.task)
      /\ work[cur.task] = "never"
  BY DEF SaveExecuting, IInv, PcInv, HoldInv, WorkInv, Unsent
<1>2. TypeOK'
  BY <1>1 DEF SaveExecuting, IInv, TypeOK, Pc
<1>3. JournalInv' /\ PcInv' /\ HoldInv'
  BY <1>1 DEF SaveExecuting, IInv, JournalInv, PcInv, HoldInv, Unsent
<1>4. WorkInv' /\ LateInv' /\ ResultInv'
  BY <1>1 DEF SaveExecuting, IInv, PcInv, WorkInv, LateInv, ResultInv, Honest
<1>5. QED
  BY <1>2, <1>3, <1>4 DEF IInv

LEMMA RefuseKeeps ==
  ASSUME IInv, Refuse
  PROVE  IInv'
<1>1. TypeOK'
  BY DEF Refuse, IInv, TypeOK, Pc, PcInv, HoldInv, JournalInv, Honest
<1>2. JournalInv' /\ PcInv' /\ HoldInv'
  BY DEF Refuse, IInv, TypeOK, JournalInv, PcInv, HoldInv,
     WorkInv, LateInv, Unsent, Honest
<1>3. WorkInv' /\ LateInv' /\ ResultInv'
  BY DEF Refuse, IInv, TypeOK, PcInv, HoldInv, WorkInv, LateInv,
     ResultInv, Unsent, Honest
<1>4. QED
  BY <1>1, <1>2, <1>3 DEF IInv

LEMMA BeginKeeps ==
  ASSUME IInv, Begin
  PROVE  IInv'
<1>1. TypeOK'
  BY DEF Begin, IInv, TypeOK, Pc, PcInv, HoldInv, JournalInv, Honest
<1>2. JournalInv' /\ PcInv' /\ HoldInv'
  BY DEF Begin, IInv, TypeOK, JournalInv, PcInv, HoldInv,
     WorkInv, LateInv, Unsent, Honest
<1>3. WorkInv' /\ LateInv' /\ ResultInv'
  BY DEF Begin, IInv, TypeOK, PcInv, HoldInv, WorkInv, LateInv,
     ResultInv, Unsent, Honest
<1>4. QED
  BY <1>1, <1>2, <1>3 DEF IInv

LEMMA EndKeeps ==
  ASSUME IInv, End
  PROVE  IInv'
<1>1. cur.task \in Task /\ Unsent(cur.task) /\ Started(cur.task) /\ work[cur.task] = "begun"
  BY DEF End, IInv, PcInv, HoldInv
<1>2. /\ work' = [work EXCEPT ![cur.task] = "ended"]
      /\ cur'.task = cur.task /\ cur'.sub \in {"succeeded", "failed"}
      /\ handoff \subseteq handoff' /\ handoff' \subseteq handoff \union {cur.task}
      /\ \/ pc' = "cache" /\ handoff' = handoff
         \/ pc' = "reconnect"
  BY <1>1 DEF End
<1>3. TypeOK'
  <2>1. handoff' \subseteq Task
    BY <1>1, <1>2 DEF IInv, TypeOK
  <2>2. cur' \in [task : Task \union {-1}, sub : Submission \union {"none"}]
    BY <1>1 DEF End
  <2>3. QED
    BY <1>2, <2>1, <2>2 DEF End, IInv, TypeOK, Pc
<1>4. JournalInv' /\ PcInv'
  BY <1>1, <1>2 DEF End, IInv, TypeOK, JournalInv, PcInv, Unsent, Honest
<1>5. HoldInv'
  <2>1. cur.task \notin handoff
    BY <1>1 DEF IInv, WorkInv
  <2>2. work'[cur.task] = "ended"
    BY <1>1, <1>2 DEF IInv, TypeOK
  <2>3. pc' = "cache" => Honest(cur.task, cur.sub)'
    BY <1>1, <1>2, <2>1, <2>2 DEF Honest
  <2>4. QED
    BY <1>1, <1>2, <2>2, <2>3 DEF End, HoldInv
<1>6. WorkInv' /\ LateInv' /\ ResultInv'
  BY <1>1, <1>2 DEF End, IInv, TypeOK, PcInv, WorkInv, LateInv, ResultInv, Unsent, Honest
<1>7. QED
  BY <1>3, <1>4, <1>5, <1>6 DEF IInv

LEMMA CacheKeeps ==
  ASSUME IInv, Cache
  PROVE  IInv'
<1>1. TypeOK'
  BY DEF Cache, IInv, TypeOK, Pc, PcInv, HoldInv, JournalInv, Honest
<1>2. JournalInv' /\ PcInv' /\ HoldInv'
  BY DEF Cache, IInv, TypeOK, JournalInv, PcInv, HoldInv,
     WorkInv, LateInv, Unsent, Honest
<1>3. WorkInv' /\ LateInv' /\ ResultInv'
  BY DEF Cache, IInv, TypeOK, PcInv, HoldInv, WorkInv, LateInv,
     ResultInv, Unsent, Honest
<1>4. QED
  BY <1>1, <1>2, <1>3 DEF IInv

LEMMA RefreshKeeps ==
  ASSUME IInv, Refresh
  PROVE  IInv'
<1>1. /\ cur.task \in Task /\ Started(cur.task) /\ Honest(cur.task, cur.sub)
      /\ journal.state = "completed" /\ journal.task = cur.task
      /\ UNCHANGED <<result, journal, node, late, budget>>
  BY DEF Refresh, IInv, PcInv, HoldInv
<1>2. phase' = phase \/ \E t \in Task : Granted(t)
  BY ClaimsEffect DEF Refresh, ClaimsNothing, Granted, IInv
<1>3. \/ pc' = "submit" /\ cur' = cur
      \/ /\ pc' = "replace" /\ cur' = Holding(cur.task, "canceled")
         /\ Kind[cur.task] # "execution"
  BY DEF Refresh, Supersedes
<1>4. /\ phase' \in [Task -> Phase]
      /\ \A t \in Task : /\ phase'[t] # phase[t] => phase'[t] = "claimed"
                         /\ phase[t] # "pending" => phase'[t] = phase[t]
  BY <1>2 DEF Granted, IInv, TypeOK
<1>5. TypeOK'
  BY <1>1, <1>3, <1>4 DEF IInv, TypeOK, Pc
<1>6. PcInv'
  BY <1>1, <1>3 DEF PcInv
<1>7. JournalInv'
  BY <1>1, <1>4 DEF IInv, TypeOK, JournalInv, Unsent, Honest
<1>8. HoldInv'
  <2>1. Honest(cur.task, cur.sub)'
    <3>1. CASE cur' = cur
      BY <1>1, <3>1 DEF Honest
    <3>2. CASE cur' = Holding(cur.task, "canceled") /\ Kind[cur.task] # "execution"
      BY <1>1, <3>2 DEF Honest, Holding
    <3>3. QED
      BY <1>3, <3>1, <3>2
  <2>2. cur'.task = cur.task /\ Started(cur.task)'
    BY <1>1, <1>3, <1>4 DEF Holding, Started
  <2>3. pc' \in {"submit", "replace"}
    BY <1>3
  <2>4. QED
    BY <2>1, <2>2, <2>3 DEF HoldInv
<1>9. WorkInv' /\ LateInv'
  <2>1. WorkInv'
    BY <1>1, <1>4 DEF IInv, TypeOK, WorkInv
  <2>2. LateInv'
    BY <1>1, <1>4 DEF IInv, TypeOK, LateInv, Honest
  <2>3. QED
    BY <2>1, <2>2
<1>10. ResultInv'
  BY <1>1, <1>4 DEF IInv, TypeOK, ResultInv
<1>11. QED
  BY <1>5, <1>6, <1>7, <1>8, <1>9, <1>10 DEF IInv

LEMMA ReplaceKeeps ==
  ASSUME IInv, Replace
  PROVE  IInv'
<1>1. TypeOK'
  BY DEF Replace, IInv, TypeOK, Pc, PcInv, HoldInv, JournalInv, Honest
<1>2. JournalInv' /\ PcInv' /\ HoldInv'
  BY DEF Replace, IInv, TypeOK, JournalInv, PcInv, HoldInv,
     WorkInv, LateInv, Unsent, Honest
<1>3. WorkInv' /\ LateInv' /\ ResultInv'
  BY DEF Replace, IInv, TypeOK, PcInv, HoldInv, WorkInv, LateInv,
     ResultInv, Unsent, Honest
<1>4. QED
  BY <1>1, <1>2, <1>3 DEF IInv

LEMMA SubmitKeeps ==
  ASSUME IInv, Submit
  PROVE  IInv'
<1>1. /\ cur.task \in Task /\ Started(cur.task) /\ Honest(cur.task, cur.sub)
      /\ journal.state = "completed" /\ journal.task = cur.task
  BY DEF Submit, IInv, PcInv, HoldInv
<1>2. \/ phase[cur.task] \in TerminalPhase /\ UNCHANGED server
      \/ Settled(cur.task, cur.sub)
  BY DEF Submit, Stores, Accepts, Settled
<1>3. PhaseOf(cur.sub) \in TerminalPhase
  BY <1>1 DEF PhaseOf, Honest
<1>4. phase'[cur.task] \in TerminalPhase
  BY <1>1, <1>2, <1>3 DEF Settled, IInv, TypeOK
<1>5. TypeOK'
  BY <1>1, <1>2, <1>3 DEF Submit, Settled, IInv, TypeOK, Pc, Honest
<1>6. JournalInv' /\ PcInv' /\ HoldInv'
  BY <1>1, <1>2, <1>3, <1>4 DEF Submit, Settled, IInv, TypeOK, JournalInv, PcInv,
     HoldInv, Unsent, Honest
<1>7. WorkInv'
  BY <1>1, <1>2, <1>3 DEF Submit, Settled, IInv, TypeOK, WorkInv
<1>8. LateInv'
  <2>1. UNCHANGED <<node, late>>
    BY DEF Submit
  <2>2. \A t \in Task : Started(t) => Started(t)'
    BY <1>1, <1>2, <1>3 DEF Settled, IInv, TypeOK
  <2>3. QED
    BY <2>1, <2>2 DEF IInv, LateInv, Honest
<1>9. ResultInv'
  BY <1>1, <1>2, <1>3 DEF Submit, Settled, IInv, TypeOK, ResultInv, Honest
<1>10. QED
  BY <1>5, <1>6, <1>7, <1>8, <1>9 DEF IInv

LEMMA SubmitRefusedKeeps ==
  ASSUME IInv, SubmitRefused
  PROVE  IInv'
<1>1. TypeOK'
  BY DEF SubmitRefused, Accepts, IInv, TypeOK, Pc, PcInv, HoldInv, JournalInv, Honest
<1>2. JournalInv' /\ PcInv' /\ HoldInv'
  BY DEF SubmitRefused, Accepts, IInv, TypeOK, JournalInv, PcInv, HoldInv,
     WorkInv, LateInv, Unsent, Honest
<1>3. WorkInv' /\ LateInv' /\ ResultInv'
  BY DEF SubmitRefused, Accepts, IInv, TypeOK, PcInv, HoldInv, WorkInv, LateInv,
     ResultInv, Unsent, Honest
<1>4. QED
  BY <1>1, <1>2, <1>3 DEF IInv

LEMMA ClearKeeps ==
  ASSUME IInv, Clear
  PROVE  IInv'
<1>1. TypeOK'
  BY DEF Clear, IInv, TypeOK, Pc, PcInv, HoldInv, JournalInv, Honest
<1>2. JournalInv' /\ PcInv' /\ HoldInv'
  BY DEF Clear, IInv, TypeOK, JournalInv, PcInv, HoldInv,
     WorkInv, LateInv, Unsent, Honest
<1>3. WorkInv' /\ LateInv' /\ ResultInv'
  BY DEF Clear, IInv, TypeOK, PcInv, HoldInv, WorkInv, LateInv,
     ResultInv, Unsent, Honest
<1>4. QED
  BY <1>1, <1>2, <1>3 DEF IInv

LEMMA RefuseReconnectKeeps ==
  ASSUME IInv, RefuseReconnect
  PROVE  IInv'
<1>1. TypeOK'
  BY DEF RefuseReconnect, IInv, TypeOK, Pc, PcInv, HoldInv, JournalInv, Honest
<1>2. JournalInv' /\ PcInv' /\ HoldInv'
  BY DEF RefuseReconnect, IInv, TypeOK, JournalInv, PcInv, HoldInv,
     WorkInv, LateInv, Unsent, Honest
<1>3. WorkInv' /\ LateInv' /\ ResultInv'
  BY DEF RefuseReconnect, IInv, TypeOK, PcInv, HoldInv, WorkInv, LateInv,
     ResultInv, Unsent, Honest
<1>4. QED
  BY <1>1, <1>2, <1>3 DEF IInv

LEMMA SaveReconnectingKeeps ==
  ASSUME IInv, SaveReconnecting
  PROVE  IInv'
<1>1. TypeOK'
  BY DEF SaveReconnecting, IInv, TypeOK, Pc, PcInv, HoldInv, JournalInv, Honest
<1>2. JournalInv' /\ PcInv' /\ HoldInv'
  BY DEF SaveReconnecting, IInv, TypeOK, JournalInv, PcInv, HoldInv,
     WorkInv, LateInv, Unsent, Honest
<1>3. WorkInv' /\ LateInv' /\ ResultInv'
  BY DEF SaveReconnecting, IInv, TypeOK, PcInv, HoldInv, WorkInv, LateInv,
     ResultInv, Unsent, Honest
<1>4. QED
  BY <1>1, <1>2, <1>3 DEF IInv

LEMMA RebootKeeps ==
  ASSUME IInv, Reboot
  PROVE  IInv'
<1>1. /\ cur.task \in Task /\ Started(cur.task)
      /\ journal.state = "reconnecting" /\ journal.task = cur.task
  BY DEF Reboot, IInv, PcInv, HoldInv
<1>2. \/ pc' = "idle" /\ cur' = None
      \/ pc' = "cache" /\ cur' = Holding(cur.task, "failed")
  BY DEF Reboot
<1>3. TypeOK'
  <2>1. rebooting' \in BOOLEAN
    BY Zenon DEF Reboot, IInv, TypeOK
  <2>2. cur' \in [task : Task \union {-1}, sub : Submission \union {"none"}]
    BY <1>1, <1>2
  <2>3. QED
    BY <1>2, <2>1, <2>2 DEF Reboot, IInv, TypeOK, Pc
<1>4. JournalInv' /\ PcInv'
  BY <1>1, <1>2 DEF Reboot, IInv, JournalInv, PcInv, Unsent, Honest
<1>5. HoldInv'
  BY <1>1, <1>2 DEF Reboot, IInv, HoldInv, Unsent, Honest
<1>6. WorkInv' /\ LateInv' /\ ResultInv'
  BY DEF Reboot, IInv, WorkInv, LateInv, ResultInv, Honest
<1>7. QED
  BY <1>3, <1>4, <1>5, <1>6 DEF IInv

LEMMA ResumeReconnectKeeps ==
  ASSUME IInv, ResumeReconnect
  PROVE  IInv'
<1>1. TypeOK'
  BY DEF ResumeReconnect, BootChanged, IInv, TypeOK, Pc, PcInv, HoldInv, JournalInv, Honest
<1>2. JournalInv' /\ PcInv' /\ HoldInv'
  BY DEF ResumeReconnect, BootChanged, IInv, TypeOK, JournalInv, PcInv, HoldInv,
     WorkInv, LateInv, Unsent, Honest
<1>3. WorkInv' /\ LateInv' /\ ResultInv'
  BY DEF ResumeReconnect, BootChanged, IInv, TypeOK, PcInv, HoldInv, WorkInv, LateInv,
     ResultInv, Unsent, Honest
<1>4. QED
  BY <1>1, <1>2, <1>3 DEF IInv

LEMMA GiveUpKeeps ==
  ASSUME IInv, GiveUp
  PROVE  IInv'
<1>1. PICK q \in Asked :
        \/ UNCHANGED <<server, late>> /\ budget' = [budget EXCEPT !.loss = @ - 1]
        \/ Handles(q) /\ late' = late /\ budget' = [budget EXCEPT !.loss = @ - 1]
        \/ /\ budget.late > 0 /\ late' = late \union {q} /\ UNCHANGED server
           /\ budget' = [budget EXCEPT !.loss = @ - 1, !.late = @ - 1]
  BY DEF GiveUp
<1>2. q \in Request
  BY DEF Asked, Request, IInv, TypeOK, PcInv, HoldInv, Honest
<1>3. pc' = "idle" /\ cur' = None /\ UNCHANGED <<journal, node>>
  BY DEF GiveUp
<1>4. budget' \in [crash : 0 .. MaxCrashes, loss : 0 .. MaxLosses, late : 0 .. MaxLate]
  <2>1. /\ budget \in [crash : 0 .. MaxCrashes, loss : 0 .. MaxLosses, late : 0 .. MaxLate]
        /\ budget.loss > 0
    BY DEF GiveUp, IInv, TypeOK
  <2>2. budget.loss - 1 \in 0 .. MaxLosses
    BY <2>1, BoundsAssumption
  <2>3. budget.late > 0 => budget.late - 1 \in 0 .. MaxLate
    BY <2>1, BoundsAssumption
  <2>4. QED
    BY <1>1, <2>1, <2>2, <2>3
<1>5. late' \subseteq Request
  BY <1>1, <1>2 DEF IInv, TypeOK
<1>6. CASE late' = late
  <2>1. /\ phase' \in [Task -> Phase] /\ result' \in [Task -> Submission \union {"none"}]
        /\ JournalInv' /\ PcInv' /\ HoldInv' /\ WorkInv' /\ LateInv' /\ ResultInv'
    BY <1>1, <1>2, <1>3, <1>6, HandlesKeeps
  <2>2. TypeOK'
    BY <1>3, <1>4, <1>5, <2>1 DEF IInv, TypeOK, Pc
  <2>3. QED
    BY <2>1, <2>2 DEF IInv
<1>7. CASE late' = late \union {q} /\ UNCHANGED server
  <2>1. TypeOK'
    BY <1>3, <1>4, <1>5, <1>7 DEF IInv, TypeOK, Pc
  <2>2. q.op = "submit" =>
          /\ Started(q.task) /\ Honest(q.task, q.sub)
          /\ journal.state = "completed"
    BY DEF Asked, IInv, HoldInv, PcInv
  <2>3. q.op # "claim" => q.task \in Task
    BY DEF Asked, IInv, PcInv
  <2>4. JournalInv' /\ PcInv' /\ HoldInv'
    BY <1>3, <1>7, <2>2 DEF IInv, JournalInv, PcInv, HoldInv, Unsent, Honest
  <2>5. WorkInv' /\ LateInv' /\ ResultInv'
    BY <1>3, <1>7, <2>2, <2>3 DEF IInv, WorkInv, LateInv, ResultInv, Honest
  <2>6. QED
    BY <2>1, <2>4, <2>5 DEF IInv
<1>8. QED
  BY <1>1, <1>6, <1>7

LEMMA ArriveKeeps ==
  ASSUME IInv, Arrive
  PROVE  IInv'
<1>1. PICK q \in late : late' = late \ {q} /\ (Handles(q) \/ UNCHANGED server)
  BY DEF Arrive
<1>2. q \in Request
  BY DEF IInv, TypeOK
<1>3. /\ phase' \in [Task -> Phase] /\ result' \in [Task -> Submission \union {"none"}]
      /\ JournalInv' /\ PcInv' /\ HoldInv' /\ WorkInv' /\ LateInv' /\ ResultInv'
  <2>1. late' \subseteq late
    BY <1>1
  <2>2. UNCHANGED <<journal, node>>
    BY DEF Arrive
  <2>3. UNCHANGED <<pc, cur>> /\ q \in late
    BY DEF Arrive
  <2>4. Handles(q) \/ UNCHANGED server
    BY <1>1
  <2>5. q \in late \/ q \in Asked
    OBVIOUS
  <2>6. (UNCHANGED <<pc, cur>> /\ q \in late) \/ (pc' = "idle" /\ cur' = None)
    BY <2>3
  <2>7. QED
    BY <1>2, <2>1, <2>2, <2>4, <2>5, <2>6, HandlesKeeps
<1>4. TypeOK'
  BY <1>1, <1>3 DEF Arrive, IInv, TypeOK
<1>5. QED
  BY <1>3, <1>4 DEF IInv

LEMMA CrashKeeps ==
  ASSUME IInv, Crash
  PROVE  IInv'
<1>1. TypeOK'
  <2>1. booted' \subseteq Task
    BY DEF Crash, IInv, TypeOK
  <2>2. budget' \in [crash : 0 .. MaxCrashes, loss : 0 .. MaxLosses, late : 0 .. MaxLate]
    BY BoundsAssumption DEF Crash, IInv, TypeOK
  <2>3. QED
    BY <2>1, <2>2 DEF Crash, IInv, TypeOK, Pc
<1>2. JournalInv' /\ PcInv' /\ HoldInv'
  BY DEF Crash, IInv, JournalInv, PcInv, HoldInv, Unsent, Honest
<1>3. WorkInv' /\ LateInv' /\ ResultInv'
  BY DEF Crash, IInv, WorkInv, LateInv, ResultInv, Honest
<1>4. QED
  BY <1>1, <1>2, <1>3 DEF IInv

LEMMA HostRebootKeeps ==
  ASSUME IInv, HostReboot
  PROVE  IInv'
<1>1. TypeOK'
  <2>1. booted' \subseteq Task
    BY DEF HostReboot, IInv, TypeOK
  <2>2. QED
    BY <2>1 DEF HostReboot, IInv, TypeOK, Pc
<1>2. JournalInv' /\ PcInv' /\ HoldInv'
  BY DEF HostReboot, IInv, JournalInv, PcInv, HoldInv, Unsent, Honest
<1>3. WorkInv' /\ LateInv' /\ ResultInv'
  BY DEF HostReboot, IInv, WorkInv, LateInv, ResultInv, Honest
<1>4. QED
  BY <1>1, <1>2, <1>3 DEF IInv

LEMMA CancelTaskKeeps ==
  ASSUME IInv, NEW x \in Task, CancelTask(x)
  PROVE  IInv'
<1>1. TypeOK'
  BY DEF CancelTask, IInv, TypeOK, Pc, PcInv, HoldInv, JournalInv, Honest
<1>2. JournalInv' /\ PcInv' /\ HoldInv'
  BY DEF CancelTask, IInv, TypeOK, JournalInv, PcInv, HoldInv,
     WorkInv, LateInv, Unsent, Honest
<1>3. WorkInv' /\ LateInv' /\ ResultInv'
  BY DEF CancelTask, IInv, TypeOK, PcInv, HoldInv, WorkInv, LateInv,
     ResultInv, Unsent, Honest
<1>4. QED
  BY <1>1, <1>2, <1>3 DEF IInv

-----------------------------------------------------------------------------
(* Theorems.                                                               *)

\* It holds before the first claim.
LEMMA InitInv == Init => IInv
<1> SUFFICES ASSUME Init PROVE IInv
  OBVIOUS
<1>1. TypeOK
  <2>1. budget \in [crash : 0 .. MaxCrashes, loss : 0 .. MaxLosses, late : 0 .. MaxLate]
    BY BoundsAssumption DEF Init
  <2>2. QED
    BY <2>1 DEF Init, TypeOK, Pc
<1>2. JournalInv /\ PcInv /\ HoldInv
  BY DEF Init, JournalInv, PcInv, HoldInv
<1>3. WorkInv /\ LateInv /\ ResultInv
  BY DEF Init, WorkInv, LateInv, ResultInv
<1>4. QED
  BY <1>1, <1>2, <1>3 DEF IInv

\* No step of the agent, of a user or of a fault breaks it.
LEMMA StepInv == IInv /\ [Next]_vars => IInv'
<1> SUFFICES ASSUME IInv, [Next]_vars
             PROVE  IInv'
  OBVIOUS
<1>1. CASE Agent
  BY <1>1, ClaimTaskKeeps, SaveClaimedKeeps, ResumeKeeps, AcknowledgeTaskKeeps,
     SaveExecutingKeeps, RefuseKeeps, BeginKeeps, EndKeeps, CacheKeeps, RefreshKeeps,
     ReplaceKeeps, SubmitKeeps, SubmitRefusedKeeps, ClearKeeps, RefuseReconnectKeeps,
     SaveReconnectingKeeps, RebootKeeps, ResumeReconnectKeeps DEF Agent
<1>2. CASE User
  BY <1>2, CancelTaskKeeps DEF User
<1>3. CASE Fault
  BY <1>3, GiveUpKeeps, ArriveKeeps, CrashKeeps DEF Fault
<1>4. CASE HostReboot
  BY <1>4, HostRebootKeeps
<1>5. CASE UNCHANGED vars
  BY <1>5 DEF vars, IInv, TypeOK, JournalInv, PcInv, HoldInv, WorkInv, LateInv,
     ResultInv, Unsent, Honest
<1>6. QED
  BY <1>1, <1>2, <1>3, <1>4, <1>5 DEF Next

\* Every reachable state satisfies the invariant, types included.
THEOREM Invariance == Spec => []IInv
BY InitInv, StepInv, PTL DEF Spec

\* The table, the journal and the agent keep the types of the code's values, for
\* every number of tasks and every bound on the faults.
THEOREM TypeCorrect == Spec => []TypeOK
<1>1. IInv => TypeOK
  BY DEF IInv
<1>2. QED
  BY <1>1, Invariance, PTL

\* An action that handed over to a reboot succeeds only with the proof that its
\* host has booted, however often its result is sent and whenever it arrives.
THEOREM RebootIsProved == Spec => []RebootProved
<1>1. IInv => RebootProved
  BY DEF IInv, TypeOK, ResultInv, RebootProved
<1>2. QED
  BY <1>1, Invariance, PTL

-----------------------------------------------------------------------------
(* Each step of the protocol is a step of TaskOnce or stutters.            *)

\* Nothing is decided about t in this step.
Undecided(t) ==
  \/ phase'[t] = phase[t]
  \/ phase[t] \notin TerminalPhase /\ phase'[t] \notin TerminalPhase

LEMMA QuietVerdict ==
  ASSUME TypeOK,
         \A t \in Task : Undecided(t)
  PROVE  Verdict' = Verdict
BY DEF Undecided, Verdict, TypeOK

\* The first result of a task is the verdict on it.
LEMMA SettledRefines ==
  ASSUME IInv, NEW t \in Task, NEW s, Settled(t, s), Honest(t, s), work' = work
  PROVE  Once!Next
<1>1. PhaseOf(s) \in TerminalPhase
  BY DEF PhaseOf, Honest
<1>2. Verdict[t] = "none"
  BY DEF Settled, Verdict
<1>3. Verdict' = [Verdict EXCEPT ![t] = PhaseOf(s)]
  BY <1>1 DEF Settled, Verdict, IInv, TypeOK
<1>4. /\ PhaseOf(s) = "succeeded" => work[t] = "ended"
      /\ (PhaseOf(s) = "canceled" /\ Kind[t] = "execution") => work[t] = "never"
  BY DEF PhaseOf, Honest
<1>5. Once!Decide(t, PhaseOf(s))
  BY <1>2, <1>3, <1>4 DEF Once!Decide
<1>6. QED
  BY <1>1, <1>5 DEF Once!Next

LEMMA HandlesRefines ==
  ASSUME IInv, NEW q \in Request, Handles(q) \/ UNCHANGED server,
         q \in late \/ q \in Asked, work' = work
  PROVE  Once!Next \/ UNCHANGED <<work, Verdict>>
<1>1. q.op # "claim" => q.task \in Task
  BY DEF IInv, LateInv, PcInv, Asked, None
<1>2. q.op = "submit" => Honest(q.task, q.sub)
  BY DEF IInv, LateInv, HoldInv, Asked
<1>3. CASE q.op = "submit" /\ Settled(q.task, q.sub)
  BY <1>1, <1>2, <1>3, SettledRefines
<1>4. CASE \/ UNCHANGED server
           \/ \E t \in Task : Granted(t) \/ Confirmed(t)
  <2>1. \A t \in Task : Undecided(t)
    BY <1>4 DEF Undecided, Granted, Confirmed, IInv, TypeOK
  <2>2. QED
    BY <2>1, QuietVerdict DEF IInv
<1>5. QED
  BY <1>1, <1>3, <1>4, HandlesEffect DEF IInv

LEMMA CancelTaskRefines ==
  ASSUME IInv, NEW t \in Task, CancelTask(t)
  PROVE  Once!Next \/ UNCHANGED <<work, Verdict>>
<1>1. CASE phase[t] = "pending"
  <2>1. work[t] = "never" /\ work' = work
    BY <1>1 DEF CancelTask, IInv, WorkInv
  <2>2. Verdict[t] = "none" /\ Verdict' = [Verdict EXCEPT ![t] = "canceled"]
    BY <1>1 DEF CancelTask, Verdict, IInv, TypeOK
  <2>3. Once!Decide(t, "canceled")
    BY <2>1, <2>2 DEF Once!Decide
  <2>4. QED
    BY <2>3 DEF Once!Next
<1>2. CASE phase[t] # "pending"
  <2>1. \A u \in Task : Undecided(u)
    BY <1>2 DEF Undecided, CancelTask, IInv, TypeOK
  <2>2. QED
    BY <2>1, QuietVerdict DEF CancelTask, IInv
<1>3. QED
  BY <1>1, <1>2

LEMMA AgentRefines ==
  ASSUME IInv, Agent
  PROVE  Once!Next \/ UNCHANGED <<work, Verdict>>
<1>1. CASE Begin
  <2>1. cur.task \in Task /\ work[cur.task] = "never" /\ phase[cur.task] \in HeldPhase
    BY <1>1 DEF Begin, IInv, PcInv, HoldInv, Unsent
  <2>2. Verdict[cur.task] = "none" /\ Verdict' = Verdict
    BY <1>1, <2>1 DEF Begin, Verdict
  <2>3. Once!Begin(cur.task)
    BY <1>1, <2>1, <2>2 DEF Begin, Once!Begin
  <2>4. QED
    BY <2>1, <2>3 DEF Once!Next
<1>2. CASE End
  <2>1. cur.task \in Task /\ work[cur.task] = "begun" /\ phase[cur.task] \in HeldPhase
    BY <1>2 DEF End, IInv, PcInv, HoldInv, Unsent
  <2>2. Verdict[cur.task] = "none" /\ Verdict' = Verdict
    BY <1>2, <2>1 DEF End, Verdict
  <2>3. Once!End(cur.task)
    BY <1>2, <2>1, <2>2 DEF End, Once!End
  <2>4. QED
    BY <2>1, <2>3 DEF Once!Next
<1>3. CASE Submit
  <2>1. cur.task \in Task /\ Honest(cur.task, cur.sub) /\ work' = work
    BY <1>3 DEF Submit, IInv, PcInv, HoldInv
  <2>2. UNCHANGED server \/ Settled(cur.task, cur.sub)
    BY <1>3 DEF Submit, Stores, Accepts, Settled
  <2>3. QED
    BY <2>1, <2>2, SettledRefines DEF Verdict
<1>4. CASE ClaimTask \/ Refresh \/ AcknowledgeTask
  <2>1. /\ work' = work
        /\ \A t \in Task : Undecided(t)
    BY <1>4, ClaimsEffect
       DEF Undecided, ClaimTask, Refresh, ClaimsNothing, AcknowledgeTask, Acknowledges,
           IInv, TypeOK
  <2>2. QED
    BY <2>1, QuietVerdict DEF IInv
<1>5. CASE \/ SaveClaimed \/ Resume \/ SaveExecuting \/ Refuse \/ Cache \/ Replace
           \/ SubmitRefused \/ Clear \/ RefuseReconnect \/ SaveReconnecting \/ Reboot
           \/ ResumeReconnect
  <2>1. UNCHANGED <<server, work>>
    BY <1>5 DEF SaveClaimed, Resume, SaveExecuting, Refuse, Cache, Replace, SubmitRefused,
       Clear, RefuseReconnect, SaveReconnecting, Reboot, ResumeReconnect
  <2>2. QED
    BY <2>1 DEF Verdict
<1>6. QED
  BY <1>1, <1>2, <1>3, <1>4, <1>5 DEF Agent

LEMMA FaultRefines ==
  ASSUME IInv, Fault \/ HostReboot
  PROVE  Once!Next \/ UNCHANGED <<work, Verdict>>
<1>1. CASE GiveUp
  <2>1. PICK q \in Asked : Handles(q) \/ UNCHANGED server
    BY <1>1 DEF GiveUp
  <2>2. q \in Request
    BY DEF Asked, Request, IInv, TypeOK, PcInv, HoldInv, Honest
  <2>3. work' = work
    BY <1>1 DEF GiveUp
  <2>4. QED
    BY <2>1, <2>2, <2>3, HandlesRefines
<1>2. CASE Arrive
  <2>1. PICK q \in late : Handles(q) \/ UNCHANGED server
    BY <1>2 DEF Arrive
  <2>2. q \in Request /\ work' = work
    BY <1>2 DEF Arrive, IInv, TypeOK
  <2>3. QED
    BY <2>1, <2>2, HandlesRefines
<1>3. CASE Crash \/ HostReboot
  BY <1>3 DEF Crash, HostReboot, Verdict
<1>4. QED
  BY <1>1, <1>2, <1>3 DEF Fault

\* The Server and the agent keep their promise: a task begins at most once and not
\* after the Server's verdict on it, the verdict is final, success means that the
\* task was carried out, and a bounded action called canceled never began.
THEOREM PromiseKept == Spec => KeepsPromise
<1>1. Init => Once!Init
  BY DEF Init, Once!Init, Verdict
<1>2. IInv /\ [Next]_vars => [Once!Next]_(Once!vars)
  <2> SUFFICES ASSUME IInv, [Next]_vars
               PROVE  Once!Next \/ UNCHANGED <<work, Verdict>>
    BY DEF Once!vars
  <2>1. CASE Next
    BY <2>1, AgentRefines, CancelTaskRefines, FaultRefines DEF Next, User, Fault
  <2>2. CASE UNCHANGED vars
    BY <2>2 DEF vars, Verdict
  <2>3. QED
    BY <2>1, <2>2
<1>3. QED
  BY <1>1, <1>2, Invariance, PTL DEF KeepsPromise, Once!Spec, Spec

-----------------------------------------------------------------------------
(***************************************************************************)
(* The repair of a kernel parameter.                                       *)
(***************************************************************************)

(* What the files say and what loading them makes of the value.            *)

LEMMA MinFits ==
  ASSUME NEW S \in SUBSET (0..LibRoot), S # {}
  PROVE  Min(S) \in S /\ \A y \in S : Min(S) <= y
<1>1. \E x \in S : \A y \in S : x <= y
  <2>1. CASE 0 \in S BY <2>1 DEF LibRoot
  <2>2. CASE 0 \notin S /\ 1 \in S BY <2>2 DEF LibRoot
  <2>3. CASE 0 \notin S /\ 1 \notin S /\ 2 \in S BY <2>3 DEF LibRoot
  <2>4. CASE 0 \notin S /\ 1 \notin S /\ 2 \notin S /\ 3 \in S BY <2>4 DEF LibRoot
  <2>5. CASE S = {4} BY <2>5
  <2>6. S \subseteq {0, 1, 2, 3, 4}
    BY DEF LibRoot
  <2> QED BY <2>1, <2>2, <2>3, <2>4, <2>5, <2>6
<1> QED BY <1>1 DEF Min

Basename == {n[2] : n \in File}

LEMMA MaxFits ==
  ASSUME NEW B \in SUBSET Basename, B # {}
  PROVE  Max(B) \in B /\ \A c \in B : Max(B) >= c
BY LastAssumption DEF Max, Basename

LEMMA NameFacts ==
  /\ Legacy \notin File /\ Legacy \in Name /\ File = Name \ {Legacy}
  /\ \A n \in File : n[1] \in 0..LibRoot /\ n[2] \in Nat /\ n = <<n[1], n[2]>>
BY FileAssumption DEF Name

\* Of the files of one basename one counts.
LEMMA OneCounts ==
  ASSUME NEW f \in [Name -> Content], NEW view \in View, NEW n \in Chosen(f, view),
         NEW m \in Chosen(f, view), n[2] = m[2]
  PROVE  n = m
<1>1. n \in File /\ m \in File /\ f[n] # "none" /\ f[m] # "none"
  BY NameFacts DEF Chosen
<1>2. n[1] <= m[1] /\ m[1] <= n[1]
  BY <1>1, NameFacts DEF Chosen
<1> QED BY <1>1, <1>2, NameFacts DEF LibRoot

\* What loading the files reads is what the resolver reads.
LEMMA LoadsRead ==
  ASSUME NEW view \in View, Contents \in [Name -> Content]
  PROVE  \A n : n \in Loads(view) <=> n \in Read(Contents, view)
<1> DEFINE there == {n \in File : Contents[n] # "none" /\ (view = "systemd" => n[1] < LibRoot)}
           roots(b) == {n[1] : n \in {m \in there : m[2] = b}}
<1>1. \A n \in there : /\ n \in File /\ Contents[n] # "none" /\ n[1] \in 0..LibRoot
                       /\ n[2] \in Nat /\ n = <<n[1], n[2]>>
  BY NameFacts
<1>2. ASSUME NEW b, NEW m \in there, m[2] = b
      PROVE  /\ roots(b) \in SUBSET (0..LibRoot) /\ roots(b) # {}
             /\ Min(roots(b)) \in roots(b) /\ \A y \in roots(b) : Min(roots(b)) <= y
  <2>1. roots(b) \in SUBSET (0..LibRoot) /\ roots(b) # {}
    BY <1>1, <1>2
  <2> HIDE DEF roots
  <2> QED BY <2>1, MinFits
<1>3. ASSUME NEW m \in there
      PROVE  <<Min(roots(m[2])), m[2]>> \in Chosen(Contents, view)
  <2>0. Min(roots(m[2])) \in roots(m[2])
    <3> HIDE DEF roots, there
    <3> QED BY <1>2
  <2>1. PICK n \in there : n[2] = m[2] /\ n[1] = Min(roots(m[2]))
    BY <2>0
  <2>2. n = <<Min(roots(m[2])), m[2]>>
    BY <1>1, <2>1
  <2>3. ASSUME NEW k \in File, k[2] = n[2], Contents[k] # "none"
        PROVE  n[1] <= k[1]
    <3>1. CASE k \in there
      BY <3>1, <2>1, <2>3, <1>2
    <3>2. CASE k \notin there
      BY <3>2, <2>3, <1>1, NameFacts DEF LibRoot
    <3> QED BY <3>1, <3>2
  <2>4. n \in Chosen(Contents, view)
    <3>1. view = "systemd" => n[1] # LibRoot
      BY <1>1 DEF LibRoot
    <3> QED BY <3>1, <2>3, <1>1, NameFacts DEF Chosen
  <2> QED BY <2>2, <2>4
<1>4. ASSUME NEW n \in Chosen(Contents, view)
      PROVE  n \in there /\ n = <<Min(roots(n[2])), n[2]>>
  <2>1. n \in there
    BY NameFacts DEF Chosen, LibRoot
  <2>2. <<Min(roots(n[2])), n[2]>> \in Chosen(Contents, view)
    BY <2>1, <1>3
  <2> QED BY <2>1, <2>2, OneCounts
<1>5. Loads(view) = {<<Min(roots(b)), b>> : b \in {n[2] : n \in there}}
                      \union {n \in {Legacy} : view = "procps" /\ Contents[n] # "none"}
  BY Zenon DEF Loads
<1> HIDE DEF there, roots
<1>6. \A n : n \in {<<Min(roots(b)), b>> : b \in {m[2] : m \in there}} <=> n \in Chosen(Contents, view)
  BY <1>3, <1>4
<1> QED BY <1>5, <1>6 DEF Read

\* Both ways of loading files that are resolved to 0 make the value 0.
LEMMA LoadedAsResolved ==
  ASSUME NEW f \in [Name -> Content], f = Contents, Resolved(f),
         ViewValue(f, "systemd") = "0", NEW view \in View
  PROVE  Loaded(view) = {"0"}
<1> DEFINE set == {n \in Loads(view) : Contents[n] \in Value}
           trace == Trace(f, view)
<1>1. ViewValue(f, view) = "0" /\ ~Odd(f, view)
  BY DEF Resolved, View
<1>2. \A n : n \in Loads(view) <=> n \in Read(f, view)
  BY LoadsRead
<1>3. \A n \in Read(f, view) : n \in Name /\ f[n] \notin {"odd", "unsafe"}
  BY <1>1, NameFacts DEF Odd, Resolved, Read, Chosen
<1>4. Loaded(view) = IF set = {} THEN {host.value}
                     ELSE IF Legacy \in set THEN {Contents[Legacy]}
                     ELSE {Contents[CHOOSE n \in set : n[2] = Max({m[2] : m \in set})]}
  BY <1>2, <1>3, Zenon DEF Loaded
<1>5. \A a : a \in trace <=> \E n \in set : a = <<n, f[n]>>
  BY <1>2 DEF Trace
<1>6. trace # {} /\ Last(trace)[2] = "0"
  BY <1>1, ContentAssumption DEF ViewValue, Value
<1>7. set # {}
  BY <1>5, <1>6
<1>8. CASE Legacy \in set
  <2>1. <<Legacy, f[Legacy]>> \in trace
    BY <1>8, <1>5
  <2>2. \A a \in trace : a[1] = Legacy => a = <<Legacy, f[Legacy]>>
    BY <1>5
  <2>3. Last(trace) = <<Legacy, f[Legacy]>>
    <3>1. \E a \in trace : a[1] = Legacy
      BY <2>1
    <3>2. Last(trace) = CHOOSE a \in trace : a[1] = Legacy
      BY <3>1 DEF Last
    <3> HIDE DEF trace
    <3> QED BY <3>1, <3>2, <2>2
  <2> QED BY <1>4, <1>6, <1>7, <1>8, <2>3
<1>9. CASE Legacy \notin set
  <2> DEFINE B == {m[2] : m \in set}
             Latest == CHOOSE n \in set : n[2] = Max(B)
  <2>1. \A n \in set : n \in Chosen(f, view) /\ n \in File /\ n[2] \in Nat
    BY <1>2, <1>9, NameFacts DEF Read, Chosen
  <2>2. B \in SUBSET Basename /\ B # {}
    BY <2>1, <1>7 DEF Basename
  <2>3. Max(B) \in B /\ \A c \in B : Max(B) >= c
    <3> HIDE DEF B
    <3> QED BY <2>2, MaxFits
  <2>4. PICK n \in set : n[2] = Max(B)
    BY <2>3
  <2>5. \A m \in set : m[2] = Max(B) => m = n
    BY <2>1, <2>4, OneCounts
  <2>6. Latest = n
    <3> HIDE DEF B, set
    <3> QED BY <2>4, <2>5
  <2>7. <<n, f[n]>> \in trace /\ \A b \in trace : b[1][2] <= n[2]
    BY <1>5, <2>1, <2>3, <2>4
  <2>8. \A a \in trace : (\A b \in trace : b[1][2] <= a[1][2]) => a = <<n, f[n]>>
    <3> SUFFICES ASSUME NEW a \in trace, \A b \in trace : b[1][2] <= a[1][2]
                 PROVE  a = <<n, f[n]>>
      OBVIOUS
    <3>1. PICK m \in set : a = <<m, f[m]>>
      BY <1>5
    <3>2. n[2] <= m[2] /\ m[2] <= n[2]
      BY <2>7, <3>1
    <3>3. m[2] = n[2]
      BY <3>2, <2>1
    <3> QED BY <3>1, <3>3, <2>4, <2>5
  <2>9. Last(trace) = <<n, f[n]>>
    <3>1. ~\E a \in trace : a[1] = Legacy
      BY <1>5, <1>9
    <3>2. Last(trace) = CHOOSE a \in trace : \A b \in trace : b[1][2] <= a[1][2]
      BY <3>1 DEF Last
    <3> HIDE DEF trace
    <3> QED BY <3>2, <2>7, <2>8
  <2>10. Loaded(view) = {Contents[Latest]}
    BY <1>4, <1>7, <1>9, Zenon
  <2> HIDE DEF Latest
  <2>11. f[n] = "0"
    BY <1>6, <2>9
  <2> QED BY <2>6, <2>10, <2>11
<1> QED BY <1>8, <1>9

-----------------------------------------------------------------------------
(* The invariant: what the repair has seen and stored is what the host     *)
(* holds, as long as nobody touched it.                                    *)

Stages == Looks \union Ended \union {"apply_write", "rollback"}
SpareTypes == [edits : 0 .. MaxEdits, faults : 0 .. MaxFaults]
Partial == UNION {[S -> Content \union Listed] : S \in SUBSET Name}
Unmoved == {"verify_point", "apply", "apply_write", "restored", "verify_rollback",
            "rolled_back"}
Pointed == {"verify_point", "apply", "apply_write", "applied", "verify", "rollback", "restored",
            "verify_rollback"}

ShapeFits ==
  /\ host \in [file : [Name -> Content], value : Value]
  /\ stage \in Stages
  /\ seen \in [value : Value \union {NoValue}, file : Partial]
  /\ memory \in [alone : BOOLEAN, since : BOOLEAN, was : Value \union {NoValue}]
  /\ spare \in SpareTypes

PlanFits ==
  /\ \/ plan = {}
     \/ plan = {Frozen} /\ Frozen.before \in Value
  /\ \/ point = {} /\ stage \notin Pointed
     \/ point = {Manifest} /\ Manifest.value \in Value

\* What is seen is there, unless somebody was at it since the look began.
SeenFits ==
  /\ seen.value = NoValue => DOMAIN seen.file = {}
  /\ memory.alone /\ seen.value # NoValue =>
       /\ seen.value = host.value
       /\ \A n \in DOMAIN seen.file :
            seen.file[n] = IF seen.file[n] \in Listed THEN Found(n) ELSE ReadAs(n)

\* The restore point is of the value there was when it was made, and as long as
\* nobody else touched it that is the value wherever the repair does not change
\* it.
SinceFits ==
  memory.since =>
    /\ point # {} /\ Manifest.value = memory.was
    /\ stage \in Unmoved => host.value = memory.was

WriteFits ==
  stage = "apply_write" /\ memory.alone =>
    host.value = Frozen.before /\ Digest(Contents) = Frozen.digest

SuccessLasts ==
  stage = "succeeded" /\ memory.alone =>
    host.value = "0" /\ \A view \in View : Loaded(view) = {"0"}

RInv == ShapeFits /\ PlanFits /\ SeenFits /\ SinceFits /\ WriteFits /\ SuccessLasts

LEMMA HostKept ==
  ASSUME host' = host
  PROVE  /\ \A n : ReadAs(n)' = ReadAs(n) /\ Found(n)' = Found(n)
         /\ Contents' = Contents
         /\ \A view : Loaded(view)' = Loaded(view)
<1>1. \A n : ReadAs(n)' = ReadAs(n) /\ Found(n)' = Found(n)
  BY DEF ReadAs, Found
<1>2. Contents' = Contents
  BY <1>1 DEF Contents
<1>3. \A view : Loads(view)' = Loads(view)
  BY <1>2 DEF Loads
<1>4. ASSUME NEW view
      PROVE  Loaded(view)' = Loaded(view)
  <2>1. Loads(view)' = Loads(view)
    BY <1>3
  <2>2. {n \in Loads(view)' : Contents'[n] \in Value} = {n \in Loads(view) : Contents[n] \in Value}
    BY <1>2, <2>1
  <2> QED BY <1>2, <2>1, <2>2 DEF Loaded
<1> QED BY <1>1, <1>2, <1>4

LEMMA ContentsFit ==
  ASSUME ShapeFits
  PROVE  Contents \in [Name -> Content]
<1>1. \A n \in Name : ReadAs(n) \in Content
  BY NameFacts DEF ShapeFits, ReadAs, Content
<1> QED BY <1>1 DEF Contents

\* All files were read, and nobody was at them: what was read is what they hold.
LEMMA AllSeen ==
  ASSUME ShapeFits, SeenFits, Looked
  PROVE  /\ Contents \in [Name -> Content] /\ seen.value \in Value
         /\ memory.alone => seen.file = Contents /\ seen.value = host.value
<1>1. Contents \in [Name -> Content]
  BY ContentsFit
<1>2. PICK S \in SUBSET Name : seen.file \in [S -> Content \union Listed]
  BY DEF ShapeFits, Partial
<1>3. S = Name /\ \A n \in Name : seen.file[n] \notin Listed
  BY <1>2 DEF Looked
<1>4. seen.value # NoValue
  BY NameFacts DEF SeenFits, Looked
<1>5. ASSUME memory.alone
      PROVE  seen.file = Contents /\ seen.value = host.value
  <2>1. \A n \in Name : seen.file[n] = ReadAs(n)
    BY <1>2, <1>3, <1>4, <1>5 DEF SeenFits
  <2> QED
    BY <1>2, <1>3, <1>4, <1>5, <2>1 DEF SeenFits, Contents
<1> QED BY <1>1, <1>4, <1>5 DEF ShapeFits

-----------------------------------------------------------------------------
(* Steps.                                                                  *)

LEMMA NothingSeen == Nothing \in [value : Value \union {NoValue}, file : Partial] /\ DOMAIN Nothing.file = {}
<1>1. [n \in {} |-> ""] \in [{} -> Content \union Listed]
  OBVIOUS
<1> QED BY <1>1 DEF Nothing, Partial

\* The repair goes on to s and changes nothing else.
LEMMA GoesOn ==
  ASSUME RInv, NEW s \in Stages, Next_(s), UNCHANGED <<host, plan, point, memory>>,
         spare' \in SpareTypes,
         s \in Pointed => stage \in Pointed \/ point # {},
         memory.since /\ s \in Unmoved => host.value = memory.was,
         s = "apply_write" /\ memory.alone =>
           host.value = Frozen.before /\ Digest(Contents) = Frozen.digest,
         s = "succeeded" /\ memory.alone =>
           host.value = "0" /\ \A view \in View : Loaded(view) = {"0"}
  PROVE  RInv'
<1>1. ShapeFits'
  BY NothingSeen DEF RInv, ShapeFits, Next_, SpareTypes
<1>2. Frozen' = Frozen /\ Manifest' = Manifest
  BY DEF Frozen, Manifest
<1>3. PlanFits'
  BY <1>2 DEF RInv, PlanFits, Next_
<1>4. SeenFits'
  BY NothingSeen DEF SeenFits, Next_, Nothing
<1>5. SinceFits'
  BY <1>2 DEF RInv, SinceFits, Next_
<1>6. WriteFits'
  <2>1. Digest(Contents)' = Digest(Contents)
    BY HostKept DEF Digest
  <2> QED BY <1>2, <2>1 DEF WriteFits, Next_
<1>7. SuccessLasts'
  BY HostKept DEF SuccessLasts, Next_
<1> QED BY <1>1, <1>3, <1>4, <1>5, <1>6, <1>7 DEF RInv

\* The repair sets the value.
LEMMA Writes ==
  ASSUME RInv, NEW v \in Value, Write(v), UNCHANGED <<plan, point, memory>>,
         NEW s \in {"applied", "restored", "interrupted", "rollback_failed"}, Next_(s),
         spare' \in SpareTypes, stage \in Pointed,
         s = "restored" => v = Manifest.value
  PROVE  RInv'
<1>1. ShapeFits'
  BY NothingSeen DEF RInv, ShapeFits, Next_, SpareTypes, Write, Stages, Looks, Ended
<1>2. Frozen' = Frozen /\ Manifest' = Manifest
  BY DEF Frozen, Manifest
<1>3. PlanFits'
  BY <1>2 DEF RInv, PlanFits, Next_
<1>4. SeenFits'
  BY NothingSeen DEF SeenFits, Next_, Nothing
<1>5. SinceFits'
  BY <1>2 DEF RInv, SinceFits, Next_, Write, Unmoved, ShapeFits
<1>6. WriteFits' /\ SuccessLasts'
  BY DEF WriteFits, SuccessLasts, Next_
<1> QED BY <1>1, <1>3, <1>4, <1>5, <1>6 DEF RInv

LEMMA FailedFits ==
  ASSUME RInv
  PROVE  /\ Failed \in {"blocked", "interrupted", "rollback", "rollback_failed"}
         /\ Failed = "rollback" => stage \in Pointed
         /\ stage \in {"apply_write", "rollback"} => Failed \in {"interrupted", "rollback_failed"}
<1>1. CASE stage \in {"discover", "precheck", "create", "verify_point"}
  BY <1>1 DEF Failed
<1>2. CASE stage \in {"apply", "apply_write", "applied"}
  BY <1>2 DEF Failed
<1>3. CASE stage = "verify"
  BY <1>3 DEF Failed, Pointed
<1>4. CASE stage \notin {"discover", "precheck", "create", "verify_point", "apply", "apply_write",
                         "applied", "verify"}
  BY <1>4 DEF Failed
<1> QED BY <1>1, <1>2, <1>3, <1>4

LEMMA SpareFits ==
  ASSUME RInv
  PROVE  /\ spare \in SpareTypes
         /\ spare.faults > 0 => [spare EXCEPT !.faults = @ - 1] \in SpareTypes
         /\ spare.edits > 0 => [spare EXCEPT !.edits = @ - 1] \in SpareTypes
BY BoundAssumption DEF RInv, ShapeFits, SpareTypes

LEMMA Fails ==
  ASSUME RInv, LookFails \/ Unresolved \/ Refuses
  PROVE  RInv'
<1>1. Next_(Failed) /\ UNCHANGED <<host, plan, point, memory>> /\ spare' \in SpareTypes
  BY SpareFits DEF LookFails, Unresolved, Refuses, Keep
<1> QED BY <1>1, FailedFits, GoesOn DEF Stages, Ended, Unmoved, Pointed

\* A stage that saw what it had to see goes on.
LEMMA Proceeds ==
  ASSUME RInv,
         Discover \/ PrecheckBlocks \/ VerifyPoint \/ Applied \/ Restored \/ VerifyRollback
  PROVE  RInv'
<1> DEFINE places == {<<"discover", "precheck">>, <<"precheck", "blocked">>, <<"verify_point", "apply">>,
                      <<"applied", "verify">>, <<"restored", "verify_rollback">>,
                      <<"verify_rollback", "rolled_back">>}
<1>1. PICK s \in Stages : /\ Next_(s) /\ Keep /\ <<stage, s>> \in places
  BY DEF Discover, PrecheckBlocks, VerifyPoint, Applied, Restored, VerifyRollback, Sees, Stages,
         Looks, Ended
<1>2. UNCHANGED <<host, plan, point, memory>> /\ spare' \in SpareTypes
  BY <1>1, SpareFits DEF Keep
<1>3. /\ s \in Pointed => stage \in Pointed
      /\ s \in Unmoved => stage \in Unmoved
      /\ s \notin {"apply_write", "succeeded"}
  BY <1>1 DEF Pointed, Unmoved
<1>4. memory.since /\ s \in Unmoved => host.value = memory.was
  BY <1>3 DEF RInv, SinceFits
<1> HIDE DEF places
<1> QED BY <1>1, <1>2, <1>3, <1>4, GoesOn

LEMMA Seen ==
  ASSUME RInv, Looked
  PROVE  /\ Contents \in [Name -> Content] /\ seen.value \in Value
         /\ memory.alone => seen.file = Contents /\ seen.value = host.value
BY AllSeen DEF RInv

LEMMA ApplyChecksStep ==
  ASSUME RInv, ApplyChecks
  PROVE  RInv'
<1> DEFINE s == IF seen.value = "0" THEN "applied" ELSE "apply_write"
<1>1. stage = "apply" /\ Looked /\ Fresh /\ Next_(s) /\ Keep
  BY DEF ApplyChecks, Sees
<1>2. s \in Stages /\ stage \in Pointed /\ s # "succeeded"
  BY <1>1 DEF Stages, Looks, Pointed
<1>3. UNCHANGED <<host, plan, point, memory>> /\ spare' \in SpareTypes
  BY <1>1, SpareFits DEF Keep
<1>4. memory.since => host.value = memory.was
  BY <1>1 DEF RInv, SinceFits, Unmoved
<1>5. s = "apply_write" /\ memory.alone => host.value = Frozen.before /\ Digest(Contents) = Frozen.digest
  <2>1. s = "apply_write" => seen.value = Frozen.before
    BY <1>1 DEF Fresh
  <2>2. Digest(seen.file) = Frozen.digest
    BY <1>1 DEF Fresh, SameEvidence
  <2> QED BY <1>1, <2>1, <2>2, Seen
<1> HIDE DEF s
<1> QED BY <1>1, <1>2, <1>3, <1>4, <1>5, GoesOn

LEMMA VerifyStep ==
  ASSUME RInv, Verify
  PROVE  RInv'
<1>1. stage = "verify" /\ Looked /\ Resolved(seen.file) /\ Holds /\ Next_("succeeded") /\ Keep
  BY DEF Verify, Sees
<1>2. UNCHANGED <<host, plan, point, memory>> /\ spare' \in SpareTypes
  BY <1>1, SpareFits DEF Keep
<1>3. ASSUME memory.alone
      PROVE  host.value = "0" /\ \A view \in View : Loaded(view) = {"0"}
  <2>1. Contents \in [Name -> Content] /\ seen.file = Contents /\ seen.value = host.value
    BY <1>1, <1>3, Seen
  <2>2. Resolved(Contents) /\ ViewValue(Contents, "systemd") = "0" /\ host.value = "0"
    BY <1>1, <2>1 DEF Holds, SameEvidence, Persisted
  <2> QED BY <2>1, <2>2, LoadedAsResolved
<1> QED BY <1>1, <1>2, <1>3, GoesOn DEF Stages, Ended, Pointed, Unmoved

LEMMA WritesStep ==
  ASSUME RInv, ApplyWrites \/ Rollback \/ WriteFails
  PROVE  RInv'
<1>1. stage \in {"apply_write", "rollback"}
  BY DEF ApplyWrites, Rollback, WriteFails
<1>2. Manifest.value \in Value /\ stage \in Pointed /\ "0" \in Value
  BY <1>1 DEF RInv, PlanFits, Pointed, Value
<1>3. CASE ApplyWrites \/ Rollback
  BY <1>2, <1>3, SpareFits, Writes DEF ApplyWrites, Rollback
<1>4. CASE WriteFails /\ UNCHANGED host
  BY <1>1, <1>4, FailedFits, SpareFits, GoesOn DEF WriteFails, Stages, Ended, Unmoved, Pointed
<1>5. CASE WriteFails /\ Write(IF stage = "rollback" THEN Manifest.value ELSE "0")
  BY <1>1, <1>2, <1>5, FailedFits, SpareFits, Writes DEF WriteFails
<1> QED BY <1>3, <1>4, <1>5 DEF WriteFails

LEMMA PlanStep ==
  ASSUME RInv, Plan
  PROVE  RInv'
<1> DEFINE p == [before |-> seen.value, digest |-> Digest(seen.file)]
<1>1. stage = "precheck" /\ Looked /\ plan' = {p} /\ Next_("create")
      /\ UNCHANGED <<host, point, memory, spare>>
  BY DEF Plan, Sees
<1>2. Frozen' = p /\ Manifest' = Manifest
  BY <1>1 DEF Frozen, Manifest
<1>3. ShapeFits'
  BY <1>1, NothingSeen DEF RInv, ShapeFits, Next_, Stages, Looks
<1>4. PlanFits'
  BY <1>1, <1>2, Seen DEF RInv, PlanFits, Next_, Pointed
<1>5. SeenFits' /\ WriteFits' /\ SuccessLasts'
  BY <1>1, NothingSeen DEF SeenFits, WriteFits, SuccessLasts, Next_, Nothing
<1>6. SinceFits'
  BY <1>1, <1>2 DEF RInv, SinceFits, Next_, Unmoved
<1> QED BY <1>3, <1>4, <1>5, <1>6 DEF RInv

LEMMA CreateStep ==
  ASSUME RInv, Create
  PROVE  RInv'
<1> DEFINE p == [value |-> seen.value, digest |-> Digest(seen.file)]
<1>1. /\ stage = "create" /\ Looked /\ point' = {p} /\ Next_("verify_point")
      /\ memory' = [memory EXCEPT !.since = memory.alone, !.was = host.value]
      /\ UNCHANGED <<host, plan, spare>>
  BY DEF Create, Sees
<1>2. Frozen' = Frozen /\ Manifest' = p
  BY <1>1 DEF Frozen, Manifest
<1>3. ShapeFits'
  BY <1>1, NothingSeen DEF RInv, ShapeFits, Next_, Stages, Looks
<1>4. PlanFits'
  BY <1>1, <1>2, Seen DEF RInv, PlanFits, Next_
<1>5. SeenFits' /\ WriteFits' /\ SuccessLasts'
  BY <1>1, NothingSeen DEF SeenFits, WriteFits, SuccessLasts, Next_, Nothing
<1>6. SinceFits'
  <2>1. memory'.since = memory.alone /\ memory'.was = host.value
    BY <1>1 DEF RInv, ShapeFits
  <2>2. memory.alone => seen.value = host.value
    BY <1>1, Seen
  <2> QED BY <1>1, <1>2, <2>1, <2>2 DEF SinceFits
<1> QED BY <1>3, <1>4, <1>5, <1>6 DEF RInv

LEMMA ReadRuntimeStep ==
  ASSUME RInv, ReadRuntime
  PROVE  RInv'
<1>1. Frozen' = Frozen /\ Manifest' = Manifest
  BY DEF ReadRuntime, Frozen, Manifest
<1>2. ShapeFits'
  BY DEF ReadRuntime, RInv, ShapeFits
<1>3. PlanFits'
  BY <1>1 DEF ReadRuntime, RInv, PlanFits
<1>4. SeenFits'
  <2>1. /\ seen'.value = host.value /\ host' = host /\ DOMAIN seen'.file = {}
        /\ host.value # NoValue
    BY ContentAssumption DEF ReadRuntime, RInv, SeenFits, ShapeFits
  <2> QED BY <2>1 DEF SeenFits
<1>5. SinceFits'
  BY <1>1 DEF ReadRuntime, RInv, SinceFits, ShapeFits
<1>6. WriteFits' /\ SuccessLasts'
  BY DEF ReadRuntime, WriteFits, SuccessLasts, Looks
<1> QED BY <1>2, <1>3, <1>4, <1>5, <1>6 DEF RInv

LEMMA EntryFits ==
  ASSUME ShapeFits, NEW n \in Name
  PROVE  /\ Found(n) \in Content \union Listed
         /\ Found(n) \notin Listed => Found(n) = ReadAs(n)
         /\ Found(n) = "link" => host.file[n] = "bridge"
         /\ Found(n) = "entry" => host.file[n] \notin {"none", "bridge"}
<1>1. CASE host.file[n] = "none"
  BY <1>1 DEF Found, ReadAs, Content, Listed
<1>2. CASE n = Legacy /\ host.file[n] \in {"bridge", "unsafe"}
  BY <1>2 DEF Found, ReadAs, Content, Listed
<1>3. CASE n # Legacy /\ host.file[n] = "bridge"
  BY <1>3 DEF Found, ReadAs, Content, Listed
<1>4. CASE host.file[n] \notin {"none", "bridge"} /\ ~(n = Legacy /\ host.file[n] = "unsafe")
  BY <1>4 DEF Found, ReadAs, Content, Listed
<1> QED BY <1>1, <1>2, <1>3, <1>4

\* More is seen of the files, and what was there before is still what it was.
LEMMA SeesMore ==
  ASSUME RInv, NEW f \in Partial, stage \in Looks, seen.value # NoValue,
         seen' = [seen EXCEPT !.file = f],
         UNCHANGED <<host, stage, plan, point, memory, spare>>,
         memory.alone => \A m \in DOMAIN f : f[m] = IF f[m] \in Listed THEN Found(m) ELSE ReadAs(m)
  PROVE  RInv'
<1>1. Frozen' = Frozen /\ Manifest' = Manifest
  BY DEF Frozen, Manifest
<1>2. seen'.file = f /\ seen'.value = seen.value
  BY DEF RInv, ShapeFits
<1>3. ShapeFits'
  BY DEF RInv, ShapeFits
<1>4. PlanFits' /\ SinceFits'
  BY <1>1 DEF RInv, PlanFits, SinceFits
<1>5. SeenFits'
  <2>1. \A m : ReadAs(m)' = ReadAs(m) /\ Found(m)' = Found(m)
    BY HostKept
  <2> QED BY <1>2, <2>1 DEF RInv, SeenFits
<1>6. WriteFits' /\ SuccessLasts'
  BY DEF WriteFits, SuccessLasts, Looks
<1> QED BY <1>3, <1>4, <1>5, <1>6 DEF RInv

LEMMA ListStep ==
  ASSUME RInv, NEW p, List(p)
  PROVE  RInv'
<1> DEFINE there == {n \in Name : Place(n) = p}
           f == [m \in DOMAIN seen.file \union there |-> IF m \in there THEN Found(m) ELSE seen.file[m]]
<1>1. /\ stage \in Looks /\ seen.value # NoValue /\ seen' = [seen EXCEPT !.file = f]
      /\ UNCHANGED <<host, stage, plan, point, memory, spare>>
  BY DEF List
<1>2. PICK S \in SUBSET Name : seen.file \in [S -> Content \union Listed]
  BY DEF RInv, ShapeFits, Partial
<1>3. \A n \in Name : Found(n) \in Content \union Listed /\ (Found(n) \notin Listed => Found(n) = ReadAs(n))
  BY EntryFits DEF RInv
<1>4. there \subseteq Name
  OBVIOUS
<1>5. DOMAIN f = S \union there /\ \A m \in S \union there : f[m] = IF m \in there THEN Found(m) ELSE seen.file[m]
  BY <1>2
<1>6. f \in [S \union there -> Content \union Listed]
  <2>1. \A m \in S \union there : f[m] \in Content \union Listed
    BY <1>2, <1>3, <1>4, <1>5
  <2> HIDE DEF there
  <2> QED BY <1>2, <2>1
<1>7. memory.alone => \A m \in DOMAIN f : f[m] = IF f[m] \in Listed THEN Found(m) ELSE ReadAs(m)
  BY <1>1, <1>2, <1>3, <1>4, <1>5 DEF RInv, SeenFits
<1> HIDE DEF f, there
<1>8. f \in Partial
  <2>1. S \union there \in SUBSET Name
    BY <1>4
  <2> QED BY <1>6, <2>1 DEF Partial
<1> QED BY <1>1, <1>7, <1>8, SeesMore

LEMMA ReadFileStep ==
  ASSUME RInv, NEW n \in Name, ReadFile(n)
  PROVE  RInv'
<1>1. PICK c \in Reads(n) : seen' = [seen EXCEPT !.file[n] = c]
  BY DEF ReadFile
<1> DEFINE f == [seen.file EXCEPT ![n] = c]
<1>2. /\ stage \in Looks /\ n \in DOMAIN seen.file /\ seen.file[n] \in Listed
      /\ seen' = [seen EXCEPT !.file = f]
      /\ UNCHANGED <<host, stage, plan, point, memory, spare>>
  BY <1>1 DEF ReadFile
<1>3. PICK S \in SUBSET Name : seen.file \in [S -> Content \union Listed]
  BY DEF RInv, ShapeFits, Partial
<1>4. seen.value # NoValue
  BY <1>2 DEF RInv, SeenFits
<1>5. c \in Content
  <2>1. ReadAs(n) \in Content
    BY NameFacts DEF RInv, ShapeFits, ReadAs, Content
  <2> QED BY <1>1, <2>1 DEF Reads, Content, RInv, ShapeFits
<1>6. f \in [S -> Content \union Listed]
  BY <1>3, <1>5
<1>7. memory.alone => c = ReadAs(n)
  <2> SUFFICES ASSUME memory.alone PROVE c = ReadAs(n)
    OBVIOUS
  <2>1. seen.file[n] = Found(n) /\ Found(n) \in Listed
    BY <1>2, <1>4 DEF RInv, SeenFits
  <2>2. CASE seen.file[n] = "link"
    <3>1. host.file[n] = "bridge"
      BY <2>1, <2>2, EntryFits DEF RInv
    <3> QED BY <1>1, <2>2, <3>1 DEF Reads
  <2>3. CASE seen.file[n] = "entry"
    <3>1. host.file[n] \notin {"none", "bridge"}
      BY <2>1, <2>3, EntryFits DEF RInv
    <3> QED BY <1>1, <2>3, <3>1 DEF Reads, ReadAs
  <2> QED BY <2>1, <2>2, <2>3 DEF Listed
<1>8. c \notin Listed
  BY <1>5 DEF Content, Listed, Value
<1>9. memory.alone => \A m \in DOMAIN f : f[m] = IF f[m] \in Listed THEN Found(m) ELSE ReadAs(m)
  BY <1>2, <1>3, <1>4, <1>7, <1>8 DEF RInv, SeenFits
<1> HIDE DEF f
<1>10. f \in Partial
  BY <1>6 DEF Partial
<1> QED BY <1>2, <1>4, <1>9, <1>10, SeesMore

\* Whatever an administrator does, nothing is claimed of it afterwards.
LEMMA MeanwhileStep ==
  ASSUME RInv, Meanwhile, host' \in [file : [Name -> Content], value : Value]
  PROVE  RInv'
<1>1. Frozen' = Frozen /\ Manifest' = Manifest
  BY DEF Meanwhile, Frozen, Manifest
<1>2. ~memory'.alone /\ ~memory'.since
  BY DEF Meanwhile, RInv, ShapeFits
<1>3. ShapeFits'
  BY SpareFits DEF Meanwhile, RInv, ShapeFits, SpareTypes
<1>4. PlanFits'
  BY <1>1 DEF Meanwhile, RInv, PlanFits
<1>5. SeenFits' /\ SinceFits' /\ WriteFits' /\ SuccessLasts'
  BY <1>2 DEF Meanwhile, RInv, SeenFits, SinceFits, WriteFits, SuccessLasts
<1> QED BY <1>3, <1>4, <1>5 DEF RInv

LEMMA AdministratorStep ==
  ASSUME RInv,
         \/ \E n \in Name, c \in Content : Edit(n, c)
         \/ \E v \in Value : Set(v)
         \/ \E view \in View : Load(view)
  PROVE  RInv'
<1>1. host \in [file : [Name -> Content], value : Value]
  BY DEF RInv, ShapeFits
<1>2. ASSUME NEW n \in Name, NEW c \in Content, Edit(n, c)
      PROVE  RInv'
  BY <1>1, <1>2, MeanwhileStep DEF Edit
<1>3. ASSUME NEW v \in Value, Set(v)
      PROVE  RInv'
  BY <1>1, <1>3, MeanwhileStep DEF Set, Write
<1>4. ASSUME NEW view \in View, Load(view)
      PROVE  RInv'
  <2>1. \A v \in Loaded(view) : v \in Value
    <3> DEFINE set == {n \in Loads(view) : Contents[n] \in Value}
               B == {m[2] : m \in set}
               Latest == CHOOSE n \in set : n[2] = Max(B)
    <3>1. \A n \in set : Contents[n] \in Value
      OBVIOUS
    <3>2. Contents \in [Name -> Content]
      BY ContentsFit DEF RInv
    <3>3. ASSUME set # {}, Legacy \notin set
          PROVE  Latest \in set
      <4>1. \A n \in set : n \in File
        BY <3>2, <3>3, LoadsRead, NameFacts DEF Read, Chosen
      <4>2. B \in SUBSET Basename /\ B # {}
        BY <4>1, <3>3 DEF Basename
      <4>3. Max(B) \in B
        <5> HIDE DEF B
        <5> QED BY <4>2, MaxFits
      <4>4. \E n \in set : n[2] = Max(B)
        BY <4>3
      <4> HIDE DEF set, B
      <4> QED BY <4>4
    <3>4. \/ Loaded(view) \subseteq Value
          \/ Loaded(view) = {host.value}
          \/ Legacy \in set /\ Loaded(view) = {Contents[Legacy]}
          \/ set # {} /\ Legacy \notin set /\ Loaded(view) = {Contents[Latest]}
      BY Zenon DEF Loaded
    <3> HIDE DEF set, Latest
    <3> QED BY <1>1, <3>1, <3>3, <3>4
  <2> QED BY <1>1, <1>4, <2>1, MeanwhileStep DEF Load, Write
<1> QED BY <1>2, <1>3, <1>4

-----------------------------------------------------------------------------
(* What the repair can be relied on for.                                   *)

LEMMA RInvInit == RepairInit => RInv
<1> SUFFICES ASSUME RepairInit PROVE RInv
  OBVIOUS
<1>1. host \in [file : [Name -> Content], value : Value]
  BY ContentAssumption DEF RepairInit
<1>2. ShapeFits
  BY <1>1, NothingSeen, BoundAssumption DEF RepairInit, ShapeFits, Stages, Looks, SpareTypes
<1>3. PlanFits
  <2>1. plan = {} /\ point = {} /\ stage = "discover"
    BY DEF RepairInit
  <2>2. stage \notin Pointed
    BY <2>1 DEF Pointed
  <2> QED BY <2>1, <2>2 DEF PlanFits
<1>4. SeenFits
  BY NothingSeen DEF RepairInit, SeenFits, Nothing
<1>5. SinceFits /\ WriteFits /\ SuccessLasts
  BY DEF RepairInit, SinceFits, WriteFits, SuccessLasts
<1> QED BY <1>2, <1>3, <1>4, <1>5 DEF RInv

LEMMA RInvNext == RInv /\ [RepairNext]_repairVars => RInv'
<1> SUFFICES ASSUME RInv, [RepairNext]_repairVars PROVE RInv'
  OBVIOUS
<1>1. CASE UNCHANGED repairVars
  <2>1. UNCHANGED <<host, stage, seen, plan, point, memory, spare>>
    BY <1>1 DEF repairVars
  <2>2. Frozen' = Frozen /\ Manifest' = Manifest
    BY <2>1 DEF Frozen, Manifest
  <2>3. ShapeFits' /\ PlanFits' /\ SinceFits'
    BY <2>1, <2>2 DEF RInv, ShapeFits, PlanFits, SinceFits
  <2>4. SeenFits'
    BY <2>1, HostKept DEF RInv, SeenFits
  <2>5. WriteFits'
    <3>1. Digest(Contents)' = Digest(Contents)
      BY <2>1, HostKept DEF Digest
    <3> QED BY <2>1, <2>2, <3>1 DEF RInv, WriteFits
  <2>6. SuccessLasts'
    BY <2>1, HostKept DEF RInv, SuccessLasts
  <2> QED BY <2>3, <2>4, <2>5, <2>6 DEF RInv
<1>2. CASE RepairNext
  <2>1. CASE LookFails \/ Unresolved \/ Refuses
    BY <2>1, Fails
  <2>2. CASE Discover \/ PrecheckBlocks \/ VerifyPoint \/ Applied \/ Restored \/ VerifyRollback
    BY <2>2, Proceeds
  <2>3. CASE \/ ReadRuntime \/ \E n \in Name : ReadFile(n)
             \/ \E p \in {Place(n) : n \in Name} : List(p)
    BY <2>3, ReadRuntimeStep, ReadFileStep, ListStep
  <2>4. CASE Plan \/ Create \/ ApplyChecks \/ Verify
    BY <2>4, PlanStep, CreateStep, ApplyChecksStep, VerifyStep
  <2>5. CASE ApplyWrites \/ Rollback \/ WriteFails
    BY <2>5, WritesStep
  <2>6. CASE \/ \E n \in Name, c \in Content : Edit(n, c)
             \/ \E v \in Value : Set(v)
             \/ \E view \in View : Load(view)
    BY <2>6, AdministratorStep
  <2> QED BY <1>2, <2>1, <2>2, <2>3, <2>4, <2>5, <2>6 DEF RepairNext
<1> QED BY <1>1, <1>2

\* What the repair has seen, planned and kept fits the host in every reachable
\* state, for any files, edits and failing commands (definition.go, restore.go).
THEOREM RepairInvariance == RepairSpec => []RInv
BY RInvInit, RInvNext, PTL DEF RepairSpec

\* A success lasts whichever way the files are loaded again, and a rollback
\* leaves the value there was (definition.go, Verify, Rollback, VerifyRollback;
\* resolver.go, Resolve; restore.go, Create).
THEOREM RepairsAreSound == RepairSpec => []RepairSound
<1>1. RInv => RepairSound
  <2> SUFFICES ASSUME RInv PROVE RepairSound
    OBVIOUS
  <2>1. Cardinality(plan) <= 1 /\ Cardinality(point) <= 1
    <3>1. plan = {} \/ plan = {Frozen}
      BY DEF RInv, PlanFits
    <3>2. point = {} \/ point = {Manifest}
      BY DEF RInv, PlanFits
    <3>3. \A x : Cardinality({x}) = 1
      BY FS_Singleton
    <3>4. Cardinality({}) = 0
      BY FS_EmptySet
    <3>5. Cardinality(plan) \in {0, 1} /\ Cardinality(point) \in {0, 1}
      BY <3>1, <3>2, <3>3, <3>4, Zenon
    <3> QED BY <3>5
  <2>2. DOMAIN seen.file \subseteq Name
    BY DEF RInv, ShapeFits, Partial
  <2>3. RepairTypes
    BY <2>1, <2>2 DEF RInv, ShapeFits, PlanFits, Stages, RepairTypes, SpareTypes
  <2>4. OutcomeLasts
    BY DEF RInv, SuccessLasts, SinceFits, Unmoved, OutcomeLasts
  <2> QED BY <2>3, <2>4 DEF RepairSound
<1> QED BY <1>1, RepairInvariance, PTL

\* The value is set only on the evidence the plan was confirmed for, and with a
\* restore point that has it (definition.go, Apply).
THEOREM ReplacesWhatWasPlanned == RepairSpec => ReplacesAsPlanned
<1>1. RInv /\ [RepairNext]_repairVars =>
        [stage = "apply_write" /\ stage' = "applied" /\ memory.alone =>
           /\ host.value = Frozen.before /\ Digest(Contents) = Frozen.digest
           /\ memory.since => Manifest.value = host.value]_repairVars
  BY DEF RInv, WriteFits, SinceFits, Unmoved
<1> QED BY <1>1, RepairInvariance, PTL DEF RepairSpec, ReplacesAsPlanned
=============================================================================
