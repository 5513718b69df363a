------------------------------- MODULE TaskOnce -------------------------------
(***************************************************************************)
(* What the Server and an agent promise together about a task: the agent   *)
(* begins it at most once, and the Server comes to one verdict, after      *)
(* which nothing more is done for it. The verdict tells the truth.         *)
(***************************************************************************)

CONSTANTS
  Task,
  Bounded   \* bounded actions: one that is called canceled never began

VARIABLES
  work,     \* work[t]: what happened on the node
  verdict   \* verdict[t]: what the Server says of it

vars == <<work, verdict>>

Init ==
  /\ work = [t \in Task |-> "never"]
  /\ verdict = [t \in Task |-> "none"]

Begin(t) ==
  /\ work[t] = "never" /\ verdict[t] = "none"
  /\ work' = [work EXCEPT ![t] = "begun"]
  /\ verdict' = verdict

End(t) ==
  /\ work[t] = "begun" /\ verdict[t] = "none"
  /\ work' = [work EXCEPT ![t] = "ended"]
  /\ verdict' = verdict

\* A task that was begun and not ended was cut off in the middle: it failed.
Decide(t, v) ==
  /\ verdict[t] = "none"
  /\ v = "succeeded" => work[t] = "ended"
  /\ (v = "canceled" /\ t \in Bounded) => work[t] = "never"
  /\ verdict' = [verdict EXCEPT ![t] = v]
  /\ work' = work

Next ==
  \E t \in Task :
    \/ Begin(t) \/ End(t)
    \/ \E v \in {"succeeded", "failed", "canceled"} : Decide(t, v)

Spec == Init /\ [][Next]_vars
=============================================================================
