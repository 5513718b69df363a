----------------------------- MODULE LeaseService -----------------------------
(***************************************************************************)
(* What the lease rows and the supervisor promise together to the runs:    *)
(* no two runs hold one target, and a lease the supervisor vouches for is  *)
(* held. A lease it gave up for lost is never vouched for again. Of a run  *)
(* that is over it promises nothing but that it stays out of the others'   *)
(* way.                                                                    *)
(***************************************************************************)

CONSTANTS
  Run,
  Resource,
  Targets   \* the frozen target keys of each run

VARIABLES
  held,     \* runs that hold their targets
  sup       \* sup[r]: what the supervisor says of r

vars == <<held, sup>>

TypeOK ==
  /\ held \subseteq Run
  /\ sup \in [Run -> {"none", "active", "leaving", "failed", "over"}]

Init ==
  /\ held = {}
  /\ sup = [r \in Run |-> "none"]

Contends(r, q) == q # r /\ Targets[r] \cap Targets[q] # {}

\* A run takes its targets, or takes up the lease an earlier process left it.
Take(r) ==
  /\ sup[r] = "none"
  /\ r \in held \/ \A q \in held : ~Contends(r, q)
  /\ held' = held \union {r}
  /\ sup' = [sup EXCEPT ![r] = "active"]

\* Leases are no longer vouched for, because they are about to be given back.
Leave(S) ==
  /\ \A r \in S : sup[r] = "active"
  /\ sup' = [r \in Run |-> IF r \in S THEN "leaving" ELSE sup[r]]
  /\ held' = held

\* A lease nobody vouches for is given back or runs out.
Lapse(S) ==
  /\ S \subseteq held
  /\ \A r \in S : sup[r] # "active"
  /\ held' = held \ S
  /\ sup' = sup

\* A run is forgotten only when its lease is gone ...
Forget(r) ==
  /\ sup[r] \in {"leaving", "failed"} /\ r \notin held
  /\ sup' = [sup EXCEPT ![r] = "none"]
  /\ held' = held

\* ... or goes with it.
Give(r) ==
  /\ sup[r] \in {"none", "active"}
  /\ held' = held \ {r}
  /\ sup' = [sup EXCEPT ![r] = "none"]

Fail(r) ==
  /\ sup[r] \in {"active", "leaving"}
  /\ sup' = [sup EXCEPT ![r] = "failed"]
  /\ held' = held

\* The run has no more use for its targets. What is left of its lease may be
\* given back, run out or even be taken anew by a request that comes late.
End(r) ==
  /\ sup' = [sup EXCEPT ![r] = "over"]
  /\ held' = held

Retake(r) ==
  /\ sup[r] = "over"
  /\ \A q \in held : ~Contends(r, q)
  /\ held' = held \union {r}
  /\ sup' = sup

\* The process ends; the rows stay.
Exit ==
  /\ sup' = [r \in Run |-> IF sup[r] = "over" THEN "over" ELSE "none"]
  /\ held' = held

Next ==
  \/ \E r \in Run : Take(r) \/ Forget(r) \/ Give(r) \/ Fail(r) \/ End(r) \/ Retake(r)
  \/ \E S \in SUBSET Run : Leave(S) \/ Lapse(S)
  \/ Exit

Spec == Init /\ [][Next]_vars

\* No two runs hold a common target at the same time: a target's rows in
\* operation_lock_resources belong to one lease (operation_locks.go, Acquire).
Exclusive == \A r, q \in held : ~Contends(r, q)

\* What the supervisor vouches for is held: a run it answers for can change
\* its targets (lease_supervisor.go, CurrentLeaseByOwner).
VouchedIsHeld == \A r \in Run : sup[r] = "active" => r \in held
=============================================================================
