--------------------------- MODULE PartitionCommit ---------------------------
(***************************************************************************)
(* One partition of a ReplicatedMergeTree table, committed by REPLACE      *)
(* PARTITION from a verified staging table and taken back by DROP          *)
(* PARTITION.  A statement enters the table's replication log and every    *)
(* replica applies the log at its own pace; the engine learns what became  *)
(* of a statement only by looking at each replica in turn.                 *)
(*                                                                         *)
(* A statement may fail, be lost, take effect without an answer, or arrive *)
(* after its caller gave up.  Others insert into the partition meanwhile.  *)
(***************************************************************************)
EXTENDS Naturals, FiniteSets, Sequences, MigrationLedger

CONSTANTS Replicas,    \* the replicas discovery found
          MaxFaults,   \* remote calls that fail or lose their answer
          MaxCrashes,  \* ends of the process that runs the engine
          MaxInserts   \* inserts by others into the partition

ASSUME BoundsAssumption ==
  /\ IsFiniteSet(Replicas) /\ Cardinality(Replicas) >= 2
  /\ {MaxFaults, MaxCrashes, MaxInserts} \subseteq Nat

VARIABLES design,    \* what discovery says of the tables and the cluster
          staging,   \* the data in the staging partition
          log,       \* the table's replication log
          applied,   \* how much of it each replica has applied
          late,      \* a statement given up by its caller and still to arrive
          ledger,    \* the stored ledger entry of the chunk
          lease,     \* the run's lease is valid
          engine,    \* the call in progress
          faults, crashes

table == <<log, applied, late>>
spent == <<faults, crashes>>
vars == <<design, staging, table, ledger, lease, engine, spent>>

(* Log entries: an insert by others, or a statement of the engine with the *)
(* length of the log when it began to look for what the statement would    *)
(* destroy.                                                                *)
Insert == [op |-> "insert", seen |-> 0]
Issued(op) == {i \in DOMAIN log : log[i].op = op}

(* A statement does away with what was there; an insert adds to it.        *)
Brings(op) == CASE op = "replace" -> {"run"}
                [] op = "drop"    -> {}
                [] op = "insert"  -> {"stranger"}

(* The data after the first n entries: what those brought that no later    *)
(* statement did away with.                                                *)
DataAfter(n) ==
  UNION {Brings(log[i].op) : i \in {j \in 1..n : \A k \in (j + 1)..n : log[k].op = "insert"}}

NoReport == [matched |-> 0, absent |-> 0, pending |-> 0, conflicting |-> 0]
Idle == [call |-> "none", pc |-> "idle", then |-> "idle", entry |-> "none",
         expect |-> "none", left |-> {}, at |-> "none", healthy |-> FALSE, parts |-> FALSE,
         report |-> NoReport, seen |-> 0]

-----------------------------------------------------------------------------
(* What is asked of the tables before anything is written.                 *)

Good == [replicated |-> TRUE, keys |-> "safe", policy |-> TRUE, enforce |-> "off",
         shards |-> 1, clusters |-> 1, counted |-> TRUE]

(* The design the commit wants, and those one discovery away from it.      *)
Designs == {Good} \cup {[Good EXCEPT !.replicated = FALSE], [Good EXCEPT !.keys = "missing"],
  [Good EXCEPT !.keys = "unsafe"], [Good EXCEPT !.policy = FALSE],
  [Good EXCEPT !.enforce = "on"], [Good EXCEPT !.enforce = "unknown"],
  [Good EXCEPT !.shards = 2], [Good EXCEPT !.clusters = 2], [Good EXCEPT !.counted = FALSE]}

(* A setting nobody could read is not taken to be off.                     *)
ReadyForLab == /\ design.replicated /\ design.keys = "safe" /\ design.policy
               /\ design.enforce = "off"

(* Every expected replica can be named: one cluster, one shard, and as     *)
(* many endpoints as the topology counted.                                 *)
ReplicaTargetsKnown == design.clusters = 1 /\ design.shards = 1 /\ design.counted

Holds(r) == DataAfter(applied[r])
Healthy(r) == applied[r] = Len(log)

Init ==
  /\ design \in Designs /\ staging \in {"run", "drifted"}
  /\ log = <<>> /\ applied = [r \in Replicas |-> 0] /\ late = <<>>
  /\ \E source \in {"run", "empty"} :
       ledger = [state |-> "verified", checkpoint |-> "done", source |-> source]
  /\ lease = TRUE /\ engine = Idle /\ faults = 0 /\ crashes = 0

-----------------------------------------------------------------------------
(* The engine's control.                                                   *)

At(pc) == engine.pc = pc
Goto(pc) == IF pc = "idle" THEN Idle ELSE [engine EXCEPT !.pc = pc]
Store(state, checkpoint, then) ==
  [engine EXCEPT !.pc = "put", !.then = then,
                 !.entry = [ledger EXCEPT !.state = state, !.checkpoint = checkpoint]]

Observe(expect, then) ==
  [engine EXCEPT !.pc = "health", !.then = then, !.expect = expect, !.left = Replicas,
                 !.report = NoReport, !.seen = Len(log)]

Quiet == UNCHANGED <<design, staging, table, ledger, lease, spent>>
Fault == faults < MaxFaults /\ faults' = faults + 1 /\ UNCHANGED crashes

Unsettled == {"commit_pending", "commit_unknown", "replicas_converging"}

Call(kind) ==
  /\ engine = Idle
  /\ design.replicated                    \* the request is refused otherwise
  /\ engine' = [Idle EXCEPT !.call = kind, !.pc = "load"]
  /\ Quiet

(* A mistake the properties must catch: an unsettled commit is repeated.   *)
LoadEntryAgain ==
  LET s == ledger.state IN
  /\ At("load")
  /\ engine' =
       CASE s \in {"rollback_blocked", "rollback_failed"} -> Idle
         [] engine.call = "commit" ->
              CASE s \in Unsettled -> Store("commit_pending", "replace_pending", "replace")
                [] s = "committed" -> Observe("source", "reported")
                [] s = "verified" /\ ledger.source # "empty" -> Goto("guard")
                [] OTHER           -> Idle
         [] engine.call = "rollback" ->
              CASE s \in Unsettled         -> Observe("source", "settle")
                [] s = "committed"         -> Goto("guard")
                [] s = "rollback_pending"  -> Observe("absent", "dropped")
                [] s = "rolled_back"       -> Observe("absent", "reported")
                [] OTHER                   -> Idle
  /\ Quiet

(* A commit or a rollback whose outcome is open is reconciled by looking;  *)
(* what is committed or rolled back is only looked at and reported.        *)
LoadEntry ==
  LET s == ledger.state IN
  /\ At("load")
  /\ engine' =
       CASE s \in {"rollback_blocked", "rollback_failed"} -> Idle
         [] engine.call = "commit" ->
              CASE s \in Unsettled -> Observe("source", "settle")
                [] s = "committed" -> Observe("source", "reported")
                [] s = "verified" /\ ledger.source # "empty" -> Goto("guard")
                [] OTHER           -> Idle
         [] engine.call = "rollback" ->
              CASE s \in Unsettled         -> Observe("source", "settle")
                [] s = "committed"         -> Goto("guard")
                [] s = "rollback_pending"  -> Observe("absent", "dropped")
                [] s = "rolled_back"       -> Observe("absent", "reported")
                [] OTHER                   -> Idle
  /\ Quiet

(* The guard looks at a snapshot of the lease: it need not notice a loss.  *)
VerifyGuard ==
  /\ At("guard")
  /\ \/ engine' = IF engine.call = "commit" THEN Goto("capability")
                  ELSE Observe("source", "drop_intent")
     \/ ~lease /\ engine' = Idle
  /\ Quiet

InspectCapability == /\ At("capability")
                     /\ engine' = IF ReadyForLab THEN Goto("staging") ELSE Idle
                     /\ Quiet

CheckStaging == /\ At("staging")
                /\ engine' = IF staging = ledger.source THEN Observe("absent", "replace_intent")
                             ELSE Idle
                /\ Quiet

-----------------------------------------------------------------------------
(* The observer: one replica after the other; of each its health, then the *)
(* number of its parts, then the fingerprint of its data.                  *)

ObserveHealth ==
  /\ At("health")
  /\ \/ /\ ~ReplicaTargetsKnown
        /\ engine' = Goto("unseen")
     \/ /\ ReplicaTargetsKnown
        /\ \E r \in engine.left :
             engine' = [engine EXCEPT !.pc = "parts", !.at = r, !.healthy = Healthy(r)]
  /\ Quiet

ObserveParts ==
  /\ At("parts")
  /\ engine' = [engine EXCEPT !.pc = "data", !.parts = Holds(engine.at) # {}]
  /\ Quiet

(* How one replica counts.  One that has neither parts nor rows counts as  *)
(* absent.  The parts were counted before the data was read: when the two  *)
(* do not fit, the replica is pending, as is one that lags behind.         *)
Class(expect, parts, data, healthy) ==
  LET absent == ~parts /\ data = {} IN
  CASE data \notin {{}, {"run"}} -> {"conflicting"}
    [] expect = "source" -> IF data = {"run"} /\ healthy /\ parts THEN {"matched"}
                            ELSE {"pending"} \cup (IF absent THEN {"absent"} ELSE {})
    [] expect = "absent" -> IF absent /\ healthy THEN {"matched", "absent"} ELSE {"pending"}

ObserveData ==
  LET class == Class(engine.expect, engine.parts, Holds(engine.at), engine.healthy)
      left == engine.left \ {engine.at} IN
  /\ At("data")
  /\ engine' =
       [engine EXCEPT !.pc = IF left = {} THEN engine.then ELSE "health",
                      !.left = left, !.at = "none", !.healthy = FALSE, !.parts = FALSE,
                      !.report = [c \in DOMAIN NoReport |->
                        engine.report[c] + (IF c \in class THEN 1 ELSE 0)]]
  /\ Quiet

(* A mistake the properties must catch: one replica speaks for all.        *)
VerdictOfOne(report) ==
  IF report.conflicting > 0 THEN "conflict"
  ELSE IF report.matched > 0 THEN "converged" ELSE "pending"

Verdict(report) ==
  IF report.conflicting > 0 THEN "conflict"
  ELSE IF report.matched = Cardinality(Replicas) THEN "converged" ELSE "pending"

(* A query of the observer, or any other read, that fails.                 *)
ReadFails ==
  /\ engine.pc \in {"load", "capability", "staging", "health", "parts", "data"} /\ Fault
  /\ engine' = IF engine.pc \in {"health", "parts", "data"} THEN Goto("unseen") ELSE Idle
  /\ UNCHANGED <<design, staging, table, ledger, lease>>

(* An observation that failed ends the call, except after a statement.     *)
Unobserved ==
  /\ At("unseen")
  /\ engine' =
       CASE engine.then = "replaced" -> Store("commit_unknown", "commit_unknown", "idle")
         [] engine.then = "fell"     -> Store("rollback_pending", "rollback_observation_pending", "idle")
         [] OTHER                    -> Idle
  /\ Quiet

-----------------------------------------------------------------------------
(* Commit.                                                                 *)

(* A mistake the properties must catch: REPLACE is issued before its intent. *)
ReplaceUnannounced ==
  /\ At("replace_intent")
  /\ engine' = IF Verdict(engine.report) = "converged" THEN Goto("replace") ELSE Idle
  /\ Quiet

ReplaceIntent ==
  /\ At("replace_intent")
  /\ engine' = IF Verdict(engine.report) = "converged"
                 THEN Store("commit_pending", "replace_pending", "replace") ELSE Idle
  /\ Quiet

(* The engine cannot tell a statement that is lost from one that took      *)
(* effect or will: it looks, whatever the answer was.                      *)
Statement(op, look) ==
  LET entry == [op |-> op, seen |-> engine.seen] IN
  /\ At(op) /\ engine' = look
  /\ \/ log' = Append(log, entry) /\ UNCHANGED <<late, spent>>
     \/ /\ Fault
        /\ \/ log' = Append(log, entry) /\ UNCHANGED late
           \/ late' = Append(late, entry) /\ UNCHANGED log
           \/ UNCHANGED <<log, late>>
  /\ UNCHANGED <<design, staging, applied, ledger, lease>>

Replace == Statement("replace", Observe("source", "replaced"))

(* What the replicas show of a REPLACE.  Data of others, and no trace of   *)
(* it anywhere, prove nothing; a part of the replicas is a matter of time. *)
ClassifyCommit ==
  LET report == engine.report
      done == IF engine.call = "rollback" THEN "guard" ELSE "idle" IN
  /\ engine.pc \in {"replaced", "settle"}
  /\ engine' =
       IF Verdict(report) = "converged" THEN Store("committed", "done", done)
       ELSE IF Verdict(report) = "conflict" \/ report.absent = Cardinality(Replicas)
         THEN Store("commit_unknown", "commit_unknown", "idle")
         ELSE Store("replicas_converging", "replicas_converging", "idle")
  /\ Quiet

-----------------------------------------------------------------------------
(* Rollback.                                                               *)

(* Only while every replica shows the run's own data and nothing else.     *)
DropIntent ==
  /\ At("drop_intent")
  /\ engine' = CASE Verdict(engine.report) = "conflict" ->
                      Store("rollback_blocked", "done", "idle")
                 [] Verdict(engine.report) = "converged" ->
                      Store("rollback_pending", "drop_partition_pending", "drop")
                 [] OTHER -> Idle
  /\ Quiet

Drop == Statement("drop", Observe("absent", "fell"))

ClassifyRollback ==
  /\ engine.pc \in {"fell", "dropped"}
  /\ engine' = CASE Verdict(engine.report) = "converged" -> Store("rolled_back", "done", "idle")
                 [] Verdict(engine.report) = "conflict"  -> Store("rollback_failed", "done", "idle")
                 [] OTHER -> Store("rollback_pending", "rollback_replicas_converging", "idle")
  /\ Quiet

Reported == At("reported") /\ engine' = Idle /\ Quiet

(* The write is accepted, refused, or accepted without an answer.          *)
PutLedger ==
  LET allowed == LedgerUpdateAllowed(ledger.state, engine.entry.state) IN
  /\ At("put")
  /\ \/ allowed /\ ledger' = engine.entry
        /\ engine' = [Goto(engine.then) EXCEPT !.entry = "none"] /\ UNCHANGED spent
     \/ ~allowed /\ UNCHANGED <<ledger, spent>> /\ engine' = Idle
     \/ /\ Fault /\ engine' = Idle
        /\ ledger' \in {ledger} \cup (IF allowed THEN {engine.entry} ELSE {})
  /\ UNCHANGED <<design, staging, table, lease>>

-----------------------------------------------------------------------------
(* The surroundings.                                                       *)

Apply(r) == /\ applied[r] < Len(log)
            /\ applied' = [applied EXCEPT ![r] = @ + 1]
            /\ UNCHANGED <<design, staging, log, late, ledger, lease, engine, spent>>

Arrive == /\ late # <<>>
          /\ log' = Append(log, Head(late)) /\ late' = Tail(late)
          /\ UNCHANGED <<design, staging, applied, ledger, lease, engine, spent>>

OthersInsert == /\ Cardinality(Issued("insert")) < MaxInserts
                /\ log' = Append(log, Insert)
                /\ UNCHANGED <<design, staging, applied, late, ledger, lease, engine, spent>>

LoseLease == /\ lease /\ lease' = FALSE
             /\ UNCHANGED <<design, staging, table, ledger, engine, spent>>

Crash == /\ engine # Idle /\ crashes < MaxCrashes
         /\ crashes' = crashes + 1 /\ engine' = Idle
         /\ UNCHANGED <<design, staging, table, ledger, lease, faults>>

CallAny == \E kind \in {"commit", "rollback"} : Call(kind)

Step == LoadEntry \/ VerifyGuard \/ InspectCapability \/ CheckStaging
          \/ ObserveHealth \/ ObserveParts \/ ObserveData \/ ReadFails \/ Unobserved
          \/ ReplaceIntent \/ Replace \/ ClassifyCommit \/ DropIntent \/ Drop
          \/ ClassifyRollback \/ Reported \/ PutLedger

Next == CallAny \/ Step \/ Arrive \/ OthersInsert \/ LoseLease \/ Crash
          \/ \E r \in Replicas : Apply(r)

(* Somebody repeats a call that did not succeed, and a replica that runs   *)
(* works off its log.                                                      *)
Fairness == WF_vars(CallAny) /\ WF_vars(Step) /\ \A r \in Replicas : WF_vars(Apply(r))

Spec == Init /\ [][Next]_vars /\ Fairness

-----------------------------------------------------------------------------
Entries == [op : {"replace", "drop", "insert"}, seen : Nat]

TypeOK ==
  /\ design \in Designs /\ staging \in {"run", "drifted"}
  /\ log \in Seq(Entries) /\ late \in Seq(Entries)
  /\ applied \in [Replicas -> 0..Len(log)]
  /\ ledger.state \in LedgerStates /\ ledger.source \in {"run", "empty"}
  /\ lease \in BOOLEAN
  /\ engine.left \subseteq Replicas /\ engine.at \in Replicas \cup {"none"}
  /\ engine.report.matched + engine.report.pending + engine.report.conflicting
       \in 0..Cardinality(Replicas \ engine.left)
  /\ faults \in 0..MaxFaults /\ crashes \in 0..MaxCrashes

(* The whole table's data is moved once and taken back once: neither       *)
(* statement is issued a second time, through lost answers, crashes and    *)
(* repeated calls.                                                         *)
Sent(op) == ({"log"} \X Issued(op)) \cup ({"late"} \X {i \in DOMAIN late : late[i].op = op})

IssuedOnce == \A op \in {"replace", "drop"} : \A a, b \in Sent(op) : a = b

(* No statement destroys data of others that was in the partition when the *)
(* engine began to look at it.                                             *)
StrangersKept ==
  \A i \in DOMAIN log :
    log[i].op # "insert" => DataAfter(log[i].seen) \subseteq {"run"}

(* A commit is recorded, and a rollback, only after every replica has it.  *)
RecordedEverywhere ==
  \A r \in Replicas :
    /\ ledger.state = "committed" => \E i \in Issued("replace") : i <= applied[r]
    /\ ledger.state = "rolled_back" => \E i \in Issued("drop") : i <= applied[r]

CheckpointsOwned == CheckpointOwned(ledger.state, ledger.checkpoint, TRUE)

(* REPLACE is sent only to a table the capability check and the observer   *)
(* accept, from a staging partition that holds what was verified; this     *)
(* outlives the checks, through every repetition of the call.              *)
FitToReplace ==
  Sent("replace") # {} => ReadyForLab /\ ReplicaTargetsKnown /\ staging = ledger.source

(* The replication log and the ledger, seen through the cutover's promise. *)
Word == CASE ledger.state = "committed" -> "migrated"
          [] ledger.state \in Unsettled \cup {"rollback_pending"} -> "unsure"
          [] ledger.state \in {"rollback_blocked", "rollback_failed"} -> "manual"
          [] OTHER -> "original"

Promise == INSTANCE Cutover WITH
  serving <- IF Issued("replace") # {} /\ Issued("drop") = {} THEN "migrated" ELSE "original",
  word <- Word

(* The statements enter the log only after a stored intent, and a ledger   *)
(* that claims to know what the partition serves is right.                 *)
CutoverPromise == Promise!Spec

(* A REPLACE that reached the log is recognised, if nobody writes to the   *)
(* partition: the ledger does not stay uncertain.                          *)
Recognised == Issued("replace") # {} ~> (ledger.state \notin Unsettled \/ Issued("insert") # {})

(* The statements of a commit happen once and destroy nobody else's data,  *)
(* and REPLACE happens to no table the commit's own checks refuse          *)
(* (replicated_partition_commit.go, Commit and Rollback).                  *)
CommitSafe == IssuedOnce /\ StrangersKept /\ FitToReplace

(* What the ledger records has happened on every replica, and recovery     *)
(* recognises every checkpoint (replicated_partition_commit.go, classify). *)
LedgerTells == TypeOK /\ RecordedEverywhere /\ CheckpointsOwned

(* The intent comes before the statement, the ledger never claims what is  *)
(* not so, and it does not stay uncertain.                                 *)
CommitPromise == CutoverPromise /\ Recognised
=============================================================================
