--------------------------- MODULE StagedMigration ---------------------------
(***************************************************************************)
(* One ClickHouse table migrated by an Agent: the restore point, the       *)
(* transfer into a run-owned staging table, the EXCHANGE that cuts over,   *)
(* the reverse EXCHANGE and the cleanup after it.  Every statement and     *)
(* every read or write of the Server's two records is one step: it may     *)
(* fail before or after it took effect, and the Agent may crash between    *)
(* any two of them, losing all but the records.                            *)
(*                                                                         *)
(* Data is a fingerprint (row count and two hashes), so a content is a     *)
(* model value and two tables agree when their values do.  Nobody else     *)
(* drops or renames run-owned tables; their names are derived from the run *)
(* and, for the restore object, from a random token.                       *)
(***************************************************************************)
EXTENDS Naturals, MigrationLedger

CONSTANTS MaxCalls,     \* calls the Server dispatches to the Agent
          MaxFaults,    \* remote calls that fail or lose their answer
          MaxCrashes,   \* restarts of the Agent
          MaxWrites     \* writes by others to the tables involved

ASSUME BoundsAssumption ==
  {MaxCalls, MaxFaults, MaxCrashes, MaxWrites} \subseteq Nat

VARIABLES source,     \* content of the source table
          tables,     \* what each name on the target server refers to
          ledger,     \* the stored ledger entry of the chunk
          record,     \* the stored restore record
          point,      \* the restore point the run was given
          restored,   \* a rollback has answered that it restored
          lease,      \* the run's lease is valid at the Server
          agent,      \* the call in progress at the Agent
          calls, faults, crashes, writes

data == <<source, tables>>
stored == <<ledger, record>>
spent == <<calls, faults, crashes, writes>>
vars == <<data, stored, point, restored, lease, agent, spent>>

Contents == {"empty", "old", "new", "newer", "part", "foreign", "stranger"}
Objects == {"original", "migrated", "copy", "other"}
Absent == [id |-> "none", data |-> "none"]
Exists(name) == tables[name] # Absent

NoEntry == [state |-> "none", checkpoint |-> "none", source |-> "none"]
NoRecord == [state |-> "none", baseline |-> "none", object |-> "none"]
NoPoint == [baseline |-> "none", object |-> "none"]

(* The checkpoints recovery reads; "done" stands for those it never does.  *)
Checkpoints == {"staging_recreate_intent", "staging_ready", "native_transfer_intent",
  "exchange_intent", "rollback_exchange_intent", "rollback_observation_pending",
  "staging_drop_pending", "done"}

Idle == [call |-> "none", pc |-> "idle", then |-> "idle", entry |-> NoEntry,
         rec |-> NoRecord, first |-> "none", seen |-> "none", failed |-> FALSE]

Init ==
  /\ source \in {"new", "old", "empty"}
  /\ \E d \in {"old", "empty"} :
       tables = [target  |-> [id |-> "original", data |-> d],
                 staging |-> Absent, restore |-> Absent]
  /\ ledger = NoEntry /\ record = NoRecord /\ point = NoPoint
  /\ restored = FALSE /\ lease = TRUE /\ agent = Idle
  /\ calls = 0 /\ faults = 0 /\ crashes = 0 /\ writes = 0

-----------------------------------------------------------------------------
(* The Agent's control: where it is, where it goes, and what it stores.    *)

At(pc) == agent.pc = pc
Goto(pc) == IF pc = "idle" THEN Idle ELSE [agent EXCEPT !.pc = pc]
StoreEntry(entry, then) == [agent EXCEPT !.pc = "put_ledger", !.entry = entry, !.then = then]
StoreRecord(rec, then) == [agent EXCEPT !.pc = "put_record", !.rec = rec, !.then = then]
Observe(then) == [agent EXCEPT !.pc = "see_target", !.then = then]
CheckLease(then) == [agent EXCEPT !.pc = "lease", !.then = then]
Moved(entry, state, checkpoint) ==
  [entry EXCEPT !.state = state, !.checkpoint = checkpoint]

Quiet == UNCHANGED <<data, stored, point, restored, lease, spent>>
Fault == /\ faults < MaxFaults /\ faults' = faults + 1
         /\ UNCHANGED <<calls, crashes, writes>>

(* The write is refused, accepted, or accepted without the Agent learning  *)
(* of it.  Every caller ends its call on an error.                         *)
PutLedger ==
  LET allowed == ledger # NoEntry => LedgerUpdateAllowed(ledger.state, agent.entry.state) IN
  /\ At("put_ledger")
  /\ \/ allowed /\ ledger' = agent.entry /\ agent' = Goto(agent.then) /\ UNCHANGED spent
     \/ ~allowed /\ UNCHANGED <<ledger, spent>> /\ agent' = Idle
     \/ Fault /\ ledger' \in {ledger} \cup (IF allowed THEN {agent.entry} ELSE {}) /\ agent' = Idle
  /\ UNCHANGED <<data, record, point, restored, lease>>

PutRestore ==
  LET allowed == RestoreUpdateAllowed(record = NoRecord, record, agent.rec) IN
  /\ At("put_record")
  /\ \/ allowed /\ record' = agent.rec /\ agent' = Goto(agent.then) /\ UNCHANGED spent
     \/ Fault /\ record' \in {record} \cup (IF allowed THEN {agent.rec} ELSE {}) /\ agent' = Idle
  /\ UNCHANGED <<data, ledger, point, restored, lease>>

(* A call of the Server: a restore point first, then attempts to apply,    *)
(* rollbacks, and the verification of a rollback.                          *)
Call(kind) ==
  /\ agent = Idle /\ calls < MaxCalls
  /\ CASE kind = "create"   -> point = NoPoint
       [] kind = "apply"    -> point # NoPoint /\ ~restored
       [] kind = "rollback" -> point # NoPoint
       [] kind = "cleanup"  -> restored
  /\ calls' = calls + 1
  /\ agent' = CASE kind = "create"  -> [Idle EXCEPT !.call = kind, !.pc = "c_target"]
                [] kind = "cleanup" -> [Idle EXCEPT !.call = kind, !.pc = "v_check"]
                [] OTHER -> [Idle EXCEPT !.call = kind, !.pc = "lease", !.then = "get"]
  /\ UNCHANGED <<data, stored, point, restored, lease, faults, crashes, writes>>

ValidateLease == /\ At("lease")
                 /\ agent' = IF lease THEN Goto(agent.then) ELSE Idle
                 /\ Quiet

(* A read that fails ends the call, except where a statement was issued    *)
(* before it or staging must be given up.                                  *)
Readers == {"lease", "get", "c_target", "c_record", "c_state", "c_prove", "c_verify",
  "r_source", "r_exists", "r_staging", "x_source", "k_exists", "k_check", "m_source",
  "see_target", "see_staging", "v_check", "d_staging", "d_restore", "d_gone"}

Unseen == IF agent.then \in {"m_settle", "b_settle"}
            THEN [agent EXCEPT !.pc = agent.then, !.seen = "failed"] ELSE Idle

ReadFails ==
  /\ agent.pc \in Readers /\ Fault
  /\ agent' = IF agent.pc \in {"see_target", "see_staging"} THEN Unseen ELSE Idle
  /\ UNCHANGED <<data, stored, point, restored, lease>>

(* Two reads of two tables: a write or a statement may fall between.  The  *)
(* migrated reading is tried first, so a state both readings fit counts as *)
(* committed.                                                              *)
SeeTarget == /\ At("see_target")
             /\ agent' = [agent EXCEPT !.pc = "see_staging", !.first = tables.target.data]
             /\ Quiet

Reading(target, staging) ==
  IF target = agent.entry.source /\ staging = point.baseline THEN "committed"
  ELSE IF target = point.baseline /\ staging = agent.entry.source THEN "prepared"
  ELSE "unknown"

SeeStaging ==
  /\ At("see_staging")
  /\ agent' = IF ~Exists("staging") THEN Unseen
              ELSE [agent EXCEPT !.pc = agent.then,
                                 !.seen = Reading(agent.first, tables.staging.data)]
  /\ Quiet

(* A statement takes effect and says so, or its answer is lost with or     *)
(* without the effect.                                                     *)
Statement(pc, effect, fine, broken) ==
  /\ At(pc)
  /\ \/ tables' = effect /\ agent' = fine /\ UNCHANGED spent
     \/ Fault /\ tables' \in {tables, effect} /\ agent' = broken
  /\ UNCHANGED <<source, stored, point, restored, lease>>

Exchanged == [tables EXCEPT !.target = tables.staging, !.staging = tables.target]
Without(name) == [tables EXCEPT ![name] = Absent]
Created(name, id) == [tables EXCEPT ![name] = [id |-> id, data |-> "empty"]]

-----------------------------------------------------------------------------
(* The restore point: an intent first, then a copy of the target whose     *)
(* identity is frozen once it is proven to hold the baseline.              *)

FingerprintTarget ==
  /\ At("c_target")
  /\ agent' = [agent EXCEPT !.pc = "c_record", !.first = tables.target.data]
  /\ Quiet

EnsureRecord ==
  /\ At("c_record")
  /\ agent' =
       IF record = NoRecord
         THEN StoreRecord([state |-> "intent", baseline |-> agent.first, object |-> "none"], "c_state")
       ELSE IF record.baseline = agent.first /\ record.state \in {"intent", "creating", "ready"}
         THEN [agent EXCEPT !.pc = "c_state", !.rec = record]
       ELSE Idle
  /\ Quiet

(* The object at the restore name holds the baseline and is the one the    *)
(* record has frozen, if it has frozen one.                                *)
Proven(rec) == /\ tables.restore.data = rec.baseline
               /\ rec.object \in {"none", tables.restore.id}

InspectRestore ==
  LET rec == agent.rec
      ready == [rec EXCEPT !.state = "ready"]
      manual == [rec EXCEPT !.state = "manual_review"] IN
  /\ At("c_state")
  /\ agent' =
       CASE rec.baseline = "empty" ->
              IF rec.state = "intent" THEN StoreRecord(ready, "c_verify") ELSE Goto("c_verify")
         [] rec.baseline # "empty" /\ rec.state = "ready" ->
              IF Proven(rec) /\ rec.object # "none" THEN Goto("c_verify") ELSE Idle
         [] rec.baseline # "empty" /\ rec.state = "intent" ->
              IF Exists("restore") THEN StoreRecord(manual, "idle")
              ELSE StoreRecord([rec EXCEPT !.state = "creating"], "c_create")
         [] rec.baseline # "empty" /\ rec.state = "creating" ->
              IF ~Exists("restore") THEN Goto("c_create")
              ELSE IF Proven(rec) THEN Goto("c_prove")
              ELSE StoreRecord(manual, "idle")
  /\ Quiet

CreateCopy == \/ /\ ~Exists("restore")
                 /\ Statement("c_create", Created("restore", "copy"), Goto("c_copy"), Idle)
              \/ At("c_create") /\ Exists("restore") /\ agent' = Idle /\ Quiet

FillCopy ==
  /\ At("c_copy")
  /\ \/ /\ tables' = [tables EXCEPT !.restore.data = tables.target.data]
        /\ agent' = Goto("c_prove") /\ UNCHANGED spent
     \/ /\ Fault /\ agent' = Idle
        /\ \E d \in {"empty", "part", tables.target.data} :
             tables' = [tables EXCEPT !.restore.data = d]
  /\ UNCHANGED <<source, stored, point, restored, lease>>

ProveCopy ==
  LET rec == agent.rec
      frozen == [rec EXCEPT !.object = tables.restore.id] IN
  /\ At("c_prove")
  /\ agent' = IF ~Exists("restore") \/ ~Proven(rec)
                THEN StoreRecord([rec EXCEPT !.state = "manual_review"], "idle")
              ELSE IF rec.object = "none" THEN StoreRecord(frozen, "c_ready")
              ELSE Goto("c_ready")
  /\ Quiet

CopyReady == /\ At("c_ready")
             /\ agent' = StoreRecord([agent.rec EXCEPT !.state = "ready"], "c_verify")
             /\ Quiet

(* The restore provider's verification; only a point that passes it is     *)
(* handed to the run.                                                      *)
PointVerified(baseline, object) ==
  /\ record.state = "ready" /\ record.baseline = baseline /\ record.object = object
  /\ tables.target = [id |-> "original", data |-> baseline]
  /\ baseline # "empty" => tables.restore = [id |-> object, data |-> baseline]

VerifyPoint ==
  LET rec == agent.rec IN
  /\ At("c_verify")
  /\ point' = IF PointVerified(rec.baseline, rec.object)
                THEN [baseline |-> rec.baseline, object |-> rec.object] ELSE point
  /\ agent' = Idle
  /\ UNCHANGED <<data, stored, restored, lease, spent>>

-----------------------------------------------------------------------------
(* Apply: the native transfer into staging, resumed from what the ledger   *)
(* and the run-owned table still show.                                     *)

Begun == {"planned", "staging", "transferred", "verified"}
Owned(entry) == CheckpointOwned(entry.state, entry.checkpoint, FALSE)
CleanupOwned(entry) == entry.state = "rollback_pending" /\ entry.checkpoint = "staging_drop_pending"

ExecuteFromLedger ==
  /\ At("get") /\ agent.call = "apply"
  /\ agent' =
       CASE ledger = NoEntry ->
              [agent EXCEPT !.pc = "x_source", !.entry = [NoEntry EXCEPT !.state = "planned"]]
         [] ledger # NoEntry /\ ~Owned(ledger) -> Idle
         [] ledger.state \in Begun -> [agent EXCEPT !.pc = "r_source", !.entry = ledger]
         [] ledger.state = "failed" -> [agent EXCEPT !.pc = "k_begin", !.entry = ledger]
         [] CleanupOwned(ledger) -> [agent EXCEPT !.pc = "k_exists", !.entry = ledger]
         [] OTHER -> Idle
  /\ Quiet

(* A first attempt records the source it read; a later one needs the same. *)
SourceUnchanged(entry) == entry.source \in {"none", source}

ReconcileSource ==
  /\ At("r_source")
  /\ agent' = IF SourceUnchanged(agent.entry)
                THEN [agent EXCEPT !.pc = "r_exists", !.entry.source = source] ELSE Idle
  /\ Quiet

ReconcileExists ==
  /\ At("r_exists")
  /\ agent' = IF Exists("staging") THEN Goto("r_staging")
              ELSE IF agent.entry.state \in {"planned", "staging"} THEN Goto("x_source")
              ELSE Idle
  /\ Quiet

(* A complete transfer the ledger missed is kept; a partial one of a run   *)
(* that had not recorded it is made again.                                 *)
ReconcileStaging ==
  LET e == agent.entry
      complete == tables.staging.data = e.source IN
  /\ At("r_staging")
  /\ agent' =
       IF e.state # "planned" /\ complete
         THEN IF e.state = "staging" THEN StoreEntry(Moved(e, "transferred", "done"), "r_verified")
              ELSE StoreEntry(Moved(e, "verified", "done"), "m_lease")
       ELSE IF e.state \in {"planned", "staging"} THEN Goto("x_source")
       ELSE Idle
  /\ Quiet

ReconciledVerified == /\ At("r_verified")
                      /\ agent' = StoreEntry(Moved(agent.entry, "verified", "done"), "m_lease")
                      /\ Quiet

RecordSource ==
  /\ At("x_source")
  /\ agent' =
       IF SourceUnchanged(agent.entry)
         THEN StoreEntry([Moved(agent.entry, agent.entry.state, "staging_recreate_intent")
                            EXCEPT !.source = source], "x_drop")
       ELSE Idle
  /\ Quiet

(* Giving an attempt up: failed first, then the cleanup of staging.        *)
FailAndRollback == StoreEntry([agent.entry EXCEPT !.state = "failed"], "k_begin")

DropStale == Statement("x_drop", Without("staging"), Goto("x_create"), FailAndRollback)

CreateStaging ==
  Statement("x_create", Created("staging", "migrated"),
            StoreEntry(Moved(agent.entry, "staging", "staging_ready"), "x_intent"),
            FailAndRollback)

TransferIntent ==
  /\ At("x_intent")
  /\ agent' = StoreEntry(Moved(agent.entry, "staging", "native_transfer_intent"), "x_transfer")
  /\ Quiet

(* An interrupted stream leaves nothing, some rows or all of them; only a  *)
(* canceled call leaves them for a later attempt to look at.               *)
Transfer ==
  LET filled(d) == [tables EXCEPT !.staging.data = d] IN
  /\ At("x_transfer")
  /\ \/ /\ tables' = filled(source) /\ UNCHANGED spent
        /\ agent' = StoreEntry(Moved(agent.entry, "transferred", "done"), "x_staging")
     \/ /\ Fault /\ \E d \in {"empty", "part", source} : tables' = filled(d)
        /\ agent' \in {FailAndRollback, StoreEntry(agent.entry, "idle")}
  /\ UNCHANGED <<source, stored, point, restored, lease>>

VerifyStaging ==
  /\ At("x_staging")
  /\ \/ /\ UNCHANGED spent
        /\ agent' = IF tables.staging.data = agent.entry.source
                      THEN StoreEntry(Moved(agent.entry, "verified", "done"), "m_lease")
                      ELSE FailAndRollback
     \/ Fault /\ agent' = FailAndRollback
  /\ UNCHANGED <<data, stored, point, restored, lease>>

-----------------------------------------------------------------------------
(* The cleanup of staging before a commit, shared by a failed apply and a  *)
(* rollback.                                                               *)

Cleanable == Begun \cup {"failed"}

(* The entry moves on in memory, through failed when it was only planned;  *)
(* the one write compares where it was with where it is.                   *)
CleanupIntent ==
  /\ At("k_begin")
  /\ agent' = IF agent.entry.state \in Cleanable
                THEN StoreEntry(Moved(agent.entry, "rollback_pending", "staging_drop_pending"), "k_exists")
                ELSE Idle
  /\ Quiet

CleanedUp == StoreEntry(Moved(agent.entry, "rolled_back", "done"),
                        IF agent.call = "rollback" THEN "restored" ELSE "idle")

CleanupExists == /\ At("k_exists")
                 /\ agent' = IF Exists("staging") THEN Goto("k_drop") ELSE CleanedUp
                 /\ Quiet

DropStaging == Statement("k_drop", Without("staging"), Goto("k_check"), Goto("k_check"))

CleanupCheck == /\ At("k_check")
                /\ agent' = IF Exists("staging") THEN Idle ELSE CleanedUp
                /\ Quiet

-----------------------------------------------------------------------------
(* The cutover: intent, EXCHANGE, and what the two tables show of it.      *)

LoadVerified == /\ At("m_lease")
                /\ agent' = CheckLease("m_source")
                /\ Quiet

CompareSource ==
  /\ At("m_source")
  /\ agent' = IF source # agent.entry.source THEN Idle
              ELSE IF source # "empty" THEN Goto("m_guard")
              ELSE IF point.baseline = "empty" THEN Observe("m_noop")
              ELSE Idle
  /\ Quiet

(* Nothing to move: the chunk is committed without a statement.  Two empty *)
(* tables always read as committed, so this never stores anything.         *)
EmptySource == /\ At("m_noop")
               /\ agent' = IF agent.seen = "prepared"
                             THEN StoreEntry(Moved(agent.entry, "committed", "done"), "idle")
                             ELSE Idle
               /\ Quiet

(* The guard holds a snapshot of the lease: it notices an expiry, and not  *)
(* always the loss of the lease.                                           *)
Guard(pc, then) == /\ At(pc)
                   /\ \/ agent' = Observe(then)
                      \/ ~lease /\ agent' = Idle
                   /\ Quiet

CommitGuard == Guard("m_guard", "m_intent")

(* A mistake the properties must catch: no intent is stored before the     *)
(* statement.                                                              *)
CommitWithoutIntent == /\ At("m_intent")
                       /\ agent' = IF agent.seen = "prepared" THEN Goto("m_exchange") ELSE Idle
                       /\ Quiet

CommitIntent ==
  /\ At("m_intent")
  /\ agent' = IF agent.seen = "prepared"
                THEN StoreEntry(Moved(agent.entry, "commit_unknown", "exchange_intent"), "m_exchange")
                ELSE Idle
  /\ Quiet

Exchange(pc, then) ==
  /\ Exists("staging")
  /\ Statement(pc, Exchanged, Observe(then), [Observe(then) EXCEPT !.failed = TRUE])

CommitExchange == Exchange("m_exchange", "m_settle")

(* A mistake the properties must catch: tables that could not be read are  *)
(* taken to be exchanged.                                                  *)
SettleCommitUnseen ==
  /\ At("m_settle")
  /\ agent' = IF agent.seen \in {"committed", "failed"}
                THEN StoreEntry(Moved(agent.entry, "committed", "done"), "idle")
                ELSE StoreEntry(agent.entry, "idle")
  /\ Quiet

(* Success is what the tables show, whatever the statement answered; a     *)
(* commit taken back by its own evidence needs an error to explain it.     *)
SettleCommit ==
  LET e == agent.entry IN
  /\ At("m_settle")
  /\ agent' = CASE agent.seen = "committed" -> StoreEntry(Moved(e, "committed", "done"), "idle")
                [] agent.seen = "prepared" /\ agent.failed ->
                     StoreEntry(Moved(e, "verified", "done"), "idle")
                [] OTHER -> StoreEntry(e, "idle")
  /\ Quiet

-----------------------------------------------------------------------------
(* Rollback: what is undone depends on what the ledger last admitted.      *)

RollbackFromLedger ==
  /\ At("get") /\ agent.call = "rollback"
  /\ agent' =
       LET from(pc) == [agent EXCEPT !.pc = pc, !.entry = ledger]
           leased(pc) == [CheckLease(pc) EXCEPT !.entry = ledger] IN
       CASE ledger.state \in {"none", "rolled_back"} -> from("restored")
         [] ledger.state = "committed" -> leased("b_guard")
         [] ledger.state = "commit_unknown" -> leased("b_reconcile")
         [] ledger.state = "rollback_pending" ->
              IF CleanupOwned(ledger) THEN from("k_exists") ELSE leased("b_again")
         [] OTHER -> from("k_begin")
  /\ Quiet

(* An ambiguous commit is resolved by looking, never by repeating it.      *)
ReconcileCommit == \/ At("b_reconcile") /\ agent' = Observe("b_reconciled") /\ Quiet
                   \/ At("b_again") /\ agent' = Observe("b_observed") /\ Quiet

(* A mistake the properties must catch: tables that fit neither reading    *)
(* are taken not to be exchanged.                                          *)
SettleReconciledLoosely ==
  LET e == agent.entry IN
  /\ At("b_reconciled")
  /\ agent' = IF agent.seen = "committed" THEN StoreEntry(Moved(e, "committed", "done"), "b_guard")
              ELSE StoreEntry(Moved(e, "verified", "done"), "idle")
  /\ Quiet

SettleReconciled ==
  LET e == agent.entry IN
  /\ At("b_reconciled")
  /\ agent' = CASE agent.seen = "committed" -> StoreEntry(Moved(e, "committed", "done"), "b_guard")
                [] agent.seen = "prepared"  -> StoreEntry(Moved(e, "verified", "done"), "idle")
                [] OTHER -> Idle
  /\ Quiet

RollbackGuard == Guard("b_guard", "b_intent")

RollbackIntent ==
  LET e == agent.entry IN
  /\ At("b_intent")
  /\ agent' = IF agent.seen = "committed"
                THEN StoreEntry(Moved(e, "rollback_pending", "rollback_exchange_intent"), "b_exchange")
                ELSE StoreEntry(Moved(e, "rollback_blocked", "done"), "idle")
  /\ Quiet

RollbackExchange == Exchange("b_exchange", "b_settle")

(* Neither reading is a contradiction the ledger closes; no reading at all *)
(* leaves the rollback pending, for a later call to look again.            *)
SettleRollback ==
  LET e == agent.entry IN
  /\ agent.pc \in {"b_settle", "b_observed"}
  /\ agent' = CASE agent.seen = "prepared"  -> StoreEntry(Moved(e, "rolled_back", "done"), "restored")
                [] agent.seen = "committed" -> StoreEntry(Moved(e, "committed", "done"), "idle")
                [] agent.seen = "failed" ->
                     StoreEntry(Moved(e, "rollback_pending", "rollback_observation_pending"), "idle")
                [] OTHER -> StoreEntry(Moved(e, "rollback_failed", "done"), "idle")
  /\ Quiet

AnswerRestored == /\ At("restored")
                  /\ restored' = TRUE /\ agent' = Idle
                  /\ UNCHANGED <<data, stored, point, lease, spent>>

-----------------------------------------------------------------------------
(* The verification of a rollback, and the removal of what the run owns    *)
(* once the original table is seen back in its place.                      *)

VerifyRestored ==
  /\ At("v_check")
  /\ agent' =
       IF /\ record.baseline = point.baseline /\ record.object = point.object
          /\ tables.target = [id |-> "original", data |-> point.baseline]
          /\ ledger.state \in {"none", "rolled_back"}
          /\ \/ point.baseline = "empty"
             \/ record.state \in {"cleanup_pending", "cleaned"}
             \/ record.state = "ready" /\ tables.restore = [id |-> point.object, data |-> point.baseline]
         THEN CASE record.state = "ready" ->
                     StoreRecord([record EXCEPT !.state = "cleanup_pending"], "d_staging")
                [] record.state = "cleanup_pending" -> [agent EXCEPT !.pc = "d_staging", !.rec = record]
                [] OTHER -> Idle
         ELSE Idle
  /\ Quiet

CleanupStaging ==
  \/ At("d_staging") /\ ~Exists("staging") /\ agent' = Goto("d_restore") /\ Quiet
  \/ Exists("staging") /\ Statement("d_staging", Without("staging"), Goto("d_restore"), Idle)

(* Only the object the record froze is dropped from the restore name.      *)
CleanupRestore ==
  LET kept == point.baseline = "empty" \/ ~Exists("restore") IN
  \/ At("d_restore") /\ kept /\ agent' = Goto("d_cleaned") /\ Quiet
  \/ At("d_restore") /\ ~kept /\ tables.restore.id # point.object /\ agent' = Idle /\ Quiet
  \/ /\ ~kept /\ tables.restore.id = point.object
     /\ Statement("d_restore", Without("restore"), Goto("d_gone"), Idle)

RestoreGone == /\ At("d_gone")
               /\ agent' = IF Exists("restore") THEN Idle ELSE Goto("d_cleaned")
               /\ Quiet

Cleaned == /\ At("d_cleaned")
           /\ agent' = StoreRecord([agent.rec EXCEPT !.state = "cleaned"], "idle")
           /\ Quiet

-----------------------------------------------------------------------------
(* The surroundings: writers who do not know of the migration, a restore   *)
(* name somebody takes first (with data of its own: content and name are   *)
(* all a proof of the copy asks), a lease that lapses, and restarts.       *)

Written == /\ writes < MaxWrites /\ writes' = writes + 1
           /\ UNCHANGED <<stored, point, restored, lease, agent, calls, faults, crashes>>

SourceWrite == source' = "newer" /\ Written /\ UNCHANGED tables
TargetWrite == tables' = [tables EXCEPT !.target.data = "foreign"] /\ Written /\ UNCHANGED source
NameTaken == /\ ~Exists("restore") /\ Written /\ UNCHANGED source
             /\ tables' = [tables EXCEPT !.restore = [id |-> "other", data |-> "stranger"]]

LoseLease == /\ lease /\ lease' = FALSE
             /\ UNCHANGED <<data, stored, point, restored, agent, spent>>

Crash == /\ agent # Idle /\ crashes < MaxCrashes
         /\ crashes' = crashes + 1 /\ agent' = Idle
         /\ UNCHANGED <<data, stored, point, restored, lease, calls, faults, writes>>

RestorePoint == FingerprintTarget \/ EnsureRecord \/ InspectRestore \/ CreateCopy
                  \/ FillCopy \/ ProveCopy \/ CopyReady \/ VerifyPoint
Apply == ExecuteFromLedger \/ ReconcileSource \/ ReconcileExists \/ ReconcileStaging
           \/ ReconciledVerified \/ RecordSource \/ DropStale \/ CreateStaging
           \/ TransferIntent \/ Transfer \/ VerifyStaging \/ LoadVerified \/ CompareSource
           \/ EmptySource \/ CommitGuard \/ CommitIntent \/ CommitExchange \/ SettleCommit
Rollback == RollbackFromLedger \/ ReconcileCommit \/ SettleReconciled \/ RollbackGuard
              \/ RollbackIntent \/ RollbackExchange \/ SettleRollback \/ AnswerRestored
StagingCleanup == CleanupIntent \/ CleanupExists \/ DropStaging \/ CleanupCheck
RestoredCleanup == VerifyRestored \/ CleanupStaging \/ CleanupRestore \/ RestoreGone \/ Cleaned

Next ==
  \/ \E kind \in {"create", "apply", "rollback", "cleanup"} : Call(kind)
  \/ PutLedger \/ PutRestore \/ ValidateLease \/ ReadFails \/ SeeTarget \/ SeeStaging
  \/ RestorePoint \/ Apply \/ Rollback \/ StagingCleanup \/ RestoredCleanup
  \/ SourceWrite \/ TargetWrite \/ NameTaken \/ LoseLease \/ Crash

Spec == Init /\ [][Next]_vars

-----------------------------------------------------------------------------
TypeOK ==
  /\ source \in Contents
  /\ tables \in [{"target", "staging", "restore"} ->
                   [id : Objects, data : Contents] \cup {Absent}]
  /\ ledger \in [state : LedgerStates, checkpoint : Checkpoints, source : Contents] \cup {NoEntry}
  /\ record \in [state : RestoreStates, baseline : Contents, object : Objects \cup {"none"}]
                  \cup {NoRecord}
  /\ point \in [baseline : Contents, object : Objects \cup {"none"}] \cup {NoPoint}
  /\ restored \in BOOLEAN /\ lease \in BOOLEAN
  /\ agent.failed \in BOOLEAN
  /\ calls \in 0..MaxCalls /\ faults \in 0..MaxFaults
  /\ crashes \in 0..MaxCrashes /\ writes \in 0..MaxWrites

(* Whatever fails, crashes or is written meanwhile, the table that served  *)
(* the target before the run still exists under one of the run's names:    *)
(* no drop of staging, before or after a cutover, hits it.                 *)
OriginalKept == \E name \in {"target", "staging"} : tables[name].id = "original"

(* The ledger and the target name, seen through the cutover's promise.     *)
Word ==
  CASE ledger.state = "committed" -> "migrated"
    [] ledger.state \in {"rollback_blocked", "rollback_failed"} -> "manual"
    [] ledger.state = "commit_unknown" -> "unsure"
    [] ledger.state = "rollback_pending" /\ ~CleanupOwned(ledger) -> "unsure"
    [] OTHER -> "original"

Promise == INSTANCE Cutover WITH serving <- tables.target.id, word <- Word

(* The name moves only after a stored intent, and a ledger that claims to  *)
(* know which table serves the target is right, in spite of lost answers,  *)
(* restarts and writes that confuse the fingerprints.                      *)
CutoverPromise == Promise!Spec

(* What recovery will ask of a stored entry, the path that stored it has   *)
(* left there: no checkpoint strands the chunk as somebody else's.         *)
CheckpointsOwned == Owned(ledger)

(* As long as a rollback may need it, the copy of the original data is in  *)
(* place, and a stranger's object at its name is never dropped.            *)
CopyKept ==
  /\ record.state = "ready" /\ record.baseline # "empty"
       => tables.restore = [id |-> "copy", data |-> record.baseline]
  /\ record.state = "cleaned" => ~Exists("restore") \/ tables.restore.id = "other"

StrangersKept == [][tables.restore.id = "other" => tables'.restore.id = "other"]_vars

(* The verifications the run makes after a commit and after a rollback.    *)
MigrationVerified == ledger.state = "committed" /\ tables.target.data = ledger.source
RollbackVerified == restored /\ tables.target.data = point.baseline

(* A claim of the Agent survives its own verification unless somebody has  *)
(* written to the tables: committed means the data the ledger recorded,    *)
(* restored means the data the restore point froze.                        *)
ClaimsVerify ==
  writes = 0 => /\ ledger.state = "committed" => MigrationVerified
                /\ restored => RollbackVerified

(* Neither the run nor its recovery loses data: the table that served the  *)
(* target and, while a rollback may need it, the copy of its data exist    *)
(* whatever fails, crashes or is written meanwhile (commit.go, cleanup of  *)
(* staging; restore_adapter.go, inspect and Cleanup).                      *)
DataKept == TypeOK /\ OriginalKept /\ CopyKept

(* Every write of the ledger that an engine attempts is one the store      *)
(* accepts: no chunk is left in a state its own code cannot leave.         *)
WritesAccepted ==
  At("put_ledger") /\ ledger # NoEntry => LedgerUpdateAllowed(ledger.state, agent.entry.state)

(* The same but for the cleanup of a chunk that was still planned.         *)
LaterWritesAccepted ==
  ledger.state # "planned" => WritesAccepted

(* The ledger can be trusted and can be left again: recovery recognises    *)
(* every stored checkpoint, the store accepts what an engine writes next,  *)
(* and a claim nobody's write made stale survives its verification         *)
(* (execution.go, reconcile; commit.go, settle; clickhouse_ledger.go).     *)
LedgerSound == CheckpointsOwned /\ LaterWritesAccepted /\ ClaimsVerify

(* The run touches what it announced and what is its own: the cutover's    *)
(* promise, and no drop of an object somebody else put at the name of the  *)
(* copy (commit.go, Commit and Rollback; restore_adapter.go, Cleanup).     *)
MigrationPromise == CutoverPromise /\ StrangersKept
=============================================================================
