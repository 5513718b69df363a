------------------------- MODULE StagedMigrationProofs -------------------------
(***************************************************************************)
(* The original table and the copy of its data are kept, the ledger tells  *)
(* the truth about the cutover, and its writes are accepted: for any       *)
(* number of calls, faults, crashes and writes by others.                  *)
(***************************************************************************)
EXTENDS StagedMigration, TLAPS

(* Which table serves the target, and what it holds.                       *)

Original == tables.target.id = "original" /\ tables.staging.id \in {"none", "migrated"}
Swapped == tables.target.id = "migrated" /\ tables.staging.id = "original"
OriginalTable == IF tables.target.id = "original" THEN tables.target ELSE tables.staging
MigratedTable == IF tables.target.id = "original" THEN tables.staging ELSE tables.target

Sources == {"empty", "old", "new", "newer"}
Baselines == {"empty", "old", "foreign"}

\* The data is c, or somebody wrote to it.
Holds(d, c) == d = c \/ (d = "foreign" /\ writes # 0)

-----------------------------------------------------------------------------
(* What a stored entry says, and what must be so for it to be stored.      *)

EntryType == [state : LedgerStates, checkpoint : Checkpoints, source : Sources]
RecordType == [state : RestoreStates, baseline : Baselines, object : {"copy", "none"}]

\* Word, of any entry.
WordOf(l) ==
  CASE l.state = "committed" -> "migrated"
    [] l.state \in {"rollback_blocked", "rollback_failed"} -> "manual"
    [] l.state = "commit_unknown" -> "unsure"
    [] l.state = "rollback_pending" /\ ~CleanupOwned(l) -> "unsure"
    [] OTHER -> "original"

\* The tables were told apart before they were exchanged, and can be since.
Exchanging(l) == WordOf(l) \in {"unsure", "migrated"}

EntryOK(l) ==
  /\ l \in EntryType /\ Owned(l)
  /\ WordOf(l) = "original" => Original
  /\ WordOf(l) = "migrated" => Swapped
  /\ Exchanging(l) => l.source # point.baseline /\ Holds(MigratedTable.data, l.source)

WordStep(from, to) ==
  \/ from = to \/ from = "unsure"
  \/ from = "original" /\ to = "unsure"
  \/ from = "migrated" /\ to \in {"unsure", "manual"}

RecordOK(r) ==
  /\ r \in RecordType
  /\ r.baseline = "empty" => tables.restore.id # "copy"
  /\ r.state = "ready" /\ r.baseline # "empty" =>
       tables.restore = [id |-> "copy", data |-> r.baseline]
  /\ r.state = "cleaned" => tables.restore.id # "copy"

TablesOK ==
  /\ tables \in [{"target", "staging", "restore"} -> [id : Objects, data : Contents] \cup {Absent}]
  /\ Original \/ Swapped
  /\ OriginalTable.data \in Baselines
  /\ \/ tables.restore \in {Absent, [id |-> "other", data |-> "stranger"]}
     \/ tables.restore.id = "copy"

PointOK ==
  /\ point = NoPoint => ledger = NoEntry /\ ~restored
  /\ point # NoPoint =>
       /\ point \in [baseline : Baselines, object : {"copy", "none"}]
       /\ point.baseline # "empty" => point.object = "copy"
       /\ Holds(OriginalTable.data, point.baseline)

StoredInv ==
  /\ source \in Sources /\ restored \in BOOLEAN /\ lease \in BOOLEAN
  /\ TablesOK /\ PointOK
  /\ ledger = NoEntry => Original
  /\ ledger # NoEntry => EntryOK(ledger)
  /\ restored => ledger.state \in {"none", "rolled_back"}
  /\ record = NoRecord => tables.restore.id # "copy"
  /\ record # NoRecord => RecordOK(record)

Spent ==
  /\ calls \in 0 .. MaxCalls /\ faults \in 0 .. MaxFaults
  /\ crashes \in 0 .. MaxCrashes /\ writes \in 0 .. MaxWrites

-----------------------------------------------------------------------------
(* Where the Agent is in a call.                                           *)

CreatePcs == {"c_target", "c_record", "c_state", "c_create", "c_copy", "c_prove", "c_ready", "c_verify"}
TransferPcs == {"r_source", "r_exists", "r_staging", "r_verified", "x_source", "x_drop", "x_create",
                "x_intent", "x_transfer", "x_staging"}
GiveUpPcs == {"k_begin", "k_exists", "k_drop", "k_check"}
CommitPcs == {"m_lease", "m_source", "m_noop", "m_guard", "m_intent", "m_exchange", "m_settle"}
RollbackPcs == {"b_reconcile", "b_reconciled", "b_guard", "b_intent", "b_exchange", "b_settle",
                "b_again", "b_observed"}
CleanupPcs == {"d_staging", "d_restore", "d_gone", "d_cleaned"}
EntryPcs == TransferPcs \cup GiveUpPcs \cup CommitPcs \cup RollbackPcs
Looking == {"m_noop", "m_intent", "m_settle", "b_reconciled", "b_intent", "b_settle", "b_observed"}
Waiting == {"put_ledger", "put_record", "lease", "see_target", "see_staging"}
Pc == CreatePcs \cup EntryPcs \cup CleanupPcs \cup Waiting \cup {"idle", "get", "restored", "v_check"}

SomeEntry == [state : LedgerStates \cup {"none"}, checkpoint : Checkpoints \cup {"none"},
              source : Sources \cup {"none"}]

AgentType ==
  [call : {"none", "create", "apply", "rollback", "cleanup"}, pc : Pc, then : Pc \ Waiting,
   entry : SomeEntry,
   rec : RecordType \cup {NoRecord},
   first : Contents \cup {"none"}, seen : {"none", "committed", "prepared", "unknown", "failed"},
   failed : BOOLEAN]

\* Where the Agent is, or will be when a store, a look or a lease check is done.
Where(a) == IF a.pc \in Waiting THEN a.then ELSE a.pc

CallAt(a) ==
  /\ Where(a) \in CreatePcs => a.call = "create"
  /\ Where(a) \in TransferPcs \cup CommitPcs => a.call = "apply"
  /\ Where(a) \in GiveUpPcs => a.call \in {"apply", "rollback"}
  /\ Where(a) \in RollbackPcs \cup {"restored"} => a.call = "rollback"
  /\ Where(a) \in CleanupPcs \cup {"v_check"} => a.call = "cleanup"
  /\ a.pc = "put_ledger" => a.then \in (EntryPcs \ Looking) \cup {"idle", "restored"}
  /\ a.pc = "put_record" => a.then \in (CreatePcs \cup CleanupPcs \cup {"idle"}) \ {"c_record"}
  /\ a.pc = "lease" => a.then \in (EntryPcs \ Looking) \cup {"get"}
  /\ a.pc \in {"see_target", "see_staging"} => a.then \in Looking
  /\ a.call = "create" => point = NoPoint
  /\ a.call \in {"apply", "rollback"} => point # NoPoint
  /\ a.call = "apply" => ~restored
  /\ a.call = "cleanup" => restored

\* The entry a step works on.
EntryAt(pc, e) ==
  /\ pc \in {"r_source", "r_exists", "r_staging"} => e.state \in Begun
  /\ pc \in {"x_source", "x_drop", "x_create"} => e.state \in {"planned", "staging"}
  /\ pc \in {"x_intent", "x_transfer"} => e.state = "staging"
  /\ pc \in {"r_verified", "x_staging"} => e.state = "transferred"
  /\ pc = "k_begin" => e.state \in Cleanable \cup {"rollback_blocked", "rollback_failed",
                                                   "commit_pending", "replicas_converging"}
  /\ pc \in {"k_exists", "k_drop", "k_check"} => CleanupOwned(e)
  /\ pc \in {"m_lease", "m_source", "m_noop", "m_guard", "m_intent"} => e.state = "verified"
  /\ pc \in {"m_exchange", "m_settle", "b_reconcile", "b_reconciled"} => e.state = "commit_unknown"
  /\ pc \in {"b_guard", "b_intent"} => e.state = "committed"
  /\ pc \in {"b_again", "b_observed", "b_exchange", "b_settle"} =>
       e.state = "rollback_pending" /\ ~CleanupOwned(e)
  /\ pc = "restored" => e.state \in {"none", "rolled_back"}
  /\ pc = "m_noop" => e.source = "empty" /\ point.baseline = "empty"

\* It is the stored one, but for the first of all.
EntryStored(a) ==
  \/ a.entry = ledger
  \/ a.pc = "x_source" /\ ledger = NoEntry /\ a.entry = [NoEntry EXCEPT !.state = "planned"]

\* The write under way.
PutAt(a) ==
  a.pc = "put_ledger" =>
    /\ EntryOK(a.entry) /\ ~restored /\ point # NoPoint
    /\ WordStep(WordOf(ledger), WordOf(a.entry))
    /\ ledger.state \notin {"none", "planned"} => LedgerUpdateAllowed(ledger.state, a.entry.state)

\* What was seen of the tables tells which one serves.
SeenAt(a) ==
  /\ a.pc = "see_staging" /\ Original => a.first \in {point.baseline, "foreign"}
  /\ a.pc \in Looking /\ Exchanging(ledger) =>
       /\ a.seen = "committed" => Swapped
       /\ a.seen = "prepared" => Original
  /\ a.pc = "m_intent" /\ a.seen = "prepared" =>
       tables.staging.data = a.entry.source /\ a.entry.source # point.baseline
  /\ a.pc = "m_noop" => a.seen # "prepared"

\* The record a step works on.
RecordAt(pc, r) ==
  /\ pc = "c_state" => r.state \in {"intent", "creating", "ready"}
  /\ pc \in {"c_create", "c_copy", "c_prove", "c_ready"} => r.state = "creating" /\ r.baseline # "empty"
  /\ pc = "c_copy" => tables.restore.id = "copy"
  /\ pc = "c_ready" => tables.restore = [id |-> "copy", data |-> r.baseline]
  /\ pc \in CleanupPcs => r.state = "cleanup_pending" /\ r.baseline = point.baseline
  /\ pc = "d_cleaned" => tables.restore.id # "copy"

AgentOK(a) ==
  /\ a \in AgentType /\ CallAt(a) /\ PutAt(a) /\ SeenAt(a)
  /\ Where(a) \in EntryPcs \cup {"restored"} =>
       EntryAt(Where(a), a.entry) /\ (a.pc # "put_ledger" => EntryStored(a))
  /\ a.pc = "put_record" => RecordOK(a.rec)
  /\ Where(a) \in (CreatePcs \cup CleanupPcs) \ {"c_target", "c_record"} =>
       RecordAt(Where(a), a.rec) /\ (a.pc # "put_record" => a.rec = record /\ record # NoRecord)
  /\ a.pc = "c_record" => a.first \in Baselines

IInv == Spent /\ StoredInv /\ AgentOK(agent)

\* What a transfer fills has been created.
StagingMade == Where(agent) \in {"x_intent", "x_transfer"} => Exists("staging")

SInv == IInv /\ StagingMade

-----------------------------------------------------------------------------
(* Entries and words.                                                      *)

LEMMA Words ==
  \A l : /\ l.state \notin {"committed", "commit_unknown", "rollback_pending", "rollback_blocked",
                            "rollback_failed"} => WordOf(l) = "original"
         /\ CleanupOwned(l) => WordOf(l) = "original"
         /\ l.state = "committed" => WordOf(l) = "migrated"
         /\ l.state \in {"rollback_blocked", "rollback_failed"} => WordOf(l) = "manual"
         /\ l.state = "commit_unknown" => WordOf(l) = "unsure"
         /\ l.state = "rollback_pending" /\ ~CleanupOwned(l) => WordOf(l) = "unsure"
         /\ WordOf(l) \in {"original", "migrated", "manual", "unsure"}
BY DEF WordOf, CleanupOwned

LEMMA WordIsWord == Word = WordOf(ledger)
BY DEF Word, WordOf

LEMMA OwnedEntries ==
  \A l : /\ l.state \notin {"commit_pending", "replicas_converging", "commit_unknown",
                            "rollback_pending"} => Owned(l)
         /\ CleanupOwned(l) => Owned(l)
         /\ l.state = "commit_unknown" => (Owned(l) <=> l.checkpoint = "exchange_intent")
         /\ l.state = "rollback_pending" /\ l.checkpoint \in {"rollback_exchange_intent",
              "rollback_observation_pending"} => Owned(l)
BY DEF Owned, CheckpointOwned, CleanupOwned

LEMMA MovedOK ==
  ASSUME NEW e \in EntryType, NEW s \in LedgerStates, NEW c \in Checkpoints
  PROVE  /\ Moved(e, s, c) \in EntryType
         /\ Moved(e, s, c).state = s /\ Moved(e, s, c).checkpoint = c
         /\ Moved(e, s, c).source = e.source
BY DEF EntryType, Moved

\* An entry that says the original serves the target, while it does.
LEMMA OriginalEntry ==
  ASSUME NEW l \in EntryType, Original,
         l.state \in Begun \cup {"failed", "rolled_back"} \/ CleanupOwned(l)
  PROVE  EntryOK(l) /\ WordOf(l) = "original"
<1>1. WordOf(l) = "original" /\ Owned(l)
  BY Words, OwnedEntries DEF Begun
<1>2. QED
  BY <1>1 DEF EntryOK, Exchanging

-----------------------------------------------------------------------------
(* What the Agent may go on with.                                          *)

LEMMA IdleOK ==
  ASSUME StoredInv
  PROVE  AgentOK(Idle)
<1> USE DEF Idle, NoEntry, NoRecord, Waiting, Looking, CreatePcs, TransferPcs, CommitPcs, GiveUpPcs,
            RollbackPcs, CleanupPcs, EntryPcs
<1>1. Idle \in AgentType
  BY DEF AgentType, SomeEntry, Pc
<1>2. CallAt(Idle)
  BY DEF CallAt, Where
<1>3. PutAt(Idle) /\ SeenAt(Idle) /\ Where(Idle) = "idle"
  BY DEF PutAt, SeenAt, Where
<1>4. QED
  BY <1>1, <1>2, <1>3 DEF AgentOK

LEMMA IdleAfter == agent' = Idle => AgentOK(agent)'
<1> SUFFICES ASSUME agent' = Idle PROVE AgentOK(agent)'
  OBVIOUS
<1> USE DEF Idle, NoEntry, NoRecord, Waiting, Looking, CreatePcs, TransferPcs, CommitPcs, GiveUpPcs,
            RollbackPcs, CleanupPcs, EntryPcs
<1>1. agent' \in AgentType
  BY DEF AgentType, SomeEntry, Pc
<1>2. CallAt(agent)'
  BY DEF CallAt, Where
<1>3. PutAt(agent)' /\ SeenAt(agent)' /\ Where(agent)' = "idle"
  BY DEF PutAt, SeenAt, Where
<1>4. QED
  BY <1>1, <1>2, <1>3 DEF AgentOK

\* The control states, told apart.
LEMMA PcSets ==
  /\ "idle" \notin EntryPcs \cup CreatePcs \cup CleanupPcs \cup Waiting
  /\ (CreatePcs \cup EntryPcs \cup CleanupPcs \cup {"idle", "get", "restored", "v_check"}) \cap Waiting = {}
  /\ Pc \ Waiting = CreatePcs \cup EntryPcs \cup CleanupPcs \cup {"idle", "get", "restored", "v_check"}
  /\ EntryPcs \cap (CreatePcs \cup CleanupPcs \cup {"restored", "get", "v_check"}) = {}
  /\ "restored" \notin CreatePcs \cup CleanupPcs
  /\ Looking \subseteq EntryPcs
BY DEF Looking, EntryPcs, CreatePcs, CleanupPcs, Waiting, TransferPcs, CommitPcs, GiveUpPcs,
       RollbackPcs, Pc

\* Records and sequences of updates of the Agent's state keep its type.
LEMMA AgentParts ==
  ASSUME agent \in AgentType
  PROVE  /\ \A p \in Pc : [agent EXCEPT !.pc = p] \in AgentType
         /\ \A e \in SomeEntry, t \in Pc \ Waiting : StoreEntry(e, t) \in AgentType
         /\ \A r \in RecordType, t \in Pc \ Waiting : StoreRecord(r, t) \in AgentType
         /\ \A t \in Pc \ Waiting : Observe(t) \in AgentType /\ CheckLease(t) \in AgentType
<1>1. {"put_ledger", "put_record", "see_target", "lease"} \subseteq Pc
  BY DEF Pc, Waiting
<1>2. QED
  BY <1>1 DEF AgentType, StoreEntry, StoreRecord, Observe, CheckLease

LEMMA AgentFields ==
  ASSUME agent \in AgentType
  PROVE  /\ \A e, t : /\ StoreEntry(e, t).pc = "put_ledger" /\ StoreEntry(e, t).then = t
                      /\ StoreEntry(e, t).entry = e /\ StoreEntry(e, t).call = agent.call
         /\ \A r, t : /\ StoreRecord(r, t).pc = "put_record" /\ StoreRecord(r, t).then = t
                      /\ StoreRecord(r, t).rec = r /\ StoreRecord(r, t).call = agent.call
         /\ \A t : /\ Observe(t).pc = "see_target" /\ Observe(t).then = t
                   /\ Observe(t).entry = agent.entry /\ Observe(t).call = agent.call
                   /\ Observe(t).rec = agent.rec
         /\ \A t : /\ CheckLease(t).pc = "lease" /\ CheckLease(t).then = t
                   /\ CheckLease(t).entry = agent.entry /\ CheckLease(t).call = agent.call
                   /\ CheckLease(t).rec = agent.rec
         /\ \A p : p # "idle" => /\ Goto(p).pc = p /\ Goto(p).entry = agent.entry
                                 /\ Goto(p).call = agent.call /\ Goto(p).rec = agent.rec
                                 /\ Goto(p).first = agent.first /\ Goto(p).seen = agent.seen
                                 /\ Goto(p).then = agent.then
BY DEF AgentType, StoreEntry, StoreRecord, Observe, CheckLease, Goto

LEMMA StoreEntryOK ==
  ASSUME AgentOK(agent), NEW e, NEW t \in (EntryPcs \ Looking) \cup {"idle", "restored"},
         agent.call \in {"apply", "rollback"}, ~restored, EntryOK(e), EntryAt(t, e),
         t \in TransferPcs \cup CommitPcs => agent.call = "apply",
         t \in RollbackPcs \cup {"restored"} => agent.call = "rollback",
         WordStep(WordOf(ledger), WordOf(e)),
         ledger.state \notin {"none", "planned"} => LedgerUpdateAllowed(ledger.state, e.state)
  PROVE  AgentOK(StoreEntry(e, t))
<1> DEFINE a == StoreEntry(e, t)
<1>0. e \in SomeEntry /\ t \in Pc \ Waiting
  BY PcSets DEF EntryOK, EntryType, SomeEntry
<1>1. /\ a \in AgentType /\ a.pc = "put_ledger" /\ a.then = t /\ a.entry = e /\ a.call = agent.call
      /\ Where(a) = t
  BY <1>0, AgentParts, AgentFields DEF AgentOK, Where, Waiting
<1>2. /\ agent.call \in {"apply", "rollback"} => point # NoPoint
  BY DEF AgentOK, CallAt
<1> HIDE DEF a
<1>3. CallAt(a)
  BY <1>1, <1>2, PcSets DEF CallAt, Waiting
<1>4. PutAt(a)
  BY <1>1, <1>2 DEF PutAt
<1>5. SeenAt(a)
  BY <1>1 DEF SeenAt, Looking
<1>6. AgentOK(a)
  BY <1>1, <1>3, <1>4, <1>5, PcSets DEF AgentOK
<1>7. QED
  BY <1>6 DEF a

\* It goes on with the entry it has.
LEMMA WorkOn ==
  ASSUME AgentOK(agent), NEW a, NEW t \in EntryPcs, a \in AgentType,
         \/ a.pc = t
         \/ a.pc = "lease" /\ a.then = t /\ t \notin Looking
         \/ a.pc \in {"see_target", "see_staging"} /\ a.then = t /\ t \in Looking,
         a.call = agent.call, agent.call \in {"apply", "rollback"},
         EntryAt(t, a.entry), EntryStored(a),
         t \in TransferPcs \cup CommitPcs => agent.call = "apply",
         t \in RollbackPcs => agent.call = "rollback",
         SeenAt(a)
  PROVE  AgentOK(a)
<1>0. Where(a) = t
  BY PcSets DEF Where, Waiting
<1>1. /\ agent.call \in {"apply", "rollback"} => point # NoPoint
      /\ agent.call = "apply" => ~restored
  BY DEF AgentOK, CallAt
<1>2. a.pc # "put_ledger" /\ a.pc # "put_record"
  BY PcSets DEF Waiting
<1>3. CallAt(a)
  BY <1>0, <1>1, <1>2, PcSets DEF CallAt, Waiting
<1>4. PutAt(a)
  BY <1>2 DEF PutAt
<1>5. a.pc # "c_record"
  BY PcSets DEF Waiting, CreatePcs
<1>6. QED
  BY <1>0, <1>2, <1>3, <1>4, <1>5, PcSets DEF AgentOK

LEMMA StoreRecordOK ==
  ASSUME AgentOK(agent), NEW r, RecordOK(r),
         NEW t \in (CreatePcs \cup CleanupPcs \cup {"idle"}) \ {"c_record"},
         t \in CreatePcs => agent.call = "create",
         t \in CleanupPcs => agent.call = "cleanup",
         t # "idle" => RecordAt(t, r)
  PROVE  AgentOK(StoreRecord(r, t))
<1> DEFINE a == StoreRecord(r, t)
<1>0. r \in RecordType /\ t \in Pc \ Waiting
  BY PcSets DEF RecordOK
<1>1. /\ a \in AgentType /\ a.pc = "put_record" /\ a.then = t /\ a.rec = r /\ a.call = agent.call
      /\ Where(a) = t
  BY <1>0, AgentParts, AgentFields DEF AgentOK, Where, Waiting
<1>2. /\ agent.call = "create" => point = NoPoint
      /\ agent.call \in {"apply", "rollback"} => point # NoPoint
      /\ agent.call = "apply" => ~restored
      /\ agent.call = "cleanup" => restored
  BY DEF AgentOK, CallAt
<1> HIDE DEF a
<1>3. t \notin EntryPcs \cup {"restored"} /\ t \notin TransferPcs \cup CommitPcs \cup GiveUpPcs \cup RollbackPcs
  BY PcSets DEF EntryPcs
<1>4. CallAt(a)
  <2>1. t # "v_check"
    BY DEF CreatePcs, CleanupPcs
  <2>2. QED
    BY <1>1, <1>2, <1>3, <2>1 DEF CallAt
<1>5. PutAt(a) /\ SeenAt(a)
  BY <1>1 DEF PutAt, SeenAt, Looking
<1>6. AgentOK(a)
  BY <1>1, <1>3, <1>4, <1>5, PcSets DEF AgentOK, Waiting, CreatePcs
<1>7. QED
  BY <1>6 DEF a

\* The call goes on, and nothing else happens.
LEMMA AgentMoves ==
  ASSUME IInv, Spent', writes' = writes, UNCHANGED <<data, stored, point, restored, lease>>,
         NEW a, a = agent', AgentOK(a)
  PROVE  IInv'
<1>1. /\ source' = source /\ tables' = tables /\ ledger' = ledger /\ record' = record
      /\ point' = point /\ restored' = restored /\ lease' = lease /\ writes' = writes /\ agent' = a
  BY DEF data, stored
<1>2. /\ Original' = Original /\ Swapped' = Swapped /\ OriginalTable' = OriginalTable
      /\ MigratedTable' = MigratedTable
      /\ \A d, c : Holds(d, c)' <=> Holds(d, c)
  BY <1>1 DEF Original, Swapped, OriginalTable, MigratedTable, Holds
<1>3. /\ \A l : EntryOK(l)' <=> EntryOK(l)
      /\ \A r : RecordOK(r)' <=> RecordOK(r)
      /\ \A p, e : EntryAt(p, e)' <=> EntryAt(p, e)
      /\ \A p, r : RecordAt(p, r)' <=> RecordAt(p, r)
  BY <1>1, <1>2 DEF EntryOK, RecordOK, EntryAt, RecordAt
<1>4. TablesOK' /\ PointOK'
  BY <1>1, <1>2 DEF IInv, StoredInv, TablesOK, PointOK
<1>5. StoredInv'
  BY <1>1, <1>2, <1>3, <1>4 DEF IInv, StoredInv
<1>6. CallAt(agent)' /\ SeenAt(agent)' /\ (EntryStored(agent)' <=> EntryStored(a))
  BY <1>1, <1>2 DEF AgentOK, CallAt, SeenAt, EntryStored
<1>7. PutAt(agent)'
  BY <1>1, <1>3 DEF AgentOK, PutAt
<1>8. AgentOK(agent)'
  BY <1>1, <1>3, <1>6, <1>7 DEF AgentOK
<1>9. QED
  BY <1>5, <1>8 DEF IInv

LEMMA AgentMovesQuietly ==
  ASSUME IInv, Quiet, NEW a, a = agent', AgentOK(a)
  PROVE  IInv'
<1>1. Spent' /\ writes' = writes
  BY DEF IInv, Spent, Quiet, spent
<1>2. QED
  BY <1>1, AgentMoves DEF Quiet

\* What is so of a step that works on an entry, or waits to.
LEMMA AtWork ==
  ASSUME IInv, agent.pc \notin {"put_ledger", "put_record"}, Where(agent) \in EntryPcs
  PROVE  /\ AgentOK(agent) /\ agent \in AgentType
         /\ agent.call \in {"apply", "rollback"} /\ point # NoPoint /\ ~restored
         /\ Where(agent) \in TransferPcs \cup CommitPcs => agent.call = "apply"
         /\ Where(agent) \in RollbackPcs => agent.call = "rollback"
         /\ EntryAt(Where(agent), agent.entry)
         /\ \/ agent.entry = ledger /\ ledger # NoEntry /\ EntryOK(ledger)
            \/ /\ agent.pc = "x_source" /\ ledger = NoEntry /\ Original
               /\ agent.entry = [NoEntry EXCEPT !.state = "planned"]
<1>1. AgentOK(agent) /\ agent \in AgentType
  BY DEF IInv, AgentOK
<1>2. /\ agent.call \in {"apply", "rollback"} /\ point # NoPoint
      /\ Where(agent) \in TransferPcs \cup CommitPcs => agent.call = "apply"
      /\ Where(agent) \in RollbackPcs => agent.call = "rollback"
      /\ agent.call = "apply" => ~restored
  BY <1>1 DEF AgentOK, CallAt, EntryPcs
<1>3. EntryAt(Where(agent), agent.entry) /\ EntryStored(agent)
  BY <1>1 DEF AgentOK
<1>4. agent.entry.state \notin {"none", "rolled_back"}
  BY <1>3 DEF EntryAt, EntryPcs, TransferPcs, GiveUpPcs, CommitPcs, RollbackPcs, Begun, Cleanable, CleanupOwned
<1>5. CASE agent.entry = ledger
  <2>1. ledger # NoEntry /\ ~restored /\ EntryOK(ledger)
    BY <1>4, <1>5 DEF IInv, StoredInv, NoEntry
  <2>2. QED
    BY <1>1, <1>2, <1>3, <1>5, <2>1
<1>6. CASE agent.entry # ledger
  <2>1. /\ agent.pc = "x_source" /\ ledger = NoEntry
        /\ agent.entry = [NoEntry EXCEPT !.state = "planned"]
    BY <1>3, <1>6 DEF EntryStored
  <2>2. agent.call = "apply" /\ ~restored /\ Original
    BY <1>2, <2>1 DEF IInv, StoredInv, TransferPcs, Where, Waiting
  <2>3. QED
    BY <1>1, <1>2, <1>3, <2>1, <2>2
<1>7. QED
  BY <1>5, <1>6

LEMMA Working ==
  ASSUME agent.pc \in EntryPcs
  PROVE  agent.pc \notin {"put_ledger", "put_record"} /\ Where(agent) = agent.pc
BY PcSets DEF Where, Waiting

\* The writes the engine makes.
LEMMA Transitions ==
  /\ \A s \in {"staging", "transferred", "verified", "failed"} : LedgerUpdateAllowed(s, "rollback_pending")
  /\ \A s \in {"staging", "transferred"} : LedgerUpdateAllowed(s, "failed")
  /\ LedgerUpdateAllowed("staging", "transferred") /\ LedgerUpdateAllowed("transferred", "verified")
  /\ LedgerUpdateAllowed("verified", "commit_unknown") /\ LedgerUpdateAllowed("verified", "committed")
  /\ LedgerUpdateAllowed("commit_unknown", "committed") /\ LedgerUpdateAllowed("commit_unknown", "verified")
  /\ \A s \in {"rollback_pending", "rollback_blocked"} : LedgerUpdateAllowed("committed", s)
  /\ \A s \in {"rolled_back", "committed", "rollback_failed"} : LedgerUpdateAllowed("rollback_pending", s)
  /\ \A s : LedgerUpdateAllowed(s, s)
BY DEF LedgerUpdateAllowed, CanLedgerTransition, LedgerTransitions, LedgerStates

\* The next entry is stored while the original serves the target.
LEMMA StoreOriginal ==
  ASSUME IInv, agent.pc \in EntryPcs, Original, NEW e \in EntryType,
         NEW t \in (EntryPcs \ Looking) \cup {"idle", "restored"},
         e.state \in Begun \cup {"failed", "rolled_back"} \/ CleanupOwned(e), EntryAt(t, e),
         t \in TransferPcs \cup CommitPcs => agent.call = "apply",
         t \in RollbackPcs \cup {"restored"} => agent.call = "rollback",
         ledger = NoEntry \/ ledger.state = "planned" \/ LedgerUpdateAllowed(ledger.state, e.state)
  PROVE  AgentOK(StoreEntry(e, t))
<1>1. EntryOK(e) /\ WordOf(e) = "original"
  BY OriginalEntry
<1>2. WordOf(ledger) \in {"original", "unsure"}
  <2>1. CASE ledger = NoEntry
    BY <2>1, Words DEF NoEntry
  <2>2. CASE ledger # NoEntry /\ EntryOK(ledger)
    <3>1. WordOf(ledger) # "migrated"
      BY <2>2 DEF EntryOK, Original, Swapped
    <3>2. ledger.state \notin {"rollback_blocked", "rollback_failed"}
      BY DEF LedgerUpdateAllowed, CanLedgerTransition, LedgerTransitions, LedgerStates, CleanupOwned, Begun, NoEntry
    <3>3. QED
      BY <3>1, <3>2, Words DEF WordOf
  <2>3. QED
    BY <2>1, <2>2, AtWork, Working
<1>3. WordStep(WordOf(ledger), WordOf(e))
  BY <1>1, <1>2 DEF WordStep
<1>4. AgentOK(agent) /\ agent.call \in {"apply", "rollback"} /\ ~restored
  BY AtWork, Working
<1>5. ledger.state \notin {"none", "planned"} => LedgerUpdateAllowed(ledger.state, e.state)
  BY DEF NoEntry
<1>6. QED
  BY <1>1, <1>3, <1>4, <1>5, StoreEntryOK

\* The call goes on with the entry it has.
LEMMA GoOn ==
  ASSUME AgentOK(agent), NEW t \in EntryPcs, agent.entry = ledger, EntryAt(t, ledger),
         agent.call \in {"apply", "rollback"},
         t \in TransferPcs \cup CommitPcs => agent.call = "apply",
         t \in RollbackPcs => agent.call = "rollback"
  PROVE  /\ t \notin Looking => AgentOK(Goto(t)) /\ AgentOK(CheckLease(t))
         /\ t \in Looking => /\ AgentOK(Observe(t))
                             /\ AgentOK([Observe(t) EXCEPT !.failed = TRUE])
<1>1. agent \in AgentType /\ t \in Pc /\ t \in Pc \ Waiting /\ t # "idle"
  BY PcSets DEF AgentOK
<1>2. CASE t \notin Looking
  <2>1. /\ Goto(t) \in AgentType /\ Goto(t).pc = t /\ Goto(t).call = agent.call /\ Goto(t).entry = ledger
    BY <1>1, AgentParts, AgentFields DEF Goto
  <2>2. /\ CheckLease(t) \in AgentType /\ CheckLease(t).pc = "lease" /\ CheckLease(t).then = t
        /\ CheckLease(t).call = agent.call /\ CheckLease(t).entry = ledger
    BY <1>1, AgentParts, AgentFields
  <2>3. EntryStored(Goto(t)) /\ EntryStored(CheckLease(t))
    BY <2>1, <2>2 DEF EntryStored
  <2>4. SeenAt(Goto(t)) /\ SeenAt(CheckLease(t))
    BY <1>2, <2>1, <2>2, PcSets DEF SeenAt, Looking, Waiting
  <2>5. AgentOK(Goto(t))
    BY <1>2, <2>1, <2>3, <2>4, WorkOn
  <2>6. AgentOK(CheckLease(t))
    BY <1>2, <2>2, <2>3, <2>4, WorkOn
  <2>7. QED
    BY <1>2, <2>5, <2>6
<1>3. CASE t \in Looking
  <2> DEFINE b == [Observe(t) EXCEPT !.failed = TRUE]
  <2>1. /\ Observe(t) \in AgentType /\ Observe(t).pc = "see_target" /\ Observe(t).then = t
        /\ Observe(t).call = agent.call /\ Observe(t).entry = ledger
    BY <1>1, AgentParts, AgentFields
  <2>2. /\ b \in AgentType /\ b.pc = "see_target" /\ b.then = t
        /\ b.call = agent.call /\ b.entry = ledger
    BY <2>1 DEF AgentType
  <2> HIDE DEF b
  <2>3. EntryStored(Observe(t)) /\ EntryStored(b)
    BY <2>1, <2>2 DEF EntryStored
  <2>4. SeenAt(Observe(t)) /\ SeenAt(b)
    BY <2>1, <2>2 DEF SeenAt, Looking
  <2>5. AgentOK(Observe(t))
    BY <1>3, <2>1, <2>3, <2>4, WorkOn
  <2>6. AgentOK(b)
    BY <1>3, <2>2, <2>3, <2>4, WorkOn
  <2>7. QED
    BY <1>3, <2>5, <2>6 DEF b
<1>4. QED
  BY <1>2, <1>3

LEMMA QuietIdle == IInv /\ Quiet /\ agent' = Idle => IInv'
<1> SUFFICES ASSUME IInv, Quiet, agent' = Idle PROVE IInv'
  OBVIOUS
<1>1. AgentOK(Idle)
  BY IdleOK DEF IInv
<1>2. QED
  BY <1>1, AgentMovesQuietly

-----------------------------------------------------------------------------
(* Apply, up to the cutover.                                               *)

\* While the transfer is made, the original serves the target.
LEMMA Transferring ==
  ASSUME IInv, agent.pc \in TransferPcs \cup GiveUpPcs,
         agent.pc = "k_begin" => agent.entry.state \in Cleanable
  PROVE  /\ Original /\ agent.entry.state # "none"
         /\ agent.pc # "x_source" => agent.entry = ledger /\ ledger # NoEntry /\ ledger \in EntryType
<1>1. agent.pc \in EntryPcs
  BY DEF EntryPcs
<1>2. CASE agent.pc = "x_source" /\ ledger = NoEntry /\ Original
             /\ agent.entry = [NoEntry EXCEPT !.state = "planned"]
  BY <1>2 DEF NoEntry
<1>3. CASE agent.entry = ledger /\ ledger # NoEntry /\ EntryOK(ledger)
  <2>1. EntryAt(agent.pc, ledger)
    BY <1>1, <1>3, AtWork, Working
  <2>2. ledger.state \in Begun \cup {"failed"} \/ CleanupOwned(ledger)
    BY <1>3, <2>1 DEF EntryAt, TransferPcs, GiveUpPcs, Begun, Cleanable
  <2>3. WordOf(ledger) = "original" /\ ledger.state # "none"
    BY <2>2, Words DEF Begun, CleanupOwned
  <2>4. QED
    BY <1>3, <2>3 DEF EntryOK
<1>4. QED
  BY <1>1, <1>2, <1>3, AtWork, Working

\* A call begins with the entry the ledger has.
LEMMA Resume ==
  ASSUME AgentOK(agent), agent.pc = "get", NEW e \in SomeEntry,
         NEW p \in {"x_source", "r_source", "k_begin", "k_exists"}, EntryAt(p, e),
         \/ e = ledger
         \/ p = "x_source" /\ ledger = NoEntry /\ e = [NoEntry EXCEPT !.state = "planned"],
         agent.call \in {"apply", "rollback"}, p \in {"x_source", "r_source"} => agent.call = "apply"
  PROVE  AgentOK([agent EXCEPT !.pc = p, !.entry = e])
<1> DEFINE b == [agent EXCEPT !.pc = p, !.entry = e]
<1>1. p \in Pc /\ p \in EntryPcs /\ p \notin Looking /\ p \notin RollbackPcs
  BY DEF Pc, EntryPcs, TransferPcs, GiveUpPcs, Looking, RollbackPcs
<1>2. b \in AgentType /\ b.pc = p /\ b.entry = e /\ b.call = agent.call
  BY <1>1 DEF AgentType, AgentOK
<1> HIDE DEF b
<1>3. EntryStored(b) /\ SeenAt(b)
  BY <1>1, <1>2 DEF EntryStored, SeenAt, Looking
<1>4. p \in TransferPcs \cup CommitPcs => agent.call = "apply"
  BY DEF TransferPcs, CommitPcs
<1>5. AgentOK(b)
  BY <1>1, <1>2, <1>3, <1>4, WorkOn
<1>6. QED
  BY <1>5 DEF b

LEMMA ExecuteFromLedgerStep == IInv /\ ExecuteFromLedger => IInv'
<1> SUFFICES ASSUME IInv, ExecuteFromLedger PROVE IInv'
  OBVIOUS
<1>1. /\ AgentOK(agent) /\ agent \in AgentType /\ agent.pc = "get" /\ agent.call = "apply" /\ Quiet
      /\ ~restored /\ point # NoPoint
  BY DEF ExecuteFromLedger, At, IInv, AgentOK, CallAt
<1> DEFINE from(p, e) == [agent EXCEPT !.pc = p, !.entry = e]
<1>3. ledger # NoEntry => ledger \in SomeEntry
  BY DEF IInv, StoredInv, EntryOK, EntryType, SomeEntry
<1>4. \/ agent' = Idle
      \/ agent' = from("x_source", [NoEntry EXCEPT !.state = "planned"]) /\ ledger = NoEntry
      \/ agent' = from("r_source", ledger) /\ ledger # NoEntry /\ ledger.state \in Begun
      \/ agent' = from("k_begin", ledger) /\ ledger # NoEntry /\ ledger.state = "failed"
      \/ agent' = from("k_exists", ledger) /\ ledger # NoEntry /\ CleanupOwned(ledger)
  BY DEF ExecuteFromLedger, NoEntry, Begun, CleanupOwned
<1> HIDE DEF from
<1>5. CASE agent' = Idle
  BY <1>1, <1>5, QuietIdle
<1>6. CASE agent' = from("x_source", [NoEntry EXCEPT !.state = "planned"]) /\ ledger = NoEntry
  <2>1. /\ [NoEntry EXCEPT !.state = "planned"] \in SomeEntry
        /\ EntryAt("x_source", [NoEntry EXCEPT !.state = "planned"])
    BY DEF SomeEntry, NoEntry, EntryAt, LedgerStates
  <2>2. AgentOK(from("x_source", [NoEntry EXCEPT !.state = "planned"]))
    BY <1>1, <1>6, <2>1, Resume DEF from
  <2>3. QED
    BY <1>1, <1>6, <2>2, AgentMovesQuietly
<1>7. CASE agent' = from("r_source", ledger) /\ ledger # NoEntry /\ ledger.state \in Begun
  <2>1. EntryAt("r_source", ledger)
    BY <1>7 DEF EntryAt
  <2>2. AgentOK(from("r_source", ledger))
    BY <1>1, <1>3, <1>7, <2>1, Resume DEF from
  <2>3. QED
    BY <1>1, <1>7, <2>2, AgentMovesQuietly
<1>8. CASE agent' = from("k_begin", ledger) /\ ledger # NoEntry /\ ledger.state = "failed"
  <2>1. EntryAt("k_begin", ledger)
    BY <1>8 DEF EntryAt, Cleanable
  <2>2. AgentOK(from("k_begin", ledger))
    BY <1>1, <1>3, <1>8, <2>1, Resume DEF from
  <2>3. QED
    BY <1>1, <1>8, <2>2, AgentMovesQuietly
<1>9. CASE agent' = from("k_exists", ledger) /\ ledger # NoEntry /\ CleanupOwned(ledger)
  <2>1. EntryAt("k_exists", ledger)
    BY <1>9 DEF EntryAt
  <2>2. AgentOK(from("k_exists", ledger))
    BY <1>1, <1>3, <1>9, <2>1, Resume DEF from
  <2>3. QED
    BY <1>1, <1>9, <2>2, AgentMovesQuietly
<1>10. QED
  BY <1>4, <1>5, <1>6, <1>7, <1>8, <1>9

LEMMA QuietGo ==
  ASSUME IInv, Quiet, agent.pc \in EntryPcs, agent.entry = ledger, NEW t \in EntryPcs \ Looking,
         EntryAt(t, ledger),
         t \in TransferPcs \cup CommitPcs => agent.call = "apply",
         t \in RollbackPcs => agent.call = "rollback",
         agent' = Goto(t) \/ agent' = CheckLease(t)
  PROVE  IInv'
<1>1. AgentOK(agent) /\ agent.call \in {"apply", "rollback"}
  BY AtWork, Working
<1>2. AgentOK(Goto(t)) /\ AgentOK(CheckLease(t))
  BY <1>1, GoOn
<1>3. QED
  BY <1>2, AgentMovesQuietly

LEMMA QuietLook ==
  ASSUME IInv, Quiet, agent.pc \in EntryPcs, agent.entry = ledger, NEW t \in Looking,
         EntryAt(t, ledger),
         t \in CommitPcs => agent.call = "apply",
         t \in RollbackPcs => agent.call = "rollback",
         agent' = Observe(t)
  PROVE  IInv'
<1>1. AgentOK(agent) /\ agent.call \in {"apply", "rollback"}
  BY AtWork, Working
<1>2. t \in EntryPcs /\ t \notin TransferPcs
  BY DEF Looking, EntryPcs, TransferPcs, CommitPcs, RollbackPcs
<1>3. AgentOK(Observe(t))
  BY <1>1, <1>2, GoOn
<1>4. QED
  BY <1>3, AgentMovesQuietly

LEMMA QuietStore ==
  ASSUME IInv, Quiet, agent.pc \in EntryPcs, Original, NEW e \in EntryType,
         NEW t \in (EntryPcs \ Looking) \cup {"idle", "restored"},
         e.state \in Begun \cup {"failed", "rolled_back"} \/ CleanupOwned(e), EntryAt(t, e),
         t \in TransferPcs \cup CommitPcs => agent.call = "apply",
         t \in RollbackPcs \cup {"restored"} => agent.call = "rollback",
         ledger = NoEntry \/ ledger.state = "planned" \/ LedgerUpdateAllowed(ledger.state, e.state),
         agent' = StoreEntry(e, t)
  PROVE  IInv'
<1>1. AgentOK(StoreEntry(e, t))
  BY StoreOriginal
<1>2. QED
  BY <1>1, AgentMovesQuietly

\* The steps of an apply know that it is one.
LEMMA Applying ==
  ASSUME IInv, agent.pc \in TransferPcs \cup CommitPcs
  PROVE  agent.pc \in EntryPcs /\ agent.call = "apply" /\ EntryAt(agent.pc, agent.entry)
BY AtWork, Working DEF EntryPcs

LEMMA ReconcileSourceStep == IInv /\ ReconcileSource => IInv'
<1> SUFFICES ASSUME IInv, ReconcileSource PROVE IInv'
  OBVIOUS
<1>1. agent.pc = "r_source" /\ Quiet /\ agent.pc \in TransferPcs
  BY DEF ReconcileSource, At, TransferPcs
<1>2. /\ agent.entry = ledger /\ ledger \in EntryType /\ agent.call = "apply"
      /\ agent.pc \in EntryPcs /\ EntryAt("r_source", ledger) /\ agent \in AgentType
  BY <1>1, Transferring, Applying DEF IInv, AgentOK
<1>3. CASE ~SourceUnchanged(agent.entry)
  BY <1>1, <1>3, QuietIdle DEF ReconcileSource
<1>4. CASE SourceUnchanged(agent.entry)
  <2>1. source = agent.entry.source
    BY <1>2, <1>4 DEF SourceUnchanged, EntryType, Sources
  <2>2. [agent.entry EXCEPT !.source = source] = agent.entry
    BY <1>2, <2>1 DEF EntryType
  <2>3. agent' = [agent EXCEPT !.pc = "r_exists", !.entry = [agent.entry EXCEPT !.source = source]]
    BY <1>4 DEF ReconcileSource
  <2>4. agent' = Goto("r_exists")
    BY <1>2, <2>2, <2>3 DEF Goto, AgentType
  <2>5. EntryAt("r_exists", ledger) /\ "r_exists" \in EntryPcs \ Looking /\ "r_exists" \notin RollbackPcs
    BY <1>2 DEF EntryAt, EntryPcs, TransferPcs, Looking, RollbackPcs
  <2>6. QED
    BY <1>1, <1>2, <2>4, <2>5, QuietGo
<1>5. QED
  BY <1>3, <1>4

LEMMA ReconcileExistsStep == IInv /\ ReconcileExists => IInv'
<1> SUFFICES ASSUME IInv, ReconcileExists PROVE IInv'
  OBVIOUS
<1>1. agent.pc = "r_exists" /\ Quiet /\ agent.pc \in TransferPcs
  BY DEF ReconcileExists, At, TransferPcs
<1>2. /\ agent.entry = ledger /\ agent.call = "apply" /\ agent.pc \in EntryPcs
      /\ EntryAt("r_exists", ledger)
  BY <1>1, Transferring, Applying
<1>3. \/ agent' = Idle
      \/ agent' = Goto("r_staging")
      \/ agent' = Goto("x_source") /\ ledger.state \in {"planned", "staging"}
  BY <1>2 DEF ReconcileExists
<1>4. /\ EntryAt("r_staging", ledger)
      /\ ledger.state \in {"planned", "staging"} => EntryAt("x_source", ledger)
      /\ \A t \in {"r_staging", "x_source"} : t \in EntryPcs \ Looking /\ t \notin RollbackPcs
  BY <1>2 DEF EntryAt, EntryPcs, TransferPcs, Looking, RollbackPcs
<1>5. QED
  BY <1>1, <1>2, <1>3, <1>4, QuietGo, QuietIdle

LEMMA ReconcileStagingStep == IInv /\ ReconcileStaging => IInv'
<1> SUFFICES ASSUME IInv, ReconcileStaging PROVE IInv'
  OBVIOUS
<1>1. agent.pc = "r_staging" /\ Quiet /\ agent.pc \in TransferPcs
  BY DEF ReconcileStaging, At, TransferPcs
<1>2. /\ agent.entry = ledger /\ ledger \in EntryType /\ ledger # NoEntry /\ agent.call = "apply"
      /\ agent.pc \in EntryPcs /\ EntryAt("r_staging", ledger) /\ Original
  BY <1>1, Transferring, Applying
<1> DEFINE e(s) == Moved(ledger, s, "done")
<1>3. \/ agent' = Idle
      \/ agent' = StoreEntry(e("transferred"), "r_verified") /\ ledger.state = "staging"
      \/ agent' = StoreEntry(e("verified"), "m_lease") /\ ledger.state \notin {"planned", "staging"}
      \/ agent' = Goto("x_source") /\ ledger.state \in {"planned", "staging"}
  BY <1>2 DEF ReconcileStaging
<1>4. \A s \in {"transferred", "verified"} : e(s) \in EntryType /\ e(s).state = s
  BY <1>2, MovedOK DEF LedgerStates, Checkpoints
<1>5. /\ EntryAt("r_verified", e("transferred")) /\ EntryAt("m_lease", e("verified"))
      /\ ledger.state \in {"planned", "staging"} => EntryAt("x_source", ledger)
      /\ \A t \in {"r_verified", "m_lease", "x_source"} : t \in EntryPcs \ Looking /\ t \notin RollbackPcs
  BY <1>4 DEF EntryAt, EntryPcs, TransferPcs, CommitPcs, Looking, RollbackPcs
<1> HIDE DEF e
<1>6. /\ ledger.state = "staging" => LedgerUpdateAllowed(ledger.state, "transferred")
      /\ ledger.state \notin {"planned", "staging"} => LedgerUpdateAllowed(ledger.state, "verified")
  BY <1>2, Transitions DEF EntryAt, Begun
<1>7. {"transferred", "verified"} \subseteq Begun
  BY DEF Begun
<1>8. CASE agent' = StoreEntry(e("transferred"), "r_verified") /\ ledger.state = "staging"
  BY <1>1, <1>2, <1>4, <1>5, <1>6, <1>7, <1>8, QuietStore
<1>9. CASE agent' = StoreEntry(e("verified"), "m_lease") /\ ledger.state \notin {"planned", "staging"}
  BY <1>1, <1>2, <1>4, <1>5, <1>6, <1>7, <1>9, QuietStore
<1>10. QED
  BY <1>1, <1>2, <1>3, <1>5, <1>8, <1>9, QuietGo, QuietIdle

LEMMA ReconciledVerifiedStep == IInv /\ ReconciledVerified => IInv'
<1> SUFFICES ASSUME IInv, ReconciledVerified PROVE IInv'
  OBVIOUS
<1>1. agent.pc = "r_verified" /\ Quiet /\ agent.pc \in TransferPcs
  BY DEF ReconciledVerified, At, TransferPcs
<1>2. /\ agent.entry = ledger /\ ledger \in EntryType /\ ledger # NoEntry /\ agent.call = "apply"
      /\ agent.pc \in EntryPcs /\ EntryAt("r_verified", ledger) /\ Original
  BY <1>1, Transferring, Applying
<1> DEFINE e == Moved(ledger, "verified", "done")
<1>3. e \in EntryType /\ e.state = "verified" /\ agent' = StoreEntry(e, "m_lease")
  BY <1>2, MovedOK DEF LedgerStates, Checkpoints, ReconciledVerified
<1>4. EntryAt("m_lease", e) /\ "m_lease" \in EntryPcs \ Looking /\ "m_lease" \notin RollbackPcs
  BY <1>3 DEF EntryAt, EntryPcs, CommitPcs, Looking, RollbackPcs
<1> HIDE DEF e
<1>5. LedgerUpdateAllowed(ledger.state, "verified") /\ "verified" \in Begun
  BY <1>2, Transitions DEF EntryAt, Begun
<1>6. QED
  BY <1>1, <1>2, <1>3, <1>4, <1>5, QuietStore

LEMMA RecordSourceStep == IInv /\ RecordSource => IInv'
<1> SUFFICES ASSUME IInv, RecordSource PROVE IInv'
  OBVIOUS
<1>1. agent.pc = "x_source" /\ Quiet /\ agent.pc \in TransferPcs /\ agent.pc # "k_begin"
  BY DEF RecordSource, At, TransferPcs
<1>2. /\ agent.call = "apply" /\ agent.pc \in EntryPcs /\ Original
      /\ agent.entry.state \in {"planned", "staging"}
      /\ ledger # NoEntry => agent.entry = ledger
  <2>1. EntryAt("x_source", agent.entry) /\ agent.call = "apply" /\ agent.pc \in EntryPcs /\ Original
    BY <1>1, Transferring, Applying
  <2>2. ledger # NoEntry => agent.entry = ledger
    BY <1>1, <2>1, AtWork, Working
  <2>3. QED
    BY <2>1, <2>2 DEF EntryAt
<1> DEFINE e == [Moved(agent.entry, agent.entry.state, "staging_recreate_intent") EXCEPT !.source = source]
<1>3. agent' = Idle \/ agent' = StoreEntry(e, "x_drop")
  BY DEF RecordSource
<1>4. agent.entry \in SomeEntry /\ source \in Sources
  BY DEF IInv, AgentOK, AgentType, StoredInv
<1>5. e \in EntryType /\ e.state = agent.entry.state
  BY <1>2, <1>4 DEF EntryType, SomeEntry, Moved, LedgerStates, Checkpoints
<1> HIDE DEF e
<1>6. EntryAt("x_drop", e) /\ "x_drop" \in EntryPcs \ Looking /\ "x_drop" \notin RollbackPcs
  BY <1>2, <1>5 DEF EntryAt, EntryPcs, TransferPcs, Looking, RollbackPcs
<1>7. e.state \in Begun /\ (ledger # NoEntry => LedgerUpdateAllowed(ledger.state, e.state))
  BY <1>2, <1>5, Transitions DEF Begun
<1>8. QED
  BY <1>1, <1>2, <1>3, <1>5, <1>6, <1>7, QuietStore, QuietIdle

-----------------------------------------------------------------------------
(* Statements that change staging while the original serves the target.    *)

LEMMA FaultSpent == IInv /\ (UNCHANGED spent \/ Fault) => Spent' /\ writes' = writes
<1> SUFFICES ASSUME IInv, UNCHANGED spent \/ Fault PROVE Spent' /\ writes' = writes
  OBVIOUS
<1>1. CASE UNCHANGED spent
  BY <1>1 DEF IInv, Spent, spent
<1>2. CASE Fault
  BY <1>2, BoundsAssumption DEF IInv, Spent, Fault
<1>3. QED
  BY <1>1, <1>2

\* The Agent relies on nothing it has seen of staging.
Unseeing(a) ==
  /\ a.pc \notin Looking \cup {"see_staging"}
  /\ a.pc = "put_ledger" => ~Exchanging(a.entry)

LEMMA StagingChanges ==
  ASSUME IInv, Spent', writes' = writes, UNCHANGED <<source, stored, point, restored, lease>>,
         Original, ~Exchanging(ledger),
         NEW s \in {Absent} \cup [id : {"migrated"}, data : Contents],
         tables' = [tables EXCEPT !.staging = s],
         NEW a, a = agent', AgentOK(a), Unseeing(a)
  PROVE  IInv'
<1>1. /\ source' = source /\ ledger' = ledger /\ record' = record
      /\ point' = point /\ restored' = restored /\ lease' = lease
  BY DEF stored
<1>2. /\ tables'.target = tables.target /\ tables'.restore = tables.restore /\ tables'.staging = s
      /\ tables' \in [{"target", "staging", "restore"} -> [id : Objects, data : Contents] \cup {Absent}]
  BY DEF IInv, StoredInv, TablesOK, Objects
<1>3. Original' /\ OriginalTable' = OriginalTable
  BY <1>2 DEF Original, OriginalTable, Absent
<1>4. /\ \A d, c : Holds(d, c)' <=> Holds(d, c)
      /\ \A r : RecordOK(r)' <=> RecordOK(r)
      /\ \A p, e : EntryAt(p, e)' <=> EntryAt(p, e)
      /\ \A p, r : RecordAt(p, r)' <=> RecordAt(p, r)
  BY <1>1, <1>2 DEF Holds, RecordOK, EntryAt, RecordAt
<1>5. \A l : EntryOK(l) /\ ~Exchanging(l) => EntryOK(l)' /\ ~Exchanging(l)'
  BY <1>3 DEF EntryOK, Exchanging
<1>6. TablesOK' /\ PointOK'
  BY <1>1, <1>2, <1>3, <1>4 DEF IInv, StoredInv, TablesOK, PointOK
<1>7. StoredInv'
  BY <1>1, <1>3, <1>4, <1>5, <1>6 DEF IInv, StoredInv
<1>8. CallAt(agent)' /\ SeenAt(agent)' /\ (EntryStored(agent)' <=> EntryStored(a))
  BY <1>1 DEF AgentOK, CallAt, SeenAt, EntryStored, Unseeing, Looking
<1>9. PutAt(agent)'
  BY <1>1, <1>5 DEF AgentOK, PutAt, Unseeing
<1>10. AgentOK(agent)'
  BY <1>1, <1>4, <1>8, <1>9 DEF AgentOK
<1>11. QED
  BY <1>7, <1>10 DEF IInv

LEMMA StagingStatement ==
  ASSUME IInv, Original, ~Exchanging(ledger), NEW pc,
         NEW s \in {Absent} \cup [id : {"migrated"}, data : Contents],
         NEW a, AgentOK(a), Unseeing(a), NEW b, AgentOK(b), Unseeing(b),
         Statement(pc, [tables EXCEPT !.staging = s], a, b)
  PROVE  IInv'
<1>1. Spent' /\ writes' = writes
  BY FaultSpent DEF Statement
<1>2. /\ UNCHANGED <<source, stored, point, restored, lease>>
      /\ agent' \in {a, b} /\ tables' \in {tables, [tables EXCEPT !.staging = s]}
  BY DEF Statement
<1>3. AgentOK(agent') /\ Unseeing(agent')
  <2>1. CASE agent' = a
    BY <2>1
  <2>2. CASE agent' = b
    BY <2>2
  <2>3. QED
    BY <1>2, <2>1, <2>2
<1>4. CASE tables' = tables
  BY <1>1, <1>2, <1>3, <1>4, AgentMoves DEF data
<1>5. CASE tables' = [tables EXCEPT !.staging = s]
  BY <1>1, <1>2, <1>3, <1>5, StagingChanges
<1>6. QED
  BY <1>2, <1>4, <1>5

LEMMA PlainOK ==
  /\ Unseeing(Idle)
  /\ \A e, t : agent \in AgentType /\ WordOf(e) = "original" => Unseeing(StoreEntry(e, t))
  /\ \A t : agent \in AgentType /\ t \notin Looking \cup Waiting => Unseeing(Goto(t))
<1>1. Unseeing(Idle)
  BY DEF Unseeing, Idle, Looking
<1>2. \A e, t : agent \in AgentType /\ WordOf(e) = "original" => Unseeing(StoreEntry(e, t))
  BY AgentFields DEF Unseeing, Looking, Exchanging
<1>3. \A t : agent \in AgentType /\ t \notin Looking \cup Waiting => Unseeing(Goto(t))
  BY <1>1, AgentFields DEF Unseeing, Waiting, Goto
<1>4. QED
  BY <1>1, <1>2, <1>3

LEMMA NotExchanging == ASSUME NEW l, WordOf(l) = "original" PROVE ~Exchanging(l)
BY DEF Exchanging

LEMMA FailOK ==
  ASSUME IInv, agent.pc \in {"x_drop", "x_create", "x_transfer", "x_staging"}
  PROVE  AgentOK(FailAndRollback) /\ Unseeing(FailAndRollback)
<1>1. agent.pc \in TransferPcs /\ agent.pc \notin {"x_source", "k_begin"}
  BY DEF TransferPcs
<1>2. /\ agent.entry = ledger /\ ledger # NoEntry /\ ledger \in EntryType /\ Original
      /\ agent.call = "apply" /\ agent.pc \in EntryPcs /\ EntryAt(agent.pc, ledger)
      /\ agent \in AgentType
  BY <1>1, Transferring, Applying DEF IInv, AgentOK
<1> DEFINE e == [agent.entry EXCEPT !.state = "failed"]
<1>3. e \in EntryType /\ e.state = "failed"
  BY <1>2 DEF EntryType, LedgerStates
<1>4. FailAndRollback = StoreEntry(e, "k_begin")
  BY DEF FailAndRollback
<1> HIDE DEF e
<1>5. /\ EntryAt("k_begin", e) /\ "k_begin" \in EntryPcs \ Looking
      /\ "k_begin" \notin RollbackPcs \cup TransferPcs \cup CommitPcs
  BY <1>3 DEF EntryAt, EntryPcs, GiveUpPcs, TransferPcs, CommitPcs, Looking, RollbackPcs, Cleanable
<1>6. ledger.state = "planned" \/ LedgerUpdateAllowed(ledger.state, e.state)
  BY <1>2, <1>3, Transitions DEF EntryAt
<1>7. AgentOK(StoreEntry(e, "k_begin"))
  BY <1>2, <1>3, <1>5, <1>6, StoreOriginal
<1>8. Unseeing(StoreEntry(e, "k_begin"))
  BY <1>2, <1>3, Words, PlainOK
<1>9. QED
  BY <1>4, <1>7, <1>8

\* The next entry of an attempt that goes on.
LEMMA NextOK ==
  ASSUME IInv, agent.pc \in TransferPcs, agent.pc # "x_source",
         NEW s \in {"staging", "transferred", "verified"}, NEW c \in Checkpoints,
         ledger.state = "planned" \/ LedgerUpdateAllowed(ledger.state, s),
         NEW t \in {"idle", "x_intent", "x_transfer", "x_staging", "m_lease"},
         t \in {"x_intent", "x_transfer"} => s = "staging",
         t = "x_staging" => s = "transferred", t = "m_lease" => s = "verified"
  PROVE  /\ AgentOK(StoreEntry(Moved(agent.entry, s, c), t))
         /\ Unseeing(StoreEntry(Moved(agent.entry, s, c), t))
<1>1. /\ agent.entry = ledger /\ ledger # NoEntry /\ ledger \in EntryType /\ Original
      /\ agent.call = "apply" /\ agent.pc \in EntryPcs /\ agent \in AgentType
  <2>1. agent.pc # "k_begin"
    BY DEF TransferPcs
  <2>2. QED
    BY <2>1, Transferring, Applying DEF IInv, AgentOK
<1> DEFINE e == Moved(agent.entry, s, c)
<1>0. s \in LedgerStates
  BY DEF LedgerStates
<1>2. e \in EntryType /\ e.state = s
  BY <1>0, <1>1, MovedOK
<1> HIDE DEF e
<1>3. /\ EntryAt(t, e) /\ t \in (EntryPcs \ Looking) \cup {"idle", "restored"}
      /\ t \notin RollbackPcs \cup {"restored"}
  BY <1>2 DEF EntryAt, EntryPcs, TransferPcs, CommitPcs, Looking, RollbackPcs
<1>4. e.state \in Begun
  BY <1>2 DEF Begun
<1>5. AgentOK(StoreEntry(e, t))
  BY <1>1, <1>2, <1>3, <1>4, StoreOriginal
<1>6. WordOf(e) = "original"
  BY <1>2, Words
<1>7. Unseeing(StoreEntry(e, t))
  BY <1>1, <1>6, PlainOK
<1>8. QED
  BY <1>5, <1>7 DEF e

LEMMA DropStaleStep == IInv /\ DropStale => IInv'
<1> SUFFICES ASSUME IInv, DropStale PROVE IInv'
  OBVIOUS
<1>1. /\ agent.pc = "x_drop" /\ agent.pc \in TransferPcs /\ agent.pc \notin {"x_source", "k_begin"}
      /\ Statement("x_drop", [tables EXCEPT !.staging = Absent], Goto("x_create"), FailAndRollback)
  BY DEF DropStale, Statement, At, TransferPcs, Without
<1>2. /\ agent.entry = ledger /\ Original /\ agent.call = "apply" /\ agent.pc \in EntryPcs
      /\ EntryAt("x_drop", ledger) /\ agent \in AgentType /\ AgentOK(agent) /\ ~Exchanging(ledger)
  <2>1. /\ agent.entry = ledger /\ Original /\ agent.call = "apply" /\ agent.pc \in EntryPcs
        /\ EntryAt("x_drop", ledger) /\ agent \in AgentType /\ AgentOK(agent)
    BY <1>1, Transferring, Applying DEF IInv, AgentOK
  <2>2. WordOf(ledger) = "original"
    BY <2>1, Words DEF EntryAt
  <2>3. QED
    BY <2>1, <2>2, NotExchanging
<1>3. /\ EntryAt("x_create", ledger) /\ "x_create" \in EntryPcs \ Looking
      /\ "x_create" \notin RollbackPcs \cup Looking \cup Waiting
  BY <1>2 DEF EntryAt, EntryPcs, TransferPcs, Looking, RollbackPcs, Waiting
<1>4. AgentOK(Goto("x_create")) /\ Unseeing(Goto("x_create"))
  BY <1>2, <1>3, GoOn, PlainOK
<1>5. AgentOK(FailAndRollback) /\ Unseeing(FailAndRollback)
  BY <1>1, FailOK
<1>6. QED
  BY <1>1, <1>2, <1>4, <1>5, StagingStatement

LEMMA CreateStagingStep == IInv /\ CreateStaging => IInv'
<1> SUFFICES ASSUME IInv, CreateStaging PROVE IInv'
  OBVIOUS
<1> DEFINE next == StoreEntry(Moved(agent.entry, "staging", "staging_ready"), "x_intent")
           new == [id |-> "migrated", data |-> "empty"]
<1>1. /\ agent.pc = "x_create" /\ agent.pc \in TransferPcs /\ agent.pc \notin {"x_source", "k_begin"}
      /\ Statement("x_create", [tables EXCEPT !.staging = new], next, FailAndRollback)
      /\ new \in [id : {"migrated"}, data : Contents]
  BY DEF CreateStaging, Statement, At, TransferPcs, Created, Contents
<1>2. Original /\ EntryAt("x_create", ledger) /\ ~Exchanging(ledger)
  <2>1. Original /\ EntryAt("x_create", ledger)
    BY <1>1, Transferring, Applying
  <2>2. WordOf(ledger) = "original"
    BY <2>1, Words DEF EntryAt
  <2>3. QED
    BY <2>1, <2>2, NotExchanging
<1>3. ledger.state = "planned" \/ LedgerUpdateAllowed(ledger.state, "staging")
  BY <1>2, Transitions DEF EntryAt
<1>4. AgentOK(next) /\ Unseeing(next)
  BY <1>1, <1>3, NextOK DEF Checkpoints
<1>5. AgentOK(FailAndRollback) /\ Unseeing(FailAndRollback)
  BY <1>1, FailOK
<1> HIDE DEF next, new
<1>6. QED
  BY <1>1, <1>2, <1>4, <1>5, StagingStatement

LEMMA TransferIntentStep == IInv /\ TransferIntent => IInv'
<1> SUFFICES ASSUME IInv, TransferIntent PROVE IInv'
  OBVIOUS
<1>1. /\ agent.pc = "x_intent" /\ Quiet /\ agent.pc \in TransferPcs /\ agent.pc \notin {"x_source", "k_begin"}
      /\ agent' = StoreEntry(Moved(agent.entry, "staging", "native_transfer_intent"), "x_transfer")
  BY DEF TransferIntent, At, TransferPcs
<1>2. LedgerUpdateAllowed(ledger.state, "staging")
  BY <1>1, Transferring, Applying, Transitions DEF EntryAt
<1>3. AgentOK(StoreEntry(Moved(agent.entry, "staging", "native_transfer_intent"), "x_transfer"))
  BY <1>1, <1>2, NextOK DEF Checkpoints
<1>4. QED
  BY <1>1, <1>3, AgentMovesQuietly

LEMMA TransferStep == IInv /\ StagingMade /\ Transfer => IInv'
<1> SUFFICES ASSUME IInv, StagingMade, Transfer PROVE IInv'
  OBVIOUS
<1> DEFINE next == StoreEntry(Moved(agent.entry, "transferred", "done"), "x_staging")
           same == StoreEntry(agent.entry, "idle")
<1>1. /\ agent.pc = "x_transfer" /\ agent.pc \in TransferPcs /\ agent.pc \notin {"x_source", "k_begin"}
      /\ UNCHANGED spent \/ Fault
      /\ agent' \in {next, FailAndRollback, same}
      /\ UNCHANGED <<source, stored, point, restored, lease>>
  BY DEF Transfer, At, TransferPcs
<1>2. PICK d \in Contents : tables' = [tables EXCEPT !.staging.data = d]
  BY DEF Transfer, IInv, StoredInv, Sources, Contents
<1>3. /\ Original /\ ledger # NoEntry /\ ledger \in EntryType /\ ledger.state = "staging" /\ agent.call = "apply"
      /\ agent.pc \in EntryPcs /\ agent.entry = ledger /\ agent \in AgentType /\ AgentOK(agent)
  BY <1>1, Transferring, Applying DEF EntryAt, IInv, AgentOK
<1>4. WordOf(ledger) = "original" /\ ~Exchanging(ledger)
  BY <1>3, Words, NotExchanging
<1>5. AgentOK(next) /\ Unseeing(next)
  BY <1>1, <1>3, Transitions, NextOK DEF Checkpoints
<1>6. AgentOK(FailAndRollback) /\ Unseeing(FailAndRollback)
  BY <1>1, FailOK
<1>7. AgentOK(same) /\ Unseeing(same)
  <2>1. ledger.state \in Begun /\ LedgerUpdateAllowed(ledger.state, ledger.state)
    BY <1>3, Transitions DEF Begun
  <2>2. /\ EntryAt("idle", ledger) /\ "idle" \in (EntryPcs \ Looking) \cup {"idle", "restored"}
        /\ "idle" \notin RollbackPcs \cup {"restored"} \cup TransferPcs \cup CommitPcs
    BY DEF EntryAt, TransferPcs, CommitPcs, RollbackPcs
  <2>3. AgentOK(StoreEntry(ledger, "idle"))
    BY <1>3, <2>1, <2>2, StoreOriginal
  <2>4. QED
    BY <1>3, <1>4, <2>3, PlainOK
<1> HIDE DEF next, same
<1>8. AgentOK(agent') /\ Unseeing(agent')
  <2>1. CASE agent' = next
    BY <1>5, <2>1
  <2>2. CASE agent' = FailAndRollback
    BY <1>6, <2>2
  <2>3. CASE agent' = same
    BY <1>7, <2>3
  <2>4. QED
    BY <1>1, <2>1, <2>2, <2>3
<1>9. /\ tables.staging \in [id : {"migrated"}, data : Contents]
      /\ [tables.staging EXCEPT !.data = d] \in [id : {"migrated"}, data : Contents]
  <2>1. Exists("staging")
    BY <1>1, <1>3, Working DEF StagingMade
  <2>2. tables.staging \in [id : Objects, data : Contents] /\ tables.staging.id \in {"none", "migrated"}
    BY <1>3, <2>1 DEF Original, Exists, IInv, StoredInv, TablesOK
  <2>3. QED
    BY <2>2 DEF Objects
<1>10. tables' = [tables EXCEPT !.staging = [tables.staging EXCEPT !.data = d]]
  BY <1>2
<1>11. Spent' /\ writes' = writes
  BY <1>1, FaultSpent
<1>12. QED
  BY <1>1, <1>3, <1>4, <1>8, <1>9, <1>10, <1>11, StagingChanges

LEMMA VerifyStagingStep == IInv /\ VerifyStaging => IInv'
<1> SUFFICES ASSUME IInv, VerifyStaging PROVE IInv'
  OBVIOUS
<1> DEFINE next == StoreEntry(Moved(agent.entry, "verified", "done"), "m_lease")
<1>1. /\ agent.pc = "x_staging" /\ agent.pc \in TransferPcs /\ agent.pc \notin {"x_source", "k_begin"}
      /\ UNCHANGED spent \/ Fault
      /\ agent' \in {next, FailAndRollback}
      /\ UNCHANGED <<data, stored, point, restored, lease>>
  BY DEF VerifyStaging, At, TransferPcs
<1>2. LedgerUpdateAllowed(ledger.state, "verified")
  BY <1>1, Transferring, Applying, Transitions DEF EntryAt
<1>3. AgentOK(next)
  BY <1>1, <1>2, NextOK DEF Checkpoints
<1>4. AgentOK(FailAndRollback)
  BY <1>1, FailOK
<1>5. Spent' /\ writes' = writes
  BY <1>1, FaultSpent
<1> HIDE DEF next
<1>6. CASE agent' = next
  BY <1>1, <1>3, <1>5, <1>6, AgentMoves
<1>7. CASE agent' = FailAndRollback
  BY <1>1, <1>4, <1>5, <1>7, AgentMoves
<1>8. QED
  BY <1>1, <1>6, <1>7

-----------------------------------------------------------------------------
(* The cleanup of staging.                                                 *)

\* The next entry of an attempt, or a rollback, that gives staging up.
LEMMA GiveUpOK ==
  ASSUME IInv, agent.pc \in GiveUpPcs, agent.pc = "k_begin" => agent.entry.state \in Cleanable,
         NEW s \in {"rollback_pending", "rolled_back"}, NEW c \in Checkpoints,
         s = "rollback_pending" => c = "staging_drop_pending",
         ledger.state = "planned" \/ LedgerUpdateAllowed(ledger.state, s),
         NEW t \in {"idle", "k_exists", "restored"},
         t = "k_exists" => s = "rollback_pending",
         t = "restored" => s = "rolled_back" /\ agent.call = "rollback"
  PROVE  /\ AgentOK(StoreEntry(Moved(agent.entry, s, c), t))
         /\ Unseeing(StoreEntry(Moved(agent.entry, s, c), t))
<1>1. /\ agent.entry = ledger /\ ledger # NoEntry /\ ledger \in EntryType /\ Original
      /\ agent.pc \in EntryPcs /\ agent \in AgentType
  <2>1. agent.pc # "x_source" /\ agent.pc \in EntryPcs
    BY DEF GiveUpPcs, EntryPcs
  <2>2. QED
    BY <2>1, Transferring DEF IInv, AgentOK
<1> DEFINE e == Moved(agent.entry, s, c)
<1>0. s \in LedgerStates
  BY DEF LedgerStates
<1>2. e \in EntryType /\ e.state = s /\ e.checkpoint = c
  BY <1>0, <1>1, MovedOK
<1> HIDE DEF e
<1>3. /\ EntryAt(t, e) /\ t \in (EntryPcs \ Looking) \cup {"idle", "restored"}
      /\ t \notin RollbackPcs \cup TransferPcs \cup CommitPcs
  BY <1>2 DEF EntryAt, EntryPcs, GiveUpPcs, TransferPcs, CommitPcs, Looking, RollbackPcs, CleanupOwned
<1>4. e.state = "rolled_back" \/ CleanupOwned(e)
  BY <1>2 DEF CleanupOwned
<1>5. AgentOK(StoreEntry(e, t))
  BY <1>1, <1>2, <1>3, <1>4, StoreOriginal
<1>6. WordOf(e) = "original"
  BY <1>2, <1>4, Words
<1>7. Unseeing(StoreEntry(e, t))
  BY <1>1, <1>6, PlainOK
<1>8. QED
  BY <1>5, <1>7 DEF e

LEMMA CleanupIntentStep == IInv /\ CleanupIntent => IInv'
<1> SUFFICES ASSUME IInv, CleanupIntent PROVE IInv'
  OBVIOUS
<1> DEFINE next == StoreEntry(Moved(agent.entry, "rollback_pending", "staging_drop_pending"), "k_exists")
<1>1. agent.pc = "k_begin" /\ Quiet /\ agent.pc \in GiveUpPcs
  BY DEF CleanupIntent, At, GiveUpPcs
<1>2. CASE agent.entry.state \notin Cleanable
  BY <1>1, <1>2, QuietIdle DEF CleanupIntent
<1>3. CASE agent.entry.state \in Cleanable
  <2>1. ledger.state \in Cleanable
    BY <1>1, <1>3, Transferring
  <2>2. ledger.state = "planned" \/ LedgerUpdateAllowed(ledger.state, "rollback_pending")
    BY <2>1, Transitions DEF Cleanable, Begun
  <2>3. AgentOK(next)
    BY <1>1, <1>3, <2>2, GiveUpOK DEF Checkpoints
  <2>4. agent' = next
    BY <1>3 DEF CleanupIntent
  <2>5. QED
    BY <1>1, <2>3, <2>4, AgentMovesQuietly
<1>4. QED
  BY <1>2, <1>3

LEMMA CleanedUpOK ==
  ASSUME IInv, agent.pc \in {"k_exists", "k_check"}
  PROVE  AgentOK(CleanedUp)
<1>1. agent.pc \in GiveUpPcs /\ agent.pc # "k_begin" /\ agent.pc # "x_source" /\ agent.pc \in EntryPcs
  BY DEF GiveUpPcs, EntryPcs
<1>2. ledger.state = "rollback_pending"
  BY <1>1, Transferring, AtWork, Working DEF EntryAt, CleanupOwned
<1>3. LedgerUpdateAllowed(ledger.state, "rolled_back")
  BY <1>2, Transitions
<1>4. \A t \in {"idle", "restored"} : (t = "restored" => agent.call = "rollback")
        => AgentOK(StoreEntry(Moved(agent.entry, "rolled_back", "done"), t))
  BY <1>1, <1>3, GiveUpOK DEF Checkpoints
<1>5. QED
  BY <1>4 DEF CleanedUp

\* The step goes on to the next of the cleanup.
LEMMA CleaningOn ==
  ASSUME IInv, agent.pc \in {"k_exists", "k_drop"}, NEW t \in {"k_drop", "k_check"}
  PROVE  AgentOK(Goto(t)) /\ Unseeing(Goto(t)) /\ Original /\ ~Exchanging(ledger)
<1>1. agent.pc \in GiveUpPcs /\ agent.pc # "k_begin" /\ agent.pc # "x_source" /\ agent.pc \in EntryPcs
  BY DEF GiveUpPcs, EntryPcs
<1>2. /\ agent.entry = ledger /\ CleanupOwned(ledger) /\ Original /\ AgentOK(agent) /\ agent \in AgentType
      /\ agent.call \in {"apply", "rollback"}
  BY <1>1, Transferring, AtWork, Working DEF EntryAt, CleanupOwned
<1>3. /\ EntryAt(t, ledger) /\ t \in EntryPcs \ Looking
      /\ t \notin RollbackPcs \cup Looking \cup Waiting \cup TransferPcs \cup CommitPcs
  BY <1>2 DEF EntryAt, EntryPcs, GiveUpPcs, TransferPcs, CommitPcs, Looking, RollbackPcs, Waiting
<1>4. WordOf(ledger) = "original"
  BY <1>2, Words
<1>5. QED
  BY <1>2, <1>3, <1>4, GoOn, PlainOK, NotExchanging

LEMMA StagingCleanupStep == IInv /\ StagingCleanup => IInv'
<1> SUFFICES ASSUME IInv, StagingCleanup PROVE IInv'
  OBVIOUS
<1>1. CASE CleanupIntent
  BY <1>1, CleanupIntentStep
<1>2. CASE CleanupExists
  <2>1. agent.pc = "k_exists" /\ Quiet /\ agent' \in {Goto("k_drop"), CleanedUp}
    BY <1>2 DEF CleanupExists, At
  <2>2. AgentOK(Goto("k_drop")) /\ AgentOK(CleanedUp)
    BY <2>1, CleaningOn, CleanedUpOK
  <2>3. AgentOK(agent')
    <3>1. CASE agent' = Goto("k_drop")
      BY <2>2, <3>1
    <3>2. CASE agent' = CleanedUp
      BY <2>2, <3>2
    <3>3. QED
      BY <2>1, <3>1, <3>2
  <2>4. QED
    BY <2>1, <2>3, AgentMovesQuietly
<1>3. CASE DropStaging
  <2>1. /\ agent.pc = "k_drop"
        /\ Statement("k_drop", [tables EXCEPT !.staging = Absent], Goto("k_check"), Goto("k_check"))
    BY <1>3 DEF DropStaging, Statement, At, Without
  <2>2. AgentOK(Goto("k_check")) /\ Unseeing(Goto("k_check")) /\ Original /\ ~Exchanging(ledger)
    BY <2>1, CleaningOn
  <2>3. QED
    BY <2>1, <2>2, StagingStatement
<1>4. CASE CleanupCheck
  <2>1. agent.pc = "k_check" /\ Quiet /\ (agent' = Idle \/ agent' = CleanedUp)
    BY <1>4 DEF CleanupCheck, At
  <2>2. AgentOK(CleanedUp)
    BY <2>1, CleanedUpOK
  <2>3. CASE agent' = Idle
    BY <2>1, <2>3, QuietIdle
  <2>4. CASE agent' = CleanedUp
    BY <2>1, <2>2, <2>4, AgentMovesQuietly
  <2>5. QED
    BY <2>1, <2>3, <2>4
<1>5. QED
  BY <1>1, <1>2, <1>3, <1>4 DEF StagingCleanup

-----------------------------------------------------------------------------
(* The cutover and its undoing.                                            *)

LEMMA LoadVerifiedStep == IInv /\ LoadVerified => IInv'
<1> SUFFICES ASSUME IInv, LoadVerified PROVE IInv'
  OBVIOUS
<1>1. /\ agent.pc = "m_lease" /\ Quiet /\ agent.pc \in CommitPcs /\ agent.pc # "x_source"
      /\ agent' = CheckLease("m_source")
  BY DEF LoadVerified, At, CommitPcs
<1>2. agent.pc \in EntryPcs /\ agent.call = "apply" /\ EntryAt("m_lease", ledger) /\ agent.entry = ledger
  BY <1>1, Applying, AtWork, Working
<1>3. EntryAt("m_source", ledger) /\ "m_source" \in EntryPcs \ Looking /\ "m_source" \notin RollbackPcs
  BY <1>2 DEF EntryAt, EntryPcs, CommitPcs, Looking, RollbackPcs
<1>4. QED
  BY <1>1, <1>2, <1>3, QuietGo

LEMMA CompareSourceStep == IInv /\ CompareSource => IInv'
<1> SUFFICES ASSUME IInv, CompareSource PROVE IInv'
  OBVIOUS
<1>1. /\ agent.pc = "m_source" /\ Quiet /\ agent.pc \in CommitPcs /\ agent.pc # "x_source"
      /\ \/ agent' = Idle
         \/ agent' = Goto("m_guard")
         \/ /\ agent' = Observe("m_noop")
            /\ agent.entry.source = "empty" /\ point.baseline = "empty"
  BY DEF CompareSource, At, CommitPcs
<1>2. agent.pc \in EntryPcs /\ agent.call = "apply" /\ EntryAt("m_source", ledger) /\ agent.entry = ledger
  BY <1>1, Applying, AtWork, Working
<1>3. /\ EntryAt("m_guard", ledger) /\ "m_guard" \in EntryPcs \ Looking
      /\ ledger.source = "empty" /\ point.baseline = "empty" => EntryAt("m_noop", ledger)
      /\ "m_noop" \in Looking /\ {"m_guard", "m_noop"} \cap RollbackPcs = {}
  BY <1>2 DEF EntryAt, EntryPcs, CommitPcs, Looking, RollbackPcs
<1>4. QED
  BY <1>1, <1>2, <1>3, QuietGo, QuietLook, QuietIdle

LEMMA EmptySourceStep == IInv /\ EmptySource => IInv'
<1> SUFFICES ASSUME IInv, EmptySource PROVE IInv'
  OBVIOUS
<1>1. agent.pc = "m_noop" /\ agent.seen # "prepared"
  BY DEF EmptySource, At, IInv, AgentOK, SeenAt
<1>2. Quiet /\ agent' = Idle
  BY <1>1 DEF EmptySource
<1>3. QED
  BY <1>2, QuietIdle

LEMMA GuardStep ==
  ASSUME IInv, NEW pc, NEW t,
         \/ pc = "m_guard" /\ t = "m_intent"
         \/ pc = "b_guard" /\ t = "b_intent",
         Guard(pc, t)
  PROVE  IInv'
<1>1. /\ agent.pc = pc /\ Quiet /\ agent' \in {Observe(t), Idle} /\ agent.pc \in EntryPcs /\ agent.pc # "x_source"
  BY DEF Guard, At, EntryPcs, CommitPcs, RollbackPcs
<1>2. EntryAt(pc, ledger) /\ agent.entry = ledger
  BY <1>1, AtWork, Working
<1>3. /\ EntryAt(t, ledger) /\ t \in Looking
      /\ t \in CommitPcs => agent.call = "apply"
      /\ t \in RollbackPcs => agent.call = "rollback"
  BY <1>1, <1>2, AtWork, Working DEF EntryAt, CommitPcs, Looking, RollbackPcs
<1>4. QED
  BY <1>1, <1>2, <1>3, QuietLook, QuietIdle

LEMMA CommitIntentStep == IInv /\ CommitIntent => IInv'
<1> SUFFICES ASSUME IInv, CommitIntent PROVE IInv'
  OBVIOUS
<1> DEFINE e == Moved(agent.entry, "commit_unknown", "exchange_intent")
<1>1. /\ agent.pc = "m_intent" /\ Quiet /\ agent.pc \in CommitPcs /\ agent.pc # "x_source"
      /\ \/ agent' = Idle
         \/ agent.seen = "prepared" /\ agent' = StoreEntry(e, "m_exchange")
  BY DEF CommitIntent, At, CommitPcs
<1>2. /\ agent.pc \in EntryPcs /\ agent.call = "apply" /\ EntryAt("m_intent", ledger) /\ agent.entry = ledger
      /\ ledger # NoEntry /\ EntryOK(ledger) /\ AgentOK(agent) /\ ~restored
  BY <1>1, Applying, AtWork, Working
<1>3. CASE agent' = Idle
  BY <1>1, <1>3, QuietIdle
<1>4. CASE agent.seen = "prepared" /\ agent' = StoreEntry(e, "m_exchange")
  <2>1. ledger.state = "verified" /\ WordOf(ledger) = "original" /\ Original /\ ledger \in EntryType
    BY <1>2, Words DEF EntryAt, EntryOK
  <2>2. tables.staging.data = ledger.source /\ ledger.source # point.baseline
    BY <1>1, <1>2, <1>4 DEF AgentOK, SeenAt
  <2>3. /\ e \in EntryType /\ e.state = "commit_unknown" /\ e.checkpoint = "exchange_intent"
        /\ e.source = ledger.source
    BY <1>2, <2>1, MovedOK DEF LedgerStates, Checkpoints
  <2> HIDE DEF e
  <2>4. Owned(e) /\ WordOf(e) = "unsure"
    BY <2>3, OwnedEntries, Words
  <2>5. EntryOK(e)
    BY <2>1, <2>2, <2>3, <2>4 DEF EntryOK, Holds, MigratedTable, Original
  <2>6. WordStep(WordOf(ledger), WordOf(e))
    BY <2>1, <2>4 DEF WordStep
  <2>7. LedgerUpdateAllowed(ledger.state, e.state)
    BY <2>1, <2>3, Transitions
  <2>8. /\ EntryAt("m_exchange", e) /\ "m_exchange" \in (EntryPcs \ Looking) \cup {"idle", "restored"}
        /\ "m_exchange" \notin RollbackPcs \cup {"restored"}
    BY <2>3 DEF EntryAt, EntryPcs, CommitPcs, Looking, RollbackPcs
  <2>9. AgentOK(StoreEntry(e, "m_exchange"))
    BY <1>2, <2>5, <2>6, <2>7, <2>8, StoreEntryOK
  <2>10. QED
    BY <1>1, <1>4, <2>9, AgentMovesQuietly
<1>5. QED
  BY <1>1, <1>3, <1>4

Contested == {"m_settle", "b_reconciled", "b_intent", "b_settle", "b_observed"}

\* What was seen of the tables settles which one serves.
LEMMA Seen ==
  ASSUME IInv, agent.pc \in Contested
  PROVE  /\ agent.pc \in EntryPcs /\ agent.entry = ledger /\ EntryOK(ledger) /\ ledger \in EntryType
         /\ agent.pc = "m_settle" => agent.call = "apply"
         /\ agent.pc # "m_settle" => agent.call = "rollback"
         /\ AgentOK(agent) /\ ~restored /\ EntryAt(agent.pc, ledger)
         /\ agent.call \in {"apply", "rollback"}
         /\ Exchanging(ledger)
         /\ WordOf(ledger) = IF agent.pc = "b_intent" THEN "migrated" ELSE "unsure"
         /\ agent.seen = "committed" => Swapped
         /\ agent.seen = "prepared" => Original
<1>1. agent.pc \in EntryPcs /\ agent.pc # "x_source" /\ agent.pc \in Looking
  BY DEF EntryPcs, CommitPcs, RollbackPcs, Contested, Looking
<1>2. /\ agent.entry = ledger /\ EntryOK(ledger) /\ AgentOK(agent) /\ ~restored /\ EntryAt(agent.pc, ledger)
      /\ agent.call \in {"apply", "rollback"}
      /\ agent.pc = "m_settle" => agent.call = "apply"
      /\ agent.pc # "m_settle" => agent.call = "rollback"
  BY <1>1, AtWork, Working DEF Contested, CommitPcs, RollbackPcs
<1>3. WordOf(ledger) = IF agent.pc = "b_intent" THEN "migrated" ELSE "unsure"
  BY <1>2, Words DEF EntryAt, Contested
<1>4. Exchanging(ledger)
  BY <1>3 DEF Exchanging
<1>5. QED
  BY <1>1, <1>2, <1>3, <1>4 DEF AgentOK, SeenAt, EntryOK

LEMMA SettledOK ==
  ASSUME IInv, agent.pc \in Contested, NEW s \in LedgerStates, NEW c \in Checkpoints,
         s = "committed" => agent.seen = "committed",
         s \in {"verified", "rolled_back"} => agent.seen = "prepared",
         s \in {"committed", "verified", "rolled_back", "rollback_pending", "rollback_blocked",
                "rollback_failed"},
         s = "rollback_pending" => c \in {"rollback_exchange_intent", "rollback_observation_pending"},
         LedgerUpdateAllowed(ledger.state, s),
         agent.pc = "b_intent" => s \in {"rollback_pending", "rollback_blocked"},
         NEW t \in {"idle", "restored", "b_guard", "b_exchange"},
         t = "b_guard" => s = "committed", t = "b_exchange" => s = "rollback_pending",
         t = "restored" => s = "rolled_back", t # "idle" => agent.pc # "m_settle"
  PROVE  AgentOK(StoreEntry(Moved(agent.entry, s, c), t))
<1> DEFINE e == Moved(agent.entry, s, c)
<1>1. e \in EntryType /\ e.state = s /\ e.checkpoint = c /\ e.source = ledger.source
  BY Seen, MovedOK
<1> HIDE DEF e
<1>2. Owned(e) /\ (s = "rollback_pending" => ~CleanupOwned(e))
  BY <1>1, OwnedEntries DEF CleanupOwned
<1>3. /\ s \in {"verified", "rolled_back"} => WordOf(e) = "original"
      /\ s = "committed" => WordOf(e) = "migrated"
      /\ s = "rollback_pending" => WordOf(e) = "unsure"
      /\ s \in {"rollback_blocked", "rollback_failed"} => WordOf(e) = "manual"
  BY <1>1, <1>2, Words
<1>4. EntryOK(e)
  BY <1>1, <1>2, <1>3, Seen DEF EntryOK
<1>5. WordStep(WordOf(ledger), WordOf(e))
  BY <1>3, Seen DEF WordStep
<1>6. /\ EntryAt(t, e) /\ t \in (EntryPcs \ Looking) \cup {"idle", "restored"}
      /\ t \notin TransferPcs \cup CommitPcs
  BY <1>1, <1>2 DEF EntryAt, EntryPcs, CommitPcs, TransferPcs, Looking, RollbackPcs
<1>7. t \in RollbackPcs \cup {"restored"} => agent.call = "rollback"
  BY Seen DEF RollbackPcs
<1>8. AgentOK(StoreEntry(e, t))
  BY <1>1, <1>4, <1>5, <1>6, <1>7, Seen, StoreEntryOK
<1>9. QED
  BY <1>8 DEF e

LEMMA SettleCommitStep == IInv /\ SettleCommit => IInv'
<1> SUFFICES ASSUME IInv, SettleCommit PROVE IInv'
  OBVIOUS
<1> DEFINE next(s) == StoreEntry(Moved(agent.entry, s, "done"), "idle")
<1>1. agent.pc = "m_settle" /\ Quiet /\ agent.pc \in Contested
  BY DEF SettleCommit, At, Contested
<1>2. \/ agent.seen = "committed" /\ agent' = next("committed")
      \/ agent.seen = "prepared" /\ agent' = next("verified")
      \/ agent' = StoreEntry(agent.entry, "idle")
  BY DEF SettleCommit
<1>3. ledger.state = "commit_unknown" /\ {"committed", "verified"} \subseteq LedgerStates /\ "done" \in Checkpoints
  BY <1>1, Seen DEF EntryAt, LedgerStates, Checkpoints
<1>4. CASE agent.seen = "committed" /\ agent' = next("committed")
  <2>1. AgentOK(next("committed"))
    BY <1>1, <1>3, <1>4, Transitions, SettledOK
  <2>2. QED
    BY <1>1, <1>4, <2>1, AgentMovesQuietly
<1>5. CASE agent.seen = "prepared" /\ agent' = next("verified")
  <2>1. AgentOK(next("verified"))
    BY <1>1, <1>3, <1>5, Transitions, SettledOK
  <2>2. QED
    BY <1>1, <1>5, <2>1, AgentMovesQuietly
<1>6. CASE agent' = StoreEntry(agent.entry, "idle")
  <2>1. /\ EntryAt("idle", ledger) /\ "idle" \in (EntryPcs \ Looking) \cup {"idle", "restored"}
        /\ "idle" \notin TransferPcs \cup CommitPcs \cup RollbackPcs \cup {"restored"}
    BY DEF EntryAt, CommitPcs, TransferPcs, RollbackPcs
  <2>2. WordStep(WordOf(ledger), WordOf(ledger)) /\ LedgerUpdateAllowed(ledger.state, ledger.state)
    BY Transitions DEF WordStep
  <2>3. AgentOK(StoreEntry(ledger, "idle"))
    BY <1>1, <2>1, <2>2, Seen, StoreEntryOK
  <2>4. QED
    BY <1>1, <1>6, <2>3, Seen, AgentMovesQuietly
<1>7. QED
  BY <1>2, <1>4, <1>5, <1>6

LEMMA SettleReconciledStep == IInv /\ SettleReconciled => IInv'
<1> SUFFICES ASSUME IInv, SettleReconciled PROVE IInv'
  OBVIOUS
<1> DEFINE next(s, t) == StoreEntry(Moved(agent.entry, s, "done"), t)
<1>1. agent.pc = "b_reconciled" /\ Quiet /\ agent.pc \in Contested
  BY DEF SettleReconciled, At, Contested
<1>2. \/ agent.seen = "committed" /\ agent' = next("committed", "b_guard")
      \/ agent.seen = "prepared" /\ agent' = next("verified", "idle")
      \/ agent' = Idle
  BY DEF SettleReconciled
<1>3. ledger.state = "commit_unknown" /\ {"committed", "verified"} \subseteq LedgerStates /\ "done" \in Checkpoints
  BY <1>1, Seen DEF EntryAt, LedgerStates, Checkpoints
<1>4. CASE agent.seen = "committed" /\ agent' = next("committed", "b_guard")
  <2>1. AgentOK(next("committed", "b_guard"))
    BY <1>1, <1>3, <1>4, Transitions, SettledOK
  <2>2. QED
    BY <1>1, <1>4, <2>1, AgentMovesQuietly
<1>5. CASE agent.seen = "prepared" /\ agent' = next("verified", "idle")
  <2>1. AgentOK(next("verified", "idle"))
    BY <1>1, <1>3, <1>5, Transitions, SettledOK
  <2>2. QED
    BY <1>1, <1>5, <2>1, AgentMovesQuietly
<1>6. QED
  BY <1>1, <1>2, <1>4, <1>5, QuietIdle

LEMMA RollbackIntentStep == IInv /\ RollbackIntent => IInv'
<1> SUFFICES ASSUME IInv, RollbackIntent PROVE IInv'
  OBVIOUS
<1> DEFINE next(s, c, t) == StoreEntry(Moved(agent.entry, s, c), t)
<1>1. agent.pc = "b_intent" /\ Quiet /\ agent.pc \in Contested
  BY DEF RollbackIntent, At, Contested
<1>2. \/ agent' = next("rollback_pending", "rollback_exchange_intent", "b_exchange")
      \/ agent' = next("rollback_blocked", "done", "idle")
  BY DEF RollbackIntent
<1>3. /\ ledger.state = "committed" /\ {"rollback_pending", "rollback_blocked"} \subseteq LedgerStates
      /\ {"rollback_exchange_intent", "done"} \subseteq Checkpoints
  BY <1>1, Seen DEF EntryAt, LedgerStates, Checkpoints
<1>4. CASE agent' = next("rollback_pending", "rollback_exchange_intent", "b_exchange")
  <2>1. AgentOK(next("rollback_pending", "rollback_exchange_intent", "b_exchange"))
    BY <1>1, <1>3, Transitions, SettledOK
  <2>2. QED
    BY <1>1, <1>4, <2>1, AgentMovesQuietly
<1>5. CASE agent' = next("rollback_blocked", "done", "idle")
  <2>1. AgentOK(next("rollback_blocked", "done", "idle"))
    BY <1>1, <1>3, Transitions, SettledOK
  <2>2. QED
    BY <1>1, <1>5, <2>1, AgentMovesQuietly
<1>6. QED
  BY <1>2, <1>4, <1>5

LEMMA SettleRollbackStep == IInv /\ SettleRollback => IInv'
<1> SUFFICES ASSUME IInv, SettleRollback PROVE IInv'
  OBVIOUS
<1> DEFINE next(s, c, t) == StoreEntry(Moved(agent.entry, s, c), t)
<1>1. agent.pc \in {"b_settle", "b_observed"} /\ Quiet /\ agent.pc \in Contested
  BY DEF SettleRollback, At, Contested
<1>2. \/ agent.seen = "prepared" /\ agent' = next("rolled_back", "done", "restored")
      \/ agent.seen = "committed" /\ agent' = next("committed", "done", "idle")
      \/ agent' = next("rollback_pending", "rollback_observation_pending", "idle")
      \/ agent' = next("rollback_failed", "done", "idle")
  BY DEF SettleRollback
<1>3. /\ ledger.state = "rollback_pending"
      /\ {"rolled_back", "committed", "rollback_pending", "rollback_failed"} \subseteq LedgerStates
      /\ {"rollback_observation_pending", "done"} \subseteq Checkpoints
  BY <1>1, Seen DEF EntryAt, LedgerStates, Checkpoints
<1>4. CASE agent.seen = "prepared" /\ agent' = next("rolled_back", "done", "restored")
  <2>1. AgentOK(next("rolled_back", "done", "restored"))
    BY <1>1, <1>3, <1>4, Transitions, SettledOK
  <2>2. QED
    BY <1>1, <1>4, <2>1, AgentMovesQuietly
<1>5. CASE agent.seen = "committed" /\ agent' = next("committed", "done", "idle")
  <2>1. AgentOK(next("committed", "done", "idle"))
    BY <1>1, <1>3, <1>5, Transitions, SettledOK
  <2>2. QED
    BY <1>1, <1>5, <2>1, AgentMovesQuietly
<1>6. CASE agent' = next("rollback_pending", "rollback_observation_pending", "idle")
  <2>1. AgentOK(next("rollback_pending", "rollback_observation_pending", "idle"))
    BY <1>1, <1>3, Transitions, SettledOK
  <2>2. QED
    BY <1>1, <1>6, <2>1, AgentMovesQuietly
<1>7. CASE agent' = next("rollback_failed", "done", "idle")
  <2>1. AgentOK(next("rollback_failed", "done", "idle"))
    BY <1>1, <1>3, Transitions, SettledOK
  <2>2. QED
    BY <1>1, <1>7, <2>1, AgentMovesQuietly
<1>8. QED
  BY <1>2, <1>4, <1>5, <1>6, <1>7

\* The two names exchange what they refer to, while the ledger is unsure.
LEMMA ExchangeStep ==
  ASSUME IInv, NEW pc, NEW t,
         \/ pc = "m_exchange" /\ t = "m_settle"
         \/ pc = "b_exchange" /\ t = "b_settle",
         Exchange(pc, t)
  PROVE  IInv'
<1> DEFINE b == [Observe(t) EXCEPT !.failed = TRUE]
<1>1. /\ agent.pc = pc /\ Exists("staging") /\ agent' \in {Observe(t), b}
      /\ UNCHANGED <<source, stored, point, restored, lease>>
      /\ tables' \in {tables, Exchanged} /\ (UNCHANGED spent \/ Fault)
      /\ pc \in EntryPcs /\ pc # "x_source"
  BY DEF Exchange, Statement, At, EntryPcs, CommitPcs, RollbackPcs
<1>2. /\ AgentOK(agent) /\ agent \in AgentType /\ agent.entry = ledger /\ EntryOK(ledger) /\ EntryAt(pc, ledger)
      /\ agent.call \in {"apply", "rollback"}
      /\ t \in CommitPcs => agent.call = "apply"
      /\ t \in RollbackPcs => agent.call = "rollback"
  BY <1>1, AtWork, Working DEF CommitPcs, RollbackPcs
<1>3. EntryAt(t, ledger) /\ t \in Looking /\ t \in EntryPcs /\ t \notin TransferPcs /\ WordOf(ledger) = "unsure"
  BY <1>2, Words DEF EntryAt, EntryPcs, TransferPcs, CommitPcs, RollbackPcs, Looking
<1>4. AgentOK(Observe(t)) /\ AgentOK(b)
  BY <1>2, <1>3, GoOn
<1>5. Observe(t).pc = "see_target" /\ b.pc = "see_target"
  BY <1>2, AgentFields DEF Observe, AgentType
<1> HIDE DEF b
<1>6. AgentOK(agent') /\ agent'.pc = "see_target"
  <2>1. CASE agent' = Observe(t)
    BY <1>4, <1>5, <2>1
  <2>2. CASE agent' = b
    BY <1>4, <1>5, <2>2
  <2>3. QED
    BY <1>1, <2>1, <2>2
<1>7. Spent' /\ writes' = writes
  BY <1>1, FaultSpent
<1>8. CASE tables' = tables
  BY <1>1, <1>6, <1>7, <1>8, AgentMoves DEF data
<1>9. CASE tables' = Exchanged
  <2>1. /\ source' = source /\ ledger' = ledger /\ record' = record
        /\ point' = point /\ restored' = restored /\ lease' = lease
    BY <1>1 DEF stored
  <2>2. /\ tables'.target = tables.staging /\ tables'.restore = tables.restore
        /\ tables'.staging = tables.target
        /\ tables' \in [{"target", "staging", "restore"} -> [id : Objects, data : Contents] \cup {Absent}]
        /\ tables.staging.id # "none"
    BY <1>1, <1>9 DEF Exchanged, IInv, StoredInv, TablesOK, Objects, Exists, Absent
  <2>3. /\ Original => Swapped'
        /\ Swapped => Original'
        /\ OriginalTable' = OriginalTable /\ MigratedTable' = MigratedTable
    BY <2>2 DEF Original, Swapped, OriginalTable, MigratedTable, IInv, StoredInv, TablesOK
  <2>4. /\ \A d, c : Holds(d, c)' <=> Holds(d, c)
        /\ \A r : RecordOK(r)' <=> RecordOK(r)
        /\ \A p, e : EntryAt(p, e)' <=> EntryAt(p, e)
        /\ \A p, r : RecordAt(p, r)' <=> RecordAt(p, r)
    BY <1>7, <2>1, <2>2 DEF Holds, RecordOK, EntryAt, RecordAt
  <2>5. EntryOK(ledger)' /\ ledger # NoEntry
    BY <1>2, <1>3, <2>1, <2>3, <2>4, Words DEF EntryOK, Exchanging, NoEntry
  <2>6. TablesOK' /\ PointOK'
    BY <2>1, <2>2, <2>3, <2>4 DEF IInv, StoredInv, TablesOK, PointOK
  <2>7. StoredInv'
    BY <2>1, <2>2, <2>4, <2>5, <2>6 DEF IInv, StoredInv
  <2>8. CallAt(agent)' /\ SeenAt(agent)' /\ PutAt(agent)' /\ (EntryStored(agent)' <=> EntryStored(agent'))
    BY <1>6, <2>1 DEF AgentOK, CallAt, SeenAt, PutAt, EntryStored, Looking
  <2>9. AgentOK(agent)'
    BY <1>6, <2>1, <2>4, <2>8 DEF AgentOK
  <2>10. QED
    BY <1>7, <2>7, <2>9 DEF IInv
<1>10. QED
  BY <1>1, <1>8, <1>9

LEMMA ReconcileCommitStep == IInv /\ ReconcileCommit => IInv'
<1> SUFFICES ASSUME IInv, ReconcileCommit PROVE IInv'
  OBVIOUS
<1>1. PICK t \in {"b_reconciled", "b_observed"} :
        /\ Quiet /\ agent' = Observe(t)
        /\ agent.pc = IF t = "b_observed" THEN "b_again" ELSE "b_reconcile"
  BY DEF ReconcileCommit, At
<1>2. agent.pc \in EntryPcs /\ agent.pc # "x_source" /\ agent.pc \in RollbackPcs
  BY <1>1 DEF EntryPcs, RollbackPcs
<1>3. agent.entry = ledger /\ agent.call = "rollback" /\ EntryAt(agent.pc, ledger)
  BY <1>2, AtWork, Working
<1>4. EntryAt(t, ledger) /\ t \in Looking /\ t \notin CommitPcs
  BY <1>1, <1>3 DEF EntryAt, Looking, CommitPcs
<1>5. QED
  BY <1>1, <1>2, <1>3, <1>4, QuietLook

LEMMA RollbackFromLedgerStep == IInv /\ RollbackFromLedger => IInv'
<1> SUFFICES ASSUME IInv, RollbackFromLedger PROVE IInv'
  OBVIOUS
<1> DEFINE from(p) == [agent EXCEPT !.pc = p, !.entry = ledger]
           leased(p) == [CheckLease(p) EXCEPT !.entry = ledger]
<1>1. /\ AgentOK(agent) /\ agent \in AgentType /\ agent.pc = "get" /\ agent.call = "rollback" /\ Quiet
      /\ point # NoPoint
  BY DEF RollbackFromLedger, At, IInv, AgentOK, CallAt
<1>2. ledger \in SomeEntry /\ (ledger # NoEntry => Owned(ledger))
  BY DEF IInv, StoredInv, EntryOK, EntryType, SomeEntry, NoEntry
<1>3. \/ agent' = from("restored") /\ ledger.state \in {"none", "rolled_back"}
      \/ agent' = leased("b_guard") /\ ledger.state = "committed"
      \/ agent' = leased("b_reconcile") /\ ledger.state = "commit_unknown"
      \/ agent' = leased("b_again") /\ ledger.state = "rollback_pending" /\ ~CleanupOwned(ledger)
      \/ agent' = from("k_exists") /\ CleanupOwned(ledger)
      \/ agent' = from("k_begin") /\ ledger.state \in LedgerStates
            /\ ledger.state \notin {"committed", "commit_unknown", "rollback_pending", "rolled_back"}
  BY <1>2 DEF RollbackFromLedger, SomeEntry, CleanupOwned
<1>4. CASE agent' = from("restored") /\ ledger.state \in {"none", "rolled_back"}
  <2>1. /\ from("restored") \in AgentType /\ from("restored").pc = "restored"
        /\ from("restored").entry = ledger /\ from("restored").call = "rollback"
    BY <1>1, <1>2 DEF AgentType, Pc
  <2> HIDE DEF from
  <2>2. Where(from("restored")) = "restored" /\ EntryAt("restored", ledger)
    BY <1>4, <2>1 DEF Where, Waiting, EntryAt
  <2>3. CallAt(from("restored"))
    BY <1>1, <2>1, <2>2, PcSets DEF CallAt, CreatePcs, TransferPcs, CommitPcs, GiveUpPcs, CleanupPcs
  <2>4. /\ PutAt(from("restored")) /\ SeenAt(from("restored")) /\ EntryStored(from("restored"))
    BY <2>1 DEF PutAt, SeenAt, EntryStored, Looking
  <2>5. AgentOK(from("restored"))
    BY <2>1, <2>2, <2>3, <2>4, PcSets DEF AgentOK
  <2>6. QED
    BY <1>1, <1>4, <2>5, AgentMovesQuietly
<1>5. \A p \in {"k_exists", "k_begin"} : EntryAt(p, ledger) => AgentOK(from(p))
  BY <1>1, <1>2, Resume
<1>6. \A p \in {"b_guard", "b_reconcile", "b_again"} : EntryAt(p, ledger) => AgentOK(leased(p))
  <2> SUFFICES ASSUME NEW p \in {"b_guard", "b_reconcile", "b_again"}, EntryAt(p, ledger)
               PROVE  AgentOK(leased(p))
    OBVIOUS
  <2>1. p \in Pc \ Waiting /\ p \in EntryPcs /\ p \notin Looking /\ p \notin TransferPcs \cup CommitPcs
    BY DEF Pc, Waiting, EntryPcs, RollbackPcs, Looking, TransferPcs, CommitPcs
  <2>2. /\ leased(p) \in AgentType /\ leased(p).pc = "lease" /\ leased(p).then = p
        /\ leased(p).call = "rollback" /\ leased(p).entry = ledger
    <3>1. CheckLease(p) \in AgentType
      BY <1>1, <2>1, AgentParts
    <3>2. CheckLease(p).pc = "lease" /\ CheckLease(p).then = p /\ CheckLease(p).call = "rollback"
      BY <1>1, AgentFields
    <3>3. QED
      BY <1>2, <3>1, <3>2 DEF AgentType
  <2> HIDE DEF leased
  <2>3. EntryStored(leased(p)) /\ SeenAt(leased(p))
    BY <2>2 DEF EntryStored, SeenAt, Looking
  <2>4. QED
    BY <1>1, <2>1, <2>2, <2>3, WorkOn
<1> HIDE DEF from, leased
<1>7. CASE agent' = leased("b_guard") /\ ledger.state = "committed"
  <2>1. EntryAt("b_guard", ledger)
    BY <1>7 DEF EntryAt
  <2>2. QED
    BY <1>1, <1>6, <1>7, <2>1, AgentMovesQuietly
<1>8. CASE agent' = leased("b_reconcile") /\ ledger.state = "commit_unknown"
  <2>1. EntryAt("b_reconcile", ledger)
    BY <1>8 DEF EntryAt
  <2>2. QED
    BY <1>1, <1>6, <1>8, <2>1, AgentMovesQuietly
<1>9. CASE agent' = leased("b_again") /\ ledger.state = "rollback_pending" /\ ~CleanupOwned(ledger)
  <2>1. EntryAt("b_again", ledger)
    BY <1>9 DEF EntryAt
  <2>2. QED
    BY <1>1, <1>6, <1>9, <2>1, AgentMovesQuietly
<1>10. CASE agent' = from("k_exists") /\ CleanupOwned(ledger)
  <2>1. EntryAt("k_exists", ledger)
    BY <1>10 DEF EntryAt
  <2>2. QED
    BY <1>1, <1>5, <1>10, <2>1, AgentMovesQuietly
<1>11. CASE /\ agent' = from("k_begin") /\ ledger.state \in LedgerStates
            /\ ledger.state \notin {"committed", "commit_unknown", "rollback_pending", "rolled_back"}
  <2>1. EntryAt("k_begin", ledger)
    BY <1>11 DEF EntryAt, LedgerStates, Cleanable, Begun
  <2>2. QED
    BY <1>1, <1>5, <1>11, <2>1, AgentMovesQuietly
<1>12. QED
  BY <1>3, <1>4, <1>7, <1>8, <1>9, <1>10, <1>11

-----------------------------------------------------------------------------
(* Looks, lease checks and failed reads.                                   *)

LEMMA ValidateLeaseStep == IInv /\ ValidateLease => IInv'
<1> SUFFICES ASSUME IInv, ValidateLease PROVE IInv'
  OBVIOUS
<1>1. /\ agent.pc = "lease" /\ Quiet /\ agent' \in {Goto(agent.then), Idle}
      /\ AgentOK(agent) /\ agent \in AgentType
      /\ agent.then \in (EntryPcs \ Looking) \cup {"get"}
  BY DEF ValidateLease, At, IInv, AgentOK, CallAt
<1>2. Where(agent) = agent.then /\ agent.pc \notin {"put_ledger", "put_record", "x_source"}
  BY <1>1 DEF Where, Waiting
<1>3. CASE agent' = Idle
  BY <1>1, <1>3, QuietIdle
<1>4. CASE agent' = Goto(agent.then) /\ agent.then \in EntryPcs \ Looking
  <2>1. AgentOK(Goto(agent.then))
    BY <1>1, <1>2, <1>4, AtWork, GoOn
  <2>2. QED
    BY <1>1, <1>4, <2>1, AgentMovesQuietly
<1>5. CASE agent' = Goto(agent.then) /\ agent.then = "get"
  <2>1. Goto("get") \in AgentType /\ Goto("get").pc = "get" /\ Goto("get").call = agent.call
    BY <1>1, AgentParts, AgentFields DEF Goto, Pc
  <2>2. Where(Goto("get")) = "get"
    BY <2>1 DEF Where, Waiting
  <2>3. CallAt(Goto("get"))
    BY <1>1, <2>1, <2>2, PcSets
       DEF AgentOK, CallAt, CreatePcs, TransferPcs, CommitPcs, GiveUpPcs, RollbackPcs, CleanupPcs
  <2>4. PutAt(Goto("get")) /\ SeenAt(Goto("get"))
    BY <2>1 DEF PutAt, SeenAt, Looking
  <2>5. AgentOK(Goto("get"))
    BY <2>1, <2>2, <2>3, <2>4, PcSets DEF AgentOK, CreatePcs, CleanupPcs
  <2>6. QED
    BY <1>1, <1>5, <2>5, AgentMovesQuietly
<1>6. QED
  BY <1>1, <1>3, <1>4, <1>5

\* What a look is of: an entry in store, whose source the tables were told apart by.
LEMMA LookingAt ==
  ASSUME IInv, agent.pc \in {"see_target", "see_staging"}
  PROVE  /\ AgentOK(agent) /\ agent \in AgentType /\ agent.then \in Looking /\ agent.then \in EntryPcs
         /\ agent.entry = ledger /\ EntryOK(ledger) /\ point # NoPoint /\ EntryAt(agent.then, ledger)
         /\ agent.call \in {"apply", "rollback"}
         /\ agent.then \in TransferPcs \cup CommitPcs => agent.call = "apply"
         /\ agent.then \in RollbackPcs => agent.call = "rollback"
<1>1. AgentOK(agent) /\ agent \in AgentType /\ agent.then \in Looking /\ agent.then \in EntryPcs
  BY PcSets DEF IInv, AgentOK, CallAt
<1>2. Where(agent) = agent.then /\ agent.pc \notin {"put_ledger", "put_record", "x_source"}
  BY DEF Where, Waiting
<1>3. QED
  BY <1>1, <1>2, AtWork

\* The Agent has looked, and saw this.
LEMMA LookedOK ==
  ASSUME IInv, agent.pc \in {"see_target", "see_staging"},
         NEW v \in {"committed", "prepared", "unknown", "failed"},
         Exchanging(ledger) => /\ v = "committed" => Swapped
                               /\ v = "prepared" => Original,
         agent.then = "m_intent" /\ v = "prepared" =>
           tables.staging.data = ledger.source /\ ledger.source # point.baseline,
         agent.then = "m_noop" => v # "prepared"
  PROVE  AgentOK([agent EXCEPT !.pc = agent.then, !.seen = v])
<1> DEFINE b == [agent EXCEPT !.pc = agent.then, !.seen = v]
<1>1. /\ b \in AgentType /\ b.pc = agent.then /\ b.call = agent.call /\ b.entry = ledger /\ b.seen = v
  BY LookingAt DEF AgentType
<1> HIDE DEF b
<1>2. EntryStored(b) /\ SeenAt(b)
  BY <1>1, LookingAt DEF EntryStored, SeenAt, Looking
<1>3. AgentOK(b)
  BY <1>1, <1>2, LookingAt, WorkOn
<1>4. QED
  BY <1>3 DEF b

LEMMA UnseenOK ==
  ASSUME IInv, agent.pc \in {"see_target", "see_staging"}
  PROVE  AgentOK(Unseen)
<1>1. CASE agent.then \in {"m_settle", "b_settle"}
  BY <1>1, LookedOK DEF Unseen
<1>2. CASE agent.then \notin {"m_settle", "b_settle"}
  BY <1>2, IdleOK DEF Unseen, IInv
<1>3. QED
  BY <1>1, <1>2

LEMMA ReadFailsStep == IInv /\ ReadFails => IInv'
<1> SUFFICES ASSUME IInv, ReadFails PROVE IInv'
  OBVIOUS
<1>1. Spent' /\ writes' = writes
  BY FaultSpent DEF ReadFails
<1>2. /\ UNCHANGED <<data, stored, point, restored, lease>>
      /\ agent' = Idle \/ (agent.pc \in {"see_target", "see_staging"} /\ agent' = Unseen)
  BY DEF ReadFails
<1>3. AgentOK(agent')
  BY <1>2, IdleOK, UnseenOK DEF IInv
<1>4. QED
  BY <1>1, <1>2, <1>3, AgentMoves

LEMMA SeeTargetStep == IInv /\ SeeTarget => IInv'
<1> SUFFICES ASSUME IInv, SeeTarget PROVE IInv'
  OBVIOUS
<1> DEFINE b == [agent EXCEPT !.pc = "see_staging", !.first = tables.target.data]
<1>1. agent.pc = "see_target" /\ Quiet /\ agent' = b
  BY DEF SeeTarget, At
<1>2. tables.target.data \in Contents
  BY DEF IInv, StoredInv, TablesOK, Original, Swapped, Absent, Contents
<1>3. /\ b \in AgentType /\ b.pc = "see_staging" /\ b.then = agent.then /\ b.call = agent.call
      /\ b.entry = ledger /\ b.first = tables.target.data
  BY <1>1, <1>2, LookingAt DEF AgentType, Pc, Waiting
<1> HIDE DEF b
<1>4. Original => tables.target.data \in {point.baseline, "foreign"}
  BY <1>1, LookingAt DEF IInv, StoredInv, PointOK, Holds, Original, OriginalTable
<1>5. EntryStored(b) /\ SeenAt(b)
  BY <1>3, <1>4 DEF EntryStored, SeenAt, Looking
<1>6. AgentOK(b)
  BY <1>1, <1>3, <1>5, LookingAt, WorkOn
<1>7. QED
  BY <1>1, <1>6, AgentMovesQuietly

LEMMA SeeStagingStep == IInv /\ SeeStaging => IInv'
<1> SUFFICES ASSUME IInv, SeeStaging PROVE IInv'
  OBVIOUS
<1> DEFINE v == Reading(agent.first, tables.staging.data)
<1>1. /\ agent.pc = "see_staging" /\ Quiet
      /\ agent' = Unseen \/ agent' = [agent EXCEPT !.pc = agent.then, !.seen = v]
  BY DEF SeeStaging, At
<1>2. /\ agent.entry = ledger /\ ledger.source \in Sources /\ EntryAt(agent.then, ledger)
      /\ EntryOK(ledger) /\ point # NoPoint
      /\ Original => agent.first \in {point.baseline, "foreign"}
  BY <1>1, LookingAt DEF EntryOK, EntryType, AgentOK, SeenAt
<1>3. v \in {"committed", "prepared", "unknown"}
  BY DEF Reading
<1>4. /\ v = "committed" => agent.first = ledger.source /\ tables.staging.data = point.baseline
      /\ v = "prepared" => /\ agent.first = point.baseline /\ tables.staging.data = ledger.source
                           /\ ledger.source # point.baseline
  BY <1>2 DEF Reading
<1> HIDE DEF v
<1>5. ASSUME Exchanging(ledger)
      PROVE  (v = "committed" => Swapped) /\ (v = "prepared" => Original)
  <2>1. ledger.source # point.baseline /\ ledger.source # "foreign"
    BY <1>2, <1>5 DEF EntryOK, Sources
  <2>2. v = "committed" => ~Original
    BY <1>2, <1>4, <2>1
  <2>3. Swapped => tables.staging.data \in {point.baseline, "foreign"}
    BY <1>2 DEF IInv, StoredInv, PointOK, Holds, Swapped, OriginalTable
  <2>4. v = "prepared" => ~Swapped
    BY <1>4, <2>1, <2>3
  <2>5. QED
    BY <2>2, <2>4 DEF IInv, StoredInv, TablesOK
<1>6. agent.then = "m_noop" => v # "prepared"
  BY <1>2, <1>4 DEF EntryAt
<1>7. AgentOK([agent EXCEPT !.pc = agent.then, !.seen = v])
  BY <1>1, <1>3, <1>4, <1>5, <1>6, LookedOK
<1>8. AgentOK(Unseen)
  BY <1>1, UnseenOK
<1>9. QED
  BY <1>1, <1>7, <1>8, AgentMovesQuietly

-----------------------------------------------------------------------------
(* The restore point, and the removal of what the run owns.                *)

\* The call goes on with the record it has.
LEMMA RecordOn ==
  ASSUME IInv, NEW a, a \in AgentType, a.call = agent.call, a.rec = record, record # NoRecord,
         a.pc \in (CreatePcs \cup CleanupPcs) \ {"c_target", "c_record"},
         a.pc \in CreatePcs => agent.call = "create",
         a.pc \in CleanupPcs => agent.call = "cleanup",
         RecordAt(a.pc, record)
  PROVE  AgentOK(a) /\ Unseeing(a)
<1>1. Where(a) = a.pc /\ a.pc \notin Waiting \cup EntryPcs \cup {"restored", "v_check"} /\ a.pc \notin Looking
  BY PcSets DEF Where, CreatePcs, CleanupPcs
<1>2. CallAt(a)
  BY <1>1 DEF IInv, AgentOK, CallAt, EntryPcs, Waiting
<1>3. PutAt(a) /\ SeenAt(a) /\ Unseeing(a)
  BY <1>1 DEF PutAt, SeenAt, Looking, Waiting, Unseeing
<1>4. QED
  BY <1>1, <1>2, <1>3 DEF AgentOK, Waiting

LEMMA FingerprintTargetStep == IInv /\ FingerprintTarget => IInv'
<1> SUFFICES ASSUME IInv, FingerprintTarget PROVE IInv'
  OBVIOUS
<1> DEFINE b == [agent EXCEPT !.pc = "c_record", !.first = tables.target.data]
<1>1. /\ agent.pc = "c_target" /\ Quiet /\ agent' = b /\ agent \in AgentType /\ Where(agent) = "c_target"
  BY DEF FingerprintTarget, At, IInv, AgentOK, Where, Waiting
<1>2. agent.call = "create" /\ point = NoPoint
  BY <1>1 DEF IInv, AgentOK, CallAt, CreatePcs
<1>3. tables.target.data \in Baselines
  BY <1>2 DEF IInv, StoredInv, PointOK, TablesOK, Original, OriginalTable
<1>4. /\ b \in AgentType /\ b.pc = "c_record" /\ b.first = tables.target.data /\ b.call = "create"
  <2>1. "c_record" \in Pc /\ tables.target.data \in Contents \cup {"none"}
    BY <1>3 DEF Pc, CreatePcs, Baselines, Contents
  <2>2. QED
    BY <1>1, <1>2, <2>1 DEF AgentType
<1> HIDE DEF b
<1>5. Where(b) = "c_record"
  BY <1>4 DEF Where, Waiting
<1>6. CallAt(b)
  BY <1>2, <1>4, <1>5 DEF CallAt, TransferPcs, CommitPcs, GiveUpPcs, RollbackPcs, CleanupPcs
<1>7. PutAt(b) /\ SeenAt(b)
  BY <1>4 DEF PutAt, SeenAt, Looking
<1>8. AgentOK(b)
  BY <1>3, <1>4, <1>5, <1>6, <1>7, PcSets DEF AgentOK, CreatePcs
<1>9. QED
  BY <1>1, <1>8, AgentMovesQuietly

\* What is so of a step that works on the record.
LEMMA AtRecord ==
  ASSUME IInv, agent.pc \in (CreatePcs \cup CleanupPcs) \ {"c_target", "c_record"}
  PROVE  /\ agent \in AgentType /\ AgentOK(agent) /\ agent.rec = record /\ record # NoRecord
         /\ RecordAt(agent.pc, record) /\ RecordOK(record) /\ record \in RecordType
         /\ agent.pc \in CreatePcs => agent.call = "create" /\ point = NoPoint
         /\ agent.pc \in CleanupPcs => agent.call = "cleanup" /\ restored /\ point # NoPoint
<1>1. Where(agent) = agent.pc /\ agent.pc # "put_record"
  BY PcSets DEF Where, Waiting
<1>2. QED
  BY <1>1 DEF IInv, AgentOK, CallAt, StoredInv, RecordOK, PointOK

LEMMA EnsureRecordStep == IInv /\ EnsureRecord => IInv'
<1> SUFFICES ASSUME IInv, EnsureRecord PROVE IInv'
  OBVIOUS
<1> DEFINE new == [state |-> "intent", baseline |-> agent.first, object |-> "none"]
           b == [agent EXCEPT !.pc = "c_state", !.rec = record]
<1>1. /\ agent.pc = "c_record" /\ Quiet /\ agent \in AgentType /\ Where(agent) = "c_record" /\ AgentOK(agent)
      /\ \/ agent' = Idle
         \/ agent' = StoreRecord(new, "c_state") /\ record = NoRecord
         \/ agent' = b /\ record # NoRecord /\ record.state \in {"intent", "creating", "ready"}
  BY DEF EnsureRecord, At, IInv, AgentOK, Where, Waiting
<1>2. agent.call = "create" /\ agent.first \in Baselines
  BY <1>1 DEF AgentOK, CallAt, CreatePcs
<1>3. CASE agent' = Idle
  BY <1>1, <1>3, QuietIdle
<1>4. CASE agent' = StoreRecord(new, "c_state") /\ record = NoRecord
  <2>1. new \in RecordType
    BY <1>2 DEF RecordType, RestoreStates
  <2>2. RecordOK(new)
    BY <1>4, <2>1 DEF RecordOK, IInv, StoredInv
  <2>3. RecordAt("c_state", new) /\ "c_state" \in CreatePcs /\ "c_state" \notin CleanupPcs
    BY DEF RecordAt, CreatePcs, CleanupPcs
  <2>4. AgentOK(StoreRecord(new, "c_state"))
    BY <1>1, <1>2, <2>2, <2>3, StoreRecordOK
  <2>5. QED
    BY <1>1, <1>4, <2>4, AgentMovesQuietly
<1>5. CASE agent' = b /\ record # NoRecord /\ record.state \in {"intent", "creating", "ready"}
  <2>1. record \in RecordType
    BY <1>5 DEF IInv, StoredInv, RecordOK
  <2>2. b \in AgentType /\ b.pc = "c_state" /\ b.rec = record /\ b.call = "create"
    BY <1>1, <1>2, <2>1 DEF AgentType, Pc, CreatePcs
  <2> HIDE DEF b
  <2>3. RecordAt("c_state", record) /\ "c_state" \in CreatePcs /\ "c_state" \notin CleanupPcs
    BY <1>5 DEF RecordAt, CreatePcs, CleanupPcs
  <2>4. AgentOK(b)
    BY <1>2, <1>5, <2>2, <2>3, RecordOn
  <2>5. QED
    BY <1>1, <1>5, <2>4, AgentMovesQuietly
<1>6. QED
  BY <1>1, <1>3, <1>4, <1>5

\* Going on from a step that works on the record.
LEMMA RecordGoes ==
  ASSUME IInv, agent.pc \in (CreatePcs \cup CleanupPcs) \ {"c_target", "c_record"},
         NEW t \in (CreatePcs \cup CleanupPcs) \ {"c_target", "c_record"},
         t \in CreatePcs <=> agent.pc \in CreatePcs, RecordAt(t, record)
  PROVE  AgentOK(Goto(t)) /\ Unseeing(Goto(t))
<1>1. t \in Pc /\ t # "idle" /\ CreatePcs \cap CleanupPcs = {}
  BY PcSets DEF CreatePcs, CleanupPcs, Pc
<1>2. /\ Goto(t) \in AgentType /\ Goto(t).pc = t /\ Goto(t).rec = record /\ Goto(t).call = agent.call
      /\ record # NoRecord
      /\ t \in CreatePcs => agent.call = "create"
      /\ t \in CleanupPcs => agent.call = "cleanup"
  BY <1>1, AtRecord, AgentParts, AgentFields DEF Goto
<1>3. QED
  BY <1>2, RecordOn

LEMMA RecordStores ==
  ASSUME IInv, agent.pc \in (CreatePcs \cup CleanupPcs) \ {"c_target", "c_record"},
         NEW t \in (CreatePcs \cup {"idle"}) \ {"c_record"}, t \in CreatePcs => agent.pc \in CreatePcs,
         NEW r, RecordOK(r), t # "idle" => RecordAt(t, r)
  PROVE  AgentOK(StoreRecord(r, t))
<1>1. CreatePcs \cap CleanupPcs = {} /\ "idle" \notin CleanupPcs
  BY DEF CreatePcs, CleanupPcs
<1>2. QED
  BY <1>1, AtRecord, StoreRecordOK

\* Another state of the record, which asks nothing of the copy.
LEMMA Restated ==
  ASSUME IInv, record # NoRecord, NEW s \in RestoreStates \ {"ready", "cleaned"}
  PROVE  RecordOK([record EXCEPT !.state = s])
BY DEF IInv, StoredInv, RecordOK, RecordType

LEMMA InspectRestoreStep == IInv /\ InspectRestore => IInv'
<1> SUFFICES ASSUME IInv, InspectRestore PROVE IInv'
  OBVIOUS
<1> DEFINE as(s) == [record EXCEPT !.state = s]
<1>1. agent.pc = "c_state" /\ Quiet /\ agent.pc \in CreatePcs \ {"c_target", "c_record"}
  BY DEF InspectRestore, At, CreatePcs
<1>2. agent.rec = record /\ record # NoRecord /\ RecordOK(record) /\ record \in RecordType
  BY <1>1, AtRecord
<1>3. \/ agent' = Idle
      \/ agent' = StoreRecord(as("ready"), "c_verify") /\ record.baseline = "empty"
      \/ agent' = Goto("c_verify")
      \/ agent' = StoreRecord(as("manual_review"), "idle")
      \/ agent' = StoreRecord(as("creating"), "c_create") /\ record.baseline # "empty"
      \/ /\ agent' = Goto("c_create") \/ agent' = Goto("c_prove")
         /\ record.state = "creating" /\ record.baseline # "empty"
  <2>1. CASE record.baseline = "empty"
    BY <1>2, <2>1 DEF InspectRestore
  <2>2. CASE record.baseline # "empty" /\ record.state = "ready"
    BY <1>2, <2>2 DEF InspectRestore
  <2>3. CASE record.baseline # "empty" /\ record.state = "intent"
    BY <1>2, <2>3 DEF InspectRestore
  <2>4. CASE record.baseline # "empty" /\ record.state = "creating"
    BY <1>2, <2>4 DEF InspectRestore
  <2>5. QED
    BY <1>1, <2>1, <2>2, <2>3, <2>4, AtRecord DEF RecordAt
<1>4. CASE agent' = Idle
  BY <1>1, <1>4, QuietIdle
<1>5. CASE agent' = StoreRecord(as("ready"), "c_verify") /\ record.baseline = "empty"
  <2>1. RecordOK(as("ready"))
    BY <1>2, <1>5 DEF RecordOK, RecordType, RestoreStates
  <2>2. RecordAt("c_verify", as("ready")) /\ "c_verify" \in CreatePcs
    BY DEF RecordAt, CreatePcs, CleanupPcs
  <2>3. AgentOK(StoreRecord(as("ready"), "c_verify"))
    BY <1>1, <2>1, <2>2, RecordStores
  <2>4. QED
    BY <1>1, <1>5, <2>3, AgentMovesQuietly
<1>6. CASE agent' = StoreRecord(as("manual_review"), "idle")
  <2>1. RecordOK(as("manual_review")) /\ "idle" \notin CreatePcs
    BY <1>2, Restated DEF RestoreStates, CreatePcs
  <2>2. AgentOK(StoreRecord(as("manual_review"), "idle"))
    BY <1>1, <2>1, RecordStores
  <2>3. QED
    BY <1>1, <1>6, <2>2, AgentMovesQuietly
<1>7. CASE agent' = StoreRecord(as("creating"), "c_create") /\ record.baseline # "empty"
  <2>1. RecordOK(as("creating"))
    BY <1>2, Restated DEF RestoreStates
  <2>2. RecordAt("c_create", as("creating")) /\ "c_create" \in CreatePcs
    BY <1>2, <1>7 DEF RecordAt, CreatePcs, CleanupPcs, RecordType
  <2>3. AgentOK(StoreRecord(as("creating"), "c_create"))
    BY <1>1, <2>1, <2>2, RecordStores
  <2>4. QED
    BY <1>1, <1>7, <2>3, AgentMovesQuietly
<1>8. ASSUME NEW t \in {"c_verify", "c_create", "c_prove"}, agent' = Goto(t),
             t # "c_verify" => record.state = "creating" /\ record.baseline # "empty"
      PROVE  IInv'
  <2>1. RecordAt(t, record) /\ t \in CreatePcs \ {"c_target", "c_record"}
    BY <1>8 DEF RecordAt, CreatePcs, CleanupPcs
  <2>2. AgentOK(Goto(t))
    BY <1>1, <2>1, RecordGoes
  <2>3. QED
    BY <1>1, <1>8, <2>2, AgentMovesQuietly
<1>9. QED
  BY <1>3, <1>4, <1>5, <1>6, <1>7, <1>8

\* The copy appears, is filled or goes, while the record is on its way to say so.
LEMMA RestoreChanges ==
  ASSUME IInv, Spent', writes' = writes, UNCHANGED <<source, stored, point, restored, lease>>,
         agent.pc \in {"c_create", "c_copy", "d_restore"},
         NEW s \in {Absent} \cup [id : {"copy"}, data : Contents],
         record.baseline # "empty", agent.pc # "d_restore" => s.id = "copy",
         tables' = [tables EXCEPT !.restore = s],
         \/ agent' = Idle
         \/ agent.pc # "d_restore" /\ agent' = Goto(IF agent.pc = "c_create" THEN "c_copy" ELSE "c_prove")
         \/ agent.pc = "d_restore" /\ agent' = Goto("d_gone")
  PROVE  IInv'
<1>1. /\ source' = source /\ ledger' = ledger /\ record' = record
      /\ point' = point /\ restored' = restored /\ lease' = lease
  BY DEF stored
<1>2. /\ tables'.target = tables.target /\ tables'.staging = tables.staging /\ tables'.restore = s
      /\ tables' \in [{"target", "staging", "restore"} -> [id : Objects, data : Contents] \cup {Absent}]
      /\ s.id \in {"none", "copy"}
  BY DEF IInv, StoredInv, TablesOK, Objects, Absent
<1>3. /\ Original' = Original /\ Swapped' = Swapped /\ OriginalTable' = OriginalTable
      /\ MigratedTable' = MigratedTable
      /\ \A d, c : Holds(d, c)' <=> Holds(d, c)
  BY <1>2 DEF Original, Swapped, OriginalTable, MigratedTable, Holds
<1>4. \A l : EntryOK(l)' <=> EntryOK(l)
  BY <1>1, <1>3 DEF EntryOK
<1>5. /\ agent.pc \in (CreatePcs \cup CleanupPcs) \ {"c_target", "c_record"}
      /\ agent.pc = "d_restore" => agent.pc \in CleanupPcs
      /\ agent.pc # "d_restore" => agent.pc \in CreatePcs
  BY DEF CreatePcs, CleanupPcs
<1>6. /\ agent \in AgentType /\ agent.rec = record /\ record # NoRecord /\ RecordOK(record)
      /\ RecordAt(agent.pc, record) /\ record.state \in {"creating", "cleanup_pending"}
      /\ agent.pc = "d_restore" => agent.call = "cleanup" /\ restored
      /\ agent.pc # "d_restore" => agent.call = "create" /\ point = NoPoint
  BY <1>5, AtRecord DEF RecordAt
<1>7. RecordOK(record)'
  BY <1>1, <1>2, <1>6 DEF RecordOK
<1>8. TablesOK' /\ PointOK'
  BY <1>1, <1>2, <1>3 DEF IInv, StoredInv, TablesOK, PointOK
<1>9. StoredInv'
  BY <1>1, <1>3, <1>4, <1>6, <1>7, <1>8 DEF IInv, StoredInv
<1>10. CASE agent' = Idle
  BY <1>9, <1>10, IdleAfter DEF IInv
<1>11. ASSUME NEW t \in {"c_copy", "c_prove", "d_gone"}, agent' = Goto(t),
              t = "d_gone" <=> agent.pc = "d_restore"
       PROVE  AgentOK(agent)'
  <2>1. t \in Pc /\ t # "idle"
    BY DEF Pc, CreatePcs, CleanupPcs
  <2>2. /\ agent' \in AgentType /\ agent'.pc = t /\ agent'.rec = record
        /\ agent'.call = agent.call
    BY <1>6, <1>11, <2>1, AgentParts, AgentFields DEF Goto
  <2>3. Where(agent') = t
    BY <2>2 DEF Where, Waiting
  <2>4. CallAt(agent)'
    BY <1>1, <1>6, <1>11, <2>2, <2>3
       DEF CallAt, CreatePcs, CleanupPcs, TransferPcs, GiveUpPcs, CommitPcs, RollbackPcs
  <2>5. PutAt(agent)' /\ SeenAt(agent)'
    BY <2>2 DEF PutAt, SeenAt, Looking
  <2>6. RecordAt(t, record)'
    BY <1>1, <1>2, <1>6, <1>11 DEF RecordAt, CleanupPcs
  <2>7. QED
    BY <1>1, <1>6, <2>2, <2>3, <2>4, <2>5, <2>6, PcSets DEF AgentOK, CreatePcs, CleanupPcs
<1>12. QED
  BY <1>9, <1>10, <1>11 DEF IInv

LEMMA CreateCopyStep == IInv /\ CreateCopy => IInv'
<1> SUFFICES ASSUME IInv, CreateCopy PROVE IInv'
  OBVIOUS
<1>1. CASE At("c_create") /\ Exists("restore") /\ agent' = Idle /\ Quiet
  BY <1>1, QuietIdle
<1>2. CASE Statement("c_create", Created("restore", "copy"), Goto("c_copy"), Idle)
  <2> DEFINE s == [id |-> "copy", data |-> "empty"]
  <2>1. /\ agent.pc = "c_create" /\ (UNCHANGED spent \/ Fault)
        /\ agent' \in {Goto("c_copy"), Idle} /\ (agent' # Idle => tables' = Created("restore", "copy"))
        /\ tables' \in {tables, Created("restore", "copy")}
        /\ UNCHANGED <<source, stored, point, restored, lease>>
    BY <1>2 DEF Statement, At
  <2>2. Spent' /\ writes' = writes
    BY <2>1, FaultSpent
  <2>3. record.baseline # "empty" /\ s \in [id : {"copy"}, data : Contents] /\ s.id = "copy"
    BY <2>1, AtRecord DEF CreatePcs, CleanupPcs, RecordAt, Contents
  <2>4. CASE tables' = tables /\ agent' = Idle
    <3>1. AgentOK(Idle)
      BY IdleOK DEF IInv
    <3>2. QED
      BY <2>1, <2>2, <2>4, <3>1, AgentMoves DEF data
  <2>5. CASE tables' = Created("restore", "copy")
    <3>1. tables' = [tables EXCEPT !.restore = s]
      BY <2>5 DEF Created
    <3> HIDE DEF s
    <3>2. QED
      BY <2>1, <2>2, <2>3, <3>1, RestoreChanges
  <2>6. QED
    BY <2>1, <2>4, <2>5
<1>3. QED
  BY <1>1, <1>2 DEF CreateCopy

LEMMA FillCopyStep == IInv /\ FillCopy => IInv'
<1> SUFFICES ASSUME IInv, FillCopy PROVE IInv'
  OBVIOUS
<1>1. /\ agent.pc = "c_copy" /\ (UNCHANGED spent \/ Fault) /\ agent' \in {Goto("c_prove"), Idle}
      /\ UNCHANGED <<source, stored, point, restored, lease>>
  BY DEF FillCopy, At
<1>2. PICK d \in Contents : tables' = [tables EXCEPT !.restore.data = d]
  <2>1. tables.target.data \in Contents
    BY DEF IInv, StoredInv, TablesOK, Original, Swapped, Absent, Contents
  <2>2. QED
    BY <2>1 DEF FillCopy, Contents
<1>3. Spent' /\ writes' = writes
  BY <1>1, FaultSpent
<1>4. record.baseline # "empty" /\ tables.restore.id = "copy"
  BY <1>1, AtRecord DEF CreatePcs, CleanupPcs, RecordAt
<1> DEFINE s == [tables.restore EXCEPT !.data = d]
<1>5. s \in [id : {"copy"}, data : Contents] /\ s.id = "copy"
  BY <1>4 DEF IInv, StoredInv, TablesOK, Absent
<1>6. tables' = [tables EXCEPT !.restore = s]
  BY <1>2
<1> HIDE DEF s
<1>7. QED
  BY <1>1, <1>3, <1>4, <1>5, <1>6, RestoreChanges

LEMMA ProveCopyStep == IInv /\ ProveCopy => IInv'
<1> SUFFICES ASSUME IInv, ProveCopy PROVE IInv'
  OBVIOUS
<1> DEFINE manual == [record EXCEPT !.state = "manual_review"]
           frozen == [record EXCEPT !.object = tables.restore.id]
<1>1. agent.pc = "c_prove" /\ Quiet /\ agent.pc \in CreatePcs \ {"c_target", "c_record"}
  BY DEF ProveCopy, At, CreatePcs
<1>2. /\ agent.rec = record /\ record # NoRecord /\ RecordOK(record) /\ record \in RecordType
      /\ record.state = "creating" /\ record.baseline # "empty"
  BY <1>1, AtRecord DEF RecordAt
<1>3. \/ agent' = StoreRecord(manual, "idle")
      \/ Proven(record) /\ agent' = StoreRecord(frozen, "c_ready")
      \/ Proven(record) /\ record.object # "none" /\ agent' = Goto("c_ready")
  BY <1>2 DEF ProveCopy
<1>4. CASE agent' = StoreRecord(manual, "idle")
  <2>1. RecordOK(manual) /\ "idle" \notin CreatePcs
    BY <1>2, Restated DEF RestoreStates, CreatePcs
  <2>2. AgentOK(StoreRecord(manual, "idle"))
    BY <1>1, <2>1, RecordStores
  <2>3. QED
    BY <1>1, <1>4, <2>2, AgentMovesQuietly
<1>5. Proven(record) => tables.restore = [id |-> "copy", data |-> record.baseline]
  <2> SUFFICES ASSUME Proven(record) PROVE tables.restore = [id |-> "copy", data |-> record.baseline]
    OBVIOUS
  <2>1. tables.restore.data \in Baselines
    BY <1>2 DEF Proven, RecordType
  <2>2. tables.restore.id = "copy" /\ tables.restore \in [id : Objects, data : Contents]
    BY <2>1 DEF IInv, StoredInv, TablesOK, Absent, Baselines
  <2>3. QED
    BY <2>2 DEF Proven
<1>6. CASE Proven(record) /\ agent' = StoreRecord(frozen, "c_ready")
  <2>1. frozen \in RecordType /\ frozen.state = "creating" /\ frozen.baseline = record.baseline
    BY <1>2, <1>5, <1>6 DEF RecordType
  <2> HIDE DEF frozen
  <2>2. RecordOK(frozen)
    BY <1>2, <2>1 DEF RecordOK
  <2>3. RecordAt("c_ready", frozen) /\ "c_ready" \in CreatePcs
    BY <1>2, <1>5, <1>6, <2>1 DEF RecordAt, CreatePcs, CleanupPcs
  <2>4. AgentOK(StoreRecord(frozen, "c_ready"))
    BY <1>1, <2>2, <2>3, RecordStores
  <2>5. QED
    BY <1>1, <1>6, <2>4, AgentMovesQuietly
<1>7. CASE Proven(record) /\ record.object # "none" /\ agent' = Goto("c_ready")
  <2>1. RecordAt("c_ready", record) /\ "c_ready" \in CreatePcs \ {"c_target", "c_record"}
    BY <1>2, <1>5, <1>7 DEF RecordAt, CreatePcs, CleanupPcs
  <2>2. AgentOK(Goto("c_ready"))
    BY <1>1, <2>1, RecordGoes
  <2>3. QED
    BY <1>1, <1>7, <2>2, AgentMovesQuietly
<1>8. QED
  BY <1>3, <1>4, <1>6, <1>7

LEMMA CopyReadyStep == IInv /\ CopyReady => IInv'
<1> SUFFICES ASSUME IInv, CopyReady PROVE IInv'
  OBVIOUS
<1> DEFINE ready == [record EXCEPT !.state = "ready"]
<1>1. agent.pc = "c_ready" /\ Quiet /\ agent.pc \in CreatePcs \ {"c_target", "c_record"}
  BY DEF CopyReady, At, CreatePcs
<1>2. /\ agent.rec = record /\ record \in RecordType /\ record.baseline # "empty"
      /\ tables.restore = [id |-> "copy", data |-> record.baseline]
  BY <1>1, AtRecord DEF RecordAt
<1>3. RecordOK(ready)
  BY <1>2 DEF RecordOK, RecordType, RestoreStates
<1>4. RecordAt("c_verify", ready) /\ "c_verify" \in CreatePcs
  BY DEF RecordAt, CreatePcs, CleanupPcs
<1>5. AgentOK(StoreRecord(ready, "c_verify"))
  BY <1>1, <1>3, <1>4, RecordStores
<1>6. agent' = StoreRecord(ready, "c_verify")
  BY <1>2 DEF CopyReady
<1>7. QED
  BY <1>1, <1>5, <1>6, AgentMovesQuietly

LEMMA VerifyPointStep == IInv /\ VerifyPoint => IInv'
<1> SUFFICES ASSUME IInv, VerifyPoint PROVE IInv'
  OBVIOUS
<1>1. /\ agent.pc = "c_verify" /\ agent' = Idle /\ agent.pc \in CreatePcs \ {"c_target", "c_record"}
      /\ source' = source /\ tables' = tables /\ ledger' = ledger /\ record' = record
      /\ restored' = restored /\ lease' = lease /\ UNCHANGED spent
  BY DEF VerifyPoint, At, CreatePcs, data, stored
<1>2. /\ agent.rec = record /\ record # NoRecord /\ RecordOK(record) /\ record \in RecordType
      /\ point = NoPoint /\ ledger = NoEntry /\ ~restored
  <2>1. /\ agent.rec = record /\ record # NoRecord /\ RecordOK(record) /\ record \in RecordType
        /\ point = NoPoint
    BY <1>1, AtRecord
  <2>2. QED
    BY <2>1 DEF IInv, StoredInv, PointOK
<1>3. Spent' /\ writes' = writes
  BY <1>1, FaultSpent
<1>4. CASE point' = point
  <2>1. UNCHANGED <<data, stored, point, restored, lease>> /\ AgentOK(Idle)
    BY <1>1, <1>4, IdleOK DEF data, stored, IInv
  <2>2. QED
    BY <1>1, <1>3, <2>1, AgentMoves
<1>5. CASE /\ PointVerified(record.baseline, record.object)
           /\ point' = [baseline |-> record.baseline, object |-> record.object]
  <2>1. Original /\ OriginalTable.data = record.baseline
    BY <1>2, <1>5 DEF PointVerified, IInv, StoredInv, Original, OriginalTable
  <2>2. record.baseline # "empty" => record.object = "copy"
    BY <1>2, <1>5 DEF PointVerified, RecordOK
  <2>3. PointOK'
    BY <1>1, <1>2, <1>5, <2>1, <2>2
       DEF PointOK, NoPoint, Holds, RecordType, OriginalTable, Baselines
  <2>4. TablesOK' /\ (Original' = Original) /\ (RecordOK(record)' <=> RecordOK(record))
    BY <1>1 DEF IInv, StoredInv, TablesOK, Original, Swapped, OriginalTable, RecordOK
  <2>5. StoredInv'
    BY <1>1, <1>2, <2>1, <2>3, <2>4 DEF IInv, StoredInv
  <2>6. QED
    BY <1>1, <1>3, <2>5, IdleAfter DEF IInv
<1>6. QED
  BY <1>2, <1>4, <1>5 DEF VerifyPoint

LEMMA AnswerRestoredStep == IInv /\ AnswerRestored => IInv'
<1> SUFFICES ASSUME IInv, AnswerRestored PROVE IInv'
  OBVIOUS
<1>1. /\ agent.pc = "restored" /\ agent' = Idle /\ restored'
      /\ restored' \in BOOLEAN
      /\ source' = source /\ tables' = tables /\ ledger' = ledger /\ record' = record
      /\ point' = point /\ lease' = lease /\ UNCHANGED spent
  BY DEF AnswerRestored, At, data, stored
<1>2. /\ Where(agent) = "restored" /\ point # NoPoint /\ ledger.state \in {"none", "rolled_back"}
  <2>1. Where(agent) = "restored"
    BY <1>1 DEF Where, Waiting
  <2>2. EntryAt("restored", agent.entry) /\ EntryStored(agent) /\ agent.call = "rollback"
    BY <1>1, <2>1 DEF IInv, AgentOK, CallAt
  <2>3. point # NoPoint
    BY <2>2 DEF IInv, AgentOK, CallAt
  <2>4. QED
    BY <1>1, <2>1, <2>2, <2>3 DEF EntryAt, EntryStored
<1>3. Spent' /\ writes' = writes
  BY <1>1, FaultSpent
<1>4. /\ Original' = Original /\ (\A l : EntryOK(l)' <=> EntryOK(l)) /\ TablesOK'
      /\ (RecordOK(record)' <=> RecordOK(record))
  BY <1>1, <1>3 DEF IInv, StoredInv, TablesOK, Original, Swapped, OriginalTable, MigratedTable, Holds,
       EntryOK, RecordOK
<1>5. PointOK'
  BY <1>1, <1>2, <1>3 DEF IInv, StoredInv, PointOK, OriginalTable, Holds
<1>6. StoredInv'
  BY <1>1, <1>2, <1>4, <1>5 DEF IInv, StoredInv
<1>7. QED
  BY <1>1, <1>3, <1>6, IdleAfter DEF IInv

LEMMA VerifyRestoredStep == IInv /\ VerifyRestored => IInv'
<1> SUFFICES ASSUME IInv, VerifyRestored PROVE IInv'
  OBVIOUS
<1> DEFINE pending == [record EXCEPT !.state = "cleanup_pending"]
           b == [agent EXCEPT !.pc = "d_staging", !.rec = record]
<1>1. /\ agent.pc = "v_check" /\ Quiet /\ AgentOK(agent) /\ agent \in AgentType
      /\ \/ agent' = Idle
         \/ agent' = StoreRecord(pending, "d_staging") /\ record.baseline = point.baseline
         \/ /\ agent' = b /\ record.baseline = point.baseline /\ record.state = "cleanup_pending"
  BY DEF VerifyRestored, At, IInv, AgentOK
<1>2. agent.call = "cleanup" /\ restored /\ point # NoPoint
  <2>1. Where(agent) = "v_check"
    BY <1>1 DEF Where, Waiting
  <2>2. agent.call = "cleanup" /\ restored
    BY <1>1, <2>1 DEF AgentOK, CallAt
  <2>3. QED
    BY <2>2 DEF IInv, StoredInv, PointOK
<1>3. CASE agent' = Idle
  BY <1>1, <1>3, QuietIdle
<1>4. record.baseline = point.baseline => record # NoRecord /\ record \in RecordType
  <2>1. record.baseline = point.baseline => record # NoRecord
    BY <1>2 DEF IInv, StoredInv, PointOK, NoRecord, Baselines
  <2>2. QED
    BY <2>1 DEF IInv, StoredInv, RecordOK
<1>5. "d_staging" \in CleanupPcs /\ "d_staging" \notin CreatePcs
  BY DEF CreatePcs, CleanupPcs
<1>6. CASE agent' = StoreRecord(pending, "d_staging") /\ record.baseline = point.baseline
  <2>1. RecordOK(pending)
    BY <1>4, <1>6, Restated DEF RestoreStates
  <2>2. RecordAt("d_staging", pending)
    BY <1>4, <1>6 DEF RecordAt, RecordType
  <2>3. AgentOK(StoreRecord(pending, "d_staging"))
    BY <1>1, <1>2, <1>5, <2>1, <2>2, StoreRecordOK
  <2>4. QED
    BY <1>1, <1>6, <2>3, AgentMovesQuietly
<1>7. CASE agent' = b /\ record.baseline = point.baseline /\ record.state = "cleanup_pending"
  <2>1. b \in AgentType /\ b.pc = "d_staging" /\ b.rec = record /\ b.call = "cleanup"
    BY <1>1, <1>2, <1>4, <1>7 DEF AgentType, Pc, CleanupPcs
  <2> HIDE DEF b
  <2>2. RecordAt("d_staging", record)
    BY <1>7 DEF RecordAt
  <2>3. AgentOK(b)
    BY <1>2, <1>4, <1>5, <1>7, <2>1, <2>2, RecordOn
  <2>4. QED
    BY <1>1, <1>7, <2>3, AgentMovesQuietly
<1>8. QED
  BY <1>1, <1>3, <1>6, <1>7

LEMMA CleanupStagingStep == IInv /\ CleanupStaging => IInv'
<1> SUFFICES ASSUME IInv, CleanupStaging PROVE IInv'
  OBVIOUS
<1>1. agent.pc = "d_staging" /\ agent.pc \in CleanupPcs /\ agent.pc \notin CreatePcs
  BY DEF CleanupStaging, Statement, At, CleanupPcs, CreatePcs
<1>2. /\ agent \in AgentType /\ restored
      /\ record.state = "cleanup_pending" /\ record.baseline = point.baseline
  BY <1>1, AtRecord DEF RecordAt, CreatePcs
<1>3. Original /\ ~Exchanging(ledger)
  BY <1>2, Words DEF IInv, StoredInv, EntryOK, NoEntry, Exchanging
<1>4. /\ RecordAt("d_restore", record) /\ "d_restore" \in CleanupPcs \ {"c_target", "c_record"}
      /\ "d_restore" \notin CreatePcs
  BY <1>2 DEF RecordAt, CreatePcs, CleanupPcs
<1>5. AgentOK(Goto("d_restore")) /\ Unseeing(Goto("d_restore"))
  BY <1>1, <1>4, RecordGoes DEF CreatePcs
<1>6. AgentOK(Idle) /\ Unseeing(Idle)
  BY IdleOK, PlainOK DEF IInv
<1>7. CASE agent' = Goto("d_restore") /\ Quiet
  BY <1>5, <1>7, AgentMovesQuietly
<1>8. CASE Statement("d_staging", [tables EXCEPT !.staging = Absent], Goto("d_restore"), Idle)
  BY <1>3, <1>5, <1>6, <1>8, StagingStatement
<1>9. QED
  BY <1>7, <1>8 DEF CleanupStaging, Without

LEMMA CleanupRestoreStep == IInv /\ CleanupRestore => IInv'
<1> SUFFICES ASSUME IInv, CleanupRestore PROVE IInv'
  OBVIOUS
<1>1. agent.pc = "d_restore" /\ agent.pc \in CleanupPcs /\ agent.pc \notin CreatePcs
  BY DEF CleanupRestore, Statement, At, CleanupPcs, CreatePcs
<1>2. /\ agent \in AgentType /\ RecordOK(record)
      /\ record.state = "cleanup_pending" /\ record.baseline = point.baseline
  BY <1>1, AtRecord DEF RecordAt, CreatePcs
<1>3. CASE /\ point.baseline = "empty" \/ ~Exists("restore")
           /\ agent' = Goto("d_cleaned") /\ Quiet
  <2>1. /\ RecordAt("d_cleaned", record) /\ "d_cleaned" \in CleanupPcs \ {"c_target", "c_record"}
        /\ "d_cleaned" \notin CreatePcs
    BY <1>2, <1>3 DEF RecordAt, RecordOK, CreatePcs, CleanupPcs, Exists, Absent
  <2>2. AgentOK(Goto("d_cleaned"))
    BY <1>1, <2>1, RecordGoes DEF CreatePcs
  <2>3. QED
    BY <1>3, <2>2, AgentMovesQuietly
<1>4. CASE agent' = Idle /\ Quiet
  BY <1>4, QuietIdle
<1>5. CASE /\ point.baseline # "empty"
           /\ Statement("d_restore", Without("restore"), Goto("d_gone"), Idle)
  <2>1. /\ UNCHANGED spent \/ Fault
        /\ agent' \in {Goto("d_gone"), Idle} /\ tables' \in {tables, Without("restore")}
        /\ tables' = Without("restore") \/ agent' = Idle
        /\ UNCHANGED <<source, stored, point, restored, lease>>
    BY <1>5 DEF Statement
  <2>2. Spent' /\ writes' = writes
    BY <2>1, FaultSpent
  <2>3. CASE tables' = tables /\ agent' = Idle
    <3>1. AgentOK(Idle)
      BY IdleOK DEF IInv
    <3>2. QED
      BY <2>1, <2>2, <2>3, <3>1, AgentMoves DEF data
  <2>4. CASE tables' = Without("restore")
    <3>1. tables' = [tables EXCEPT !.restore = Absent]
      BY <2>4 DEF Without
    <3>2. QED
      BY <1>1, <1>2, <1>5, <2>1, <2>2, <3>1, RestoreChanges
  <2>5. QED
    BY <2>1, <2>3, <2>4
<1>6. QED
  BY <1>1, <1>3, <1>4, <1>5 DEF CleanupRestore, At

LEMMA RestoreGoneStep == IInv /\ RestoreGone => IInv'
<1> SUFFICES ASSUME IInv, RestoreGone PROVE IInv'
  OBVIOUS
<1>1. /\ agent.pc = "d_gone" /\ agent.pc \in CleanupPcs /\ agent.pc \notin CreatePcs /\ Quiet
      /\ agent' = Idle \/ (agent' = Goto("d_cleaned") /\ tables.restore = Absent)
  BY DEF RestoreGone, At, CleanupPcs, CreatePcs, Exists
<1>2. CASE agent' = Idle
  BY <1>1, <1>2, QuietIdle
<1>3. CASE agent' = Goto("d_cleaned") /\ tables.restore = Absent
  <2>1. /\ RecordAt("d_cleaned", record) /\ "d_cleaned" \in CleanupPcs \ {"c_target", "c_record"}
        /\ "d_cleaned" \notin CreatePcs
    BY <1>1, <1>3, AtRecord DEF RecordAt, CreatePcs, CleanupPcs, Absent
  <2>2. AgentOK(Goto("d_cleaned"))
    BY <1>1, <2>1, RecordGoes DEF CreatePcs
  <2>3. QED
    BY <1>1, <1>3, <2>2, AgentMovesQuietly
<1>4. QED
  BY <1>1, <1>2, <1>3

LEMMA CleanedStep == IInv /\ Cleaned => IInv'
<1> SUFFICES ASSUME IInv, Cleaned PROVE IInv'
  OBVIOUS
<1> DEFINE done == [record EXCEPT !.state = "cleaned"]
<1>1. agent.pc = "d_cleaned" /\ agent.pc \in CleanupPcs /\ agent.pc \notin CreatePcs /\ Quiet
  BY DEF Cleaned, At, CleanupPcs, CreatePcs
<1>2. agent.rec = record /\ record \in RecordType /\ tables.restore.id # "copy"
  BY <1>1, AtRecord DEF RecordAt, CreatePcs
<1>3. RecordOK(done) /\ "idle" \notin CreatePcs
  BY <1>2 DEF RecordOK, RecordType, RestoreStates, CreatePcs
<1>4. AgentOK(StoreRecord(done, "idle"))
  BY <1>1, <1>3, RecordStores DEF CreatePcs
<1>5. agent' = StoreRecord(done, "idle")
  BY <1>2 DEF Cleaned
<1>6. QED
  BY <1>1, <1>4, <1>5, AgentMovesQuietly

LEMMA RestoredCleanupStep == IInv /\ RestoredCleanup => IInv'
BY VerifyRestoredStep, CleanupStagingStep, CleanupRestoreStep, RestoreGoneStep, CleanedStep
   DEF RestoredCleanup

LEMMA RestorePointStep == IInv /\ RestorePoint => IInv'
BY FingerprintTargetStep, EnsureRecordStep, InspectRestoreStep, CreateCopyStep, FillCopyStep,
   ProveCopyStep, CopyReadyStep, VerifyPointStep DEF RestorePoint

LEMMA RollbackStep == IInv /\ Rollback => IInv'
<1>1. IInv /\ RollbackGuard => IInv'
  BY GuardStep DEF RollbackGuard
<1>2. IInv /\ RollbackExchange => IInv'
  BY ExchangeStep DEF RollbackExchange
<1>3. QED
  BY <1>1, <1>2, RollbackFromLedgerStep, ReconcileCommitStep, SettleReconciledStep, RollbackIntentStep,
     SettleRollbackStep, AnswerRestoredStep DEF Rollback

LEMMA ApplyStep == SInv /\ Apply => IInv'
<1>1. IInv /\ CommitGuard => IInv'
  BY GuardStep DEF CommitGuard
<1>2. IInv /\ CommitExchange => IInv'
  BY ExchangeStep DEF CommitExchange
<1>3. QED
  BY <1>1, <1>2, ExecuteFromLedgerStep, ReconcileSourceStep, ReconcileExistsStep, ReconcileStagingStep,
     ReconciledVerifiedStep, RecordSourceStep, DropStaleStep, CreateStagingStep, TransferIntentStep,
     TransferStep, VerifyStagingStep, LoadVerifiedStep, CompareSourceStep, EmptySourceStep,
     CommitIntentStep, SettleCommitStep DEF Apply, SInv

-----------------------------------------------------------------------------
(* The two records are stored.                                             *)

LEMMA PutLedgerStep == IInv /\ PutLedger => IInv'
<1> SUFFICES ASSUME IInv, PutLedger PROVE IInv'
  OBVIOUS
<1>1. /\ agent.pc = "put_ledger" /\ agent \in AgentType /\ AgentOK(agent) /\ Where(agent) = agent.then
      /\ source' = source /\ tables' = tables /\ record' = record /\ point' = point
      /\ restored' = restored /\ lease' = lease
      /\ UNCHANGED spent \/ Fault
  BY DEF PutLedger, At, IInv, AgentOK, Where, Waiting, data
<1>2. \/ ledger' = agent.entry /\ agent' = Goto(agent.then)
      \/ ledger' \in {ledger, agent.entry} /\ agent' = Idle
  BY DEF PutLedger
<1>3. Spent' /\ writes' = writes
  BY <1>1, FaultSpent
<1>4. EntryOK(agent.entry) /\ ~restored /\ point # NoPoint /\ agent.entry # NoEntry
  BY <1>1 DEF AgentOK, PutAt, EntryOK, EntryType, NoEntry, LedgerStates
<1>5. /\ Original' = Original /\ (\A l : EntryOK(l)' <=> EntryOK(l)) /\ TablesOK'
      /\ (RecordOK(record)' <=> RecordOK(record))
      /\ (\A p, e : EntryAt(p, e)' <=> EntryAt(p, e))
  BY <1>1, <1>3 DEF IInv, StoredInv, TablesOK, Original, Swapped, OriginalTable, MigratedTable, Holds,
       EntryOK, RecordOK, EntryAt
<1>6. PointOK'
  BY <1>1, <1>3, <1>4 DEF IInv, StoredInv, PointOK, OriginalTable, Holds
<1>7. StoredInv'
  <2>1. CASE ledger' = agent.entry
    BY <1>1, <1>4, <1>5, <1>6, <2>1 DEF IInv, StoredInv
  <2>2. CASE ledger' = ledger
    BY <1>1, <1>4, <1>5, <1>6, <2>2 DEF IInv, StoredInv
  <2>3. QED
    BY <1>2, <2>1, <2>2
<1>8. CASE agent' = Idle
  BY <1>3, <1>7, <1>8, IdleAfter DEF IInv
<1>9. CASE ledger' = agent.entry /\ agent' = Goto(agent.then) /\ agent.then # "idle"
  <2>1. agent.then \in (EntryPcs \ Looking) \cup {"restored"} /\ agent.then \in Pc \ Waiting
    BY <1>1, <1>9 DEF AgentOK, CallAt, AgentType
  <2>2. /\ agent' \in AgentType /\ agent'.pc = agent.then /\ agent'.entry = ledger'
        /\ agent'.call = agent.call
    BY <1>1, <1>9, <2>1, AgentParts, AgentFields DEF Goto
  <2>3. Where(agent') = agent.then /\ agent'.pc \notin Waiting \cup Looking
    BY <2>1, <2>2 DEF Where, Looking
  <2>4. CallAt(agent)'
    BY <1>1, <2>1, <2>2, <2>3, PcSets DEF AgentOK, CallAt, Where, Waiting
  <2>5. PutAt(agent)' /\ SeenAt(agent)' /\ EntryStored(agent)'
    BY <2>2, <2>3 DEF PutAt, SeenAt, Looking, Waiting, EntryStored
  <2>6. EntryAt(agent.then, agent.entry)
    BY <1>1, <2>1, PcSets DEF AgentOK
  <2>7. EntryAt(agent.pc, agent.entry)'
    BY <1>5, <1>9, <2>2, <2>6
  <2>8. Where(agent)' = agent'.pc
    BY <2>2, <2>3 DEF Where
  <2>9. agent'.pc \notin CreatePcs \cup CleanupPcs \cup {"put_record"}
    BY <2>1, <2>2, <2>3, PcSets DEF Waiting
  <2>10. AgentOK(agent)'
    BY <2>2, <2>4, <2>5, <2>7, <2>8, <2>9 DEF AgentOK, CreatePcs
  <2>11. QED
    BY <1>3, <1>7, <2>10 DEF IInv
<1>10. QED
  BY <1>2, <1>8, <1>9 DEF Goto

LEMMA PutRestoreStep == IInv /\ PutRestore => IInv'
<1> SUFFICES ASSUME IInv, PutRestore PROVE IInv'
  OBVIOUS
<1>1. /\ agent.pc = "put_record" /\ agent \in AgentType /\ AgentOK(agent) /\ Where(agent) = agent.then
      /\ source' = source /\ tables' = tables /\ ledger' = ledger /\ point' = point
      /\ restored' = restored /\ lease' = lease
      /\ UNCHANGED spent \/ Fault
  BY DEF PutRestore, At, IInv, AgentOK, Where, Waiting, data
<1>2. \/ record' = agent.rec /\ agent' = Goto(agent.then)
      \/ record' \in {record, agent.rec} /\ agent' = Idle
  BY DEF PutRestore
<1>3. Spent' /\ writes' = writes
  BY <1>1, FaultSpent
<1>4. RecordOK(agent.rec) /\ agent.rec # NoRecord
  BY <1>1 DEF AgentOK, RecordOK, RecordType, NoRecord, RestoreStates
<1>5. /\ Original' = Original /\ (\A l : EntryOK(l)' <=> EntryOK(l)) /\ TablesOK' /\ PointOK'
      /\ (\A r : RecordOK(r)' <=> RecordOK(r))
      /\ (\A p, r : RecordAt(p, r)' <=> RecordAt(p, r))
  BY <1>1, <1>3 DEF IInv, StoredInv, TablesOK, PointOK, Original, Swapped, OriginalTable, MigratedTable,
       Holds, EntryOK, RecordOK, RecordAt
<1>6. StoredInv'
  <2>1. CASE record' = agent.rec
    BY <1>1, <1>4, <1>5, <2>1 DEF IInv, StoredInv
  <2>2. CASE record' = record
    BY <1>1, <1>5, <2>2 DEF IInv, StoredInv
  <2>3. QED
    BY <1>2, <2>1, <2>2
<1>7. CASE agent' = Idle
  BY <1>3, <1>6, <1>7, IdleAfter DEF IInv
<1>8. CASE record' = agent.rec /\ agent' = Goto(agent.then) /\ agent.then # "idle"
  <2>1. agent.then \in CreatePcs \cup CleanupPcs /\ agent.then \in Pc \ Waiting
    BY <1>1, <1>8 DEF AgentOK, CallAt, AgentType
  <2>2. /\ agent' \in AgentType /\ agent'.pc = agent.then /\ agent'.rec = record'
        /\ agent'.call = agent.call /\ agent'.first = agent.first
    BY <1>1, <1>8, <2>1, AgentParts, AgentFields DEF Goto
  <2>3. Where(agent') = agent.then /\ agent'.pc \notin Waiting \cup Looking \cup EntryPcs \cup {"restored"}
    BY <2>1, <2>2, PcSets DEF Where
  <2>4. CallAt(agent)'
    BY <1>1, <2>1, <2>2, <2>3, PcSets DEF AgentOK, CallAt, Where, Waiting
  <2>5. PutAt(agent)' /\ SeenAt(agent)'
    BY <2>2, <2>3 DEF PutAt, SeenAt, Looking, Waiting
  <2>6. agent.then \notin {"c_target", "c_record"} => RecordAt(agent.then, agent.rec)
    BY <1>1, <2>1 DEF AgentOK
  <2>7. agent'.pc \notin {"c_target", "c_record"} => RecordAt(agent.pc, agent.rec)'
    BY <1>5, <1>8, <2>2, <2>6
  <2>8. Where(agent)' = agent'.pc
    BY <2>2, <2>3 DEF Where
  <2>9. agent'.pc # "c_record"
    BY <1>1, <2>2 DEF AgentOK, CallAt
  <2>10. AgentOK(agent)'
    BY <1>4, <1>8, <2>2, <2>3, <2>4, <2>5, <2>7, <2>8, <2>9 DEF AgentOK, Waiting
  <2>11. QED
    BY <1>3, <1>6, <2>10 DEF IInv
<1>9. QED
  BY <1>2, <1>7, <1>8 DEF Goto

-----------------------------------------------------------------------------
(* The surroundings.                                                       *)

LEMMA CallStep == ASSUME IInv, NEW kind \in {"create", "apply", "rollback", "cleanup"}, Call(kind)
                  PROVE  IInv'
<1>1. PICK a : a = agent'
  OBVIOUS
<1>2. /\ calls < MaxCalls /\ calls' = calls + 1
      /\ UNCHANGED <<data, stored, point, restored, lease, faults, crashes, writes>>
      /\ kind = "create" => point = NoPoint
      /\ kind = "apply" => point # NoPoint /\ ~restored
      /\ kind = "rollback" => point # NoPoint
      /\ kind = "cleanup" => restored
  BY DEF Call
<1>3. Spent' /\ writes' = writes
  BY <1>2, BoundsAssumption DEF IInv, Spent
<1>4. Idle \in AgentType
  BY IdleOK DEF IInv, AgentOK
<1>5. agent' = CASE kind = "create"  -> [Idle EXCEPT !.call = kind, !.pc = "c_target"]
                  [] kind = "cleanup" -> [Idle EXCEPT !.call = kind, !.pc = "v_check"]
                  [] OTHER -> [Idle EXCEPT !.call = kind, !.pc = "lease", !.then = "get"]
  BY DEF Call
<1>6. /\ a \in AgentType /\ a.call = kind
      /\ a.pc = IF kind = "create" THEN "c_target" ELSE IF kind = "cleanup" THEN "v_check" ELSE "lease"
      /\ kind \in {"apply", "rollback"} => a.then = "get"
  <2>1. {"c_target", "v_check", "lease"} \subseteq Pc /\ "get" \in Pc \ Waiting
    BY DEF Pc, CreatePcs, Waiting
  <2>2. CASE kind = "create"
    BY <1>1, <1>4, <1>5, <2>1, <2>2 DEF AgentType
  <2>3. CASE kind = "cleanup"
    BY <1>1, <1>4, <1>5, <2>1, <2>3 DEF AgentType
  <2>4. CASE kind \in {"apply", "rollback"}
    BY <1>1, <1>4, <1>5, <2>1, <2>4 DEF AgentType
  <2>5. QED
    BY <2>2, <2>3, <2>4
<1>7. Where(a) = IF kind = "create" THEN "c_target" ELSE IF kind = "cleanup" THEN "v_check" ELSE "get"
  BY <1>6 DEF Where, Waiting
<1>8. CallAt(a)
  BY <1>2, <1>6, <1>7
     DEF CallAt, CreatePcs, TransferPcs, CommitPcs, GiveUpPcs, RollbackPcs, CleanupPcs
<1>9. PutAt(a) /\ SeenAt(a)
  BY <1>6 DEF PutAt, SeenAt, Looking
<1>10. AgentOK(a)
  BY <1>6, <1>7, <1>8, <1>9, PcSets DEF AgentOK, CreatePcs, CleanupPcs
<1>11. QED
  BY <1>1, <1>2, <1>3, <1>10, AgentMoves

LEMMA SourceWriteStep == IInv /\ SourceWrite => IInv'
<1> SUFFICES ASSUME IInv, SourceWrite PROVE IInv'
  OBVIOUS
<1>1. /\ source' = "newer" /\ writes < MaxWrites /\ writes' = writes + 1
      /\ tables' = tables /\ ledger' = ledger /\ record' = record /\ point' = point /\ restored' = restored
      /\ lease' = lease /\ agent' = agent /\ calls' = calls /\ faults' = faults /\ crashes' = crashes
  BY DEF SourceWrite, Written, stored
<1>2. Spent' /\ writes' # 0
  BY <1>1, BoundsAssumption DEF IInv, Spent
<1>3. \A d, c : Holds(d, c) => Holds(d, c)'
  BY <1>1, <1>2 DEF Holds
<1>4. /\ Original' = Original /\ Swapped' = Swapped /\ OriginalTable' = OriginalTable
      /\ MigratedTable' = MigratedTable
  BY <1>1 DEF Original, Swapped, OriginalTable, MigratedTable
<1>5. /\ \A l : EntryOK(l) => EntryOK(l)'
      /\ \A r : RecordOK(r)' <=> RecordOK(r)
      /\ \A p, e : EntryAt(p, e)' <=> EntryAt(p, e)
      /\ \A p, r : RecordAt(p, r)' <=> RecordAt(p, r)
  BY <1>1, <1>3, <1>4 DEF EntryOK, RecordOK, EntryAt, RecordAt
<1>6. TablesOK' /\ PointOK'
  BY <1>1, <1>3, <1>4 DEF IInv, StoredInv, TablesOK, PointOK
<1>7. StoredInv'
  BY <1>1, <1>4, <1>5, <1>6 DEF IInv, StoredInv, Sources
<1>8. CallAt(agent)' /\ SeenAt(agent)' /\ (EntryStored(agent)' <=> EntryStored(agent))
  BY <1>1, <1>4 DEF IInv, AgentOK, CallAt, SeenAt, EntryStored
<1>9. PutAt(agent)'
  BY <1>1, <1>5 DEF IInv, AgentOK, PutAt
<1>10. AgentOK(agent)'
  BY <1>1, <1>5, <1>8, <1>9 DEF IInv, AgentOK
<1>11. QED
  BY <1>2, <1>7, <1>10 DEF IInv

LEMMA TargetWriteStep == IInv /\ TargetWrite => IInv'
<1> SUFFICES ASSUME IInv, TargetWrite PROVE IInv'
  OBVIOUS
<1>1. /\ tables' = [tables EXCEPT !.target.data = "foreign"] /\ writes < MaxWrites /\ writes' = writes + 1
      /\ source' = source /\ ledger' = ledger /\ record' = record /\ point' = point /\ restored' = restored
      /\ lease' = lease /\ agent' = agent /\ calls' = calls /\ faults' = faults /\ crashes' = crashes
  BY DEF TargetWrite, Written, stored
<1>2. Spent' /\ writes' # 0
  BY <1>1, BoundsAssumption DEF IInv, Spent
<1>3. tables.target \in [id : {"original", "migrated"}, data : Contents]
  BY DEF IInv, StoredInv, TablesOK, Original, Swapped, Absent
<1>4. /\ tables'.target = [id |-> tables.target.id, data |-> "foreign"]
      /\ tables'.staging = tables.staging /\ tables'.restore = tables.restore
      /\ tables' \in [{"target", "staging", "restore"} -> [id : Objects, data : Contents] \cup {Absent}]
  BY <1>1, <1>3 DEF IInv, StoredInv, TablesOK, Objects, Contents
<1>5. /\ Original' = Original /\ Swapped' = Swapped
      /\ OriginalTable'.data \in {OriginalTable.data, "foreign"}
      /\ MigratedTable'.data \in {MigratedTable.data, "foreign"}
  BY <1>3, <1>4 DEF Original, Swapped, OriginalTable, MigratedTable
<1>6. /\ \A c : Holds(OriginalTable.data, c) => Holds(OriginalTable.data, c)'
      /\ \A c : Holds(MigratedTable.data, c) => Holds(MigratedTable.data, c)'
  BY <1>2, <1>5 DEF Holds
<1>7. /\ \A l : EntryOK(l) => EntryOK(l)'
      /\ \A r : RecordOK(r)' <=> RecordOK(r)
      /\ \A p, e : EntryAt(p, e)' <=> EntryAt(p, e)
      /\ \A p, r : RecordAt(p, r)' <=> RecordAt(p, r)
  BY <1>1, <1>4, <1>5, <1>6 DEF EntryOK, RecordOK, EntryAt, RecordAt
<1>8. TablesOK'
  BY <1>4, <1>5 DEF IInv, StoredInv, TablesOK, Baselines
<1>9. PointOK'
  BY <1>1, <1>6 DEF IInv, StoredInv, PointOK
<1>10. StoredInv'
  BY <1>1, <1>4, <1>5, <1>7, <1>8, <1>9 DEF IInv, StoredInv
<1>11. CallAt(agent)' /\ SeenAt(agent)' /\ (EntryStored(agent)' <=> EntryStored(agent))
  BY <1>1, <1>4, <1>5 DEF IInv, AgentOK, CallAt, SeenAt, EntryStored
<1>12. PutAt(agent)'
  BY <1>1, <1>7 DEF IInv, AgentOK, PutAt
<1>13. AgentOK(agent)'
  BY <1>1, <1>7, <1>11, <1>12 DEF IInv, AgentOK
<1>14. QED
  BY <1>2, <1>10, <1>13 DEF IInv

LEMMA NameTakenStep == IInv /\ NameTaken => IInv'
<1> SUFFICES ASSUME IInv, NameTaken PROVE IInv'
  OBVIOUS
<1>1. /\ tables.restore = Absent /\ tables' = [tables EXCEPT !.restore = [id |-> "other", data |-> "stranger"]]
      /\ writes < MaxWrites /\ writes' = writes + 1
      /\ source' = source /\ ledger' = ledger /\ record' = record /\ point' = point /\ restored' = restored
      /\ lease' = lease /\ agent' = agent /\ calls' = calls /\ faults' = faults /\ crashes' = crashes
  BY DEF NameTaken, Written, stored, Exists
<1>2. Spent' /\ writes' # 0
  BY <1>1, BoundsAssumption DEF IInv, Spent
<1>3. /\ tables'.target = tables.target /\ tables'.staging = tables.staging
      /\ tables'.restore = [id |-> "other", data |-> "stranger"]
      /\ tables' \in [{"target", "staging", "restore"} -> [id : Objects, data : Contents] \cup {Absent}]
  BY <1>1 DEF IInv, StoredInv, TablesOK, Objects, Contents
<1>4. /\ Original' = Original /\ Swapped' = Swapped /\ OriginalTable' = OriginalTable
      /\ MigratedTable' = MigratedTable
  BY <1>3 DEF Original, Swapped, OriginalTable, MigratedTable
<1>5. \A d, c : Holds(d, c) => Holds(d, c)'
  BY <1>2 DEF Holds
<1>6. /\ \A l : EntryOK(l) => EntryOK(l)'
      /\ \A p, e : EntryAt(p, e)' <=> EntryAt(p, e)
      /\ \A r : RecordOK(r) => RecordOK(r)'
      /\ \A p, r : RecordAt(p, r) => RecordAt(p, r)'
  BY <1>1, <1>3, <1>4, <1>5 DEF EntryOK, EntryAt, RecordOK, RecordAt, Absent
<1>7. TablesOK' /\ PointOK'
  BY <1>1, <1>3, <1>4, <1>5 DEF IInv, StoredInv, TablesOK, PointOK
<1>8. StoredInv'
  BY <1>1, <1>3, <1>4, <1>6, <1>7 DEF IInv, StoredInv
<1>9. CallAt(agent)' /\ SeenAt(agent)' /\ (EntryStored(agent)' <=> EntryStored(agent))
  BY <1>1, <1>3, <1>4 DEF IInv, AgentOK, CallAt, SeenAt, EntryStored
<1>10. PutAt(agent)'
  BY <1>1, <1>6 DEF IInv, AgentOK, PutAt
<1>11. AgentOK(agent)'
  BY <1>1, <1>6, <1>9, <1>10 DEF IInv, AgentOK
<1>12. QED
  BY <1>2, <1>8, <1>11 DEF IInv

LEMMA LoseLeaseStep == IInv /\ LoseLease => IInv'
<1> SUFFICES ASSUME IInv, LoseLease PROVE IInv'
  OBVIOUS
<1>1. /\ lease' = FALSE /\ writes' = writes /\ calls' = calls /\ faults' = faults /\ crashes' = crashes
      /\ source' = source /\ tables' = tables /\ ledger' = ledger /\ record' = record
      /\ point' = point /\ restored' = restored /\ agent' = agent
  BY DEF LoseLease, data, stored, spent
<1>2. /\ Original' = Original /\ Swapped' = Swapped /\ OriginalTable' = OriginalTable
      /\ MigratedTable' = MigratedTable
      /\ \A d, c : Holds(d, c)' <=> Holds(d, c)
  BY <1>1 DEF Original, Swapped, OriginalTable, MigratedTable, Holds
<1>3. /\ \A l : EntryOK(l)' <=> EntryOK(l)
      /\ \A r : RecordOK(r)' <=> RecordOK(r)
      /\ \A p, e : EntryAt(p, e)' <=> EntryAt(p, e)
      /\ \A p, r : RecordAt(p, r)' <=> RecordAt(p, r)
  BY <1>1, <1>2 DEF EntryOK, RecordOK, EntryAt, RecordAt
<1>4. Spent' /\ TablesOK' /\ PointOK'
  BY <1>1, <1>2 DEF IInv, Spent, StoredInv, TablesOK, PointOK
<1>5. StoredInv'
  BY <1>1, <1>2, <1>3, <1>4 DEF IInv, StoredInv
<1>6. CallAt(agent)' /\ SeenAt(agent)' /\ (EntryStored(agent)' <=> EntryStored(agent))
  BY <1>1, <1>2 DEF IInv, AgentOK, CallAt, SeenAt, EntryStored
<1>7. PutAt(agent)'
  BY <1>1, <1>3 DEF IInv, AgentOK, PutAt
<1>8. AgentOK(agent)'
  BY <1>1, <1>3, <1>6, <1>7 DEF IInv, AgentOK
<1>9. QED
  BY <1>4, <1>5, <1>8 DEF IInv

LEMMA CrashStep == IInv /\ Crash => IInv'
<1> SUFFICES ASSUME IInv, Crash PROVE IInv'
  OBVIOUS
<1>1. /\ agent' = Idle /\ crashes < MaxCrashes /\ crashes' = crashes + 1
      /\ UNCHANGED <<data, stored, point, restored, lease, calls, faults, writes>>
  BY DEF Crash
<1>2. Spent' /\ writes' = writes
  BY <1>1, BoundsAssumption DEF IInv, Spent
<1>3. AgentOK(Idle)
  BY IdleOK DEF IInv
<1>4. QED
  BY <1>1, <1>2, <1>3, AgentMoves

LEMMA Stutter == IInv /\ UNCHANGED vars => IInv'
<1> SUFFICES ASSUME IInv, UNCHANGED vars PROVE IInv'
  OBVIOUS
<1>1. Spent' /\ writes' = writes
  BY FaultSpent DEF vars
<1>2. QED
  BY <1>1, AgentMoves DEF vars, IInv

-----------------------------------------------------------------------------
(* The staging table a transfer fills is there.                            *)

Filling == {"x_intent", "x_transfer"}

LEMMA WhereIs ==
  ASSUME agent \in AgentType
  PROVE  /\ \A e, t : Where(StoreEntry(e, t)) = t
         /\ \A r, t : Where(StoreRecord(r, t)) = t
         /\ \A t : Where(Observe(t)) = t
         /\ \A t : Where(CheckLease(t)) = t
         /\ \A t : Where([Observe(t) EXCEPT !.failed = TRUE]) = t
         /\ \A t : t \notin Waiting => Where(Goto(t)) = t
         /\ Where(Idle) = "idle" /\ Where(Unseen) \in {"idle", "m_settle", "b_settle"}
<1>1. /\ \A e, t : Where(StoreEntry(e, t)) = t
      /\ \A r, t : Where(StoreRecord(r, t)) = t
      /\ \A t : Where(Observe(t)) = t
      /\ \A t : Where(CheckLease(t)) = t
  BY AgentFields DEF Where, Waiting
<1>2. \A t : Where([Observe(t) EXCEPT !.failed = TRUE]) = t
  BY DEF Where, Waiting, Observe, AgentType
<1>3. Where(Idle) = "idle"
  BY DEF Where, Idle, Waiting
<1>4. \A t : t \notin Waiting => Where(Goto(t)) = t
  BY <1>3, AgentFields DEF Where, Goto
<1>5. Where(Unseen) \in {"idle", "m_settle", "b_settle"}
  BY <1>3 DEF Unseen, Where, Waiting, AgentType
<1>6. QED
  BY <1>1, <1>2, <1>3, <1>4, <1>5

\* Only the creation of staging leads to its filling.
LEMMA RestoreElsewhere ==
  IInv /\ (RestorePoint \/ RestoredCleanup) => Where(agent)' \notin Filling
<1> SUFFICES ASSUME IInv, agent \in AgentType
             PROVE  RestorePoint \/ RestoredCleanup => Where(agent)' \notin Filling
  BY DEF IInv, AgentOK
<1> USE DEF Filling, Waiting
<1>1. FingerprintTarget => Where(agent)' \notin Filling
  BY DEF FingerprintTarget, Where, AgentType
<1>2. EnsureRecord => Where(agent)' \notin Filling
  BY WhereIs DEF EnsureRecord, Where, AgentType
<1>3. InspectRestore => Where(agent)' \notin Filling
  <2> SUFFICES ASSUME InspectRestore PROVE Where(agent)' \notin Filling
    OBVIOUS
  <2>1. agent.rec.state \in {"intent", "creating", "ready"}
    BY AtRecord DEF InspectRestore, At, CreatePcs, RecordAt
  <2>2. \/ agent' = Idle
        \/ \E p \in {"c_verify", "c_create", "c_prove"} : agent' = Goto(p)
        \/ \E r, t : t \in {"c_verify", "c_create", "idle"} /\ agent' = StoreRecord(r, t)
    <3>1. CASE agent.rec.baseline = "empty"
      BY <2>1, <3>1 DEF InspectRestore
    <3>2. CASE agent.rec.baseline # "empty" /\ agent.rec.state = "ready"
      BY <3>2 DEF InspectRestore
    <3>3. CASE agent.rec.baseline # "empty" /\ agent.rec.state = "intent"
      BY <3>3 DEF InspectRestore
    <3>4. CASE agent.rec.baseline # "empty" /\ agent.rec.state = "creating"
      BY <3>4 DEF InspectRestore
    <3>5. QED
      BY <2>1, <3>1, <3>2, <3>3, <3>4
  <2>3. QED
    BY <2>2, WhereIs
<1>4. CreateCopy => Where(agent)' \notin Filling
  BY WhereIs DEF CreateCopy, Statement
<1>5. FillCopy \/ ProveCopy \/ CopyReady \/ VerifyPoint => Where(agent)' \notin Filling
  BY WhereIs DEF FillCopy, ProveCopy, CopyReady, VerifyPoint
<1>6. VerifyRestored => Where(agent)' \notin Filling
  BY WhereIs DEF VerifyRestored, Where, AgentType
<1>7. CleanupStaging \/ CleanupRestore => Where(agent)' \notin Filling
  BY WhereIs DEF CleanupStaging, CleanupRestore, Statement
<1>8. RestoreGone \/ Cleaned => Where(agent)' \notin Filling
  BY WhereIs DEF RestoreGone, Cleaned
<1>9. QED
  BY <1>1, <1>2, <1>3, <1>4, <1>5, <1>6, <1>7, <1>8 DEF RestorePoint, RestoredCleanup

LEMMA RollbackElsewhere ==
  IInv /\ (Rollback \/ StagingCleanup) => Where(agent)' \notin Filling
<1> SUFFICES ASSUME IInv, agent \in AgentType
             PROVE  Rollback \/ StagingCleanup => Where(agent)' \notin Filling
  BY DEF IInv, AgentOK
<1> USE DEF Filling, Waiting
<1>1. RollbackFromLedger => Where(agent)' \notin Filling
  <2> SUFFICES ASSUME RollbackFromLedger PROVE Where(agent)' \notin Filling
    OBVIOUS
  <2>1. \/ \E p \in {"restored", "k_exists", "k_begin"} : agent' = [agent EXCEPT !.pc = p, !.entry = ledger]
        \/ \E p \in {"b_guard", "b_reconcile", "b_again"} : agent' = [CheckLease(p) EXCEPT !.entry = ledger]
    BY DEF RollbackFromLedger
  <2>2. \A p \in {"restored", "k_exists", "k_begin"} :
          Where([agent EXCEPT !.pc = p, !.entry = ledger]) = p
    BY DEF Where, AgentType
  <2>3. \A p \in {"b_guard", "b_reconcile", "b_again"} :
          Where([CheckLease(p) EXCEPT !.entry = ledger]) = p
    BY DEF Where, AgentType, CheckLease
  <2>4. QED
    BY <2>1, <2>2, <2>3
<1>2. ReconcileCommit \/ RollbackGuard => Where(agent)' \notin Filling
  BY WhereIs DEF ReconcileCommit, RollbackGuard, Guard
<1>3. SettleReconciled \/ RollbackIntent => Where(agent)' \notin Filling
  BY WhereIs DEF SettleReconciled, RollbackIntent
<1>4. SettleRollback => Where(agent)' \notin Filling
  BY WhereIs DEF SettleRollback
<1>5. RollbackExchange \/ AnswerRestored => Where(agent)' \notin Filling
  BY WhereIs DEF RollbackExchange, Exchange, Statement, AnswerRestored
<1>6. CleanupIntent \/ CleanupExists => Where(agent)' \notin Filling
  BY WhereIs DEF CleanupIntent, CleanupExists, CleanedUp
<1>7. DropStaging \/ CleanupCheck => Where(agent)' \notin Filling
  BY WhereIs DEF DropStaging, Statement, CleanupCheck, CleanedUp
<1>8. QED
  BY <1>1, <1>2, <1>3, <1>4, <1>5, <1>6, <1>7 DEF Rollback, StagingCleanup

LEMMA ApplyElsewhere ==
  IInv /\ Apply => Where(agent)' \notin Filling \/ CreateStaging \/ TransferIntent
<1> SUFFICES ASSUME IInv, agent \in AgentType
             PROVE  Apply => Where(agent)' \notin Filling \/ CreateStaging \/ TransferIntent
  BY DEF IInv, AgentOK
<1> USE DEF Filling, Waiting
<1>1. ExecuteFromLedger => Where(agent)' \notin Filling
  <2> SUFFICES ASSUME ExecuteFromLedger PROVE Where(agent)' \notin Filling
    OBVIOUS
  <2> DEFINE first == [NoEntry EXCEPT !.state = "planned"]
  <2>1. \/ agent' = Idle
        \/ agent' = [agent EXCEPT !.pc = "x_source", !.entry = first]
        \/ \E p \in {"r_source", "k_begin", "k_exists"} : agent' = [agent EXCEPT !.pc = p, !.entry = ledger]
    BY DEF ExecuteFromLedger, NoEntry, Begun, CleanupOwned
  <2> HIDE DEF first
  <2>2. /\ Where([agent EXCEPT !.pc = "x_source", !.entry = first]) = "x_source"
        /\ \A p \in {"r_source", "k_begin", "k_exists"} :
             Where([agent EXCEPT !.pc = p, !.entry = ledger]) = p
    BY DEF Where, AgentType
  <2>3. QED
    BY <2>1, <2>2, WhereIs
<1>2. ReconcileSource => Where(agent)' \notin Filling
  BY WhereIs DEF ReconcileSource, Where, AgentType
<1>3. ReconcileExists \/ ReconciledVerified => Where(agent)' \notin Filling
  BY WhereIs DEF ReconcileExists, ReconciledVerified
<1>4. ReconcileStaging => Where(agent)' \notin Filling
  BY WhereIs DEF ReconcileStaging
<1>5. RecordSource \/ DropStale => Where(agent)' \notin Filling
  BY WhereIs DEF RecordSource, DropStale, Statement, FailAndRollback
<1>6. Transfer \/ VerifyStaging => Where(agent)' \notin Filling
  BY WhereIs DEF Transfer, VerifyStaging, FailAndRollback
<1>7. LoadVerified \/ CompareSource \/ EmptySource => Where(agent)' \notin Filling
  BY WhereIs DEF LoadVerified, CompareSource, EmptySource
<1>8. CommitGuard \/ CommitIntent => Where(agent)' \notin Filling
  BY WhereIs DEF CommitGuard, Guard, CommitIntent
<1>9. CommitExchange \/ SettleCommit => Where(agent)' \notin Filling
  BY WhereIs DEF CommitExchange, Exchange, Statement, SettleCommit
<1>10. QED
  BY <1>1, <1>2, <1>3, <1>4, <1>5, <1>6, <1>7, <1>8, <1>9 DEF Apply

LEMMA MadeKept == SInv /\ [Next]_vars => StagingMade'
<1> SUFFICES ASSUME IInv, StagingMade, agent \in AgentType, [Next]_vars PROVE StagingMade'
  BY DEF SInv, IInv, AgentOK
<1>1. Where(agent)' \notin Filling => StagingMade'
  BY DEF StagingMade, Filling
<1>2. tables' = tables /\ (Where(agent)' = Where(agent) \/ Where(agent) \in Filling) => StagingMade'
  BY DEF StagingMade, Filling, Exists
<1>3. CASE RestorePoint \/ RestoredCleanup \/ Rollback \/ StagingCleanup
  BY <1>1, <1>3, RestoreElsewhere, RollbackElsewhere
<1>4. CASE Apply
  <2>1. CASE CreateStaging
    <3>1. CASE Where(agent)' \in Filling
      <4>1. tables' = Created("staging", "migrated")
        BY <2>1, <3>1, WhereIs DEF CreateStaging, Statement, FailAndRollback, Filling
      <4>2. tables'.staging.id = "migrated"
        BY <4>1 DEF Created, IInv, StoredInv, TablesOK
      <4>3. QED
        BY <4>2 DEF StagingMade, Exists, Absent
    <3>2. QED
      BY <1>1, <3>1
  <2>2. CASE TransferIntent
    BY <1>2, <2>2 DEF TransferIntent, At, Quiet, data, Where, Waiting, Filling
  <2>3. QED
    BY <1>1, <1>4, <2>1, <2>2, ApplyElsewhere
<1>5. CASE PutLedger \/ PutRestore \/ ValidateLease
  <2>1. tables' = tables /\ (agent' = Idle \/ agent' = Goto(agent.then)) /\ Where(agent) = agent.then
    BY <1>5 DEF PutLedger, PutRestore, ValidateLease, At, Quiet, data, Where, Waiting
  <2>2. agent.then \notin Waiting
    BY DEF AgentType
  <2>3. QED
    BY <1>1, <1>2, <2>1, <2>2, WhereIs DEF Filling
<1>6. CASE ReadFails
  <2>1. agent' = Idle \/ agent' = Unseen
    BY <1>6 DEF ReadFails
  <2>2. QED
    BY <1>1, <2>1, WhereIs DEF Filling
<1>7. CASE SeeTarget \/ SeeStaging
  <2>1. \/ agent' = Unseen
        \/ tables' = tables /\ Where(agent)' = Where(agent)
    BY <1>7 DEF SeeTarget, SeeStaging, At, Quiet, data, Where, Waiting, AgentType
  <2>2. QED
    BY <1>1, <1>2, <2>1, WhereIs DEF Filling
<1>8. ASSUME NEW kind \in {"create", "apply", "rollback", "cleanup"}, Call(kind)
      PROVE  StagingMade'
  <2>1. tables' = tables /\ agent = Idle
    BY <1>8 DEF Call, data
  <2>2. Where(agent)' \in {"c_target", "v_check", "get"}
    BY <1>8 DEF Call, Where, Waiting, Idle
  <2>3. QED
    BY <1>1, <2>2 DEF Filling
<1>9. CASE SourceWrite \/ TargetWrite \/ NameTaken
  <2>1. agent' = agent /\ tables'.staging = tables.staging
    BY <1>9 DEF SourceWrite, TargetWrite, NameTaken, Written, IInv, StoredInv, TablesOK
  <2>2. QED
    BY <2>1 DEF StagingMade, Exists, Where
<1>10. CASE LoseLease \/ UNCHANGED vars
  <2>1. agent' = agent /\ tables' = tables
    BY <1>10 DEF LoseLease, vars, data
  <2>2. QED
    BY <2>1 DEF StagingMade, Exists, Where
<1>11. CASE Crash
  BY <1>1, <1>11, WhereIs DEF Crash, Filling
<1>12. QED
  BY <1>3, <1>4, <1>5, <1>6, <1>7, <1>8, <1>9, <1>10, <1>11 DEF Next

-----------------------------------------------------------------------------
(* The theorems.                                                           *)

LEMMA MigrationInit == Init => SInv
<1> SUFFICES ASSUME Init PROVE SInv
  OBVIOUS
<1>1. /\ ledger = NoEntry /\ record = NoRecord /\ point = NoPoint /\ restored = FALSE /\ lease = TRUE
      /\ agent = Idle /\ source \in Sources /\ Original /\ OriginalTable.data \in Baselines
      /\ tables.restore = Absent /\ tables.staging = Absent
      /\ tables \in [{"target", "staging", "restore"} -> [id : Objects, data : Contents] \cup {Absent}]
  BY DEF Init, Sources, Baselines, Original, OriginalTable, Absent, Objects, Contents
<1>2. StoredInv
  <2>1. TablesOK
    BY <1>1 DEF TablesOK, NoRecord, Absent
  <2>2. PointOK
    BY <1>1 DEF PointOK, NoEntry
  <2>3. restored \in BOOLEAN /\ lease \in BOOLEAN /\ ~restored
    BY <1>1
  <2>4. tables.restore.id # "copy"
    BY <1>1 DEF Absent
  <2>5. QED
    BY <1>1, <2>1, <2>2, <2>3, <2>4 DEF StoredInv
<1>3. Spent
  BY BoundsAssumption DEF Init, Spent
<1>4. AgentOK(agent)
  BY <1>1, <1>2, IdleOK
<1>5. StagingMade
  BY <1>1 DEF StagingMade, Where, Waiting, Idle
<1>6. QED
  BY <1>2, <1>3, <1>4, <1>5 DEF SInv, IInv

LEMMA MigrationStep == SInv /\ [Next]_vars => SInv'
<1> SUFFICES ASSUME SInv, [Next]_vars PROVE SInv'
  OBVIOUS
<1>1. IInv
  BY DEF SInv
<1>2. IInv'
  <2>1. ASSUME NEW kind \in {"create", "apply", "rollback", "cleanup"}, Call(kind)
        PROVE  IInv'
    BY <1>1, <2>1, CallStep
  <2>2. CASE PutLedger \/ PutRestore \/ ValidateLease \/ ReadFails \/ SeeTarget \/ SeeStaging
    BY <1>1, <2>2, PutLedgerStep, PutRestoreStep, ValidateLeaseStep, ReadFailsStep, SeeTargetStep,
       SeeStagingStep
  <2>3. CASE RestorePoint \/ Apply \/ Rollback \/ StagingCleanup \/ RestoredCleanup
    BY <1>1, <2>3, RestorePointStep, ApplyStep, RollbackStep, StagingCleanupStep, RestoredCleanupStep
  <2>4. CASE SourceWrite \/ TargetWrite \/ NameTaken \/ LoseLease \/ Crash
    BY <1>1, <2>4, SourceWriteStep, TargetWriteStep, NameTakenStep, LoseLeaseStep, CrashStep
  <2>5. CASE UNCHANGED vars
    BY <1>1, <2>5, Stutter
  <2>6. QED
    BY <2>1, <2>2, <2>3, <2>4, <2>5 DEF Next
<1>3. QED
  BY <1>2, MadeKept DEF SInv

\* The inductive invariant: the entry in store and the entry under way fit
\* the tables, and what the Agent has seen tells which table serves.
THEOREM MigrationInvariance == Spec => []SInv
BY MigrationInit, MigrationStep, PTL DEF Spec

LEMMA KeptByInvariant == SInv => DataKept
<1> SUFFICES ASSUME SInv PROVE DataKept
  OBVIOUS
<1>1. IInv /\ StoredInv /\ Spent
  BY DEF SInv, IInv
<1>2. ledger \in [state : LedgerStates, checkpoint : Checkpoints, source : Contents] \cup {NoEntry}
  BY <1>1 DEF StoredInv, EntryOK, EntryType, Sources, Contents
<1>3. record \in [state : RestoreStates, baseline : Contents, object : Objects \cup {"none"}] \cup {NoRecord}
  BY <1>1 DEF StoredInv, RecordOK, RecordType, Baselines, Contents, Objects
<1>4. point \in [baseline : Contents, object : Objects \cup {"none"}] \cup {NoPoint}
  BY <1>1 DEF StoredInv, PointOK, Baselines, Contents, Objects
<1>5. source \in Contents /\ agent.failed \in BOOLEAN
  BY <1>1 DEF StoredInv, Sources, Contents, IInv, AgentOK, AgentType
<1>6. TypeOK
  BY <1>1, <1>2, <1>3, <1>4, <1>5 DEF TypeOK, StoredInv, TablesOK, Spent
<1>7. OriginalKept
  BY <1>1 DEF OriginalKept, StoredInv, TablesOK, Original, Swapped
<1>8. CopyKept
  BY <1>1 DEF CopyKept, StoredInv, RecordOK, TablesOK, NoRecord, Exists, Absent
<1>9. QED
  BY <1>6, <1>7, <1>8 DEF DataKept

\* Whatever fails, crashes or is written meanwhile, the table that served the
\* target exists under one of the run's names, and so does the copy of its
\* data for as long as the record calls it ready (commit.go, cleanup of
\* staging; restore_adapter.go, inspect and Cleanup).
THEOREM DataIsKept == Spec => []DataKept
BY MigrationInvariance, KeptByInvariant, PTL

LEMMA SoundByInvariant == SInv => LedgerSound
<1> SUFFICES ASSUME SInv PROVE LedgerSound
  OBVIOUS
<1>1. IInv /\ StoredInv /\ AgentOK(agent)
  BY DEF SInv, IInv
<1>2. CheckpointsOwned
  BY <1>1, OwnedEntries DEF CheckpointsOwned, StoredInv, EntryOK, NoEntry
<1>3. LaterWritesAccepted
  <2>1. ledger # NoEntry => ledger.state # "none"
    BY <1>1 DEF StoredInv, EntryOK, EntryType, LedgerStates
  <2>2. QED
    BY <1>1, <2>1 DEF LaterWritesAccepted, WritesAccepted, At, AgentOK, PutAt
<1>4. ClaimsVerify
  <2> SUFFICES ASSUME writes = 0
               PROVE  /\ ledger.state = "committed" => MigrationVerified
                      /\ restored => RollbackVerified
    BY DEF ClaimsVerify
  <2>1. CASE ledger.state = "committed"
    <3>1. EntryOK(ledger) /\ WordOf(ledger) = "migrated" /\ ~restored
      BY <1>1, <2>1, Words DEF StoredInv, NoEntry
    <3>2. Swapped /\ MigratedTable.data = ledger.source
      BY <3>1 DEF EntryOK, Exchanging, Holds
    <3>3. QED
      BY <2>1, <3>1, <3>2 DEF MigrationVerified, Swapped, MigratedTable
  <2>2. CASE restored
    <3>1. Original
      BY <1>1, <2>2, Words DEF StoredInv, EntryOK, NoEntry
    <3>2. point # NoPoint /\ OriginalTable.data = point.baseline
      BY <1>1, <2>2 DEF StoredInv, PointOK, Holds
    <3>3. ledger.state # "committed"
      BY <1>1, <2>2 DEF StoredInv
    <3>4. QED
      BY <2>2, <3>1, <3>2, <3>3 DEF RollbackVerified, Original, OriginalTable
  <2>3. QED
    BY <2>1, <2>2
<1>5. QED
  BY <1>2, <1>3, <1>4 DEF LedgerSound

\* Recovery recognises every stored checkpoint, the store accepts what an
\* engine writes next, and a claim nobody's write made stale survives its
\* verification (execution.go, reconcile; commit.go, settle;
\* clickhouse_ledger.go).
THEOREM LedgerIsSound == Spec => []LedgerSound
BY MigrationInvariance, SoundByInvariant, PTL

-----------------------------------------------------------------------------
(* What the steps do to the ledger and to the tables.                      *)

Steady == ledger' = ledger /\ tables' = tables

LEMMA QuietIsSteady == Quiet => Steady
BY DEF Quiet, Steady, data, stored

LEMMA AgentIsSteady ==
  \/ ValidateLease \/ ReadFails \/ SeeTarget \/ SeeStaging \/ PutRestore
  \/ FingerprintTarget \/ EnsureRecord \/ InspectRestore \/ ProveCopy \/ CopyReady \/ VerifyPoint
  \/ ExecuteFromLedger \/ ReconcileSource \/ ReconcileExists \/ ReconcileStaging
  \/ ReconciledVerified \/ RecordSource \/ TransferIntent \/ VerifyStaging \/ LoadVerified
  \/ CompareSource \/ EmptySource \/ CommitGuard \/ CommitIntent \/ SettleCommit
  => Steady
<1>1. ReadFails \/ PutRestore \/ VerifyPoint \/ VerifyStaging => Steady
  BY DEF ReadFails, PutRestore, VerifyPoint, VerifyStaging, Steady, data, stored
<1>2. ValidateLease \/ SeeTarget \/ SeeStaging => Steady
  BY QuietIsSteady DEF ValidateLease, SeeTarget, SeeStaging
<1>3. FingerprintTarget \/ EnsureRecord \/ InspectRestore \/ ProveCopy \/ CopyReady => Steady
  BY QuietIsSteady DEF FingerprintTarget, EnsureRecord, InspectRestore, ProveCopy, CopyReady
<1>4. ExecuteFromLedger \/ ReconcileSource \/ ReconcileExists \/ ReconcileStaging => Steady
  BY QuietIsSteady DEF ExecuteFromLedger, ReconcileSource, ReconcileExists, ReconcileStaging
<1>5. ReconciledVerified \/ RecordSource \/ TransferIntent \/ LoadVerified \/ CompareSource => Steady
  BY QuietIsSteady DEF ReconciledVerified, RecordSource, TransferIntent, LoadVerified, CompareSource
<1>6. EmptySource \/ CommitGuard \/ CommitIntent \/ SettleCommit => Steady
  BY QuietIsSteady DEF EmptySource, CommitGuard, Guard, CommitIntent, SettleCommit
<1>7. QED
  BY <1>1, <1>2, <1>3, <1>4, <1>5, <1>6

LEMMA UndoingIsSteady ==
  \/ RollbackFromLedger \/ ReconcileCommit \/ SettleReconciled \/ RollbackGuard
  \/ RollbackIntent \/ SettleRollback \/ AnswerRestored
  \/ CleanupIntent \/ CleanupExists \/ CleanupCheck
  \/ VerifyRestored \/ RestoreGone \/ Cleaned \/ SourceWrite \/ LoseLease \/ Crash
  \/ UNCHANGED vars
  => Steady
<1>1. AnswerRestored \/ SourceWrite \/ LoseLease \/ Crash \/ UNCHANGED vars => Steady
  BY DEF AnswerRestored, SourceWrite, Written, LoseLease, Crash, Steady, vars, data, stored
<1>2. RollbackFromLedger \/ ReconcileCommit \/ SettleReconciled \/ RollbackGuard => Steady
  BY QuietIsSteady DEF RollbackFromLedger, ReconcileCommit, SettleReconciled, RollbackGuard, Guard
<1>3. RollbackIntent \/ SettleRollback \/ CleanupIntent \/ CleanupExists \/ CleanupCheck => Steady
  BY QuietIsSteady DEF RollbackIntent, SettleRollback, CleanupIntent, CleanupExists, CleanupCheck
<1>4. VerifyRestored \/ RestoreGone \/ Cleaned => Steady
  BY QuietIsSteady DEF VerifyRestored, RestoreGone, Cleaned
<1>5. QED
  BY <1>1, <1>2, <1>3, <1>4

LEMMA Stating ==
  ASSUME NEW pc, NEW effect, NEW a, NEW b, Statement(pc, effect, a, b)
  PROVE  ledger' = ledger /\ tables' \in {tables, effect}
BY DEF Statement, stored

\* The tables change by the statements of the Agent and by the writes of others.
LEMMA TablesChange ==
  [Next]_vars =>
    \/ Steady
    \/ PutLedger /\ tables' = tables
    \/ CommitExchange \/ RollbackExchange
    \/ ledger' = ledger /\ \/ CreateCopy \/ FillCopy \/ DropStale \/ CreateStaging \/ Transfer
                           \/ DropStaging \/ CleanupStaging \/ CleanupRestore
                           \/ TargetWrite \/ NameTaken
<1> SUFFICES ASSUME [Next]_vars, ~Steady, ~CommitExchange, ~RollbackExchange
             PROVE  \/ PutLedger /\ tables' = tables
                    \/ ledger' = ledger /\ \/ CreateCopy \/ FillCopy \/ DropStale \/ CreateStaging
                                           \/ Transfer \/ DropStaging \/ CleanupStaging
                                           \/ CleanupRestore \/ TargetWrite \/ NameTaken
  OBVIOUS
<1>1. \A kind \in {"create", "apply", "rollback", "cleanup"} : ~Call(kind)
  BY DEF Call, Steady, data, stored
<1>2. PutLedger => tables' = tables
  BY DEF PutLedger, data
<1>3. CreateCopy \/ DropStale \/ CreateStaging \/ DropStaging \/ CleanupStaging \/ CleanupRestore
      => ledger' = ledger
  BY Stating, QuietIsSteady
     DEF CreateCopy, DropStale, CreateStaging, DropStaging, CleanupStaging, CleanupRestore, Steady
<1>4. FillCopy \/ Transfer \/ TargetWrite \/ NameTaken => ledger' = ledger
  BY DEF FillCopy, Transfer, TargetWrite, NameTaken, Written, stored
<1>5. QED
  BY <1>1, <1>2, <1>3, <1>4, AgentIsSteady, UndoingIsSteady
     DEF Next, RestorePoint, Apply, Rollback, StagingCleanup, RestoredCleanup

LEMMA ServingChanges ==
  ASSUME SInv, [Next]_vars
  PROVE  \/ ledger' = ledger /\ tables'.target.id = tables.target.id
         \/ PutLedger /\ tables' = tables
         \/ CommitExchange \/ RollbackExchange
<1>1. tables \in [{"target", "staging", "restore"} -> [id : Objects, data : Contents] \cup {Absent}]
      /\ tables.target.id # "none"
  BY DEF SInv, IInv, StoredInv, TablesOK, Original, Swapped
<1>2. ASSUME ledger' = ledger, CreateCopy \/ DropStale \/ CreateStaging \/ DropStaging
                               \/ CleanupStaging \/ CleanupRestore
      PROVE  tables'.target.id = tables.target.id
  <2>1. tables' \in {tables, Created("restore", "copy"), Without("staging"),
                     Created("staging", "migrated"), Without("restore")}
    BY <1>2, Stating, QuietIsSteady
       DEF CreateCopy, DropStale, CreateStaging, DropStaging, CleanupStaging, CleanupRestore, Steady
  <2>2. QED
    BY <1>1, <2>1 DEF Created, Without
<1>3. ASSUME FillCopy \/ Transfer \/ NameTaken \/ TargetWrite
      PROVE  tables'.target.id = tables.target.id
  <2>1. CASE FillCopy
    BY <1>1, <2>1 DEF FillCopy
  <2>2. CASE Transfer
    BY <1>1, <2>2 DEF Transfer
  <2>3. CASE NameTaken
    BY <1>1, <2>3 DEF NameTaken
  <2>4. CASE TargetWrite
    BY <1>1, <2>4 DEF TargetWrite, Absent
  <2>5. QED
    BY <1>3, <2>1, <2>2, <2>3, <2>4
<1>4. QED
  BY <1>2, <1>3, TablesChange DEF Steady

-----------------------------------------------------------------------------
(* The cutover's promise: SeenAt and EntryOK say which table serves when   *)
(* the ledger claims to know, and an EXCHANGE is issued only after it has  *)
(* stopped claiming.                                                       *)

LEMMA Stored ==
  ASSUME SInv, PutLedger
  PROVE  ledger' = ledger \/
           /\ EntryOK(agent.entry) /\ ledger' = agent.entry
           /\ WordStep(WordOf(ledger), WordOf(agent.entry))
<1>1. agent.pc = "put_ledger" /\ ledger' \in {ledger, agent.entry}
  BY DEF PutLedger, At
<1>2. QED
  BY <1>1 DEF SInv, IInv, AgentOK, PutAt

LEMMA Serves ==
  SInv => /\ tables.target.id \in {"original", "migrated"}
          /\ Original => tables.target.id = "original"
          /\ Swapped => tables.target.id = "migrated"
          /\ WordOf(ledger) = "original" => Original
          /\ WordOf(ledger) = "migrated" => Swapped
<1> SUFFICES ASSUME SInv
             PROVE  /\ tables.target.id \in {"original", "migrated"}
                    /\ WordOf(ledger) = "original" => Original
                    /\ WordOf(ledger) = "migrated" => Swapped
  BY DEF Original, Swapped
<1>1. tables.target.id \in {"original", "migrated"}
  BY DEF SInv, IInv, StoredInv, TablesOK, Original, Swapped
<1>2. WordOf(NoEntry) = "original"
  BY Words DEF NoEntry
<1>3. QED
  BY <1>1, <1>2 DEF SInv, IInv, StoredInv, EntryOK

LEMMA Exchanges ==
  ASSUME SInv, CommitExchange \/ RollbackExchange
  PROVE  /\ ledger' = ledger /\ WordOf(ledger) = "unsure"
         /\ tables'.target.id \in {"original", "migrated"}
<1>1. /\ Exists("staging") /\ agent.pc \in {"m_exchange", "b_exchange"}
      /\ ledger' = ledger /\ tables' \in {tables, Exchanged}
  BY DEF CommitExchange, RollbackExchange, Exchange, Statement, At, stored
<1>2. /\ Where(agent) = agent.pc /\ agent.pc \in EntryPcs /\ agent.pc # "x_source"
      /\ agent.pc # "put_ledger"
  BY <1>1 DEF Where, Waiting, EntryPcs, CommitPcs, RollbackPcs
<1>3. AgentOK(agent)
  BY DEF SInv, IInv
<1>4. EntryAt(agent.pc, ledger)
  BY <1>2, <1>3 DEF AgentOK, EntryStored
<1>5. WordOf(ledger) = "unsure"
  BY <1>1, <1>4, Words DEF EntryAt
<1>6. tables.staging.id \in {"original", "migrated"} /\ tables.target.id \in {"original", "migrated"}
  BY <1>1 DEF SInv, IInv, StoredInv, TablesOK, Original, Swapped, Exists, Absent, Objects
<1>7. Exchanged.target = tables.staging
  BY DEF Exchanged, SInv, IInv, StoredInv, TablesOK
<1>8. QED
  BY <1>1, <1>5, <1>6, <1>7

LEMMA CutoverInit == Init => Promise!Init
<1> SUFFICES ASSUME Init PROVE Promise!Init
  OBVIOUS
<1>1. tables.target.id = "original" /\ WordOf(ledger) = "original"
  BY Words DEF Init, NoEntry
<1>2. QED
  BY <1>1, WordIsWord DEF Promise!Init

LEMMA CutoverStep ==
  ASSUME SInv, SInv', [Next]_vars
  PROVE  [Promise!Next]_(Promise!cutoverVars)
<1> DEFINE to == tables'.target.id
<1>1. Word = WordOf(ledger) /\ Word' = WordOf(ledger')
  BY WordIsWord, WordIsWord' DEF WordOf, Word, CleanupOwned
<1>2. tables.target.id \in {"original", "migrated"}
  BY Serves
<1>3. CASE ledger' = ledger /\ to = tables.target.id
  BY <1>1, <1>3 DEF Promise!cutoverVars
<1>4. CASE CommitExchange \/ RollbackExchange
  <2>1. /\ Word' = Word /\ Word = "unsure" /\ to \in {"original", "migrated"}
    BY <1>1, <1>4, Exchanges
  <2>2. CASE to = tables.target.id
    BY <2>1, <2>2 DEF Promise!cutoverVars
  <2>3. CASE to # tables.target.id
    <3>1. Promise!Move
      BY <1>2, <2>1, <2>3 DEF Promise!Move
    <3>2. QED
      BY <3>1 DEF Promise!Next
  <2>4. QED
    BY <2>2, <2>3
<1>5. CASE PutLedger /\ tables' = tables
  <2>1. to = tables.target.id
    BY <1>5
  <2>2. CASE ledger' = ledger
    BY <1>3, <2>1, <2>2
  <2>3. CASE /\ EntryOK(agent.entry) /\ ledger' = agent.entry
             /\ WordStep(WordOf(ledger), WordOf(agent.entry))
    <3>1. WordStep(Word, Word') /\ Word' \in {"original", "migrated", "manual", "unsure"}
      BY <1>1, <2>3, Words
    <3>2. Word' \in {"original", "migrated"} => Word' = tables.target.id
      BY <1>1, <2>3, Serves DEF EntryOK
    <3>3. Word' = Word => [Promise!Next]_(Promise!cutoverVars)
      BY <2>1 DEF Promise!cutoverVars
    <3>4. Word = "unsure" /\ Word' \in {"original", "migrated"} => Promise!Settle
      BY <2>1, <3>2 DEF Promise!Settle
    <3>5. Word \in {"unsure", "migrated"} /\ Word' = "manual" => Promise!GiveUp
      BY <2>1 DEF Promise!GiveUp
    <3>6. Word \in {"original", "migrated"} /\ Word' = "unsure" => Promise!Announce
      BY <2>1 DEF Promise!Announce
    <3>7. QED
      BY <3>1, <3>3, <3>4, <3>5, <3>6 DEF WordStep, Promise!Next
  <2>4. QED
    BY <1>5, <2>2, <2>3, Stored
<1>6. QED
  BY <1>3, <1>4, <1>5, ServingChanges

\* The object at the name of the copy is dropped only when it is the copy.
LEMMA StrangersStep ==
  ASSUME SInv, [Next]_vars, tables.restore.id = "other"
  PROVE  tables'.restore.id = "other"
<1>1. /\ tables \in [{"target", "staging", "restore"} -> [id : Objects, data : Contents] \cup {Absent}]
      /\ tables.restore # Absent /\ Exists("restore")
  BY DEF SInv, IInv, StoredInv, TablesOK, Absent, Exists
<1>2. CASE DropStale \/ CreateStaging \/ DropStaging \/ CleanupStaging
  <2>1. tables' \in {tables, Without("staging"), Created("staging", "migrated")}
    BY <1>2, Stating, QuietIsSteady
       DEF DropStale, CreateStaging, DropStaging, CleanupStaging, Steady
  <2>2. QED
    BY <1>1, <2>1 DEF Created, Without
<1>3. CASE CommitExchange \/ RollbackExchange
  <2>1. tables' \in {tables, Exchanged}
    BY <1>3 DEF CommitExchange, RollbackExchange, Exchange, Statement
  <2>2. QED
    BY <1>1, <2>1 DEF Exchanged
<1>4. CASE Transfer
  BY <1>1, <1>4 DEF Transfer
<1>5. CASE TargetWrite
  BY <1>1, <1>5 DEF TargetWrite
<1>6. ~NameTaken
  BY <1>1 DEF NameTaken
<1>7. CASE CreateCopy
  BY <1>1, <1>7, QuietIsSteady DEF CreateCopy, Steady
<1>8. ~FillCopy
  <2> SUFFICES ASSUME FillCopy PROVE FALSE
    OBVIOUS
  <2>1. agent.pc = "c_copy" /\ IInv
    BY DEF FillCopy, At, SInv
  <2>2. tables.restore.id = "copy"
    BY <2>1, AtRecord DEF CreatePcs, CleanupPcs, RecordAt
  <2>3. QED
    BY <2>2
<1>9. CASE CleanupRestore
  <2>1. point # NoPoint /\ (point.baseline # "empty" => point.object = "copy")
    <3>1. agent.pc = "d_restore"
      BY <1>9 DEF CleanupRestore, Statement, At
    <3>2. restored
      BY <3>1 DEF SInv, IInv, AgentOK, CallAt, Where, Waiting, CleanupPcs
    <3>3. QED
      BY <3>2 DEF SInv, IInv, StoredInv, PointOK
  <2>2. Quiet
    BY <1>9, <2>1 DEF CleanupRestore
  <2>3. QED
    BY <2>2, QuietIsSteady DEF Steady
<1>10. QED
  BY <1>2, <1>3, <1>4, <1>5, <1>6, <1>7, <1>8, <1>9, TablesChange DEF Steady

\* The run touches what it announced and what is its own: the target name
\* moves only after the ledger stopped claiming to know which table serves,
\* a ledger that claims it again is right, and an object somebody else put
\* at the name of the copy is never dropped (commit.go, Commit and Rollback;
\* restore_adapter.go, Cleanup).
THEOREM MigrationKeepsItsPromise == Spec => MigrationPromise
<1>1. SInv /\ SInv' /\ [Next]_vars => [Promise!Next]_(Promise!cutoverVars)
  BY CutoverStep
<1>2. SInv /\ [Next]_vars => [tables.restore.id = "other" => tables'.restore.id = "other"]_vars
  BY StrangersStep
<1>3. QED
  BY <1>1, <1>2, CutoverInit, MigrationInvariance, PTL
     DEF Spec, MigrationPromise, CutoverPromise, StrangersKept, Promise!Spec
=============================================================================
