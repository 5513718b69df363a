# Setpoint in TLA+

A verification project kept beside the Go sources of Setpoint: a Server that
plans, confirms and coordinates *operation runs* on nodes, and Agents that poll
it for tasks, execute them and report. The modules model the code under
`src/app/internal`; TLC checks them on small instances, and TLAPS proves what
matters most for every value of the constants. `PROJECT.json` maps each
definition to the lines it models and lists the hazards the properties are for.

## 1. The system

| Component | State it keeps | Operations | Hard about it | Modelled in |
|---|---|---|---|---|
| Operation run coordination (`app/product_workflow.go`) | a mutex for confirm and cancel; the rest is in storage | Confirm, Cancel, the continuation after a stored result, recovery at start | reads, decides and writes in separate transactions; several requests at once; restart between any two | `OperationRun` |
| Operation run storage (`storage/sqlite/operation_*.go`) | run row, append-only journal | create, continue, checkpoint, cancel, planning result | run, journal and task must change together; stale writers must be refused | `OperationRun`, `OperationState` |
| Leases (`operation/lease_supervisor.go`, `storage/sqlite/operation_locks.go`) | lease rows; the supervisor's entries and renewal goroutines | acquire, resume, renew, inspect, release, expiry | clocks; renewal racing inspection and release; a restart that forgets who supervises | `LeaseService`, `LeaseSupervisor` |
| Tasks, Server side (`storage/sqlite/tasks.go`, `app/tasks.go`) | task rows with phase, claim, result digest | claim, acknowledge, cancel, complete | repeated and late requests; conflicts; cancellation racing a result | `TaskOnce`, `TaskProtocol`, `TaskResults` |
| Agent worker (`agent/task_worker*.go`, `task_journal.go`, `runner.go`) | a one-entry journal file | claim, execute, cache, submit, reboot | a crash at any point must not repeat an action that began; a result the Server refuses is repeated for ever | `TaskProtocol`, `TaskResults` |
| Check plugins and their runtime (`plugin`, `task/result_contract.go`) | none | freeze the contract of a check, execute it, validate its items | a plugin may return anything | `TaskResults` |
| Batch confirmation (`app/product_workflow.go`, `storage/sqlite/operation_batch_confirmations.go`) | frozen receipts | accept, fan out, resume | partial fan-out; conflicting and repeated requests | `BatchConfirmation` |
| Local lifecycle coordinator (`operation/lifecycle.go`) | one run in one process, its lease and renewal goroutine | prepare, execute, roll back, settle | loss of the lease in the middle of a write; failures at each step | `LocalLifecycle` |
| ClickHouse operation (`operation/clickhouse`) | ledger entry, restore record, the tables themselves | restore point, staging, EXCHANGE or REPLACE PARTITION, rollback, cleanup, reconciliation | statements that fail, are lost or land late; replicas that lag; the outcome is unknown | `MigrationLedger`, `Cutover`, `StagedMigration`, `PartitionCommit` |
| Sysctl repair (`plugins/sysctlconfig`) | files and the kernel value of a host | discover, plan, restore point, apply, verify, roll back | the host changes between any two looks | `SysctlRepair` |
| Nodes, enrollment, credentials (`storage/sqlite/auth.go`, `nodes.go`, `agent`) | tokens, credentials, node rows; the agent's files | enroll, rotate, revoke, register, heartbeat, retire | a rotation with a lost response; several processes on one host | `NodeEnrollment` |
| Bootstrap over SSH (`bootstrap/service.go`) | the steps of one Apply and its deferred clean-ups | upload, issue a token, promote, start, wait, adopt | failure in the middle; clean-ups over a connection that is gone | `NodeEnrollment` |
| Check runs (`app/management.go`, `checkrun`) | check run rows, tasks, site and node rows | create, cancel, aggregate; edits of nodes and sites | rows read, edited and written back without a transaction | `CheckRuns` |
| Deployment topology (`deploymenttopology`, `providers/xrocketnodes`) | none | scan, collect, resolve, accept | ambiguity; a codec that does not keep what the Server compares | `DeploymentTopology` |
| API, protocol, executor, web UI, packaging | none of their own | decode, spawn, render | I/O | -- |

How they interact: a user confirms a run, or a batch of them, through the API; the
Server takes the lease on the run's targets, records each step in run and journal,
and queues one bounded task at a time (`create_restore_point`, `apply`, `verify`, on
failure `rollback`, `verify_rollback`) for the node of the stage. The agent claims
and acknowledges the task, asks the Server whether the lease still stands before it
changes the node, and submits the result. `CompleteTask` stores result, evidence,
run and journal in one transaction, and the same request then *continues* the run:
it reads it and queues the next task, or ends the run and releases the lease; the
release lets the batches that wait go on. At start, before it listens, the Server
walks all runs and resumes them. What an action does on its node is an operation
definition: the sysctl repair works on files, the ClickHouse migration on tables, and
keeps its ledger at the Server through the same connection. Checks, planning and
topology discovery are tasks of the same protocol without effects.

What makes each component correct: a run's journal agrees with the run; at most
one action of a run is live, and none is repeated; no action changes a node
whose target another run holds; a canceled run never applies; a run's verdict is
backed by evidence; rollback goes backwards; whatever fails, the run ends or is
left for reconciliation and its targets become free. A receipt is never rewritten and
each of its members is settled. A migration never loses the data it replaces, issues
no statement twice, and its record never claims what is not so. A host keeps a
credential that works until it is revoked. A repair replaces only the value its plan
names. What an agent submits is what the Server takes.

## 2. Modules

| Module | Models | Uses |
|---|---|---|
| `OperationState` | vocabulary: states and the transition table of `operation/state.go`, task phases, checkpoints, recovery codes | -- |
| `OperationRun` | the Server's side of one or more runs | extends `OperationState`; implements `LeaseService` |
| `OperationRunProofs` | theorems about `OperationRun` and `LeaseService` | |
| `LeaseService` | abstract: what the leases promise the runs | -- |
| `LeaseSupervisor` | rows, entries, goroutines and requests of the lease supervisor | implements `LeaseService` |
| `LeaseSupervisorProofs` | theorems about `LeaseSupervisor` | |
| `TaskOnce` | abstract: what claiming, executing and submitting promises about a task | -- |
| `TaskProtocol` | one agent and the Server's table of its tasks | implements `TaskOnce` |
| `TaskResults` | the results of checks, planning and bounded actions: how they come about, and who takes them | -- |
| `BatchConfirmation` | receipts, fan-out and the runs they start | -- |
| `BatchConfirmationProofs` | theorems about `BatchConfirmation` | |
| `LocalLifecycle` | the coordinator with its goroutine | extends `OperationState` |
| `MigrationLedger` | the rules of the ledger and restore-record tables | -- |
| `Cutover` | abstract: what a migration promises about the name it moves | -- |
| `StagedMigration` | one table migrated by EXCHANGE | extends `MigrationLedger`; implements `Cutover` |
| `StagedMigrationProofs` | theorems about `StagedMigration` | |
| `PartitionCommit` | one replicated partition committed by REPLACE PARTITION | extends `MigrationLedger`; implements `Cutover` |
| `PartitionCommitProofs` | theorems about `PartitionCommit` | |
| `SysctlRepair` | one kernel parameter, its files, and the repair of it | -- |
| `AgentProofs` | theorems about `TaskProtocol` and `SysctlRepair` | |
| `NodeEnrollment` | the Apply, the agent's processes, credentials and node rows | -- |
| `HostProofs` | theorems about `NodeEnrollment` and `LocalLifecycle` | |
| `CheckRuns` | check runs, their tasks, nodes and a site | -- |
| `DeploymentTopology` | scanner, resolver and acceptance of a discovery, as operators | -- |
| `CheckRunsProofs` | theorems about `CheckRuns`, `TaskResults` and `DeploymentTopology` | |
| `MC...` | values of the constants for TLC; `MCCheckRuns` and `MCTaskProtocol` also evaluate bounded checks of `DeploymentTopology` and `TaskResults` (ASSUME) | |

`OperationRun` and `LeaseSupervisor` meet in `LeaseService`: the first takes, leaves
and gives back leases as the service allows, the second carries the service out.
So the details of the supervisor never meet the details of the runs in one state
space, and the exclusion proved of the service holds for both. `StagedMigration` and
`PartitionCommit` meet in `Cutover` in the same way: two engines, one promise.
Operators whose comment begins *A mistake the properties must catch* are never part
of a specification: they are the faulty variants with which `PROJECT.json` tests that
each property can fail. A proof module may extend two models that share nothing; one
of them then has names of its own where the other says `Init`, `Next` or `Spec`
(`LifecycleSpec`, `RepairSpec`).

### OperationRun

| Variable | In the code |
|---|---|
| `state`, `mark`, `bound`, `recovery` | `operation_runs.state`, `.checkpoint`, `.task_id`, `.recovery_json` |
| `tail` | last row of `operation_journal` of the run |
| `fact` | `execution_json`: the evidence of each stage and action, as none / passed / failed |
| `phase` | `tasks.phase` |
| `lease`, `sup` | rows of `operation_leases`; entries of the `LeaseSupervisor` |
| `mutating`, `mutated`, `seen` | what happens on the nodes: an Apply or Rollback under way, ever started, an executor heard of after it |
| `mu`, `h` | `confirmationMu` with its holder's position; the continuation handlers with the decision each carries |
| `server`, `todo` | process up, down, or recovering; runs recovery has yet to visit |
| `owed` | runs for which some agent still has a result to submit (again), because its request was cut off or answered with an error, or whose contained cancellation continues |
| `budget` | faults left: crashes, requests cut off, lost renewals |

Each SQLite transaction is one step; `CompleteTask`, `CancelBeforeApply`,
`CommitQueue`, `CommitAdvance` write all the rows the code writes in that
transaction. A handler that reads first is several steps: `Decide` (the whole
decision table of `continueOperationRun` in `Decisions`), `EnsureForContinuation`,
`CommitQueue` or `CommitAdvance`, `ReleaseLease`; the refusals are actions too
and end in `Fail`, which makes the result owed (the agent is answered with an error
and submits again), or ends the process when it was recovery that failed. Confirm and Cancel hold the mutex across their steps;
continuations do not take it.

Abstractions: evidence and messages are reduced to what the decisions look at;
reading the next journal sequence and writing it are one step (two writers of the
same sequence are a refusal, and the request is repeated); runs exist from the
start as `CreateOperationRun` leaves them; every run can be applied and has no
secrets; a lease contends by target keys; there is no clock, so a lease nobody
supervises may expire at any time and one that is supervised does not, unless a
renewal fails; an error of a confirmation is answered to the user, who may or may
not repeat it; a request that was cut off never runs on.

### LeaseSupervisor

| Variable | In the code |
|---|---|
| `row` | the live row of `operation_leases` of a run: its ID and the life it has left |
| `entry` | `LeaseSupervisor.active[owner]`: the snapshot it stands for, `stopping` (its context is canceled by Release or Close), `failed` (`entry.err` is set) |
| `loop` | the goroutine of each entry ever started: position, `lease` it knows, a tick that waits in the ticker's channel (`due`), a canceled context (`cut`) |
| `call` | requests under way: the position of `ensureLease`, `resumeAndReleaseLeaseIfPresent`, `ValidateOperationLease` or `Release`, and what each remembers |
| `started` | entries started; it also numbers lease IDs |
| `closed` | `LeaseSupervisor.closed` |
| `over` | runs whose row says that they ended and whose bound task has converged: `releaseLeaseIfBoundTaskConverged` and the handlers release no others |
| `budget` | ends of the process and other faults left |

A section under the supervisor's mutex is one step, and so is a transaction of
`operation_locks.go`; an inspection or a release, which leave the mutex to read or
write the row, are several. Times are relative: one `Tick` is one renewal
interval, a lease lives `TTL` of them (three in the code), and every snapshot ages
with the row. A row that runs out is purged by the `Tick`; in the code the purge
belongs to the next transaction that looks for contenders, and no query reads an
expired row as live. `Timely` says that a renewal which is due happens before the
lease of a healthy entry runs out: the interval is a third of the lease's life and
a transaction waits at most five seconds for its lock, against minutes of lease.

Several handlers may be at work on one run, so every request and every release
overlaps with every other one. A lease is released only when its run is over, but a
request that read the run earlier may come later, and acquire it again (`Ensure` does
not look at `over`). Then a `Release` that was overtaken drops the entry of the newer
lease, and a stale inspection fails it (`Forget` and `Doom` look only at the run, as the
code does). What that can harm is what the properties are about: not the contender
and no run that is still to use its targets (`KeepsPromise`), and the row that is left
behind without an entry lapses (`NobodysLeaseLapses`). `HealthyIsRenewed` holds for
ended runs, too.

`LeaseService` is the common abstraction: `held` (who holds its targets) and `sup`
(none, active, leaving, failed, over). It allows a run to take its targets when nobody
else holds one of them, a vouched lease to be given up as leaving or failed, a
lease to lapse only when nobody vouches for it, and an entry to be forgotten only
when its row is gone. Of a run that is `over` it only says that it takes nothing
another run holds (`Retake`).

### TaskProtocol

| Variable | In the code |
|---|---|
| `phase`, `result` | `tasks.phase`; the stored row of `task_results` |
| `journal` | the agent's journal file of one entry (`task_journal.go`) |
| `pc`, `cur` | where `ProcessOne` is; the task and the submission it holds in memory |
| `work` | what was done on the node for a task: never, begun, ended, again |
| `handoff`, `booted`, `rebooting` | actions that ended with a handoff to a reboot; those whose host booted since; the host was told to |
| `late` | requests the agent gave up that the Server receives later |
| `budget` | deaths of the agent, requests given up, late requests left |

`ClaimTask`, `AcknowledgeTask`, `Submit` and `CancelTask` are one transaction each;
`SaveClaimed`, `SaveExecuting`, `Cache`, `Replace`, `SaveReconnecting` and `Clear`
are one journal write each; `Begin` and `End` are the execution. `GiveUp` ends any
request: it is lost, or its answer is, or it arrives later (`Arrive`). `Crash` ends
the agent anywhere.

Abstractions: one agent with one identity; all tasks are pending at the start; a
result is what it says (succeeded, failed, interrupted, canceled) in place of its
digest, and is one the Server takes (which results it takes is in `TaskResults`); the journal is replaced atomically; an error of the local disk stops the
agent, as a death of it does; heartbeats are left out; what a result does to its run
is in `OperationRun`.

`TaskOnce` says what is promised: a task begins at most once and only before the
Server's verdict on it, there is one verdict, success means the work ended, and a
bounded action that is called canceled never began.

### TaskResults

No state: an agent repeats a submission until it is taken and takes no other task
meanwhile, so each way in which a result comes about is an operator
(`ExecuteTaskCheck`, `ExecutePlanning`, `ExecuteOperationAction`, and the results of
a refusal, an interruption and a cancellation), and so is each check it meets
(`ValidateTaskResult`, `PlanningAccepted`, `ValidateJournalEntry`,
`ValidateOperationExecutionResult`). A *body* says what a plugin or an operation
definition returns, which may be anything. *Taken* means that the shape is accepted:
that a result is about the task it was asked for is one comparison (`r.of = contract`),
and the merge of evidence into the durable facts of the run belongs to `OperationRun`.
Texts are absent, blank or said; digests and identities are compared as values.

### BatchConfirmation

| Variable | In the code |
|---|---|
| `receipts` | `operation_batch_confirmations` with their member rows, oldest first |
| `run`, `lease` | each run's place on the way to its first action; the lease of each node |
| `mu` | the request inside `confirmationMu`, the members it has left, the run whose continuation it is |
| `unacked`, `waiting` | runs whose last result has no answer yet; those of them whose continuation waits for the mutex |
| `contained` | canceled runs whose task an agent may still carry out |
| `server` | up, down, or resuming batches |
| `named`, `begun`, `faults`, `crashes` | bounds, and the history of what was queued |

`AcceptBatch` is validation, preflight and the insert of the frozen receipt;
`ConfirmBatchAgain` the answer to a repeated key. A fan-out looks at one member at a
time (`SuppressMember`, `MarkStarted`, `PassMember`, `StartMember`); a confirmation is
`ConfirmTurn`, `ConfirmBusy` or `ConfirmFails` and `MarkConfirmed`, with the failure of
each write. What a run does after it was started is `RunEnds`, which gives back its
node and makes the members that wait be looked at again. The members a request has left
are places of the receipt, gone through in order. Left out: reads, the planning
of runs, and more than one fault per behaviour.

### LocalLifecycle

| Variable | In the code |
|---|---|
| `pc`, `memo`, `canceled` | where `Prepare` or `ExecuteConfirmed` is, what it remembers, its caller's context |
| `state` | the state of the last journal entry |
| `lease`, `loop`, `session` | the lease row; the renewal goroutine; what it shares with the call (`err`, `lost`, `stop`) |
| `value` | which run changed the target last |
| `faults` | failing calls, refused entries, stalls left |

Each journal append, lease call, call of the definition and `select` of the goroutine
is one step. A call of the definition may fail before or after it changed the target,
and a stall lets the lease run out under it. `Undone` says what a run recorded as rolled
back has left: nothing, unless another run, to which the lease had gone meanwhile, made
its own restore point of it and was rolled back to that. Left out: journal entries whose answer is
lost after they were stored, and writes that land after `Apply` returned. The
repository uses this coordinator in tests and labs; the product path is `OperationRun`.

### StagedMigration and PartitionCommit

| Variable of `StagedMigration` | In the code |
|---|---|
| `source`, `tables` | what the source table holds, and what each of the three names (target, staging, restore) refers to |
| `ledger`, `record` | rows of `clickhouse_migration_ledger` and `clickhouse_restore_points` |
| `point`, `restored` | the restore point the run was given; a rollback has answered |
| `lease` | whether the Server would still vouch for the run's lease |
| `agent` | the call in progress: engine, position, what it holds in memory |
| `calls`, `faults`, `crashes`, `writes` | bounds |

| Variable of `PartitionCommit` | In the code |
|---|---|
| `design`, `staging` | what discovery says of tables and cluster; the staging partition |
| `log`, `applied` | the table's replication log, and how much of it each replica has applied |
| `late` | a statement its caller gave up and that is still to arrive |
| `ledger`, `lease`, `engine`, `faults`, `crashes` | as above |

Every statement, every look and every write of a record is one step; it may fail
before or after it took effect, and the process may end between any two, losing all
but the records. Data is a fingerprint. `StagedMigration` has the five calls the
Server dispatches (`RestorePoint`, `Apply`, `Rollback` and the two clean-ups) with
their reconciliation by observation. Left out of it: `ExchangeRestoreProvider.Restore`
(a person's tool), plans of several items, the no-op for an empty source, the attempt
counter, identifier checks and encodings, and statements that arrive after their
caller gave up. `PartitionCommit` has those, for the engine the repository uses in
its labs only; read failures are bounded, and the staging partition may differ only
from the start. The observer asks a replica for its health, its parts and its data one
after the other. Left out is the preflight: it only reads, and `Commit` repeats the
checks that `FitToReplace` is about, but not all of it (section 4). In it the data of a replica is what the log says of its first entries:
what each brought that no later statement did away with (`DataAfter`). `Cutover` says what both promise: before the name moves the record
gives up its certainty, and when it becomes certain again it is right.

### SysctlRepair

`host` is the files and the kernel value; `stage` the lifecycle; `seen` what the
current stage has read so far; `plan` and `point` the durable plan and restore point;
`memory` what the properties need to know of the past (was the host left alone).
A stage reads the kernel value, then lists one directory after another and reads its
files one by one, each a step (`List`, `ReadFile`): a file that goes between the two
counts as an empty one that still shadows others, as it does in `readSource`;
`Resolved` is `resolver.go` for both loaders (systemd and procps); the administrator
edits a file, sets the value or has the files loaded between any two steps, until the
run has ended. Contents are what they say about the one key. Left out: the restore
provider's `Restore` and `VerifyRestored`, which the lifecycle does not call.

### NodeEnrollment

| Variable | In the code |
|---|---|
| `apc`, `open`, `agentID`, `fresh`, `again`, `dirty` | where each `Apply` of `bootstrap/service.go` is, its SSH transport, what it learned |
| `token`, `creds`, `node` | rows of `enrollment_tokens`, `agent_credentials`, `nodes` |
| `host` | the agent's files: binary, token, identity, credential, staging directories |
| `proc` | the agent's processes: the daemon each Apply starts and the command line |
| `budget` | faults and acts of operators left |

Each remote command, file write and request is one step; a request may be lost
before or after it took effect, a process may die anywhere. The deferred clean-ups
run in the order of the code, over a transport that may be closed. Revoking a
credential takes the whole line of those rotated from it (`Line`, the least set that
has it and is closed under `Heirs`). Left out: more than
one host, sites and tags other than through `AssignSite`, the online threshold (a
heartbeat makes a node seen), and the steps inside a promotion (three renames are one)
and inside the reading of the token file with its removal.

### CheckRuns

`spec`, `phase` and `frozen` are the stored run, its tasks and the roots frozen in
their contracts; `node` and `site` the rows; `call` what each request read and has yet
to write. Creation freezes node by node and stores in one transaction; a cancellation
walks a snapshot of the tasks; edits of a node read the row, change it in memory and
write it back. Left out: more than one check run and one site, the contents of
parameters and contracts, the remediation offers and the dashboard.

### DeploymentTopology

No state: `parseNodesYAML`, `Collect`, `Resolve`, `Decoded` (the codec, which leaves
out empty lists) and `Accepts` (the Server resolves the evidence again and compares)
are operators. A list is {} when it is nil and {S} otherwise. Of the timestamps
it matters only whether the clock was set back between the two (`forward`). Left out:
trimming, confidence and summaries, the registry of providers, and the service's
create and read functions.

## 3. Runs

| Run | Instance | Checks |
|---|---|---|
| `OperationRun` | 1 run of 3 stages, the second behind a reconnect barrier, 2 handlers, 1 crash, 1 abort, 1 lost renewal; the table with the two missing edges | `TypeOK`, `JournalAgrees`, `OneLiveAction`, `NoApplyAfterCancel`, `Containment`, `RollbackOrder`, `TerminalTruth`, `LeaseGivenBack`, `TerminalIsFinal`, `NoReplay` |
| `OperationRunPair` | 2 runs with one target, 1 handler, 1 crash, 1 abort, 1 lost renewal; the table as it is | `MutualExclusion`, `KeepsLeasePromise` |
| `OperationRunLive` | 1 run, 1 handler, 1 crash, 1 abort, with fairness; the table as it is | `ExecutionSettles`, `EndedRunFreesTargets` |
| `LeaseSupervisor` | two settings, chosen in the initial state, with 2 requests, `TTL` 2 and fairness: 1 run alone, 2 entries, 1 end of the process, 1 fault; and 2 runs with one target, 3 entries, no faults | `HealthyIsRenewed`, `KeepsPromise`, `NothingComesBack`, `NobodysLeaseLapses`, `ReleaseEnds` |
| `TaskProtocol` | 3 tasks: a check, a planning task and an action that may reboot; 1 death, 2 requests given up, 1 of them late, with fairness | `RebootProved`, `KeepsPromise`, `TasksSettle` |
| `BatchConfirmation` | 3 runs on 2 nodes, 2 batches, 6 requests (reordered, repeated, conflicting, with a wrong digest or finding), 1 confirmation by name, 1 fault or crash, with fairness | `ReceiptSound`, `ReceiptsFrozen`, `MembersSettle` |
| `LocalLifecycle` | 2 runs with one target, 2 faults, with fairness | `EndIsBacked`, `ReturnsTheLease` |
| `StagedMigration` | 5 calls, 2 faults, 2 restarts, 2 writes by others; source and target full or empty | `DataKept`, `LedgerSound`, `MigrationPromise` |
| `PartitionCommit` | 2 replicas, 2 faults, 1 crash, 1 insert by others, 12 designs, with fairness | `CommitSafe`, `LedgerTells`, `CommitPromise` |
| `SysctlRepair` | 3 files, two of one name and one that only one loader reads, and the legacy one; 2 acts of the administrator, 1 failing command | `RepairSound`, `ReplacesAsPlanned` |
| `NodeEnrollment` | 1 Apply, its daemon and the command line, 4 credentials, 2 faults, 3 acts of operators | `CredentialTruth`, `ApplyKeepsItsWord`, `RetiredForGood` |
| `CheckRuns` | 2 nodes of one site, 2 requests at a time, 3 in all, 1 database error; symmetric nodes and requests | `RowsAgree`, `ReportTruth` |

What each shows is in `PROJECT.json` (`about`). What the bounds are for:

* Runs: two handlers are enough for a stale decision against a fresh one (a third
  can only repeat what one of them does, since every write re-checks the run); two
  runs are enough for contention; three stages are enough for an order among stages
  to be undone; one crash and one abort can fall at every step, so between any two
  transactions of every handler.
* Supervisor: two requests are enough for an inspection or a release to be overtaken
  by another one or by the goroutine, and two entries for an old goroutine or a stale
  answer to meet a newer lease. In the contended setting the third entry is the lease
  of the run that waited, or the lease a late request acquired for the one that ended.
  There the contender only asks for its lease, through one of the two requests, and does
  not end; nobody validates a lease, nothing fails and the process stays up
  (`MCLeaseSupervisor`): two runs through faults and ends of the process are beyond the
  run, and `KeepsPromise` is proved for any of them (section 5). The branch of `Acquire`
  that finds a stored row needs three overlapping requests and is not reached. `TTL` 2
  is the shortest life that leaves a renewal time to succeed; the code's ratio is 3.
* Tasks: three kinds of task in the order in which the Server hands them out; one
  death falls between any two steps; of two requests given up one can be late and
  the other stand between it and its answer.
* Batches: two runs of one node make a member wait for the lease of another; the third
  node is where a batch goes on past it; two batches share a run, so that one of them
  must be refused. One fault of any kind falls between any two writes.
* Local runs: one run that holds the target and one that waits for it; two faults are
  enough for a failed apply with a failed rollback, and for a stall with a refused entry.
  That a run's change comes back through another run's restore point takes three; the
  theorem is for any number.
* Migrations: five calls are restore point, apply, a repeated apply or a rollback, and
  both clean-ups; two faults or restarts can fall on a statement and on the record
  that would have settled it; two writes change the source and the target. Two
  replicas are the fewest that can disagree.
* Repair: two acts are enough to change a file and undo the change, or to change one
  file while another was already read.
* Enrollment: a chain of four credentials has a rotation of a rotated credential after
  one that was lost; three acts are a revocation, a retirement and a rotation.
* Check runs: two requests overlap; a third follows on what they left.

`OperationRun` adds two edges to the transition table (`ExtraTransitions`): with the
table as it is no plan gets past its first stage (section 4), and the properties about
several stages would hold only because nothing happens. `OperationRunPair` and
`OperationRunLive` use the table as it is, with one stage. The theorems hold for the
table with any of the two edges (`ExtraTransitions \subseteq MissingEdges`, an
assumption of `OperationState`), so for the table as it is.

`CHECK_DEADLOCK FALSE` in every run: a run that ended or waits for its user, a
supervisor with no requests left, an agent with nothing to claim, a migration that is
over have nothing to do, and bounded faults are used up.

Fairness. `OperationRun` (`FairSpec`): agents poll on a timer and execute what they
claim (`runner.go`), a request that started runs to its end or is repeated by the
agent that cached the result (`submitCached`), and a process that ended is started
again. `LeaseSupervisor`: a request that began and a goroutine that is ready run on,
and time passes. `TaskProtocol`: the agent polls while its process runs, and a host
that was told to reboot does. `BatchConfirmation`: a request inside the mutex goes on,
one that waits for it gets in however often others do (Go's mutex hands over after a
millisecond of starvation, hence strong fairness), agents finish a run and repeat its
result until it is answered, a Server that is down is started. `LocalLifecycle`: a
call runs on; a `select` with both the tick and the order to stop ready takes either,
so the order is seen in the end (strong fairness); a lease nobody renews runs out.
`PartitionCommit`: a call that did not succeed is repeated, the engine runs on, each
replica works off its log. Users and administrators are under no obligation, and
faults are bounded; `MembersSettle` is about behaviours without faults, the other
liveness properties about those with them.

`TasksSettle` names the two cases in which an agent is stuck on a task for ever:
after a submission that was given up and arrived late, when the refresh before the
next submission met a cancellation and changed the cached result
(`task_worker.go`, `storage/sqlite/tasks.go`: the stored result and the new one
conflict each time); and after a death between the `reconnecting` entry and the
reboot command (`task_worker_reconnect.go`: it waits for a boot nobody asked for).
Everything else comes to a verdict. `ReturnsTheLease` names one: a run whose journal
refused the entry that announces its rollback keeps its lease renewed.

## 4. Where the code departs from what is written about it

The first five are properties that a comment or a test of the repository states and
that TLC refutes. They are defined in `OperationRun` and `LeaseSupervisor` and are
part of no run; the settings name what to change in a run's cfg to see the
counterexample.

* `VerifiedRunProceeds` (`OperationRunLive.cfg` with `NStages = 2` and no faults).
  After a stage that is not the last is verified, `continueOperationRun` queues the
  restore point of the next one in `creating_restore_point`
  (`app/product_workflow.go:705-708`), and a failed later restore point queues a
  rollback from there (`:661`, `:753`). The table has neither `verifying ->
  creating_restore_point` nor `creating_restore_point -> rolling_back`
  (`operation/state.go:28-42`), and the store enforces it
  (`storage/sqlite/operation_continuation.go:64`): every continuation is refused, the
  agent repeats its result for ever and the lease stays.
  `app/cross_node_product_workflow_test.go:65` expects the second stage to be queued;
  its in-memory repository does not enforce the table.
* `ContainmentAcrossRestart` (`OperationRunPair.cfg` with one run, as an invariant).
  `ResumeOperationRuns` calls `continueOperationRun` for a run in an execution state,
  which returns at once when its task has not ended (`:613-615`): nobody resumes the
  lease, so it is neither renewed nor accepted, and runs out under an action that has
  started. Interrupted runs are not resumed either (`:803`). The comment at
  `app/product_workflow.go:763` says it "reconstructs the exact durable Server
  checkpoint after restart"; `operation/lock.go:38-40` says the coordinator owns
  renewal and release.
* `ConfirmedRunProceeds` (`OperationRunLive.cfg`). A run found in `queued` at a restart
  is advanced to `acquiring_lock` and left there (`:785`): only another confirmation
  or another restart moves it. The comment at `:251-252` says "Child lifecycle recovery
  remains owned by ResumeOperationRuns/ContinueOperationRun."
* `CanceledLeaseGivenBack` (`OperationRunPair.cfg` with one run, as an invariant).
  `reconcileCanceledBeforeApplyLease` reads the restore-point task in
  `cancel_requested` (`:1019`); the task ends and the continuation of its result
  releases the lease; then `ensureLease` acquires it again, and nobody releases it
  until a restart or another cancel. `product_workflow_cancel_convergence_test.go:33-34`
  expects the lease to be released once the canceled task converged.
* `VerificationIsPassive` (`LeaseSupervisor.cfg`, as an invariant;
  it is about runs that are not over, whose leases nobody releases). `CurrentLeaseByOwner` reads the lease row outside the mutex and writes
  the snapshot back into the entry (`operation/lease_supervisor.go:164`, `:184-187`)
  without looking whether it is older. After a renewal in between, the next renewal
  presents the old expiry, the store refuses it as stale
  (`storage/sqlite/operation_locks.go:97-98`) and the supervisor gives a healthy lease
  up. `operation/lock.go:38-40` says "plugins may verify ownership/coverage immediately
  before a destructive checkpoint without managing the lease".

The others no comment promises, but a reader should know of them; each is stated
where the named definition or theorem says so.

* Cleanup accepts a ledger entry stored as `planned` (`clickhouse/execution.go:214`)
  and then writes `planned -> rollback_pending`, which the store refuses
  (`storage/sqlite/clickhouse_ledger.go:97`). `LaterWritesAccepted` of
  `StagedMigration` excepts exactly this write; `WritesAccepted` as an invariant shows it.
* A topology evidence without participants is encoded without the field, decoded as
  nil, and differs for `DeepEqual` from what the Server resolves
  (`deploymenttopology/model.go:66`): the discovery is refused at every repetition
  (`SilentSourceIsRefused`).
* A check, a planning or a discovery during which the wall clock was set back ends
  before it started and is refused at every repetition (`task/result_contract.go:28`,
  `app/tasks.go:166`, `app/deployment_topology.go:136`; `ClockStepIsRefused`,
  `PlansAreAccepted`, `CompleteSourcesAreAccepted`). So is a ready plan
  without a version or with an unsound stage.
* The preflight of a replicated partition refuses a table with unfinished mutations and
  a pair whose columns differ (`clickhouse/replicated_partition_preflight.go:101-105`);
  `Commit` neither calls it nor looks at either, so `FitToReplace` of `PartitionCommit`
  is about the checks `Commit` makes itself: the capability, the replicas it can name,
  and the staging partition.
* A reboot that cannot be started turns a success into a failure that keeps its
  evidence (`agent/task_worker_reconnect.go:76`); without checkpoint or version the
  Server refuses it at every repetition, while the journal keeps it
  (`ActionsAreAccepted`).

## 5. Proofs

TLAPS proves every invariant and every action property that a run checks, and the
safety part of the refinements, for every value of the constants that the named
assumptions allow.

| Theorem | Module | For every value of the constants |
|---|---|---|
| `Invariance`, `TypeCorrect`, `JournalNeverDiverges`, `AtMostOneLiveAction`, `NothingIsReplayed` | `OperationRunProofs` | `Spec => []IInv`, `[]TypeOK`, `[]JournalAgrees`, `[]OneLiveAction`, `NoReplay` |
| `EvidenceInvariance`, `CanceledIsUnapplied`, `RollbackIsOrdered`, `VerdictsAreTrue`, `EndsAreFinal` | `OperationRunProofs` | `Spec => []EInv`, `[]NoApplyAfterCancel`, `[]RollbackOrder`, `[]TerminalTruth`, `TerminalIsFinal` |
| `LeaseInvariance`, `LeaseIsKept`, `EndedRunsHoldNoLease`, `NodesAreExclusive` | `OperationRunProofs` | `Spec => []LInv`, `[]Containment`, `[]LeaseGivenBack`, `[]MutualExclusion` |
| `LeasePromiseKept`, `LeasesExclude`, `Exclusion` | `OperationRunProofs` | the runs implement `LeaseService`; no two hold a common target; so does every implementation of it |
| `TypeCorrect`, `HealthyEntriesAreRenewed`, `PromiseKept`, `LeasesStayGone` | `LeaseSupervisorProofs` | `Spec => []TypeOK`, `[]HealthyIsRenewed`, `KeepsPromise` (the refinement of `LeaseService`), `NothingComesBack` |
| `Invariance`, `TypeCorrect`, `PromiseKept`, `RebootIsProved` | `AgentProofs` | `Spec => []IInv`, `[]TypeOK`, `KeepsPromise`, `[]RebootProved` of `TaskProtocol` |
| `RepairInvariance`, `RepairsAreSound`, `ReplacesWhatWasPlanned` | `AgentProofs` | `RepairSpec => []RInv`, `[]RepairSound`, `ReplacesAsPlanned` of `SysctlRepair` |
| `BatchInvariance`, `ReceiptsAreSound`, `ReceiptsStayFrozen` | `BatchConfirmationProofs` | `Spec => []BInv`, `[]ReceiptSound`, `ReceiptsFrozen` |
| `LifecycleInvariance`, `EndsAreBacked` | `HostProofs` | `LifecycleSpec => []LInv`, `[]EndIsBacked` of `LocalLifecycle` |
| `LineStaysOpen`, `ApplyIsClean`, `RetiredStaysRetired` | `HostProofs` | `Spec => []CredentialTruth`, `[]ApplyKeepsItsWord`, `RetiredForGood` of `NodeEnrollment` |
| `MigrationInvariance`, `DataIsKept`, `LedgerIsSound`, `MigrationKeepsItsPromise` | `StagedMigrationProofs` | `Spec => []SInv`, `[]DataKept`, `[]LedgerSound`, `MigrationPromise` (with the refinement of `Cutover`) |
| `CommitsSafely`, `LedgerTellsTheTruth`, `CommitsAsPromised` | `PartitionCommitProofs` | `Spec => []CommitSafe`, `[]LedgerTells`, `CutoverPromise` (the refinement of `Cutover`, the safety part of `CommitPromise`) |
| `CheckRunsInvariance`, `TheRowsAgree`, `ReportsAreTrue`, `RunsGoOn` | `CheckRunsProofs` | `Spec => []CInv`, `[]RowsAgree`, `[]ReportTruth`, `RunOnward` |
| `ConfirmedMeansUnanimous`, `DisputesStay`, `PeersAreUntrusted` | `CheckRunsProofs` | what the resolver of `DeploymentTopology` concludes, from any evidence |
| `CompleteSourcesAreAccepted`, `CancelationIsAccepted`, `SilentSourceIsRefused` | `CheckRunsProofs` | which discoveries the Server accepts |
| `CheckResultsAreAccepted`, `GivenUpChecksAreAccepted`, `ClockStepIsRefused` | `CheckRunsProofs` | which results of checks the Server takes, and takes again, whatever a plugin returns |
| `PlansAreAccepted`, `GivenUpPlansAreAccepted` | `CheckRunsProofs` | which results of planning it takes |
| `ActionsAreAccepted`, `GiveUpsAreAccepted` | `CheckRunsProofs` | which results of bounded actions it, and the agent's journal, take |

The assumptions are those the modules name: bounds are naturals, targets are
non-empty sets of resources, `NoRun` is no run and `Base` no run's change,
`ExtraTransitions` are among the missing edges, a lease lives longer than one
interval, tasks are numbered, nodes and plugins of a check run are finitely many, a
replicated table has at least two replicas and finitely many, names of agents and the
command line differ, of any files of a host one has the last name (`LastAssumption`: a
directory is finite, and that a finite set of numbers has a greatest one is an
induction the provers cannot do).
`DeploymentTopology` and `TaskResults` have no constants: their theorems range over
every set of evidences, plugins, checks and texts.

**OperationRun.** Three invariants, one on the other. `IInv`: `JournalAgrees` and
`OneLiveAction` are not inductive alone. `HandlerInv` says what a handler may hold
between its steps (a decision about a task of this run, a next task that fits the
decision), and `StartInv` ties the beginning of a run to its journal: before the
first action is queued the run is bound to its planning task. `EInv` adds what the
evidence says: `Evidence` relates the facts of a run to the phases of its tasks,
`StateInv` to its state, `NodeInv` to what happened on the nodes, and `DecisionInv`
says that what a handler decided is still backed when it writes. For it every action
is first shown to be one of few kinds of move of one run (`RunMoves`), so that the
four parts are proved once for each kind of move and not once for each action. `LInv`
adds the leases: a run that may act holds one (`LockStep`), a run with a lease has
somebody who will give it back (`Attended`), and `FaultInv` charges what is missing to
the fault that took it. Containment, exclusion between runs and `LeaseGivenBack` follow
from it. `LeasePromiseKept` maps each action to the step of `LeaseService` it is
(ensuring is `Take`, settling is `Give`, the end of the process is `Exit`, ...), and
inherits `Exclusion`.

**LeaseSupervisor.** That a lease the supervisor vouches for is never lost needs the
whole life of its goroutine: `Alive` says that the goroutine of a healthy entry
runs, works for this run and is not cut off, and `Paced` that with no renewal to make
the row has more than one interval left, so that a `Tick` (under `Timely`) cannot purge
it. `GenInv` keeps entries and goroutines apart, so that an old goroutine never
answers for a new entry. That a healthy entry stands for a row (`Sound`) is claimed of
runs that are not over only: releases are made for the others (`ReleaseInv`), so an
overtaken one can do no harm to them, and `AbsentInv` carries `ensureLease`'s look for
a stored row over to its `Acquire`. Nothing is assumed of how requests overlap.
One lemma for each kind of step of the service says what state it starts from; each
action then has one lemma that proves the invariant kept and the step allowed.
`NothingComesBack` needs none of this, only that lease IDs are never used twice.

**TaskProtocol.** The promise is not inductive: it depends on what the journal says
while the agent is dead, and on submissions still under way. `JournalInv`, `PcInv`
and `HoldInv` say what a journal entry, a position and the memory tell about the
task (`Unsent`: nobody can have settled it; `Honest`: what a submission says is true
and stays so), `WorkInv` that work on a task which is not over has left its trace
in the journal, `LateInv` that late submissions are honest too, `ResultInv` what the
stored result says. `HandlesKeeps` treats the Server's side of every request once,
for answers in time and late ones; each action is then mapped to the step of
`TaskOnce` it is, or to a stutter.

**SysctlRepair.** `RInv` says that what a stage has seen is what the host holds
unless somebody was at it since the stage began to look (`SeenFits`), that the restore
point has the value there was (`SinceFits`), and what is known when the value is
about to be set (`WriteFits`). The heart is not the steps but the operators: the
resolver chooses, of the files of one basename, the one no other shadows, and takes
the last value assigned; loading the files goes by minimum and maximum. `LoadsRead`
shows that both read the same files, `LoadedAsResolved` that files which are resolved
to 0 make the value 0 in either loader.

**BatchConfirmation.** `BInv`: a run is in one receipt only and the rows of a receipt
fit the runs they name (`ReceiptsFit`); a fan-out goes through pending members, works
on the first, and has queued its run before it records it (`HandlerFits`); runs and
leases fit what was begun and contained (`RunsFit`, `LeasesFit`); and, as long as
nothing failed, a pending member whose run nobody started is looked at in this
fan-out, waits for a run with work left on its node, or a fan-out is still to come
(`Promised`). `ReceiptsFrozen` then is a matter of which column each write touches.

**LocalLifecycle.** `LineFits` says which states go with which place of the call and
which memory, `TargetFits` what the target may hold given what the runs have done: the
change of a run, or what a restore point was made of. A step of a call moves one run
(`Moved`); `CallMoves` proves the invariant for any such step from what it says of the
place it came to, and each action cites it.

**NodeEnrollment.** Two invariants, one for the Apply (`AInv`) and one for the
credentials (`CInv`). `ApplyFits` follows one Apply: its token is live only between
its issue and its close, or the clean-up was unable to reach the Server. `UseFits`
says that what a process uses never supersedes what the host stored, unless it is
that; `UnsavedFits` that a credential which was just issued is nobody else's: not the
host's, without a successor, used by no other process; `ClaimFits` that the credential
a rotation starts from has no other heir in use; `Barred` that what is revoked stays
out. The lemma `SupersededSpares` is what the argument rests on: revoking the
superseded credentials when one is first used spares the line of the one in use.

**StagedMigration.** `SInv` says of the stored entry, and of the entry under way, that
they fit the tables: which names exist, and which of them holds the original. That
source and baseline differ tells the two apart when a look at the tables has to settle
what a lost EXCHANGE did. `TablesChange` and `ServingChanges` are the frame: what a
statement, a write by others, or a late look may change. The refinement of `Cutover`
follows from `EntryOK`, since the only step that makes the record certain is a write
that followed a look.

**PartitionCommit.** `PInv`: the ledger's state fits the engine's place (`LedgerFits`),
a statement that was sent fits the ledger (`IssueFits`), what is about to be stored is
already so (`IssueReady`), what was counted is no more than what the replicas have
(`Counted`, with the cardinality of the replicas looked at), and where the engine began
to look nobody else's data was there (`SeenFits`). `DataFrom` and `NothingAfterReplace`
say what the data of a prefix of the log is; `CleanBefore` carries "nothing of others
was there" from the look to the statement that lands later; `MatchedHas` and `Converged`
turn a report in which all replicas match into the statement being everywhere. `FitInv`
carries what the checks before REPLACE established from one check to the next and on to
the statement.

**CheckRuns.** `CInv` says that what a request remembers is no more than what is still
so: the rows it read may have moved on, but only onward (`Onward`), so that what a
report says stays true (`True`), and that a retired node has no work left and a node's
site is there (`NothingDangles`). `RunOnward`, which is only proved, is about the
aggregate, which counts tasks: `Counting` and `Ranks` turn its cardinalities into what holds of the tasks.

**DeploymentTopology, TaskResults.** Facts about operators, not about behaviours. A
discovery is accepted when decoding changes nothing the resolver looks at, which
fails for an empty list only, and when the clock did not go back. A result of a check is normalised once and is a fixed
point of it (`ItemNormal`, `ResultNormal`), so that what the agent validated the
Server validates too; of a result that was refused nothing is left but a failure
that is always taken. For actions, `ExecuteYields` says what a result can look like
whatever the definition does, and a lemma for each way on follows it to the journal
and the Server; the converse names the one case that is refused (`Unaccountable`).

Only model-checked: liveness (`ExecutionSettles`, `EndedRunFreesTargets`,
`NobodysLeaseLapses`, `ReleaseEnds`, `TasksSettle`, `MembersSettle`,
`ReturnsTheLease`, `Recognised` within `CommitPromise`), which this prover cannot do.
The scanner of
`DeploymentTopology` (`parseNodesYAML`) is a recursive function over the lines of a
file, and what it computes for every file is an induction: `MCCheckRuns` evaluates it
on bounded files.

## 6. Not modelled

* The xrocket readdress operation (`operation/xrocketreaddress`): a discovery and a
  precheck that never passes; every later step returns `errApplyMechanismUnverified`,
  so a run of it ends blocked, or interrupted, while it is planned (`ExecutePlanning` in
  `TaskResults`).
* The preflight of a replicated partition, which only reads (section 4).
* The analysis of ClickHouse sources, planning of several items, SQL builders,
  parsers and transports; what they find is the initial choice of the two engines.
* The probes of the check plugins: parsing of command output on one host.
* Creation and planning of a run as actions: runs exist as `CreateOperationRun` leaves
  them. Nor the merge of evidence into `execution_json` beyond none, passed, failed,
  and the expiry of a restore point, which no operation of the repository sets.
* HTTP handlers, routing and codecs, list queries and the dashboard, schema
  migrations, flags, web UI, packaging, process execution and privilege checks:
  they keep no protocol state of their own; what they feed to the services is an
  input of the actions modelled here.
* Heartbeats in `TaskProtocol` and the reconnect barrier's wait for them: the barrier
  is a fact of `OperationRun`.

Two fidelity bounds are worth repeating: no statement of `StagedMigration` arrives
after its caller gave up (`commit.go:168` presumes as much), and `NodeEnrollment` has
one host with one Apply.

## 7. Plan

What proving would add next: for
`OperationRun` the safety half of `EndedRunFreesTargets` as an invariant of its own (an
ended run with a lease has a handler, a result owed or a recovery to come, which
`LInv` already says); `StagedMigration` with statements that arrive late. What
modelling would add: the reconnect barrier with heartbeats, late statements in
`StagedMigration`, two hosts in `NodeEnrollment`.
