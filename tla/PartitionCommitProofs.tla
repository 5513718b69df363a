------------------------ MODULE PartitionCommitProofs ------------------------
(***************************************************************************)
(* The commit of one partition: its statements happen once, on nobody      *)
(* else's data, and the ledger tells what is so, for any replicas, faults, *)
(* crashes and inserts.  The invariant PInv says: the ledger's state fits  *)
(* the engine's place, a statement that was sent fits the ledger, what the *)
(* engine counted is no more than what the replicas have, and where it     *)
(* began to look nobody else's data was there.                             *)
(***************************************************************************)
EXTENDS PartitionCommit, FiniteSetTheorems, SequenceTheorems, TLAPS

-----------------------------------------------------------------------------
(* The engine's place.                                                     *)

Looking == {"health", "parts", "data", "unseen"}

(* What an observation is for, while it is made and once it is there.      *)
Aim == IF engine.pc \in Looking THEN engine.then ELSE engine.pc

OfSource == {"settle", "replaced", "drop_intent"}
OfAbsence == {"replace_intent", "dropped", "fell"}
Sights == OfSource \cup OfAbsence \cup {"reported"}
Places == {"idle", "load", "guard", "capability", "staging", "put", "replace", "drop"}
            \cup Looking \cup Sights

Reports == [matched : Nat, absent : Nat, pending : Nat, conflicting : Nat]
EntryRows == [state : LedgerStates, source : {"run", "empty"},
              checkpoint : {"done", "replace_pending", "replicas_converging", "commit_unknown",
                            "drop_partition_pending", "rollback_observation_pending",
                            "rollback_replicas_converging"}]
Engines == [call : {"none", "commit", "rollback"}, pc : Places,
            then : Sights \cup {"idle", "guard", "replace", "drop"},
            entry : EntryRows \cup {"none"}, expect : {"none", "source", "absent"},
            left : SUBSET Replicas, at : Replicas \cup {"none"}, healthy : BOOLEAN,
            parts : BOOLEAN,
            report : Reports, seen : Nat]

Types ==
  /\ design \in Designs /\ staging \in {"run", "drifted"}
  /\ log \in Seq(Entries) /\ late \in Seq(Entries)
  /\ applied \in [Replicas -> Nat] /\ \A r \in Replicas : applied[r] <= Len(log)
  /\ ledger \in EntryRows /\ lease \in BOOLEAN
  /\ engine \in Engines
  /\ faults \in 0..MaxFaults /\ crashes \in 0..MaxCrashes

(* Where the ledger is while the engine is at a place.                     *)
Onto(from, to, then) ==
  \/ from = "verified" /\ to = "commit_pending" /\ then = "replace"
  \/ /\ from \in Unsettled /\ to \in Unsettled \cup {"committed"}
     /\ then = IF to = "committed" /\ engine.call = "rollback" THEN "guard" ELSE "idle"
  \/ from = "committed" /\ to = "rollback_blocked" /\ then = "idle"
  \/ from = "committed" /\ to = "rollback_pending" /\ then = "drop"
  \/ from = "rollback_pending" /\ to \in {"rollback_pending", "rolled_back", "rollback_failed"}
     /\ then = "idle"

LedgerFits ==
  LET s == ledger.state IN
  /\ engine = Idle \/ engine.call \in {"commit", "rollback"}
  /\ Aim \in {"capability", "staging", "replace_intent"} => s = "verified"
  /\ Aim = "guard" => s = IF engine.call = "commit" THEN "verified" ELSE "committed"
  /\ Aim = "drop_intent" => s = "committed" 
  /\ Aim = "settle" => s \in Unsettled
  /\ Aim \in {"replace", "replaced"} => s = "commit_pending"
  /\ Aim \in {"drop", "fell", "dropped"} => s = "rollback_pending"
  /\ Aim = "reported" => s \in {"committed", "rolled_back"}
  /\ engine.pc = "put" => /\ engine.entry \in EntryRows /\ engine.entry.source = ledger.source
                          /\ Onto(s, engine.entry.state, engine.then)
                          /\ CheckpointOwned(engine.entry.state, engine.entry.checkpoint, TRUE)
  /\ engine.pc \in Looking => engine.then \in Sights

-----------------------------------------------------------------------------
(* What was issued, and who has it.                                        *)

Has(r, op) == \E i \in Issued(op) : i <= applied[r]
Everywhere(op) == \A r \in Replicas : Has(r, op)

PostCommit == {"committed", "rollback_pending", "rolled_back", "rollback_blocked",
               "rollback_failed"}
PreCommit == {"verified"} \cup Unsettled

IssueFits ==
  /\ ledger.state \in PreCommit \cup PostCommit
  /\ ledger.state = "verified" => Sent("replace") = {}
  /\ ledger.state \notin {"rollback_pending", "rolled_back", "rollback_failed"} => Sent("drop") = {}
  /\ IssuedOnce
  /\ ledger.state \in PostCommit => Everywhere("replace")
  /\ ledger.state = "rolled_back" => Everywhere("drop")

IssueReady ==
  /\ engine.pc = "replace" => Sent("replace") = {}
  /\ engine.pc = "drop" => Sent("drop") = {}
  /\ engine.pc = "put" /\ engine.entry.state = "committed" => Everywhere("replace")
  /\ engine.pc = "put" /\ engine.entry.state = "rolled_back" => Everywhere("drop")

(* What was in the partition when the engine began to look.                *)
Clean(n) == DataAfter(n) \subseteq {"run"}

SeenFits ==
  /\ \A i \in DOMAIN log : log[i].seen <= Len(log) /\ (log[i].op # "insert" => Clean(log[i].seen))
  /\ \A i \in DOMAIN late : late[i].op # "insert" /\ late[i].seen <= Len(log) /\ Clean(late[i].seen)

SeenReady ==
  /\ engine.seen <= Len(log)
  /\ engine.pc \in {"parts", "data"} =>
       engine.at \in engine.left /\ (engine.healthy => engine.seen <= applied[engine.at])
  /\ Aim = "drop_intent" => \E i \in Issued("replace") : i <= engine.seen
  /\ Aim \in {"replace_intent", "drop_intent"} /\ engine.report.matched > 0 => Clean(engine.seen)
  /\ engine.pc \in {"replace", "drop"} \/ (engine.pc = "put" /\ engine.then \in {"replace", "drop"})
       => Clean(engine.seen)

(* What the replicas that were counted have.                               *)
Seen == Replicas \ engine.left
Counted ==
  /\ Aim \in OfSource => engine.expect = "source"
  /\ Aim \in OfAbsence => engine.expect = "absent"
  /\ engine.pc \in Looking => engine.expect \in {"source", "absent"}
  /\ engine.report.matched + engine.report.pending + engine.report.conflicting <= Cardinality(Seen)
  /\ Aim \in OfSource => engine.report.matched <= Cardinality({r \in Seen : Has(r, "replace")})
  /\ Aim \in {"dropped", "fell"} => engine.report.matched <= Cardinality({r \in Seen : Has(r, "drop")})

PInv == /\ Types /\ IssueFits /\ SeenFits /\ CheckpointsOwned
        /\ LedgerFits /\ IssueReady /\ SeenReady /\ Counted

-----------------------------------------------------------------------------
(* Lemmas: the log.                                                        *)

LEMMA LogLength == Types => Len(log) \in Nat /\ DOMAIN log = 1..Len(log)
BY LenProperties DEF Types

LEMMA LateLength == Types => Len(late) \in Nat /\ DOMAIN late = 1..Len(late)
BY LenProperties DEF Types

LEMMA LogEntry ==
  ASSUME Types, NEW i \in DOMAIN log
  PROVE  /\ i \in Nat /\ i > 0 /\ i <= Len(log)
         /\ log[i].op \in {"replace", "drop", "insert"} /\ log[i].seen \in Nat
<1>1. i \in 1..Len(log) /\ Len(log) \in Nat
  BY LogLength
<1>2. log[i] \in Entries
  BY <1>1, ElementOfSeq DEF Types
<1> QED BY <1>1, <1>2 DEF Entries

LEMMA LateEntry ==
  ASSUME Types, NEW i \in DOMAIN late
  PROVE  /\ i \in Nat /\ i > 0 /\ i <= Len(late) /\ late[i] \in Entries
         /\ late[i].op \in {"replace", "drop", "insert"} /\ late[i].seen \in Nat
<1>1. i \in 1..Len(late) /\ Len(late) \in Nat
  BY LateLength
<1>2. late[i] \in Entries
  BY <1>1, ElementOfSeq DEF Types
<1> QED BY <1>1, <1>2 DEF Entries

(* What the data after n entries comes from.                               *)
Lasts(i, n) == i \in 1..n /\ \A k \in (i + 1)..n : log[k].op = "insert"

LEMMA DataFrom ==
  ASSUME Types, NEW n \in Nat, n <= Len(log)
  PROVE  /\ DataAfter(n) \subseteq {"run", "stranger"}
         /\ "run" \in DataAfter(n) <=> \E i \in 1..n : Lasts(i, n) /\ log[i].op = "replace"
         /\ "stranger" \in DataAfter(n) <=> \E i \in 1..n : Lasts(i, n) /\ log[i].op = "insert"
<1>1. \A i \in 1..n : log[i].op \in {"replace", "drop", "insert"}
  BY LogLength, LogEntry
<1>2. \A d : d \in DataAfter(n) <=> \E i \in 1..n : Lasts(i, n) /\ d \in Brings(log[i].op)
  BY DEF DataAfter, Lasts
<1>3. \A i \in 1..n :
        Brings(log[i].op) = IF log[i].op = "replace" THEN {"run"}
                            ELSE IF log[i].op = "insert" THEN {"stranger"} ELSE {}
  BY <1>1 DEF Brings
<1>4. \A i \in 1..n : "run" \in Brings(log[i].op) <=> log[i].op = "replace"
  BY <1>1, <1>3
<1>5. \A i \in 1..n : "stranger" \in Brings(log[i].op) <=> log[i].op = "insert"
  BY <1>1, <1>3
<1>6. \A i \in 1..n : Brings(log[i].op) \subseteq {"run", "stranger"}
  BY <1>1, <1>3
<1> QED BY <1>2, <1>4, <1>5, <1>6

(* Whoever has applied a REPLACE and shows nothing has applied a DROP, too. *)
LEMMA NothingAfterReplace ==
  ASSUME Types, NEW n \in Nat, n <= Len(log), NEW i \in Issued("replace"), i <= n,
         \A j \in Issued("replace") : j = i, "run" \notin DataAfter(n)
  PROVE  \E j \in Issued("drop") : j <= n
<1>1. i \in 1..n /\ log[i].op = "replace" /\ i \in DOMAIN log
  BY LogEntry DEF Issued
<1>2. ~Lasts(i, n)
  BY <1>1, DataFrom
<1>3. PICK k \in (i + 1)..n : log[k].op # "insert"
  BY <1>1, <1>2 DEF Lasts
<1>4. k \in DOMAIN log /\ k <= n /\ k # i
  BY <1>1, <1>3, LogLength
<1>5. log[k].op # "replace"
  BY <1>4 DEF Issued
<1> QED BY <1>3, <1>4, <1>5, LogEntry DEF Issued

(* The data of others that was there and is not there any more was taken  *)
(* away by a statement in between.                                         *)
LEMMA CleanBefore ==
  ASSUME Types, NEW m \in Nat, NEW n \in Nat, m <= n, n <= Len(log), Clean(n),
         \A i \in DOMAIN log : m < i /\ i <= n => log[i].op = "insert"
  PROVE  Clean(m)
<1>1. "stranger" \notin DataAfter(n)
  BY DEF Clean
<1>2. ASSUME NEW i \in 1..m, Lasts(i, m), log[i].op = "insert" PROVE FALSE
  <2>1. i \in 1..n
    OBVIOUS
  <2>2. \A k \in (i + 1)..n : log[k].op = "insert"
    BY <1>2, LogLength DEF Lasts
  <2> QED BY <1>1, <1>2, <2>1, <2>2, DataFrom DEF Lasts
<1>3. "stranger" \notin DataAfter(m)
  BY <1>2, DataFrom
<1>4. DataAfter(m) \subseteq {"run", "stranger"}
  BY DataFrom
<1> QED BY <1>3, <1>4 DEF Clean

(* The log grows at its end.                                               *)
Grows == /\ log' \in Seq(Entries) /\ Len(log) <= Len(log')
         /\ \A i \in DOMAIN log : i \in DOMAIN log' /\ log'[i] = log[i]

LEMMA Appended ==
  ASSUME Types, NEW e \in Entries, log' = Append(log, e)
  PROVE  /\ Grows /\ Len(log') = Len(log) + 1 /\ DOMAIN log' = DOMAIN log \cup {Len(log) + 1}
         /\ log'[Len(log) + 1] = e
<1>1. PICK n \in Nat : n = Len(log) /\ DOMAIN log = 1..n
  BY LogLength
<1>2. /\ log' \in Seq(Entries) /\ Len(log') = n + 1
      /\ \A i \in 1..n : log'[i] = log[i]
      /\ log'[n + 1] = e
  BY <1>1, AppendProperties DEF Types
<1>3. DOMAIN log' = 1..(n + 1)
  BY <1>2, LenProperties
<1>4. 1..(n + 1) = (1..n) \cup {n + 1}
  OBVIOUS
<1> QED BY <1>1, <1>2, <1>3, <1>4 DEF Grows

LEMMA DataStays ==
  ASSUME Types, Grows \/ log' = log, NEW n \in Nat, n <= Len(log)
  PROVE  DataAfter(n)' = DataAfter(n)
<1>1. \A i \in 1..n : log'[i] = log[i]
  BY LogLength DEF Grows
<1>2. \A i \in 1..n : Lasts(i, n)' <=> Lasts(i, n)
  BY <1>1 DEF Lasts
<1>3. \A d : d \in DataAfter(n) <=> \E i \in 1..n : Lasts(i, n) /\ d \in Brings(log[i].op)
  BY DEF DataAfter, Lasts
<1>4. \A d : d \in DataAfter(n)' <=> \E i \in 1..n : Lasts(i, n)' /\ d \in Brings(log'[i].op)
  BY DEF DataAfter, Lasts
<1>5. \A d : d \in DataAfter(n)' <=> d \in DataAfter(n)
  BY <1>1, <1>2, <1>3, <1>4
<1> QED BY <1>5

LEMMA HasStays ==
  ASSUME Types, Grows \/ log' = log, \A r \in Replicas : applied[r] <= applied'[r],
         applied' \in [Replicas -> Nat], NEW op, Everywhere(op)
  PROVE  Everywhere(op)'
<1>1. \A i \in Issued(op) : i \in Issued(op)' /\ i \in Nat
  BY LogEntry DEF Issued, Grows
<1>2. \A r \in Replicas : applied[r] \in Nat /\ applied'[r] \in Nat
  BY DEF Types
<1> QED BY <1>1, <1>2 DEF Everywhere, Has

-----------------------------------------------------------------------------
(* Lemmas: the engine.                                                     *)

(* The tables and the ledger stay as they are.                             *)
Kept == /\ UNCHANGED <<design, staging, log, applied, late, ledger>>
        /\ lease' \in BOOLEAN /\ faults' \in 0..MaxFaults /\ crashes' \in 0..MaxCrashes

LEMMA KeptFacts ==
  ASSUME UNCHANGED <<log, applied, late>>
  PROVE  /\ \A op : Issued(op)' = Issued(op) /\ Sent(op)' = Sent(op)
         /\ \A op : Everywhere(op)' <=> Everywhere(op)
         /\ \A r, op : Has(r, op)' <=> Has(r, op)
         /\ \A n : Clean(n)' <=> Clean(n)
<1>1. \A op : Issued(op)' = Issued(op)
  BY DEF Issued
<1>2. \A op : Sent(op)' = Sent(op)
  BY <1>1 DEF Sent
<1>3. \A r, op : Has(r, op)' <=> Has(r, op)
  BY <1>1 DEF Has
<1>4. \A op : Everywhere(op)' <=> Everywhere(op)
  BY <1>3 DEF Everywhere
<1>5. \A n : DataAfter(n)' = DataAfter(n)
  BY DEF DataAfter
<1>6. \A n : Clean(n)' <=> Clean(n)
  BY <1>5 DEF Clean
<1> QED BY <1>1, <1>2, <1>3, <1>4, <1>6

LEMMA EngineMoves ==
  ASSUME PInv, Kept, engine' \in Engines, LedgerFits', IssueReady', SeenReady', Counted'
  PROVE  PInv'
<1>1. Types'
  BY DEF PInv, Types, Kept
<1>2. IssueFits' /\ CheckpointsOwned'
  BY KeptFacts DEF PInv, IssueFits, CheckpointsOwned, Kept, IssuedOnce
<1>3. SeenFits'
  BY KeptFacts DEF PInv, SeenFits, Kept
<1> QED BY <1>1, <1>2, <1>3 DEF PInv

LEMMA IdleFits == Idle \in Engines
BY DEF Idle, Engines, Places, Reports, NoReport

LEMMA Countable ==
  ASSUME NEW S, S \subseteq Replicas
  PROVE  IsFiniteSet(S) /\ Cardinality(S) \in Nat
<1>1. IsFiniteSet(S)
  BY BoundsAssumption, FS_Subset
<1> QED BY <1>1, FS_CardinalityType

LEMMA ToIdle ==
  ASSUME PInv, Kept, engine' = Idle
  PROVE  PInv'
<1>1. engine' \in Engines
  BY IdleFits
<1>2. LedgerFits' /\ IssueReady'
  BY DEF LedgerFits, IssueReady, Aim, Idle, Looking
<1>3. SeenReady'
  BY LogLength DEF SeenReady, Aim, Idle, Looking, Kept, PInv
<1>4. Counted'
  <2>2. Cardinality(Seen)' \in Nat
    BY Countable DEF Seen
  <2> QED BY <2>2 DEF Counted, Aim, Idle, Looking, OfSource, OfAbsence, NoReport
<1> QED BY <1>1, <1>2, <1>3, <1>4, EngineMoves

(* An observation begins.                                                  *)
LEMMA ToLook ==
  ASSUME PInv, Kept, NEW expect \in {"source", "absent"}, NEW then \in Sights,
         engine' = Observe(expect, then), engine.call \in {"commit", "rollback"},
         then \in OfSource => expect = "source", then \in OfAbsence => expect = "absent",
         then = "replace_intent" => ledger.state = "verified",
         then = "drop_intent" => ledger.state = "committed",
         then = "settle" => ledger.state \in Unsettled,
         then = "replaced" => ledger.state = "commit_pending",
         then \in {"dropped", "fell"} => ledger.state = "rollback_pending",
         then = "reported" => ledger.state \in {"committed", "rolled_back"}
  PROVE  PInv'
<1>1. Len(log) \in Nat /\ engine \in Engines
  BY LogLength DEF PInv, Types
<1>2. engine' \in Engines /\ engine'.pc = "health" /\ engine'.then = then
      /\ engine'.call = engine.call /\ engine'.expect = expect /\ engine'.left = Replicas
      /\ engine'.report = NoReport /\ engine'.seen = Len(log)
  BY <1>1 DEF Observe, Engines, Places, Looking, Reports, NoReport
<1>3. Aim' = then
  BY <1>2 DEF Aim, Looking
<1>4. LedgerFits'
  BY <1>2, <1>3 DEF LedgerFits, Kept, Sights, OfSource, OfAbsence
<1>5. IssueReady'
  BY <1>2 DEF IssueReady
<1>6. SeenReady'
  <2>1. then = "drop_intent" => \E i \in Issued("replace") : i <= Len(log)
    <3>1. SUFFICES ASSUME then = "drop_intent" PROVE \E i \in Issued("replace") : i <= Len(log)
      OBVIOUS
    <3>2. PICK r : r \in Replicas
      BY BoundsAssumption, FS_EmptySet
    <3>3. PICK i \in Issued("replace") : i <= applied[r]
      BY <3>1, <3>2 DEF PInv, IssueFits, PostCommit, Everywhere, Has
    <3> QED BY <3>3, LogEntry DEF PInv, Issued
  <2> QED BY <1>1, <1>2, <1>3, <2>1 DEF SeenReady, Kept, NoReport, Issued
<1>7. Counted'
  <2>1. Seen' = {}
    BY <1>2 DEF Seen
  <2>2. {r \in Seen' : Has(r, "replace")'} = {} /\ {r \in Seen' : Has(r, "drop")'} = {}
    BY <2>1
  <2>3. Cardinality({}) = 0
    BY FS_EmptySet
  <2> QED BY <1>2, <1>3, <2>1, <2>2, <2>3 DEF Counted, NoReport, Looking
<1> QED BY <1>2, <1>4, <1>5, <1>6, <1>7, EngineMoves

(* The engine is about to write the ledger.                                *)
LEMMA ToPut ==
  ASSUME PInv, Kept, NEW state \in LedgerStates, NEW checkpoint, NEW then,
         engine' = Store(state, checkpoint, then), engine.call \in {"commit", "rollback"},
         [ledger EXCEPT !.state = state, !.checkpoint = checkpoint] \in EntryRows,
         CheckpointOwned(state, checkpoint, TRUE), Onto(ledger.state, state, then),
         then \in {"replace", "drop"} => Clean(engine.seen),
         state = "committed" => Everywhere("replace"),
         state = "rolled_back" => Everywhere("drop")
  PROVE  PInv'
<1>1. engine \in Engines /\ then \in {"idle", "guard", "replace", "drop"}
  BY DEF PInv, Types, Onto
<1>2. /\ engine' \in Engines /\ engine'.pc = "put" /\ engine'.then = then
      /\ engine'.call = engine.call /\ engine'.left = engine.left /\ engine'.expect = engine.expect
      /\ engine'.report = engine.report /\ engine'.seen = engine.seen
      /\ engine'.entry = [ledger EXCEPT !.state = state, !.checkpoint = checkpoint]
  BY <1>1 DEF Store, Engines, Places
<1>3. engine'.entry.state = state /\ engine'.entry.checkpoint = checkpoint
      /\ engine'.entry.source = ledger.source /\ engine'.entry \in EntryRows
  BY <1>2 DEF PInv, Types, EntryRows
<1>4. Aim' = "put"
  BY <1>2 DEF Aim, Looking
<1>5. LedgerFits'
  BY <1>2, <1>3, <1>4 DEF LedgerFits, Kept, Looking, Onto
<1>6. IssueReady'
  BY <1>2, <1>3, KeptFacts DEF IssueReady, Kept
<1>7. SeenReady'
  BY <1>2, <1>4, KeptFacts DEF SeenReady, Kept, PInv
<1>8. Counted'
  BY <1>2, <1>4 DEF Counted, PInv, Looking, OfSource, OfAbsence, Seen
<1> QED BY <1>2, <1>5, <1>6, <1>7, <1>8, EngineMoves

(* The engine goes on to a check, or gives an observation up.              *)
LEMMA ToCheck ==
  ASSUME PInv, Kept, NEW pc \in {"load", "guard", "capability", "staging"},
         engine' \in Engines, engine'.pc = pc, engine'.call \in {"commit", "rollback"},
         engine'.left = {} \/ (engine'.left = engine.left /\ engine'.report = engine.report),
         engine'.left = {} => engine'.report = NoReport,
         engine'.seen \in {0, engine.seen},
         pc \in {"capability", "staging"} => ledger.state = "verified",
         pc = "guard" => ledger.state = IF engine'.call = "commit" THEN "verified" ELSE "committed"
  PROVE  PInv'
<1>1. Aim' = pc
  BY DEF Aim, Looking
<1>2. LedgerFits' /\ IssueReady'
  BY <1>1 DEF LedgerFits, IssueReady, Kept, Looking
<1>3. SeenReady'
  BY <1>1, LogLength DEF SeenReady, PInv, Kept
<1>4. Counted'
  <2>2. Cardinality(Seen)' \in Nat
    BY Countable DEF Seen
  <2> QED BY <1>1, <2>2 DEF Counted, Looking, OfSource, OfAbsence, NoReport, PInv, Seen
<1> QED BY <1>2, <1>3, <1>4, EngineMoves

LEMMA ToUnseen ==
  ASSUME PInv, Kept, engine.pc \in {"health", "parts", "data"}, engine' = [engine EXCEPT !.pc = "unseen"]
  PROVE  PInv'
<1>1. engine \in Engines
  BY DEF PInv, Types
<1>2. /\ engine' \in Engines /\ engine'.pc = "unseen" /\ engine'.then = engine.then
      /\ engine'.call = engine.call /\ engine'.left = engine.left /\ engine'.expect = engine.expect
      /\ engine'.report = engine.report /\ engine'.seen = engine.seen
  BY <1>1 DEF Engines, Places, Looking
<1>3. Aim' = engine.then /\ Aim = engine.then /\ engine.then \in Sights
  BY <1>2 DEF Aim, Looking, PInv, LedgerFits
<1>4. LedgerFits' /\ IssueReady'
  BY <1>2, <1>3 DEF LedgerFits, IssueReady, Kept, PInv, Looking, Idle
<1>5. SeenReady'
  BY <1>2, <1>3, KeptFacts DEF SeenReady, Kept, PInv
<1>6. Seen' = Seen
  BY <1>2 DEF Seen
<1>7. /\ {r \in Seen : Has(r, "replace")}' = {r \in Seen : Has(r, "replace")}
      /\ {r \in Seen : Has(r, "drop")}' = {r \in Seen : Has(r, "drop")}
  BY <1>6, KeptFacts DEF Kept
<1>8. Counted'
  BY <1>2, <1>3, <1>6, <1>7 DEF Counted, PInv, Looking
<1> QED BY <1>2, <1>4, <1>5, <1>8, EngineMoves

LEMMA LooksAtHealth ==
  ASSUME PInv, Kept, ObserveHealth
  PROVE  PInv'
<1>1. CASE ~ReplicaTargetsKnown
  BY <1>1, ToUnseen DEF ObserveHealth, At, Goto
<1>2. CASE ReplicaTargetsKnown
  <2>1. PICK r \in engine.left : engine' = [engine EXCEPT !.pc = "parts", !.at = r, !.healthy = Healthy(r)]
    BY <1>2 DEF ObserveHealth
  <2>2. engine \in Engines /\ r \in Replicas /\ Healthy(r) \in BOOLEAN /\ engine.pc = "health"
    BY <2>1 DEF PInv, Types, Engines, Healthy, ObserveHealth, At
  <2>3. /\ engine' \in Engines /\ engine'.pc = "parts" /\ engine'.then = engine.then
        /\ engine'.call = engine.call /\ engine'.left = engine.left /\ engine'.expect = engine.expect
        /\ engine'.report = engine.report /\ engine'.seen = engine.seen
        /\ engine'.at = r /\ engine'.healthy = Healthy(r)
    BY <2>1, <2>2 DEF Engines, Places, Looking
  <2>4. Aim' = engine.then /\ Aim = engine.then /\ engine.then \in Sights
    BY <2>2, <2>3 DEF Aim, Looking, PInv, LedgerFits
  <2>5. LedgerFits' /\ IssueReady'
    BY <2>2, <2>3, <2>4 DEF LedgerFits, IssueReady, Kept, PInv, Looking, Idle
  <2>6. Healthy(r) => engine.seen <= applied[r]
    BY DEF Healthy, PInv, SeenReady
  <2>7. SeenReady'
    BY <2>1, <2>3, <2>4, <2>6, KeptFacts DEF SeenReady, Kept, PInv
  <2>8. Seen' = Seen
    BY <2>3 DEF Seen
  <2>9. /\ {q \in Seen : Has(q, "replace")}' = {q \in Seen : Has(q, "replace")}
        /\ {q \in Seen : Has(q, "drop")}' = {q \in Seen : Has(q, "drop")}
    BY <2>8, KeptFacts DEF Kept
  <2>10. Counted'
    BY <2>2, <2>3, <2>4, <2>8, <2>9 DEF Counted, PInv, Looking
  <2> QED BY <2>3, <2>5, <2>7, <2>10, EngineMoves
<1> QED BY <1>1, <1>2

LEMMA LooksAtParts ==
  ASSUME PInv, Kept, ObserveParts
  PROVE  PInv'
<1>1. engine \in Engines /\ engine.pc = "parts"
  BY DEF PInv, Types, ObserveParts, At
<1>2. PICK p \in BOOLEAN : engine' = [engine EXCEPT !.pc = "data", !.parts = p]
  BY DEF ObserveParts
<1>3. /\ engine' \in Engines /\ engine'.pc = "data" /\ engine'.then = engine.then
      /\ engine'.call = engine.call /\ engine'.left = engine.left /\ engine'.expect = engine.expect
      /\ engine'.report = engine.report /\ engine'.seen = engine.seen
      /\ engine'.at = engine.at /\ engine'.healthy = engine.healthy
  BY <1>1, <1>2 DEF Engines, Places, Looking
<1>4. Aim' = engine.then /\ Aim = engine.then /\ engine.then \in Sights
  BY <1>1, <1>3 DEF Aim, Looking, PInv, LedgerFits
<1>5. LedgerFits' /\ IssueReady'
  BY <1>1, <1>3, <1>4 DEF LedgerFits, IssueReady, Kept, PInv, Looking, Idle
<1>6. SeenReady'
  BY <1>1, <1>3, <1>4, KeptFacts DEF SeenReady, Kept, PInv
<1>7. Seen' = Seen
  BY <1>3 DEF Seen
<1>8. /\ {q \in Seen : Has(q, "replace")}' = {q \in Seen : Has(q, "replace")}
      /\ {q \in Seen : Has(q, "drop")}' = {q \in Seen : Has(q, "drop")}
  BY <1>7, KeptFacts DEF Kept
<1>9. Counted'
  BY <1>1, <1>3, <1>4, <1>7, <1>8 DEF Counted, PInv, Looking
<1> QED BY <1>3, <1>5, <1>6, <1>9, EngineMoves

-----------------------------------------------------------------------------
(* Lemmas: one replica is counted.                                         *)

LEMMA CountOne ==
  ASSUME NEW S, S \subseteq Replicas, NEW x \in Replicas \ S, NEW op, NEW T, NEW U,
         \A r : r \in T <=> r \in S /\ Has(r, op),
         \A r : r \in U <=> r \in S \cup {x} /\ Has(r, op)
  PROVE  Cardinality(U) = Cardinality(T) + IF Has(x, op) THEN 1 ELSE 0
<1>1. T \subseteq Replicas /\ IsFiniteSet(T) /\ Cardinality(T) \in Nat /\ x \notin T
  BY Countable
<1>2. U = IF Has(x, op) THEN T \cup {x} ELSE T
  OBVIOUS
<1>3. Cardinality(T \cup {x}) = Cardinality(T) + 1
  BY <1>1, FS_AddElement
<1> QED BY <1>1, <1>2, <1>3

LEMMA ClassCounts ==
  ASSUME NEW expect \in {"source", "absent"}, NEW parts \in BOOLEAN, NEW data, NEW healthy \in BOOLEAN
  PROVE  LET c == Class(expect, parts, data, healthy) IN
         /\ "matched" \in c => healthy /\ data = IF expect = "source" THEN {"run"} ELSE {}
         /\ \/ "matched" \in c /\ "pending" \notin c /\ "conflicting" \notin c
            \/ "matched" \notin c /\ "pending" \in c /\ "conflicting" \notin c
            \/ "matched" \notin c /\ "pending" \notin c /\ "conflicting" \in c
<1>1. CASE data \notin {{}, {"run"}}
  BY <1>1 DEF Class
<1>2. CASE data \in {{}, {"run"}} /\ expect = "source"
  BY <1>2 DEF Class
<1>3. CASE data \in {{}, {"run"}} /\ expect = "absent"
  BY <1>3 DEF Class
<1> QED BY <1>1, <1>2, <1>3

LEMMA SentNone == \A op : Sent(op) = {} => Issued(op) = {}
<1> SUFFICES ASSUME NEW op, Sent(op) = {}, NEW i \in Issued(op) PROVE FALSE
  OBVIOUS
<1>1. <<"log", i>> \in Sent(op)
  BY DEF Sent
<1> QED BY <1>1

(* The replica that counts as what was looked for has what was issued.     *)
LEMMA MatchedHas ==
  ASSUME PInv, engine.pc = "data", engine.healthy,
         Holds(engine.at) = IF engine.expect = "source" THEN {"run"} ELSE {}
  PROVE  /\ Aim \in OfSource => Has(engine.at, "replace")
         /\ Aim \in {"dropped", "fell"} => Has(engine.at, "drop")
         /\ Aim \in {"replace_intent", "drop_intent"} => Clean(engine.seen)
<1> DEFINE x == engine.at
           n == applied[x]
<1>1. Types /\ IssueFits /\ SeenReady /\ LedgerFits /\ Counted
  BY DEF PInv
<1>2. x \in Replicas /\ n \in Nat /\ n <= Len(log) /\ engine.seen \in Nat /\ engine.seen <= n
  BY <1>1 DEF Types, SeenReady, Engines
<1>3. Aim \in OfSource => Has(x, "replace")
  <2>1. SUFFICES ASSUME Aim \in OfSource PROVE Has(x, "replace")
    OBVIOUS
  <2>2. "run" \in DataAfter(n)
    BY <1>1, <2>1 DEF Counted, Holds
  <2>3. PICK i \in 1..n : log[i].op = "replace"
    BY <1>1, <1>2, <2>2, DataFrom
  <2> QED BY <1>1, <1>2, <2>3, LogLength DEF Has, Issued
<1>4. \A i, j \in Issued("replace") : i = j
  <2>1. ASSUME NEW i \in Issued("replace"), NEW j \in Issued("replace") PROVE i = j
    <3>1. <<"log", i>> \in Sent("replace") /\ <<"log", j>> \in Sent("replace")
      BY DEF Sent
    <3>2. <<"log", i>> = <<"log", j>>
      BY <1>1, <3>1 DEF IssueFits, IssuedOnce
    <3> QED BY <3>2
  <2> QED BY <2>1
<1>5. Aim \in {"dropped", "fell"} => Has(x, "drop")
  <2>1. SUFFICES ASSUME Aim \in {"dropped", "fell"} PROVE Has(x, "drop")
    OBVIOUS
  <2>2. "run" \notin DataAfter(n) /\ ledger.state = "rollback_pending"
    BY <1>1, <2>1 DEF Counted, Holds, OfAbsence, LedgerFits
  <2>3. PICK i \in Issued("replace") : i <= n
    BY <1>1, <1>2, <2>2 DEF IssueFits, PostCommit, Everywhere, Has
  <2> QED BY <1>1, <1>2, <1>4, <2>2, <2>3, NothingAfterReplace DEF Has
<1>6. Aim = "replace_intent" => Clean(engine.seen)
  <2>1. SUFFICES ASSUME Aim = "replace_intent" PROVE Clean(engine.seen)
    OBVIOUS
  <2>2. DataAfter(n) = {} /\ ledger.state = "verified"
    BY <1>1, <2>1 DEF Counted, Holds, OfAbsence, LedgerFits
  <2>3. Sent("replace") = {} /\ Sent("drop") = {}
    BY <1>1, <2>2 DEF IssueFits
  <2>4. \A i \in DOMAIN log : log[i].op = "insert"
    BY <1>1, <2>3, LogEntry, SentNone DEF Issued
  <2> QED BY <1>1, <1>2, <2>2, <2>4, CleanBefore DEF Clean
<1>7. Aim = "drop_intent" => Clean(engine.seen)
  <2>1. SUFFICES ASSUME Aim = "drop_intent" PROVE Clean(engine.seen)
    OBVIOUS
  <2>2. DataAfter(n) = {"run"} /\ ledger.state = "committed"
    BY <1>1, <2>1 DEF Counted, Holds, OfSource, LedgerFits
  <2>3. Sent("drop") = {}
    BY <1>1, <2>2 DEF IssueFits
  <2>4. PICK i \in Issued("replace") : i <= engine.seen
    BY <1>1, <2>1 DEF SeenReady
  <2>5. ASSUME NEW j \in DOMAIN log, engine.seen < j, log[j].op # "insert" PROVE FALSE
    <3>1. log[j].op = "replace" \/ log[j].op = "drop"
      BY <1>1, <2>5, LogEntry
    <3>2. j # i
      BY <1>1, <1>2, <2>4, <2>5, LogEntry DEF Issued
    <3> QED BY <1>4, <2>3, <3>1, <3>2, SentNone DEF Issued
  <2> QED BY <1>1, <1>2, <2>2, <2>5, CleanBefore DEF Clean
<1> QED BY <1>3, <1>5, <1>6, <1>7

LEMMA LooksAtData ==
  ASSUME PInv, Kept, ObserveData
  PROVE  PInv'
<1> DEFINE x == engine.at
<1>1. engine \in Engines /\ engine.pc = "data" /\ LedgerFits /\ SeenReady /\ Counted
  BY DEF PInv, Types, ObserveData, At
<1>2. x \in engine.left /\ x \in Replicas /\ engine.expect \in {"source", "absent"}
      /\ engine.then \in Sights /\ Aim = engine.then /\ Seen \subseteq Replicas /\ x \notin Seen
      /\ engine.healthy \in BOOLEAN /\ engine.parts \in BOOLEAN
  BY <1>1 DEF SeenReady, LedgerFits, Counted, Looking, Engines, Aim, Seen
<1>3. PICK c : c = Class(engine.expect, engine.parts, Holds(x), engine.healthy)
  OBVIOUS
<1>4. /\ "matched" \in c => /\ engine.healthy
                            /\ Holds(x) = IF engine.expect = "source" THEN {"run"} ELSE {}
      /\ \/ "matched" \in c /\ "pending" \notin c /\ "conflicting" \notin c
         \/ "matched" \notin c /\ "pending" \in c /\ "conflicting" \notin c
         \/ "matched" \notin c /\ "pending" \notin c /\ "conflicting" \in c
  BY <1>2, <1>3, ClassCounts
<1> DEFINE report == [k \in DOMAIN NoReport |-> engine.report[k] + (IF k \in c THEN 1 ELSE 0)]
<1>5. engine.report \in Reports /\ DOMAIN NoReport = {"matched", "absent", "pending", "conflicting"}
  BY <1>1 DEF Engines, NoReport
<1>6. /\ report \in Reports
      /\ report.matched = engine.report.matched + (IF "matched" \in c THEN 1 ELSE 0)
      /\ report.pending = engine.report.pending + (IF "pending" \in c THEN 1 ELSE 0)
      /\ report.conflicting = engine.report.conflicting + (IF "conflicting" \in c THEN 1 ELSE 0)
  BY <1>5 DEF Reports
<1>7. engine' = [engine EXCEPT !.pc = IF engine.left \ {x} = {} THEN engine.then ELSE "health",
                               !.left = engine.left \ {x}, !.at = "none", !.healthy = FALSE,
                               !.parts = FALSE, !.report = report]
  BY <1>3 DEF ObserveData
<1>8. PICK rep : rep = report
  OBVIOUS
<1> HIDE DEF report
<1>9. /\ engine' \in Engines /\ engine'.pc \in {engine.then, "health"} /\ engine'.then = engine.then
      /\ engine'.call = engine.call /\ engine'.left = engine.left \ {x}
      /\ engine'.expect = engine.expect /\ engine'.report = report /\ engine'.seen = engine.seen
  BY <1>1, <1>2, <1>6, <1>7 DEF Engines, Places, Looking
<1>10. Aim' = engine.then
  BY <1>2, <1>9 DEF Aim, Looking, Sights, OfSource, OfAbsence
<1>11. LedgerFits' /\ IssueReady'
  <2>1. engine.call \in {"commit", "rollback"} /\ Aim' = Aim
    BY <1>1, <1>2, <1>10 DEF LedgerFits, Idle
  <2>2. engine'.pc \notin {"put", "replace", "drop"} /\ engine'.then \in Sights
    BY <1>2, <1>9 DEF Sights, OfSource, OfAbsence
  <2> QED BY <1>1, <1>9, <2>1, <2>2 DEF LedgerFits, IssueReady, Kept
<1>12. "matched" \in c => /\ Aim \in OfSource => Has(x, "replace")
                          /\ Aim \in {"dropped", "fell"} => Has(x, "drop")
                          /\ Aim \in {"replace_intent", "drop_intent"} => Clean(engine.seen)
  BY <1>1, <1>4, MatchedHas
<1>13. SeenReady'
  <2>1. /\ engine'.seen <= Len(log)' /\ (Aim' = "drop_intent" => \E i \in Issued("replace") : i <= engine.seen)
        /\ engine'.pc \notin {"parts", "data", "replace", "drop", "put"}
    BY <1>1, <1>2, <1>9, <1>10 DEF SeenReady, Kept, Sights, OfSource, OfAbsence
  <2>2. Aim' \in {"replace_intent", "drop_intent"} /\ engine'.report.matched > 0 => Clean(engine.seen)
    BY <1>1, <1>2, <1>5, <1>6, <1>9, <1>10, <1>12 DEF SeenReady, Reports
  <2> QED BY <1>9, <2>1, <2>2, KeptFacts DEF SeenReady, Kept
<1>14. Seen' = Seen \cup {x}
  BY <1>2, <1>9 DEF Seen
<1>15. Counted'
  <2>1. /\ {r \in Seen : Has(r, "replace")}' = {r \in Seen \cup {x} : Has(r, "replace")}
        /\ {r \in Seen : Has(r, "drop")}' = {r \in Seen \cup {x} : Has(r, "drop")}
    BY <1>14, KeptFacts DEF Kept
  <2>2. /\ Cardinality(Seen \cup {x}) = Cardinality(Seen) + 1 /\ Cardinality(Seen) \in Nat
        /\ Cardinality({r \in Seen \cup {x} : Has(r, "replace")}) =
             Cardinality({r \in Seen : Has(r, "replace")}) + IF Has(x, "replace") THEN 1 ELSE 0
        /\ Cardinality({r \in Seen \cup {x} : Has(r, "drop")}) =
             Cardinality({r \in Seen : Has(r, "drop")}) + IF Has(x, "drop") THEN 1 ELSE 0
        /\ Cardinality({r \in Seen : Has(r, "replace")}) \in Nat
        /\ Cardinality({r \in Seen : Has(r, "drop")}) \in Nat
    <3>1. \A op : {r \in Seen : Has(r, op)} \subseteq Replicas
      BY <1>2
    <3>2. Cardinality(Seen) \in Nat /\ \A op : Cardinality({r \in Seen : Has(r, op)}) \in Nat
      BY <1>2, <3>1, Countable
    <3>3. Cardinality(Seen \cup {x}) = Cardinality(Seen) + 1
      BY <1>2, Countable, FS_AddElement
    <3>4. \A op : Cardinality({r \in Seen \cup {x} : Has(r, op)}) =
             Cardinality({r \in Seen : Has(r, op)}) + IF Has(x, op) THEN 1 ELSE 0
      <4> TAKE op
      <4> DEFINE T == {r \in Seen : Has(r, op)}
                 U == {r \in Seen \cup {x} : Has(r, op)}
      <4>1. /\ \A r : r \in T <=> r \in Seen /\ Has(r, op)
            /\ \A r : r \in U <=> r \in Seen \cup {x} /\ Has(r, op)
        OBVIOUS
      <4>2. Seen \subseteq Replicas /\ x \in Replicas \ Seen
        BY <1>2
      <4> HIDE DEF T, U, x
      <4>3. Cardinality(U) = Cardinality(T) + IF Has(x, op) THEN 1 ELSE 0
        BY <4>1, <4>2, CountOne
      <4> QED BY <4>3 DEF T, U
    <3> QED BY <3>2, <3>3, <3>4
  <2>3. engine'.report.matched + engine'.report.pending + engine'.report.conflicting <= Cardinality(Seen')
    <3>1. engine.report.matched + engine.report.pending + engine.report.conflicting <= Cardinality(Seen)
      BY <1>1 DEF Counted
    <3>2. /\ engine.report.matched \in Nat /\ engine.report.pending \in Nat
          /\ engine.report.conflicting \in Nat
      BY <1>5 DEF Reports
    <3>3. report.matched + report.pending + report.conflicting
            = engine.report.matched + engine.report.pending + engine.report.conflicting + 1
      BY <1>4, <1>6, <3>2
    <3>4. Cardinality(Seen') = Cardinality(Seen) + 1 /\ Cardinality(Seen) \in Nat
      BY <1>14, <2>2
    <3>5. report.matched + report.pending + report.conflicting <= Cardinality(Seen) + 1
      BY <3>1, <3>2, <3>3, <3>4
    <3> QED BY <1>9, <3>4, <3>5
  <2>4. Aim' \in OfSource => engine'.report.matched <= Cardinality({r \in Seen : Has(r, "replace")}')
    <3>1. SUFFICES ASSUME Aim' \in OfSource
          PROVE  engine'.report.matched <= Cardinality({r \in Seen : Has(r, "replace")}')
      OBVIOUS
    <3>2. Aim \in OfSource /\ engine.report.matched <= Cardinality({r \in Seen : Has(r, "replace")})
      BY <1>1, <1>2, <1>10, <3>1 DEF Counted
    <3>3. engine.report.matched \in Nat /\ engine'.report.matched
            = engine.report.matched + (IF "matched" \in c THEN 1 ELSE 0)
      BY <1>5, <1>6, <1>9 DEF Reports
    <3>4. "matched" \in c => Has(x, "replace")
      BY <1>12, <3>2
    <3>5. Cardinality({r \in Seen : Has(r, "replace")}')
            = Cardinality({r \in Seen : Has(r, "replace")}) + IF Has(x, "replace") THEN 1 ELSE 0
      BY <2>1, <2>2
    <3> QED BY <2>2, <3>2, <3>3, <3>4, <3>5
  <2>5. Aim' \in {"dropped", "fell"} => engine'.report.matched <= Cardinality({r \in Seen : Has(r, "drop")}')
    <3>1. SUFFICES ASSUME Aim' \in {"dropped", "fell"}
          PROVE  engine'.report.matched <= Cardinality({r \in Seen : Has(r, "drop")}')
      OBVIOUS
    <3>2. Aim \in {"dropped", "fell"} /\ engine.report.matched <= Cardinality({r \in Seen : Has(r, "drop")})
      BY <1>1, <1>2, <1>10, <3>1 DEF Counted
    <3>3. engine.report.matched \in Nat /\ engine'.report.matched
            = engine.report.matched + (IF "matched" \in c THEN 1 ELSE 0)
      BY <1>5, <1>6, <1>9 DEF Reports
    <3>4. "matched" \in c => Has(x, "drop")
      BY <1>12, <3>2
    <3>5. Cardinality({r \in Seen : Has(r, "drop")}')
            = Cardinality({r \in Seen : Has(r, "drop")}) + IF Has(x, "drop") THEN 1 ELSE 0
      BY <2>1, <2>2
    <3> QED BY <2>2, <3>2, <3>3, <3>4, <3>5
  <2>6. /\ Aim' \in OfSource => engine'.expect = "source"
        /\ Aim' \in OfAbsence => engine'.expect = "absent"
        /\ engine'.expect \in {"source", "absent"}
    BY <1>1, <1>2, <1>9, <1>10 DEF Counted
  <2> QED BY <2>3, <2>4, <2>5, <2>6 DEF Counted
<1> QED BY <1>9, <1>11, <1>13, <1>15, EngineMoves

(* An observation that converged was made on every replica.                *)
LEMMA Converged ==
  ASSUME PInv, Verdict(engine.report) = "converged"
  PROVE  /\ Aim \in OfSource => Everywhere("replace")
         /\ Aim \in {"dropped", "fell"} => Everywhere("drop")
         /\ Aim \in {"replace_intent", "drop_intent"} => Clean(engine.seen)
<1>1. engine.report.matched = Cardinality(Replicas) /\ engine.report \in Reports
      /\ Counted /\ SeenReady
  BY DEF Verdict, PInv, Types, Engines
<1>2. ASSUME NEW op, engine.report.matched <= Cardinality({r \in Seen : Has(r, op)})
      PROVE  Everywhere(op)
  <2> DEFINE T == {r \in Seen : Has(r, op)}
  <2>1. T \subseteq Replicas /\ IsFiniteSet(Replicas) /\ Cardinality(Replicas) \in Nat
    BY Countable DEF Seen
  <2>2. Cardinality(T) \in Nat
    BY <2>1, Countable
  <2>3. Cardinality(T) <= Cardinality(Replicas) /\ (Cardinality(T) = Cardinality(Replicas) => T = Replicas)
    BY <2>1, FS_Subset
  <2>4. T = Replicas
    BY <1>1, <1>2, <2>1, <2>2, <2>3
  <2> QED BY <2>4 DEF Everywhere
<1>3. engine.report.matched > 0
  BY <1>1, BoundsAssumption DEF Reports
<1> QED BY <1>1, <1>2, <1>3 DEF Counted, SeenReady

LEMMA Calling ==
  ASSUME PInv, engine.pc # "idle"
  PROVE  engine.call \in {"commit", "rollback"} /\ engine \in Engines /\ ledger \in EntryRows
BY DEF PInv, Types, LedgerFits, Idle

(* Some check comes next.                                                  *)
LEMMA GoesOn ==
  ASSUME PInv, Kept, engine.pc # "idle", NEW pc \in {"guard", "capability", "staging"},
         engine' = Goto(pc), pc # "guard" => ledger.state = "verified",
         pc = "guard" => ledger.state = IF engine.call = "commit" THEN "verified" ELSE "committed"
  PROVE  PInv'
<1>1. engine \in Engines /\ engine.call \in {"commit", "rollback"} /\ engine' = [engine EXCEPT !.pc = pc]
  BY Calling DEF Goto
<1>2. /\ engine' \in Engines /\ engine'.pc = pc /\ engine'.call = engine.call
      /\ engine'.left = engine.left /\ engine'.report = engine.report /\ engine'.seen = engine.seen
  BY <1>1 DEF Engines, Places
<1>3. CASE engine.left # {}
  BY <1>1, <1>2, <1>3, ToCheck
<1>4. CASE engine.left = {}
  <2>1. LedgerFits' /\ IssueReady'
    BY <1>1, <1>2 DEF LedgerFits, IssueReady, Kept, Looking, Aim
  <2>2. SeenReady'
    BY <1>2, LogLength DEF SeenReady, PInv, Kept, Aim, Looking
  <2>3. Counted'
    BY <1>2 DEF Counted, PInv, Looking, OfSource, OfAbsence, Seen, Aim
  <2> QED BY <1>2, <2>1, <2>2, <2>3, EngineMoves
<1> QED BY <1>3, <1>4

LEMMA Quietly == ASSUME PInv, Quiet PROVE Kept
BY DEF PInv, Types, Quiet, Kept, table, spent

LEMMA Begins ==
  ASSUME PInv, NEW kind \in {"commit", "rollback"}, Call(kind)
  PROVE  PInv'
<1>1. Kept /\ engine' = [Idle EXCEPT !.call = kind, !.pc = "load"]
  BY Quietly DEF Call
<1>2. engine' \in Engines /\ engine'.pc = "load" /\ engine'.call = kind /\ engine'.left = {}
      /\ engine'.report = NoReport /\ engine'.seen = 0
  BY <1>1, IdleFits DEF Idle, Engines, Places
<1> QED BY <1>1, <1>2, ToCheck

LEMMA LoadsTo ==
  ASSUME PInv, LoadEntry
  PROVE  LET s == ledger.state IN
         \/ engine' = Idle
         \/ engine' = Observe("source", "settle") /\ s \in Unsettled
         \/ engine' = Observe("source", "reported") /\ s = "committed"
         \/ engine' = Observe("absent", "dropped") /\ s = "rollback_pending"
         \/ engine' = Observe("absent", "reported") /\ s = "rolled_back"
         \/ engine' = Goto("guard") /\ s = IF engine.call = "commit" THEN "verified" ELSE "committed"
<1> DEFINE s == ledger.state
<1>1. engine.call \in {"commit", "rollback"} /\ s \in LedgerStates
  BY Quietly, Calling DEF LoadEntry, At, EntryRows
<1>2. CASE s \in {"rollback_blocked", "rollback_failed"}
  BY <1>2 DEF LoadEntry
<1>3. CASE s \notin {"rollback_blocked", "rollback_failed"} /\ engine.call = "commit"
  BY <1>3 DEF LoadEntry, Unsettled
<1>4. CASE s \notin {"rollback_blocked", "rollback_failed"} /\ engine.call = "rollback"
  BY <1>4 DEF LoadEntry, Unsettled
<1> QED BY <1>1, <1>2, <1>3, <1>4

LEMMA Loads ==
  ASSUME PInv, LoadEntry
  PROVE  PInv'
<1> DEFINE s == ledger.state
<1>1. Kept /\ engine.pc = "load" /\ engine.call \in {"commit", "rollback"} /\ s \in LedgerStates
  BY Quietly, Calling DEF LoadEntry, At, EntryRows
<1>2. CASE engine' = Idle
  BY <1>1, <1>2, ToIdle
<1>3. CASE engine' = Observe("source", "settle") /\ s \in Unsettled
  BY <1>1, <1>3, ToLook DEF Sights, OfSource, OfAbsence
<1>4. CASE engine' = Observe("source", "reported") /\ s = "committed"
  BY <1>1, <1>4, ToLook DEF Sights, OfSource, OfAbsence
<1>5. CASE engine' = Observe("absent", "dropped") /\ s = "rollback_pending"
  BY <1>1, <1>5, ToLook DEF Sights, OfSource, OfAbsence
<1>6. CASE engine' = Observe("absent", "reported") /\ s = "rolled_back"
  BY <1>1, <1>6, ToLook DEF Sights, OfSource, OfAbsence
<1>7. CASE engine' = Goto("guard") /\ s = IF engine.call = "commit" THEN "verified" ELSE "committed"
  BY <1>1, <1>7, GoesOn
<1> QED BY <1>2, <1>3, <1>4, <1>5, <1>6, <1>7, LoadsTo

LEMMA Checks ==
  ASSUME PInv, VerifyGuard \/ InspectCapability \/ CheckStaging
  PROVE  PInv'
<1>1. Kept /\ engine.pc \in {"guard", "capability", "staging"} /\ engine.call \in {"commit", "rollback"}
  BY Quietly, Calling DEF VerifyGuard, InspectCapability, CheckStaging, At
<1>2. /\ Aim = engine.pc
      /\ engine.pc # "guard" => ledger.state = "verified"
      /\ engine.pc = "guard" => ledger.state = IF engine.call = "commit" THEN "verified" ELSE "committed"
  BY <1>1 DEF Aim, Looking, PInv, LedgerFits
<1>3. CASE engine' = Idle
  BY <1>1, <1>3, ToIdle
<1>4. CASE VerifyGuard /\ engine' # Idle
  <2>1. CASE engine.call = "commit"
    BY <1>1, <1>2, <1>4, <2>1, GoesOn DEF VerifyGuard, At
  <2>2. CASE engine.call = "rollback"
    <3>1. engine' = Observe("source", "drop_intent") /\ ledger.state = "committed"
      BY <1>2, <1>4, <2>2 DEF VerifyGuard, At
    <3> QED BY <1>1, <3>1, ToLook DEF Sights, OfSource, OfAbsence
  <2> QED BY <1>1, <2>1, <2>2
<1>5. CASE InspectCapability /\ engine' # Idle
  BY <1>1, <1>2, <1>5, GoesOn DEF InspectCapability, At
<1>6. CASE CheckStaging /\ engine' # Idle
  <2>1. engine' = Observe("absent", "replace_intent") /\ ledger.state = "verified"
    BY <1>2, <1>6 DEF CheckStaging, At
  <2> QED BY <1>1, <2>1, ToLook DEF Sights, OfSource, OfAbsence
<1> QED BY <1>3, <1>4, <1>5, <1>6

LEMMA Faulted == ASSUME PInv, Fault PROVE faults' \in 0..MaxFaults /\ crashes' \in 0..MaxCrashes
BY BoundsAssumption DEF PInv, Types, Fault

LEMMA FailsToRead ==
  ASSUME PInv, ReadFails
  PROVE  PInv'
<1>1. Kept
  BY Faulted DEF ReadFails, Kept, PInv, Types, table
<1>2. CASE engine' = Idle
  BY <1>1, <1>2, ToIdle
<1>3. CASE engine.pc \in {"health", "parts", "data"}
  BY <1>1, <1>3, ToUnseen DEF ReadFails, Goto
<1> QED BY <1>2, <1>3 DEF ReadFails

(* The entry about to be stored.                                           *)
LEMMA Rewritten ==
  ASSUME PInv, NEW state \in LedgerStates,
         NEW checkpoint \in {"done", "replace_pending", "replicas_converging", "commit_unknown",
           "drop_partition_pending", "rollback_observation_pending", "rollback_replicas_converging"}
  PROVE  [ledger EXCEPT !.state = state, !.checkpoint = checkpoint] \in EntryRows
BY DEF PInv, Types, EntryRows

LEMMA Sighted ==
  ASSUME PInv, engine.pc \in Sights
  PROVE  Aim = engine.pc /\ engine.call \in {"commit", "rollback"}
BY Calling DEF Aim, Looking, Sights, OfSource, OfAbsence

LEMMA GivesUp ==
  ASSUME PInv, Unobserved
  PROVE  PInv'
<1>1. Kept /\ engine.pc = "unseen" /\ engine.call \in {"commit", "rollback"} /\ Aim = engine.then
  BY Quietly, Calling DEF Unobserved, At, Aim, Looking
<1>2. CASE engine.then = "replaced"
  <2>1. engine' = Store("commit_unknown", "commit_unknown", "idle") /\ ledger.state = "commit_pending"
    BY <1>1, <1>2 DEF Unobserved, PInv, LedgerFits
  <2>2. "commit_unknown" \in LedgerStates /\ Onto(ledger.state, "commit_unknown", "idle")
        /\ CheckpointOwned("commit_unknown", "commit_unknown", TRUE)
    BY <2>1 DEF Onto, Unsettled, LedgerStates, CheckpointOwned
  <2> QED BY <1>1, <2>1, <2>2, Rewritten, ToPut
<1>3. CASE engine.then = "fell"
  <2>1. engine' = Store("rollback_pending", "rollback_observation_pending", "idle")
        /\ ledger.state = "rollback_pending"
    BY <1>1, <1>3 DEF Unobserved, PInv, LedgerFits
  <2>2. "rollback_pending" \in LedgerStates /\ Onto(ledger.state, "rollback_pending", "idle")
        /\ CheckpointOwned("rollback_pending", "rollback_observation_pending", TRUE)
    BY <2>1 DEF Onto, Unsettled, LedgerStates, CheckpointOwned
  <2> QED BY <1>1, <2>1, <2>2, Rewritten, ToPut
<1>4. CASE engine.then \notin {"replaced", "fell"}
  BY <1>1, <1>4, ToIdle DEF Unobserved
<1> QED BY <1>2, <1>3, <1>4

LEMMA Intends ==
  ASSUME PInv, ReplaceIntent
  PROVE  PInv'
<1>1. Kept /\ engine.pc = "replace_intent" /\ Aim = "replace_intent" /\ engine.call \in {"commit", "rollback"}
  BY Quietly, Sighted DEF ReplaceIntent, At, Sights, OfAbsence
<1>2. CASE Verdict(engine.report) = "converged"
  <2>1. engine' = Store("commit_pending", "replace_pending", "replace") /\ ledger.state = "verified"
    BY <1>1, <1>2 DEF ReplaceIntent, PInv, LedgerFits
  <2>2. "commit_pending" \in LedgerStates /\ Onto(ledger.state, "commit_pending", "replace")
        /\ CheckpointOwned("commit_pending", "replace_pending", TRUE)
    BY <2>1 DEF Onto, LedgerStates, CheckpointOwned
  <2>3. Clean(engine.seen)
    BY <1>1, <1>2, Converged
  <2> QED BY <1>1, <2>1, <2>2, <2>3, Rewritten, ToPut
<1>3. CASE Verdict(engine.report) # "converged"
  BY <1>1, <1>3, ToIdle DEF ReplaceIntent
<1> QED BY <1>2, <1>3

LEMMA ClassifiesCommit ==
  ASSUME PInv, ClassifyCommit
  PROVE  PInv'
<1> DEFINE done == IF engine.call = "rollback" THEN "guard" ELSE "idle"
<1>1. Kept /\ engine.pc \in {"replaced", "settle"} /\ Aim = engine.pc /\ engine.call \in {"commit", "rollback"}
  BY Quietly, Sighted DEF ClassifyCommit, Sights, OfSource
<1>2. ledger.state \in Unsettled
  BY <1>1 DEF PInv, LedgerFits, Unsettled
<1>3. CASE Verdict(engine.report) = "converged"
  <2>1. engine' = Store("committed", "done", done)
    BY <1>3 DEF ClassifyCommit
  <2>2. "committed" \in LedgerStates /\ Onto(ledger.state, "committed", done)
        /\ CheckpointOwned("committed", "done", TRUE)
    BY <1>2 DEF Onto, LedgerStates, CheckpointOwned
  <2>3. Everywhere("replace")
    BY <1>1, <1>3, Converged DEF OfSource
  <2> QED BY <1>1, <2>1, <2>2, <2>3, Rewritten, ToPut
<1>4. CASE Verdict(engine.report) # "converged"
  <2>1. \/ engine' = Store("commit_unknown", "commit_unknown", "idle")
        \/ engine' = Store("replicas_converging", "replicas_converging", "idle")
    BY <1>4 DEF ClassifyCommit
  <2>2. \A to \in {"commit_unknown", "replicas_converging"} :
          to \in LedgerStates /\ Onto(ledger.state, to, "idle") /\ CheckpointOwned(to, to, TRUE)
    BY <1>2 DEF Onto, Unsettled, LedgerStates, CheckpointOwned
  <2>3. CASE engine' = Store("commit_unknown", "commit_unknown", "idle")
    BY <1>1, <2>2, <2>3, Rewritten, ToPut
  <2>4. CASE engine' = Store("replicas_converging", "replicas_converging", "idle")
    BY <1>1, <2>2, <2>4, Rewritten, ToPut
  <2> QED BY <2>1, <2>3, <2>4
<1> QED BY <1>3, <1>4

LEMMA IntendsDrop ==
  ASSUME PInv, DropIntent
  PROVE  PInv'
<1>1. Kept /\ engine.pc = "drop_intent" /\ Aim = "drop_intent" /\ engine.call \in {"commit", "rollback"}
  BY Quietly, Sighted DEF DropIntent, At, Sights, OfSource
<1>2. ledger.state = "committed"
  BY <1>1 DEF PInv, LedgerFits
<1>3. CASE Verdict(engine.report) = "converged"
  <2>1. engine' = Store("rollback_pending", "drop_partition_pending", "drop")
    BY <1>3 DEF DropIntent
  <2>2. "rollback_pending" \in LedgerStates /\ Onto(ledger.state, "rollback_pending", "drop")
        /\ CheckpointOwned("rollback_pending", "drop_partition_pending", TRUE)
    BY <1>2 DEF Onto, LedgerStates, CheckpointOwned
  <2>3. Clean(engine.seen)
    BY <1>1, <1>3, Converged
  <2> QED BY <1>1, <2>1, <2>2, <2>3, Rewritten, ToPut
<1>4. CASE engine' = Store("rollback_blocked", "done", "idle")
  <2>2. "rollback_blocked" \in LedgerStates /\ Onto(ledger.state, "rollback_blocked", "idle")
        /\ CheckpointOwned("rollback_blocked", "done", TRUE)
    BY <1>2 DEF Onto, LedgerStates, CheckpointOwned
  <2> QED BY <1>1, <1>4, <2>2, Rewritten, ToPut
<1>5. CASE engine' = Idle
  BY <1>1, <1>5, ToIdle
<1> QED BY <1>3, <1>4, <1>5 DEF DropIntent

LEMMA ClassifiesRollback ==
  ASSUME PInv, ClassifyRollback
  PROVE  PInv'
<1>1. Kept /\ engine.pc \in {"fell", "dropped"} /\ Aim = engine.pc /\ engine.call \in {"commit", "rollback"}
  BY Quietly, Sighted DEF ClassifyRollback, Sights, OfAbsence
<1>2. ledger.state = "rollback_pending"
  BY <1>1 DEF PInv, LedgerFits
<1>3. CASE Verdict(engine.report) = "converged"
  <2>1. engine' = Store("rolled_back", "done", "idle")
    BY <1>3 DEF ClassifyRollback
  <2>2. "rolled_back" \in LedgerStates /\ Onto(ledger.state, "rolled_back", "idle")
        /\ CheckpointOwned("rolled_back", "done", TRUE)
    BY <1>2 DEF Onto, LedgerStates, CheckpointOwned
  <2>3. Everywhere("drop")
    BY <1>1, <1>3, Converged
  <2> QED BY <1>1, <2>1, <2>2, <2>3, Rewritten, ToPut
<1>4. CASE engine' = Store("rollback_failed", "done", "idle")
  <2>2. "rollback_failed" \in LedgerStates /\ Onto(ledger.state, "rollback_failed", "idle")
        /\ CheckpointOwned("rollback_failed", "done", TRUE)
    BY <1>2 DEF Onto, LedgerStates, CheckpointOwned
  <2> QED BY <1>1, <1>4, <2>2, Rewritten, ToPut
<1>5. CASE engine' = Store("rollback_pending", "rollback_replicas_converging", "idle")
  <2>2. "rollback_pending" \in LedgerStates /\ Onto(ledger.state, "rollback_pending", "idle")
        /\ CheckpointOwned("rollback_pending", "rollback_replicas_converging", TRUE)
    BY <1>2 DEF Onto, LedgerStates, CheckpointOwned
  <2> QED BY <1>1, <1>5, <2>2, Rewritten, ToPut
<1> QED BY <1>3, <1>4, <1>5 DEF ClassifyRollback

LEMMA EndsCall ==
  ASSUME PInv, Reported \/ Crash
  PROVE  PInv'
<1>1. Kept /\ engine' = Idle
  BY Quietly, BoundsAssumption DEF Reported, Crash, Kept, PInv, Types, table
<1> QED BY <1>1, ToIdle

LEMMA IdleReady ==
  ASSUME PInv, UNCHANGED <<log, applied, late>>, engine' = Idle
  PROVE  engine' \in Engines /\ LedgerFits' /\ IssueReady' /\ SeenReady' /\ Counted'
<1>1. engine' \in Engines
  BY IdleFits
<1>2. LedgerFits' /\ IssueReady'
  BY DEF LedgerFits, IssueReady, Aim, Idle, Looking
<1>3. SeenReady'
  BY LogLength DEF SeenReady, Aim, Idle, Looking, PInv
<1>4. Counted'
  <2>1. Cardinality(Seen)' \in Nat
    BY Countable DEF Seen
  <2> QED BY <2>1 DEF Counted, Aim, Idle, Looking, OfSource, OfAbsence, NoReport
<1> QED BY <1>1, <1>2, <1>3, <1>4

LEMMA Stored ==
  ASSUME PInv, engine.pc = "put", ledger' = engine.entry, UNCHANGED <<log, applied, late>>
  PROVE  ledger' \in EntryRows /\ IssueFits' /\ SeenFits' /\ CheckpointsOwned'
<1> DEFINE from == ledger.state
           to == engine.entry.state
<1>1. /\ Onto(from, to, engine.then) /\ engine.entry \in EntryRows
      /\ CheckpointOwned(to, engine.entry.checkpoint, TRUE)
      /\ to = "committed" => Everywhere("replace")
      /\ to = "rolled_back" => Everywhere("drop")
  BY DEF PInv, LedgerFits, IssueReady
<1>2. /\ to \in PreCommit \cup PostCommit /\ to # "verified"
      /\ to \notin {"rollback_pending", "rolled_back", "rollback_failed"} =>
           from \notin {"rollback_pending", "rolled_back", "rollback_failed"}
      /\ to \in PostCommit => to = "committed" \/ from \in PostCommit
  BY <1>1 DEF Onto, PreCommit, PostCommit, Unsettled
<1>3. /\ to \notin {"rollback_pending", "rolled_back", "rollback_failed"} => Sent("drop") = {}
      /\ to \in PostCommit => Everywhere("replace")
      /\ IssuedOnce
  BY <1>1, <1>2 DEF PInv, IssueFits
<1>4. IssueFits'
  BY <1>1, <1>2, <1>3, KeptFacts DEF IssueFits, IssuedOnce
<1>5. SeenFits'
  BY KeptFacts DEF PInv, SeenFits
<1> QED BY <1>1, <1>4, <1>5 DEF CheckpointsOwned

LEMMA Puts ==
  ASSUME PInv, PutLedger
  PROVE  PInv'
<1>1. /\ engine.pc = "put" /\ UNCHANGED <<design, staging, log, applied, late, lease>>
      /\ ledger' \in {ledger, engine.entry}
      /\ engine' = Idle \/ (ledger' = engine.entry /\ engine' = [Goto(engine.then) EXCEPT !.entry = "none"])
      /\ faults' \in 0..MaxFaults /\ crashes' \in 0..MaxCrashes
  BY Faulted DEF PutLedger, At, table, spent, PInv, Types
<1>2. engine \in Engines /\ engine.call \in {"commit", "rollback"}
  BY <1>1, Calling
<1>3. ledger' \in EntryRows /\ IssueFits' /\ SeenFits' /\ CheckpointsOwned'
  <2>1. CASE ledger' = engine.entry
    BY <1>1, <2>1, Stored
  <2>2. CASE ledger' = ledger
    BY <1>1, <2>2, KeptFacts DEF PInv, Types, IssueFits, IssuedOnce, SeenFits, CheckpointsOwned
  <2> QED BY <1>1, <2>1, <2>2
<1>4. engine' \in Engines /\ LedgerFits' /\ IssueReady' /\ SeenReady' /\ Counted'
  <2>1. CASE engine' = Idle
    BY <1>1, <2>1, IdleReady
  <2>2. CASE engine' # Idle
    <3>1. ledger' = engine.entry /\ engine' = [Goto(engine.then) EXCEPT !.entry = "none"]
      BY <1>1, <2>2
    <3>2. Onto(ledger.state, engine.entry.state, engine.then)
      BY <1>1 DEF PInv, LedgerFits
    <3>3. CASE engine.then = "idle"
      BY <2>2, <3>1, <3>3 DEF Goto, Idle
    <3>4. CASE engine.then \in {"guard", "replace", "drop"}
      <4>1. engine' = [engine EXCEPT !.pc = engine.then, !.entry = "none"]
        BY <1>2, <3>1, <3>4 DEF Goto, Engines
      <4>2. /\ engine' \in Engines /\ engine'.pc = engine.then /\ engine'.call = engine.call
            /\ engine'.left = engine.left /\ engine'.expect = engine.expect
            /\ engine'.report = engine.report /\ engine'.seen = engine.seen
        BY <1>2, <3>4, <4>1 DEF Engines, Places
      <4>3. Aim' = engine.then
        BY <3>4, <4>2 DEF Aim, Looking
      <4>4. /\ engine.then = "guard" => engine.entry.state = "committed" /\ engine.call = "rollback"
            /\ engine.then = "replace" => engine.entry.state = "commit_pending" /\ ledger.state = "verified"
            /\ engine.then = "drop" => engine.entry.state = "rollback_pending" /\ ledger.state = "committed"
        BY <3>2, <3>4 DEF Onto
      <4>5. LedgerFits'
        BY <1>2, <3>1, <3>4, <4>2, <4>3, <4>4 DEF LedgerFits, Looking
      <4>6. IssueReady'
        BY <1>1, <3>4, <4>2, <4>4, KeptFacts DEF IssueReady, PInv, IssueFits
      <4>7. SeenReady'
        BY <1>1, <3>4, <4>2, <4>3, KeptFacts DEF SeenReady, PInv
      <4>8. Counted'
        BY <3>4, <4>2, <4>3 DEF Counted, PInv, Looking, OfSource, OfAbsence, Seen
      <4> QED BY <4>2, <4>5, <4>6, <4>7, <4>8
    <3> QED BY <3>2, <3>3, <3>4 DEF Onto
  <2> QED BY <2>1, <2>2
<1>5. Types'
  BY <1>1, <1>3, <1>4 DEF PInv, Types
<1> QED BY <1>3, <1>4, <1>5 DEF PInv

-----------------------------------------------------------------------------
(* Lemmas: the log and what is still to arrive.                            *)

Delayed(op) == {i \in DOMAIN late : late[i].op = op}

Pairs(S, A, B) ==
  \A a : a \in S <=> (\E i \in A : a = <<"log", i>>) \/ (\E i \in B : a = <<"late", i>>)

LEMMA AtMostOne ==
  ASSUME NEW S, NEW A, NEW B, Pairs(S, A, B)
  PROVE  /\ (\A a, b \in S : a = b) <=>
              (\A i, j \in A : i = j) /\ (\A i, j \in B : i = j) /\ (A = {} \/ B = {})
         /\ S = {} <=> A = {} /\ B = {}
<1>1. \A a : a \in S <=> (\E i \in A : a = <<"log", i>>) \/ (\E i \in B : a = <<"late", i>>)
  BY DEF Pairs
<1>2. (\A i \in A : <<"log", i>> \in S) /\ (\A i \in B : <<"late", i>> \in S)
  BY <1>1
<1>3. \A i, j : (<<"log", i>> = <<"log", j>> => i = j) /\ (<<"late", i>> = <<"late", j>> => i = j)
                /\ <<"log", i>> # <<"late", j>>
  OBVIOUS
<1>4. ASSUME \A a, b \in S : a = b
      PROVE  (\A i, j \in A : i = j) /\ (\A i, j \in B : i = j) /\ (A = {} \/ B = {})
  <2>1. ASSUME NEW i \in A, NEW j \in A PROVE i = j
    BY <1>2, <1>3, <1>4
  <2>2. ASSUME NEW i \in B, NEW j \in B PROVE i = j
    BY <1>2, <1>3, <1>4
  <2>3. ASSUME NEW i \in A, NEW j \in B PROVE FALSE
    BY <1>2, <1>3, <1>4
  <2> QED BY <2>1, <2>2, <2>3
<1>5. (\A i, j \in A : i = j) /\ (\A i, j \in B : i = j) /\ (A = {} \/ B = {}) =>
        (\A a, b \in S : a = b)
  BY <1>1
<1>6. S = {} <=> A = {} /\ B = {}
  BY <1>1, <1>2
<1> QED BY <1>4, <1>5, <1>6

LEMMA SentPairs ==
  /\ \A op : Pairs(Sent(op), Issued(op), Delayed(op))
  /\ \A op : Pairs(Sent(op)', Issued(op)', Delayed(op)')
BY DEF Pairs, Sent, Delayed

LEMMA LogSends ==
  ASSUME Types, NEW e \in Entries, log' = Append(log, e)
  PROVE  \A op : Issued(op)' = Issued(op) \cup (IF e.op = op THEN {Len(log) + 1} ELSE {})
<1> TAKE op
<1>1. PICK n \in Nat : n = Len(log) /\ DOMAIN log = 1..n
  BY LogLength
<1>2. DOMAIN log' = (1..n) \cup {n + 1} /\ log'[n + 1] = e /\ \A i \in 1..n : log'[i] = log[i]
  BY <1>1, Appended DEF Grows
<1>3. \A i : i \in Issued(op)' <=> i \in DOMAIN log' /\ log'[i].op = op
  BY DEF Issued
<1>4. \A i : i \in Issued(op) <=> i \in 1..n /\ log[i].op = op
  BY <1>1 DEF Issued
<1> QED BY <1>1, <1>2, <1>3, <1>4

LEMMA LateSends ==
  ASSUME Types, NEW e \in Entries, late' = Append(late, e)
  PROVE  /\ late' \in Seq(Entries) /\ DOMAIN late' = DOMAIN late \cup {Len(late) + 1}
         /\ late'[Len(late) + 1] = e /\ \A i \in DOMAIN late : late'[i] = late[i]
         /\ \A op : Delayed(op)' = Delayed(op) \cup (IF e.op = op THEN {Len(late) + 1} ELSE {})
<1>1. PICK n \in Nat : n = Len(late) /\ DOMAIN late = 1..n
  BY LateLength
<1>2. late' \in Seq(Entries) /\ Len(late') = n + 1 /\ late'[n + 1] = e
      /\ \A i \in 1..n : late'[i] = late[i]
  BY <1>1, AppendProperties DEF Types
<1>3. DOMAIN late' = (1..n) \cup {n + 1}
  BY <1>2, LenProperties
<1>4. ASSUME NEW op
      PROVE  Delayed(op)' = Delayed(op) \cup (IF e.op = op THEN {n + 1} ELSE {})
  <2>1. \A i : i \in Delayed(op)' <=> i \in DOMAIN late' /\ late'[i].op = op
    BY DEF Delayed
  <2>2. \A i : i \in Delayed(op) <=> i \in 1..n /\ late[i].op = op
    BY <1>1 DEF Delayed
  <2> QED BY <1>2, <1>3, <2>1, <2>2
<1> QED BY <1>1, <1>2, <1>3, <1>4

LEMMA LateArrives ==
  ASSUME Types, late # <<>>, late' = Tail(late)
  PROVE  /\ Head(late) \in Entries /\ 1 \in DOMAIN late /\ late[1] = Head(late)
         /\ late' \in Seq(Entries)
         /\ \A i \in DOMAIN late' : i + 1 \in DOMAIN late /\ late'[i] = late[i + 1] /\ i > 0
<1>1. PICK n \in Nat : n = Len(late) /\ DOMAIN late = 1..n
  BY LateLength
<1>2. n > 0 /\ Head(late) = late[1] /\ Head(late) \in Entries
  BY <1>1, EmptySeq, HeadTailProperties DEF Types
<1>3. late' \in Seq(Entries) /\ Len(late') = n - 1 /\ \A i \in 1..(n - 1) : late'[i] = late[i + 1]
  BY <1>1, HeadTailProperties DEF Types
<1>4. DOMAIN late' = 1..(n - 1)
  BY <1>3, LenProperties
<1> QED BY <1>1, <1>2, <1>3, <1>4

LEMMA SentOnly ==
  ASSUME PInv, NEW op \in {"replace", "drop"}
  PROVE  /\ \A i, j \in Issued(op) : i = j
         /\ \A i, j \in Delayed(op) : i = j
         /\ (Issued(op) = {} \/ Delayed(op) = {})
<1>1. Pairs(Sent(op), Issued(op), Delayed(op))
  BY SentPairs
<1>2. \A a, b \in Sent(op) : a = b
  BY DEF PInv, IssueFits, IssuedOnce
<1> QED BY <1>1, <1>2, AtMostOne

LEMMA OnlySent ==
  ASSUME \A op \in {"replace", "drop"} :
           /\ \A i, j \in Issued(op)' : i = j
           /\ \A i, j \in Delayed(op)' : i = j
           /\ Issued(op)' = {} \/ Delayed(op)' = {}
  PROVE  IssuedOnce'
<1>1. ASSUME NEW op \in {"replace", "drop"} PROVE \A a, b \in Sent(op)' : a = b
  <2>1. Pairs(Sent(op)', Issued(op)', Delayed(op)')
    BY SentPairs
  <2>2. /\ \A i, j \in Issued(op)' : i = j
        /\ \A i, j \in Delayed(op)' : i = j
        /\ Issued(op)' = {} \/ Delayed(op)' = {}
    OBVIOUS
  <2> QED BY <2>1, <2>2, AtMostOne
<1> QED BY <1>1 DEF IssuedOnce

LEMMA SentNothing ==
  /\ \A op : Sent(op) = {} <=> (Issued(op) = {} /\ Delayed(op) = {})
  /\ \A op : Sent(op)' = {} <=> (Issued(op)' = {} /\ Delayed(op)' = {})
<1>1. ASSUME NEW op PROVE Sent(op) = {} <=> (Issued(op) = {} /\ Delayed(op) = {})
  BY SentPairs, AtMostOne
<1>2. ASSUME NEW op PROVE Sent(op)' = {} <=> (Issued(op)' = {} /\ Delayed(op)' = {})
  BY SentPairs, AtMostOne
<1> QED BY <1>1, <1>2

LEMMA HasGrows ==
  ASSUME Types, Grows \/ log' = log, \A r \in Replicas : applied[r] <= applied'[r],
         applied' \in [Replicas -> Nat], NEW op, NEW r \in Replicas, Has(r, op)
  PROVE  Has(r, op)'
<1>1. \A i \in Issued(op) : i \in Issued(op)' /\ i \in Nat
  BY LogEntry DEF Issued, Grows
<1>2. applied[r] \in Nat /\ applied'[r] \in Nat /\ applied[r] <= applied'[r]
  BY DEF Types
<1>3. PICK i \in Issued(op) : i <= applied[r]
  BY DEF Has
<1>4. i \in Issued(op)' /\ i <= applied'[r]
  BY <1>1, <1>2, <1>3
<1> QED BY <1>4 DEF Has

LEMMA CountGrows ==
  ASSUME Types, Grows \/ log' = log, \A r \in Replicas : applied[r] <= applied'[r],
         applied' \in [Replicas -> Nat], engine' = engine, NEW op
  PROVE  /\ Cardinality({r \in Seen : Has(r, op)}) \in Nat
         /\ Cardinality({r \in Seen : Has(r, op)}') \in Nat
         /\ Cardinality({r \in Seen : Has(r, op)}) <= Cardinality({r \in Seen : Has(r, op)}')
<1> DEFINE T == {r \in Seen : Has(r, op)}
<1>1. Seen \subseteq Replicas /\ Seen' = Seen
  BY DEF Seen
<1>2. PICK U : U = T'
  OBVIOUS
<1>3. T \subseteq U /\ U \subseteq Replicas
  BY <1>1, <1>2, HasGrows
<1>4. IsFiniteSet(U) /\ Cardinality(U) \in Nat /\ Cardinality(T) \in Nat
  BY <1>1, <1>3, Countable
<1>5. Cardinality(T) <= Cardinality(U)
  BY <1>3, <1>4, FS_Subset
<1> QED BY <1>2, <1>4, <1>5

(* A step beside the engine: the log grows, or is worked off.              *)
LEMMA Beside ==
  ASSUME PInv, Types', Grows \/ log' = log, \A r \in Replicas : applied[r] <= applied'[r],
         UNCHANGED <<ledger, engine>>, IssuedOnce', SeenFits',
         \A op \in {"replace", "drop"} : Sent(op) = {} => Sent(op)' = {}
  PROVE  PInv'
<1>1. Types /\ applied' \in [Replicas -> Nat] /\ Len(log) \in Nat /\ Len(log') \in Nat
      /\ Len(log) <= Len(log') /\ Aim' = Aim
  <2>1. Types /\ applied' \in [Replicas -> Nat] /\ Aim' = Aim /\ log' \in Seq(Entries)
    BY DEF PInv, Types, Aim
  <2>2. Len(log) \in Nat /\ Len(log') \in Nat
    BY <2>1, LogLength, LenProperties
  <2> QED BY <2>1, <2>2 DEF Grows
<1>2. \A op : Everywhere(op) => Everywhere(op)'
  BY <1>1, HasStays
<1>3. IssueFits' /\ CheckpointsOwned'
  <2>1. IssueFits'
    BY <1>2 DEF PInv, IssueFits
  <2> QED BY <2>1 DEF PInv, CheckpointsOwned
<1>4. LedgerFits'
  BY <1>1 DEF PInv, LedgerFits, Onto
<1>5. IssueReady'
  BY <1>2 DEF PInv, IssueReady
<1>6. SeenReady'
  <2>1. engine.seen \in Nat /\ engine.seen <= Len(log)
    BY DEF PInv, Types, Engines, SeenReady
  <2>2. Clean(engine.seen) => Clean(engine.seen)'
    BY <1>1, <2>1, DataStays DEF Clean
  <2>3. \A i \in Issued("replace") : i \in Issued("replace")'
    BY <1>1, LogEntry DEF Issued, Grows
  <2>4. engine.pc \in {"parts", "data"} /\ engine.healthy =>
          engine.at \in Replicas /\ engine.seen <= applied[engine.at]
    BY DEF PInv, Types, Engines, SeenReady
  <2>5. engine.pc \in {"parts", "data"} /\ engine.healthy => engine.seen <= applied'[engine.at]
    BY <1>1, <2>1, <2>4 DEF Types
  <2> QED BY <1>1, <2>1, <2>2, <2>3, <2>5 DEF PInv, SeenReady
<1>7. Counted'
  <2>1. engine.report.matched \in Nat
    BY DEF PInv, Types, Engines, Reports
  <2>3. Aim \in OfSource => engine.report.matched <= Cardinality({r \in Seen : Has(r, "replace")}')
    <3>1. /\ Cardinality({r \in Seen : Has(r, "replace")}) \in Nat
          /\ Cardinality({r \in Seen : Has(r, "replace")}') \in Nat
          /\ Cardinality({r \in Seen : Has(r, "replace")}) <= Cardinality({r \in Seen : Has(r, "replace")}')
      BY <1>1, CountGrows
    <3>2. Aim \in OfSource => engine.report.matched <= Cardinality({r \in Seen : Has(r, "replace")})
      BY DEF PInv, Counted
    <3> QED BY <2>1, <3>1, <3>2
  <2>4. Aim \in {"dropped", "fell"} => engine.report.matched <= Cardinality({r \in Seen : Has(r, "drop")}')
    <3>1. /\ Cardinality({r \in Seen : Has(r, "drop")}) \in Nat
          /\ Cardinality({r \in Seen : Has(r, "drop")}') \in Nat
          /\ Cardinality({r \in Seen : Has(r, "drop")}) <= Cardinality({r \in Seen : Has(r, "drop")}')
      BY <1>1, CountGrows
    <3>2. Aim \in {"dropped", "fell"} => engine.report.matched <= Cardinality({r \in Seen : Has(r, "drop")})
      BY DEF PInv, Counted
    <3> QED BY <2>1, <3>1, <3>2
  <2>5. Seen' = Seen
    BY DEF Seen
  <2> QED BY <1>1, <2>3, <2>4, <2>5 DEF PInv, Counted
<1> QED BY <1>3, <1>4, <1>5, <1>6, <1>7 DEF PInv

LEMMA Applies ==
  ASSUME PInv, NEW r \in Replicas, Apply(r)
  PROVE  PInv'
<1>1. Types'
  <2>1. Types /\ Len(log) \in Nat /\ applied[r] \in Nat /\ applied[r] < Len(log)
        /\ applied' = [applied EXCEPT ![r] = applied[r] + 1]
    BY LogLength DEF PInv, Types, Apply
  <2>2. applied' \in [Replicas -> Nat] /\ \A q \in Replicas : applied'[q] <= Len(log)
    BY <2>1 DEF Types
  <2> QED BY <2>1, <2>2 DEF Types, Apply, spent
<1>2. \A q \in Replicas : applied[q] <= applied'[q]
  BY DEF PInv, Types, Apply
<1>3. IssuedOnce' /\ SeenFits' /\ \A op : Sent(op)' = Sent(op)
  <2>1. \A op : Sent(op)' = Sent(op)
    BY DEF Sent, Issued, Apply
  <2>2. \A n : Clean(n)' <=> Clean(n)
    BY DEF Clean, DataAfter, Apply
  <2> QED BY <2>1, <2>2 DEF PInv, IssueFits, IssuedOnce, SeenFits, Apply
<1> QED BY <1>1, <1>2, <1>3, Beside DEF Apply

LEMMA LosesLease ==
  ASSUME PInv, LoseLease
  PROVE  PInv'
<1>1. Types' /\ UNCHANGED <<log, applied, late, ledger, engine>>
  BY DEF PInv, Types, LoseLease, table, spent
<1>2. \A r \in Replicas : applied[r] <= applied'[r]
  BY <1>1 DEF PInv, Types
<1>3. IssuedOnce' /\ SeenFits' /\ \A op : Sent(op)' = Sent(op)
  BY <1>1, KeptFacts DEF PInv, IssueFits, IssuedOnce, SeenFits
<1> QED BY <1>1, <1>2, <1>3, Beside

LEMMA SeenGrows ==
  ASSUME PInv, NEW e \in Entries, log' = Append(log, e),
         e.op # "insert" => e.seen <= Len(log) /\ Clean(e.seen), e.seen <= Len(log)
  PROVE  \A i \in DOMAIN log' : (log[i].seen <= Len(log) /\ (log[i].op # "insert" => Clean(log[i].seen)))'
<1>1. Types /\ SeenFits /\ Len(log) \in Nat /\ e.seen \in Nat
  BY LogLength DEF PInv, Entries
<1>2. /\ Grows /\ Len(log') = Len(log) + 1 /\ DOMAIN log' = DOMAIN log \cup {Len(log) + 1}
      /\ log'[Len(log) + 1] = e
  BY <1>1, Appended
<1>3. \A n \in Nat : n <= Len(log) => (Clean(n)' <=> Clean(n))
  BY <1>1, <1>2, DataStays DEF Clean
<1>4. ASSUME NEW i \in DOMAIN log
      PROVE  (log[i].seen <= Len(log) /\ (log[i].op # "insert" => Clean(log[i].seen)))'
  <2>1. log'[i] = log[i] /\ log[i].seen \in Nat /\ log[i].seen <= Len(log)
        /\ (log[i].op # "insert" => Clean(log[i].seen))
    BY <1>1, <1>2, LogEntry DEF SeenFits, Grows
  <2>2. PICK n \in Nat : n = log[i].seen
    BY <2>1
  <2>3. log'[i].op # "insert" => Clean(n)'
    BY <1>3, <2>1, <2>2
  <2>4. n = log'[i].seen /\ n <= Len(log')
    BY <1>1, <1>2, <2>1, <2>2
  <2> QED BY <2>3, <2>4
<1>5. e.seen <= Len(log') /\ (e.op # "insert" => Clean(e.seen)')
  BY <1>1, <1>2, <1>3
<1>6. ASSUME NEW i \in DOMAIN log', i \notin DOMAIN log
      PROVE  (log[i].seen <= Len(log) /\ (log[i].op # "insert" => Clean(log[i].seen)))'
  <2>1. log'[i] = e
    BY <1>2, <1>6
  <2> QED BY <1>5, <2>1
<1> QED BY <1>4, <1>6

LEMMA LateKept ==
  ASSUME PInv, Grows \/ log' = log
  PROVE  \A i \in DOMAIN late : /\ late[i].op # "insert" /\ late[i].seen \in Nat
                                /\ late[i].seen <= Len(log) /\ late[i].seen <= Len(log')
                                /\ Clean(late[i].seen)
                                /\ \A n : n = late[i].seen => Clean(n)'
<1> TAKE i \in DOMAIN late
<1>1. Types /\ late[i].op # "insert" /\ late[i].seen \in Nat /\ late[i].seen <= Len(log)
      /\ Clean(late[i].seen) /\ Len(log) \in Nat
  BY LateEntry, LogLength DEF PInv, SeenFits
<1>2. Len(log') \in Nat /\ Len(log) <= Len(log')
  BY <1>1, LenProperties DEF Grows
<1>3. \A n : n = late[i].seen => Clean(n)'
  <2>1. PICK n \in Nat : n = late[i].seen
    BY <1>1
  <2>2. Clean(n)' <=> Clean(n)
    BY <1>1, <2>1, DataStays DEF Clean
  <2> QED BY <1>1, <2>1, <2>2
<1> QED BY <1>1, <1>2, <1>3

LEMMA OthersWrite ==
  ASSUME PInv, OthersInsert
  PROVE  PInv'
<1>1. Insert \in Entries /\ log' = Append(log, Insert) /\ Insert.op = "insert" /\ Insert.seen = 0
      /\ Len(log) \in Nat /\ Types
  BY LogLength DEF OthersInsert, Insert, Entries, PInv
<1>2. Grows /\ Len(log') = Len(log) + 1
  BY <1>1, Appended
<1>3. Types'
  <2>1. \A r \in Replicas : applied'[r] <= Len(log')
    BY <1>1, <1>2 DEF Types, OthersInsert, spent
  <2>2. log' \in Seq(Entries)
    BY <1>2 DEF Grows
  <2> QED BY <1>1, <2>1, <2>2 DEF Types, OthersInsert, spent
<1>4. \A op \in {"replace", "drop"} : Issued(op)' = Issued(op) /\ Delayed(op)' = Delayed(op)
  <2>1. \A op : Issued(op)' = Issued(op) \cup (IF Insert.op = op THEN {Len(log) + 1} ELSE {})
    BY <1>1, LogSends
  <2> QED BY <1>1, <2>1 DEF Delayed, OthersInsert
<1>5. IssuedOnce'
  BY <1>4, SentOnly, OnlySent
<1>6. \A op \in {"replace", "drop"} : Sent(op) = {} => Sent(op)' = {}
  BY <1>4, SentNothing
<1>7. SeenFits'
  <2>1. \A i \in DOMAIN log' : (log[i].seen <= Len(log) /\ (log[i].op # "insert" => Clean(log[i].seen)))'
    BY <1>1, SeenGrows
  <2>2. late' = late
    BY DEF OthersInsert
  <2>3. \A i \in DOMAIN late' : (late[i].op # "insert" /\ late[i].seen <= Len(log) /\ Clean(late[i].seen))'
    BY <1>2, <2>2, LateKept
  <2> QED BY <2>1, <2>3 DEF SeenFits
<1>8. \A r \in Replicas : applied[r] <= applied'[r]
  BY DEF PInv, Types, OthersInsert
<1> QED BY <1>2, <1>3, <1>5, <1>6, <1>7, <1>8, Beside DEF OthersInsert

(* A statement on its way arrives.                                         *)
LEMMA Arrives ==
  ASSUME PInv, Arrive
  PROVE  PInv'
<1> DEFINE e == Head(late)
<1>1. Types /\ late # <<>> /\ log' = Append(log, e) /\ late' = Tail(late)
      /\ UNCHANGED <<design, staging, applied, ledger, lease, engine, faults, crashes>>
  BY DEF PInv, Arrive, spent
<1>2. /\ e \in Entries /\ 1 \in DOMAIN late /\ late[1] = e /\ late' \in Seq(Entries)
      /\ \A i \in DOMAIN late' : i + 1 \in DOMAIN late /\ late'[i] = late[i + 1] /\ i > 0 /\ i \in Nat
      /\ Len(log) \in Nat
  <2>1. /\ e \in Entries /\ 1 \in DOMAIN late /\ late[1] = e /\ late' \in Seq(Entries)
        /\ \A i \in DOMAIN late' : i + 1 \in DOMAIN late /\ late'[i] = late[i + 1] /\ i > 0
    BY <1>1, LateArrives
  <2>2. \A i \in DOMAIN late' : i \in Nat
    BY <2>1, LenProperties
  <2> QED BY <1>1, <2>1, <2>2, LogLength
<1>3. Grows /\ Len(log') = Len(log) + 1
  BY <1>1, <1>2, Appended
<1> HIDE DEF e
<1>4. Types'
  <2>1. \A r \in Replicas : applied'[r] <= Len(log')
    BY <1>1, <1>2, <1>3 DEF Types
  <2>2. log' \in Seq(Entries)
    BY <1>3 DEF Grows
  <2> QED BY <1>1, <1>2, <2>1, <2>2 DEF Types
<1>5. ASSUME NEW op \in {"replace", "drop"}
      PROVE  /\ \A i, j \in Issued(op)' : i = j
             /\ \A i, j \in Delayed(op)' : i = j
             /\ Issued(op)' = {} \/ Delayed(op)' = {}
             /\ Sent(op) = {} => Issued(op)' = {} /\ Delayed(op)' = {}
  <2>1. /\ \A i, j \in Issued(op) : i = j
        /\ \A i, j \in Delayed(op) : i = j
        /\ (Issued(op) = {} \/ Delayed(op) = {})
    BY SentOnly
  <2>2. \A i \in Delayed(op)' : i + 1 \in Delayed(op) /\ i > 0 /\ i \in Nat
    BY <1>2 DEF Delayed
  <2>3. Issued(op)' = Issued(op) \cup (IF e.op = op THEN {Len(log) + 1} ELSE {})
    BY <1>1, <1>2, LogSends
  <2>4. Sent(op) = {} <=> (Issued(op) = {} /\ Delayed(op) = {})
    BY SentNothing
  <2>5. CASE e.op = op
    <3>1. 1 \in Delayed(op)
      BY <1>2, <2>5 DEF Delayed
    <3>2. Delayed(op)' = {} /\ Issued(op) = {}
      BY <2>1, <2>2, <3>1
    <3>3. Issued(op)' = {Len(log) + 1}
      BY <2>3, <2>5, <3>2
    <3> QED BY <2>4, <3>1, <3>2, <3>3
  <2>6. CASE e.op # op
    <3>1. Issued(op)' = Issued(op)
      BY <2>3, <2>6
    <3>2. ASSUME NEW i \in Delayed(op)', NEW j \in Delayed(op)' PROVE i = j
      <4>1. i + 1 = j + 1 /\ i \in Nat /\ j \in Nat
        BY <2>1, <2>2
      <4> QED BY <4>1
    <3>3. Delayed(op) = {} => Delayed(op)' = {}
      BY <2>2
    <3> QED BY <2>1, <2>4, <3>1, <3>2, <3>3
  <2> QED BY <2>5, <2>6
<1>6. IssuedOnce'
  BY <1>5, OnlySent
<1>7. \A op \in {"replace", "drop"} : Sent(op) = {} => Sent(op)' = {}
  BY <1>5, SentNothing
<1>8. SeenFits'
  <2>1. e.op # "insert" /\ e.seen \in Nat /\ e.seen <= Len(log) /\ Clean(e.seen)
    BY <1>2, <1>3, LateKept
  <2>2. \A i \in DOMAIN log' : (log[i].seen <= Len(log) /\ (log[i].op # "insert" => Clean(log[i].seen)))'
    BY <1>1, <1>2, <2>1, SeenGrows
  <2>3. \A i \in DOMAIN late' : (late[i].op # "insert" /\ late[i].seen <= Len(log) /\ Clean(late[i].seen))'
    BY <1>2, <1>3, LateKept
  <2> QED BY <2>2, <2>3 DEF SeenFits
<1>9. \A r \in Replicas : applied[r] <= applied'[r]
  BY <1>1 DEF Types
<1> QED BY <1>1, <1>3, <1>4, <1>6, <1>7, <1>8, <1>9, Beside

(* The engine looks at what its statement did.                             *)
LEMMA LooksAfter ==
  ASSUME PInv, NEW op \in {"replace", "drop"}, engine.pc = op,
         engine' = IF op = "replace" THEN Observe("source", "replaced") ELSE Observe("absent", "fell"),
         Len(log') \in Nat, Len(log) <= Len(log'), ledger' = ledger
  PROVE  engine' \in Engines /\ LedgerFits' /\ IssueReady' /\ SeenReady' /\ Counted'
<1> DEFINE then == IF op = "replace" THEN "replaced" ELSE "fell"
           expect == IF op = "replace" THEN "source" ELSE "absent"
<1>1. Len(log) \in Nat /\ engine \in Engines /\ engine.call \in {"commit", "rollback"}
      /\ ledger.state = IF op = "replace" THEN "commit_pending" ELSE "rollback_pending"
  <2>1. Aim = op
    BY DEF Aim, Looking
  <2>2. Len(log) \in Nat /\ engine \in Engines /\ engine.call \in {"commit", "rollback"}
    BY LogLength, Calling DEF PInv
  <2> QED BY <2>1, <2>2 DEF PInv, LedgerFits
<1>2. engine' \in Engines /\ engine'.pc = "health" /\ engine'.then = then
      /\ engine'.call = engine.call /\ engine'.expect = expect /\ engine'.left = Replicas
      /\ engine'.report = NoReport /\ engine'.seen = Len(log)
  BY <1>1 DEF Observe, Engines, Places, Looking, Reports, NoReport, Sights, OfSource, OfAbsence
<1>3. Aim' = then
  BY <1>2 DEF Aim, Looking
<1>4. LedgerFits'
  BY <1>1, <1>2, <1>3 DEF LedgerFits, Sights, OfSource, OfAbsence
<1>5. IssueReady'
  BY <1>2 DEF IssueReady
<1>6. SeenReady'
  BY <1>2, <1>3 DEF SeenReady
<1>7. Counted'
  <2>1. Seen' = {}
    BY <1>2 DEF Seen
  <2>2. {r \in Seen' : Has(r, "replace")'} = {} /\ {r \in Seen' : Has(r, "drop")'} = {}
    BY <2>1
  <2>3. Cardinality({}) = 0
    BY FS_EmptySet
  <2> QED BY <1>2, <1>3, <2>1, <2>2, <2>3 DEF Counted, NoReport, Looking, OfSource, OfAbsence
<1> QED BY <1>2, <1>4, <1>5, <1>6, <1>7

(* A statement enters the log, is on its way, or is lost.                  *)
LEMMA Issues ==
  ASSUME PInv, NEW op \in {"replace", "drop"}, engine.pc = op, UNCHANGED <<ledger, applied>>,
         NEW e, e = [op |-> op, seen |-> engine.seen],
         \/ log' = Append(log, e) /\ late' = late
         \/ late' = Append(late, e) /\ log' = log
         \/ log' = log /\ late' = late
  PROVE  /\ log' \in Seq(Entries) /\ late' \in Seq(Entries) /\ Len(log') \in Nat
         /\ Len(log) <= Len(log') /\ IssueFits' /\ SeenFits' /\ CheckpointsOwned'
<1>1. /\ Types /\ engine.seen \in Nat /\ engine.seen <= Len(log) /\ Clean(engine.seen)
      /\ Len(log) \in Nat /\ Sent(op) = {}
      /\ ledger.state = IF op = "replace" THEN "commit_pending" ELSE "rollback_pending"
  <2>1. Aim = op
    BY DEF Aim, Looking
  <2> QED BY <2>1, LogLength DEF PInv, Types, Engines, SeenReady, IssueReady, LedgerFits
<1>2. e \in Entries /\ e.op = op /\ e.seen = engine.seen
  BY <1>1 DEF Entries
<1>3. /\ Grows \/ log' = log
      /\ log' \in Seq(Entries) /\ Len(log') \in Nat /\ Len(log) <= Len(log')
  <2>1. CASE log' = Append(log, e)
    BY <1>1, <1>2, <2>1, Appended, LenProperties DEF Grows
  <2>2. CASE log' = log
    BY <1>1, <2>2 DEF Types
  <2> QED BY <2>1, <2>2
<1>4. late' \in Seq(Entries)
  BY <1>1, <1>2, LateSends DEF Types
<1>5. Issued(op) = {} /\ Delayed(op) = {}
  BY <1>1, SentNothing
<1>6. /\ \A o \in {"replace", "drop"} \ {op} : Issued(o)' = Issued(o) /\ Delayed(o)' = Delayed(o)
      /\ \/ Issued(op)' = {Len(log) + 1} /\ Delayed(op)' = {}
         \/ Delayed(op)' = {Len(late) + 1} /\ Issued(op)' = {}
         \/ Issued(op)' = {} /\ Delayed(op)' = {}
  <2>1. CASE log' = Append(log, e) /\ late' = late
    <3>1. \A o : Issued(o)' = Issued(o) \cup (IF e.op = o THEN {Len(log) + 1} ELSE {})
      BY <1>1, <1>2, <2>1, LogSends
    <3>2. \A o : Delayed(o)' = Delayed(o)
      BY <2>1 DEF Delayed
    <3> QED BY <1>2, <1>5, <3>1, <3>2
  <2>2. CASE late' = Append(late, e) /\ log' = log
    <3>1. \A o : Delayed(o)' = Delayed(o) \cup (IF e.op = o THEN {Len(late) + 1} ELSE {})
      BY <1>1, <1>2, <2>2, LateSends
    <3>2. \A o : Issued(o)' = Issued(o)
      BY <2>2 DEF Issued
    <3> QED BY <1>2, <1>5, <3>1, <3>2
  <2>3. CASE log' = log /\ late' = late
    <3>1. \A o : Issued(o)' = Issued(o) /\ Delayed(o)' = Delayed(o)
      BY <2>3 DEF Issued, Delayed
    <3> QED BY <1>5, <3>1
  <2> QED BY <2>1, <2>2, <2>3
<1>7. IssuedOnce'
  <2>1. ASSUME NEW o \in {"replace", "drop"}
        PROVE  /\ \A i, j \in Issued(o)' : i = j
               /\ \A i, j \in Delayed(o)' : i = j
               /\ Issued(o)' = {} \/ Delayed(o)' = {}
    <3>1. CASE o = op
      BY <1>6, <3>1
    <3>2. CASE o # op
      BY <1>6, <3>2, SentOnly
    <3> QED BY <3>1, <3>2
  <2> QED BY <2>1, OnlySent
<1>8. IssueFits'
  <2>1. op = "replace" => Sent("drop")' = {}
    <3>1. SUFFICES ASSUME op = "replace" PROVE Sent("drop")' = {}
      OBVIOUS
    <3>2. Sent("drop") = {}
      BY <1>1, <3>1 DEF PInv, IssueFits
    <3>3. Issued("drop")' = {} /\ Delayed("drop")' = {}
      BY <1>6, <3>1, <3>2, SentNothing
    <3> QED BY <3>3, SentNothing
  <2>2. op = "drop" => Everywhere("replace")'
    <3>1. op = "drop" => Everywhere("replace")
      BY <1>1 DEF PInv, IssueFits, PostCommit
    <3>2. applied' \in [Replicas -> Nat] /\ \A r \in Replicas : applied[r] <= applied'[r]
      BY <1>1 DEF Types
    <3> QED BY <1>1, <1>3, <3>1, <3>2, HasStays
  <2> QED BY <1>1, <1>7, <2>1, <2>2 DEF IssueFits, PreCommit, PostCommit, Unsettled
<1>9. SeenFits'
  <2>1. \A i \in DOMAIN log' : (log[i].seen <= Len(log) /\ (log[i].op # "insert" => Clean(log[i].seen)))'
    <3>1. CASE log' = Append(log, e)
      BY <1>1, <1>2, <3>1, SeenGrows
    <3>2. CASE log' = log
      <4>1. \A n : Clean(n)' <=> Clean(n)
        BY <3>2 DEF Clean, DataAfter
      <4> QED BY <3>2, <4>1 DEF PInv, SeenFits
    <3> QED BY <3>1, <3>2
  <2>2. \A i \in DOMAIN late : /\ late[i].op # "insert" /\ late[i].seen <= Len(log')
                               /\ \A n : n = late[i].seen => Clean(n)'
    BY <1>3, LateKept
  <2>3. \A i \in DOMAIN late' : (late[i].op # "insert" /\ late[i].seen <= Len(log) /\ Clean(late[i].seen))'
    <3>1. CASE late' = late
      BY <2>2, <3>1
    <3>2. CASE late' = Append(late, e) /\ log' = log
      <4>1. /\ DOMAIN late' = DOMAIN late \cup {Len(late) + 1}
            /\ late'[Len(late) + 1] = e /\ \A i \in DOMAIN late : late'[i] = late[i]
        BY <1>1, <1>2, <3>2, LateSends
      <4>2. e.op # "insert" /\ e.seen <= Len(log') /\ \A n : n = e.seen => Clean(n)'
        BY <1>1, <1>2, <3>2 DEF Clean, DataAfter
      <4> QED BY <2>2, <4>1, <4>2
    <3> QED BY <3>1, <3>2
  <2> QED BY <2>1, <2>3 DEF SeenFits
<1> QED BY <1>3, <1>4, <1>8, <1>9 DEF PInv, CheckpointsOwned

LEMMA States ==
  ASSUME PInv, NEW op \in {"replace", "drop"},
         Statement(op, IF op = "replace" THEN Observe("source", "replaced") ELSE Observe("absent", "fell"))
  PROVE  PInv'
<1> DEFINE look == IF op = "replace" THEN Observe("source", "replaced") ELSE Observe("absent", "fell")
<1>1. PICK e : e = [op |-> op, seen |-> engine.seen]
  OBVIOUS
<1>2. /\ engine.pc = op /\ engine' = look
      /\ UNCHANGED <<design, staging, applied, ledger, lease>>
      /\ \/ log' = Append(log, e) /\ late' = late
         \/ late' = Append(late, e) /\ log' = log
         \/ log' = log /\ late' = late
      /\ faults' \in 0..MaxFaults /\ crashes' \in 0..MaxCrashes
  <2>1. Fault \/ UNCHANGED spent
    BY DEF Statement
  <2>2. faults' \in 0..MaxFaults /\ crashes' \in 0..MaxCrashes
    BY <2>1, Faulted DEF PInv, Types, spent
  <2> QED BY <1>1, <2>2 DEF Statement, At
<1>3. /\ log' \in Seq(Entries) /\ late' \in Seq(Entries) /\ Len(log') \in Nat
      /\ Len(log) <= Len(log') /\ IssueFits' /\ SeenFits' /\ CheckpointsOwned'
  BY <1>1, <1>2, Issues
<1>4. engine' \in Engines /\ LedgerFits' /\ IssueReady' /\ SeenReady' /\ Counted'
  BY <1>2, <1>3, LooksAfter
<1>5. Types'
  <2>1. Types /\ Len(log) \in Nat
    BY LogLength DEF PInv
  <2>2. \A r \in Replicas : applied'[r] <= Len(log')
    BY <1>2, <1>3, <2>1 DEF Types
  <2> QED BY <1>2, <1>3, <1>4, <2>1, <2>2 DEF Types
<1> QED BY <1>3, <1>4, <1>5 DEF PInv

-----------------------------------------------------------------------------
(* The commit keeps its invariant.                                         *)

LEMMA PInvInit ==
  ASSUME Init
  PROVE  PInv
<1>1. log = <<>> /\ late = <<>> /\ engine = Idle /\ ledger.state = "verified"
      /\ ledger.checkpoint = "done" /\ applied = [r \in Replicas |-> 0]
  BY DEF Init
<1>2. Len(log) = 0 /\ DOMAIN log = {} /\ DOMAIN late = {} /\ log \in Seq(Entries) /\ late \in Seq(Entries)
  BY <1>1, EmptySeq
<1>3. \A op : Sent(op) = {} /\ Issued(op) = {}
  BY <1>2 DEF Sent, Issued
<1>4. Types
  <2>1. ledger \in EntryRows
    BY DEF Init, EntryRows, LedgerStates
  <2>2. faults \in 0..MaxFaults /\ crashes \in 0..MaxCrashes
    BY BoundsAssumption DEF Init
  <2>3. applied \in [Replicas -> Nat] /\ \A r \in Replicas : applied[r] <= Len(log)
    BY <1>1, <1>2
  <2> QED BY <1>1, <1>2, <2>1, <2>2, <2>3, IdleFits DEF Types, Init
<1>5. IssueFits
  BY <1>1, <1>3 DEF IssueFits, IssuedOnce, PreCommit, PostCommit
<1>6. SeenFits /\ CheckpointsOwned
  BY <1>1, <1>2 DEF SeenFits, CheckpointsOwned, CheckpointOwned
<1>7. LedgerFits /\ IssueReady /\ SeenReady
  BY <1>1, <1>2 DEF LedgerFits, IssueReady, SeenReady, Aim, Idle, Looking
<1>8. Counted
  <2>1. Cardinality(Seen) \in Nat
    BY Countable DEF Seen
  <2> QED BY <1>1, <2>1 DEF Counted, Aim, Idle, Looking, OfSource, OfAbsence, NoReport
<1> QED BY <1>4, <1>5, <1>6, <1>7, <1>8 DEF PInv

LEMMA PInvNext ==
  ASSUME PInv, [Next]_vars
  PROVE  PInv'
<1>1. ASSUME CallAny PROVE PInv'
  BY <1>1, Begins DEF CallAny
<1>2. ASSUME Step PROVE PInv'
  <2>1. ASSUME ObserveHealth \/ ObserveParts \/ ObserveData PROVE PInv'
    <3>1. Kept
      BY <2>1, Quietly DEF ObserveHealth, ObserveParts, ObserveData
    <3> QED BY <2>1, <3>1, LooksAtHealth, LooksAtParts, LooksAtData
  <2>2. ASSUME Replace PROVE PInv'
    BY <2>2, States DEF Replace
  <2>3. ASSUME Drop PROVE PInv'
    BY <2>3, States DEF Drop
  <2> QED BY <1>2, <2>1, <2>2, <2>3, Loads, Checks, FailsToRead, GivesUp, Intends, ClassifiesCommit,
             IntendsDrop, ClassifiesRollback, EndsCall, Puts DEF Step
<1>3. ASSUME UNCHANGED vars PROVE PInv'
  <2>1. Kept /\ engine' = engine
    BY <1>3 DEF vars, table, spent, Kept, PInv, Types
  <2>2. Aim' = Aim /\ Seen' = Seen
    BY <2>1 DEF Aim, Seen
  <2>5. LedgerFits' /\ IssueReady'
    <3>1. UNCHANGED <<ledger, engine, log, applied, late>>
      BY <2>1 DEF Kept
    <3>2. LedgerFits'
      BY <2>2, <3>1 DEF PInv, LedgerFits, Onto
    <3>3. IssueReady'
      BY <3>1, KeptFacts DEF PInv, IssueReady
    <3> QED BY <3>2, <3>3
  <2>6. SeenReady'
    BY <2>1, <2>2, KeptFacts DEF Kept, PInv, SeenReady
  <2>3. /\ {r \in Seen : Has(r, "replace")}' = {r \in Seen : Has(r, "replace")}
        /\ {r \in Seen : Has(r, "drop")}' = {r \in Seen : Has(r, "drop")}
    BY <2>1, <2>2, KeptFacts DEF Kept
  <2>4. Counted'
    BY <2>1, <2>2, <2>3 DEF PInv, Counted
  <2> QED BY <2>1, <2>4, <2>5, <2>6, EngineMoves DEF PInv, Types
<1> QED BY <1>1, <1>2, <1>3, Arrives, OthersWrite, LosesLease, EndsCall, Applies DEF Next

LEMMA Commits == Spec => []PInv
<1>1. Init => PInv
  BY PInvInit
<1>2. PInv /\ [Next]_vars => PInv'
  BY PInvNext
<1> QED BY <1>1, <1>2, PTL DEF Spec

-----------------------------------------------------------------------------
(* What the checks before REPLACE established outlives them.               *)

Checked == ReadyForLab /\ staging = ledger.source
Fit == Checked /\ ReplicaTargetsKnown

FitInv ==
  /\ FitToReplace
  /\ engine.pc = "staging" => ReadyForLab
  /\ Aim = "replace_intent" => Checked
  /\ engine.pc \in {"parts", "data"} \/ engine.report.matched > 0 => ReplicaTargetsKnown
  /\ engine.pc = "replace" \/ (engine.pc = "put" /\ engine.then = "replace") => Fit

Same == UNCHANGED <<design, staging>> /\ ledger'.source = ledger.source

LEMMA FitStays ==
  ASSUME Same
  PROVE  /\ ReadyForLab' = ReadyForLab /\ ReplicaTargetsKnown' = ReplicaTargetsKnown
         /\ Checked' = Checked /\ Fit' = Fit
BY DEF Same, ReadyForLab, ReplicaTargetsKnown, Checked, Fit

(* Only REPLACE itself sends one; one that arrives late was sent before.   *)
LEMMA SendsNone ==
  ASSUME PInv, [Next]_vars, ~Replace, Sent("replace")' # {}
  PROVE  Sent("replace") # {}
<1>1. Types
  BY DEF PInv
<1>2. ASSUME NEW e \in Entries, e.op # "replace", log' = Append(log, e) \/ log' = log,
             late' = Append(late, e) \/ late' = late
      PROVE  Sent("replace") # {}
  <2>1. Issued("replace")' = Issued("replace")
    BY <1>1, <1>2, LogSends DEF Issued
  <2>2. Delayed("replace")' = Delayed("replace")
    BY <1>1, <1>2, LateSends DEF Delayed
  <2> QED BY <2>1, <2>2, SentNothing
<1>3. CASE UNCHANGED <<log, late>>
  BY <1>3, SentNothing DEF Issued, Delayed
<1>4. CASE Arrive
  <2>1. Head(late) \in Entries /\ 1 \in DOMAIN late /\ late[1] = Head(late)
    BY <1>1, <1>4, LateArrives DEF Arrive
  <2>2. CASE Delayed("replace") # {}
    BY <2>2, SentNothing
  <2>3. CASE Delayed("replace") = {}
    <3>1. Head(late).op # "replace"
      BY <2>1, <2>3 DEF Delayed
    <3>2. Issued("replace")' = Issued("replace")
      <4>1. PICK e \in Entries : e = Head(late)
        BY <2>1
      <4>2. log' = Append(log, e) /\ e.op # "replace"
        BY <1>4, <3>1, <4>1 DEF Arrive
      <4>3. Issued("replace")' = Issued("replace") \cup (IF e.op = "replace" THEN {Len(log) + 1} ELSE {})
        BY <1>1, <4>2, LogSends
      <4> QED BY <4>2, <4>3
    <3>3. Delayed("replace")' = {}
      BY <1>1, <1>4, <2>3, LateArrives DEF Arrive, Delayed
    <3> QED BY <3>2, <3>3, SentNothing
  <2> QED BY <2>2, <2>3
<1>5. CASE OthersInsert
  <2>1. Insert \in Entries /\ Insert.op # "replace"
    BY DEF Insert, Entries
  <2> QED BY <1>2, <1>5, <2>1 DEF OthersInsert
<1>6. CASE Drop
  <2>1. PICK e : e = [op |-> "drop", seen |-> engine.seen]
    OBVIOUS
  <2>2. e \in Entries /\ e.op # "replace"
    BY <2>1 DEF Entries, PInv, Types, Engines
  <2> QED BY <1>2, <1>6, <2>1, <2>2 DEF Drop, Statement
<1>7. Quiet => UNCHANGED <<log, late>>
  BY DEF Quiet, table
<1> QED
  BY <1>3, <1>4, <1>5, <1>6, <1>7 DEF Next, CallAny, Call, Step, LoadEntry, VerifyGuard,
     InspectCapability, CheckStaging, ObserveHealth, ObserveParts, ObserveData, ReadFails, Unobserved,
     ReplaceIntent, ClassifyCommit, DropIntent, ClassifyRollback, Reported, PutLedger, LoseLease,
     Crash, Apply, vars, table

(* The tables stay as they are, and the ledger keeps what was verified.    *)
LEMMA StaysSame ==
  ASSUME PInv, [Next]_vars
  PROVE  Same
<1>1. CASE PutLedger
  <2>1. engine.pc = "put" /\ ledger' \in {ledger, engine.entry} /\ UNCHANGED <<design, staging>>
    BY <1>1 DEF PutLedger, At
  <2> QED BY <2>1 DEF PInv, LedgerFits, Same
<1>2. Quiet => Same
  BY DEF Quiet, Same
<1> QED
  BY <1>1, <1>2 DEF Next, CallAny, Call, Step, LoadEntry, VerifyGuard, InspectCapability,
     CheckStaging, ObserveHealth, ObserveParts, ObserveData, ReadFails, Unobserved, ReplaceIntent,
     Replace, Drop, Statement, ClassifyCommit, DropIntent, ClassifyRollback, Reported, Arrive,
     OthersInsert, LoseLease, Crash, Apply, vars, table, Same

(* A step of the engine leaves it where the checks are passed or not needed. *)
LEMMA EngineFits ==
  ASSUME PInv, FitInv, [Next]_vars
  PROVE  /\ engine'.pc = "staging" => ReadyForLab
         /\ Aim' = "replace_intent" => Checked
         /\ engine'.pc \in {"parts", "data"} \/ engine'.report.matched > 0 => ReplicaTargetsKnown
         /\ engine'.pc = "replace" \/ (engine'.pc = "put" /\ engine'.then = "replace") => Fit
<1> USE DEF Aim, Looking, At, Idle, NoReport
<1>1. engine \in Engines /\ LedgerFits
  BY DEF PInv, Types
<1>a. ASSUME NEW expect, NEW then
      PROVE  /\ Observe(expect, then).pc = "health" /\ Observe(expect, then).then = then
             /\ Observe(expect, then).report.matched = 0
  BY <1>1 DEF Observe, Engines
<1>b. ASSUME NEW pc, pc # "idle"
      PROVE  Goto(pc).pc = pc /\ Goto(pc).then = engine.then /\ Goto(pc).report = engine.report
  BY <1>1, <1>b DEF Goto, Engines
<1>c. ASSUME NEW state, NEW checkpoint, NEW then
      PROVE  LET e == Store(state, checkpoint, then) IN
             e.pc = "put" /\ e.then = then /\ e.report = engine.report
  BY <1>1 DEF Store, Engines
<1>2. CASE engine' = engine
  BY <1>2 DEF FitInv
<1>3. CASE engine' = Idle
  BY <1>3
<1>4. CASE CallAny
  BY <1>4 DEF CallAny, Call
<1>5. CASE LoadEntry
  <2>1. \/ engine' = Idle \/ engine' = Goto("guard")
        \/ \E e, d : d # "replace_intent" /\ engine' = Observe(e, d)
    BY <1>5, LoadsTo
  <2> QED BY <1>3, <1>a, <1>b, <2>1 DEF FitInv
<1>6. CASE VerifyGuard
  BY <1>3, <1>6, <1>a, <1>b DEF VerifyGuard, FitInv
<1>7. CASE InspectCapability
  BY <1>3, <1>7, <1>b DEF InspectCapability, FitInv
<1>8. CASE CheckStaging
  BY <1>3, <1>8, <1>a DEF CheckStaging, FitInv, Checked
<1>9. CASE ObserveHealth
  BY <1>1, <1>9 DEF ObserveHealth, Goto, Engines, FitInv
<1>10. CASE ObserveParts
  BY <1>1, <1>10 DEF ObserveParts, Engines, FitInv
<1>11. CASE ObserveData
  <2>1. ReplicaTargetsKnown
    BY <1>11 DEF ObserveData, FitInv
  <2>2. PICK report : engine' = [engine EXCEPT
                 !.pc = IF engine.left \ {engine.at} = {} THEN engine.then ELSE "health",
                 !.left = engine.left \ {engine.at}, !.at = "none", !.healthy = FALSE,
                 !.parts = FALSE, !.report = report]
    BY <1>11 DEF ObserveData
  <2>3. engine.then \in Sights /\ (engine.then = "replace_intent" => Checked)
    BY <1>1, <1>11 DEF ObserveData, LedgerFits, FitInv
  <2> QED
    BY <1>1, <2>1, <2>2, <2>3 DEF Engines, Sights, OfSource, OfAbsence
<1>12. CASE ReadFails
  BY <1>1, <1>12 DEF ReadFails, Goto, Engines, FitInv
<1>13. CASE Unobserved \/ ClassifyCommit \/ DropIntent \/ ClassifyRollback
  <2>1. \/ engine' = Idle
        \/ \E s, c, d : d # "replace" /\ engine' = Store(s, c, d)
    BY <1>13 DEF Unobserved, ClassifyCommit, DropIntent, ClassifyRollback
  <2> QED BY <1>3, <1>c, <2>1 DEF FitInv
<1>14. CASE ReplaceIntent
  <2>1. CASE Verdict(engine.report) = "converged"
    <3>1. engine.report.matched = Cardinality(Replicas) /\ engine.report.matched \in Nat
      BY <1>1, <2>1 DEF Verdict, Engines, Reports
    <3>2. Fit
      BY <1>14, <3>1, BoundsAssumption DEF ReplaceIntent, FitInv, Fit
    <3> QED BY <1>14, <1>c, <2>1, <3>2 DEF ReplaceIntent, FitInv, Fit
  <2>2. CASE Verdict(engine.report) # "converged"
    BY <1>14, <2>2, <1>3 DEF ReplaceIntent
  <2> QED BY <2>1, <2>2
<1>15. CASE Replace \/ Drop
  BY <1>15, <1>a DEF Replace, Drop, Statement
<1>16. CASE PutLedger
  BY <1>1, <1>3, <1>16 DEF PutLedger, Goto, Engines, FitInv, LedgerFits, Onto
<1> QED
  BY <1>2, <1>3, <1>4, <1>5, <1>6, <1>7, <1>8, <1>9, <1>10, <1>11, <1>12, <1>13, <1>14, <1>15, <1>16
     DEF Next, Step, Reported, Arrive, OthersInsert, LoseLease, Crash, Apply, vars, table

LEMMA FitNext ==
  ASSUME PInv, FitInv, [Next]_vars
  PROVE  FitInv'
<1>1. /\ ReadyForLab' = ReadyForLab /\ ReplicaTargetsKnown' = ReplicaTargetsKnown
      /\ Checked' = Checked /\ Fit' = Fit
  BY StaysSame, FitStays
<1>2. Sent("replace")' # {} => Fit
  <2>1. CASE Replace
    BY <2>1 DEF Replace, Statement, At, FitInv
  <2>2. CASE ~Replace
    BY <2>2, SendsNone DEF FitInv, FitToReplace, Fit, Checked
  <2> QED BY <2>1, <2>2
<1>3. FitToReplace'
  BY <1>1, <1>2 DEF FitToReplace, Fit, Checked
<1> QED BY <1>1, <1>3, EngineFits DEF FitInv

LEMMA Fits == Spec => []FitInv
<1>1. Init => FitInv
  <2> SUFFICES ASSUME Init PROVE FitInv
    OBVIOUS
  <2>1. Sent("replace") = {}
    BY DEF Init, Sent, Issued
  <2> QED BY <2>1 DEF Init, FitInv, FitToReplace, Aim, Looking, Idle, NoReport
<1>2. PInv /\ FitInv /\ [Next]_vars => FitInv'
  BY FitNext
<1> QED BY <1>1, <1>2, Commits, PTL DEF Spec

(* No statement is issued twice, none destroys data of others that was     *)
(* there when the engine began to look, and REPLACE goes to no table the   *)
(* commit's own checks refuse                                              *)
(* (replicated_partition_commit.go, Commit, Rollback).                     *)
THEOREM CommitsSafely == Spec => []CommitSafe
<1>1. PInv /\ FitInv => CommitSafe
  BY DEF PInv, IssueFits, SeenFits, StrangersKept, Clean, FitInv, CommitSafe
<1> QED BY <1>1, Commits, Fits, PTL

(* The ledger says committed, or rolled back, only after every replica has *)
(* it, and recovery knows every checkpoint as its own                      *)
(* (replicated_partition_commit.go, classify).                             *)
THEOREM LedgerTellsTheTruth == Spec => []LedgerTells
<1>1. PInv => LedgerTells
  <2> SUFFICES ASSUME PInv PROVE LedgerTells
    OBVIOUS
  <2>2. Types /\ Counted
    BY DEF PInv
  <2>3. engine.report.matched + engine.report.pending + engine.report.conflicting
          \in 0..Cardinality(Replicas \ engine.left)
    <3>1. /\ engine.report.matched \in Nat /\ engine.report.pending \in Nat
          /\ engine.report.conflicting \in Nat
      BY <2>2 DEF Types, Engines, Reports
    <3>2. Cardinality(Replicas \ engine.left) \in Nat
      BY Countable
    <3>3. engine.report.matched + engine.report.pending + engine.report.conflicting
            <= Cardinality(Replicas \ engine.left)
      BY <2>2 DEF Counted, Seen
    <3> QED BY <3>1, <3>2, <3>3
  <2>4. applied \in [Replicas -> 0..Len(log)]
    BY <2>2, LogLength DEF Types
  <2>5. ledger.state \in LedgerStates /\ ledger.source \in {"run", "empty"}
        /\ engine.left \subseteq Replicas /\ engine.at \in Replicas \cup {"none"}
    BY <2>2 DEF Types, EntryRows, Engines
  <2>6. TypeOK
    BY <2>2, <2>3, <2>4, <2>5 DEF Types, TypeOK
  <2>7. RecordedEverywhere
    BY DEF PInv, IssueFits, RecordedEverywhere, Everywhere, Has, PostCommit
  <2> QED BY <2>6, <2>7 DEF LedgerTells, PInv
<1> QED BY <1>1, Commits, PTL

-----------------------------------------------------------------------------
(* The cutover's promise.                                                  *)

Serves == IF Issued("replace") # {} /\ Issued("drop") = {} THEN "migrated" ELSE "original"

LEMMA RepliesStay ==
  ASSUME UNCHANGED <<log, ledger>>
  PROVE  Serves' = Serves /\ Word' = Word
BY DEF Serves, Issued, Word

(* The entry that is stored is a step of the promise.                      *)
LEMMA WordMoves ==
  ASSUME PInv, PutLedger
  PROVE  Serves' = Serves /\ \/ Word' = Word
                             \/ Word \in {"original", "migrated"} /\ Word' = "unsure"
                             \/ Word = "unsure" /\ Word' = Serves
                             \/ Word \in {"unsure", "migrated"} /\ Word' = "manual"
<1>1. log' = log /\ engine.pc = "put" /\ ledger' \in {ledger, engine.entry}
  BY DEF PutLedger, At, table
<1>2. Serves' = Serves
  BY <1>1 DEF Serves, Issued
<1>3. CASE ledger' = ledger
  BY <1>2, <1>3 DEF Word
<1>4. CASE ledger' = engine.entry
  <2>1. Onto(ledger.state, engine.entry.state, engine.then) /\ PInv'
    BY <1>1, Puts DEF PInv, LedgerFits
  <2>2. PICK r : r \in Replicas
    BY BoundsAssumption, FS_EmptySet
  <2>3. engine.entry.state = "committed" => Serves = "migrated"
    <3>1. SUFFICES ASSUME engine.entry.state = "committed" PROVE Serves = "migrated"
      OBVIOUS
    <3>2. Everywhere("replace") /\ Sent("drop") = {}
      <4>1. ledger.state \in Unsettled
        BY <2>1, <3>1 DEF Onto, Unsettled
      <4> QED BY <1>1, <3>1, <4>1 DEF PInv, IssueReady, IssueFits, Unsettled
    <3>3. Issued("replace") # {} /\ Issued("drop") = {}
      BY <2>2, <3>2, SentNone DEF Everywhere, Has
    <3> QED BY <3>3 DEF Serves
  <2>4. engine.entry.state = "rolled_back" => Serves = "original"
    <3>1. SUFFICES ASSUME engine.entry.state = "rolled_back" PROVE Serves = "original"
      OBVIOUS
    <3>2. Everywhere("drop")
      BY <1>1, <3>1 DEF PInv, IssueReady
    <3>3. Issued("drop") # {}
      BY <2>2, <3>2 DEF Everywhere, Has
    <3> QED BY <3>3 DEF Serves
  <2>5. ledger.state = "verified" => Word = "original"
    BY DEF Word, Unsettled
  <2>6. CASE ledger.state = "verified" /\ engine.entry.state = "commit_pending"
    BY <1>2, <1>4, <2>6 DEF Word, Unsettled
  <2>7. CASE ledger.state \in Unsettled /\ engine.entry.state \in Unsettled
    BY <1>2, <1>4, <2>7 DEF Word, Unsettled
  <2>8. CASE ledger.state \in Unsettled /\ engine.entry.state = "committed"
    BY <1>2, <1>4, <2>3, <2>8 DEF Word, Unsettled
  <2>9. CASE ledger.state = "committed" /\ engine.entry.state \in {"rollback_blocked", "rollback_pending"}
    BY <1>2, <1>4, <2>9 DEF Word, Unsettled
  <2>10. CASE ledger.state = "rollback_pending" /\ engine.entry.state \in {"rollback_pending", "rollback_failed"}
    BY <1>2, <1>4, <2>10 DEF Word, Unsettled
  <2>11. CASE ledger.state = "rollback_pending" /\ engine.entry.state = "rolled_back"
    BY <1>2, <1>4, <2>4, <2>11 DEF Word, Unsettled
  <2> QED BY <2>1, <2>6, <2>7, <2>8, <2>9, <2>10, <2>11 DEF Onto
<1> QED BY <1>1, <1>3, <1>4

(* What reaches the log does so while the record claims nothing.           *)
LEMMA LogMoves ==
  ASSUME PInv, NEW e \in Entries, log' = Append(log, e), ledger' = ledger,
         \/ engine.pc = e.op
         \/ e.op \in {"replace", "drop"} /\ Delayed(e.op) # {}
         \/ e.op = "insert"
  PROVE  Word' = Word /\ \/ Serves' = Serves
                         \/ Word \in {"unsure", "manual"}
                            /\ Serves' = IF Serves = "original" THEN "migrated" ELSE "original"
<1>1. Word' = Word
  BY DEF Word
<1>2. \A op : Issued(op)' = Issued(op) \cup (IF e.op = op THEN {Len(log) + 1} ELSE {})
  BY LogSends DEF PInv
<1>3. e.op \in {"replace", "drop", "insert"}
  BY DEF Entries
<1>4. CASE e.op = "insert"
  BY <1>1, <1>2, <1>4 DEF Serves
<1>5. CASE e.op \in {"replace", "drop"}
  <2>1. PICK r : r \in Replicas
    BY BoundsAssumption, FS_EmptySet
  <2>2. \A op : Everywhere(op) => Issued(op) # {}
    BY <2>1 DEF Everywhere, Has
  <2>3. Word \in {"unsure", "manual"}
    <3>1. CASE engine.pc = e.op
      <4>1. ledger.state \in {"commit_pending", "rollback_pending"}
        BY <1>5, <3>1 DEF PInv, LedgerFits, Aim, Looking
      <4> QED BY <4>1 DEF Word, Unsettled
    <3>2. CASE Delayed(e.op) # {}
      <4>1. Issued(e.op) = {} /\ ~Everywhere(e.op) /\ Sent(e.op) # {}
        BY <1>5, <2>2, <3>2, SentOnly, SentNothing
      <4>2. CASE e.op = "replace"
        <5>1. ledger.state \in Unsettled
          BY <4>1, <4>2 DEF PInv, IssueFits, PreCommit
        <5> QED BY <5>1 DEF Word, Unsettled
      <4>3. CASE e.op = "drop"
        <5>1. ledger.state \in {"rollback_pending", "rollback_failed"}
          BY <4>1, <4>3 DEF PInv, IssueFits, PreCommit
        <5> QED BY <5>1 DEF Word, Unsettled
      <4> QED BY <1>5, <4>2, <4>3
    <3> QED BY <1>5, <3>1, <3>2
  <2>4. Serves \in {"original", "migrated"} /\ Serves' \in {"original", "migrated"}
    BY DEF Serves
  <2> QED BY <1>1, <2>3, <2>4
<1> QED BY <1>3, <1>4, <1>5

(* The REPLACE and the DROP happen only after a stored intent, and a       *)
(* ledger that claims to know what the partition serves is right: every    *)
(* step of the commit is a step of the cutover's promise, or none          *)
(* (replicated_partition_commit.go, Commit and Rollback).                  *)
THEOREM CommitsAsPromised == Spec => CutoverPromise
<1>1. Init => Promise!Init
  <2> SUFFICES ASSUME Init PROVE Promise!Init
    OBVIOUS
  <2>1. Issued("replace") = {} /\ ledger.state = "verified"
    BY DEF Init, Issued
  <2> QED BY <2>1 DEF Promise!Init, Word, Unsettled
<1>2. PInv /\ [Next]_vars => [Promise!Next]_(Promise!cutoverVars)
  <2> SUFFICES ASSUME PInv, [Next]_vars PROVE [Promise!Next]_(Promise!cutoverVars)
    OBVIOUS
  <2>1. Serves \in {"original", "migrated"}
    BY DEF Serves
  <2>2. ASSUME Serves' = Serves, Word' = Word PROVE [Promise!Next]_(Promise!cutoverVars)
    BY <2>2 DEF Promise!cutoverVars, Serves
  <2>3. CASE UNCHANGED <<log, ledger>>
    BY <2>2, <2>3, RepliesStay
  <2>4. CASE PutLedger
    BY <2>4, WordMoves DEF Promise!Next, Promise!Announce, Promise!Settle, Promise!GiveUp,
         Promise!cutoverVars, Serves
  <2>5. ASSUME NEW e \in Entries, log' = Append(log, e), ledger' = ledger,
               \/ engine.pc = e.op
               \/ e.op \in {"replace", "drop"} /\ Delayed(e.op) # {}
               \/ e.op = "insert"
        PROVE  [Promise!Next]_(Promise!cutoverVars)
    BY <2>5, LogMoves DEF Promise!Next, Promise!Move, Promise!cutoverVars, Serves
  <2>6. CASE Arrive
    <3>1. Types /\ late # <<>> /\ log' = Append(log, Head(late)) /\ late' = Tail(late) /\ ledger' = ledger
      BY <2>6 DEF Arrive, PInv
    <3>2. Head(late) \in Entries /\ 1 \in DOMAIN late /\ late[1] = Head(late)
      BY <3>1, LateArrives
    <3>3. Head(late).op \in {"replace", "drop"} /\ Delayed(Head(late).op) # {}
      BY <3>2 DEF PInv, SeenFits, Entries, Delayed
    <3> QED BY <2>5, <3>1, <3>2, <3>3
  <2>7. CASE OthersInsert
    <3>1. Insert \in Entries /\ Insert.op = "insert" /\ log' = Append(log, Insert) /\ ledger' = ledger
      BY <2>7 DEF OthersInsert, Insert, Entries
    <3> QED BY <2>5, <3>1
  <2>8. ASSUME NEW op \in {"replace", "drop"}, NEW look, Statement(op, look)
        PROVE  [Promise!Next]_(Promise!cutoverVars)
    <3>1. PICK e : e = [op |-> op, seen |-> engine.seen]
      OBVIOUS
    <3>2. e \in Entries /\ engine.pc = e.op /\ ledger' = ledger /\ (log' = Append(log, e) \/ log' = log)
      BY <2>8, <3>1 DEF Statement, At, Entries, PInv, Types, Engines
    <3> QED BY <2>3, <2>5, <3>2
  <2>9. \/ UNCHANGED <<log, ledger>> \/ PutLedger \/ Arrive \/ OthersInsert \/ Replace \/ Drop
    <3>1. Quiet => UNCHANGED <<log, ledger>>
      BY DEF Quiet, table
    <3>2. CASE CallAny
      BY <3>1, <3>2 DEF CallAny, Call
    <3>3. CASE Step
      BY <3>1, <3>3 DEF Step, LoadEntry, VerifyGuard, InspectCapability, CheckStaging, ObserveHealth,
        ObserveParts, ObserveData, ReadFails, Unobserved, ReplaceIntent, ClassifyCommit, DropIntent,
        ClassifyRollback, Reported, table
    <3>4. CASE LoseLease \/ Crash \/ \E r \in Replicas : Apply(r)
      BY <3>4 DEF LoseLease, Crash, Apply, table
    <3>5. CASE UNCHANGED vars
      BY <3>5 DEF vars, table
    <3> QED BY <3>2, <3>3, <3>4, <3>5 DEF Next
  <2> QED BY <2>3, <2>4, <2>6, <2>7, <2>8, <2>9 DEF Replace, Drop
<1> QED BY <1>1, <1>2, Commits, PTL DEF Spec, Promise!Spec, CutoverPromise
=============================================================================
