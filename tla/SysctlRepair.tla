------------------------------ MODULE SysctlRepair ------------------------------
(***************************************************************************)
(* The repair of one boolean kernel parameter of a host, planned, applied, *)
(* verified and if need be rolled back by the stages of an operation run.  *)
(* Every stage looks at the host first: the value in the kernel, then the  *)
(* files it is loaded from at boot, which are listed directory by          *)
(* directory and read one after another.  Meanwhile an administrator edits *)
(* the files, sets the value, or has it loaded again.                      *)
(*                                                                         *)
(* Files are named <<root, basename>>, both numbers: a root shadows those  *)
(* after it, and basenames are loaded in order.                            *)
(***************************************************************************)
EXTENDS Integers, FiniteSets, FiniteSetsExt

CONSTANTS
  File,       \* the names a file may have
  Legacy,     \* the name of /etc/sysctl.conf
  NoValue,
  Initially,  \* what the files may hold at first
  MaxEdits,   \* bound: what the administrator does
  MaxFaults   \* bound: commands that fail

LibRoot == 4
ASSUME FileAssumption == File \subseteq (0..LibRoot) \X Nat /\ Legacy \notin File
\* Of any files one has the last basename, for a directory has so many files.
ASSUME LastAssumption ==
  \A B \in SUBSET {n[2] : n \in File} : B # {} => \E b \in B : \A c \in B : b >= c
ASSUME BoundAssumption == MaxEdits \in Nat /\ MaxFaults \in Nat

Value == {"0", "1"}
\* "silent" does not mention the parameter, "odd" mentions it in a form that is
\* not supported, "unsafe" is a file others may write to or that cannot be
\* read, and "bridge" is a link to the legacy file.
Content == Value \union {"none", "silent", "odd", "unsafe", "bridge"}
Listed == {"entry", "link"} \* found, and not read yet
ASSUME ContentAssumption == Initially \subseteq Content /\ NoValue \notin Value
Name == File \union {Legacy}
View == {"systemd", "procps"}

Ended == {"blocked", "interrupted", "succeeded", "rolled_back", "rollback_failed"}
Looks == {"discover", "precheck", "create", "verify_point", "apply", "applied",
          "verify", "restored", "verify_rollback"}

VARIABLES
  host,   \* the files, and the value in the kernel
  stage,
  seen,   \* what the stage has looked at
  plan,   \* the value to be replaced, and the evidence of the files
  point,  \* the restore point: the value and the evidence
  memory, \* of the checks below: was the host left alone, and how was it
  spare

repairVars == <<host, stage, seen, plan, point, memory, spare>>

Nothing == [value |-> NoValue, file |-> [n \in {} |-> ""]]

RepairInit ==
  /\ \E f \in [Name -> Initially], v \in Value : host = [file |-> f, value |-> v]
  /\ stage = "discover" /\ seen = Nothing /\ plan = {} /\ point = {}
  /\ memory = [alone |-> TRUE, since |-> FALSE, was |-> NoValue]
  /\ spare = [edits |-> MaxEdits, faults |-> MaxFaults]

-----------------------------------------------------------------------------
(* What the files say, as far as they were read.                           *)

\* resolveView: of the files of one basename the first root's counts; systemd
\* does not look at /lib.
Chosen(f, view) ==
  {n \in DOMAIN f \ {Legacy} :
     /\ f[n] # "none" /\ (view = "systemd" => n[1] # LibRoot)
     /\ \A m \in DOMAIN f \ {Legacy} : m[2] = n[2] /\ f[m] # "none" => n[1] <= m[1]}

\* procps reads the legacy file, too, after all others.
Read(f, view) ==
  Chosen(f, view) \union
    (IF view = "procps" /\ f[Legacy] # "none" THEN {Legacy} ELSE {})

\* What decides, and so what evidence there is, is what assigns a value.
Trace(f, view) == {<<n, f[n]>> : n \in {m \in Read(f, view) : f[m] \in Value}}

Last(trace) ==
  IF \E a \in trace : a[1] = Legacy THEN CHOOSE a \in trace : a[1] = Legacy
  ELSE CHOOSE a \in trace : \A b \in trace : b[1][2] <= a[1][2]

ViewValue(f, view) == IF Trace(f, view) = {} THEN NoValue ELSE Last(Trace(f, view))[2]

Odd(f, view) == \E n \in Read(f, view) : f[n] = "odd"

\* A mistake the properties must catch: only one of the two ways of loading the
\* files is looked at.
Resolved_OneView(f) ==
  /\ \A n \in DOMAIN f : f[n] # "unsafe"
  /\ ~Odd(f, "systemd") /\ ViewValue(f, "systemd") # NoValue

\* Resolve: no file was unsafe, none that counts was odd, and both views agree.
Resolved(f) ==
  /\ \A n \in DOMAIN f : f[n] # "unsafe"
  /\ \A view \in View : ~Odd(f, view)
  /\ ViewValue(f, "systemd") = ViewValue(f, "procps")
  /\ ViewValue(f, "systemd") # NoValue

Persisted == ViewValue(seen.file, "systemd")
Digest(f) == [view \in View |-> Trace(f, view)]

\* A mistake the properties must catch: where the value is loaded from is not
\* compared with what it was when the plan was made.
SameEvidence_Any(e) == Persisted = "0"

SameEvidence(e) == Persisted = "0" /\ Digest(seen.file) = e.digest

-----------------------------------------------------------------------------
(* Looking.                                                                *)

\* readSource, readLegacyBridgeSource: a link leads to the legacy file, which
\* then has to be there.
ReadAs(n) ==
  LET c == host.file[n] IN
    IF c # "bridge" THEN c
    ELSE IF n # Legacy /\ host.file[Legacy] \notin {"none", "bridge"}
         THEN host.file[Legacy] ELSE "unsafe"

ReadRuntime ==
  /\ stage \in Looks /\ seen.value = NoValue
  /\ seen' = [seen EXCEPT !.value = host.value]
  /\ memory' = [memory EXCEPT !.alone = TRUE]
  /\ UNCHANGED <<host, stage, plan, point, spare>>

\* One root after another, the legacy file last.
Place(n) == IF n = Legacy THEN LibRoot + 1 ELSE n[1]

\* find tells files from links; a legacy file that is a link, or is not safe,
\* is not read.
Found(n) ==
  CASE host.file[n] = "none" -> "none"
    [] n = Legacy /\ host.file[n] \in {"bridge", "unsafe"} -> "unsafe"
    [] n # Legacy /\ host.file[n] = "bridge" -> "link"
    [] OTHER -> "entry"

List(p) ==
  LET there == {n \in Name : Place(n) = p} IN
  /\ stage \in Looks /\ seen.value # NoValue /\ there \cap DOMAIN seen.file = {}
  /\ \A m \in Name : Place(m) < p => m \in DOMAIN seen.file /\ seen.file[m] \notin Listed
  /\ seen' = [seen EXCEPT !.file =
                [m \in DOMAIN @ \union there |-> IF m \in there THEN Found(m) ELSE @[m]]]
  /\ UNCHANGED <<host, stage, plan, point, memory, spare>>

\* What was listed is read as what it was listed for. A file that is gone by
\* then counts as an empty one, which shadows others nevertheless, unless it
\* goes while it is being inspected.
Reads(n) ==
  IF seen.file[n] = "link" THEN {IF host.file[n] = "bridge" THEN ReadAs(n) ELSE "unsafe"}
  ELSE CASE host.file[n] = "none"   -> {"silent", "unsafe"}
         [] host.file[n] = "bridge" -> {"unsafe"}
         [] OTHER                   -> {host.file[n]}

ReadFile(n) ==
  /\ stage \in Looks /\ n \in DOMAIN seen.file /\ seen.file[n] \in Listed
  /\ \E c \in Reads(n) : seen' = [seen EXCEPT !.file[n] = c]
  /\ UNCHANGED <<host, stage, plan, point, memory, spare>>

Looked == stage \in Looks /\ DOMAIN seen.file = Name /\ \A n \in Name : seen.file[n] \notin Listed

Next_(s) == stage' = s /\ seen' = Nothing
Keep == UNCHANGED <<host, plan, point, memory, spare>>

\* Where a stage goes that could not do what it had to.
Failed ==
  CASE stage \in {"discover", "precheck", "create", "verify_point"} -> "blocked"
    [] stage \in {"apply", "apply_write", "applied"} -> "interrupted"
    [] stage = "verify" -> "rollback"
    [] OTHER -> "rollback_failed"

\* A command fails, or the files do not say what the value is.
LookFails ==
  /\ stage \in Looks
  /\ spare.faults > 0 /\ spare' = [spare EXCEPT !.faults = @ - 1]
  /\ Next_(Failed) /\ UNCHANGED <<host, plan, point, memory>>

Unresolved == Looked /\ ~Resolved(seen.file) /\ Next_(Failed) /\ Keep

Sees(s) == stage = s /\ Looked /\ Resolved(seen.file)

-----------------------------------------------------------------------------
(* Planning.                                                               *)

Discover == Sees("discover") /\ Next_("precheck") /\ Keep

PrecheckBlocks ==
  /\ Sees("precheck") /\ (Persisted # "0" \/ seen.value = "0")
  /\ Next_("blocked") /\ Keep

Plan ==
  /\ Sees("precheck") /\ Persisted = "0" /\ seen.value # "0"
  /\ plan' = {[before |-> seen.value, digest |-> Digest(seen.file)]}
  /\ Next_("create")
  /\ UNCHANGED <<host, point, memory, spare>>

Frozen == CHOOSE p \in plan : TRUE
Manifest == CHOOSE p \in point : TRUE

-----------------------------------------------------------------------------
(* The restore point.                                                      *)

Create ==
  /\ Sees("create") /\ SameEvidence(Frozen)
  /\ point' = {[value |-> seen.value, digest |-> Digest(seen.file)]}
  /\ memory' = [memory EXCEPT !.since = memory.alone, !.was = host.value]
  /\ Next_("verify_point")
  /\ UNCHANGED <<host, plan, spare>>

Matches == SameEvidence(Manifest) /\ seen.value = Manifest.value

VerifyPoint == Sees("verify_point") /\ Matches /\ Next_("apply") /\ Keep

-----------------------------------------------------------------------------
(* The change.                                                             *)

Fresh == SameEvidence(Frozen) /\ seen.value \in {Frozen.before, "0"}

ApplyChecks ==
  /\ Sees("apply") /\ Fresh
  /\ Next_(IF seen.value = "0" THEN "applied" ELSE "apply_write") /\ Keep

Write(v) == host' = [host EXCEPT !.value = v]

ApplyWrites ==
  /\ stage = "apply_write" /\ Write("0")
  /\ Next_("applied") /\ UNCHANGED <<plan, point, memory, spare>>

Applied == Sees("applied") /\ Next_("verify") /\ Keep

Holds == seen.value = "0" /\ SameEvidence(Frozen)

Verify == Sees("verify") /\ Holds /\ Next_("succeeded") /\ Keep

\* A stage that saw something else than it was to see.
Refuses ==
  /\ \/ Sees("create") /\ ~SameEvidence(Frozen)
     \/ Sees("verify_point") /\ ~Matches
     \/ Sees("apply") /\ ~Fresh
     \/ Sees("verify") /\ ~Holds
     \/ Sees("verify_rollback") /\ ~Matches
  /\ Next_(Failed) /\ Keep

Rollback ==
  /\ stage = "rollback" /\ Write(Manifest.value)
  /\ Next_("restored") /\ UNCHANGED <<plan, point, memory, spare>>

\* The command that sets the value fails, whether or not it set it.
WriteFails ==
  /\ stage \in {"apply_write", "rollback"}
  /\ spare.faults > 0 /\ spare' = [spare EXCEPT !.faults = @ - 1]
  /\ \/ UNCHANGED host
     \/ Write(IF stage = "rollback" THEN Manifest.value ELSE "0")
  /\ Next_(Failed) /\ UNCHANGED <<plan, point, memory>>

Restored == Sees("restored") /\ Next_("verify_rollback") /\ Keep
VerifyRollback == Sees("verify_rollback") /\ Matches /\ Next_("rolled_back") /\ Keep

-----------------------------------------------------------------------------
(* The administrator.                                                      *)

Meanwhile ==
  /\ stage \notin Ended
  /\ spare.edits > 0 /\ spare' = [spare EXCEPT !.edits = @ - 1]
  /\ memory' = [memory EXCEPT !.alone = FALSE, !.since = FALSE]
  /\ UNCHANGED <<stage, seen, plan, point>>

Edit(n, c) == Meanwhile /\ c # host.file[n] /\ host' = [host EXCEPT !.file[n] = c]
Set(v) == Meanwhile /\ v # host.value /\ Write(v)

\* What loading the files makes of the value, as far as it is known: what
\* they hold under the lowest root that has their basename, ...
Contents == [n \in Name |-> ReadAs(n)]
Loads(view) ==
  LET there == {n \in File : Contents[n] # "none" /\ (view = "systemd" => n[1] < LibRoot)}
  IN  {<<Min({n[1] : n \in {m \in there : m[2] = b}}), b>> : b \in {n[2] : n \in there}}
        \union {n \in {Legacy} : view = "procps" /\ Contents[n] # "none"}

\* ... in the order of their basenames, the legacy file last.
Loaded(view) ==
  LET set == {n \in Loads(view) : Contents[n] \in Value}
  IN  IF \E n \in Loads(view) : Contents[n] \in {"odd", "unsafe"} THEN Value
      ELSE IF set = {} THEN {host.value}
      ELSE IF Legacy \in set THEN {Contents[Legacy]}
      ELSE {Contents[CHOOSE n \in set : n[2] = Max({m[2] : m \in set})]}

Load(view) == Meanwhile /\ \E v \in Loaded(view) : Write(v)

RepairNext ==
  \/ ReadRuntime \/ LookFails \/ Unresolved \/ Refuses
  \/ \E p \in {Place(n) : n \in Name} : List(p)
  \/ \E n \in Name : ReadFile(n)
  \/ Discover \/ PrecheckBlocks \/ Plan
  \/ Create \/ VerifyPoint
  \/ ApplyChecks \/ ApplyWrites \/ Applied \/ Verify
  \/ Rollback \/ WriteFails \/ Restored \/ VerifyRollback
  \/ \E n \in Name, c \in Content : Edit(n, c)
  \/ \E v \in Value : Set(v)
  \/ \E view \in View : Load(view)

RepairSpec == RepairInit /\ [][RepairNext]_repairVars

-----------------------------------------------------------------------------

RepairTypes ==
  /\ DOMAIN host.file = Name /\ \A n \in Name : host.file[n] \in Content
  /\ host.value \in Value
  /\ stage \in Looks \union Ended \union {"apply_write", "rollback"}
  /\ seen.value \in Value \union {NoValue} /\ DOMAIN seen.file \subseteq Name
  /\ Cardinality(plan) <= 1 /\ Cardinality(point) <= 1
  /\ \A p \in plan : p.before \in Value
  /\ \A p \in point : p.value \in Value
  /\ memory.alone \in BOOLEAN /\ memory.since \in BOOLEAN
  /\ spare \in [edits : 0 .. MaxEdits, faults : 0 .. MaxFaults]

\* What a repair is reported to have come to is so: a success lasts, that is if
\* nobody touched the host while it was verified, the value is 0 and stays 0
\* whichever way the files are loaded again; and one that was rolled back left
\* no trace, that is if nobody else touched the host since the restore point
\* was made, the value is what it was then (definition.go, Verify, Rollback,
\* VerifyRollback; resolver.go, Resolve; restore.go, Create).
OutcomeLasts ==
  /\ stage = "succeeded" /\ memory.alone =>
       host.value = "0" /\ \A view \in View : Loaded(view) = {"0"}
  /\ stage = "rolled_back" /\ memory.since => host.value = memory.was

\* What a run of the repair records can be relied on (definition.go; resolver.go).
RepairSound == RepairTypes /\ OutcomeLasts

\* The value is set only on the evidence the plan was confirmed for: if nobody
\* touched the host since Apply began to look, it replaces the value the plan
\* names, the files decide as they did when the plan was made, and there is a
\* restore point with that value unless someone touched the host since
\* (definition.go, Apply).
ReplacesAsPlanned ==
  [][stage = "apply_write" /\ stage' = "applied" /\ memory.alone =>
       /\ host.value = Frozen.before /\ Digest(Contents) = Frozen.digest
       /\ memory.since => Manifest.value = host.value]_repairVars
======================================================================================================================================================
