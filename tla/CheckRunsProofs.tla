---------------------------- MODULE CheckRunsProofs ----------------------------
(***************************************************************************)
(* The rows agree, the reports of cancellations are true and stay true,    *)
(* and a run only ever goes on: for any nodes, plugins and requests.       *)
(*                                                                         *)
(* And what comes back from the nodes: what an Agent submits for a task is *)
(* let through by its own journal and by the Server, and what the          *)
(* discovery of a topology says is what its evidence says: for every       *)
(* check, plan, action and evidence.                                       *)
(***************************************************************************)
EXTENDS CheckRuns, TaskResults, DeploymentTopology, FiniteSetTheorems, TLAPS

Row == [site : BOOLEAN, roots : SUBSET {"node"}, retired : BOOLEAN]
Edits == {"join", "leave", "trust", "revoke", "note", "none"}
FrozenRoots == UNION {[D -> SUBSET Root] : D \in SUBSET Node}
Snapshots == UNION {[D -> Phase] : D \in SUBSET Task}
Reports == UNION {[D -> Outcome] : D \in SUBSET Task}

CallType ==
  [pc : {"idle", "freeze", "cancel", "reported", "update"}, nodes : SUBSET Node,
   roots : FrozenRoots, node : Node \cup {NoNode}, row : SUBSET Row, edit : Edits,
   snap : Snapshots, report : Reports, task : SUBSET Task]

RowsOK ==
  /\ spec \subseteq Node
  /\ phase \in [spec \X Plugin -> Phase]
  /\ frozen \in [spec \X Plugin -> SUBSET Root]
  /\ node \in [Node -> Row]
  /\ site \in [there : BOOLEAN, roots : SUBSET {"site"}]
  /\ budget \in [calls : 0 .. MaxCalls, faults : 0 .. MaxFaults]

\* What a report says of a task is so.
True(said, p) ==
  /\ said = "canceled" => p = "canceled"
  /\ said = "already_terminal" => p \in Terminal
  /\ said = "cancel_requested" => p \in Terminal \union {"cancel_requested"}
  /\ said # "unsupported"

\* What a request remembers of the tasks is no more than what is so of them.
CallOK(m) ==
  /\ m \in CallType
  /\ m.pc = "freeze" => DOMAIN m.roots \subseteq m.nodes /\ m.nodes # {}
  /\ DOMAIN m.snap \subseteq spec \X Plugin
  /\ \A t \in DOMAIN m.snap : m.snap[t] \in Terminal => phase[t] \in Terminal
  /\ DOMAIN m.report \subseteq DOMAIN m.snap
  /\ \A t \in DOMAIN m.report : True(m.report[t], phase[t])
  /\ m.task \subseteq DOMAIN m.snap
  /\ \A t \in m.task : phase[t] \in Terminal \union {"cancel_requested"}
  /\ m.pc = "update" => m.node \in Node /\ \E r \in Row : m.row = {r}

CInv ==
  /\ RowsOK /\ NothingDangles
  /\ DOMAIN call = Call /\ \A c \in Call : CallOK(call[c])

-----------------------------------------------------------------------------
(* A task only ever goes on.                                               *)

Onward ==
  /\ spec \subseteq spec'
  /\ \A t \in spec \X Plugin :
       \/ phase'[t] = phase[t]
       \/ /\ phase[t] \notin Terminal /\ phase'[t] \in Phase \ {"pending"}
          /\ phase[t] = "cancel_requested" => phase'[t] \in Terminal

LEMMA CallKept == CInv /\ Onward => \A m : CallOK(m) => CallOK(m)'
<1> SUFFICES ASSUME CInv, Onward, NEW m, CallOK(m) PROVE CallOK(m)'
  OBVIOUS
<1>1. \A t \in DOMAIN m.snap : t \in spec \X Plugin /\ t \in (spec \X Plugin)'
  BY DEF CallOK, Onward
<1>2. \A t \in DOMAIN m.snap : m.snap[t] \in Terminal => phase'[t] \in Terminal
  BY <1>1 DEF CallOK, Onward
<1>3. \A t \in DOMAIN m.report : True(m.report[t], phase'[t])
  BY <1>1 DEF CallOK, Onward, True, Terminal
<1>4. \A t \in m.task : phase'[t] \in Terminal \union {"cancel_requested"}
  BY <1>1 DEF CallOK, Onward
<1>5. QED
  BY <1>1, <1>2, <1>3, <1>4 DEF CallOK

\* A request moves, and everybody else's memory stays true.
LEMMA Moves ==
  ASSUME CInv, Onward, RowsOK', NothingDangles',
         NEW c \in Call, NEW m, CallOK(m) \/ CallOK(m)', call' = [call EXCEPT ![c] = m]
  PROVE  CInv'
<1>1. CallOK(m)'
  BY CallKept
<1>2. \A d \in Call : call'[d] = IF d = c THEN m ELSE call[d]
  BY DEF CInv
<1>3. \A d \in Call : CallOK(call[d])'
  BY <1>1, <1>2, CallKept DEF CInv, CallOK
<1>4. QED
  BY <1>3 DEF CInv

LEMMA Stays ==
  ASSUME CInv, Onward, RowsOK', NothingDangles', call' = call
  PROVE  CInv'
<1>1. \A d \in Call : CallOK(call[d])'
  BY CallKept DEF CInv, CallOK
<1>2. QED
  BY <1>1 DEF CInv

LEMMA NoCallOK == CallOK(NoCall)
<1>1. /\ [n \in {} |-> {}] \in [{} -> SUBSET Root]
      /\ [t \in {} |-> ""] \in [{} -> Phase] /\ [t \in {} |-> ""] \in [{} -> Outcome]
  OBVIOUS
<1>2. /\ [n \in {} |-> {}] \in FrozenRoots
      /\ [t \in {} |-> ""] \in Snapshots /\ [t \in {} |-> ""] \in Reports
  BY <1>1 DEF FrozenRoots, Snapshots, Reports
<1>3. NoCall \in CallType
  BY <1>2 DEF NoCall, CallType, Edits
<1>4. QED
  BY <1>3 DEF CallOK, NoCall

\* The rows that a request does not touch.
LEMMA Untouched == CInv /\ UNCHANGED rows => Onward /\ NothingDangles'
BY DEF rows, Onward, CInv, NothingDangles, Live

LEMMA RowsKept == CInv /\ UNCHANGED rows /\ (budget' = budget \/ budget' \in [calls : 0 .. MaxCalls, faults : 0 .. MaxFaults])
                  => RowsOK'
BY DEF rows, CInv, RowsOK

LEMMA Spending ==
  ASSUME CInv, (budget.calls > 0 /\ budget' = [budget EXCEPT !.calls = @ - 1]) \/ Fault
  PROVE  budget' \in [calls : 0 .. MaxCalls, faults : 0 .. MaxFaults]
<1>1. /\ budget \in [calls : 0 .. MaxCalls, faults : 0 .. MaxFaults]
      /\ budget.calls \in 0 .. MaxCalls /\ budget.faults \in 0 .. MaxFaults
  BY DEF CInv, RowsOK
<1>2. CASE budget.calls > 0 /\ budget' = [budget EXCEPT !.calls = @ - 1]
  <2>1. budget.calls - 1 \in 0 .. MaxCalls
    BY <1>1, <1>2, BoundAssumption
  <2>2. QED
    BY <1>1, <1>2, <2>1
<1>3. CASE Fault
  <2>1. budget.faults - 1 \in 0 .. MaxFaults
    BY <1>1, <1>3, BoundAssumption DEF Fault
  <2>2. QED
    BY <1>1, <1>3, <2>1 DEF Fault
<1>4. QED
  BY <1>2, <1>3

\* A request that only remembers.
LEMMA Remembers ==
  ASSUME CInv, UNCHANGED rows, NEW c \in Call, NEW m, CallOK(m), call' = [call EXCEPT ![c] = m],
         budget' = budget \/ budget' \in [calls : 0 .. MaxCalls, faults : 0 .. MaxFaults]
  PROVE  CInv'
<1>1. Onward /\ NothingDangles' /\ RowsOK'
  BY Untouched, RowsKept
<1>2. QED
  BY <1>1, Moves

LEMMA CreateCheckRunStep ==
  ASSUME CInv, NEW c \in Call, NEW S \in SUBSET Node, CreateCheckRun(c, S)
  PROVE  CInv'
<1> DEFINE m == [NoCall EXCEPT !.pc = "freeze", !.nodes = S]
<1>1. CallOK(NoCall) /\ NoCall \in CallType
  BY NoCallOK DEF CallOK
<1>2. /\ m \in CallType /\ m.pc = "freeze" /\ m.nodes = S /\ m.roots = NoCall.roots
      /\ m.snap = NoCall.snap /\ m.report = NoCall.report /\ m.task = NoCall.task
  BY <1>1 DEF CallType
<1>3. DOMAIN m.roots = {} /\ S # {}
  BY <1>2 DEF NoCall, CreateCheckRun
<1>4. CallOK(m)
  BY <1>1, <1>2, <1>3 DEF CallOK
<1>5. budget' \in [calls : 0 .. MaxCalls, faults : 0 .. MaxFaults]
  BY Spending DEF CreateCheckRun, Begin
<1>6. call' = [call EXCEPT ![c] = m] /\ UNCHANGED rows
  BY DEF CreateCheckRun, Begin
<1> HIDE DEF m
<1>7. QED
  BY <1>4, <1>5, <1>6, Remembers

LEMMA FreezeRootsStep ==
  ASSUME CInv, NEW c \in Call, NEW n \in Node, FreezeRoots(c, n)
  PROVE  CInv'
<1> DEFINE f == [k \in DOMAIN call[c].roots \union {n} |->
                   IF k = n THEN Trusted(n) ELSE call[c].roots[k]]
           m == [call[c] EXCEPT !.roots = f]
<1>1. CallOK(call[c]) /\ call[c] \in CallType
  BY DEF CInv, CallOK
<1>2. /\ call[c].pc = "freeze" /\ n \in call[c].nodes \ DOMAIN call[c].roots
      /\ UNCHANGED <<rows, budget>>
  BY DEF FreezeRoots
<1>3. CASE Live(n)
  <2>1. Trusted(n) \in SUBSET Root
    BY DEF CInv, RowsOK, Row, Trusted, Root
  <2>2. PICK D \in SUBSET Node : call[c].roots \in [D -> SUBSET Root]
    BY <1>1 DEF CallType, FrozenRoots
  <2>3. f \in [D \union {n} -> SUBSET Root] /\ D \union {n} \in SUBSET Node
    BY <2>1, <2>2
  <2>4. f \in FrozenRoots /\ DOMAIN f = DOMAIN call[c].roots \union {n}
    BY <2>3 DEF FrozenRoots
  <2> HIDE DEF f
  <2>5. /\ m \in CallType /\ m.pc = "freeze" /\ m.nodes = call[c].nodes /\ m.roots = f
        /\ m.snap = call[c].snap /\ m.report = call[c].report /\ m.task = call[c].task
    BY <1>1, <1>2, <2>4 DEF CallType
  <2>6. CallOK(m)
    BY <1>1, <1>2, <2>4, <2>5 DEF CallOK
  <2>7. call' = [call EXCEPT ![c] = m]
    BY <1>1, <1>3 DEF FreezeRoots, CInv, f
  <2> HIDE DEF m
  <2>8. QED
    BY <1>2, <2>6, <2>7, Remembers
<1>4. CASE ~Live(n)
  BY <1>2, <1>4, NoCallOK, Remembers DEF FreezeRoots, Return
<1>5. QED
  BY <1>3, <1>4

LEMMA StoreCheckRunStep ==
  ASSUME CInv, NEW c \in Call, StoreCheckRun(c)
  PROVE  CInv'
<1>1. CallOK(call[c]) /\ call[c] \in CallType
  BY DEF CInv, CallOK
<1>2. /\ call[c].pc = "freeze" /\ DOMAIN call[c].roots = call[c].nodes /\ call[c].nodes # {}
      /\ call[c].nodes \subseteq Node /\ call' = [call EXCEPT ![c] = NoCall]
      /\ UNCHANGED <<node, site, budget>>
  BY <1>1 DEF StoreCheckRun, Return, CallOK, CallType
<1>3. CASE Insertable(call[c].nodes)
  <2>1. /\ spec = {} /\ \A n \in call[c].nodes : ~node[n].retired
        /\ spec' = call[c].nodes
        /\ phase' = [t \in spec' \X Plugin |-> "pending"]
        /\ frozen' = [t \in spec' \X Plugin |-> call[c].roots[t[1]]]
    BY <1>3 DEF StoreCheckRun, Insertable, Live
  <2>2. \A n \in call[c].nodes : call[c].roots[n] \in SUBSET Root
    <3>1. PICK D \in SUBSET Node : call[c].roots \in [D -> SUBSET Root]
      BY <1>1 DEF CallType, FrozenRoots
    <3>2. QED
      BY <1>2, <3>1
  <2>3. RowsOK'
    BY <1>2, <2>1, <2>2 DEF CInv, RowsOK, Phase
  <2>4. NothingDangles' /\ Onward
    BY <1>2, <2>1 DEF CInv, NothingDangles, Onward
  <2>5. QED
    BY <1>2, <2>3, <2>4, NoCallOK, Moves
<1>4. CASE ~Insertable(call[c].nodes)
  <2>1. UNCHANGED rows
    BY <1>2, <1>4 DEF StoreCheckRun, rows
  <2>2. QED
    BY <1>2, <2>1, NoCallOK, Remembers
<1>5. QED
  BY <1>3, <1>4

LEMMA CancelCheckRunStep ==
  ASSUME CInv, NEW c \in Call, CancelCheckRun(c)
  PROVE  CInv'
<1> DEFINE m == [NoCall EXCEPT !.pc = "cancel", !.snap = phase]
<1>1. CallOK(NoCall) /\ NoCall \in CallType
  BY NoCallOK DEF CallOK
<1>2. phase \in Snapshots /\ DOMAIN phase = spec \X Plugin
  <2>1. phase \in [spec \X Plugin -> Phase] /\ spec \X Plugin \in SUBSET Task
    BY DEF CInv, RowsOK, Task
  <2>2. QED
    BY <2>1 DEF Snapshots
<1>3. /\ m \in CallType /\ m.pc = "cancel" /\ m.snap = phase
      /\ m.report = NoCall.report /\ m.task = NoCall.task
  BY <1>1, <1>2 DEF CallType
<1>4. DOMAIN m.report = {} /\ m.task = {}
  BY <1>3 DEF NoCall
<1>5. CallOK(m)
  BY <1>2, <1>3, <1>4 DEF CallOK
<1>6. budget' \in [calls : 0 .. MaxCalls, faults : 0 .. MaxFaults]
  BY Spending DEF CancelCheckRun, Begin
<1>7. call' = [call EXCEPT ![c] = m] /\ UNCHANGED rows
  BY DEF CancelCheckRun, Begin
<1> HIDE DEF m
<1>8. QED
  BY <1>5, <1>6, <1>7, Remembers

LEMMA Reporting ==
  ASSUME CInv, UNCHANGED rows, NEW c \in Call, NEW t \in DOMAIN call[c].snap, NEW said \in Outcome,
         True(said, phase[t]), Report(c, t, said),
         budget' = budget \/ budget' \in [calls : 0 .. MaxCalls, faults : 0 .. MaxFaults]
  PROVE  CInv'
<1> DEFINE f == [u \in DOMAIN call[c].report \union {t} |->
                   IF u = t THEN said ELSE call[c].report[u]]
           m == [call[c] EXCEPT !.task = {}, !.report = f]
<1>1. CallOK(call[c]) /\ call[c] \in CallType
  BY DEF CInv, CallOK
<1>2. PICK D \in SUBSET Task : call[c].report \in [D -> Outcome]
  BY <1>1 DEF CallType, Reports
<1>3. t \in Task
  BY <1>1 DEF CallOK, CInv, RowsOK, Task
<1>4. f \in [D \union {t} -> Outcome] /\ D \union {t} \in SUBSET Task
  BY <1>2, <1>3
<1>5. f \in Reports /\ DOMAIN f = DOMAIN call[c].report \union {t}
  BY <1>4 DEF Reports
<1>6. \A u \in DOMAIN f : True(f[u], phase[u])
  BY <1>1, <1>5 DEF CallOK
<1> HIDE DEF f
<1>7. /\ m \in CallType /\ m.pc = call[c].pc /\ m.nodes = call[c].nodes /\ m.roots = call[c].roots
      /\ m.snap = call[c].snap /\ m.report = f /\ m.task = {} /\ m.node = call[c].node
      /\ m.row = call[c].row
  BY <1>1, <1>5 DEF CallType
<1>8. CallOK(m)
  BY <1>1, <1>5, <1>6, <1>7 DEF CallOK
<1>9. call' = [call EXCEPT ![c] = m]
  BY DEF Report, f, CInv
<1> HIDE DEF m
<1>10. QED
  BY <1>8, <1>9, Remembers

LEMMA CancelStep ==
  ASSUME CInv, NEW c \in Call, NEW t \in DOMAIN call[c].snap,
         \/ SkipTask(c, t) \/ SettledMeanwhile(c, t) \/ ReadTask(c, t) \/ CancelTaskFails(c, t)
  PROVE  CInv'
<1>1. CallOK(call[c])
  BY DEF CInv
<1>2. CASE SkipTask(c, t)
  <2>1. True("already_terminal", phase[t]) /\ "already_terminal" \in Outcome
    BY <1>1, <1>2 DEF SkipTask, CallOK, True, Outcome
  <2>2. QED
    BY <1>2, <2>1, Reporting DEF SkipTask
<1>3. CASE SettledMeanwhile(c, t)
  <2>1. True(OutcomeOf(c, t), phase[t]) /\ OutcomeOf(c, t) \in Outcome
    BY <1>1, <1>3 DEF SettledMeanwhile, OutcomeOf, CallOK, True, Outcome, Terminal
  <2>2. QED
    BY <1>3, <2>1, Reporting DEF SettledMeanwhile
<1>4. CASE ReadTask(c, t)
  <2>1. True(OutcomeOf(c, t), phase[t]) /\ OutcomeOf(c, t) \in Outcome
    BY <1>1, <1>4 DEF ReadTask, OutcomeOf, CallOK, True, Outcome, Terminal
  <2>2. QED
    BY <1>4, <2>1, Reporting DEF ReadTask
<1>5. CASE CancelTaskFails(c, t)
  <2>1. True("failed", phase[t]) /\ "failed" \in Outcome
    BY DEF True, Outcome
  <2>2. budget' \in [calls : 0 .. MaxCalls, faults : 0 .. MaxFaults]
    BY <1>5, Spending DEF CancelTaskFails
  <2>3. QED
    BY <1>5, <2>1, <2>2, Reporting DEF CancelTaskFails
<1>6. QED
  BY <1>2, <1>3, <1>4, <1>5

\* One task of a node that is there moves, and goes on.
LEMMA TaskMoves ==
  ASSUME CInv, NEW t \in spec \X Plugin, NEW p \in Phase \ {"pending"},
         phase' = [phase EXCEPT ![t] = p], UNCHANGED <<spec, frozen, node, site>>,
         phase[t] \notin Terminal, phase[t] = "cancel_requested" => p \in Terminal,
         budget' = budget
  PROVE  Onward /\ RowsOK' /\ NothingDangles'
<1>1. /\ phase' \in [spec \X Plugin -> Phase] /\ phase'[t] = p
      /\ \A u \in spec \X Plugin : u # t => phase'[u] = phase[u]
  BY DEF CInv, RowsOK
<1>2. Onward
  BY <1>1 DEF Onward
<1>3. RowsOK'
  BY <1>1 DEF CInv, RowsOK
<1>4. NothingDangles'
  BY <1>1 DEF CInv, RowsOK, NothingDangles
<1>5. QED
  BY <1>2, <1>3, <1>4

LEMMA CancelTaskStep ==
  ASSUME CInv, NEW c \in Call, NEW t \in DOMAIN call[c].snap, CancelTask(c, t)
  PROVE  CInv'
<1> DEFINE p == IF phase[t] = "pending" THEN "canceled" ELSE "cancel_requested"
<1>1. CallOK(call[c]) /\ call[c] \in CallType /\ t \in spec \X Plugin
  BY DEF CInv, CallOK
<1>2. /\ phase[t] \in {"pending", "claimed", "running"} /\ phase' = [phase EXCEPT ![t] = p]
      /\ UNCHANGED <<spec, frozen, node, site>> /\ budget' = budget
  BY <1>1 DEF CancelTask, CInv, RowsOK
<1>3. p \in Phase \ {"pending"} /\ phase[t] \notin Terminal /\ phase[t] # "cancel_requested"
  BY <1>2 DEF Phase, Terminal
<1>4. Onward /\ RowsOK' /\ NothingDangles'
  BY <1>1, <1>2, <1>3, TaskMoves
<1>5. phase'[t] \in Terminal \union {"cancel_requested"}
  BY <1>1, <1>2 DEF CInv, RowsOK, Terminal
<1>6. t \in Task
  BY <1>1 DEF CInv, RowsOK, Task
<1>7. PICK m : m = [call[c] EXCEPT !.task = {t}]
  OBVIOUS
<1>8. PICK k : k = call[c]
  OBVIOUS
<1>9. CallOK(k)'
  BY <1>1, <1>4, <1>8, CallKept
<1>10. /\ m \in CallType /\ m.pc = k.pc /\ m.nodes = k.nodes /\ m.roots = k.roots
       /\ m.snap = k.snap /\ m.report = k.report /\ m.task = {t} /\ m.node = k.node
       /\ m.row = k.row
  BY <1>1, <1>6, <1>7, <1>8 DEF CallType
<1>11. t \in DOMAIN k.snap
  BY <1>8
<1>12. CallOK(m)'
  BY <1>5, <1>9, <1>10, <1>11 DEF CallOK
<1>13. call' = [call EXCEPT ![c] = m]
  BY <1>7 DEF CancelTask, CInv
<1>14. QED
  BY <1>4, <1>12, <1>13, Moves

LEMMA ReportedStep ==
  ASSUME CInv, NEW c \in Call, Reported(c)
  PROVE  CInv'
<1> DEFINE m == [call[c] EXCEPT !.pc = "reported"]
<1>1. CallOK(call[c]) /\ call[c] \in CallType
  BY DEF CInv, CallOK
<1>2. /\ m \in CallType /\ m.pc = "reported" /\ m.snap = call[c].snap
      /\ m.report = call[c].report /\ m.task = call[c].task
  BY <1>1 DEF CallType
<1>3. CallOK(m)
  BY <1>1, <1>2 DEF CallOK
<1>4. call' = [call EXCEPT ![c] = m] /\ UNCHANGED <<rows, budget>>
  BY DEF Reported, CInv
<1> HIDE DEF m
<1>5. QED
  BY <1>3, <1>4, Remembers

LEMMA UpdateNodeStep ==
  ASSUME CInv, NEW c \in Call, NEW n \in Node, NEW edit \in Edits, UpdateNode(c, n, edit)
  PROVE  CInv'
<1> DEFINE m == [NoCall EXCEPT !.pc = "update", !.node = n, !.edit = edit, !.row = {node[n]}]
<1>1. CallOK(NoCall) /\ NoCall \in CallType
  BY NoCallOK DEF CallOK
<1>2. node[n] \in Row
  BY DEF CInv, RowsOK
<1>3. /\ m \in CallType /\ m.pc = "update" /\ m.node = n /\ m.row = {node[n]}
      /\ m.snap = NoCall.snap /\ m.report = NoCall.report /\ m.task = NoCall.task
  BY <1>1, <1>2 DEF CallType
<1>4. CallOK(m)
  BY <1>1, <1>2, <1>3 DEF CallOK
<1>5. budget' \in [calls : 0 .. MaxCalls, faults : 0 .. MaxFaults]
  BY Spending DEF UpdateNode, Begin
<1>6. call' = [call EXCEPT ![c] = m] /\ UNCHANGED rows
  BY DEF UpdateNode, Begin
<1> HIDE DEF m
<1>7. QED
  BY <1>4, <1>5, <1>6, Remembers

\* The row a request writes, read from its memory.
LEMMA RowWritten ==
  ASSUME NEW c \in Call, WriteNode(c)
  PROVE  LET q == Edited(CHOOSE r \in call[c].row : TRUE, call[c].edit)
         IN  node' = IF Writable(q)
                     THEN [node EXCEPT ![call[c].node] = [q EXCEPT !.retired = node[call[c].node].retired]]
                     ELSE node
BY DEF WriteNode

\* The stale row brings back a site only while the site is there, and never a
\* node that was retired.
LEMMA WriteNodeStep ==
  ASSUME CInv, NEW c \in Call, WriteNode(c)
  PROVE  CInv'
<1>1. CallOK(call[c]) /\ call[c].pc = "update"
  BY DEF CInv, WriteNode
<1>2. PICK n \in Node : n = call[c].node
  BY <1>1 DEF CallOK
<1>3. PICK r \in Row : call[c].row = {r}
  BY <1>1 DEF CallOK
<1>4. (CHOOSE q \in call[c].row : TRUE) = r
  BY <1>3
<1> DEFINE row == Edited(r, call[c].edit)
<1>5. row \in Row
  BY DEF Edited, Row
<1>6. /\ call' = [call EXCEPT ![c] = NoCall]
      /\ UNCHANGED <<spec, phase, frozen, site, budget>>
      /\ node' = IF Writable(row) THEN [node EXCEPT ![n] = [row EXCEPT !.retired = node[n].retired]]
                 ELSE node
  <2>1. Edited(CHOOSE q \in call[c].row : TRUE, call[c].edit) = row
    BY <1>4
  <2>2. /\ call' = [call EXCEPT ![c] = NoCall]
        /\ UNCHANGED <<spec, phase, frozen, site, budget>>
    BY DEF WriteNode, Return
  <2> HIDE DEF row
  <2>3. node' = IF Writable(row) THEN [node EXCEPT ![n] = [row EXCEPT !.retired = node[n].retired]]
                ELSE node
    BY <1>2, <2>1, RowWritten
  <2>4. QED
    BY <1>2, <2>1, <2>2, <2>3
<1>7. CASE ~Writable(row)
  <2>1. UNCHANGED rows
    BY <1>6, <1>7 DEF rows
  <2>2. QED
    BY <1>6, <2>1, NoCallOK, Remembers
<1>8. CASE Writable(row)
  <2> DEFINE new == [row EXCEPT !.retired = node[n].retired]
  <2>1. new \in Row /\ new.retired = node[n].retired /\ new.site = row.site
    BY <1>5 DEF CInv, RowsOK, Row
  <2>2. node' = [node EXCEPT ![n] = new]
    BY <1>6, <1>8
  <2> HIDE DEF new, row
  <2>3. RowsOK' /\ \A k \in Node : node'[k] = IF k = n THEN new ELSE node[k]
    BY <1>6, <2>1, <2>2 DEF CInv, RowsOK
  <2>4. \A k \in Node : node'[k].retired = node[k].retired
    BY <2>1, <2>3
  <2>5. \A k \in Node : node'[k].site => site.there
    BY <1>8, <2>1, <2>3 DEF Writable, CInv, NothingDangles
  <2>6. NothingDangles'
    BY <1>6, <2>4, <2>5 DEF CInv, RowsOK, NothingDangles
  <2>7. Onward
    BY <1>6 DEF Onward
  <2>8. QED
    BY <1>6, <2>3, <2>6, <2>7, NoCallOK, Moves
<1>9. QED
  BY <1>7, <1>8

LEMMA SiteStep ==
  ASSUME CInv, CreateSite \/ UpdateSite \/ DeleteSite
  PROVE  CInv'
<1>1. /\ UNCHANGED <<spec, phase, frozen, node, call>>
      /\ site' \in [there : BOOLEAN, roots : SUBSET {"site"}]
      /\ site'.there \/ \A n \in Node : ~node[n].site
  <2>1. site \in [there : BOOLEAN, roots : SUBSET {"site"}]
    BY DEF CInv, RowsOK
  <2>2. CASE CreateSite
    BY <2>2 DEF CreateSite
  <2>3. CASE UpdateSite
    <3>1. PICK S \in SUBSET {"site"} : site' = [site EXCEPT !.roots = S]
      BY <2>3 DEF UpdateSite
    <3>2. site.there = TRUE /\ UNCHANGED <<spec, phase, frozen, node, call>>
      BY <2>1, <2>3 DEF UpdateSite
    <3>3. site' \in [there : BOOLEAN, roots : SUBSET {"site"}] /\ site'.there
      BY <2>1, <3>1, <3>2
    <3>4. QED
      BY <3>2, <3>3
  <2>4. CASE DeleteSite
    BY <2>4 DEF DeleteSite
  <2>5. QED
    BY <2>2, <2>3, <2>4
<1>2. budget' \in [calls : 0 .. MaxCalls, faults : 0 .. MaxFaults]
  BY Spending DEF CreateSite, UpdateSite, DeleteSite, Spend
<1>3. RowsOK' /\ Onward /\ NothingDangles'
  BY <1>1, <1>2 DEF CInv, RowsOK, Onward, NothingDangles
<1>4. QED
  BY <1>1, <1>3, Stays

LEMMA RetireNodeStep ==
  ASSUME CInv, NEW n \in Node, RetireNode(n)
  PROVE  CInv'
<1>1. /\ UNCHANGED <<spec, phase, frozen, site, call>>
      /\ \A t \in DOMAIN phase : t[1] = n => phase[t] \in Terminal
      /\ node' = [node EXCEPT ![n].retired = TRUE]
  BY DEF RetireNode
<1>2. budget' \in [calls : 0 .. MaxCalls, faults : 0 .. MaxFaults]
  BY Spending DEF RetireNode, Spend
<1>3. \A k \in Node : /\ node'[k] \in Row /\ node'[k].site = node[k].site
                      /\ k # n => node'[k] = node[k]
  BY <1>1 DEF CInv, RowsOK, Row
<1>4. node' \in [Node -> Row]
  BY <1>1, <1>3 DEF CInv, RowsOK
<1>5. RowsOK' /\ Onward
  BY <1>1, <1>2, <1>4 DEF CInv, RowsOK, Onward
<1>6. NothingDangles'
  BY <1>1, <1>3 DEF CInv, RowsOK, NothingDangles
<1>7. QED
  BY <1>1, <1>5, <1>6, Stays

LEMMA AgentStep ==
  ASSUME CInv, NEW t \in DOMAIN phase, ClaimTask(t) \/ AcknowledgeTask(t) \/ CompleteTask(t)
  PROVE  CInv'
<1>1. t \in spec \X Plugin
  BY DEF CInv, RowsOK
<1>2. PICK p : /\ p \in Phase \ {"pending"} /\ Move(t, p) /\ phase[t] \notin Terminal
               /\ phase[t] = "cancel_requested" => p \in Terminal
  BY DEF ClaimTask, AcknowledgeTask, CompleteTask, InWork, Phase, Terminal
<1>3. Onward /\ RowsOK' /\ NothingDangles'
  BY <1>1, <1>2, TaskMoves DEF Move
<1>4. QED
  BY <1>2, <1>3, Stays DEF Move

-----------------------------------------------------------------------------
(* The theorems.                                                           *)

LEMMA CheckRunsInit == Init => CInv
<1> SUFFICES ASSUME Init PROVE CInv
  OBVIOUS
<1>1. RowsOK
  BY BoundAssumption DEF Init, RowsOK, Row
<1>2. NothingDangles
  BY DEF Init, NothingDangles
<1>3. DOMAIN call = Call /\ \A c \in Call : call[c] = NoCall
  BY DEF Init
<1>4. QED
  BY <1>1, <1>2, <1>3, NoCallOK DEF CInv

LEMMA CheckRunsStep == CInv /\ [Next]_vars => CInv'
<1> SUFFICES ASSUME CInv, [Next]_vars PROVE CInv'
  OBVIOUS
<1>1. ASSUME NEW c \in Call, NEW S \in SUBSET Node, CreateCheckRun(c, S)
      PROVE  CInv'
  BY <1>1, CreateCheckRunStep
<1>2. ASSUME NEW c \in Call, NEW n \in Node, FreezeRoots(c, n)
      PROVE  CInv'
  BY <1>2, FreezeRootsStep
<1>3. ASSUME NEW c \in Call, StoreCheckRun(c) \/ CancelCheckRun(c) \/ Reported(c) \/ WriteNode(c)
      PROVE  CInv'
  BY <1>3, StoreCheckRunStep, CancelCheckRunStep, ReportedStep, WriteNodeStep
<1>4. ASSUME NEW c \in Call, NEW t \in DOMAIN call[c].snap,
             \/ SkipTask(c, t) \/ SettledMeanwhile(c, t) \/ CancelTask(c, t)
             \/ ReadTask(c, t) \/ CancelTaskFails(c, t)
      PROVE  CInv'
  BY <1>4, CancelStep, CancelTaskStep
<1>5. ASSUME NEW c \in Call, NEW n \in Node, NEW edit \in {"join", "leave", "trust", "revoke", "note"},
             UpdateNode(c, n, edit)
      PROVE  CInv'
  BY <1>5, UpdateNodeStep DEF Edits
<1>6. CASE CreateSite \/ UpdateSite \/ DeleteSite
  BY <1>6, SiteStep
<1>7. ASSUME NEW n \in Node, RetireNode(n)
      PROVE  CInv'
  BY <1>7, RetireNodeStep
<1>8. ASSUME NEW t \in DOMAIN phase, ClaimTask(t) \/ AcknowledgeTask(t) \/ CompleteTask(t)
      PROVE  CInv'
  BY <1>8, AgentStep
<1>9. CASE UNCHANGED vars
  BY <1>9, Untouched, RowsKept, Stays DEF vars, rows
<1>10. QED
  BY <1>1, <1>2, <1>3, <1>4, <1>5, <1>6, <1>7, <1>8, <1>9 DEF Next

\* The inductive invariant: what a request remembers of nodes and tasks is no
\* more than what is still so when it acts on it.
THEOREM CheckRunsInvariance == Spec => []CInv
BY CheckRunsInit, CheckRunsStep, PTL DEF Spec

LEMMA AgreeByInvariant == CInv => RowsAgree /\ ReportTruth
<1> SUFFICES ASSUME CInv PROVE RowsAgree /\ ReportTruth
  OBVIOUS
<1>1. \A c \in Call : /\ call[c].pc \in {"idle", "freeze", "cancel", "reported", "update"}
                      /\ DOMAIN call[c].report \subseteq DOMAIN call[c].snap
                      /\ call[c].report \in Reports
  BY DEF CInv, CallOK, CallType
<1>2. \A c \in Call : \A t \in DOMAIN call[c].report : call[c].report[t] \in Outcome
  BY <1>1 DEF Reports
<1>3. TypeOK
  BY <1>1, <1>2 DEF CInv, RowsOK, TypeOK, Row
<1>4. ReportTruth
  BY DEF CInv, CallOK, ReportTruth, True
<1>5. QED
  BY <1>3, <1>4 DEF CInv, RowsAgree

\* No retired node has work left and no node names a site that is not there,
\* whatever a request had validated or read before (nodes.go, RetireNode;
\* tasks.go, insertTask; sites.go, DeleteSite).
THEOREM TheRowsAgree == Spec => []RowsAgree
BY CheckRunsInvariance, AgreeByInvariant, PTL

\* What the report of a cancellation says of a task is true when it is read and
\* stays true, whoever else moves the task meanwhile (management.go,
\* CancelCheckRun).
THEOREM ReportsAreTrue == Spec => []ReportTruth
BY CheckRunsInvariance, AgreeByInvariant, PTL


-----------------------------------------------------------------------------
(* A run only ever goes on.                                                *)

\* How far a run is, said of its tasks.
Reached ==
  IF \A t \in spec \X Plugin : phase[t] = "pending" THEN 0
  ELSE IF \A t \in spec \X Plugin : phase[t] \in Terminal THEN 2 ELSE 1

LEMMA Counting ==
  ASSUME RowsOK, NEW P
  PROVE  /\ Count(P) \in Nat
         /\ Count(P) = 0 <=> \A t \in spec \X Plugin : phase[t] \notin P
<1> DEFINE found == {t \in DOMAIN phase : phase[t] \in P}
<1>1. IsFiniteSet(spec)
  BY FS_Subset, FiniteAssumption DEF RowsOK
<1>2. IsFiniteSet(spec \X Plugin) /\ DOMAIN phase = spec \X Plugin
  BY <1>1, FS_Product, FiniteAssumption DEF RowsOK
<1>3. IsFiniteSet(found)
  BY <1>2, FS_Subset
<1>4. Cardinality(found) \in Nat /\ (Cardinality(found) = 0 <=> found = {})
  BY <1>3, FS_CardinalityType, FS_EmptySet
<1>5. found = {} <=> \A t \in spec \X Plugin : phase[t] \notin P
  BY <1>2
<1>6. QED
  BY <1>4, <1>5 DEF Count

\* A run without tasks is pending, however its tasks are counted.
LEMMA Ranks == RowsOK => Rank(Aggregate) = Reached
<1> SUFFICES ASSUME RowsOK PROVE Rank(Aggregate) = Reached
  OBVIOUS
<1>1. DOMAIN phase = spec \X Plugin /\ \A t \in spec \X Plugin : phase[t] \in Phase
  BY DEF RowsOK
<1>2. Count(Phase \ Terminal) = 0 <=> \A t \in spec \X Plugin : phase[t] \in Terminal
  BY <1>1, Counting
<1>3. /\ Count(Phase \ {"pending"}) \in Nat
      /\ Count(Phase \ {"pending"}) = 0 <=> \A t \in spec \X Plugin : phase[t] = "pending"
  BY <1>1, Counting
<1>4. CASE spec \X Plugin = {}
  BY <1>1, <1>4 DEF Aggregate, Rank, Reached
<1>5. CASE spec \X Plugin # {} /\ \A t \in spec \X Plugin : phase[t] \in Terminal
  <2>1. Aggregate \in {"canceled", "partial_failed", "completed"}
    BY <1>1, <1>2, <1>5 DEF Aggregate
  <2>2. ~ \A t \in spec \X Plugin : phase[t] = "pending"
    BY <1>5 DEF Terminal
  <2>3. QED
    BY <1>5, <2>1, <2>2 DEF Rank, Reached
<1>6. CASE spec \X Plugin # {} /\ ~ \A t \in spec \X Plugin : phase[t] \in Terminal
  <2>1. Aggregate = IF Count(Phase \ {"pending"}) > 0 THEN "running" ELSE "pending"
    BY <1>1, <1>2, <1>6 DEF Aggregate
  <2>2. QED
    BY <1>3, <1>6, <2>1 DEF Rank, Reached
<1>7. QED
  BY <1>4, <1>5, <1>6

LEMMA RanksNext == RowsOK' => Rank(Aggregate') = Reached'
<1>1. (RowsOK => Rank(Aggregate) = Reached)'
  BY Ranks, PTL
<1>2. QED
  BY <1>1 DEF Rank

\* The tasks go on, and those of a stored run stay its tasks.
LEMMA StepOnward == CInv /\ [Next]_vars => Onward /\ (spec # {} => spec' = spec)
<1> SUFFICES ASSUME CInv, [Next]_vars PROVE Onward /\ (spec # {} => spec' = spec)
  OBVIOUS
<1>1. ASSUME UNCHANGED <<spec, phase>> PROVE Onward /\ (spec # {} => spec' = spec)
  BY <1>1 DEF Onward
<1>2. ASSUME NEW c \in Call,
             \/ \E S \in SUBSET Node : CreateCheckRun(c, S)
             \/ \E n \in Node : FreezeRoots(c, n)
             \/ CancelCheckRun(c) \/ Reported(c) \/ WriteNode(c)
             \/ \E n \in Node, edit \in {"join", "leave", "trust", "revoke", "note"} :
                  UpdateNode(c, n, edit)
      PROVE  UNCHANGED <<spec, phase>>
  BY <1>2 DEF CreateCheckRun, FreezeRoots, CancelCheckRun, Reported, WriteNode, UpdateNode, rows
<1>3. ASSUME NEW c \in Call, StoreCheckRun(c)
      PROVE  Onward /\ (spec # {} => spec' = spec)
  BY <1>3 DEF StoreCheckRun, Insertable, Onward
<1>4. ASSUME NEW c \in Call, NEW t \in DOMAIN call[c].snap,
             SkipTask(c, t) \/ SettledMeanwhile(c, t) \/ ReadTask(c, t) \/ CancelTaskFails(c, t)
      PROVE  UNCHANGED <<spec, phase>>
  BY <1>4 DEF SkipTask, SettledMeanwhile, ReadTask, CancelTaskFails, rows
<1>5. ASSUME NEW c \in Call, NEW t \in DOMAIN call[c].snap, CancelTask(c, t)
      PROVE  Onward /\ (spec # {} => spec' = spec)
  <2>1. t \in spec \X Plugin
    BY DEF CInv, CallOK
  <2>2. PICK p \in {"canceled", "cancel_requested"} :
          phase' = [phase EXCEPT ![t] = p] /\ phase[t] \in {"pending", "claimed", "running"}
    BY <1>5 DEF CancelTask
  <2>3. spec' = spec
    BY <1>5 DEF CancelTask
  <2>4. QED
    BY <2>1, <2>2, <2>3 DEF Onward, CInv, RowsOK, Phase, Terminal
<1>6. CASE CreateSite \/ UpdateSite \/ DeleteSite \/ \E n \in Node : RetireNode(n)
  BY <1>1, <1>6 DEF CreateSite, UpdateSite, DeleteSite, RetireNode
<1>7. ASSUME NEW t \in DOMAIN phase, ClaimTask(t) \/ AcknowledgeTask(t) \/ CompleteTask(t)
      PROVE  Onward /\ (spec # {} => spec' = spec)
  <2>1. t \in spec \X Plugin
    BY DEF CInv, RowsOK
  <2>2. PICK p : /\ p \in Phase \ {"pending"} /\ Move(t, p) /\ phase[t] \notin Terminal
                 /\ phase[t] = "cancel_requested" => p \in Terminal
    BY <1>7 DEF ClaimTask, AcknowledgeTask, CompleteTask, InWork, Phase, Terminal
  <2>3. QED
    BY <2>1, <2>2 DEF Move, Onward, CInv, RowsOK
<1>8. CASE UNCHANGED vars
  BY <1>1, <1>8 DEF vars
<1>9. QED
  BY <1>1, <1>2, <1>3, <1>4, <1>5, <1>6, <1>7, <1>8 DEF Next

LEMMA RunStep ==
  CInv /\ CInv' /\ [Next]_vars
  => (spec # {} => /\ Rank(Aggregate') >= Rank(Aggregate)
                   /\ Rank(Aggregate) = 2 => Aggregate' = Aggregate)
<1> SUFFICES ASSUME CInv, CInv', [Next]_vars, spec # {}
             PROVE  /\ Rank(Aggregate') >= Rank(Aggregate)
                    /\ Rank(Aggregate) = 2 => Aggregate' = Aggregate
  OBVIOUS
<1>1. /\ Rank(Aggregate) = Reached /\ Rank(Aggregate') = Reached'
  BY Ranks, RanksNext DEF CInv
<1>2. Onward /\ spec' = spec
  BY StepOnward
<1>3. phase \in [spec \X Plugin -> Phase] /\ phase' \in [spec \X Plugin -> Phase]
  BY <1>2 DEF CInv, RowsOK
<1>4. \A t \in spec \X Plugin : /\ phase[t] \in Terminal => phase'[t] = phase[t]
                                /\ phase[t] # "pending" => phase'[t] # "pending"
  BY <1>2 DEF Onward
<1>5. CASE \A t \in spec \X Plugin : phase[t] \in Terminal
  <2>1. phase' = phase
    BY <1>3, <1>4, <1>5
  <2>2. Aggregate' = Aggregate
    BY <2>1 DEF Aggregate, Count
  <2>3. QED
    BY <1>1, <2>2 DEF Reached
<1>6. CASE ~ \A t \in spec \X Plugin : phase[t] \in Terminal
  <2>1. Reached \in {0, 1}
    BY <1>6 DEF Reached
  <2>2. Reached = 1 => Reached' \in {1, 2}
    BY <1>2, <1>4 DEF Reached
  <2>3. Reached' \in {0, 1, 2}
    BY DEF Reached
  <2>4. QED
    BY <1>1, <2>1, <2>2, <2>3
<1>7. QED
  BY <1>5, <1>6

\* A stored run goes from pending to running to its end and stays there,
\* whichever requests and agents move its tasks (checkrun.go, Aggregate).
THEOREM RunsGoOn == Spec => RunOnward
<1>1. CInv /\ CInv' /\ [Next]_vars
      => [spec # {} => /\ Rank(Aggregate') >= Rank(Aggregate)
                       /\ Rank(Aggregate) = 2 => Aggregate' = Aggregate]_vars
  BY RunStep
<1>2. QED
  BY <1>1, CheckRunsInvariance, PTL DEF Spec, RunOnward

-----------------------------------------------------------------------------
(* What an Agent submits, and what the Server makes of it.                 *)

\* The items a plugin may return, sound or not.
CheckItem(Id, Words) ==
  [at : Id, id : Id, text : Words, identified : BOOLEAN, status : ItemStatus \union {""},
   applicable : BOOLEAN, compliant : {"none", "yes", "no"}, error : Text, review : Text]

CheckBody(Id, Words) ==
  [supported : BOOLEAN, detection : Text, applicable : BOOLEAN, error : Text,
   items : SUBSET CheckItem(Id, Words), setBack : BOOLEAN]

Checks(Id, Words) == SUBSET [id : Id, text : Words]

CheckContract(Plugins, Id, Words) == [plugin : Plugins, checks : Checks(Id, Words)]

CheckResult(Plugins, Id, Words) ==
  [plugin : Plugins, state : {"completed", "error"}, error : Text,
   items : SUBSET CheckItem(Id, Words), forward : BOOLEAN]

ActionBody ==
  [admitted : BOOLEAN, error : {"none", "said"}, sound : BOOLEAN, evidence : MutationEvidence,
   host : {"reboots", "stays"}]

-----------------------------------------------------------------------------
\* Normalising an item gives an item, keeps its id and is done once.
LEMMA ItemNormal ==
  ASSUME NEW Id, NEW Words, NEW i \in CheckItem(Id, Words)
  PROVE  /\ NormalizeItem(i) \in CheckItem(Id, Words)
         /\ NormalizeItem(i).id = i.id
         /\ NormalizeItem(i).status # ""
         /\ NormalizeItem(NormalizeItem(i)) = NormalizeItem(i)
<1>1. /\ NormalizeItem(i) \in CheckItem(Id, Words)
      /\ NormalizeItem(i).id = i.id
      /\ NormalizeItem(i).status # ""
  BY DEF NormalizeItem, CheckItem, ItemStatus, Text
<1> QED BY <1>1 DEF NormalizeItem

LEMMA ResultNormal ==
  ASSUME NEW Plugins, NEW Id, NEW Words, NEW r \in CheckResult(Plugins, Id, Words)
  PROVE  /\ Normalized(r) \in CheckResult(Plugins, Id, Words)
         /\ Normalized(r) = [r EXCEPT !.items = {NormalizeItem(i) : i \in r.items}]
         /\ Normalized(Normalized(r)) = Normalized(r)
<1> DEFINE items == {NormalizeItem(i) : i \in r.items}
<1>1. r.items \subseteq CheckItem(Id, Words)
  BY DEF CheckResult
<1>2. items \subseteq CheckItem(Id, Words)
  BY <1>1, ItemNormal
<1>3. {NormalizeItem(i) : i \in items} = items
  <2>1. \A x \in items : NormalizeItem(x) = x
    BY <1>1, ItemNormal
  <2> HIDE DEF items
  <2> QED BY <2>1
<1>4. Normalized(r) = [r EXCEPT !.items = items]
  BY DEF Normalized, CheckResult
<1> HIDE DEF items
<1>5. Normalized(r) \in CheckResult(Plugins, Id, Words) /\ Normalized(r).items = items
  BY <1>2, <1>4 DEF CheckResult
<1>6. Normalized(Normalized(r)) = [Normalized(r) EXCEPT !.items = items]
  BY <1>3, <1>5 DEF Normalized
<1>7. Normalized(Normalized(r)) = Normalized(r)
  BY <1>4, <1>5, <1>6 DEF CheckResult
<1> QED BY <1>4, <1>5, <1>7 DEF items

\* A result that was let through is let through again as it was left, against
\* the same contract and against what the Server stored.
LEMMA ValidAgain ==
  ASSUME NEW Plugins, NEW Id, NEW Words, NEW r \in CheckResult(Plugins, Id, Words),
         NEW expected, ValidateCheckResult(r, expected)
  PROVE  /\ ValidateCheckResult(Normalized(r), expected)
         /\ ValidateCheckResult(Normalized(r), ReplayResultContract(Normalized(r)))
<1> DEFINE n == Normalized(r)
<1>1. n \in CheckResult(Plugins, Id, Words) /\ Normalized(n) = n
  BY ResultNormal
<1>2. n.plugin = r.plugin /\ n.forward = r.forward /\ n.state = r.state /\ n.error = r.error
  BY ResultNormal DEF CheckResult
<1> HIDE DEF n
<1>3. ValidateCheckResult(n, expected)
  <2>1. n.items = Normalized(r).items
    BY DEF n
  <2> QED BY <1>1, <1>2, <2>1 DEF ValidateCheckResult
<1>4. ValidateCheckResult(n, ReplayResultContract(n))
  BY <1>1, <1>3 DEF ValidateCheckResult, ReplayResultContract
<1> QED BY <1>3, <1>4 DEF n

LEMMA ConclusionTypes ==
  ASSUME NEW Id, NEW Words, NEW checks \in Checks(Id, Words),
         NEW status \in {"error", "not_applicable"}, NEW error \in Text
  PROVE  ConclusionItems(checks, status, error) \in SUBSET CheckItem(Id, Words)
<1> SUFFICES ASSUME NEW d \in checks
    PROVE [at |-> d.id, id |-> d.id, text |-> d.text, identified |-> TRUE, status |-> status,
           applicable |-> status = "error", compliant |-> "none",
           error |-> IF status = "error" THEN error ELSE "none", review |-> "none"]
            \in CheckItem(Id, Words)
  BY DEF ConclusionItems
<1> QED BY DEF CheckItem, Checks, Text, ItemStatus

LEMMA ExecuteCheckTypes ==
  ASSUME NEW Plugins, NEW Id, NEW Words, NEW plugin \in Plugins,
         NEW checks \in Checks(Id, Words), NEW body \in CheckBody(Id, Words)
  PROVE  /\ ExecuteCheck(plugin, checks, body) \in CheckResult(Plugins, Id, Words)
         /\ ExecuteCheck(plugin, checks, body).plugin = plugin
         /\ ExecuteCheck(plugin, checks, body).forward = ~body.setBack
<1>1. ASSUME NEW state \in {"completed", "error"}, NEW error \in Text,
             NEW items \in SUBSET CheckItem(Id, Words)
      PROVE  LET r == CheckReport(plugin, body, state, error, items)
             IN /\ r \in CheckResult(Plugins, Id, Words) /\ r.plugin = plugin
                /\ r.forward = ~body.setBack
  BY <1>1 DEF CheckReport, CheckResult, CheckBody
<1>2. ASSUME NEW r \in CheckResult(Plugins, Id, Words)
      PROVE  /\ Invalid(r) \in CheckResult(Plugins, Id, Words)
             /\ Invalid(r).plugin = r.plugin /\ Invalid(r).forward = r.forward
             /\ Normalized(r) \in CheckResult(Plugins, Id, Words)
             /\ Normalized(r).plugin = r.plugin /\ Normalized(r).forward = r.forward
  <2>1. Normalized(r) \in CheckResult(Plugins, Id, Words)
    BY ResultNormal
  <2>2. Normalized(r).plugin = r.plugin /\ Normalized(r).forward = r.forward
    BY ResultNormal DEF CheckResult
  <2> QED BY <2>1, <2>2 DEF Invalid, CheckResult, Text
<1>3. /\ ConclusionItems(checks, "not_applicable", "none") \in SUBSET CheckItem(Id, Words)
      /\ ConclusionItems(checks, "error", body.detection) \in SUBSET CheckItem(Id, Words)
      /\ {i \in body.items : i.id \in Ids(checks)} \in SUBSET CheckItem(Id, Words)
      /\ body.detection \in Text /\ body.error \in Text /\ "none" \in Text
  BY ConclusionTypes DEF CheckBody, Text
<1> QED BY <1>1, <1>2, <1>3 DEF ExecuteCheck

LEMMA TaskCheckTypes ==
  ASSUME NEW Plugins, NEW Id, NEW Words, NEW metadata \in CheckContract(Plugins, Id, Words),
         NEW contract \in CheckContract(Plugins, Id, Words), NEW body \in CheckBody(Id, Words)
  PROVE  /\ ObservedCheck(metadata, contract, body) \in CheckResult(Plugins, Id, Words)
         /\ ObservedCheck(metadata, contract, body).plugin = metadata.plugin
         /\ ObservedCheck(metadata, contract, body).forward = ~body.setBack
<1>1. PICK checks \in Checks(Id, Words), plugin \in Plugins :
        /\ checks = FreezeExecutionContract(metadata, Ids(contract.checks)).checks
        /\ plugin = metadata.plugin
  BY DEF CheckContract, Checks, FreezeExecutionContract
<1>2. /\ ExecuteCheck(plugin, checks, body) \in CheckResult(Plugins, Id, Words)
      /\ ExecuteCheck(plugin, checks, body).plugin = plugin
      /\ ExecuteCheck(plugin, checks, body).forward = ~body.setBack
  BY ExecuteCheckTypes
<1> QED BY <1>1, <1>2 DEF ObservedCheck

\* An error with a code and a message and no items is always let through.
LEMMA ErrorsAreValid ==
  ASSUME NEW Plugins, NEW Id, NEW Words, NEW r \in CheckResult(Plugins, Id, Words), NEW expected,
         r.plugin = expected.plugin, r.forward,
         r.state = "error", r.error = "said", r.items = {}
  PROVE  ValidateCheckResult(r, expected)
<1>1. Normalized(r) = [r EXCEPT !.items = {NormalizeItem(i) : i \in r.items}]
  BY ResultNormal
<1>2. Normalized(r).items = {NormalizeItem(i) : i \in r.items}
  BY <1>1 DEF CheckResult
<1>3. {NormalizeItem(i) : i \in r.items} = {}
  OBVIOUS
<1>4. Normalized(r).items = {}
  BY <1>2, <1>3
<1> QED BY <1>4 DEF ValidateCheckResult, ValidateFailure

\* Whatever a plugin does with the checks it was given (task_worker.go 202,
\* lifecycle.go 16), and also when the plugin is not the one the contract was
\* frozen from, the Server takes the result (result_contract.go 18), and takes
\* it again when it is repeated, if the wall clock was not set back meanwhile.
THEOREM CheckResultsAreAccepted ==
  ASSUME NEW Plugins, NEW Id, NEW Words, NEW metadata \in CheckContract(Plugins, Id, Words),
         NEW contract \in CheckContract(Plugins, Id, Words), NEW body \in CheckBody(Id, Words),
         ~body.setBack
  PROVE  LET r == ExecuteTaskCheck(metadata, contract, body)
         IN  /\ ValidateTaskResult(CheckSubmission(r), contract, {})
             /\ ValidateTaskResult(CheckSubmission(r), contract, {r})
<1> DEFINE expected == ResultContract(contract)
           r == ExecuteTaskCheck(metadata, contract, body)
           observed == ObservedCheck(metadata, contract, body)
<1>1. /\ observed \in CheckResult(Plugins, Id, Words) /\ observed.forward
      /\ observed.plugin = metadata.plugin
  <2> HIDE DEF observed
  <2>1. /\ observed \in CheckResult(Plugins, Id, Words) /\ observed.plugin = metadata.plugin
        /\ observed.forward = ~body.setBack
    BY TaskCheckTypes DEF observed
  <2> QED BY <2>1
<1>2. expected.plugin = contract.plugin
  BY DEF ResultContract
<1> HIDE DEF observed, expected
<1>3. /\ r \in CheckResult(Plugins, Id, Words) /\ ValidateCheckResult(r, expected)
      /\ ValidateCheckResult(r, ReplayResultContract(r))
  <2>1. ASSUME NEW q \in CheckResult(Plugins, Id, Words), q.plugin = contract.plugin, q.forward,
               q.state = "error", q.error = "said", q.items = {}
        PROVE  ValidateCheckResult(q, expected) /\ ValidateCheckResult(q, ReplayResultContract(q))
    <3>1. ReplayResultContract(q).plugin = q.plugin
      BY DEF ReplayResultContract
    <3> QED BY <1>2, <2>1, <3>1, ErrorsAreValid
  <2>2. CASE ~MetadataForExecutionContract(metadata, contract)
    <3>1. r = FailureResult(contract.plugin)
      BY <2>2 DEF ExecuteTaskCheck
    <3>2. /\ FailureResult(contract.plugin) \in CheckResult(Plugins, Id, Words)
          /\ FailureResult(contract.plugin).plugin = contract.plugin
          /\ FailureResult(contract.plugin).forward
          /\ FailureResult(contract.plugin).state = "error"
          /\ FailureResult(contract.plugin).error = "said"
          /\ FailureResult(contract.plugin).items = {}
      BY DEF FailureResult, CheckResult, CheckContract, Text
    <3> HIDE DEF r
    <3> QED BY <2>1, <3>1, <3>2
  <2>3. CASE MetadataForExecutionContract(metadata, contract)
    <3>1. observed.plugin = contract.plugin
      <4>1. contract.plugin = FreezeExecutionContract(metadata, Ids(contract.checks)).plugin
        BY <2>3 DEF MetadataForExecutionContract
      <4> QED BY <1>1, <4>1 DEF FreezeExecutionContract
    <3>2. r = IF ValidateCheckResult(observed, expected) THEN Normalized(observed)
              ELSE Invalid(observed)
      BY <2>3 DEF ExecuteTaskCheck, observed, expected
    <3> HIDE DEF r
    <3>3. CASE ValidateCheckResult(observed, expected)
      <4>1. r = Normalized(observed)
        BY <3>2, <3>3
      <4> QED BY <1>1, <3>3, <4>1, ValidAgain, ResultNormal
    <3>4. CASE ~ValidateCheckResult(observed, expected)
      <4>1. r = Invalid(observed)
        BY <3>2, <3>4
      <4>2. /\ Invalid(observed) \in CheckResult(Plugins, Id, Words)
            /\ Invalid(observed).plugin = contract.plugin /\ Invalid(observed).forward
            /\ Invalid(observed).state = "error" /\ Invalid(observed).error = "said"
            /\ Invalid(observed).items = {}
        BY <1>1, <3>1 DEF Invalid, CheckResult, Text
      <4> QED BY <2>1, <4>1, <4>2
    <3> QED BY <3>3, <3>4
  <2> QED BY <2>2, <2>3
<1>4. r.state \in {"completed", "error"}
  BY <1>3 DEF CheckResult
<1> HIDE DEF r
<1>5. /\ CheckSubmission(r).result = r
      /\ r.state = IF CheckSubmission(r).phase = "succeeded" THEN "completed" ELSE "error"
  BY <1>4 DEF CheckSubmission
<1>6. /\ ValidateTaskResult(CheckSubmission(r), contract, {})
      /\ ValidateTaskResult(CheckSubmission(r), contract, {r})
  BY <1>3, <1>5 DEF ValidateTaskResult, expected
<1> QED BY <1>6 DEF r

\* When the wall clock is set back during a check, the result ends before it
\* started: the Server refuses it (result_contract.go 28), whatever it says, and
\* the Agent submits it again for ever (task_worker.go 303).
THEOREM ClockStepIsRefused ==
  ASSUME NEW Plugins, NEW Id, NEW Words, NEW metadata \in CheckContract(Plugins, Id, Words),
         NEW contract \in CheckContract(Plugins, Id, Words), NEW body \in CheckBody(Id, Words),
         MetadataForExecutionContract(metadata, contract), body.setBack
  PROVE  ~ValidateTaskResult(CheckSubmission(ExecuteTaskCheck(metadata, contract, body)),
                             contract, {})
<1> DEFINE observed == ObservedCheck(metadata, contract, body)
           r == ExecuteTaskCheck(metadata, contract, body)
<1>1. observed \in CheckResult(Plugins, Id, Words) /\ ~observed.forward
  BY TaskCheckTypes
<1> HIDE DEF observed
<1>2. r = IF ValidateCheckResult(observed, ResultContract(contract)) THEN Normalized(observed)
          ELSE Invalid(observed)
  BY DEF ExecuteTaskCheck, observed
<1>3. ~Normalized(observed).forward /\ ~Invalid(observed).forward
  BY <1>1, ResultNormal DEF CheckResult, Invalid
<1> HIDE DEF r
<1>4. ~r.forward
  BY <1>2, <1>3
<1>5. ~ValidateTaskResult(CheckSubmission(r), contract, {})
  BY <1>4 DEF ValidateTaskResult, CheckSubmission, ValidateCheckResult
<1> QED BY <1>5 DEF r

-----------------------------------------------------------------------------
\* The Agent reboots no host that did not come to it, and cannot say what the
\* action left behind.
Unaccountable(contract, body) ==
  /\ contract.action \in {"apply", "rollback"} /\ body.admitted /\ body.error = "none"
  /\ body.evidence.mutation = "named" /\ body.evidence.reconnect = "pending"
  /\ body.host # "reboots" /\ ~(body.evidence.checkpoint /\ body.evidence.versioned)

\* What the Server and the Agent's journal say to a submission.
Taken(submission, contract) ==
  ValidateOperationExecutionResult(submission, contract) /\ ValidateJournalEntry(submission)

\* A result with nothing but the error, of an action given up or refused.
LEMMA BareResults ==
  ASSUME NEW contract, contract.action \in Action, NEW outcome \in {"failed", "canceled"}
  PROVE  /\ Taken([phase |-> outcome, result |-> Output(contract, "said")], contract)
         /\ Output(contract, "said") =
              [of |-> contract, action |-> contract.action, restore |-> "none", apply |-> {},
               rollback |-> {}, verification |-> "none", error |-> "said"]
         /\ ValidateOperationMutationEvidence(Output(contract, "said"), outcome)
<1> DEFINE r == Output(contract, "said")
<1>1. r = [of |-> contract, action |-> contract.action, restore |-> "none", apply |-> {},
           rollback |-> {}, verification |-> "none", error |-> "said"]
  BY DEF Output
<1> HIDE DEF r
<1>2. ValidateOperationMutationEvidence(r, outcome) /\ ~HandoffRefused(r) /\ Outputs(r) = {}
  BY <1>1 DEF ValidateOperationMutationEvidence, HandoffRefused, ReconnectHandoff, Outputs, Action
<1>3. ValidateFailedShape(r) /\ ValidateFailure(r.error)
  BY <1>1, <1>2 DEF ValidateFailedShape, ValidateFailure, Action
<1>4. Taken([phase |-> outcome, result |-> r], contract)
  <2>1. ASSUME NEW s, s.phase = outcome, s.result = r
        PROVE  Taken(s, contract)
    <3>1. r.of = contract /\ r.action = contract.action
      BY <1>1
    <3> QED
      BY <1>2, <1>3, <2>1, <3>1 DEF Taken, ValidateOperationExecutionResult, ValidateJournalEntry
  <2> QED BY <2>1
<1> QED BY <1>1, <1>2, <1>4 DEF r

\* An action given up before it began, interrupted, or canceled
\* (task_worker.go 303): nothing the Server refuses.
THEOREM GiveUpsAreAccepted ==
  ASSUME NEW contract, contract.action \in Action
  PROVE  Taken(Refusal(contract), contract) /\ Taken(CanceledAction(contract), contract)
  BY BareResults DEF Refusal, CanceledAction

ActionResult(contract) ==
  [of : {contract}, action : Action, restore : {"none", "created"},
   apply : SUBSET MutationEvidence, rollback : SUBSET MutationEvidence,
   verification : {"none", "passed", "failed"}, error : {"none", "said"}]

\* The results an action can have: what it produced fits the action.
Result(contract, r) ==
  /\ r \in ActionResult(contract)
  /\ r.of = contract /\ r.action = contract.action /\ contract.action \in Action
  /\ r.restore \in {"none", "created"} /\ (r.restore = "created" => r.action = "create_restore_point")
  /\ r.apply \in SUBSET MutationEvidence /\ (r.apply # {} => r.action = "apply")
  /\ r.rollback \in SUBSET MutationEvidence /\ (r.rollback # {} => r.action = "rollback")
  /\ r.verification \in {"none", "passed", "failed"}
  /\ r.verification # "none" => r.action \in {"verify", "verify_rollback"}
  /\ r.error \in {"none", "said"}

LEMMA NoHandoffRefused ==
  ASSUME NEW contract, NEW r, Result(contract, r)
  PROVE  ~HandoffRefused(r)
  BY DEF HandoffRefused, ReconnectHandoff, Result, Action

LEMMA Failed ==
  ASSUME NEW contract, NEW r, Result(contract, r), r.error = "said", r.verification # "passed",
         r.restore = "none", ValidateOperationMutationEvidence(r, "failed"),
         NEW s, s.phase = "failed", s.result = r
  PROVE  /\ ValidateJournalEntry(s)
         /\ ValidateOperationExecutionResult(s, contract) <=>
              \A e \in r.apply \union r.rollback : e.checkpoint /\ e.versioned
<1>1. ValidateJournalEntry(s)
  BY NoHandoffRefused DEF ValidateJournalEntry
<1>2. ValidateFailedShape(r) <=> \A e \in r.apply \union r.rollback : e.checkpoint /\ e.versioned
  <2>1. CASE r.action = "apply"
    BY <2>1 DEF ValidateFailedShape, ValidateFailure, ValidateFailedEvidence, Result
  <2>2. CASE r.action = "rollback"
    BY <2>2 DEF ValidateFailedShape, ValidateFailure, ValidateFailedEvidence, Result
  <2>3. CASE r.action \in {"verify", "verify_rollback"}
    BY <2>3 DEF ValidateFailedShape, ValidateFailure, Result
  <2>4. CASE r.action = "create_restore_point"
    <3>1. Outputs(r) = {}
      BY <2>4 DEF Outputs, Result
    <3> QED BY <2>4, <3>1 DEF ValidateFailedShape, ValidateFailure, Result
  <2> QED BY <2>1, <2>2, <2>3, <2>4 DEF Result, Action
<1>3. r.of = contract /\ r.action = contract.action
  BY DEF Result
<1> QED BY <1>1, <1>2, <1>3 DEF ValidateOperationExecutionResult

LEMMA Succeeded ==
  ASSUME NEW contract, NEW r, Result(contract, r), r.error = "none",
         r.restore = "created" <=> r.action = "create_restore_point",
         r.apply # {} <=> r.action = "apply",
         r.rollback # {} <=> r.action = "rollback",
         r.action \in {"verify", "verify_rollback"} => r.verification = "passed",
         \A e \in r.apply \union r.rollback : e.reconnect \in {"none", "booted"},
         ValidateOperationMutationEvidence(r, "succeeded"),
         NEW s, s.phase = "succeeded", s.result = r
  PROVE  Taken(s, contract)
<1>1. ValidateJournalEntry(s)
  BY NoHandoffRefused DEF ValidateJournalEntry, ReconnectHandoff, Result, Action
<1>2. \E o \in Outputs(r) : Outputs(r) = {o}
  <2>1. CASE r.action = "apply"
    <3>1. Outputs(r) = {"apply"}
      BY <2>1 DEF Outputs, Result
    <3> QED BY <3>1
  <2>2. CASE r.action = "rollback"
    <3>1. Outputs(r) = {"rollback"}
      BY <2>2 DEF Outputs, Result
    <3> QED BY <3>1
  <2>3. CASE r.action \in {"verify", "verify_rollback"}
    <3>1. Outputs(r) = {"verification"}
      BY <2>3 DEF Outputs, Result
    <3> QED BY <3>1
  <2>4. CASE r.action = "create_restore_point"
    <3>1. Outputs(r) = {"restore_point"}
      BY <2>4 DEF Outputs, Result
    <3> QED BY <3>1
  <2> QED BY <2>1, <2>2, <2>3, <2>4 DEF Result, Action
<1>3. ValidateSucceededShape(r)
  BY <1>2 DEF ValidateSucceededShape, Result, Action
<1>4. r.of = contract /\ r.action = contract.action
  BY DEF Result
<1> QED BY <1>1, <1>3, <1>4 DEF ValidateOperationExecutionResult, Taken

\* What the execution of an action yields.
Executed(contract, body, r) ==
  /\ Result(contract, r)
  /\ r.apply \union r.rollback \subseteq {body.evidence}
  /\ r.error = "said" =>
       /\ r.restore = "none" /\ r.verification # "passed"
       /\ \A e \in r.apply \union r.rollback : e.checkpoint /\ e.versioned
  /\ r.error = "none" =>
       /\ r.restore = "created" <=> r.action = "create_restore_point"
       /\ r.apply # {} <=> r.action = "apply"
       /\ r.rollback # {} <=> r.action = "rollback"
       /\ r.action \in {"verify", "verify_rollback"} => r.verification = "passed"
  /\ r.action \in {"apply", "rollback"} =>
       (r.error = "none" <=> body.admitted /\ body.error = "none")

LEMMA ExecuteYields ==
  ASSUME NEW contract, contract.action \in Action, NEW body \in ActionBody
  PROVE  Executed(contract, body, Execute(contract, body))
<1> DEFINE r == Execute(contract, body)
<1> SUFFICES Executed(contract, body, r)
  OBVIOUS
<1>1. /\ body.admitted \in BOOLEAN /\ body.error \in {"none", "said"} /\ body.sound \in BOOLEAN
      /\ body.evidence \in MutationEvidence
  BY DEF ActionBody
<1>2. ASSUME NEW error \in {"none", "said"}
      PROVE  LET out == Output(contract, error)
             IN /\ out.of = contract /\ out.action = contract.action /\ out.restore = "none"
                /\ out.apply = {} /\ out.rollback = {} /\ out.verification = "none"
                /\ out.error = error /\ out \in ActionResult(contract)
  BY DEF Output, ActionResult
<1>3. CASE ~body.admitted
  <2>1. r = Output(contract, "said")
    BY <1>3 DEF Execute
  <2> HIDE DEF r
  <2> QED BY <1>2, <1>3, <2>1 DEF Executed, Result
<1>4. CASE body.admitted /\ contract.action = "apply"
  <2> DEFINE kept == IF body.error # "none" /\ ~Meaningful(body.evidence) THEN {}
                     ELSE {body.evidence}
  <2>1. r = [Output(contract, body.error) EXCEPT !.apply = kept]
    BY <1>4 DEF Execute
  <2>2. /\ kept \in SUBSET MutationEvidence /\ kept \subseteq {body.evidence}
        /\ body.error = "none" => kept # {}
        /\ body.error = "said" => \A e \in kept : e.checkpoint /\ e.versioned
    BY <1>1 DEF Meaningful
  <2> HIDE DEF r, kept
  <2>3. /\ r.of = contract /\ r.action = contract.action /\ r.restore = "none"
        /\ r.apply = kept /\ r.rollback = {} /\ r.verification = "none" /\ r.error = body.error
        /\ r \in ActionResult(contract)
    BY <1>1, <2>1, <2>2 DEF Output, ActionResult
  <2> QED BY <1>1, <1>4, <2>2, <2>3 DEF Executed, Result
<1>5. CASE body.admitted /\ contract.action = "rollback"
  <2> DEFINE kept == IF body.error # "none" /\ ~Meaningful(body.evidence) THEN {}
                     ELSE {body.evidence}
  <2>1. r = [Output(contract, body.error) EXCEPT !.rollback = kept]
    BY <1>5 DEF Execute
  <2>2. /\ kept \in SUBSET MutationEvidence /\ kept \subseteq {body.evidence}
        /\ body.error = "none" => kept # {}
        /\ body.error = "said" => \A e \in kept : e.checkpoint /\ e.versioned
    BY <1>1 DEF Meaningful
  <2> HIDE DEF r, kept
  <2>3. /\ r.of = contract /\ r.action = contract.action /\ r.restore = "none"
        /\ r.rollback = kept /\ r.apply = {} /\ r.verification = "none" /\ r.error = body.error
        /\ r \in ActionResult(contract)
    BY <1>1, <2>1, <2>2 DEF Output, ActionResult
  <2> QED BY <1>1, <1>5, <2>2, <2>3 DEF Executed, Result
<1>6. CASE body.admitted /\ contract.action = "create_restore_point"
  <2>1. \/ r = Output(contract, "said")
        \/ r = [Output(contract, "none") EXCEPT !.restore = "created"]
    BY <1>1, <1>6 DEF Execute
  <2> HIDE DEF r
  <2>2. /\ r.of = contract /\ r.action = contract.action
        /\ \/ r.restore = "none" /\ r.error = "said"
           \/ r.restore = "created" /\ r.error = "none"
        /\ r.rollback = {} /\ r.apply = {} /\ r.verification = "none"
        /\ r \in ActionResult(contract)
    BY <2>1 DEF Output, ActionResult
  <2> QED BY <1>1, <1>6, <2>2 DEF Executed, Result
<1>7. CASE body.admitted /\ contract.action \in {"verify", "verify_rollback"}
  <2>1. \/ r = Output(contract, "said")
        \/ r = [Output(contract, "none") EXCEPT !.verification = "passed"]
        \/ r = [Output(contract, "said") EXCEPT !.verification = "failed"]
    BY <1>1, <1>7 DEF Execute
  <2> HIDE DEF r
  <2>2. /\ r.of = contract /\ r.action = contract.action /\ r.restore = "none"
        /\ \/ r.verification \in {"none", "failed"} /\ r.error = "said"
           \/ r.verification = "passed" /\ r.error = "none"
        /\ r.rollback = {} /\ r.apply = {}
        /\ r \in ActionResult(contract)
    BY <2>1 DEF Output, ActionResult
  <2> QED BY <1>1, <1>7, <2>2 DEF Executed, Result
<1> QED BY <1>1, <1>3, <1>4, <1>5, <1>6, <1>7 DEF Action

\* What a failed reboot turns the result into.
LEMMA FailedReconnect ==
  ASSUME NEW contract, NEW r, Result(contract, r),
         r.restore = "none", r.verification = "none",
         ValidateOperationMutationEvidence(r, "succeeded"),
         \A e \in r.apply \union r.rollback : e.mutation = "named"
  PROVE  LET s == FailReconnect(r)
         IN  /\ s.phase = "failed" /\ Result(contract, s.result)
             /\ s.result.error = "said" /\ s.result.restore = "none"
             /\ s.result.verification = "none"
             /\ ValidateOperationMutationEvidence(s.result, "failed")
             /\ s.result.apply = r.apply
             /\ s.result.rollback = {[e EXCEPT !.restored = FALSE] : e \in r.rollback}
<1> DEFINE back == {[e EXCEPT !.restored = FALSE] : e \in r.rollback}
           q == [[r EXCEPT !.rollback = back] EXCEPT !.error = "said"]
<1>1. FailReconnect(r) = [phase |-> "failed", result |-> q]
  BY DEF FailReconnect
<1>2. /\ back \in SUBSET MutationEvidence /\ (back # {} <=> r.rollback # {})
      /\ \A b \in back : \E e \in r.rollback : b.mutation = e.mutation /\ b.reconnect = e.reconnect
      /\ \A b \in back : ~b.restored
  <2>1. ASSUME NEW e \in MutationEvidence
        PROVE  LET b == [e EXCEPT !.restored = FALSE]
               IN  /\ b \in MutationEvidence /\ b.mutation = e.mutation /\ b.reconnect = e.reconnect
                   /\ ~b.restored
    BY DEF MutationEvidence
  <2>2. r.rollback \subseteq MutationEvidence
    BY DEF Result
  <2>3. /\ \A b \in back : \E e \in r.rollback : b = [e EXCEPT !.restored = FALSE]
        /\ back # {} <=> r.rollback # {}
    <3>1. \A e \in r.rollback : [e EXCEPT !.restored = FALSE] \in back
      BY Zenon
    <3>2. \A b \in back : \E e \in r.rollback : b = [e EXCEPT !.restored = FALSE]
      BY Zenon
    <3> HIDE DEF back
    <3> QED BY <3>1, <3>2
  <2> HIDE DEF back
  <2>4. ASSUME NEW b \in back
        PROVE  /\ b \in MutationEvidence /\ ~b.restored
               /\ \E e \in r.rollback : b.mutation = e.mutation /\ b.reconnect = e.reconnect
    <3>1. PICK e \in r.rollback : b = [e EXCEPT !.restored = FALSE]
      BY <2>3
    <3> QED BY <2>1, <2>2, <3>1
  <2> QED BY <2>3, <2>4
<1> HIDE DEF back
<1>3. /\ q.of = r.of /\ q.action = r.action /\ q.restore = "none" /\ q.apply = r.apply
      /\ q.rollback = back /\ q.verification = "none" /\ q.error = "said"
      /\ q \in ActionResult(contract)
  BY <1>2 DEF Result, ActionResult
<1> HIDE DEF q
<1>4. Result(contract, q)
  BY <1>2, <1>3 DEF Result
<1>5. ValidateOperationMutationEvidence(q, "failed")
  <2>1. \A e \in q.apply : ValidateMutationState(e.mutation, e.reconnect # "none")
    BY <1>3 DEF ValidateMutationState
  <2>2. \A e \in q.apply : e.reconnect # "none" =>
          /\ q.action = "apply" /\ e.reconnect # "malformed"
          /\ q.rollback = {} /\ q.restore = "none" /\ q.verification = "none"
    BY <1>2, <1>3 DEF ValidateOperationMutationEvidence
  <2>3. \A b \in q.rollback : b.mutation = "named" /\ ~b.restored
    BY <1>2, <1>3
  <2>4. \A b \in q.rollback : ValidateMutationState(b.mutation, TRUE)
    BY <2>3 DEF ValidateMutationState
  <2>5. \A b \in q.rollback : b.reconnect # "none" =>
          /\ q.action = "rollback" /\ b.reconnect # "malformed"
          /\ q.apply = {} /\ q.restore = "none" /\ q.verification = "none"
    BY <1>2, <1>3 DEF ValidateOperationMutationEvidence
  <2> QED
    BY <2>1, <2>2, <2>3, <2>4, <2>5 DEF ValidateOperationMutationEvidence, ValidateMutationState
<1>6. /\ FailReconnect(r).phase = "failed" /\ FailReconnect(r).result = q
  BY <1>1
<1> QED BY <1>3, <1>4, <1>5, <1>6 DEF back

\* What a reboot turns it into.
LEMMA RebootTaken ==
  ASSUME NEW contract, NEW r, Result(contract, r), r.error = "none",
         r.action \in {"apply", "rollback"},
         r.apply # {} <=> r.action = "apply",
         r.rollback # {} <=> r.action = "rollback",
         \A e \in r.apply \union r.rollback : e.mutation = "named",
         ValidateOperationMutationEvidence(r, "succeeded")
  PROVE  Taken(Reconnected(r), contract)
<1>1. ASSUME NEW S \in SUBSET MutationEvidence
      PROVE  /\ Booted(S) \in SUBSET MutationEvidence /\ (Booted(S) # {} <=> S # {})
             /\ \A b \in Booted(S) : b.reconnect = "booted" /\ \E e \in S : b.mutation = e.mutation
  <2>1. ASSUME NEW e \in MutationEvidence
        PROVE  LET b == [e EXCEPT !.reconnect = "booted"]
               IN  b \in MutationEvidence /\ b.mutation = e.mutation /\ b.reconnect = "booted"
    BY DEF MutationEvidence
  <2>2. \A e \in S : [e EXCEPT !.reconnect = "booted"] \in Booted(S)
    BY Zenon DEF Booted
  <2>3. \A b \in Booted(S) : \E e \in S : b = [e EXCEPT !.reconnect = "booted"]
    BY Zenon DEF Booted
  <2>4. ASSUME NEW b \in Booted(S)
        PROVE  /\ b \in MutationEvidence /\ b.reconnect = "booted"
               /\ \E e \in S : b.mutation = e.mutation
    <3>1. PICK e \in S : b = [e EXCEPT !.reconnect = "booted"]
      BY <2>3
    <3> QED BY <2>1, <3>1
  <2> QED BY <2>2, <2>3, <2>4
<1>2. r.restore = "none" /\ r.verification = "none" /\ r \in ActionResult(contract)
      /\ r.apply \in SUBSET MutationEvidence /\ r.rollback \in SUBSET MutationEvidence
  BY DEF Result
<1>3. ASSUME NEW q, Result(contract, q), q.error = "none", q.action = r.action,
             q.restore = "none", q.verification = "none",
             q.apply # {} <=> q.action = "apply", q.rollback # {} <=> q.action = "rollback",
             \A e \in q.apply \union q.rollback : e.reconnect = "booted" /\ e.mutation = "named",
             NEW s, s.phase = "succeeded", s.result = q
      PROVE  Taken(s, contract)
  <2>1. ValidateOperationMutationEvidence(q, "succeeded")
    BY <1>3 DEF ValidateOperationMutationEvidence, ValidateMutationState
  <2> QED BY <1>3, <2>1, Succeeded
<1>4. CASE r.action = "apply"
  <2> DEFINE q == [r EXCEPT !.apply = Booted(r.apply)]
  <2>1. Reconnected(r).phase = "succeeded" /\ Reconnected(r).result = q
    BY <1>4 DEF Reconnected
  <2>2. /\ q.of = r.of /\ q.action = r.action /\ q.restore = r.restore /\ q.apply = Booted(r.apply)
        /\ q.rollback = r.rollback /\ q.verification = r.verification /\ q.error = r.error
        /\ q \in ActionResult(contract)
    BY <1>1, <1>2 DEF ActionResult
  <2> HIDE DEF q
  <2>3. Result(contract, q)
    BY <1>1, <1>2, <1>4, <2>2 DEF Result
  <2>4. \A e \in q.apply \union q.rollback : e.reconnect = "booted" /\ e.mutation = "named"
    BY <1>1, <1>2, <1>4, <2>2
  <2>5. (q.apply # {} <=> q.action = "apply") /\ (q.rollback # {} <=> q.action = "rollback")
    BY <1>1, <1>2, <1>4, <2>2
  <2> QED BY <1>2, <1>3, <2>1, <2>2, <2>3, <2>4, <2>5
<1>5. CASE r.action = "rollback"
  <2> DEFINE q == [r EXCEPT !.rollback = Booted(r.rollback)]
  <2>1. Reconnected(r).phase = "succeeded" /\ Reconnected(r).result = q
    BY <1>5 DEF Reconnected
  <2>2. /\ q.of = r.of /\ q.action = r.action /\ q.restore = r.restore /\ q.apply = r.apply
        /\ q.rollback = Booted(r.rollback) /\ q.verification = r.verification
        /\ q.error = r.error /\ q \in ActionResult(contract)
    BY <1>1, <1>2 DEF ActionResult
  <2> HIDE DEF q
  <2>3. Result(contract, q)
    BY <1>1, <1>2, <1>5, <2>2 DEF Result
  <2>4. \A e \in q.apply \union q.rollback : e.reconnect = "booted" /\ e.mutation = "named"
    BY <1>1, <1>2, <1>5, <2>2
  <2>5. (q.apply # {} <=> q.action = "apply") /\ (q.rollback # {} <=> q.action = "rollback")
    BY <1>1, <1>2, <1>5, <2>2
  <2> QED BY <1>2, <1>3, <2>1, <2>2, <2>3, <2>4, <2>5
<1> QED BY <1>4, <1>5

\* Whatever an operation definition does (operation_execution.go 47), and whether
\* the host reboots or not (task_worker_reconnect.go 43), what the Agent caches is
\* what its journal takes (task_journal.go 126), and the Server takes it
\* (operation_execution_result.go 26), but for one case: an action that ended well
\* and handed over to a reboot, whose evidence has no checkpoint or no version,
\* and whose host does not reboot.  That failure is submitted for ever.
THEOREM ActionsAreAccepted ==
  ASSUME NEW contract, contract.action \in Action, NEW body \in ActionBody
  PROVE  LET s == ExecuteOperationAction(contract, body)
         IN  /\ ValidateJournalEntry(s)
             /\ ValidateOperationExecutionResult(s, contract) <=> ~Unaccountable(contract, body)
<1> DEFINE r == Execute(contract, body)
           outcome == IF r.error = "none" THEN "succeeded" ELSE "failed"
           s == ExecuteOperationAction(contract, body)
<1>1. Executed(contract, body, r)
  BY ExecuteYields
<1>2. s = IF ~ValidateOperationMutationEvidence(r, outcome) THEN Refusal(contract)
          ELSE IF outcome = "failed" \/ (ReconnectHandoff(r) = {} /\ ~HandoffRefused(r))
          THEN [phase |-> outcome, result |-> r]
          ELSE IF HandoffRefused(r) THEN Refusal(contract)
          ELSE CacheReconnectAndReboot(contract, r, body.host)
  BY DEF ExecuteOperationAction
<1> SUFFICES /\ ValidateJournalEntry(s)
             /\ ValidateOperationExecutionResult(s, contract) <=> ~Unaccountable(contract, body)
  OBVIOUS
<1> HIDE DEF r, s
<1>3. /\ body.evidence \in MutationEvidence /\ body.host \in {"reboots", "stays"}
      /\ body.error \in {"none", "said"} /\ body.admitted \in BOOLEAN
  BY DEF ActionBody
<1>4. Result(contract, r) /\ ~HandoffRefused(r) /\ r.error \in {"none", "said"}
      /\ r.action = contract.action
  BY <1>1, NoHandoffRefused DEF Executed, Result
<1>5. ASSUME Unaccountable(contract, body)
      PROVE  /\ r.error = "none" /\ r.apply \union r.rollback = {body.evidence}
             /\ ReconnectHandoff(r) = {body.evidence}
             /\ ValidateOperationMutationEvidence(r, "succeeded")
  <2>1. /\ r.error = "none" /\ r.action \in {"apply", "rollback"}
        /\ body.evidence.mutation = "named" /\ body.evidence.reconnect = "pending"
    BY <1>1, <1>4, <1>5 DEF Executed, Unaccountable
  <2>2. /\ r.apply = (IF r.action = "apply" THEN {body.evidence} ELSE {})
        /\ r.rollback = (IF r.action = "rollback" THEN {body.evidence} ELSE {})
    BY <1>1, <2>1 DEF Executed, Result
  <2>3. r.restore = "none" /\ r.verification = "none"
    BY <1>4, <2>1 DEF Result
  <2>4. ReconnectHandoff(r) = {body.evidence}
    BY <2>1, <2>2 DEF ReconnectHandoff
  <2>5. ValidateOperationMutationEvidence(r, "succeeded")
    BY <2>1, <2>2, <2>3 DEF ValidateOperationMutationEvidence, ValidateMutationState
  <2> QED BY <2>1, <2>2, <2>4, <2>5
<1>6. ASSUME s = Refusal(contract), ~Unaccountable(contract, body)
      PROVE  /\ ValidateJournalEntry(s)
             /\ ValidateOperationExecutionResult(s, contract) <=> ~Unaccountable(contract, body)
  BY <1>6, GiveUpsAreAccepted DEF Taken
<1>7. CASE ~ValidateOperationMutationEvidence(r, outcome)
  BY <1>2, <1>5, <1>6, <1>7
<1>8. CASE ValidateOperationMutationEvidence(r, outcome) /\ r.error = "said"
  <2>1. s = [phase |-> "failed", result |-> r]
    BY <1>2, <1>8
  <2>2. s.phase = "failed" /\ s.result = r
    BY <2>1
  <2>3. r.restore = "none" /\ r.verification # "passed"
        /\ \A e \in r.apply \union r.rollback : e.checkpoint /\ e.versioned
    BY <1>1, <1>8 DEF Executed
  <2>4. ValidateOperationMutationEvidence(r, "failed")
    BY <1>8
  <2>5. ValidateJournalEntry(s) /\ ValidateOperationExecutionResult(s, contract)
    BY <1>4, <1>8, <2>2, <2>3, <2>4, Failed
  <2>6. ~Unaccountable(contract, body)
    BY <1>5, <1>8
  <2> QED BY <2>5, <2>6
<1>9. CASE ValidateOperationMutationEvidence(r, outcome) /\ r.error = "none"
  <2>1. /\ ValidateOperationMutationEvidence(r, "succeeded")
        /\ r.restore = "created" <=> r.action = "create_restore_point"
        /\ r.apply # {} <=> r.action = "apply"
        /\ r.rollback # {} <=> r.action = "rollback"
        /\ r.action \in {"verify", "verify_rollback"} => r.verification = "passed"
        /\ r.apply \union r.rollback \subseteq {body.evidence}
    BY <1>1, <1>9 DEF Executed
  <2>2. CASE ReconnectHandoff(r) = {}
    <3>1. s = [phase |-> "succeeded", result |-> r]
      BY <1>2, <1>4, <1>9, <2>2
    <3>2. s.phase = "succeeded" /\ s.result = r
      BY <3>1
    <3>3. \A e \in r.apply \union r.rollback : e.reconnect = "none"
      BY <1>4, <2>1, <2>2 DEF ReconnectHandoff, Result, Action
    <3>4. Taken(s, contract)
      BY <1>4, <1>9, <2>1, <3>2, <3>3, Succeeded
    <3>5. ~Unaccountable(contract, body)
      BY <1>5, <2>2
    <3> QED BY <3>4, <3>5 DEF Taken
  <2>3. CASE ReconnectHandoff(r) # {}
    <3>1. s = CacheReconnectAndReboot(contract, r, body.host)
      BY <1>2, <1>4, <1>9, <2>3
    <3>2. /\ r.action \in {"apply", "rollback"} /\ ReconnectHandoff(r) = {body.evidence}
          /\ r.apply \union r.rollback = {body.evidence}
      BY <1>4, <2>1, <2>3 DEF ReconnectHandoff, Result, Action
    <3>3. /\ body.admitted /\ body.error = "none" /\ contract.action \in {"apply", "rollback"}
          /\ r.restore = "none" /\ r.verification = "none"
      BY <1>1, <1>4, <1>9, <2>1, <3>2 DEF Executed, Result
    <3>4. body.evidence.mutation = "named" /\ body.evidence.reconnect # "none"
      <4>1. body.evidence.reconnect # "none"
        BY <2>3, <3>2 DEF ReconnectHandoff
      <4> QED
        BY <1>3, <2>1, <3>2, <4>1
        DEF ValidateOperationMutationEvidence, ValidateMutationState, MutationEvidence
    <3>5. CASE body.evidence.reconnect # "pending"
      <4>1. s = Refusal(contract)
        BY <3>1, <3>2, <3>5 DEF CacheReconnectAndReboot
      <4> QED BY <1>6, <3>5, <4>1 DEF Unaccountable
    <3>6. CASE body.evidence.reconnect = "pending" /\ body.host = "reboots"
      <4>1. s = Reconnected(r)
        BY <3>1, <3>2, <3>6 DEF CacheReconnectAndReboot
      <4>2. Taken(Reconnected(r), contract)
        BY <1>4, <1>9, <2>1, <3>2, <3>4, RebootTaken
      <4> QED BY <3>6, <4>1, <4>2 DEF Taken, Unaccountable
    <3>7. CASE body.evidence.reconnect = "pending" /\ body.host # "reboots"
      <4>1. s = FailReconnect(r)
        BY <3>1, <3>2, <3>7 DEF CacheReconnectAndReboot
      <4>2. PICK q : q = s.result
        OBVIOUS
      <4>3. /\ s.phase = "failed" /\ Result(contract, q) /\ q.error = "said"
            /\ q.restore = "none" /\ q.verification = "none"
            /\ ValidateOperationMutationEvidence(q, "failed") /\ q.apply = r.apply
            /\ q.rollback = {[e EXCEPT !.restored = FALSE] : e \in r.rollback}
        BY <1>4, <2>1, <3>2, <3>3, <3>4, <4>1, <4>2, FailedReconnect
      <4>4. (\A e \in q.apply \union q.rollback : e.checkpoint /\ e.versioned)
              <=> body.evidence.checkpoint /\ body.evidence.versioned
        <5>1. LET b == [body.evidence EXCEPT !.restored = FALSE]
              IN  b.checkpoint = body.evidence.checkpoint /\ b.versioned = body.evidence.versioned
          BY <1>3 DEF MutationEvidence
        <5>2. CASE r.rollback = {}
          <6>1. q.rollback = {} /\ q.apply = {body.evidence}
            BY <3>2, <4>3, <5>2
          <6> QED BY <6>1
        <5>3. CASE r.rollback # {}
          <6>1. r.rollback = {body.evidence} /\ r.apply = {}
            BY <2>1, <3>2, <5>3
          <6>2. q.apply = {} /\ q.rollback = {[body.evidence EXCEPT !.restored = FALSE]}
            BY <4>3, <6>1
          <6> QED BY <5>1, <6>2
        <5> QED BY <5>2, <5>3
      <4>5. /\ ValidateJournalEntry(s)
            /\ ValidateOperationExecutionResult(s, contract) <=>
                 \A e \in q.apply \union q.rollback : e.checkpoint /\ e.versioned
        BY <4>2, <4>3, Failed
      <4> QED BY <3>3, <3>4, <3>7, <4>4, <4>5 DEF Unaccountable
    <3> QED BY <3>5, <3>6, <3>7
  <2> QED BY <2>2, <2>3
<1> QED BY <1>4, <1>7, <1>8, <1>9

-----------------------------------------------------------------------------
PlanningBody(Step) ==
  [ends : {"ready", "cut_off", "failed", "not_applicable", "not_passed"}, setBack : BOOLEAN,
   discovery : [versioned : BOOLEAN], precheck : [versioned : BOOLEAN],
   plan : [versioned : BOOLEAN, execution : [versioned : BOOLEAN], steps : SUBSET Step]]

\* A plan the Server can keep: its artifacts have versions, and a run on several
\* nodes has stages it can carry out.
Plannable(body, participants) ==
  /\ body.discovery.versioned /\ body.precheck.versioned
  /\ body.plan.versioned /\ body.plan.execution.versioned
  /\ ExecutionStagesValid(body.plan.steps, participants)

\* Planning that ends early is accepted however it ended (planning.go 42); a plan
\* that is ready is refused when a version is missing (app/tasks.go 220) or, on
\* several nodes, a stage is not sound (stages.go 30): it is submitted for ever,
\* as is any result that ends before it started.
THEOREM PlansAreAccepted ==
  ASSUME NEW Step, NEW body \in PlanningBody(Step), NEW participants
  PROVE  PlanningAccepted(PlanningSubmission(ExecutePlanning(body)), participants) <=>
           /\ ~body.setBack
           /\ body.ends = "ready" => Plannable(body, participants)
<1> DEFINE r == ExecutePlanning(body)
           s == PlanningSubmission(r)
<1>1. s.phase = (IF r.state = "interrupted" THEN "failed" ELSE "succeeded") /\ s.result = r
  BY DEF PlanningSubmission
<1>2. /\ r.state = (IF body.ends = "ready" THEN "awaiting_confirmation"
                    ELSE IF body.ends = "cut_off" THEN "interrupted" ELSE "blocked")
      /\ r.error <=> body.ends \in {"failed", "cut_off"}
      /\ r.block <=> body.ends \in {"failed", "not_applicable", "not_passed"}
      /\ r.forward <=> ~body.setBack
      /\ r.discovery = (IF body.ends = "ready" THEN {body.discovery} ELSE {})
      /\ r.precheck = (IF body.ends = "ready" THEN {body.precheck} ELSE {})
      /\ r.plan = (IF body.ends = "ready" THEN {body.plan} ELSE {})
  BY DEF ExecutePlanning, PlanningBody
<1> SUFFICES PlanningAccepted(s, participants) <=>
               /\ ~body.setBack
               /\ body.ends = "ready" => Plannable(body, participants)
  OBVIOUS
<1> HIDE DEF r, s
<1>3. CASE body.ends = "ready"
  BY <1>1, <1>2, <1>3
  DEF PlanningAccepted, ValidateOperationPlanningResult, ValidatePlanningEvidence,
      ValidOperationArtifact, Plannable
<1>4. CASE body.ends # "ready"
  <2>1. body.ends \in {"cut_off", "failed", "not_applicable", "not_passed"}
    BY <1>4 DEF PlanningBody
  <2>2. r.plan = {} /\ s.result = r
    BY <1>1, <1>2, <1>4
  <2>3. ValidateOperationPlanningResult(s) <=> ~body.setBack
    BY <1>1, <1>2, <2>1 DEF ValidateOperationPlanningResult
  <2> QED BY <1>4, <2>2, <2>3 DEF PlanningAccepted
<1> QED BY <1>3, <1>4

\* Planning that could not begin, was interrupted or canceled is accepted
\* (task_worker.go 340).
THEOREM GivenUpPlansAreAccepted ==
  ASSUME NEW participants
  PROVE  \A s \in {UnavailablePlanning, InterruptedPlanning, CanceledPlanning} :
           PlanningAccepted(s, participants)
  BY DEF UnavailablePlanning, InterruptedPlanning, CanceledPlanning, PlanningSubmission, NoPlan,
     PlanningAccepted, ValidateOperationPlanningResult

\* A check that was interrupted or canceled is accepted, and accepted again.
THEOREM GivenUpChecksAreAccepted ==
  ASSUME NEW Plugins, NEW Id, NEW Words, NEW contract \in CheckContract(Plugins, Id, Words),
         NEW s \in {InterruptedCheck(contract), CanceledCheck(contract)}
  PROVE  ValidateTaskResult(s, contract, {}) /\ ValidateTaskResult(s, contract, {s.result})
<1> DEFINE r == FailureResult(contract.plugin)
<1>1. /\ r \in CheckResult(Plugins, Id, Words) /\ r.plugin = contract.plugin /\ r.forward
      /\ r.state = "error" /\ r.error = "said" /\ r.items = {}
  BY DEF FailureResult, CheckResult, CheckContract, Text
<1>2. s.phase \in {"failed", "canceled"} /\ s.result = r
  BY DEF InterruptedCheck, CanceledCheck
<1> HIDE DEF r
<1>3. ResultContract(contract).plugin = contract.plugin /\ ReplayResultContract(r).plugin = r.plugin
  BY DEF ResultContract, ReplayResultContract
<1>4. /\ ValidateCheckResult(r, ResultContract(contract))
      /\ ValidateCheckResult(r, ReplayResultContract(r))
  BY <1>1, <1>3, ErrorsAreValid
<1> QED BY <1>1, <1>2, <1>4 DEF ValidateTaskResult
-----------------------------------------------------------------------------

LEMMA AgreedValue ==
  ASSUME NEW S, NEW none, NEW x \in S, ~Disputed(S)
  PROVE  Agreed(S, none) = x /\ S = {x}
  <1>1. \A y \in S : y = x
    BY DEF Disputed
  <1> QED BY <1>1 DEF Agreed

LEMMA AgreedNone ==
  ASSUME NEW S, NEW none, none \notin S, Agreed(S, none) # none
  PROVE  ~Disputed(S) /\ \E x \in S : TRUE
  BY DEF Agreed

LEMMA TypesOfEvidence ==
  ASSUME NEW E \in SUBSET Evidence
  PROVE  /\ \A e \in E : e.kind \in Kind \union {"unknown"} /\ Facts(e) \subseteq Fact
         /\ AllFacts(E) \subseteq Fact
  <1>1. ASSUME NEW e \in E
        PROVE  e.kind \in Kind \union {"unknown"} /\ Facts(e) \subseteq Fact
    <2>1. e.kind \in Kind \union {"unknown"} /\ e.participants \in {Nil} \union {Slice(S) : S \in SUBSET Fact}
      BY DEF Evidence
    <2>2. CASE e.participants = Nil
      BY <2>1, <2>2 DEF Facts, Elements, Nil
    <2>3. CASE e.participants # Nil
      <3>1. PICK S \in SUBSET Fact : e.participants = {S}
        BY <2>1, <2>3 DEF Slice
      <3> QED BY <2>1, <3>1 DEF Facts, Elements
    <2> QED BY <2>2, <2>3
  <1> QED BY <1>1 DEF AllFacts, Observed

\* With no finding and no conflict, the claims are unanimous, and the other
\* way round.
LEMMA NoDisputeMeansAgree ==
  ASSUME NEW S, NEW none
  PROVE  ~Disputed(S \ {none}) <=> \A x, y \in S : Agree(x, y, none)
  BY DEF Disputed, Agree

LEMMA ClaimsAgree ==
  ASSUME NEW E \in SUBSET Evidence
  PROVE  /\ ~Disputed(Kinds(E)) <=> \A e, o \in Observed(E) : Agree(e.kind, o.kind, "unknown")
         /\ ~Disputed(LocalRoles(E)) <=> \A e, o \in Observed(E) : Agree(e.role, o.role, "")
         /\ \A k \in Keys(E) :
              /\ ~Disputed(Hostnames(E, k)) <=>
                   \A f, g \in About(E, k) : Agree(f.hostname, g.hostname, "")
              /\ ~Disputed(Roles(E, k)) <=>
                   \A f, g \in About(E, k) : Agree(f.role, g.role, "")
  <1>1. ~Disputed(Kinds(E)) <=> \A e, o \in Observed(E) : Agree(e.kind, o.kind, "unknown")
    BY DEF Kinds, Disputed, Agree
  <1>2. ~Disputed(LocalRoles(E)) <=> \A e, o \in Observed(E) : Agree(e.role, o.role, "")
    BY DEF LocalRoles, Disputed, Agree
  <1>3. ASSUME NEW k \in Keys(E)
        PROVE  ~Disputed(Hostnames(E, k)) <=>
                 \A f, g \in About(E, k) : Agree(f.hostname, g.hostname, "")
    BY DEF Hostnames, Disputed, Agree
  <1>4. ASSUME NEW k \in Keys(E)
        PROVE  ~Disputed(Roles(E, k)) <=>
                 \A f, g \in About(E, k) : Agree(f.role, g.role, "")
    BY DEF Roles, Disputed, Agree
  <1> QED BY <1>1, <1>2, <1>3, <1>4

LEMMA FactsAgree ==
  ASSUME NEW E
  PROVE  (\A k \in Keys(E) : \A f, g \in About(E, k) :
            Agree(f.hostname, g.hostname, "") /\ Agree(f.role, g.role, ""))
         <=> \A f, g \in AllFacts(E) : f.key = g.key =>
               Agree(f.hostname, g.hostname, "") /\ Agree(f.role, g.role, "")
  BY DEF Keys, About

LEMMA OneLocal ==
  ASSUME NEW E
  PROVE  Locals(E) # {} /\ ~Disputed(Locals(E))
         <=> \E l \in AllFacts(E) : l.local /\ \A f \in AllFacts(E) : f.local => f.key = l.key
  <1>1. \A k : k \in Locals(E) <=> \E f \in AllFacts(E) : f.key = k /\ f.local
    BY DEF Locals, Keys, IsLocal, About
  <1>2. Locals(E) # {} /\ ~Disputed(Locals(E)) <=>
          \E k \in Locals(E) : \A y \in Locals(E) : y = k
    BY DEF Disputed
  <1> QED BY <1>1, <1>2

LEMMA ConflictFree ==
  ASSUME NEW E
  PROVE  Conflicts(E) = {} <=>
           /\ ~Disputed(Kinds(E)) /\ ~Disputed(LocalRoles(E))
           /\ ~(TopologyKind(E) # "unknown" /\ Disputed(Locals(E)))
           /\ \A k \in Keys(E) : ~Disputed(Hostnames(E, k)) /\ ~Disputed(Roles(E, k))
  <1> DEFINE A == {c \in {"topology_kind", "local_role", "participants.local"} :
                 \/ c = "topology_kind" /\ Disputed(Kinds(E))
                 \/ c = "local_role" /\ Disputed(LocalRoles(E))
                 \/ c = "participants.local" /\ TopologyKind(E) # "unknown" /\ Disputed(Locals(E))}
             H == {k \in Keys(E) : Disputed(Hostnames(E, k))}
             R == {k \in Keys(E) : Disputed(Roles(E, k))}
  <1>1. Conflicts(E) = {} <=> A = {} /\ H = {} /\ R = {}
    <2>1. Conflicts(E) = A \X {""} \union {"participants.hostname"} \X H \union {"participants.role"} \X R
      BY DEF Conflicts
    <2> HIDE DEF A, H, R
    <2>2. \A S, x : {x} \X S = {} <=> S = {}
      <3>1. ASSUME NEW S, NEW x, NEW y \in S PROVE <<x, y>> \in {x} \X S
        OBVIOUS
      <3> QED BY <3>1
    <2>3. \A S, x : S \X {x} = {} <=> S = {}
      <3>1. ASSUME NEW S, NEW x, NEW y \in S PROVE <<y, x>> \in S \X {x}
        OBVIOUS
      <3> QED BY <3>1
    <2>4. \A S, T, U : S \union T \union U = {} <=> S = {} /\ T = {} /\ U = {}
      OBVIOUS
    <2>5. /\ A \X {""} = {} <=> A = {}
          /\ {"participants.hostname"} \X H = {} <=> H = {}
          /\ {"participants.role"} \X R = {} <=> R = {}
      BY <2>2, <2>3
    <2> DEFINE AX == A \X {""}
               HX == {"participants.hostname"} \X H
               RX == {"participants.role"} \X R
    <2>6. AX \union HX \union RX = {} <=> AX = {} /\ HX = {} /\ RX = {}
      <3> HIDE DEF AX, HX, RX
      <3> QED BY <2>4
    <2> QED BY <2>1, <2>5, <2>6
  <1>2. A = {} <=> /\ ~Disputed(Kinds(E)) /\ ~Disputed(LocalRoles(E))
                   /\ ~(TopologyKind(E) # "unknown" /\ Disputed(Locals(E)))
    OBVIOUS
  <1>3. H = {} <=> \A k \in Keys(E) : ~Disputed(Hostnames(E, k))
    OBVIOUS
  <1>4. R = {} <=> \A k \in Keys(E) : ~Disputed(Roles(E, k))
    OBVIOUS
  <1> HIDE DEF A, H, R
  <1> QED BY <1>1, <1>2, <1>3, <1>4

LEMMA FindingFree ==
  ASSUME NEW E
  PROVE  Findings(E) = {} <=>
           /\ Kinds(E) # {}
           /\ TopologyKind(E) # "unknown" =>
                /\ ~(Cardinality(Keys(E)) < minimumParticipants(TopologyKind(E)))
                /\ Locals(E) # {}
  BY DEF Findings

LEMMA Verdict ==
  ASSUME NEW E
  PROVE  Resolve(E).status = "confirmed" <=>
           Observed(E) # {} /\ Findings(E) = {} /\ Conflicts(E) = {}
  BY DEF Resolve, Nothing

\* A topology is confirmed exactly when the observations are unanimous about
\* one kind: nothing a source says is overruled, whatever the confidence
\* ("confidence never silently overrides conflicting evidence", resolver.go:14),
\* exactly one participant is the Agent's own host, and there are as many
\* participants as the kind needs.
THEOREM ConfirmedMeansUnanimous ==
  ASSUME NEW E \in SUBSET Evidence
  PROVE  Resolve(E).status = "confirmed" <=> \E k \in Kind : Unanimous(E, k)
  <1>1. ASSUME Resolve(E).status = "confirmed"
        PROVE  \E k \in Kind : Unanimous(E, k)
    <2>1. Findings(E) = {} /\ Conflicts(E) = {}
      BY <1>1, Verdict
    <2>2. PICK k \in Kinds(E) : TRUE
      BY <2>1, FindingFree
    <2>3. ~Disputed(Kinds(E))
      BY <2>1, ConflictFree
    <2>4. TopologyKind(E) = k /\ k # "unknown"
      BY <2>2, <2>3, AgreedValue DEF TopologyKind, Kinds
    <2>5. PICK e \in Observed(E) : e.kind = k
      BY <2>2 DEF Kinds
    <2>6. k \in Kind
      BY <2>4, <2>5, TypesOfEvidence DEF Observed
    <2>7. /\ ~(Cardinality(Keys(E)) < minimumParticipants(k))
          /\ Locals(E) # {} /\ ~Disputed(Locals(E))
      BY <2>1, <2>4, FindingFree, ConflictFree
    <2>8. \A o, p \in Observed(E) : Agree(o.kind, p.kind, "unknown") /\ Agree(o.role, p.role, "")
      BY <2>1, ConflictFree, ClaimsAgree
    <2>9. \A f, g \in AllFacts(E) : f.key = g.key =>
            Agree(f.hostname, g.hostname, "") /\ Agree(f.role, g.role, "")
      BY <2>1, ConflictFree, ClaimsAgree, FactsAgree
    <2>10. Unanimous(E, k)
      BY <2>5, <2>7, <2>8, <2>9, OneLocal DEF Unanimous
    <2> QED BY <2>6, <2>10
  <1>2. ASSUME NEW k \in Kind, Unanimous(E, k)
        PROVE  Resolve(E).status = "confirmed"
    <2>1. k # "unknown"
      BY DEF Kind
    <2>2. k \in Kinds(E) /\ Observed(E) # {}
      BY <1>2, <2>1 DEF Unanimous, Kinds
    <2>3. ~Disputed(Kinds(E)) /\ ~Disputed(LocalRoles(E))
      BY <1>2, ClaimsAgree DEF Unanimous
    <2>4. TopologyKind(E) = k
      BY <2>2, <2>3, AgreedValue DEF TopologyKind
    <2>5. Locals(E) # {} /\ ~Disputed(Locals(E))
      BY <1>2, OneLocal DEF Unanimous
    <2>6. \A q \in Keys(E) : ~Disputed(Hostnames(E, q)) /\ ~Disputed(Roles(E, q))
      BY <1>2, ClaimsAgree, FactsAgree DEF Unanimous
    <2>7. Conflicts(E) = {}
      BY <2>3, <2>5, <2>6, ConflictFree
    <2>8. Findings(E) = {}
      BY <1>2, <2>2, <2>4, <2>5, FindingFree DEF Unanimous
    <2> QED BY <2>2, <2>7, <2>8, Verdict
  <1> QED BY <1>1, <1>2

\* A dispute is for good: what contradicts itself in some of the evidence is
\* not confirmed by any evidence added to it (resolver.go, Resolve: "any
\* contradictory positive claim remains visible and fails closed as ambiguous").
THEOREM DisputesStay ==
  ASSUME NEW E \in SUBSET Evidence, NEW F \in SUBSET Evidence, E \subseteq F, Conflicts(E) # {}
  PROVE  Resolve(F).status # "confirmed"
  <1> SUFFICES ASSUME NEW k \in Kind, Unanimous(F, k)
               PROVE  FALSE
    BY ConfirmedMeansUnanimous
  <1>1. Observed(E) \subseteq Observed(F) /\ AllFacts(E) \subseteq AllFacts(F)
    BY DEF Observed, AllFacts
  <1>2. ~Disputed(Kinds(E)) /\ ~Disputed(LocalRoles(E))
    BY <1>1, ClaimsAgree DEF Unanimous
  <1>3. \A q \in Keys(E) : ~Disputed(Hostnames(E, q)) /\ ~Disputed(Roles(E, q))
    <2>1. \A f, g \in AllFacts(E) : f.key = g.key =>
            Agree(f.hostname, g.hostname, "") /\ Agree(f.role, g.role, "")
      BY <1>1 DEF Unanimous
    <2> QED BY <2>1, ClaimsAgree, FactsAgree
  <1>4. ~Disputed(Locals(E))
    <2>1. ~Disputed(Locals(F))
      BY OneLocal DEF Unanimous
    <2>2. Locals(E) \subseteq Locals(F)
      BY <1>1 DEF Locals, Keys, IsLocal, About
    <2> QED BY <2>1, <2>2 DEF Disputed
  <1> QED BY <1>2, <1>3, <1>4, ConflictFree

\* Discovery grants no authority over a peer: a participant is trusted only
\* when an observation proved it to be the Agent's own host, and a confirmed
\* topology trusts one (trust.go, WithParticipantTrust; model.go, Participant).
THEOREM PeersAreUntrusted ==
  ASSUME NEW E \in SUBSET Evidence
  PROVE  /\ \A p \in Resolve(E).participants : p.trust = "local" =>
              \E f \in AllFacts(E) : f.key = p.key /\ f.local
         /\ Resolve(E).status = "confirmed" =>
              \A p, q \in Resolve(E).participants :
                p.trust = "local" /\ q.trust = "local" => p = q
  <1>1. \A p \in Resolve(E).participants :
          \E k \in Keys(E) : p = Participant(E, k)
    BY DEF Resolve, Nothing
  <1>2. ASSUME NEW k \in Keys(E), Participant(E, k).trust = "local"
        PROVE  k \in Locals(E) /\ Participant(E, k).key = k
    BY <1>2 DEF Participant, Trust, Locals
  <1>3. \A k \in Locals(E) : \E f \in AllFacts(E) : f.key = k /\ f.local
    BY DEF Locals, IsLocal, About
  <1>4. \A p \in Resolve(E).participants : p.trust = "local" =>
              \E f \in AllFacts(E) : f.key = p.key /\ f.local
    BY <1>1, <1>2, <1>3
  <1>5. Resolve(E).status = "confirmed" => ~Disputed(Locals(E))
    BY ConfirmedMeansUnanimous, OneLocal DEF Unanimous
  <1>6. ASSUME Resolve(E).status = "confirmed",
               NEW p \in Resolve(E).participants, NEW q \in Resolve(E).participants,
               p.trust = "local", q.trust = "local"
        PROVE  p = q
    <2>1. PICK k \in Keys(E) : p = Participant(E, k)
      BY <1>1
    <2>2. PICK l \in Keys(E) : q = Participant(E, l)
      BY <1>1
    <2>3. k \in Locals(E) /\ l \in Locals(E)
      BY <1>2, <1>6, <2>1, <2>2
    <2>4. k = l
      BY <1>5, <1>6, <2>3 DEF Disputed
    <2> QED BY <2>1, <2>2, <2>4
  <1> QED BY <1>4, <1>6

LEMMA WhatIsSent ==
  ASSUME NEW E, NEW setBack
  PROVE  Submission("succeeded", E, setBack).topology.evidence = Decoded(normalizeEvidence(E))
  <1>1. Resolve(E).evidence = normalizeEvidence(E)
    BY DEF Resolve, Nothing
  <1>3. Sent(Resolve(E)).evidence = Decoded(Resolve(E).evidence)
    BY DEF Resolve, Nothing, Sent
  <1> QED BY <1>1, <1>3 DEF Submission

\* A succeeded discovery is refused by the Server as soon as one source names
\* no participant, as every unreadable nodes.yaml does: the empty list is left
\* out on the wire (model.go:65) and the Server's resolver puts it back
\* (deployment_topology.go:139-146).
THEOREM SilentSourceIsRefused ==
  ASSUME NEW E \in SUBSET Evidence, NEW e \in E, Facts(e) = {}, NEW setBack \in BOOLEAN
  PROVE  ~Accepts(FALSE, Submission("succeeded", E, setBack))
  <1> DEFINE D == Decoded(normalizeEvidence(E))
             n == NormalEvidence(e)
             w == [n EXCEPT !.participants =
                     OmitEmpty(Slice({[f EXCEPT !.addresses = OmitEmpty(@)] : f \in Elements(@)}))]
  <1>1. n.participants = Slice({})
    <2>1. n.participants = Slice({NormalFact(f) : f \in Elements(e.participants)})
      BY DEF NormalEvidence, Evidence
    <2> QED BY <2>1 DEF Facts
  <1>2. w \in D /\ w.participants = Nil
    <2>1. w \in D
      BY DEF Decoded, normalizeEvidence
    <2>2. n \in [DOMAIN e -> {n[x] : x \in DOMAIN e}] /\ "participants" \in DOMAIN e
      BY DEF NormalEvidence, Evidence
    <2>3. w.participants =
            OmitEmpty(Slice({[f EXCEPT !.addresses = OmitEmpty(@)] : f \in Elements(n.participants)}))
      BY <2>2
    <2>4. Elements(n.participants) = {}
      BY <1>1 DEF Slice, Elements
    <2>5. w.participants = OmitEmpty(Slice({}))
      BY <2>3, <2>4
    <2>6. OmitEmpty(Slice({})) = Nil
      BY DEF OmitEmpty, Elements, Slice, Nil
    <2> QED BY <2>1, <2>5, <2>6
  <1>3. Resolve(D).evidence = normalizeEvidence(D)
    BY DEF Resolve, Nothing
  <1>4. w \notin normalizeEvidence(D)
    <2>1. ASSUME NEW d \in D PROVE NormalEvidence(d).participants # Nil
      <3>1. \E m \in normalizeEvidence(E) : d =
              [m EXCEPT !.participants =
                 OmitEmpty(Slice({[f EXCEPT !.addresses = OmitEmpty(@)] : f \in Elements(@)}))]
        BY DEF Decoded
      <3>2. "participants" \in DOMAIN d
        BY <3>1 DEF normalizeEvidence, NormalEvidence, Evidence
      <3>3. NormalEvidence(d).participants = Slice({NormalFact(f) : f \in Elements(d.participants)})
        BY <3>2 DEF NormalEvidence
      <3> QED BY <3>3 DEF Slice, Nil
    <2> QED BY <1>2, <2>1 DEF normalizeEvidence
  <1>5. Submission("succeeded", E, setBack).topology.evidence = D
    BY WhatIsSent
  <1>6. Resolve(D) # Submission("succeeded", E, setBack).topology
    BY <1>2, <1>3, <1>4, <1>5
  <1> QED BY <1>5, <1>6 DEF Accepts

\* What the Agent makes of a canceled discovery is accepted, whatever had been
\* collected and however the clock was set: canceling is what frees an Agent
\* whose result is refused.
THEOREM CancelationIsAccepted ==
  ASSUME NEW E, NEW cancelRequested \in BOOLEAN, NEW setBack \in BOOLEAN
  PROVE  Accepts(cancelRequested, Submission("canceled", E, setBack))
  <1>1. normalizeEvidence({}) = {} /\ Decoded({}) = {} /\ Observed({}) = {}
    BY DEF normalizeEvidence, Decoded, Observed
  <1>2. Resolve({}) = Nothing({}) /\ Nothing({}).evidence = {}
    BY <1>1 DEF Resolve, Nothing
  <1>3. Sent(Nothing({})) = Nothing({})
    BY <1>1, <1>2 DEF Sent, Nothing
  <1>4. Submission("canceled", E, setBack).topology = Nothing({})
    <2>1. Submission("canceled", E, setBack).topology = Sent(Resolve({}))
      BY DEF Submission
    <2> QED BY <1>2, <1>3, <2>1
  <1>5. ValidEvidence({})
    BY DEF ValidEvidence
  <1>6. /\ Submission("canceled", E, setBack).phase = "canceled"
        /\ Submission("canceled", E, setBack).error /\ Submission("canceled", E, setBack).forward
    BY DEF Submission
  <1> DEFINE sub == Submission("canceled", E, setBack)
  <1>7. sub.topology.evidence = {} /\ Resolve(sub.topology.evidence) = sub.topology
    BY <1>2, <1>4
  <1> HIDE DEF sub
  <1> QED BY <1>5, <1>6, <1>7 DEF Accepts, sub

\* Every source names participants, and every participant has an address.
Complete(E) ==
  \A e \in E : Facts(e) # {} /\ \A f \in Facts(e) : Elements(f.addresses) # {}

LEMMA CompleteFact ==
  ASSUME NEW f \in Fact, Elements(f.addresses) # {}
  PROVE  NormalFact(f) = f /\ [f EXCEPT !.addresses = OmitEmpty(@)] = f
  <1>1. f.addresses # Nil
    BY DEF Elements, Nil
  <1>2. PICK A \in SUBSET STRING : f.addresses = {A}
    BY <1>1 DEF Fact, Slice
  <1>3. Slice(Elements(f.addresses)) = f.addresses /\ OmitEmpty(f.addresses) = f.addresses
    BY <1>2 DEF Slice, Elements, OmitEmpty
  <1>4. f = [f EXCEPT !.addresses = f.addresses]
    BY DEF Fact
  <1> QED BY <1>3, <1>4 DEF NormalFact

LEMMA CompleteEvidence ==
  ASSUME NEW e \in Evidence, Complete({e})
  PROVE  /\ NormalEvidence(e) = e
         /\ [e EXCEPT !.participants =
               OmitEmpty(Slice({[f EXCEPT !.addresses = OmitEmpty(@)] : f \in Elements(@)}))] = e
  <1>1. Facts(e) # {} /\ \A f \in Facts(e) : Elements(f.addresses) # {}
    BY DEF Complete
  <1>2. e.participants # Nil
    BY <1>1 DEF Facts, Elements, Nil
  <1>3. PICK S \in SUBSET Fact : e.participants = {S}
    BY <1>2 DEF Evidence, Slice
  <1>4. Facts(e) = S /\ Elements(e.participants) = S
    BY <1>3 DEF Facts, Elements
  <1>5. {NormalFact(f) : f \in S} = S /\ {[f EXCEPT !.addresses = OmitEmpty(@)] : f \in S} = S
    <2>1. \A f \in S : NormalFact(f) = f /\ [f EXCEPT !.addresses = OmitEmpty(@)] = f
      BY <1>1, <1>4, CompleteFact
    <2> QED BY <2>1
  <1>6. Slice(S) = e.participants /\ OmitEmpty(Slice(S)) = e.participants
    BY <1>1, <1>3, <1>4 DEF Slice, OmitEmpty, Elements
  <1>7. e = [e EXCEPT !.participants = e.participants]
    BY DEF Evidence
  <1>8. NormalEvidence(e) = [e EXCEPT !.participants = Slice({NormalFact(f) : f \in S})]
    BY <1>4 DEF NormalEvidence
  <1>9. [e EXCEPT !.participants =
           OmitEmpty(Slice({[f EXCEPT !.addresses = OmitEmpty(@)] : f \in Elements(@)}))]
        = [e EXCEPT !.participants = OmitEmpty(Slice({[f EXCEPT !.addresses = OmitEmpty(@)] : f \in S}))]
    BY <1>4
  <1> QED BY <1>5, <1>6, <1>7, <1>8, <1>9

\* Of the other discoveries only those are refused during which the clock was
\* set back (app/deployment_topology.go:136): when every source names
\* participants with addresses, nothing is lost on the wire, and the Server
\* resolves the evidence to the topology the Agent resolved it to.
THEOREM CompleteSourcesAreAccepted ==
  ASSUME NEW E \in SUBSET Evidence, ValidEvidence(E), Complete(E), NEW setBack \in BOOLEAN
  PROVE  Accepts(FALSE, Submission("succeeded", E, setBack)) <=> ~setBack
  <1>1. \A e \in E : Complete({e})
    BY DEF Complete
  <1>2. normalizeEvidence(E) = E /\ Decoded(E) = E
    <2> DEFINE w(e) == [e EXCEPT !.participants =
               OmitEmpty(Slice({[f EXCEPT !.addresses = OmitEmpty(@)] : f \in Elements(@)}))]
    <2>1. \A e \in E : NormalEvidence(e) = e /\ w(e) = e
      BY <1>1, CompleteEvidence
    <2>2. normalizeEvidence(E) = {NormalEvidence(e) : e \in E} /\ Decoded(E) = {w(e) : e \in E}
      BY DEF normalizeEvidence, Decoded
    <2> HIDE DEF w
    <2> QED BY <2>1, <2>2
  <1>3. Resolve(E).evidence = E
    BY <1>2 DEF Resolve, Nothing
  <1>4. Sent(Resolve(E)) = Resolve(E)
    <2>1. Sent(Resolve(E)) = [Resolve(E) EXCEPT !.evidence = Resolve(E).evidence]
      BY <1>2, <1>3 DEF Sent
    <2>2. [Resolve(E) EXCEPT !.evidence = Resolve(E).evidence] = Resolve(E)
      <3>1. \A a, b, c, d, e, f, g :
              LET r == [status |-> a, kind |-> b, role |-> c, participants |-> d,
                        evidence |-> e, findings |-> f, conflicts |-> g]
              IN  [r EXCEPT !.evidence = r.evidence] = r
        OBVIOUS
      <3>2. \E a, b, c, d, e, f, g :
              Resolve(E) = [status |-> a, kind |-> b, role |-> c, participants |-> d,
                            evidence |-> e, findings |-> f, conflicts |-> g]
        <4>1. CASE Observed(E) = {}
          BY <4>1 DEF Resolve, Nothing
        <4>2. CASE Observed(E) # {}
          <5> DEFINE a == IF Findings(E) = {} /\ Conflicts(E) = {} THEN "confirmed" ELSE "ambiguous"
                     P == {Participant(E, k) : k \in Keys(E)}
                     N == normalizeEvidence(E)
                     r == Agreed(LocalRoles(E), "")
          <5>1. Resolve(E) =
                  [status |-> a, kind |-> TopologyKind(E), role |-> r, participants |-> P,
                   evidence |-> N, findings |-> Findings(E), conflicts |-> Conflicts(E)]
            BY <4>2 DEF Resolve, Nothing
          <5> HIDE DEF a, P, N, r
          <5> QED BY <5>1
        <4> QED BY <4>1, <4>2
      <3> QED BY <3>1, <3>2
    <2> QED BY <2>1, <2>2
  <1>5. Submission("succeeded", E, setBack).topology = Resolve(E)
    BY <1>4 DEF Submission
  <1>6. /\ Submission("succeeded", E, setBack).phase = "succeeded"
        /\ Submission("succeeded", E, setBack).error = FALSE
        /\ Submission("succeeded", E, setBack).forward = ~setBack
    BY DEF Submission
  <1> QED BY <1>3, <1>5, <1>6 DEF Accepts
=============================================================================
