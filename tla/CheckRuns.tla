------------------------------- MODULE CheckRuns -------------------------------
(***************************************************************************)
(* Check runs and the nodes and the site they are about. A request names   *)
(* nodes, has the roots each of them trusts frozen, and is stored with one *)
(* task per node and plugin; agents claim and complete the tasks; other    *)
(* requests cancel the run, retire nodes, and edit nodes and the site.     *)
(*                                                                         *)
(* A statement or transaction of the database is one step. What a request  *)
(* read before it is in its memory, and may be stale.                      *)
(***************************************************************************)
EXTENDS Integers, FiniteSets

CONSTANTS
  Node,
  Plugin,    \* plugins the selected checks belong to
  Call,      \* requests that may be under way at the same time
  NoNode,
  MaxCalls,  \* bound: requests
  MaxFaults  \* bound: database errors that reach a request

ASSUME FiniteAssumption == IsFiniteSet(Node) /\ IsFiniteSet(Plugin)
ASSUME NoNodeAssumption == NoNode \notin Node
ASSUME BoundAssumption == MaxCalls \in Nat /\ MaxFaults \in Nat

Task == Node \X Plugin
Phase == {"pending", "claimed", "running", "cancel_requested", "canceled", "succeeded", "failed"}
Terminal == {"canceled", "succeeded", "failed"}
Outcome == {"canceled", "cancel_requested", "already_terminal", "failed", "unsupported"}
\* Roots are trusted for a node itself or for the site it belongs to.
Root == {"node", "site"}

VARIABLES
  spec,   \* the nodes the stored run names; {} if there is none
  phase,  \* tasks: those of the run, by their phase
  frozen, \* the roots in a task's execution contract
  node,   \* nodes: site, trusted roots, retired
  site,   \* the site: is it there, and does it trust a root
  call,   \* what a request is about to do, and what it remembers
  budget

vars == <<spec, phase, frozen, node, site, call, budget>>

NoCall == [pc |-> "idle", nodes |-> {}, roots |-> [n \in {} |-> {}], node |-> NoNode,
           row |-> {}, edit |-> "none", snap |-> [t \in {} |-> ""],
           report |-> [t \in {} |-> ""], task |-> {}]

Init ==
  /\ spec = {} /\ phase = [t \in {} |-> ""] /\ frozen = [t \in {} |-> {}]
  /\ node = [n \in Node |-> [site |-> FALSE, roots |-> {}, retired |-> FALSE]]
  /\ site = [there |-> FALSE, roots |-> {}]
  /\ call = [c \in Call |-> NoCall]
  /\ budget = [calls |-> MaxCalls, faults |-> MaxFaults]

-----------------------------------------------------------------------------
(* The status of a run is that of its tasks.                               *)

Count(P) == Cardinality({t \in DOMAIN phase : phase[t] \in P})

Aggregate ==
  IF DOMAIN phase = {} THEN "pending"
  ELSE IF Count(Phase \ Terminal) = 0
    THEN IF Count({"succeeded", "failed"}) = 0 THEN "canceled"
         ELSE IF Count({"canceled", "failed"}) > 0 THEN "partial_failed" ELSE "completed"
  ELSE IF Count(Phase \ {"pending"}) > 0 THEN "running" ELSE "pending"

-----------------------------------------------------------------------------
(* Requests.                                                               *)

Live(n) == ~node[n].retired
Trusted(n) ==
  node[n].roots \union (IF node[n].site THEN site.roots ELSE {})

Begin(c, m) ==
  /\ call[c].pc \in {"idle", "reported"}
  /\ budget.calls > 0 /\ budget' = [budget EXCEPT !.calls = @ - 1]
  /\ call' = [call EXCEPT ![c] = m]
Fault == budget.faults > 0 /\ budget' = [budget EXCEPT !.faults = @ - 1]
Return(c) == call' = [call EXCEPT ![c] = NoCall]
rows == <<spec, phase, frozen, node, site>>

\* validateCheckRunRequest: every node is there.
CreateCheckRun(c, S) ==
  /\ S # {} /\ \A n \in S : Live(n)
  /\ Begin(c, [NoCall EXCEPT !.pc = "freeze", !.nodes = S])
  /\ UNCHANGED rows

\* frozenTrustedRootsForNode, node after node.
FreezeRoots(c, n) ==
  /\ call[c].pc = "freeze" /\ n \in call[c].nodes \ DOMAIN call[c].roots
  /\ IF Live(n)
     THEN call' = [call EXCEPT ![c].roots =
                     [m \in DOMAIN @ \union {n} |-> IF m = n THEN Trusted(n) ELSE @[m]]]
     ELSE Return(c)
  /\ UNCHANGED <<rows, budget>>

\* A mistake the properties must catch: nodes that were there when the request
\* was validated are taken to be there still.
Insertable_Validated(S) == spec = {} /\ S # {}

\* insertTask: each node is still there.
Insertable(S) == spec = {} /\ \A n \in S : Live(n)

\* A run stored under the key of the request is returned if it was the same
\* request, and is a conflict if it was not.
StoreCheckRun(c) ==
  /\ call[c].pc = "freeze" /\ DOMAIN call[c].roots = call[c].nodes
  /\ IF Insertable(call[c].nodes)
     THEN /\ spec' = call[c].nodes
          /\ phase' = [t \in call[c].nodes \X Plugin |-> "pending"]
          /\ frozen' = [t \in call[c].nodes \X Plugin |-> call[c].roots[t[1]]]
     ELSE UNCHANGED <<spec, phase, frozen>>
  /\ Return(c)
  /\ UNCHANGED <<node, site, budget>>

\* CancelCheckRun: the run as it is now ...
CancelCheckRun(c) ==
  /\ spec # {}
  /\ Begin(c, [NoCall EXCEPT !.pc = "cancel", !.snap = phase])
  /\ UNCHANGED rows

Report(c, t, outcome) ==
  call' = [call EXCEPT ![c].task = {}, ![c].report =
             [u \in DOMAIN @ \union {t} |-> IF u = t THEN outcome ELSE @[u]]]

Open(c) == DOMAIN call[c].snap \ DOMAIN call[c].report

\* ... of which what had ended is left alone.
SkipTask(c, t) ==
  /\ call[c].pc = "cancel" /\ call[c].task = {} /\ t \in Open(c)
  /\ call[c].snap[t] \in Terminal
  /\ Report(c, t, "already_terminal")
  /\ UNCHANGED <<rows, budget>>

\* A mistake the properties must catch: what the request asked for is reported.
OutcomeOf_Snapshot(c, t) ==
  IF call[c].snap[t] = "pending" THEN "canceled" ELSE "cancel_requested"

OutcomeOf(c, t) ==
  IF phase[t] \in {"canceled", "cancel_requested"} THEN phase[t]
  ELSE IF phase[t] \in Terminal THEN "already_terminal" ELSE "unsupported"

\* CancelTask: what ended or was canceled meanwhile is returned as it is, ...
SettledMeanwhile(c, t) ==
  /\ call[c].pc = "cancel" /\ call[c].task = {} /\ t \in Open(c)
  /\ call[c].snap[t] \notin Terminal
  /\ phase[t] \in Terminal \union {"cancel_requested"}
  /\ Report(c, t, OutcomeOf(c, t))
  /\ UNCHANGED <<rows, budget>>

\* ... another is canceled or, in work, asked to stop, ...
CancelTask(c, t) ==
  /\ call[c].pc = "cancel" /\ call[c].task = {} /\ t \in Open(c)
  /\ phase[t] \in {"pending", "claimed", "running"}
  /\ phase' = [phase EXCEPT ![t] = IF @ = "pending" THEN "canceled" ELSE "cancel_requested"]
  /\ call' = [call EXCEPT ![c].task = {t}]
  /\ UNCHANGED <<spec, frozen, node, site, budget>>

\* ... and read again after that.
ReadTask(c, t) ==
  /\ call[c].task = {t}
  /\ Report(c, t, OutcomeOf(c, t))
  /\ UNCHANGED <<rows, budget>>

\* An error, before or after the transaction took effect.
CancelTaskFails(c, t) ==
  /\ call[c].pc = "cancel" /\ t \in Open(c)
  /\ call[c].task = {t} \/ (call[c].task = {} /\ call[c].snap[t] \notin Terminal)
  /\ Fault
  /\ Report(c, t, "failed")
  /\ UNCHANGED rows

Reported(c) ==
  /\ call[c].pc = "cancel" /\ Open(c) = {}
  /\ call' = [call EXCEPT ![c].pc = "reported"]
  /\ UNCHANGED <<rows, budget>>

\* UpdateNode reads the node and, if it is to join the site, the site ...
UpdateNode(c, n, edit) ==
  /\ Live(n)
  /\ edit = "join" => site.there
  /\ Begin(c, [NoCall EXCEPT !.pc = "update", !.node = n, !.edit = edit, !.row = {node[n]}])
  /\ UNCHANGED rows

Edited(row, edit) ==
  CASE edit = "join"   -> [row EXCEPT !.site = TRUE]
    [] edit = "leave"  -> [row EXCEPT !.site = FALSE]
    [] edit = "trust"  -> [row EXCEPT !.roots = {"node"}]
    [] edit = "revoke" -> [row EXCEPT !.roots = {}]
    [] OTHER           -> row

\* nodes.site_id REFERENCES sites.
Writable(row) == row.site => site.there

\* ... and writes the whole row: what others wrote to it meanwhile is lost,
\* except that it was retired.
WriteNode(c) ==
  /\ call[c].pc = "update"
  /\ LET n == call[c].node
         row == Edited(CHOOSE r \in call[c].row : TRUE, call[c].edit)
     IN  node' = IF Writable(row) THEN [node EXCEPT ![n] = [row EXCEPT !.retired = node[n].retired]]
                 ELSE node
  /\ Return(c)
  /\ UNCHANGED <<spec, phase, frozen, site, budget>>

-----------------------------------------------------------------------------
(* Requests of one transaction.                                            *)

Spend == budget.calls > 0 /\ budget' = [budget EXCEPT !.calls = @ - 1]

CreateSite ==
  /\ ~site.there /\ Spend
  /\ \E S \in SUBSET {"site"} : site' = [there |-> TRUE, roots |-> S]
  /\ UNCHANGED <<spec, phase, frozen, node, call>>

UpdateSite ==
  /\ site.there /\ Spend
  /\ \E S \in SUBSET {"site"} : site' = [site EXCEPT !.roots = S]
  /\ UNCHANGED <<spec, phase, frozen, node, call>>

\* Retired nodes count, too.
DeleteSite ==
  /\ site.there /\ \A n \in Node : ~node[n].site
  /\ Spend
  /\ site' = [there |-> FALSE, roots |-> {}]
  /\ UNCHANGED <<spec, phase, frozen, node, call>>

RetireNode(n) ==
  /\ Live(n) /\ Spend
  /\ \A t \in DOMAIN phase : t[1] = n => phase[t] \in Terminal
  /\ node' = [node EXCEPT ![n].retired = TRUE]
  /\ UNCHANGED <<spec, phase, frozen, site, call>>

-----------------------------------------------------------------------------
(* Agents. One that is retired is not let in.                              *)

Move(t, p) ==
  /\ Live(t[1])
  /\ phase' = [phase EXCEPT ![t] = p]
  /\ UNCHANGED <<spec, frozen, node, site, call, budget>>

InWork(n) ==
  {t \in DOMAIN phase : t[1] = n /\ phase[t] \in {"claimed", "running", "cancel_requested"}}

ClaimTask(t) == phase[t] = "pending" /\ InWork(t[1]) = {} /\ Move(t, "claimed")
AcknowledgeTask(t) == phase[t] = "claimed" /\ Move(t, "running")
CompleteTask(t) ==
  /\ t \in InWork(t[1])
  /\ \/ \E p \in {"succeeded", "failed"} : Move(t, p)
     \/ phase[t] = "cancel_requested" /\ Move(t, "canceled")

Next ==
  \/ \E c \in Call :
       \/ \E S \in SUBSET Node : CreateCheckRun(c, S)
       \/ \E n \in Node : FreezeRoots(c, n)
       \/ StoreCheckRun(c) \/ CancelCheckRun(c) \/ Reported(c) \/ WriteNode(c)
       \/ \E t \in DOMAIN call[c].snap :
            \/ SkipTask(c, t) \/ SettledMeanwhile(c, t) \/ CancelTask(c, t)
            \/ ReadTask(c, t) \/ CancelTaskFails(c, t)
       \/ \E n \in Node, edit \in {"join", "leave", "trust", "revoke", "note"} :
            UpdateNode(c, n, edit)
  \/ CreateSite \/ UpdateSite \/ DeleteSite
  \/ \E n \in Node : RetireNode(n)
  \/ \E t \in DOMAIN phase : ClaimTask(t) \/ AcknowledgeTask(t) \/ CompleteTask(t)

Spec == Init /\ [][Next]_vars

-----------------------------------------------------------------------------

TypeOK ==
  /\ spec \subseteq Node
  /\ DOMAIN phase = spec \X Plugin /\ \A t \in DOMAIN phase : phase[t] \in Phase
  /\ DOMAIN frozen = DOMAIN phase /\ \A t \in DOMAIN frozen : frozen[t] \subseteq Root
  /\ node \in [Node -> [site : BOOLEAN, roots : SUBSET {"node"}, retired : BOOLEAN]]
  /\ site \in [there : BOOLEAN, roots : SUBSET {"site"}]
  /\ \A c \in Call :
       /\ call[c].pc \in {"idle", "freeze", "cancel", "reported", "update"}
       /\ DOMAIN call[c].report \subseteq DOMAIN call[c].snap
       /\ \A t \in DOMAIN call[c].report : call[c].report[t] \in Outcome
  /\ budget \in [calls : 0 .. MaxCalls, faults : 0 .. MaxFaults]

\* A retired node has no work left, whatever was validated before it was
\* retired (nodes.go, RetireNode; tasks.go, insertTask), and a node's site is
\* there, whatever an edit of the node had read (sites.go, DeleteSite).
NothingDangles ==
  /\ \A t \in DOMAIN phase : node[t[1]].retired => phase[t] \in Terminal
  /\ \A n \in Node : node[n].site => site.there

\* The report of a cancellation is true when it is read and stays true: what
\* it says was canceled was, what it says had ended had, what it says was asked
\* to stop was; and every task came back in a phase there is a word for
\* (management.go, CancelCheckRun).
ReportTruth ==
  \A c \in Call : \A t \in DOMAIN call[c].report :
    LET said == call[c].report[t] IN
      /\ said = "canceled" => phase[t] = "canceled"
      /\ said = "already_terminal" => phase[t] \in Terminal
      /\ said = "cancel_requested" => phase[t] \in Terminal \union {"cancel_requested"}
      /\ said # "unsupported"

\* The rows agree with one another, whichever requests overlap (nodes.go, tasks.go
\* and sites.go of the store).
RowsAgree == TypeOK /\ NothingDangles

Rank(p) == IF p = "pending" THEN 0 ELSE IF p = "running" THEN 1 ELSE 2

\* A run only ever goes on: pending, running, ended; and how it ended does not
\* change (checkrun.go, Aggregate).
RunOnward ==
  [][spec # {} => /\ Rank(Aggregate') >= Rank(Aggregate)
                  /\ Rank(Aggregate) = 2 => Aggregate' = Aggregate]_vars
=============================================================================
