--------------------------- MODULE DeploymentTopology ---------------------------
(***************************************************************************)
(* Deployment topology discovery, a pure algorithm: the Agent's provider   *)
(* reads the candidate nodes.yaml files into evidence, the resolver merges *)
(* the evidence into one topology, the result crosses to the Server as     *)
(* JSON, and the Server accepts it when resolving the evidence again gives *)
(* the very same topology.                                                 *)
(*                                                                         *)
(* A Go slice is {} when it is nil, and {S} when it is not, S being the    *)
(* set of its elements: the resolver sorts every slice, and the Server     *)
(* compares with reflect.DeepEqual, which tells nil from empty.            *)
(***************************************************************************)
EXTENDS Integers, Sequences, FiniteSets

Nil == {}
Slice(S) == {S}
Elements(l) == UNION l

\* omitempty: a slice without elements is left out, and decoded as nil.
OmitEmpty(l) == IF Elements(l) = {} THEN Nil ELSE l

-----------------------------------------------------------------------------
(* Reading nodes.yaml (providers/xrocketnodes).                            *)

\* A line: its indentation, what it says, and the value it gives, if any.
\* "ip" has a value net.ParseIP takes, "badip" one it does not.
Blank(line) == line.says = "blank"
IsMode(line) == line.indent = 0 /\ line.says = "install_mode"

Unread == [mode |-> "", ips |-> {}, nodes |-> -1, failed |-> FALSE]

\* One turn of the scanner: install_mode is unique, "nodes:" opens a block, a
\* line not deeper than it closes the block, and the ips inside are collected.
ScanBlock(p, line) ==
  CASE line.says = "nodes"    -> [p EXCEPT !.nodes = line.indent]
    [] line.says # "nodes" /\ p.nodes >= 0 /\ line.indent <= p.nodes -> [p EXCEPT !.nodes = -1]
    [] line.says = "ip" /\ p.nodes >= 0 /\ line.indent > p.nodes -> [p EXCEPT !.ips = @ \union {line.value}]
    [] line.says = "badip" /\ p.nodes >= 0 /\ line.indent > p.nodes -> [p EXCEPT !.failed = TRUE]
    [] OTHER -> p

ScanLine(p, line) ==
  IF p.failed \/ Blank(line) THEN p
  ELSE IF ~IsMode(line) THEN ScanBlock(p, line)
  ELSE IF line.value = "" \/ p.mode # "" THEN [p EXCEPT !.failed = TRUE]
  ELSE ScanBlock([p EXCEPT !.mode = line.value], line)

parseNodesYAML(lines) ==
  LET p[n \in 0 .. Len(lines)] == IF n = 0 THEN Unread ELSE ScanLine(p[n - 1], lines[n])
      end == p[Len(lines)]
  IN  [end EXCEPT !.failed = @ \/ end.mode = ""]

topologyKind == [single |-> "standalone", dual |-> "dual", cluster |-> "cluster"]

\* Evidence of a source that cannot be read, or whose mode is not known.
Unsupported(id) ==
  [id |-> id, state |-> "unsupported", kind |-> "unknown", role |-> "", participants |-> Nil]

AddressFact(a, local) ==
  [key |-> a, hostname |-> "", addresses |-> Slice({a}), role |-> "", local |-> a \in local]

\* A file is unreadable or too large ("readable" is FALSE), or holds lines;
\* local is empty when the interfaces could not be listed.
Collect(id, file, local) ==
  LET parsed == parseNodesYAML(file.lines) IN
  IF ~file.readable \/ parsed.failed \/ parsed.mode \notin DOMAIN topologyKind
  THEN Unsupported(id)
  ELSE [Unsupported(id) EXCEPT !.state = "observed", !.kind = topologyKind[parsed.mode],
                               !.participants = Slice({AddressFact(a, local) : a \in parsed.ips})]

-----------------------------------------------------------------------------
(* The resolver (resolver.go).                                             *)

NormalFact(f) == [f EXCEPT !.addresses = Slice(Elements(@))]
NormalEvidence(e) ==
  [e EXCEPT !.participants = Slice({NormalFact(f) : f \in Elements(@)})]
normalizeEvidence(E) == {NormalEvidence(e) : e \in E}

Facts(e) == Elements(e.participants)

\* What normalizeEvidence takes: ids and keys are unique, and a source that
\* is not supported claims nothing.
ValidEvidence(E) ==
  /\ \A e, f \in E : e.id = f.id => e = f
  /\ \A e \in E : \A f, g \in Facts(e) : f.key = g.key => f = g
  /\ \A e \in E : e.state = "unsupported" =>
       e.kind = "unknown" /\ e.role = "" /\ Facts(e) = {}

Observed(E) == {e \in E : e.state = "observed"}
Kinds(E) == {e.kind : e \in Observed(E)} \ {"unknown"}
LocalRoles(E) == {e.role : e \in Observed(E)} \ {""}

\* mergeParticipants: the facts that used one key.
AllFacts(E) == UNION {Facts(e) : e \in Observed(E)}
Keys(E) == {f.key : f \in AllFacts(E)}
About(E, k) == {f \in AllFacts(E) : f.key = k}
Hostnames(E, k) == {f.hostname : f \in About(E, k)} \ {""}
Roles(E, k) == {f.role : f \in About(E, k)} \ {""}
IsLocal(E, k) == \E f \in About(E, k) : f.local
Locals(E) == {k \in Keys(E) : IsLocal(E, k)}

Disputed(S) == \E x, y \in S : x # y
\* The one value that is claimed, or the value that stands for none.
Agreed(S, none) == IF S = {} \/ Disputed(S) THEN none ELSE CHOOSE x \in S : TRUE

TopologyKind(E) == Agreed(Kinds(E), "unknown")

\* WithParticipantTrust: only a participant proven to be this host is trusted.
Trust(E, k) == IF IsLocal(E, k) THEN "local" ELSE "untrusted"

Participant(E, k) ==
  [key |-> k, hostname |-> Agreed(Hostnames(E, k), ""), role |-> Agreed(Roles(E, k), ""),
   addresses |-> Slice(UNION {Elements(f.addresses) : f \in About(E, k)}),
   local |-> IsLocal(E, k), trust |-> Trust(E, k),
   evidence |-> {e.id : e \in {o \in Observed(E) : \E f \in Facts(o) : f.key = k}}]

minimumParticipants(kind) ==
  CASE kind = "standalone" -> 1 [] kind \in {"dual", "cluster"} -> 2 [] OTHER -> 0

\* Contradicting claims stay visible: <<field, participant key or "">>.
Conflicts(E) ==
  {c \in {"topology_kind", "local_role", "participants.local"} :
     \/ c = "topology_kind" /\ Disputed(Kinds(E))
     \/ c = "local_role" /\ Disputed(LocalRoles(E))
     \/ c = "participants.local" /\ TopologyKind(E) # "unknown" /\ Disputed(Locals(E))} \X {""}
  \union {"participants.hostname"} \X {k \in Keys(E) : Disputed(Hostnames(E, k))}
  \union {"participants.role"} \X {k \in Keys(E) : Disputed(Roles(E, k))}

\* What the evidence leaves open.
Findings(E) ==
  {c \in {"topology_kind_unresolved", "participants_incomplete", "local_participant_unresolved"} :
     \/ c = "topology_kind_unresolved" /\ Kinds(E) = {}
     \/ /\ c = "participants_incomplete" /\ TopologyKind(E) # "unknown"
        /\ Cardinality(Keys(E)) < minimumParticipants(TopologyKind(E))
     \/ c = "local_participant_unresolved" /\ TopologyKind(E) # "unknown" /\ Locals(E) = {}}

Nothing(E) ==
  [status |-> "unsupported", kind |-> "unknown", role |-> "", participants |-> {},
   evidence |-> normalizeEvidence(E), findings |-> {}, conflicts |-> {}]

Resolve(E) ==
  IF Observed(E) = {} THEN Nothing(E)
  ELSE [Nothing(E) EXCEPT
          !.status = IF Findings(E) = {} /\ Conflicts(E) = {} THEN "confirmed" ELSE "ambiguous",
          !.kind = TopologyKind(E),
          !.role = Agreed(LocalRoles(E), ""),
          !.participants = {Participant(E, k) : k \in Keys(E)},
          !.findings = Findings(E),
          !.conflicts = Conflicts(E)]

-----------------------------------------------------------------------------
(* From the Agent to the Server.                                           *)

\* The evidence the Server decodes. Every other list of a result is either
\* sent when it is empty or nil on both sides.
Decoded(E) ==
  {[e EXCEPT !.participants =
      OmitEmpty(Slice({[f EXCEPT !.addresses = OmitEmpty(@)] : f \in Elements(@)}))] : e \in E}

Sent(topology) == [topology EXCEPT !.evidence = Decoded(@)]

\* executeDeploymentTopology and topologyTerminalSubmission: a discovery that
\* fails, is interrupted or is canceled carries the topology of no evidence.
\* One that ran reads the clock twice and ends before it started when the clock
\* was set back meanwhile; a cancelation reads it once.
Submission(phase, E, setBack) ==
  [phase |-> phase, error |-> phase # "succeeded", forward |-> phase = "canceled" \/ ~setBack,
   topology |-> Sent(Resolve(IF phase = "succeeded" THEN E ELSE {}))]

\* validateDeploymentTopologyTaskResult: a result does not end before it starts,
\* and its evidence must resolve to exactly the submitted topology.
Accepts(cancelRequested, sub) ==
  /\ sub.phase \in {"succeeded", "failed", "canceled"}
  /\ cancelRequested => sub.phase = "canceled"
  /\ sub.forward
  /\ ValidEvidence(sub.topology.evidence)
  /\ Resolve(sub.topology.evidence) = sub.topology
  /\ sub.error <=> sub.phase # "succeeded"

-----------------------------------------------------------------------------
(* What a confirmed topology promises.                                     *)

Kind == {"standalone", "dual", "cluster"}
Fact == [key : STRING, hostname : STRING, role : STRING, local : BOOLEAN,
         addresses : {Nil} \union {Slice(S) : S \in SUBSET STRING}]
Evidence == [id : STRING, state : {"observed", "unsupported"}, kind : Kind \union {"unknown"},
             role : STRING, participants : {Nil} \union {Slice(S) : S \in SUBSET Fact}]

\* Two claims agree when they are the same or one of them is none.
Agree(x, y, none) == x = none \/ y = none \/ x = y

\* Every observation that names a kind names k, no two observations disagree,
\* exactly one participant is this host, and there are enough of them.
Unanimous(E, k) ==
  /\ \E e \in Observed(E) : e.kind = k
  /\ \A e, o \in Observed(E) : Agree(e.kind, o.kind, "unknown") /\ Agree(e.role, o.role, "")
  /\ \A f, g \in AllFacts(E) : f.key = g.key =>
       Agree(f.hostname, g.hostname, "") /\ Agree(f.role, g.role, "")
  /\ \E l \in AllFacts(E) : l.local /\ \A f \in AllFacts(E) : f.local => f.key = l.key
  /\ ~(Cardinality(Keys(E)) < minimumParticipants(k))
====
