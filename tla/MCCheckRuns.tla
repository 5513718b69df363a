------------------------------ MODULE MCCheckRuns ------------------------------
(* Instances of CheckRuns for TLC, and bounded checks of the topology        *)
(* discovery whose tasks the same management service creates.               *)
EXTENDS CheckRuns, Sequences, TLC

Topology == INSTANCE DeploymentTopology

Symmetric == Permutations(Node) \union Permutations(Call)

-----------------------------------------------------------------------------
Line ==
  [indent : 0 .. 2, says : {"nodes", "badip", "blank", "other"}, value : {""}]
  \union [indent : 0 .. 1, says : {"install_mode"}, value : {"dual", ""}]
  \union [indent : 0 .. 2, says : {"ip"}, value : {"a", "b"}]
File == UNION {[1 .. n -> Line] : n \in 0 .. 3}

\* Line i is read as a member of the last nodes list before it.
InBlock(f, i) ==
  \E j \in 1 .. i - 1 :
    /\ f[j].says = "nodes"
    /\ \A k \in j + 1 .. i : f[k].says # "blank" => f[k].says # "nodes" /\ f[k].indent > f[j].indent

Modes(f) == {i \in DOMAIN f : f[i].says = "install_mode" /\ f[i].indent = 0}

\* The scanner reads a file as a reader of YAML blocks would.
ASSUME ScannerReadsBlocks ==
  \A f \in File :
    LET p == Topology!parseNodesYAML(f)
        bad == \/ Cardinality(Modes(f)) # 1
               \/ \E i \in Modes(f) : f[i].value = ""
               \/ \E i \in DOMAIN f : f[i].says = "badip" /\ InBlock(f, i)
    IN  /\ p.failed <=> bad
        /\ ~bad => p.ips = {f[i].value : i \in {j \in DOMAIN f : f[j].says = "ip" /\ InBlock(f, j)}}

-----------------------------------------------------------------------------
Dual(ips) ==
  <<[indent |-> 0, says |-> "install_mode", value |-> "dual"],
    [indent |-> 0, says |-> "nodes", value |-> ""]>>
  \o [i \in 1 .. Len(ips) |-> [indent |-> 1, says |-> "ip", value |-> ips[i]]]

Sources ==
  {[readable |-> FALSE, lines |-> <<>>]}
  \union [readable : {TRUE}, lines : {Dual(<<>>), Dual(<<"a", "b">>), Dual(<<"a", "b", "c">>)}]

\* Both candidate files, as the provider of the Agent reads them.
Discovered(first, second, local) ==
  {Topology!Collect("00", first, local), Topology!Collect("01", second, local)}

\* A discovery is confirmed when the sources are unanimous, and accepted by the
\* Server only when each of them names participants and the clock was not set
\* back meanwhile; one that was canceled is accepted in any case.
ASSUME DiscoveriesAgree ==
  \A first, second \in Sources, local \in SUBSET {"a", "b"}, setBack \in BOOLEAN :
    LET E == Discovered(first, second, local)
        result == Topology!Resolve(E)
    IN  /\ Topology!ValidEvidence(E)
        /\ result.status = "confirmed" <=> \E k \in Topology!Kind : Topology!Unanimous(E, k)
        /\ Topology!Accepts(FALSE, Topology!Submission("succeeded", E, setBack))
             <=> ~setBack /\ \A e \in E : Topology!Facts(e) # {}
        /\ Topology!Accepts(TRUE, Topology!Submission("canceled", E, setBack))
=============================================================================
