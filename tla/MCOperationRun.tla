---------------------------- MODULE MCOperationRun ----------------------------
(* Instances of OperationRun for TLC. *)
EXTENDS OperationRun, TLC

CONSTANTS r1, r2, w1, w2

Shared == [r \in Run |-> {"target"}]
NoEdges == {}
StageEdges == MissingEdges
NoBarriers == {}
SecondStage == {1}
Symmetry == Permutations(Run) \union Permutations(Handler)
=============================================================================
