------------------------- MODULE MCBatchConfirmation -------------------------
(* Two runs that write to one node, a third on another, and clients that     *)
(* repeat, reorder and split what they ask for.                              *)
EXTENDS BatchConfirmation, TLC

CONSTANTS r1, r2, r3, n1, n2, f1, f2, f3, f4, b1, b2, k1, k2

MCNodeOf == (r1 :> n1) @@ (r2 :> n1) @@ (r3 :> n2)
MCFindingOf == (r1 :> f1) @@ (r2 :> f2) @@ (r3 :> f3)

Shown(r) == [finding |-> MCFindingOf[r], run |-> r, digest |-> "plan"]

MCRequest ==
  {[batch |-> b1, key |-> k1, members |-> <<Shown(r1), Shown(r2)>>],
   [batch |-> b1, key |-> k1, members |-> <<Shown(r2), Shown(r1)>>],
   [batch |-> b2, key |-> k2, members |-> <<Shown(r3), Shown(r2)>>],
   [batch |-> b2, key |-> k2, members |-> <<Shown(r3)>>],
   [batch |-> b2, key |-> k2,
    members |-> <<[Shown(r3) EXCEPT !.digest = "other"]>>],
   [batch |-> b2, key |-> k2, members |-> <<[Shown(r3) EXCEPT !.finding = f4]>>]}
=============================================================================
