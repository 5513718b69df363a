--------------------------- MODULE MCLocalLifecycle ---------------------------
(* Instances of LocalLifecycle for TLC. *)
EXTENDS LocalLifecycle
=============================================================================
