---------------------------- MODULE MCSysctlRepair ----------------------------
(* Instances of SysctlRepair for TLC. *)
EXTENDS SysctlRepair

\* One basename in two roots, one of which only procps looks at, and a later one.
Names == {<<0, 1>>, <<4, 1>>, <<0, 2>>}
LegacyName == <<0, 0>>
=============================================================================
