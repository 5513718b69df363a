--------------------------- MODULE MCLeaseSupervisor ---------------------------
(* Two instances of LeaseSupervisor for TLC in one state space: a behaviour   *)
(* has its setting from the first state on. A run alone goes through a fault  *)
(* and an end of the process; a contended run, whose releases and other       *)
(* requests overlap, meets a second one that wants its target.                *)
EXTENDS LeaseSupervisor, TLC

CONSTANTS r1, r2, c1, c2

VARIABLE setting

Setting == {"alone", "contended"}

Shared == [r \in Run |-> {"target"}]

Starts == IF setting = "alone" THEN 2 ELSE 3

\* Only the run that is alone meets faults. The contender only ever asks for a
\* lease, one request at a time, and does not end; nobody validates meanwhile.
InSetting ==
  /\ started' <= Starts
  /\ setting = "contended" => budget' = budget /\ ~closed'
  /\ setting = "contended" => \A c \in Caller : call'[c].op # "validate"
  /\ over' \subseteq {r1}
  /\ \A c \in Caller :
       call'[c].run = r2 => setting = "contended" /\ c = c2 /\ call'[c].op = "ensure"
  /\ setting' = setting

SettingInit == Init /\ setting \in Setting
SettingNext == Next /\ InSetting

SettingSpec == SettingInit /\ [][SettingNext]_<<vars, setting>> /\ Fairness
=============================================================================
