------------------------------ MODULE Cutover ------------------------------
(***************************************************************************)
(* What a migration promises about its cutover.  One table name serves     *)
(* either the original data or the migrated data, and the durable word on  *)
(* the cutover is allowed to be vague only while a statement that changes  *)
(* the answer may have been issued.                                        *)
(***************************************************************************)

VARIABLES serving,   \* whose data the target name serves
          word       \* what the durable record says about it

cutoverVars == <<serving, word>>

Init == serving = "original" /\ word = "original"

(* Before a statement that moves the name is issued, the record gives up   *)
(* its certainty.                                                          *)
Announce == /\ word \in {"original", "migrated"}
            /\ word' = "unsure"
            /\ UNCHANGED serving

(* The name moves only while the record claims nothing of it: a statement  *)
(* may still arrive when a person has been asked.                          *)
Move == /\ word \in {"unsure", "manual"}
        /\ serving' = IF serving = "original" THEN "migrated" ELSE "original"
        /\ UNCHANGED word

(* A record that becomes certain again is right.                           *)
Settle == /\ word = "unsure"
          /\ word' = serving
          /\ UNCHANGED serving

(* Or the record hands the question to a person, for good.                 *)
GiveUp == /\ word \in {"unsure", "migrated"}
          /\ word' = "manual"
          /\ UNCHANGED serving

Next == Announce \/ Move \/ Settle \/ GiveUp

Spec == Init /\ [][Next]_cutoverVars
=============================================================================
