------------------------------ MODULE MCFixLoop ------------------------------
(***************************************************************************)
(* Instances of FixLoop for TLC: one defect of each kind the router treats *)
(* differently, and strategies that undo each other's work.                *)
(***************************************************************************)
EXTENDS FixLoop

MCDir == {"hacs", "sdk"}
MCLint == {"I001", "F821"}
MCStyle == {"W291"}
MCAutoLint == {"I001", "W291"}
MCDirOf == [d \in MCLint \cup MCStyle |-> IF d = "F821" THEN "sdk" ELSE "hacs"]
MCHassfest == {"config_flow", "unsorted"}
MCDockerOnly == {"unsorted"}
MCRouted == MCHassfest

\* Two fixes that undo each other: re-rendering config_flow.py brings the
\* template's import order back.
MCSpill == [h \in MCRouted |-> IF h = "config_flow" THEN {"I001"} ELSE {}]
=============================================================================
