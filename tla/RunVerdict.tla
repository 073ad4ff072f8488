------------------------------ MODULE RunVerdict ------------------------------
(***************************************************************************)
(* What one run of the engine promises about the integration it leaves     *)
(* behind, with no word of how it gets there.  A run edits its output a    *)
(* bounded number of times and then gives one verdict on the output as it  *)
(* stands; from then on neither changes.  A run that dies gives none.      *)
(***************************************************************************)
EXTENDS Integers

CONSTANTS
  Defect,    \* what can be wrong with the output
  Certain,   \* the blocking defects a check that always runs would report
  Optional,  \* those only a check that may be skipped reports
  MaxEdits   \* the most edits a run may make

VARIABLES
  output,   \* the defects of the output
  edits,    \* how often it was edited
  verdict   \* the run's verdict, "none" until there is one

vars == <<output, edits, verdict>>

Verdicts == {"pass", "fail", "needs-human-review", "incomplete"}

\* The verdicts that say nothing false of an output: every one but a request
\* for review speaks of an output free of the certain defects, and "pass" of
\* one free of all blocking defects.
Truthful(v) ==
  /\ v # "needs-human-review" => output \cap Certain = {}
  /\ v = "pass" => output \cap Optional = {}

Init ==
  /\ output \in SUBSET Defect
  /\ edits = 0
  /\ verdict = "none"

Edit ==
  /\ verdict = "none"
  /\ edits < MaxEdits
  /\ output' \in SUBSET Defect
  /\ edits' = edits + 1
  /\ UNCHANGED verdict

Judge ==
  /\ verdict = "none"
  /\ \E v \in Verdicts : Truthful(v) /\ verdict' = v
  /\ UNCHANGED <<output, edits>>

Next == Edit \/ Judge

Spec == Init /\ [][Next]_vars
=============================================================================
