------------------------------- MODULE FixLoop -------------------------------
(***************************************************************************)
(* The validate-and-fix loop of engine.pipeline.analyze and the verdict    *)
(* the run ends with.                                                      *)
(*                                                                         *)
(* The emitted output is abstracted to the set `tree` of defects it has    *)
(* now.  V-1 (ruff, once per output directory) and V-2 (hassfest: the      *)
(* structural checks, then the official image when Docker lets it run)     *)
(* report some of them.  V-5 (the fix router) edits the output; an edit    *)
(* can leave new defects in the file it rewrites, so a finding may come    *)
(* back after it was fixed.  Two budgets end the loop: the fix attempts of *)
(* one finding and the fix cycles of the run.  V-4, V-3 and V-7 follow,    *)
(* all results collapse into one run status, and the command line turns    *)
(* the status into an exit code.                                           *)
(***************************************************************************)
EXTENDS Integers

CONSTANTS
  Dir,            \* directories ruff is run on: the HACS integration, the SDK
  Lint,           \* defects ruff reports with a code that is not W...
  Style,          \* defects ruff reports as W...: never blocking
  AutoLint,       \* the lint and style defects `ruff --fix` can repair
  DirOf,          \* the directory each lint or style defect lies in
  Hassfest,       \* defects the V-2 checks report as errors
  DockerOnly,     \* those only the official image reports
  Routed,         \* those the fix router has a strategy for
  Spill,          \* the defects each strategy may leave in the file it rewrites
  HassfestFailed, \* the error V-2 adds when the image fails without naming one
  MaxAttempts,    \* budget.MAX_ATTEMPTS_PER_FINDING (3)
  MaxCycles       \* budget.MAX_FIX_CYCLES (10)

Defect == Lint \cup Style \cup Hassfest

\* budget.finding_key: the identity of a finding from one iteration to the
\* next.  A directory stands for the tool_error of the ruff run over it.
Key == Lint \cup Hassfest \cup Dir \cup {HassfestFailed}

ASSUME BudgetAssumption ==
  /\ MaxAttempts \in Nat
  /\ MaxCycles \in Nat

ASSUME DefectAssumption ==
  /\ AutoLint \subseteq Lint \cup Style
  /\ DirOf \in [Lint \cup Style -> Dir]
  /\ DockerOnly \subseteq Hassfest
  /\ Routed \subseteq Hassfest
  /\ Spill \in [Routed -> SUBSET Defect]

ASSUME DistinctAssumption ==
  /\ Lint \cap Style = {}
  /\ (Lint \cup Style) \cap Hassfest = {}
  /\ Dir \cap Defect = {}
  /\ HassfestFailed \notin Defect \cup Dir

VARIABLES
  pc,         \* where analyze() stands
  tree,       \* the defects the emitted output has now
  report,     \* what the last V-1/V-2 iteration returned
  attempts,   \* FindingTracker.attempts
  cycles,     \* fix_cycles
  unresolved, \* the findings the loop gave up on
  v4, v3, v7, \* quality passed, container result, error lines in the HA log
  summary,    \* the status in runs/<run_id>/summary.json, "none" before it
  exit        \* the exit code of the command line, -1 while it runs

vars == <<pc, tree, report, attempts, cycles, unresolved, v4, v3, v7,
          summary, exit>>

loopVars == <<tree, report, attempts, cycles, unresolved>>
checkVars == <<v4, v3, v7>>

-----------------------------------------------------------------------------
(* What an iteration reports.                                              *)

Report == [lint: SUBSET (Lint \cup Style), down: SUBSET Dir,
           hass: SUBSET (Hassfest \cup {HassfestFailed}), docker: BOOLEAN]

NoReport == [lint |-> {}, down |-> {}, hass |-> {}, docker |-> FALSE]

\* ruff_check.check over each directory; it reports nothing where it fails.
LintIn(down) == {d \in tree \cap (Lint \cup Style) : DirOf[d] \notin down}

\* The official image's findings; failing and naming no error is one.
ImageIn(failed) ==
  (tree \cap DockerOnly)
    \cup {k \in {HassfestFailed} : failed /\ tree \cap DockerOnly = {}}

\* hassfest.validate: the structural checks always run, the image's findings
\* join them when it ran.
HassIn(docker, failed) ==
  (tree \cap (Hassfest \ DockerOnly)) \cup (IF docker THEN ImageIn(failed) ELSE {})

V1Passed == report.down = {} /\ report.lint \cap Lint = {}
V2Passed == report.hass = {}

\* The findings that keep the loop going.
Blocking == (report.lint \cap Lint) \cup report.hass \cup report.down

\* FindingTracker.exhausted
ExhaustedTooLate == {k \in Blocking : attempts[k] > MaxAttempts}
Exhausted == {k \in Blocking : attempts[k] >= MaxAttempts}

\* FindingTracker.record
RecordReset ==
  [k \in Key |-> IF k \in Blocking THEN attempts[k] + 1 ELSE 0]
Record ==
  [k \in Key |-> IF k \in Blocking THEN attempts[k] + 1 ELSE attempts[k]]

-----------------------------------------------------------------------------
Init ==
  /\ pc = "validate"
  /\ tree \in SUBSET Defect
  /\ report = NoReport
  /\ attempts = [k \in Key |-> 0]
  /\ cycles = 0
  /\ unresolved = {}
  /\ v4 = FALSE
  /\ v3 = [ran |-> FALSE, passed |-> "none", mode |-> "skipped"]
  /\ v7 = FALSE
  /\ summary = "none"
  /\ exit = -1

\* One gather of both ruff runs and hassfest.  Nothing edits the output
\* meanwhile, so the three read the same tree.
Validate ==
  /\ pc = "validate"
  /\ \E down \in SUBSET Dir, docker \in BOOLEAN, failed \in BOOLEAN :
        report' = [lint |-> LintIn(down), down |-> down,
                   hass |-> HassIn(docker, failed), docker |-> docker]
  /\ pc' = "decide"
  /\ UNCHANGED <<tree, attempts, cycles, unresolved, checkVars, summary, exit>>

Leave(findings) ==
  /\ unresolved' = findings
  /\ pc' = "rubric"

\* Nothing blocks: the loop ends with nothing unresolved.
CleanIfNoErrorsSeen ==  \* a ruff run that failed counts as one with no errors
  /\ pc = "decide"
  /\ report.lint \cap Lint = {} /\ V2Passed
  /\ Leave({})
  /\ UNCHANGED <<tree, report, attempts, cycles, checkVars, summary, exit>>

Clean ==
  /\ pc = "decide"
  /\ V1Passed /\ V2Passed
  /\ Leave({})
  /\ UNCHANGED <<tree, report, attempts, cycles, checkVars, summary, exit>>

\* A finding survived its fix attempts, or the run is out of cycles.
GiveUp ==
  /\ pc = "decide"
  /\ ~ (V1Passed /\ V2Passed)
  /\ Exhausted # {} \/ cycles >= MaxCycles
  /\ Leave(Blocking)
  /\ UNCHANGED <<tree, report, attempts, cycles, checkVars, summary, exit>>

\* fix_router.route_and_apply.  `ruff --fix` runs in every directory where a
\* repairable finding was reported and repairs some of what is there;
\* `counted` are the hassfest findings a strategy was applied for, whether or
\* not it removed them, and each strategy may leave defects behind.
Targets == {DirOf[d] : d \in report.lint \cap AutoLint}

FixLeavingAfterCap ==  \* the cap is tested after the fix, on findings it changed
  /\ pc = "decide"
  /\ ~ (V1Passed /\ V2Passed)
  /\ Exhausted = {}
  /\ attempts' = Record
  /\ cycles' = cycles + 1
  /\ \E fixed \in SUBSET {d \in tree \cap AutoLint : DirOf[d] \in Targets},
        counted \in SUBSET (report.hass \cap Routed) :
       /\ \E removed \in SUBSET counted,
             added \in SUBSET UNION {Spill[h] : h \in counted} :
             tree' = (tree \ (fixed \cup removed)) \cup added
       /\ IF (fixed = {} /\ counted = {}) \/ cycles + 1 >= MaxCycles
          THEN Leave(Blocking)
          ELSE pc' = "validate" /\ UNCHANGED unresolved
  /\ UNCHANGED <<report, checkVars, summary, exit>>

FixCountingOnlyChanges ==  \* a fix that left the output as it was is free
  /\ pc = "decide"
  /\ ~ (V1Passed /\ V2Passed)
  /\ Exhausted = {}
  /\ cycles < MaxCycles
  /\ \E fixed \in SUBSET {d \in tree \cap AutoLint : DirOf[d] \in Targets},
        counted \in SUBSET (report.hass \cap Routed) :
       /\ \E removed \in SUBSET counted,
             added \in SUBSET UNION {Spill[h] : h \in counted} :
             tree' = (tree \ (fixed \cup removed)) \cup added
       /\ IF fixed = {} /\ counted = {}
          THEN Leave(Blocking)
          ELSE pc' = "validate" /\ UNCHANGED unresolved
  /\ IF tree' = tree THEN UNCHANGED <<attempts, cycles>>
     ELSE attempts' = Record /\ cycles' = cycles + 1
  /\ UNCHANGED <<report, checkVars, summary, exit>>

Fix ==
  /\ pc = "decide"
  /\ ~ (V1Passed /\ V2Passed)
  /\ Exhausted = {}
  /\ cycles < MaxCycles
  /\ attempts' = Record
  /\ cycles' = cycles + 1
  /\ \E fixed \in SUBSET {d \in tree \cap AutoLint : DirOf[d] \in Targets},
        counted \in SUBSET (report.hass \cap Routed) :
       /\ \E removed \in SUBSET counted,
             added \in SUBSET UNION {Spill[h] : h \in counted} :
             tree' = (tree \ (fixed \cup removed)) \cup added
       /\ IF fixed = {} /\ counted = {}
          THEN Leave(Blocking)
          ELSE pc' = "validate" /\ UNCHANGED unresolved
  /\ UNCHANGED <<report, checkVars, summary, exit>>

-----------------------------------------------------------------------------
(* After the loop.                                                         *)

\* V-4
Rubric ==
  /\ pc = "rubric"
  /\ v4' \in BOOLEAN
  /\ pc' = "container"
  /\ UNCHANGED <<loopVars, v3, v7, summary, exit>>

\* container_test.run: skipped without Docker; import-only without the sandbox
\* image or generated tests; a timeout or a docker that cannot start fails.
V3Result ==
  [ran: {FALSE}, passed: {"none"}, mode: {"skipped"}]
    \cup [ran: {TRUE}, passed: {"true", "false"}, mode: {"import", "runtime"}]

\* V-3, and V-7 over its output (nothing to analyze when it did not run).
Container ==
  /\ pc = "container"
  /\ v3' \in V3Result
  /\ v7' \in (IF v3'.ran THEN BOOLEAN ELSE {FALSE})
  /\ pc' = "status"
  /\ UNCHANGED <<loopVars, v4, summary, exit>>

RunStatusValues == {"pass", "fail", "needs-human-review", "incomplete"}

Skipped ==
  {s \in {"V2-hassfest"} : ~report.docker}
    \cup {s \in {"V3"} : ~v3.ran}
    \cup {s \in {"V3-runtime"} : v3.ran /\ v3.mode # "runtime"}

\* _run_status
RunStatusSkipFirst ==  \* a skipped validator hides one that failed
  IF unresolved # {} THEN "needs-human-review"
  ELSE IF Skipped # {} THEN "incomplete"
  ELSE IF ~(V1Passed /\ V2Passed /\ v4 /\ ~v7) \/ v3.passed = "false" THEN "fail"
  ELSE "pass"

RunStatusNoSkip ==  \* a skipped validator counts as one that passed
  IF unresolved # {} THEN "needs-human-review"
  ELSE IF ~(V1Passed /\ V2Passed /\ v4 /\ ~v7) \/ v3.passed = "false" THEN "fail"
  ELSE "pass"

RunStatus ==
  IF unresolved # {} THEN "needs-human-review"
  ELSE IF ~(V1Passed /\ V2Passed /\ v4 /\ ~v7) \/ v3.passed = "false" THEN "fail"
  ELSE IF Skipped # {} THEN "incomplete"
  ELSE "pass"

\* _FAILING_STATUSES, of those this part of analyze() can produce
FailingStatuses == {"fail", "needs-human-review"}

\* The status is written with the run state and becomes the exit code.
Conclude ==
  /\ pc = "status"
  /\ summary' = RunStatus
  /\ exit' = IF RunStatus \in FailingStatuses THEN 1 ELSE 0
  /\ pc' = "done"
  /\ UNCHANGED <<loopVars, checkVars>>

\* A validator, a strategy or the run-state write raises: analyze() has no
\* handler, so no verdict is written and the command line exits with 1.
Abort ==
  /\ pc \notin {"done", "aborted"}
  /\ pc' = "aborted"
  /\ exit' = 1
  /\ UNCHANGED <<loopVars, checkVars, summary>>

Ended == pc \in {"done", "aborted"} /\ UNCHANGED vars

Step == Validate \/ Clean \/ GiveUp \/ Fix \/ Rubric \/ Container \/ Conclude

Next == Step \/ Abort \/ Ended

\* Every step of analyze() is awaited and returns; nothing obliges it to fail.
Spec == Init /\ [][Next]_vars /\ WF_vars(Step)

-----------------------------------------------------------------------------
(* Properties.                                                             *)

Pc == {"validate", "decide", "rubric", "container", "status", "done", "aborted"}

\* Every variable keeps its type, and neither budget is ever exceeded: no
\* finding is given more than MaxAttempts fixes, no run more than MaxCycles.
TypeOK ==
  /\ pc \in Pc
  /\ tree \in SUBSET Defect
  /\ report \in Report
  /\ attempts \in [Key -> 0..MaxAttempts]
  /\ cycles \in 0..MaxCycles
  /\ unresolved \in SUBSET Key
  /\ v4 \in BOOLEAN /\ v3 \in V3Result /\ v7 \in BOOLEAN
  /\ summary \in RunStatusValues \cup {"none"}
  /\ exit \in {-1, 0, 1}

\* A run that says "pass" left an output without a single blocking defect,
\* which the official hassfest image and the runtime container test both
\* accepted as it is on disk: no fix came after the validation that counts,
\* and no validator that could not run was taken for one that passed.
PassIsEarned ==
  summary = "pass" =>
    /\ tree \cap (Lint \cup Hassfest) = {}
    /\ report.docker
    /\ v3.mode = "runtime" /\ v3.passed = "true"
    /\ v4 /\ ~v7

\* Exit code 0 is never given to an output with a defect that a check which
\* always runs would report, nor to one a later validator rejected.
ExitZeroIsClean ==
  exit = 0 =>
    /\ tree \cap (Lint \cup (Hassfest \ DockerOnly)) = {}
    /\ v4 /\ ~v7 /\ v3.passed # "false"

\* The findings a run hands over for review are those of the output on disk:
\* each one that names a defect names one that is still there.
UnresolvedIsCurrent ==
  pc \in {"rubric", "container", "status", "done"} =>
     unresolved \cap Defect \subseteq tree

\* "fail" is the verdict of the later validators alone: a run whose V-1 or
\* V-2 could not be satisfied asks for review and names at least one finding.
ReviewNamesFindings ==
  /\ summary = "fail" => V1Passed /\ V2Passed
  /\ summary = "needs-human-review" => ~(V1Passed /\ V2Passed) /\ unresolved # {}

\* The attempts spent on a finding are never forgotten: one that is fixed and
\* comes back resumes its count, which is what ends two fixes undoing each
\* other.
AttemptsOnlyGrow == [][\A k \in Key : attempts'[k] >= attempts[k]]_attempts

\* What the run promises, whatever happens inside it.
Verdict == INSTANCE RunVerdict WITH
  Certain <- Lint \cup (Hassfest \ DockerOnly),
  Optional <- DockerOnly,
  MaxEdits <- MaxCycles,
  output <- tree,
  edits <- cycles,
  verdict <- summary

\* The loop keeps that promise: every fix is one of a bounded number of edits,
\* made before the verdict, and the verdict is truthful of the output on disk.
ImplementsVerdict == Verdict!Spec

\* Every run ends, however often fixes bring findings back.
Terminates == <>(pc \in {"done", "aborted"})
=============================================================================
