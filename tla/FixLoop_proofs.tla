---------------------------- MODULE FixLoop_proofs ----------------------------
(***************************************************************************)
(* Proofs about FixLoop for every set of defects, every routing of them    *)
(* and every value of the two budgets.                                     *)
(***************************************************************************)
EXTENDS FixLoop, TLAPS

Later == {"rubric", "container", "status", "done"}

-----------------------------------------------------------------------------
(* The inductive invariant.  TypeOK says nothing of how the last report    *)
(* and the output relate; the verdict rests on that.                       *)

\* From the moment it is read, a report describes the output on disk.
Fresh ==
  pc \in Later \cup {"decide"} =>
    /\ report.lint = LintIn(report.down)
    /\ tree \cap (Hassfest \ DockerOnly) \subseteq report.hass
    /\ report.docker => tree \cap Hassfest \subseteq report.hass
    /\ report.hass \subseteq (tree \cap Hassfest) \cup {HassfestFailed}

\* After the loop the unresolved findings are those of that report.
Handed == pc \in Later => unresolved = Blocking

\* The verdict is given once, at the end, and from the results as they stand.
Judged ==
  /\ pc # "done" => summary = "none" /\ exit # 0
  /\ pc = "done" =>
       /\ summary = RunStatus
       /\ exit = 0 => RunStatus \notin FailingStatuses

IInv == TypeOK /\ Fresh /\ Handed /\ Judged

-----------------------------------------------------------------------------
(* Lemmas.                                                                 *)

\* A fix leaves the output within the set of defects.
LEMMA FixStaysTyped ==
  ASSUME NEW fixed \in SUBSET Defect, NEW counted \in SUBSET Routed,
         NEW removed \in SUBSET counted,
         NEW added \in SUBSET UNION {Spill[h] : h \in counted},
         tree \in SUBSET Defect
  PROVE  (tree \ (fixed \cup removed)) \cup added \in SUBSET Defect
<1>1. \A h \in counted : Spill[h] \subseteq Defect
  BY DefectAssumption
<1>2. UNION {Spill[h] : h \in counted} \subseteq Defect
  BY <1>1
<1>3. QED
  BY <1>2

\* The blocking findings of a report are findings the tracker can count.
LEMMA BlockingIsKeyed ==
  ASSUME TypeOK
  PROVE  Blocking \subseteq Key
BY DEF TypeOK, Report, Blocking, Key

\* Nothing blocks exactly when V-1 and V-2 passed, so the loop never gives up
\* without a finding to name.
LEMMA BlockingIffNotPassed == (V1Passed /\ V2Passed) <=> Blocking = {}
BY DEF V1Passed, V2Passed, Blocking

\* While no finding is exhausted, one more fix keeps every count in budget.
LEMMA RecordStaysTyped ==
  ASSUME TypeOK, Exhausted = {}
  PROVE  Record \in [Key -> 0..MaxAttempts]
<1>1. \A k \in Blocking : attempts[k] < MaxAttempts
  BY BlockingIsKeyed, BudgetAssumption DEF Exhausted, TypeOK
<1>2. \A k \in Blocking : attempts[k] + 1 \in 0..MaxAttempts
  BY <1>1, BlockingIsKeyed, BudgetAssumption DEF TypeOK
<1>3. QED
  BY <1>2 DEF Record, TypeOK

-----------------------------------------------------------------------------
(* Types and budgets.                                                      *)

LEMMA TypeStep == TypeOK /\ [Next]_vars => TypeOK'
<1> SUFFICES ASSUME TypeOK, [Next]_vars PROVE TypeOK'
  OBVIOUS
<1> USE DEF Pc
<1>1. CASE Validate
  <2>1. PICK down \in SUBSET Dir, docker \in BOOLEAN, failed \in BOOLEAN :
          report' = [lint |-> LintIn(down), down |-> down,
                     hass |-> HassIn(docker, failed), docker |-> docker]
    BY <1>1 DEF Validate
  <2>2. LintIn(down) \subseteq Lint \cup Style
    BY DEF LintIn
  <2>3. HassIn(docker, failed) \subseteq Hassfest \cup {HassfestFailed}
    BY DefectAssumption DEF HassIn, ImageIn
  <2>4. report' \in Report
    BY <2>1, <2>2, <2>3 DEF Report
  <2>5. QED
    BY <1>1, <2>4 DEF Validate, TypeOK, checkVars
<1>2. CASE Clean
  BY <1>2 DEF Clean, Leave, TypeOK, checkVars
<1>3. CASE GiveUp
  BY <1>3, BlockingIsKeyed DEF GiveUp, Leave, TypeOK, checkVars
<1>4. CASE Fix
  <2>1. attempts' \in [Key -> 0..MaxAttempts]
    BY <1>4, RecordStaysTyped DEF Fix
  <2>2. cycles' \in 0..MaxCycles
    BY <1>4, BudgetAssumption DEF Fix, TypeOK
  <2>3. PICK fixed \in SUBSET {d \in tree \cap AutoLint : DirOf[d] \in Targets},
             counted \in SUBSET (report.hass \cap Routed) :
          /\ \E removed \in SUBSET counted,
                added \in SUBSET UNION {Spill[h] : h \in counted} :
                tree' = (tree \ (fixed \cup removed)) \cup added
          /\ IF fixed = {} /\ counted = {}
             THEN Leave(Blocking)
             ELSE pc' = "validate" /\ UNCHANGED unresolved
    BY <1>4 DEF Fix
  <2>4. tree' \in SUBSET Defect
    <3>1. fixed \in SUBSET Defect /\ counted \in SUBSET Routed
      BY DEF TypeOK
    <3>2. tree \in SUBSET Defect
      BY DEF TypeOK
    <3>3. QED
      BY <2>3, <3>1, <3>2, FixStaysTyped
  <2>5. unresolved' \in SUBSET Key /\ pc' \in {"validate", "rubric"}
    BY <2>3, BlockingIsKeyed DEF Leave, TypeOK
  <2>6. QED
    BY <1>4, <2>1, <2>2, <2>4, <2>5 DEF Fix, TypeOK, checkVars
<1>5. CASE Rubric
  BY <1>5 DEF Rubric, TypeOK, loopVars
<1>6. CASE Container
  BY <1>6 DEF Container, TypeOK, loopVars
<1>7. CASE Conclude
  BY <1>7 DEF Conclude, RunStatus, RunStatusValues, TypeOK, loopVars, checkVars
<1>8. CASE Abort
  BY <1>8 DEF Abort, TypeOK, loopVars, checkVars
<1>9. CASE UNCHANGED vars
  BY <1>9 DEF vars, TypeOK
<1>10. QED
  BY <1>1, <1>2, <1>3, <1>4, <1>5, <1>6, <1>7, <1>8, <1>9
     DEF Next, Step, Ended

LEMMA TypeInit == Init => TypeOK
<1> SUFFICES ASSUME Init PROVE TypeOK
  OBVIOUS
<1>1. report \in Report
  BY DEF Init, NoReport, Report
<1>2. v3 \in V3Result
  BY DEF Init, V3Result
<1>3. 0 \in 0..MaxAttempts /\ 0 \in 0..MaxCycles
  BY BudgetAssumption
<1>4. attempts \in [Key -> 0..MaxAttempts]
  BY <1>3 DEF Init
<1>5. pc \in Pc /\ exit \in {-1, 0, 1} /\ v4 \in BOOLEAN /\ v7 \in BOOLEAN
  BY DEF Init, Pc
<1>6. QED
  BY <1>1, <1>2, <1>3, <1>4, <1>5 DEF Init, TypeOK

\* Every reachable state is well-typed and within both budgets: no finding is
\* fixed more than MaxAttempts times and no run makes more than MaxCycles
\* fix cycles.
THEOREM TypeCorrect == Spec => []TypeOK
BY TypeInit, TypeStep, PTL DEF Spec

-----------------------------------------------------------------------------
(* The inductive invariant.                                                *)

LEMMA IInvInit == Init => IInv
BY TypeInit DEF Init, IInv, Fresh, Handed, Judged, Later

LEMMA FreshStep == IInv /\ [Next]_vars => Fresh'
<1> SUFFICES ASSUME IInv, [Next]_vars PROVE Fresh'
  OBVIOUS
<1> USE DEF IInv, Later
<1>1. CASE Validate
  <2>1. PICK down \in SUBSET Dir, docker \in BOOLEAN, failed \in BOOLEAN :
          report' = [lint |-> LintIn(down), down |-> down,
                     hass |-> HassIn(docker, failed), docker |-> docker]
    BY <1>1 DEF Validate
  <2>2. tree' = tree
    BY <1>1 DEF Validate
  <2>3. /\ tree \cap (Hassfest \ DockerOnly) \subseteq HassIn(docker, failed)
        /\ docker => tree \cap Hassfest \subseteq HassIn(docker, failed)
        /\ HassIn(docker, failed) \subseteq (tree \cap Hassfest) \cup {HassfestFailed}
    BY DefectAssumption DEF HassIn, ImageIn
  <2>4. report'.lint = LintIn(report'.down)
    BY <2>1
  <2>5. LintIn(report.down)' = LintIn(report'.down)
    BY <2>2 DEF LintIn
  <2>6. QED
    BY <2>1, <2>2, <2>3, <2>4, <2>5 DEF Fresh
<1>2. CASE Clean
  BY <1>2 DEF Clean, Leave, Fresh, LintIn
<1>3. CASE GiveUp
  BY <1>3 DEF GiveUp, Leave, Fresh, LintIn
<1>4. CASE Fix
  <2>1. PICK fixed \in SUBSET {d \in tree \cap AutoLint : DirOf[d] \in Targets},
             counted \in SUBSET (report.hass \cap Routed) :
          /\ \E removed \in SUBSET counted,
                added \in SUBSET UNION {Spill[h] : h \in counted} :
                tree' = (tree \ (fixed \cup removed)) \cup added
          /\ IF fixed = {} /\ counted = {}
             THEN Leave(Blocking)
             ELSE pc' = "validate" /\ UNCHANGED unresolved
    BY <1>4 DEF Fix
  <2>2. CASE fixed = {} /\ counted = {}
    <3>1. tree' = tree
      BY <2>1, <2>2
    <3>2. pc = "decide" /\ report' = report
      BY <1>4 DEF Fix
    <3>3. QED
      BY <3>1, <3>2 DEF Fresh, LintIn
  <2>3. CASE ~(fixed = {} /\ counted = {})
    BY <2>1, <2>3 DEF Fresh
  <2>4. QED
    BY <2>2, <2>3
<1>5. CASE Rubric
  BY <1>5 DEF Rubric, loopVars, Fresh, LintIn
<1>6. CASE Container
  BY <1>6 DEF Container, loopVars, Fresh, LintIn
<1>7. CASE Conclude
  BY <1>7 DEF Conclude, loopVars, Fresh, LintIn
<1>8. CASE Abort
  BY <1>8 DEF Abort, Fresh
<1>9. CASE UNCHANGED vars
  BY <1>9 DEF vars, Fresh, LintIn
<1>10. QED
  BY <1>1, <1>2, <1>3, <1>4, <1>5, <1>6, <1>7, <1>8, <1>9
     DEF Next, Step, Ended

LEMMA HandedStep == IInv /\ [Next]_vars => Handed'
<1> SUFFICES ASSUME IInv, [Next]_vars PROVE Handed'
  OBVIOUS
<1> USE DEF IInv, Later, Handed
<1>1. CASE Validate
  BY <1>1 DEF Validate
<1>2. CASE Clean
  <2>1. Blocking' = Blocking
    BY <1>2 DEF Clean, Blocking
  <2>2. QED
    BY <1>2, <2>1, BlockingIffNotPassed DEF Clean, Leave
<1>3. CASE GiveUp
  BY <1>3 DEF GiveUp, Leave, Blocking
<1>4. CASE Fix
  <2>1. Blocking' = Blocking
    BY <1>4 DEF Fix, Blocking
  <2>2. Leave(Blocking) \/ pc' = "validate"
    BY <1>4 DEF Fix
  <2>3. QED
    BY <2>1, <2>2 DEF Leave
<1>5. CASE Rubric
  BY <1>5 DEF Rubric, loopVars, Blocking
<1>6. CASE Container
  BY <1>6 DEF Container, loopVars, Blocking
<1>7. CASE Conclude
  BY <1>7 DEF Conclude, loopVars, Blocking
<1>8. CASE Abort
  BY <1>8 DEF Abort
<1>9. CASE UNCHANGED vars
  BY <1>9 DEF vars, Blocking
<1>10. QED
  BY <1>1, <1>2, <1>3, <1>4, <1>5, <1>6, <1>7, <1>8, <1>9
     DEF Next, Step, Ended

\* A step that does not change the results does not change their verdict.
LEMMA VerdictUnchanged ==
  ASSUME UNCHANGED <<report, unresolved, v4, v3, v7>>
  PROVE  RunStatus' = RunStatus
BY DEF RunStatus, Skipped, V1Passed, V2Passed

LEMMA JudgedStep == IInv /\ [Next]_vars => Judged'
<1> SUFFICES ASSUME IInv, [Next]_vars PROVE Judged'
  OBVIOUS
<1> USE DEF IInv, Judged
<1>1. CASE Validate
  BY <1>1 DEF Validate
<1>2. CASE Clean
  BY <1>2 DEF Clean, Leave
<1>3. CASE GiveUp
  BY <1>3 DEF GiveUp, Leave
<1>4. CASE Fix
  <2>1. pc' \in {"validate", "rubric"}
    BY <1>4 DEF Fix, Leave
  <2>2. QED
    BY <1>4, <2>1 DEF Fix
<1>5. CASE Rubric
  BY <1>5 DEF Rubric
<1>6. CASE Container
  BY <1>6 DEF Container
<1>7. CASE Conclude
  <2>1. RunStatus' = RunStatus
    BY <1>7, VerdictUnchanged DEF Conclude, loopVars, checkVars
  <2>2. QED
    BY <1>7, <2>1 DEF Conclude, FailingStatuses
<1>8. CASE Abort
  BY <1>8 DEF Abort
<1>9. CASE UNCHANGED vars
  BY <1>9, VerdictUnchanged DEF vars
<1>10. QED
  BY <1>1, <1>2, <1>3, <1>4, <1>5, <1>6, <1>7, <1>8, <1>9
     DEF Next, Step, Ended

LEMMA IInvStep == IInv /\ [Next]_vars => IInv'
BY TypeStep, FreshStep, HandedStep, JudgedStep DEF IInv

THEOREM InductiveInvariant == Spec => []IInv
BY IInvInit, IInvStep, PTL DEF Spec
-----------------------------------------------------------------------------
(* What the invariant gives.                                               *)

\* Where V-1 passed, no ruff run failed and none reported a blocking defect,
\* so the output has none; likewise for the V-2 checks that ran.
LEMMA PassedMeansClean ==
  ASSUME TypeOK, Fresh, pc \in Later, V1Passed, V2Passed
  PROVE  /\ tree \cap (Lint \cup (Hassfest \ DockerOnly)) = {}
         /\ report.docker => tree \cap Hassfest = {}
<1>1. report.lint = tree \cap (Lint \cup Style)
  <2>1. report.lint = LintIn({})
    BY DEF Fresh, V1Passed
  <2>2. QED
    BY <2>1 DEF LintIn
<1>2. tree \cap Lint = {}
  BY <1>1 DEF V1Passed
<1>3. tree \cap (Hassfest \ DockerOnly) = {}
  BY DEF Fresh, V2Passed
<1>4. report.docker => tree \cap Hassfest = {}
  BY DEF Fresh, V2Passed
<1>5. QED
  BY <1>2, <1>3, <1>4

\* A verdict of "pass" is only given to an output that every validator ran
\* on, in its strongest mode, and accepted as it stands on disk.
THEOREM PassEarned == Spec => []PassIsEarned
<1>1. IInv => PassIsEarned
  <2> SUFFICES ASSUME IInv, summary = "pass"
               PROVE  PassIsEarned
    BY DEF PassIsEarned
  <2>1. pc = "done" /\ RunStatus = "pass"
    BY DEF IInv, Judged
  <2>2. /\ unresolved = {} /\ Skipped = {}
        /\ V1Passed /\ V2Passed /\ v4 /\ ~v7
        /\ v3.passed # "false"
    BY <2>1 DEF RunStatus
  <2>3. report.docker /\ v3.ran /\ v3.mode = "runtime"
    <3>1. v3.ran \in BOOLEAN /\ report.docker \in BOOLEAN
      BY DEF IInv, TypeOK, V3Result, Report
    <3>2. "V2-hassfest" \notin Skipped /\ "V3" \notin Skipped
            /\ "V3-runtime" \notin Skipped
      BY <2>2
    <3>3. QED
      BY <3>1, <3>2 DEF Skipped
  <2>4. v3.passed = "true"
    BY <2>2, <2>3 DEF IInv, TypeOK, V3Result
  <2>5. tree \cap (Lint \cup Hassfest) = {}
    BY <2>1, <2>2, <2>3, PassedMeansClean DEF IInv, Later
  <2>6. QED
    BY <2>2, <2>3, <2>4, <2>5 DEF PassIsEarned
<1>2. QED
  BY <1>1, InductiveInvariant, PTL

\* The command line never reports success over a defect that an
\* unconditional check would find, nor over a failed later validator.
THEOREM ExitZeroClean == Spec => []ExitZeroIsClean
<1>1. IInv => ExitZeroIsClean
  <2> SUFFICES ASSUME IInv, exit = 0
               PROVE  ExitZeroIsClean
    BY DEF ExitZeroIsClean
  <2>1. pc = "done" /\ RunStatus \notin FailingStatuses
    BY DEF IInv, Judged
  <2>2. V1Passed /\ V2Passed /\ v4 /\ ~v7 /\ v3.passed # "false"
    BY <2>1 DEF RunStatus, FailingStatuses
  <2>3. QED
    BY <2>1, <2>2, PassedMeansClean DEF IInv, Later, ExitZeroIsClean
<1>2. QED
  BY <1>1, InductiveInvariant, PTL

\* The findings handed over for review are those of the output on disk.
THEOREM UnresolvedCurrent == Spec => []UnresolvedIsCurrent
<1>1. IInv => UnresolvedIsCurrent
  <2> SUFFICES ASSUME IInv, pc \in Later
               PROVE  unresolved \cap Defect \subseteq tree
    BY DEF UnresolvedIsCurrent, Later
  <2>1. report.lint \subseteq tree
    BY DEF IInv, Fresh, LintIn
  <2>2. report.hass \subseteq tree \cup {HassfestFailed}
    BY DEF IInv, Fresh
  <2>3. report.down \cap Defect = {} /\ HassfestFailed \notin Defect
    BY DistinctAssumption DEF IInv, TypeOK, Report
  <2>4. unresolved = (report.lint \cap Lint) \cup report.hass \cup report.down
    BY DEF IInv, Handed, Blocking
  <2>5. QED
    BY <2>1, <2>2, <2>3, <2>4
<1>2. QED
  BY <1>1, InductiveInvariant, PTL

\* The loop gives up exactly when V-1 or V-2 is unsatisfied, and never
\* without a finding to show for it.
THEOREM ReviewNames == Spec => []ReviewNamesFindings
<1>1. IInv => ReviewNamesFindings
  <2>1. ASSUME IInv, summary = "fail"
        PROVE  V1Passed /\ V2Passed
    <3>1. pc = "done" /\ unresolved = {}
      BY <2>1 DEF IInv, Judged, RunStatus
    <3>2. QED
      BY <2>1, <3>1, BlockingIffNotPassed DEF IInv, Handed, Later
  <2>2. ASSUME IInv, summary = "needs-human-review"
        PROVE  ~(V1Passed /\ V2Passed) /\ unresolved # {}
    <3>1. pc = "done" /\ unresolved # {}
      BY <2>2 DEF IInv, Judged, RunStatus
    <3>2. QED
      BY <2>2, <3>1, BlockingIffNotPassed DEF IInv, Handed, Later
  <2>3. QED
    BY <2>1, <2>2 DEF ReviewNamesFindings
<1>2. QED
  BY <1>1, InductiveInvariant, PTL

\* No step lowers the count of a finding.
THEOREM AttemptsGrow == Spec => AttemptsOnlyGrow
<1>1. IInv /\ [Next]_vars =>
        [\A k \in Key : attempts'[k] >= attempts[k]]_attempts
  <2> SUFFICES ASSUME IInv, [Next]_vars, attempts' # attempts, NEW k \in Key
               PROVE  attempts'[k] >= attempts[k]
    OBVIOUS
  <2>1. Fix
    BY DEF Next, Step, Validate, Clean, GiveUp, Rubric, Container, Conclude,
           Abort, Ended, Leave, loopVars, vars
  <2>2. attempts[k] \in Nat
    BY BudgetAssumption DEF IInv, TypeOK
  <2>3. QED
    BY <2>1, <2>2 DEF Fix, Record
<1>2. QED
  BY <1>1, InductiveInvariant, PTL DEF Spec, AttemptsOnlyGrow

-----------------------------------------------------------------------------
(* The loop implements RunVerdict.                                         *)

LEMMA VerdictInit == Init => Verdict!Init
BY DEF Init, Verdict!Init

\* A fix is an edit, the conclusion is the judgement, and every other step
\* leaves the output, the count of edits and the verdict alone.
LEMMA VerdictStep ==
  IInv /\ IInv' /\ [Next]_vars => [Verdict!Next]_Verdict!vars
<1> SUFFICES ASSUME IInv, IInv', [Next]_vars
             PROVE  Verdict!Next \/ UNCHANGED <<tree, cycles, summary>>
  BY DEF Verdict!vars
<1>1. CASE Fix
  <2>1. tree' \in SUBSET Defect
    BY DEF IInv, TypeOK
  <2>2. summary = "none" /\ summary' = summary
    BY <1>1 DEF Fix, IInv, Judged
  <2>3. Verdict!Edit
    BY <1>1, <2>1, <2>2 DEF Fix, Verdict!Edit
  <2>4. QED
    BY <2>3 DEF Verdict!Next
<1>2. CASE Conclude
  <2>1. summary = "none" /\ summary' = RunStatus
    BY <1>2 DEF Conclude, IInv, Judged
  <2>2. RunStatus \in Verdict!Verdicts
    BY DEF RunStatus, Verdict!Verdicts
  <2>3. RunStatus # "needs-human-review" => V1Passed /\ V2Passed
    <3>1. RunStatus # "needs-human-review" => unresolved = {}
      BY DEF RunStatus
    <3>2. unresolved = Blocking
      BY <1>2 DEF Conclude, IInv, Handed, Later
    <3>3. QED
      BY <3>1, <3>2, BlockingIffNotPassed
  <2>4. RunStatus = "pass" => report.docker
    <3>1. report.docker \in BOOLEAN
      BY DEF IInv, TypeOK, Report
    <3>2. QED
      BY <3>1 DEF RunStatus, Skipped
  <2>5. pc \in Later /\ TypeOK /\ Fresh
    BY <1>2 DEF Conclude, Later, IInv
  <2>6. Verdict!Truthful(RunStatus)
    <3>1. RunStatus # "needs-human-review" =>
             tree \cap (Lint \cup (Hassfest \ DockerOnly)) = {}
      BY <2>3, <2>5, PassedMeansClean
    <3>2. RunStatus = "pass" => tree \cap DockerOnly = {}
      <4>1. RunStatus = "pass" => tree \cap Hassfest = {}
        BY <2>3, <2>4, <2>5, PassedMeansClean
      <4>2. QED
        BY <4>1, DefectAssumption
    <3>3. QED
      BY <3>1, <3>2 DEF Verdict!Truthful
  <2>7. Verdict!Judge
    BY <1>2, <2>1, <2>2, <2>6 DEF Verdict!Judge, Conclude, loopVars
  <2>8. QED
    BY <2>7 DEF Verdict!Next
<1>3. CASE ~Fix /\ ~Conclude
  BY <1>3 DEF Next, Step, Validate, Clean, GiveUp, Rubric, Container, Abort,
              Ended, Leave, loopVars, vars
<1>4. QED
  BY <1>1, <1>2, <1>3

\* Whatever the validators report and the strategies leave behind, a run is
\* a bounded number of edits followed by one truthful verdict.
THEOREM LoopImplementsVerdict == Spec => ImplementsVerdict
BY VerdictInit, VerdictStep, InductiveInvariant, PTL
   DEF Spec, ImplementsVerdict, Verdict!Spec
=============================================================================
