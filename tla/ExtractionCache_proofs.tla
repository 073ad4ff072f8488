------------------------ MODULE ExtractionCache_proofs ------------------------
(***************************************************************************)
(* What one run leaves on disk never reaches a run that did all its work   *)
(* itself: proved for any versions, APKs and edits of the code.            *)
(***************************************************************************)
EXTENDS ExtractionCache, TLAPS

WorkPc == {"unpack", "decompile", "jadx", "decompiled", "extract", "save",
           "saving", "load", "emit", "emitting"}

\* The run under way, with its fields.
Working == [pc: WorkPc, given: Version, loaded: BOOLEAN, code: 0..MaxCode,
            warned: BOOLEAN, todo: SUBSET Member, alone: BOOLEAN, ir: IR,
            saving: Checkpoint]

\* The type invariant but for who owns which jadx.
Types ==
  /\ apk \in Version /\ code \in 0..MaxCode
  /\ splits \in [Member -> Split]
  /\ tree \in [begun: SUBSET Version, done: SUBSET Version]
  /\ jadx \subseteq [from: SUBSET Version, own: BOOLEAN]
  /\ ckpt \in Checkpoint /\ run \in {Idle} \cup Working /\ out \in Output
  /\ tree.done \subseteq tree.begun

\* A run waits for the one jadx that is its own.
OwnJadx ==
  /\ At("jadx") <=> \E p \in jadx : p.own
  /\ \A p, q \in jadx : p.own /\ q.own => p = q

\* What the run has unpacked are APKs.
UnpackedSoFar ==
  /\ At("unpack") => \A m \in Member \ run.todo : splits[m].kind = "apk"
  /\ At("decompile") => \A m \in Member : splits[m].kind = "apk"

LEMMA WorkingRun ==
  ASSUME run \in {Idle} \cup Working
  PROVE  /\ run.pc # "idle" <=> run \in Working
         /\ run.pc \in WorkPc <=> run \in Working
         /\ \A pc \in WorkPc : At(pc) => run \in Working
BY DEF Idle, Working, WorkPc, At

LEMMA GotoTyped ==
  ASSUME run \in Working, NEW pc \in WorkPc
  PROVE  Goto(pc) \in Working /\ Goto(pc).pc = pc
BY DEF Working, Goto, WorkPc

LEMMA SavedFields ==
  ASSUME ckpt \in Checkpoint, ckpt.kind = "saved"
  PROVE  ckpt \in [kind: {"saved"}, apk: Version, code: 0..MaxCode, ir: IR]
BY DEF Checkpoint, None, Torn

LEMMA TypesStep == Types /\ OwnJadx /\ UnpackedSoFar /\ [Next]_vars => Types'
<1> SUFFICES ASSUME Types, OwnJadx, UnpackedSoFar, [Next]_vars PROVE Types'
  OBVIOUS
<1>0. /\ apk \in Version /\ code \in 0..MaxCode
      /\ splits \in [Member -> Split]
      /\ tree \in [begun: SUBSET Version, done: SUBSET Version]
      /\ jadx \subseteq [from: SUBSET Version, own: BOOLEAN]
      /\ ckpt \in Checkpoint /\ run \in {Idle} \cup Working /\ out \in Output
      /\ tree.done \subseteq tree.begun
  BY DEF Types
<1> USE DEF user, disk
<1>1. ASSUME NEW loaded \in BOOLEAN, Start(loaded) PROVE Types'
  <2>1. NoIR \in IR /\ None \in Checkpoint
    BY CacheAssumption DEF NoIR, IR, Checkpoint
  <2>2. run' \in Working
    BY <1>0, <1>1, <2>1 DEF Start, Working, WorkPc
  <2> QED
    BY <1>0, <1>1, <2>2 DEF Start, Types
<1>2. ASSUME NEW m \in Member, Unpack(m) PROVE Types'
  BY <1>0, <1>2, WorkingRun DEF Unpack, Types, Working, WorkPc, At, Split
<1>3. CASE Unpacked
  BY <1>0, <1>3, WorkingRun, GotoTyped DEF Unpacked, Types, WorkPc
<1>4. CASE Reuse
  BY <1>0, <1>4, WorkingRun DEF Reuse, Types, Working, WorkPc, Goto
<1>5. CASE Decompile
  <2>1. Inputs \in SUBSET Version
    BY <1>0, <1>5 DEF Decompile, Inputs, UnpackedSoFar, Split, None, Torn
  <2> QED
    <3>1. run' \in Working
      BY <1>0, <1>5, WorkingRun, GotoTyped DEF Decompile, WorkPc
    <3>2. [from |-> Inputs, own |-> TRUE] \in [from: SUBSET Version, own: BOOLEAN]
      BY <2>1
    <3> QED
      BY <1>0, <1>5, <3>1, <3>2 DEF Decompile, Types
<1>6. CASE Decompiled
  BY <1>0, <1>6, WorkingRun, GotoTyped DEF Decompiled, Fail, Types, WorkPc
<1>7. CASE JadxTimesOut
  BY <1>0, <1>7 DEF JadxTimesOut, Fail, Types, Own
<1>8. CASE Extract
  BY <1>0, <1>8, WorkingRun DEF Extract, Types, Working, WorkPc, Goto, IR
<1>9. CASE Save
  <2>1. run \in Working
    BY <1>0, <1>9, WorkingRun DEF Save, WorkPc
  <2>2. [run.ir EXCEPT !.trusted = run.alone /\ code = run.code] \in IR
    BY <2>1 DEF Working, IR
  <2>3. [kind |-> "saved", apk |-> apk, code |-> code,
         ir |-> [run.ir EXCEPT !.trusted = run.alone /\ code = run.code]] \in Checkpoint
    BY <1>0, <2>2 DEF Checkpoint
  <2>4. run' \in Working
    BY <1>9, <2>1, <2>3 DEF Save, Goto, Working, WorkPc
  <2> QED
    BY <1>0, <1>9, <2>4 DEF Save, Types, Checkpoint
<1>10. CASE Saved
  BY <1>0, <1>10, WorkingRun, GotoTyped DEF Saved, Types, Working, WorkPc
<1>11. CASE Loaded
  <2>1. ckpt \in [kind: {"saved"}, apk: Version, code: 0..MaxCode, ir: IR]
    BY <1>0, <1>11, SavedFields DEF Loaded, Accepted
  <2>2. run \in Working
    BY <1>0, <1>11, WorkingRun DEF Loaded, WorkPc
  <2>3. run' \in Working
    BY <1>0, <1>11, <2>1, <2>2 DEF Loaded, Working, WorkPc, Goto
  <2> QED
    BY <1>0, <1>11, <2>3 DEF Loaded, Types
<1>12. CASE Refused
  BY <1>0, <1>12 DEF Refused, Fail, Types
<1>13. CASE Emit
  BY <1>0, <1>13, WorkingRun, GotoTyped DEF Emit, Types, WorkPc, Output
<1>14. CASE Emitted
  BY <1>0, <1>14, WorkingRun DEF Emitted, Types, Working, WorkPc, Output
<1>15. CASE GivesUp
  BY <1>0, <1>15 DEF GivesUp, Fail, Types
<1>16. ASSUME NEW p \in jadx, JadxWrites(p) PROVE Types'
  BY <1>0, <1>16 DEF JadxWrites, Types
<1>17. ASSUME NEW p \in jadx, JadxEnds(p) PROVE Types'
  <2>1. p.own => run \in Working
    BY <1>0, WorkingRun DEF OwnJadx, WorkPc
  <2> QED
    BY <1>0, <1>17, <2>1, GotoTyped DEF JadxEnds, Types, WorkPc
<1>18. CASE Crash
  <2>1. jadx' \subseteq [from: SUBSET Version, own: BOOLEAN]
    <3>1. \A p \in jadx : [p EXCEPT !.own = FALSE] \in [from: SUBSET Version, own: BOOLEAN]
      BY <1>0
    <3> QED
      BY <1>0, <1>18, <3>1 DEF Crash, Own
  <2>2. splits' \in [Member -> Split]
    BY <1>0, <1>18 DEF Crash, Split
  <2> QED
    BY <1>0, <1>18, <2>1, <2>2 DEF Crash, Types
<1>19. CASE ReplaceApk
  BY <1>0, <1>19, WorkingRun DEF ReplaceApk, Disturbed, Types, Working
<1>20. CASE EditCode
  BY <1>0, <1>20, CacheAssumption DEF EditCode, Types
<1>21. CASE UNCHANGED vars
  BY <1>0, <1>21 DEF vars, Types
<1> QED
  BY <1>1, <1>2, <1>3, <1>4, <1>5, <1>6, <1>7, <1>8, <1>9, <1>10, <1>11, <1>12,
     <1>13, <1>14, <1>15, <1>16, <1>17, <1>18, <1>19, <1>20, <1>21
  DEF Next, RunStep, JadxStep

LEMMA OwnJadxStep == Types /\ OwnJadx /\ [Next]_vars => OwnJadx'
<1> SUFFICES ASSUME Types, OwnJadx, [Next]_vars PROVE OwnJadx'
  OBVIOUS
<1>0. jadx \subseteq [from: SUBSET Version, own: BOOLEAN] /\ run \in {Idle} \cup Working
  BY DEF Types
<1> USE DEF OwnJadx, At, Fail, user, disk
<1>1. ASSUME NEW loaded \in BOOLEAN, Start(loaded) PROVE OwnJadx'
  BY <1>0, <1>1 DEF Start
<1>2. ASSUME NEW m \in Member, Unpack(m) PROVE OwnJadx'
  BY <1>0, <1>2, WorkingRun DEF Unpack, Working, WorkPc
<1>3. CASE Unpacked
  BY <1>0, <1>3, WorkingRun, GotoTyped DEF Unpacked, WorkPc
<1>4. CASE Reuse
  BY <1>0, <1>4, WorkingRun DEF Reuse, Goto, Working, WorkPc
<1>5. CASE Decompile
  <2>1. run' = Goto("jadx") /\ run'.pc = "jadx"
    BY <1>0, <1>5, WorkingRun, GotoTyped DEF Decompile, WorkPc
  <2>2. \A p \in jadx : ~p.own
    BY <1>5 DEF Decompile
  <2> DEFINE started == [from |-> Inputs, own |-> TRUE]
  <2>3. jadx' = jadx \cup {started} /\ started.own = TRUE
    BY <1>5 DEF Decompile
  <2> HIDE DEF started
  <2> QED
    BY <2>1, <2>2, <2>3
<1>6. CASE Decompiled
  BY <1>0, <1>6, WorkingRun, GotoTyped DEF Decompiled, WorkPc, Idle
<1>7. CASE JadxTimesOut
  BY <1>0, <1>7 DEF JadxTimesOut, Own, Idle
<1>8. CASE Extract
  BY <1>0, <1>8, WorkingRun DEF Extract, Goto, Working, WorkPc
<1>9. CASE Save
  BY <1>0, <1>9, WorkingRun DEF Save, Goto, Working, WorkPc
<1>10. CASE Saved
  BY <1>0, <1>10, WorkingRun, GotoTyped DEF Saved, WorkPc
<1>11. CASE Loaded
  BY <1>0, <1>11, WorkingRun DEF Loaded, Goto, Working, WorkPc
<1>12. CASE Refused
  BY <1>0, <1>12 DEF Refused, Idle
<1>13. CASE Emit
  BY <1>0, <1>13, WorkingRun, GotoTyped DEF Emit, WorkPc
<1>14. CASE Emitted
  BY <1>0, <1>14 DEF Emitted, Idle
<1>15. CASE GivesUp
  BY <1>0, <1>15 DEF GivesUp, Idle
<1>16. ASSUME NEW p \in jadx, JadxWrites(p) PROVE OwnJadx'
  BY <1>0, <1>16 DEF JadxWrites
<1>17. ASSUME NEW p \in jadx, JadxEnds(p) PROVE OwnJadx'
  <2>1. p.own => run' = Goto("decompiled") /\ run'.pc = "decompiled"
    BY <1>0, <1>17, WorkingRun, GotoTyped DEF JadxEnds, WorkPc
  <2> QED
    BY <1>0, <1>17, <2>1 DEF JadxEnds
<1>18. CASE Crash
  <2>1. \A q \in jadx' : ~q.own
    BY <1>0, <1>18 DEF Crash, Own
  <2> QED
    BY <1>18, <2>1 DEF Crash, Idle
<1>19. CASE ReplaceApk
  BY <1>0, <1>19, WorkingRun DEF ReplaceApk, Disturbed, Working
<1>20. CASE EditCode
  BY <1>0, <1>20 DEF EditCode
<1>21. CASE UNCHANGED vars
  BY <1>0, <1>21 DEF vars
<1> QED
  BY <1>1, <1>2, <1>3, <1>4, <1>5, <1>6, <1>7, <1>8, <1>9, <1>10, <1>11, <1>12,
     <1>13, <1>14, <1>15, <1>16, <1>17, <1>18, <1>19, <1>20, <1>21
  DEF Next, RunStep, JadxStep

LEMMA UnpackedStep == Types /\ UnpackedSoFar /\ [Next]_vars => UnpackedSoFar'
<1> SUFFICES ASSUME Types, UnpackedSoFar, [Next]_vars PROVE UnpackedSoFar'
  OBVIOUS
<1>0. splits \in [Member -> Split] /\ run \in {Idle} \cup Working
  BY DEF Types
<1> USE DEF UnpackedSoFar, At, Fail, user, disk
<1>1. ASSUME NEW loaded \in BOOLEAN, Start(loaded) PROVE UnpackedSoFar'
  BY <1>0, <1>1 DEF Start
<1>2. ASSUME NEW m \in Member, Unpack(m) PROVE UnpackedSoFar'
  BY <1>0, <1>2, WorkingRun DEF Unpack, Kept, Working, WorkPc
<1>3. CASE Unpacked
  BY <1>0, <1>3, WorkingRun, GotoTyped DEF Unpacked, WorkPc
<1>4. CASE Extract
  BY <1>0, <1>4, WorkingRun DEF Extract, Goto, Working, WorkPc
<1>5. CASE Save
  BY <1>0, <1>5, WorkingRun DEF Save, Goto, Working, WorkPc
<1>6. CASE Loaded
  BY <1>0, <1>6, WorkingRun DEF Loaded, Goto, Working, WorkPc
<1>7. CASE Reuse
  BY <1>0, <1>7, WorkingRun DEF Reuse, Goto, Working, WorkPc
<1>8. ASSUME NEW pc \in WorkPc \ {"unpack", "decompile"}, run \in Working, run' = Goto(pc)
      PROVE  UnpackedSoFar'
  BY <1>8, GotoTyped DEF WorkPc
<1>9. CASE run' = Idle
  BY <1>9 DEF Idle
<1>10. ASSUME UNCHANGED <<splits, run>> PROVE UnpackedSoFar'
  BY <1>10
<1>11. ASSUME NEW p \in jadx, JadxEnds(p) PROVE UnpackedSoFar'
  BY <1>0, <1>11 DEF JadxEnds, Goto, Working
<1>12. CASE ReplaceApk
  BY <1>0, <1>12 DEF ReplaceApk, Disturbed, Working
<1> QED
  BY <1>0, <1>1, <1>2, <1>3, <1>4, <1>5, <1>6, <1>7, <1>8, <1>9, <1>10, <1>11, <1>12,
     WorkingRun
  DEF Next, RunStep, JadxStep, Decompile, Decompiled, JadxTimesOut, Saved, Refused, Emit,
      Emitted, GivesUp, Crash, EditCode, JadxWrites, WorkPc, vars

LEMMA TypesInit == Init => Types /\ OwnJadx /\ UnpackedSoFar
  BY CacheAssumption
  DEF Init, Types, OwnJadx, UnpackedSoFar, At, Idle, None, Split, Checkpoint, Output

LEMMA TypesInvariant == Spec => [](Types /\ OwnJadx /\ UnpackedSoFar)
<1>1. Types /\ OwnJadx /\ UnpackedSoFar /\ [Next]_vars
      => (Types /\ OwnJadx /\ UnpackedSoFar)'
  BY TypesStep, OwnJadxStep, UnpackedStep
<1> QED
  BY TypesInit, <1>1, PTL DEF Spec

\* Every variable keeps its type, and a jadx is taken for the run's own exactly
\* while the run waits for it, whatever crashes and timeouts leave running.
THEOREM TypeCorrect == Spec => []TypeOK
<1>1. Types /\ OwnJadx => TypeOK
  BY DEF Types, OwnJadx, TypeOK, Own, Run, Working, WorkPc, Idle
<1> QED
  BY TypesInvariant, <1>1, PTL

-----------------------------------------------------------------------------
(* Unpacking over what earlier runs left.                                  *)

\* A whole APK, of the size of the bundle's.
Fits(m) == splits[m].kind = "apk" /\ SizeOf[splits[m].of][m] = SizeOf[run.given][m]

\* What the run has gone over fits.
BundleSoFar ==
  /\ At("unpack") => \A m \in Member \ run.todo : Fits(m)
  /\ At("decompile") => \A m \in Member : Fits(m)

LEMMA BundleStep == Types /\ BundleSoFar /\ [Next]_vars => BundleSoFar'
<1> SUFFICES ASSUME Types, BundleSoFar, [Next]_vars PROVE BundleSoFar'
  OBVIOUS
<1>0. splits \in [Member -> Split] /\ run \in {Idle} \cup Working
  BY DEF Types
<1> USE DEF BundleSoFar, Fits, At, Fail, user, disk
<1>1. ASSUME NEW loaded \in BOOLEAN, Start(loaded) PROVE BundleSoFar'
  BY <1>0, <1>1 DEF Start
<1>2. ASSUME NEW m \in Member, Unpack(m) PROVE BundleSoFar'
  <2>1. run \in Working /\ run' = [run EXCEPT !.todo = run.todo \ {m}]
    BY <1>0, <1>2, WorkingRun DEF Unpack, WorkPc
  <2>2. run'.pc = "unpack" /\ run'.given = run.given /\ run'.todo = run.todo \ {m}
    BY <1>2, <2>1 DEF Unpack, Working
  <2>3. Fits(m)'
    BY <1>0, <1>2, <2>2 DEF Unpack, Kept
  <2>4. \A n \in Member \ {m} : splits'[n] = splits[n]
    BY <1>0, <1>2 DEF Unpack
  <2> QED
    BY <1>2, <2>2, <2>3, <2>4 DEF Unpack
<1>3. CASE Unpacked
  BY <1>0, <1>3, WorkingRun DEF Unpacked, Goto, Working, WorkPc
<1>4. CASE Extract
  BY <1>0, <1>4, WorkingRun DEF Extract, Goto, Working, WorkPc
<1>5. CASE Save
  BY <1>0, <1>5, WorkingRun DEF Save, Goto, Working, WorkPc
<1>6. CASE Loaded
  BY <1>0, <1>6, WorkingRun DEF Loaded, Goto, Working, WorkPc
<1>7. CASE Reuse
  BY <1>0, <1>7, WorkingRun DEF Reuse, Goto, Working, WorkPc
<1>8. ASSUME NEW pc \in WorkPc \ {"unpack", "decompile"}, run \in Working, run' = Goto(pc)
      PROVE  BundleSoFar'
  BY <1>8, GotoTyped DEF WorkPc
<1>9. CASE run' = Idle
  BY <1>9 DEF Idle
<1>10. ASSUME UNCHANGED <<splits, run>> PROVE BundleSoFar'
  BY <1>10
<1>11. ASSUME NEW p \in jadx, JadxEnds(p) PROVE BundleSoFar'
  BY <1>0, <1>11 DEF JadxEnds, Goto, Working
<1>12. CASE ReplaceApk
  BY <1>0, <1>12 DEF ReplaceApk, Disturbed, Working
<1> QED
  BY <1>0, <1>1, <1>2, <1>3, <1>4, <1>5, <1>6, <1>7, <1>8, <1>9, <1>10, <1>11, <1>12,
     WorkingRun
  DEF Next, RunStep, JadxStep, Decompile, Decompiled, JadxTimesOut, Saved, Refused, Emit,
      Emitted, GivesUp, Crash, EditCode, JadxWrites, WorkPc, vars

LEMMA BundleInvariant == Spec => []BundleSoFar
<1>1. Init => BundleSoFar
  BY DEF Init, BundleSoFar, At, Idle
<1>2. Types /\ BundleSoFar /\ [Next]_vars => BundleSoFar'
  BY BundleStep
<1> QED
  BY <1>1, <1>2, TypesInvariant, PTL DEF Spec

\* Jadx is only ever given whole APKs of the sizes of the run's own, whatever
\* earlier runs unpacked, left torn or died over.
THEOREM UnpackedFits == Spec => []UnpackedFitsTheBundle
<1>1. BundleSoFar => UnpackedFitsTheBundle
  BY DEF BundleSoFar, Fits, UnpackedFitsTheBundle
<1> QED
  BY BundleInvariant, <1>1, PTL

\* What jadx is then given is such a mix.
LEMMA FitsInMixes ==
  ASSUME Types, run \in Working, Member # {}, \A m \in Member : Fits(m)
  PROVE  {splits[m].of : m \in Member} \in Mixes(run.given)
<1> DEFINE of == [m \in Member |-> splits[m].of]
           Fitting == {f \in [Member -> Version] :
                         \A m \in Member : SizeOf[f[m]][m] = SizeOf[run.given][m]}
<1>1. \A m \in Member : splits[m].of \in Version
  BY DEF Types, Fits, Split, None, Torn
<1>2. of \in Fitting
  BY <1>1 DEF Fits
<1>3. {of[m] : m \in Member} = {splits[m].of : m \in Member}
  OBVIOUS
<1>4. Mixes(run.given) = {{f[m] : m \in Member} : f \in Fitting}
  BY DEF Mixes
<1> HIDE DEF of, Fitting
<1>5. {of[m] : m \in Member} \in {{f[m] : m \in Member} : f \in Fitting}
  BY <1>2
<1> QED
  BY <1>3, <1>4, <1>5

\* A version of which each APK has a size of its own mixes with no other.
LEMMA NoMix ==
  ASSUME NEW v \in Version,
         \A w \in Version, m \in Member : SizeOf[w][m] = SizeOf[v][m] => w = v
  PROVE  \A of \in Mixes(v) : of = {v}
<1>1. CASE Member = {}
  BY <1>1 DEF Mixes
<1>2. CASE Member # {}
  <2>1. ASSUME NEW f \in [Member -> Version],
               \A m \in Member : SizeOf[f[m]][m] = SizeOf[v][m]
        PROVE  {f[m] : m \in Member} = {v}
    <3>1. \A m \in Member : f[m] = v
      BY <2>1
    <3> QED
      BY <1>2, <3>1
  <2> QED
    BY <1>2, <2>1 DEF Mixes
<1> QED
  BY <1>1, <1>2

-----------------------------------------------------------------------------
(* What a run alone extracts, and what its checkpoint passes on.           *)

\* A trusted IR in a checkpoint is the IR of the APK and code it is filed under.
TrueTo(c) ==
  c.kind = "saved" /\ c.ir.trusted => c.ir.of \in Mixes(c.apk) /\ c.ir.code = c.code

Checkpoints == TrueTo(ckpt) /\ (At("saving") => TrueTo(run.saving))

\* While a run is alone nothing but its own APK gets into what it reads.
AloneRun ==
  run.pc # "idle" /\ run.alone =>
    /\ apk = run.given
    /\ \A p \in jadx :
         p.own /\ p.from \in Mixes(run.given) /\ tree.begun \in {{}, p.from}
    /\ At("decompiled") => tree.begun = {} \/ tree.begun \in Mixes(run.given)
    /\ At("extract") => tree.begun \in Mixes(run.given)
    /\ At("save") => run.ir.trusted

\* The IR a run holds: of its own APK and by its own code, or a checkpoint's
\* with the warning that goes with it.
HeldIR ==
  /\ At("save") => run.ir.code = run.code
  /\ run.pc \in {"save", "saving", "emit", "emitting"} /\ run.ir.trusted =>
       run.ir.of \in Mixes(run.given) /\ (run.ir.code # run.code => run.warned)

LEMMA AloneStep ==
  Types /\ OwnJadx /\ UnpackedSoFar /\ BundleSoFar /\ AloneRun /\ [Next]_vars
  => AloneRun'
<1> SUFFICES ASSUME Types, OwnJadx, UnpackedSoFar, BundleSoFar, AloneRun, [Next]_vars
             PROVE  AloneRun'
  OBVIOUS
<1>0. /\ jadx \subseteq [from: SUBSET Version, own: BOOLEAN]
      /\ tree \in [begun: SUBSET Version, done: SUBSET Version]
      /\ run \in {Idle} \cup Working
      /\ run' \in {Idle} \cup Working
  BY TypesStep DEF Types
<1> USE DEF AloneRun, At, Fail, user, disk
<1>1. ASSUME NEW loaded \in BOOLEAN, Start(loaded) PROVE AloneRun'
  BY <1>0, <1>1 DEF Start
<1>2. ASSUME NEW m \in Member, Unpack(m) PROVE AloneRun'
  BY <1>0, <1>2, WorkingRun DEF Unpack, Working, WorkPc
<1>3. CASE Unpacked
  BY <1>0, <1>3, WorkingRun DEF Unpacked, Goto, Working, WorkPc
<1>4. CASE Reuse
  BY <1>0, <1>4, WorkingRun DEF Reuse, Working, WorkPc, Goto
<1>5. CASE Decompile
  <2>1. run \in Working /\ run' = Goto("jadx") /\ Goto("jadx") \in Working
    BY <1>0, <1>5, WorkingRun, GotoTyped DEF Decompile, WorkPc
  <2>2. run'.pc = "jadx" /\ run'.given = run.given /\ run'.alone = run.alone
    BY <2>1 DEF Goto, Working
  <2>3. ASSUME run.alone PROVE jadx = {} /\ apk = run.given
    BY <1>5, <2>1, <2>3 DEF Decompile, OwnJadx, Working, WorkPc
  <2>4. ASSUME run.alone PROVE Inputs \in Mixes(run.given)
    <3>1. CASE Member = {}
      BY <2>3, <2>4, <3>1 DEF Inputs, Mixes
    <3>2. CASE Member # {}
      BY <1>5, <2>1, <3>2, FitsInMixes DEF Decompile, Inputs, BundleSoFar
    <3> QED
      BY <3>1, <3>2
  <2>5. tree.begun = {} /\ UNCHANGED <<apk, tree>>
    BY <1>5 DEF Decompile, HasJavaSources
  <2> DEFINE started == [from |-> Inputs, own |-> TRUE]
  <2>6. jadx' = jadx \cup {started} /\ started.own /\ started.from = Inputs
    BY <1>5 DEF Decompile
  <2>7. (Mixes(run.given))' = Mixes(run.given)
    BY <2>2 DEF Mixes
  <2> HIDE DEF started
  <2> QED
    BY <2>2, <2>3, <2>4, <2>5, <2>6, <2>7
<1>6. CASE Decompiled
  BY <1>0, <1>6, WorkingRun DEF Decompiled, HasJavaSources, Goto, Working, WorkPc, Idle
<1>7. CASE run' = Idle
  BY <1>7 DEF Idle
<1>8. CASE Extract
  BY <1>0, <1>8, WorkingRun DEF Extract, Working, WorkPc, Goto
<1>9. CASE Save
  BY <1>0, <1>9, WorkingRun DEF Save, Working, WorkPc, Goto
<1>10. CASE Saved
  BY <1>0, <1>10, WorkingRun DEF Saved, Working, WorkPc, Goto
<1>11. CASE Loaded
  BY <1>0, <1>11, WorkingRun DEF Loaded, Working, WorkPc, Goto
<1>12. CASE Emit
  BY <1>0, <1>12, WorkingRun DEF Emit, Working, WorkPc, Goto
<1>13. ASSUME NEW p \in jadx, JadxWrites(p) PROVE AloneRun'
  <2>1. run' = run /\ jadx' = jadx /\ apk' = apk
    BY <1>13 DEF JadxWrites
  <2>2. tree'.begun = tree.begun \cup p.from
    BY <1>0, <1>13 DEF JadxWrites
  <2> QED
    BY <2>1, <2>2 DEF OwnJadx
<1>14. ASSUME NEW p \in jadx, JadxEnds(p) PROVE AloneRun'
  <2>1. tree'.begun = tree.begun /\ jadx' = jadx \ {p} /\ apk' = apk
    BY <1>0, <1>14 DEF JadxEnds
  <2>2. CASE p.own
    <3>1. run \in Working /\ run.pc = "jadx" /\ run' = Goto("decompiled")
      BY <1>0, <1>14, <2>2, WorkingRun DEF JadxEnds, OwnJadx, WorkPc
    <3>2. run'.pc = "decompiled" /\ run'.given = run.given /\ run'.alone = run.alone
      BY <3>1 DEF Goto, Working
    <3> QED
      BY <2>1, <3>1, <3>2
  <2>3. CASE ~p.own
    BY <1>14, <2>1, <2>3 DEF JadxEnds
  <2> QED
    BY <2>2, <2>3
<1>15. CASE ReplaceApk
  BY <1>0, <1>15 DEF ReplaceApk, Disturbed, Working
<1>16. CASE EditCode
  BY <1>16 DEF EditCode
<1>17. CASE UNCHANGED vars
  BY <1>17 DEF vars
<1> QED
  BY <1>1, <1>2, <1>3, <1>4, <1>5, <1>6, <1>7, <1>8, <1>9, <1>10, <1>11, <1>12,
     <1>13, <1>14, <1>15, <1>16, <1>17
  DEF Next, RunStep, JadxStep, JadxTimesOut, Refused, Emitted, GivesUp, Crash

LEMMA HeldStep ==
  Types /\ AloneRun /\ Checkpoints /\ HeldIR /\ [Next]_vars => HeldIR'
<1> SUFFICES ASSUME Types, AloneRun, Checkpoints, HeldIR, [Next]_vars PROVE HeldIR'
  OBVIOUS
<1>0. run \in {Idle} \cup Working /\ ckpt \in Checkpoint
  BY DEF Types
<1> USE DEF HeldIR, At, Fail, user, disk
<1>1. ASSUME NEW loaded \in BOOLEAN, Start(loaded) PROVE HeldIR'
  BY <1>0, <1>1 DEF Start
<1>2. ASSUME NEW m \in Member, Unpack(m) PROVE HeldIR'
  BY <1>0, <1>2, WorkingRun DEF Unpack, Working, WorkPc
<1>3. CASE Reuse
  BY <1>0, <1>3, WorkingRun DEF Reuse, Working, WorkPc, Goto
<1>4. ASSUME NEW pc \in WorkPc \ {"save", "saving", "emit", "emitting"},
             run \in Working, run' = Goto(pc)
      PROVE  HeldIR'
  BY <1>4, GotoTyped DEF WorkPc
<1>5. CASE run' = Idle
  BY <1>5 DEF Idle
<1>6. CASE Extract
  BY <1>0, <1>6, WorkingRun DEF Extract, AloneRun, Working, WorkPc, Goto
<1>7. CASE Save
  <2>1. run \in Working
    BY <1>0, <1>7, WorkingRun DEF Save, WorkPc
  <2>2. /\ run'.pc = "saving" /\ run'.ir = run.ir /\ run'.given = run.given
        /\ run'.code = run.code /\ run'.warned = run.warned
    BY <1>7, <2>1 DEF Save, Working, WorkPc, Goto
  <2> QED
    BY <1>7, <2>2 DEF Save
<1>8. ASSUME NEW pc \in {"emit", "emitting"}, run \in Working, run' = Goto(pc),
             run.pc \in {"saving", "emit"}
      PROVE  HeldIR'
  BY <1>8 DEF Goto, Working
<1>9. CASE Loaded
  <2>1. run \in Working
    BY <1>0, <1>9, WorkingRun DEF Loaded, WorkPc
  <2>2. /\ run'.pc = "emit" /\ run'.ir = ckpt.ir /\ run'.given = ckpt.apk
        /\ run'.code = code /\ run'.warned = (ckpt.code # code)
    BY <1>9, <2>1 DEF Loaded, Accepted, Working, WorkPc, Goto
  <2>3. ckpt.ir.trusted => ckpt.ir.of \in Mixes(ckpt.apk) /\ ckpt.ir.code = ckpt.code
    BY <1>9 DEF Loaded, Accepted, Checkpoints, TrueTo
  <2>4. run'.pc # "save"
    BY <2>2
  <2>5. run'.ir.trusted =>
          run'.ir.of \in Mixes(run'.given) /\ (run'.ir.code # run'.code => run'.warned)
    BY <2>2, <2>3
  <2> QED
    BY <2>4, <2>5
<1>10. CASE run' = run
  BY <1>10
<1>11. ASSUME NEW p \in jadx, JadxEnds(p) PROVE HeldIR'
  <2>1. CASE run' = run
    BY <2>1
  <2>2. CASE run' = Goto("decompiled")
    BY <1>0, <2>2 DEF Goto, Working, Idle
  <2> QED
    BY <1>11, <2>1, <2>2 DEF JadxEnds
<1>12. CASE ReplaceApk
  BY <1>0, <1>12 DEF ReplaceApk, Disturbed, Working
<1> QED
  BY <1>0, <1>1, <1>2, <1>3, <1>4, <1>5, <1>6, <1>7, <1>8, <1>9, <1>10, <1>11, <1>12,
     WorkingRun
  DEF Next, RunStep, JadxStep, Unpacked, Decompile, Decompiled, JadxTimesOut, Saved,
      Refused, Emit, Emitted, GivesUp, Crash, EditCode, JadxWrites, WorkPc, vars

LEMMA CheckpointsStep ==
  Types /\ AloneRun /\ HeldIR /\ Checkpoints /\ [Next]_vars => Checkpoints'
<1> SUFFICES ASSUME Types, AloneRun, HeldIR, Checkpoints, [Next]_vars
             PROVE  Checkpoints'
  OBVIOUS
<1>0. run \in {Idle} \cup Working /\ ckpt \in Checkpoint
  BY DEF Types
<1> USE DEF Checkpoints, At, Fail, user, disk
<1>1. CASE Save
  <2>1. run \in Working
    BY <1>0, <1>1, WorkingRun DEF Save, WorkPc
  <2> DEFINE ir == [run.ir EXCEPT !.trusted = run.alone /\ code = run.code]
  <2>2. ir.trusted = (run.alone /\ code = run.code) /\ ir.of = run.ir.of
        /\ ir.code = run.ir.code
    BY <2>1 DEF Working, IR
  <2>3. run'.saving = [kind |-> "saved", apk |-> apk, code |-> code, ir |-> ir]
    BY <1>1, <2>1 DEF Save, Goto, Working
  <2>4. ASSUME ir.trusted PROVE ir.of \in Mixes(apk) /\ ir.code = code
    BY <1>1, <2>1, <2>2, <2>4 DEF Save, AloneRun, HeldIR, Working, WorkPc
  <2>5. TrueTo(run.saving)'
    <3>1. /\ run'.saving.ir = ir /\ run'.saving.apk = apk
          /\ run'.saving.code = code
      BY <2>3
    <3> HIDE DEF ir
    <3> QED
      BY <2>4, <3>1 DEF TrueTo
  <2>6. ckpt' = Torn
    BY <1>1 DEF Save
  <2> QED
    BY <2>5, <2>6 DEF TrueTo, Torn
<1>2. CASE Saved
  BY <1>0, <1>2, WorkingRun DEF Saved, TrueTo, Goto, Working, WorkPc
<1>3. ASSUME ckpt' = ckpt, run'.pc # "saving" PROVE Checkpoints'
  BY <1>3 DEF TrueTo
<1>4. ASSUME ckpt' = ckpt, run'.pc = run.pc, run'.saving = run.saving
      PROVE  Checkpoints'
  BY <1>4 DEF TrueTo
<1>5. ASSUME NEW loaded \in BOOLEAN, Start(loaded) PROVE Checkpoints'
  BY <1>3, <1>5 DEF Start
<1>6. ASSUME NEW m \in Member, Unpack(m) PROVE Checkpoints'
  BY <1>0, <1>4, <1>6, WorkingRun DEF Unpack, Working, WorkPc
<1>7. ASSUME NEW pc \in WorkPc \ {"saving"}, run \in Working, run' = Goto(pc),
             ckpt' = ckpt
      PROVE  Checkpoints'
  BY <1>3, <1>7, GotoTyped DEF WorkPc
<1>8. CASE Reuse
  BY <1>0, <1>3, <1>8, WorkingRun DEF Reuse, Goto, Working, WorkPc
<1>9. CASE Extract
  BY <1>0, <1>3, <1>9, WorkingRun DEF Extract, Goto, Working, WorkPc
<1>10. CASE Loaded
  BY <1>0, <1>3, <1>10, WorkingRun DEF Loaded, Goto, Working, WorkPc
<1>11. CASE run' = Idle /\ ckpt' = ckpt
  BY <1>3, <1>11 DEF Idle
<1>12. ASSUME NEW p \in jadx, JadxEnds(p) PROVE Checkpoints'
  BY <1>0, <1>12 DEF JadxEnds, TrueTo, Goto, Working, Idle
<1>13. CASE ReplaceApk
  BY <1>0, <1>4, <1>13 DEF ReplaceApk, Disturbed, Working
<1>14. CASE UNCHANGED <<ckpt, run>>
  BY <1>14 DEF TrueTo
<1> QED
  BY <1>0, <1>1, <1>2, <1>5, <1>6, <1>7, <1>8, <1>9, <1>10, <1>11, <1>12, <1>13, <1>14,
     WorkingRun
  DEF Next, RunStep, JadxStep, Unpacked, Decompile, Decompiled, JadxTimesOut, Refused,
      Emit, Emitted, GivesUp, Crash, EditCode, JadxWrites, WorkPc, vars

LEMMA OutputStep == HeldIR /\ OutputIsOfItsApk /\ [Next]_vars => OutputIsOfItsApk'
<1> SUFFICES ASSUME HeldIR, OutputIsOfItsApk, [Next]_vars PROVE OutputIsOfItsApk'
  OBVIOUS
<1>1. CASE out' = out
  BY <1>1 DEF OutputIsOfItsApk
<1>2. CASE Emit
  BY <1>2 DEF Emit, Torn, OutputIsOfItsApk
<1>3. CASE Emitted
  BY <1>3 DEF Emitted, HeldIR, At, OutputIsOfItsApk
<1> QED
  BY <1>1, <1>2, <1>3
  DEF Next, RunStep, JadxStep, Start, Unpack, Unpacked, Reuse, Decompile, Decompiled,
      JadxTimesOut, Extract, Save, Saved, Loaded, Refused, GivesUp, JadxWrites, JadxEnds,
      Crash, ReplaceApk, EditCode, disk, vars

\* A run that did all the work itself, on a file nobody touched meanwhile, emits
\* an integration of that file, and so does every later run from its checkpoint:
\* for any versions, edits and jadx left running by crashed runs, as far as the
\* sizes of APKs tell the versions apart (NoMix: exactly, where all sizes differ).
THEOREM EmitsItsOwnApk == Spec => []OutputIsOfItsApk
<1> DEFINE IInv == AloneRun /\ HeldIR /\ Checkpoints /\ OutputIsOfItsApk
           Before == Types /\ OwnJadx /\ UnpackedSoFar /\ BundleSoFar
<1>1. Init => IInv
  BY DEF Init, AloneRun, HeldIR, Checkpoints, TrueTo, OutputIsOfItsApk, At, Idle, None
<1>2. Before /\ IInv /\ [Next]_vars => IInv'
  BY AloneStep, HeldStep, CheckpointsStep, OutputStep
<1>3. Spec => []Before
  BY TypesInvariant, BundleInvariant, PTL
<1> QED
  <2>1. Spec => []IInv
    BY <1>1, <1>2, <1>3, PTL DEF Spec
  <2> QED
    BY <2>1, PTL
=============================================================================
