--------------------------- MODULE ExtractionCache ---------------------------
(***************************************************************************)
(* What runs of the engine leave on disk for the next one, for one apk_id: *)
(* the unpacked split APKs (ingestion/bundle.py), the tree jadx decompiles *)
(* them to (ingestion/decompiler.py) and the checkpoint of the extracted   *)
(* IR (pipeline.py).  All three are found by the apk_id, so runs on        *)
(* different APKs meet in them.                                            *)
(*                                                                         *)
(* One run at a time uses the apk_id.  It can fail or die at any point; a  *)
(* jadx it started may outlive it.  Meanwhile the user may put another     *)
(* version of the APK in place and edit the engine's own code.             *)
(***************************************************************************)
EXTENDS Integers, FiniteSets

CONSTANTS
  Version,   \* the versions of the app
  Member,    \* the APKs in the bundle; none: the file is a plain APK
  SizeOf,    \* [Version -> [Member -> size of the APK]]
  MaxCode,   \* bound: edits of the extraction code
  MidRun     \* whether the user changes things during a run, too

ASSUME CacheAssumption ==
  /\ MaxCode \in Nat
  /\ MidRun \in BOOLEAN
  /\ \A v \in Version : SizeOf[v] \in [Member -> Nat]

VARIABLES
  apk,     \* the version in the file the user gives
  code,    \* the version of the extraction code on disk
  splits,  \* .cache/bundles: an APK of some version, torn, or none
  tree,    \* .cache/jadx: whose files are in it, and whose are complete
  jadx,    \* the running jadx processes
  ckpt,    \* .cache/checkpoints
  run,     \* the run under way
  out      \* the emitted integration

vars == <<apk, code, splits, tree, jadx, ckpt, run, out>>
disk == <<splits, tree, ckpt, out>>
user == <<apk, code>>

None == [kind |-> "none"]
Torn == [kind |-> "torn"]

\* An IR: the versions it was extracted from, whether their trees were
\* complete, and the code that extracted it.  `trusted`: its run decompiled
\* the file itself, alone, and the file stayed what it was until the save.
IR == [of: SUBSET Version, whole: BOOLEAN, code: 0..MaxCode, trusted: BOOLEAN]
NoIR == [of |-> {}, whole |-> FALSE, code |-> 0, trusted |-> FALSE]

Split == {None, Torn} \cup [kind: {"apk"}, of: Version]

\* The checkpoint file: the hash of the APK, that of the code, and the IR.
Checkpoint == {None, Torn} \cup
  [kind: {"saved"}, apk: Version, code: 0..MaxCode, ir: IR]

\* The output, with the APK its run was given, whether a checkpoint supplied
\* the IR, and whether the run warned that it may be stale.
Output == {None, Torn} \cup
  [kind: {"emitted"}, given: Version, loaded: BOOLEAN, warned: BOOLEAN,
   code: 0..MaxCode, ir: IR]

\* A run: its steps by `pc`, the APK it reads, the code it imported, and
\* whether nothing it reads was left or changed by others.
Run == {[pc |-> "idle"]} \cup
  [pc: {"unpack", "decompile", "jadx", "decompiled", "extract", "save",
        "saving", "load", "emit", "emitting"},
   given: Version, loaded: BOOLEAN, code: 0..MaxCode, warned: BOOLEAN,
   todo: SUBSET Member, alone: BOOLEAN, ir: IR, saving: Checkpoint]

Idle == [pc |-> "idle"]

-----------------------------------------------------------------------------
Init ==
  /\ apk \in Version
  /\ code = 0
  /\ splits = [m \in Member |-> None]
  /\ tree = [begun |-> {}, done |-> {}]
  /\ jadx = {}
  /\ ckpt = None
  /\ run = Idle
  /\ out = None

At(pc) == run.pc = pc
Goto(pc) == [run EXCEPT !.pc = pc]

\* The command line.
Start(loaded) ==
  /\ At("idle")
  /\ run' = [pc |-> IF loaded THEN "load" ELSE "unpack", given |-> apk,
             loaded |-> loaded, code |-> code, warned |-> FALSE,
             todo |-> Member, alone |-> jadx = {}, ir |-> NoIR, saving |-> None]
  /\ UNCHANGED <<user, disk, jadx>>

\* The run raises: the command line reports it and exits.
Fail == run' = Idle

-----------------------------------------------------------------------------
(* bundle.apk_set                                                          *)

\* A file already there is kept when its size is the member's.
UnpackKeepsAny(m) ==  \* ... or whatever its size
  /\ At("unpack") /\ m \in run.todo
  /\ splits' = IF splits[m].kind = "apk" THEN splits
               ELSE [splits EXCEPT ![m] = [kind |-> "apk", of |-> run.given]]
  /\ run' = [run EXCEPT !.todo = run.todo \ {m}]
  /\ UNCHANGED <<user, tree, jadx, ckpt, out>>

Kept(m) ==
  splits[m].kind = "apk" /\ SizeOf[splits[m].of][m] = SizeOf[run.given][m]

Unpack(m) ==
  /\ At("unpack") /\ m \in run.todo
  /\ splits' = IF Kept(m) THEN splits
               ELSE [splits EXCEPT ![m] = [kind |-> "apk", of |-> run.given]]
  /\ run' = [run EXCEPT !.todo = run.todo \ {m}]
  /\ UNCHANGED <<user, tree, jadx, ckpt, out>>

Unpacked ==
  /\ At("unpack") /\ run.todo = {}
  /\ run' = Goto("decompile")
  /\ UNCHANGED <<user, disk, jadx>>

-----------------------------------------------------------------------------
(* decompiler.decompile                                                    *)

\* _has_java_sources
HasJavaSources == tree.begun # {}

\* The tree is already populated: it is taken for this APK's.
Reuse ==
  /\ At("decompile") /\ HasJavaSources
  /\ run' = [Goto("extract") EXCEPT !.alone = FALSE]
  /\ UNCHANGED <<user, disk, jadx>>

\* jadx opens its inputs: the unpacked APKs, or the file itself.
Inputs == IF Member = {} THEN {apk} ELSE {splits[m].of : m \in Member}

Decompile ==
  /\ At("decompile") /\ ~HasJavaSources
  /\ jadx' = jadx \cup {[from |-> Inputs, own |-> TRUE]}
  /\ run' = Goto("jadx")
  /\ UNCHANGED <<user, disk>>

Own == {p \in jadx : p.own}

\* jadx writes its first Java file, and later its last one; or it stops early
\* (out of memory, severe errors) with what it has written.
JadxWrites(p) ==
  /\ tree' = [tree EXCEPT !.begun = tree.begun \cup p.from]
  /\ tree' # tree
  /\ UNCHANGED <<user, splits, jadx, ckpt, run, out>>

JadxEnds(p) ==
  /\ \/ /\ p.from \subseteq tree.begun
        /\ tree' = [tree EXCEPT !.done = tree.done \cup p.from]
     \/ UNCHANGED tree
  /\ jadx' = jadx \ {p}
  /\ run' = IF p.own THEN Goto("decompiled") ELSE run
  /\ UNCHANGED <<user, splits, ckpt, out>>

\* "Trust the output directory rather than the exit code."
Decompiled ==
  /\ At("decompiled")
  /\ IF HasJavaSources THEN run' = Goto("extract") ELSE Fail
  /\ UNCHANGED <<user, disk, jadx>>

JadxLeftRunning ==  \* the timeout does not kill it
  /\ At("jadx")
  /\ Fail
  /\ UNCHANGED <<user, disk, jadx>>

\* After JADX_TIMEOUT jadx is killed; what it wrote stays.
JadxTimesOut ==
  /\ At("jadx")
  /\ jadx' = jadx \ Own
  /\ Fail
  /\ UNCHANGED <<user, disk>>

-----------------------------------------------------------------------------
(* The rest of _extract, and the checkpoint.                               *)

\* The scanners read the tree; the code is what the run imported.
Extract ==
  /\ At("extract")
  /\ run' = [Goto("save") EXCEPT
       !.ir = [of |-> tree.begun, whole |-> tree.begun \subseteq tree.done,
               code |-> run.code, trusted |-> run.alone]]
  /\ UNCHANGED <<user, disk, jadx>>

\* _save_checkpoint hashes the file and the code as they are now, and opens
\* the checkpoint, which empties it.
Save ==
  /\ At("save")
  /\ run' = [Goto("saving") EXCEPT
       !.saving = [kind |-> "saved", apk |-> apk, code |-> code,
                   ir |-> [run.ir EXCEPT !.trusted = run.alone /\ code = run.code]]]
  /\ ckpt' = Torn
  /\ UNCHANGED <<user, splits, tree, jadx, out>>

Saved ==
  /\ At("saving")
  /\ ckpt' = run.saving
  /\ run' = Goto("emit")
  /\ UNCHANGED <<user, splits, tree, jadx, out>>

\* _load_checkpoint: a missing or torn one, or one with another hash of the
\* APK, ends the run; one with another hash of the code is warned about.
Accepted == ckpt.kind = "saved" /\ ckpt.apk = apk

LoadedUnchecked ==  \* the APK's hash is not compared
  /\ At("load") /\ ckpt.kind = "saved"
  /\ run' = [Goto("emit") EXCEPT !.given = apk, !.code = code, !.ir = ckpt.ir,
                                 !.warned = ckpt.code # code]
  /\ UNCHANGED <<user, disk, jadx>>

LoadedUnwarned ==  \* nor that of the code
  /\ At("load") /\ Accepted
  /\ run' = [Goto("emit") EXCEPT !.given = apk, !.code = code, !.ir = ckpt.ir]
  /\ UNCHANGED <<user, disk, jadx>>

Loaded ==
  /\ At("load") /\ Accepted
  /\ run' = [Goto("emit") EXCEPT !.given = apk, !.code = code, !.ir = ckpt.ir,
                                 !.warned = ckpt.code # code]
  /\ UNCHANGED <<user, disk, jadx>>

Refused ==
  /\ At("load") /\ ~Accepted
  /\ Fail
  /\ UNCHANGED <<user, disk, jadx>>

\* The output directory is removed, then written.
Emit ==
  /\ At("emit")
  /\ out' = Torn
  /\ run' = Goto("emitting")
  /\ UNCHANGED <<user, splits, tree, jadx, ckpt>>

Emitted ==
  /\ At("emitting")
  /\ out' = [kind |-> "emitted", given |-> run.given, loaded |-> run.loaded,
             warned |-> run.warned, code |-> run.code, ir |-> run.ir]
  /\ run' = Idle
  /\ UNCHANGED <<user, splits, tree, jadx, ckpt>>

\* Tuya, a duplicate, nothing to emit, a disk that is full: the run ends early.
GivesUp ==
  /\ run.pc \in {"unpack", "decompile", "extract", "save", "emit"}
  /\ Fail
  /\ UNCHANGED <<user, disk, jadx>>

-----------------------------------------------------------------------------
(* What happens around a run.                                              *)

\* The engine dies, with or without its jadx: files it was writing are torn.
Crash ==
  /\ run.pc # "idle"
  /\ run' = Idle
  /\ \/ jadx' = jadx \ Own
     \/ jadx' = (jadx \ Own) \cup {[p EXCEPT !.own = FALSE] : p \in Own}
  /\ \/ UNCHANGED splits
     \/ \E m \in Member :
          /\ run.pc = "unpack" /\ m \in run.todo /\ ~Kept(m)
          /\ splits' = [splits EXCEPT ![m] = Torn]
  /\ UNCHANGED <<user, tree, ckpt, out>>

Disturbed == IF run.pc = "idle" THEN run ELSE [run EXCEPT !.alone = FALSE]

\* The user puts another version in the file's place.
ReplaceApk ==
  /\ MidRun \/ run.pc = "idle"
  /\ apk' \in Version \ {apk}
  /\ run' = Disturbed
  /\ UNCHANGED <<code, disk, jadx>>

EditCode ==
  /\ MidRun \/ run.pc = "idle"
  /\ code < MaxCode
  /\ code' = code + 1
  /\ UNCHANGED <<apk, disk, jadx, run>>

RunStep ==
  \/ \E m \in Member : Unpack(m)
  \/ Unpacked \/ Reuse \/ Decompile \/ Decompiled \/ JadxTimesOut
  \/ Extract \/ Save \/ Saved \/ Loaded \/ Refused \/ Emit \/ Emitted

JadxStep == \E p \in jadx : JadxWrites(p) \/ JadxEnds(p)

Next ==
  \/ \E loaded \in BOOLEAN : Start(loaded)
  \/ RunStep \/ GivesUp \/ JadxStep
  \/ Crash \/ ReplaceApk \/ EditCode

\* Nothing obliges jadx to end, or to write.
Spec == Init /\ [][Next]_vars

-----------------------------------------------------------------------------
(* Properties.                                                             *)

\* Every variable keeps its type; a jadx belongs to the run only while the run
\* waits for it, so that one a run leaves behind is never taken for its own.
TypeOK ==
  /\ apk \in Version /\ code \in 0..MaxCode
  /\ splits \in [Member -> Split]
  /\ tree \in [begun: SUBSET Version, done: SUBSET Version]
  /\ jadx \subseteq [from: SUBSET Version, own: BOOLEAN]
  /\ ckpt \in Checkpoint /\ run \in Run /\ out \in Output
  /\ Own # {} <=> At("jadx")
  /\ tree.done \subseteq tree.begun

\* The sets of versions that the APKs of a bundle may be of, when all that is
\* known of each is that it has the size of the one in version v's bundle.
Mixes(v) ==
  LET fitting == {of \in [Member -> Version] :
                    \A m \in Member : SizeOf[of[m]][m] = SizeOf[v][m]}
  IN  IF Member = {} THEN {{v}} ELSE {{of[m] : m \in Member} : of \in fitting}

\* A run that did all the work itself, on a file nobody touched meanwhile,
\* emits an integration of that file, as far as the sizes of its APKs tell them
\* from those of other versions, and so does every later run from its
\* checkpoint: nothing else that crashed runs left gets into it.  A run from a
\* checkpoint made by other code than is there now has warned of it, if the code
\* was not edited while the checkpoint was made.
OutputIsOfItsApk ==
  out.kind = "emitted" /\ out.ir.trusted =>
    out.ir.of \in Mixes(out.given) /\ (out.ir.code # out.code => out.warned)

\* What jadx is given is whole APKs, each of the size of the bundle's own,
\* whatever earlier runs unpacked or left torn: it is the bundle's own but where
\* another version's has that very size, which is all that is compared.
UnpackedFitsTheBundle ==
  At("decompile") => \A m \in Member :
    splits[m].kind = "apk" /\ SizeOf[splits[m].of][m] = SizeOf[run.given][m]

\* "{path} was made from a different APK": a checkpoint that is accepted for a
\* file was made from it.
AcceptedIsOfTheApk == Accepted => ckpt.ir.of = {apk}
=============================================================================
