# apk-to-ha: TLA+ models, model checking and proofs

`apk-to-ha` turns an Android APK into a Home Assistant integration. It decompiles
the app, extracts a protocol IR from the Java source, emits a Python SDK and a HACS
integration from templates, and validates and repairs what it emitted until a verdict
can be given. An optional dynamic oracle runs the app in an Android container against a
mock device. What the engine emits is itself a concurrent program: clients of a device
that may go away at any time, under Home Assistant's coordinators.

This directory holds TLA+ modules of the parts with behaviour in time and of the
extraction's algorithms, the TLC configurations that check them on small instances, and
proofs that hold for every value of their parameters. Paths below are relative to the
repository.

    tlc -config FixLoop.cfg MCFixLoop        # check one run
    tlapm FixLoop_proofs.tla                 # check one module's proofs

## 1. The system

| Component | State it keeps | Operations | Interacts with | What is hard | What makes it correct |
|---|---|---|---|---|---|
| Validate-and-fix loop, run verdict (`src/engine/pipeline.py`, `validation/`, `__main__.py`) | the emitted output on disk; attempts per finding; cycles; unresolved findings; `summary.json`; exit code | V-1 ruff, V-2 hassfest (+ official image), V-5 fix router, V-4 rubric, V-3 container, V-7 log analysis, verdict | Docker, ruff, the emitted files | fixes that undo each other; validators that cannot run; reports that go stale once a fix edits the output | a verdict is true of the output on disk; every run ends |
| Generated push integration (`templates/sdk/client.py.j2`, `templates/hacs/coordinator.py.j2`, `__init__.py.j2`) | socket, listener task, first-state event, callbacks; update interval, timers; the config entry | connect, disconnect, listen, dispatch; set-up, refresh, push, loss, unload | Home Assistant's coordinator and debouncer, aiohttp, the device | every interleaving at an `await`; a loss during the refresh that reconnects | a lost link is retried; no socket is orphaned; entities show what the device sent |
| Extraction caches and checkpoint (`ingestion/bundle.py`, `ingestion/decompiler.py`, `pipeline.py`) | unpacked splits, decompiled tree, checkpoint, output, all by `apk_id` | unpack, decompile, extract, save, load, emit | jadx, the user's file and code | crashes between any two steps; a jadx that outlives its run; files of another version | the output is of the APK it was made for; stale checkpoints are warned about |
| Dynamic oracle (`dynamic/oracle.py`, `redroid_runner.py`, `adb_client.py`, `frida_runner.py`, `mock_device_server.py`) | the container by its fixed name, ports, the cached frida-server | start, boot wait, adb commands, mock server, capture, release | Docker, adb, frida | a dozen steps that fail with something acquired; a removal nobody awaits | whatever was acquired is given back on every way out |
| Signers and reconciliation (`dynamic/ir_reconciler.py`, `capture_model.py`, `extraction/signing_emitter.py`, the gaps of `dynamic/oracle.py`) | none: a function of IR and capture | choose a trace, find gaps, correct and boost traces, add and confirm commands | oracle, IR | the order of a set; the best trace is not the matched one; bodies that are not objects | a capture adds and confirms, and takes nothing away |
| Generated Bluetooth client, coordinator and switch (`templates/sdk/ble_client.py.j2`, `templates/hacs/ble_coordinator.py.j2`) | the `BleakClient`, a connected flag, notified values, data shown | connect with retries, read, write, notify; set-up, poll, unload | bleak, Home Assistant | no lock: every task reconnects when it finds the link down; callbacks of links that were replaced | one link, known to be up; a stale value is set right |
| Generated GATT client, coordinator and entities (`templates/sdk/ble_gatt/`, `templates/hacs/ble_gatt/`) | a lock, data shown | an operation connects, exchanges, disconnects under a timeout | bleak, Home Assistant, the device's own buttons | polls beside writes that are shown unread; timeouts in the way out | what is shown is the device's; operations end |
| Other generated clients (`templates/sdk/`: BLE auth, HTTP, GraphQL, discovery, video stream) | connection, lock | challenge and response, requests, back-off | bleak, aiohttp, Home Assistant | timeouts, retries | operations end |
| Other generated Home Assistant code (`templates/hacs/`: polling coordinators, entities, config flows) | data shown, optimistic state | poll, write, reauth, flows | the clients | a poll racing a write | what is shown is the device's |
| Duplicate check (`duplicate_check/checker.py`) | three cached files with a time to live | fetch, cache, match the app's name, brands and services | GitHub | partial fetches cached like complete ones, in files made from each other; a crash while one is saved | what a failed fetch spoils comes right again |
| Signing tracer and LLM escalation (`extraction/crypto_scanner.py`, `java_code_graph.py`, `signing_tracer.py`, `llm/escalator.py`) | a work list; components found; what is unresolved | find crypto uses, resolve names, calls and builders back to what is signed; ask the LLM for the rest | the decompiled tree, the LLM | text that refers to itself; order of files; rate limits; an answer that replaces what was known | what is confident is what the app signs; every trace ends |
| Protocol, Bluetooth and source scanners (`extraction/app_sources.py`, `protocol_scanner.py`, `ble_scanner.py`, `ble_gatt_profile.py`, `pipeline.py`) | directories followed; constants and lists; endpoints by name; the IR | follow imports, collect constants, read sends, attach replies, merge with what the library scanners find, decide to emit | the decompiled tree, reconciliation | imports in a ring; two sends of one command; facts from one file that correct those of another, in the order of a directory | the IR is the app's protocol, whatever the order of its files |
| Framed protocol (`extraction/framed_scanner.py`, `framed_codec.py`, `scripts/framed_hw_check.py`) | the description of the frames; notifications in a queue | scan, encode, decode, check against a device | the decompiled tree, a Bluetooth device | bytes and their signs; constants of one name in two classes; late answers, several frames in a notification | what is written is what the app writes; what is shown is the device's |
| Other extraction scanners (`extraction/`: HTTP and Retrofit libraries, GraphQL, React Native, discovery, payload enrichment, entity classifier) | none | text scanners | the protocol scan | regular expressions | the IR says what the source says |
| Emitters and IR (`emitters/`, `ir/`) | the output directory | render, validate OpenAPI | templates | names that collide | the output is well formed |
| Log analysis and rubric (`validation/log_analyzer.py`, `quality_checker.py`, `quality_rubric.py`) | none | classify log lines, score | container output | precedence of patterns | errors are seen |
| Ingestion helpers, snapshots, scripts | none, or a file | single requests | network | retries | — |

`PROJECT.json` lists the components with their status, and under `hazards` each place
where the code can go wrong in a way a test would hardly reach, with the property that
would catch it.

## 2. The modules

### `RunVerdict`, `FixLoop` — the loop and its verdict

`RunVerdict` is what a run promises and nothing of how: a bounded number of edits of the
output, then one verdict, truthful of the output as it stands. `FixLoop` is
`analyze()` from the first validation to the exit code. The output is the set `tree` of
its defects; what ruff or hassfest look for is abstracted to which check reports which
defect, and a fix to the defects it removes and those it may leave in the file it
rewrites (`Spill`).

| `FixLoop` | code |
|---|---|
| `Validate` | the `gather` of two ruff runs and hassfest; any of them may be down, the image may fail without naming a finding (`HassfestFailed`) |
| `Clean`, `GiveUp`, `Fix` | the three ways through the body of the `while True`: leave clean, leave with the blocking findings, fix and go round |
| `Exhausted`, `Record` | `FindingTracker` |
| `Rubric`, `Container` | V-4; V-3 with V-7 over its log |
| `RunStatus`, `Conclude` | `_run_status`, the summary and `_FAILING_STATUSES` |
| `Abort` | an exception that `main()` reports |

`unresolved`, `report`, `attempts`, `cycles` are the locals of those names;
`tree` has no variable in the code: it is the disk.

### `PushClient`, `PushLink` — the push integration at run time

`PushClient` is the WebSocket client as operators from a client record to the next, one
for each stretch of code between two awaits. `PushLink` composes it with the coordinator
and the entry. A task's position is `call[t]` (`opening`: in `ws_connect`; `pairing`: in
the wait for the first state; `closing`: in `ws.close`). The tasks are the set-up, one
refresh (Home Assistant runs refreshes under a lock) and the unload. `sock` is the state
of each socket, `listener` the `_listen` tasks, `ws` and `listenTask` the attributes.

Two facts of asyncio shape the interleavings. All waiters of one event become ready
together and run before new I/O (`Settled`, `resuming`); and messages that arrived
together are handled by one run of the listener (`LastRead`). `DataUpdateCoordinator`
and `Debouncer` are not in the repository: `Scheduled`, `RefreshRequested`,
`RefreshBegun`, `ShutDown` model the part the generated code relies on and are marked
external in `PROJECT.json`.

### `ExtractionCache` — what runs leave for the next

All caches are found by the `apk_id`, not by the APK's content, so runs on different
versions of an app meet in them. `splits`, `tree`, `ckpt`, `out` are the directories
`.cache/bundles`, `.cache/jadx`, `.cache/checkpoints` and the output; each holds which
version it came from, or is torn. `jadx` is the set of running processes: a run that
dies may leave its own behind (`own = FALSE`). `ReplaceApk`, `EditCode`, `Crash` are
what happens around a run, at any moment when `MidRun` is TRUE. The scanners are one
step, `Extract`, which reads the tree. A ghost field `trusted` says of an IR that its
run decompiled the file itself, alone.

### `DynamicOracle` — acquisition and release

One action per step of `oracle.run`; each may fail, and where the failure goes is the
module's subject: `Skip` before there is anything to release, `stop_container` within
`redroid()`, `stop_mock` within the inner `try`. Docker knows one container by its name
(`holder`); `removers` counts the `docker rm -f` processes `start_container` starts
without awaiting their end. The boot is a loop of `docker exec` (`Poll`, `Booted`)
whose deadline (`DeadlinePasses`) is looked at between two of them (`BootTimesOut`).
Docker may fail to remove a container, which neither removal looks at: `refused` holds
the runs that `stop_container` failed in this way (`Released`). `Die` is the process
being killed: ports are freed by the operating system, the container stays.

### `BleLink` — the Bluetooth half of an integration

The client, its coordinator and the entry, for a device with notified and polled
characteristics. The client is a record `ble`; operators take it from one await to the
next, and `call[t]` says where task `t` is: in `BleakClient.connect()`, in the sleep
between two attempts, in the operation itself, or closing. Each `BleakClient` is a
member of `Link`; one that nobody refers to is used again, and with every link taken an
attempt fails, as an adapter's does. `overlapped` is a ghost: that a `connect()` or
`disconnect()` ever began inside another, which the code does not prevent and the safety
properties except, so that they say what single operations in turn guarantee.

### `GattLink` — reads and writes in operations of their own

`_connected()` is the way in and out of every operation: the lock, the connection, the
exchange, the disconnect. `at[t]` is the place of a task on that way; `late` is the
disconnect of an operation whose timeout was used up, which nothing bounds. A connection
that a failed `disconnect()` leaves open is not tracked: no later operation uses it. A
write that cannot be told from a failed one may have been taken all the same
(`BreaksOffTo`), and the device has buttons of its own (`OperatedByHand`); `unsure` is a
ghost of the keys changed that way and not polled since.

### `DuplicateIndex` — what Home Assistant already covers

`check()` goes from one signal to the next, an action each: the package, the name
(`CheckName`), the brands (`CheckBrands`), the Bluetooth services (`CheckServices`,
`MakeIndex`). `file` is `_CACHE_DIR`: the components, the manifests and the UUID index,
each absent, torn or whole with the integrations it tells of and its age in ticks.
Matching words is abstracted to what an app names and how often sentences mention it;
an outcome is the integration found and its coverage, of which "full" stops the engine.
A fetch may bring any subset. `Dies` can leave the file it was saving torn, and
`Raises` is the JSON error a torn file causes. The ghost `calm` counts the ticks since
something fetched was last incomplete. Ticks fall between checks: a check takes minutes
at most, a file is kept for a week. One check runs at a time.

### `ProtocolScan`, `BleScan` — from source files to the IR

An app is a set of directories, each with its kind, what it imports and its files; a file
is a record of what the scanners' patterns find in it. Patterns are not state; what is
done with their matches is, and that is what the modules model. `FollowImports` and
`FindFiles` are `app_sources.py`: a breadth-first search over imports, and then the files
in any order. `CollectConstants` to `AttachResponses` are the passes of
`protocol_scanner.py`: constants by name, lists of commands that expect or expect no
reply, the transport, the endpoints and which source wins for a command found twice,
replies by the class they are decoded into. `Split` and `AddGraphQL` sort the endpoints
and complete them with what the GraphQL scanner found; `ExtractModes` reads the numbered
modes, each named by the action mentioned before it, of which `FillHttpState` makes the
values of the fields called "mode"; `DetectStreaming` is a second connection for images.
`AddBluetooth`, `Oracle` and `Emit` are the stretch of `pipeline.py` from there to the
decision to emit. `Lists` has the selections and dictionaries both modules are built from.

`BleScan` is the Bluetooth scanner as operators on one text, the files one after the
other: `Binding` looks back for the last assignment of a local, because decompiled code
reuses names; `TakesValue` follows a method's argument to the characteristic it is
written to; `DetectChallenge` is the login profile.

### `SigningTrace` — what an app signs

A work list (`todo`) of names and expressions, resolved one at a time: `Step` takes the
first and puts what it stands for in its place, so that parts come out in the order they
are signed. `ResolveVar`, `ResolveName`, `ResolveCall`, `Concat` and `Appended` are the
branches of the tracer; `ResolveDepth` and `CallDepth` its limits. An expression is a
name, a literal, a call, a conversion such as `String.valueOf(x)`, or a concatenation,
whose parts are symbols with `+` and parentheses among them: `Operands` cuts it at the
pluses outside parentheses, `Unwrapped` takes conversions off, and `IsLiteral` sees what
begins and ends as a literal does. What a name stands for is told by its words (`Words`,
a constant) and the ordered rules of `_KIND_RULES` (`Rules`, `KindOf`). Trace by trace,
`Answered`, `NotAnswered` and `RateLimited` are the LLM. The run ends with `Captured`.
A class's file is found by its simple name (`ClassFile`): sources lie below the
directory the pipeline passes, so the two paths tried first do not exist. `IsReadable`
is a predicate of the app, used by the property `SignsTheMessage` alone: the apps whose
text the tracer's first-match searches read right.

### `Reconcile` — what a capture changes

Operators used by `SigningTrace` and `ProtocolScan`: `Best` (the trace the signer is
generated from), `Gaps` (what a capture could fill, and so whether the oracle runs),
`Signing` and `PatchedTraces` (digests seen against traces), `Reconciled` (frames,
requests and ports against commands). New commands come from a set, so `Outcomes` is the
set of results, one for each order; `Raises` is a body that is JSON and no object.

### `FramedCodec`, `FramedScanner`, `FramedCheck` — framed protocols

`FramedCodec` turns a description of frames into bytes and back, with the code's widths
(`Low8`, signed constants). `FramedScanner` reads the description out of the classes:
`Lookup` of a constant, in the class it is qualified with and no other; `FrameHeader`,
`Subclasses`, `Command`, `TokenReplies` and the transport. `FramedCheck` is the script
that checks one against a device: `Sent`, `Received` within the window of a request,
`WindowEnds`, `Concluded`. The device answers when it does (`Delivered`: in that window,
a later one or none) and notifies on its own (`Notified`). The script's
`cmd` is `current` here; the specification and its type invariant have names of their own
(`CheckSpec`, `CheckTyped`), since `Extraction_proofs` speaks of all the modules of the
extraction at once.

## 3. What TLC checks

| Run | Instance | Shows |
|---|---|---|
| `fix_loop` | `MCFixLoop`, `FixLoop.cfg` | all properties of the loop, and that it implements `RunVerdict` |
| `push_link` | `PushLink.cfg` | all interleavings of set-up, refresh, unload and the device |
| `push_link_retries` | `PushLinkRetries.cfg` | a statement of the code's documentation that does not hold (section 5) |
| `extraction_cache` | `MCExtractionCache`, `ExtractionCache.cfg` | what runs leave for the next, with crashes and edits at any moment |
| `dynamic_oracle` | `DynamicOracle.cfg` | release on every way out |
| `ble_link` | `BleLink.cfg` | which links stay open and what is shown, for operations in turn |
| `ble_link_notify` | `BleLinkNotify.cfg` | a statement that does not hold (section 5) |
| `gatt_link` | `GattLink.cfg` | what is shown against what the device has; which operations can hang |
| `duplicate_index` | `MCDuplicateIndex`, `DuplicateIndex.cfg` | for how long a failed fetch is felt, and that checks stop raising |
| `protocol_scan` | `MCProtocolScan`, `ProtocolScan.cfg` | the directories read, the protocol found, and what a capture does to it |
| `signing_trace` | `MCSigningTrace`, `SigningTrace.cfg` | what confident traces say, what the LLM may change, that tracing ends |
| `framed_check` | `MCFramedCheck`, `FramedCheck.cfg` | what is sent, shown and counted as answered |

**Bounds and why they are enough.**

- `FixLoop`: one defect of every kind the code tells apart (a lint finding ruff can fix
  and one it cannot, each in its own directory; a style finding; a hassfest finding the
  structural checks see and one only the image sees, both with a strategy), and one
  strategy that brings a finding of another kind back. Budgets of 2 attempts and 3
  cycles make both limits reachable and distinct; the code's are 3 and 10, and the
  proofs cover every value.
- `PushLink`: three sockets, so that a socket two calls lost track of can coexist with a
  third; closed sockets nobody refers to are used again, so the number of connections in
  a run is unbounded.
- `ExtractionCache`: two versions and two APKs in the bundle, one edit of the code, any
  number of runs. Two versions are what "another version" needs; a third would only
  repeat the second. The base grows with the version, the other APK keeps its size, so
  that one is told from another version's and the other is not.
- `DynamicOracle`: three runs, the first possibly finding a container of an earlier
  process: enough for two removals in flight to meet the container of a third run. The
  proofs cover every number of runs. `Udp = TRUE` is the case with two ports.
- `BleLink`: two links, the one in use and one that was lost track of; two attempts of
  the code's three, so that there is a first, a retried and a last one; one notified and
  one polled characteristic with two values each; a poll interval of one tick, since
  only the order of ticks, notifications and polls matters.
- `GattLink`: one key that is written and one that is only read. The proofs cover every
  number of keys and of concurrent writers; liveness with two writers is beyond TLC's
  five minutes, and differs only in who is next at the lock.
- `DuplicateIndex`: three integrations, two of them products (so that one can lead the
  other) and one a protocol; an app for each signal; files kept for two ticks, so that a
  file can be made from one that is older than new and still valid. Two mentions stand
  for the code's three. The bound of `VerdictsRecover` is reached: with `<` in place of
  `<=` TLC finds it violated.
- `ProtocolScan`: an app of each kind the scanners tell apart, with the cases the code
  makes provision for: modules that import each other and one that only a library
  imports; a command sent from two files, one sent by a constant whose name begins
  another's, one listed and never sent; a path two scanners know of; a lock whose code
  binds one local to several characteristics; modes set in the lines after an action and
  without one, and a class of images beside others that only look like one. Files come
  in every order; no two constants share a name (section 5). `Protocol` is what the app
  does, written by hand and not computed by the model's operators. Captures are empty,
  of frames, of requests, or of a body that is no object.
- `SigningTrace`: four classes in every order of their files, of which one builds its
  message over a call within the class, one over a helper in another file, one from
  itself; and apps with classes that call each other in a ring, a builder, a library's
  class, one with no input, one that signs `hash(path + body) + nonce`. `Signed` is what
  each signs, by hand. For every condition of `IsReadable` there is an app that breaks
  it: a message between two literals, a name assigned twice, or for another name, a
  name built up before it is appended, updates before an argument of `doFinal`, a called
  method that digests, one with a namesake, and two classes of one simple name, in both
  orders of their files. `ResolveDepth = 12` and `CallDepth = 8` are the code's; 2
  retries stand for its limit.
- `FramedCheck`: one app in three orders of its files, in which the table of opcodes
  comes before and after an older one with the same names; requests of every payload the
  scanner knows; a decoder of each kind; two devices, which support different requests;
  one unasked notification. `AppSends` and `Truth` are written by hand.

**Fairness.**

- `FixLoop`: every step of `analyze()` is awaited and returns (subprocesses it awaits
  have timeouts or are ruff); failing is never obliged.
- `PushLink`: each call of the client ends, because `ws_connect`, the wait and the close
  have timeouts; Home Assistant runs due timers and hands the lock on. The device is
  obliged to nothing: it may never answer, and it may push for ever.
- `DynamicOracle`: the engine's own steps (`OwnStep`) and the boot's deadline. Commands
  of docker and adb have no timeout in the code, and they, downloads and frida are
  obliged to nothing (`Awaited`), the removal nobody awaits neither. So a run may wait
  for ever; `EndsOrAwaitsOneAnswer` says that it then waits for one command, and that no
  loop of the engine's, such as the boot's, goes round for ever.
- `BleLink`: a call of bleak returns or raises, time passes, due polls run. The device
  is obliged to nothing.
- `GattLink`: the timeout expires, in whatever the operation is waiting for when it does,
  but only once. `Acquire` is strongly fair: `asyncio.Lock` wakes its waiters in order.
- `DuplicateIndex`: a check that is made is carried through, each of its requests having
  a timeout, and time passes between checks, however many there are.
- `SigningTrace`: a sequential program takes its next step. The LLM may limit the rate,
  fail or answer at each.
- `ExtractionCache`, `ProtocolScan`, `FramedCheck` state none: only safety is checked.

Every property has a mutant in `PROJECT.json`: a change of one definition, of the kind
a plausible bug would make, under which TLC finds the property violated. The mutated
forms stand before the definitions they replace, with the bug named beside them.

## 4. What is proved

For every value of the constants, under the modules' named assumptions and no other
hypothesis.

**`FixLoop_proofs`** (assumptions: the budgets are natural numbers; the kinds of defects
are disjoint; the routing and spill functions have their types). The type invariant says
nothing of how the last report and the output relate, and the verdict rests on that. The
inductive invariant adds three parts:

- `Fresh`: from the moment it is read, a report describes the output on disk. `Fix` is
  the only step that edits the output, and it leaves for a new validation or, when it
  changed nothing it could, with the report still true.
- `Handed`: after the loop the unresolved findings are the blocking ones of that report.
- `Judged`: no verdict before the end, and then the one the results call for.

From it follow `PassIsEarned`, `ExitZeroIsClean`, `UnresolvedIsCurrent`, and
`ReviewNamesFindings`, that a run to be reviewed names a finding, which no run checks;
`AttemptsOnlyGrow`, also proved only, follows from typing; and
`LoopImplementsVerdict` shows that each step is a step of `RunVerdict` or a stutter,
`Conclude` being truthful because of `Fresh`.

**`DynamicOracle_proofs`** (assumption: `MaxRuns` is a natural number). The invariant
numbers the runs (`Numbering`, `Begun`: what exists belongs to this run or to an earlier
one, and before `docker run` to an earlier one), says what died, what docker did not
remove and what could not be bound (`Deaths`), and ties container and ports to the place
in the run (`Container`, `Ports`). `NoContainerLeftRunning` and `PortsFreedAtEnd` are
parts of it or follow. `Container` adds that past `stop_container` the run has no
container, or is one docker refused; and the numbering is needed because without it a new
run could have the number of the container a dead one left.

**`GattLink_proofs`** (assumptions: writers are keys, and the values `None`, "not read"
and the two task names are distinct from the others). `ShownIsDevice` relates the data
shown to the device now, but a poll publishes what it read earlier; the invariant
carries the truth across. `ExchangedIsDevice`: what the operation under way read or
wrote is on the device, but for what is operated by hand meanwhile, and that is marked
unsure. `PollIsComplete`: a poll that succeeded read every key, and nobody else's
operation has read any. `DoneIsClosing`: an exchange that succeeded has only to
disconnect. The type invariant holds the mutual exclusion: the lock's holder is the one
task in an operation. The two ways an operation ends are lemmas of their own
(`PollEndsKeeps`, `WriteEndsKeeps`), which four actions cite.

**`DuplicateIndex_proofs`** (assumptions: there are finitely many integrations and
products are some of them, the limits and the time to live are positive). A verdict
depends on files made from each other: manifests are fetched for the components a file
lists, and the index is made from a file of manifests. `GapsAreRecent` gives each file
in use that misses something a bound on how long ago a fetch was last incomplete: its
own age, and `Slack` for what it was made from (nothing; one lifetime; two).
`SeenIsRecent` says the same of what the check under way has read, `Passed` that the
signals it went past are missing with complete files too, unless a fetch was incomplete
recently. At the end of the check the three give `VerdictsRecover`, for every time to
live. The type invariant needs `Kept`: an answer is one of the checker's, and a kept
file of manifests names somebody. The brand that is chosen is one that is mentioned
most, and that there is one (`Foremost`) is shown by induction on how many brands there
are. The library's induction theorems take an operator, which the provers cannot
instantiate; `Induction` is the same for a set of naturals, from the theorem that a
finite set cannot be mapped one to one into itself and not onto.

**`PushLink_proofs`** (assumption: set-up, refresh and unload are tasks, and `NoSock` is
no socket). The code runs without interruption from one `await` to the next, and one
step of the model may call into the client, the coordinator and back. So the parts of
the invariant are predicates of a client record, a coordinator record and the entry, and
there is a lemma for each such stretch; a step then chains them. `Sound` is the client
alone: who was woken has a first state to find, unless calls overlapped; with no overlap
a listener runs on the client's socket only, an open socket is the client's or one whose
listener raised, and while a call opens or closes there is no connection. `Agree` says
that whoever holds the coordinator's lock is inside the client, and that nothing runs
once the entry is over; `Calls` which task may be in a call in which part of the entry's
life; `FromDevice` that what is shown once entities exist came from the device;
`Answers` that no failure is reported over a connection that stands. The last two give
`AvailabilityIsTrue`, and `Sound` gives `NoOrphanSocket`, for any number of sockets.

**`ExtractionCache_proofs`** (assumption: the bound on edits and the sizes are natural
numbers). `OwnJadx`, that a run waits for exactly one jadx of its own, is part of the
type invariant and inductive with it. Sizes are all that `_unpack` compares, so what can
be said of what a run unpacked is that each APK is whole and has the size of the bundle's
own (`BundleSoFar` on the way, then `UnpackedFits`): another version's is kept if its
size is the very same. `Mixes` is the set of what a bundle may then be made of, and has
the bundle's own version only where all sizes differ (`NoMix`). `AloneRun` says of a run
that did all the work, with no other jadx in its tree, that the tree is of one such mix
alone; `HeldIR` and `Checkpoints` carry that through the extraction, the file the
checkpoint is written to, whatever crashes and edits come between, and the run that loads
it, and give `OutputIsOfItsApk`.

**`BleLink_proofs`** (assumption: attempts and the interval are positive, there are
characteristics of both kinds, and `NoLink` and `Absent` are none of the others). There
is no lock, so the invariant must say what holds in the middle of calls: `Apart`, that
as long as operations come in turn at most one task is connecting, the client's current
link is the only one that can be open, and none is while somebody connects (`Bound`).
`Sound` puts it beside the types, as a predicate of the client, the entry and the task
whose call is ending, for a call that ends may begin another at once (a set-up that goes
on, a poll that reads the next characteristic). `Life` is what the entry allows of each
task. `NoOrphanLink` follows for any number of links, attempts and characteristics.

**`Extraction_proofs`, of `ProtocolScan`** (assumptions: an app has finitely many directories and files,
which have the fields the model's header lists; a text in quotes that a scanner takes has
a character, as the regular expressions ask for one; the frames and requests of a capture
have their types; the four texts the model writes itself are texts, for which the provers
have no rule). `SourcesAreClosed` says that the directories read are the least set with
the app's roots that is closed under imports of its modules and vendored code: nothing is
missed, though modules import each other, and nothing is read that only a library refers
to. The invariant `Followed` holds on the way: the roots are included; what is included
and no longer in the frontier has its imports included; and whatever is included is in
every closed set. With the frontier empty the second part gives closure, the third
minimality, for every app.

`ScanTyped` is the type invariant. Each pass is a fold over the files of something that
reads what earlier passes made, so the invariant `Scanning` says of every variable at once
what the next pass relies on: that the files are a list of the app's, that constants have
names and non-empty values, that lists hold commands, and that an endpoint is kept under
its own name, with a confidence from 1 to 100. The lemmas below it are one per pass, and
under those are the lemmas on lists: what a fold keeps if each step keeps it (`Folding`),
what is in a list that was selected, flattened, sorted or made of a set (`ThoseOf`,
`FlattenTyped`, `ListOf`, `SetToSeqTyped`), each by `Induction` on a set of naturals. The
library's `SelectSeq` and `@@` have no rules in the provers; `Lists` has the same by
definitions that can be opened.

`CaptureAdds` is the action property `CaptureAddsOnly`, for every app and every capture:
confirming maps a list onto itself (`ConfirmedStay`), the new commands are listed once
each in whatever order their set came (`ListedOnce`), and so the endpoints grow by as many
as the names do (`NamesOfBoth`, `ReconciledAdds`). That the oracle is given lists of
endpoints is `ScanTyped`.

**`Extraction_proofs`, of `SigningTrace`** (`SigningAssumption`: an expression's parts,
and what a concatenation is parted into, are expressions again; every name consists of
words; the lists of a file and of an answer are lists; calls are followed no deeper than
names. All of it is true of text, whatever the text refers to: nothing says that names
are assigned once, or that calls end). `Resolve` is one step of the search, of whatever
item: `ResolveTyped` says that it gives items, parts and doubts of their types
(`IsResult`), and that *a doubt comes with a part of confidence 50 or less*. There is one
lemma for each branch of the tracer; `CalledTyped` is the look-up of a method in the class
and across files. `ScoreTyped` is the arithmetic of the score: never above the confidence
of the least part, since at most the whole of it is kept. The invariant `Tracing` carries
the two facts through the search: parts of unknown kind are `Weighed` at 50 or less, and
if anything is unresolved some part is `Weak`. So a trace with either is scored at most
50, below the threshold of 60: `DoubtIsLow`. `DoubtIsLow` alone is not inductive, because
it says nothing of the trace in the making. `TracesTyped` is the type invariant; that the
chain of names stays within `ResolveDepth + 1` is part of it. For `EscalationAdds`,
`MergedAdds` says that an answer extends the list of parts and takes the greater
confidence; that only a trace in doubt is asked about does the rest.

**`Extraction_proofs`, of `FramedCheck`** (`FramedAssumption`: numbers in a class file are
integers and its arrays are lists; each class is in `Alphabet` once; the notifications of
a device are lists of bytes). `CheckTyped` rests on the scanner and the codec as much as
on the check. `FrameTyped`: a header is taken only if each part of it was understood, so
the frame consists of constants, which are bytes though Java's are signed, the opcode,
the length and the payload. `ConstByteTyped` and `CommandTyped`: an opcode that is read is a
byte. `CommandsTyped`: there is one command for each class, because the classes are
selected from a list without repetition (`ThoseDiffer`). `EncodeTyped`: what such a
frame makes of such a command is bytes, whatever its payload. The invariant `Checking`
then follows the requests through the windows: those that wait are commands of the
protocol, of different classes and of none that was judged; each one written was
answered, was not, or is the one whose window is open. That the written ones are all
judged at the end is the last of these with no window open.

**Model-checked only.** Liveness (`Terminates`, `LossIsRetried`, `EndsOrAwaitsOneAnswer`,
`StaleIsTransient`, `ShownCatchesUp`, `EndsOrHangsLate`, `RaisingStops`, `TraceEnds`):
fairness is out of the prover's reach. `FoundIsTheProtocol` of `ProtocolScan` and
`SignsTheMessage` of `SigningTrace`: they compare what is found with what the app does,
and that is written by hand for the apps of the instance. `SentIsTheApps`,
`StateIsDevice` and `NothingMissed` of `FramedCheck`, for the same reason: `AppSends`,
`Truth` and what a notification tells of are written by hand; and what `Frames` and
`TokenValues` compute of a notification is recursion over data.

## 5. What the code's documentation says and the model refutes

| Run | Statement | What happens |
|---|---|---|
| `push_link_retries` | coordinator docstring: the refresh "retries the connection every RECONNECT_INTERVAL until it succeeds" | the device is lost inside the refresh that reconnected: the refresh requested for the loss is absorbed by the running one, which then turns the interval off. `LossIsRetried` holds for every other loss |
| `ble_link_notify` | coordinator docstring: "Notify characteristics push data immediately via callbacks" | subscriptions are made once, at set-up; the `BleakClient` of a reconnect has none |

Five more statements are defined in the modules beside the properties and are checked by
no run; a configuration like the module's own with that one property gives the
counterexample.

| Definition | Statement | What happens |
|---|---|---|
| `PushLink!FailureLeavesNothingOpen` | `connect()`: "leaves nothing open" on failure | a message whose handling raises ends the listener, which forgets the open socket; `connect()` then times out with nothing to close |
| `ExtractionCache!AcceptedIsOfTheApk` | a checkpoint "for a different APK" is not usable | a tree left by a timed-out jadx is taken for the next version's; the checkpoint made from it carries that version's hash |
| `DynamicOracle!RemovesStaleOnly` | "Remove stale container with the same name" | the removal is not awaited: where it succeeds after the new container was started, it takes that one |
| `FramedCheck!SilenceIsReported` | `scripts/framed_hw_check.py:22`: "A request the device doesn't answer is reported" | any notification with the opcode counts as the answer to the request in whose window it falls: a late answer, or one nobody asked for |
| `SigningTrace!PartsInOrder` | `ir/models.py:209`: "signing input parts, in order" | what the LLM adds is put after what was found, wherever it is signed |

What the models show beside that, and the properties state as the condition under which
they hold:

- `EndsOrHangsLate`: "a timeout bounds it all" (`templates/sdk/ble_gatt/client.py.j2:146`)
  has one gap. The disconnect of an operation that timed out is outside any timeout, and
  it holds the lock.
- `NoOrphanLink`: two tasks that find a Bluetooth link down at the
  same time both connect, and one of the two links is forgotten open.
- `StaleIsTransient`: a poll overwrites what was notified while it ran, until the next
  poll or notification.
- `NoContainerLeftRunning`: `stop_container` does not look at whether docker removed the
  container (`redroid_runner.py:142-152`). One that stays is removed by the next run that
  starts a container, and until then runs on.
- `EndsOrAwaitsOneAnswer`: `wait_for_boot` raises "Android did not boot within timeout"
  (`redroid_runner.py:139`), but a `docker exec` that does not return holds it past the
  deadline, as every other command of docker and adb holds the run.
- `OutputIsOfItsApk`, `UnpackedFitsTheBundle`: an APK of another version that has the very
  size of the bundle's own is kept and decompiled with the others.
- `SignsTheMessage`: the tracer reads text by its first match. A concatenation that begins
  and ends with a literal, such as `"<" + path + ">"`, is taken for one literal
  (`signing_tracer.py:611`); of `x = a; x = x + b` only `a` is seen; a name assigned
  for another, or built up before it is appended, may be left as it is; of `update(a)`
  before `doFinal(b)` one is missed; a called method is the first of its name, in
  whatever file; and a class is the first file of its simple name
  (`signing_tracer.py:169`). Each with the confidence of a complete trace. The instance
  has an app for each, and with that part of `IsReadable` dropped TLC finds the property
  violated.
- `VerdictsRecover`: "Indices are cached per HA version for one week"
  (`duplicate_check/checker.py:16`), but what a partial fetch leaves out can be missing
  for almost three, because each file can be made from one about to expire. Meanwhile a
  duplicate is missed, or a brand whose rivals are missing stops the engine.

What the instances leave out, but for the last, because the properties would not hold:

- Framed protocols: a notification split over two; constants after the opcode in a
  frame; a version reply cut short. A payload of more than 255 bytes wraps its length.
- Signing: branches and loops; calls nested to the tracer's limit. A method's first crypto
  call counts, whichever algorithm the usage is of. A trace is verified by the digest of
  what was captured, not of what was traced, and a correction replaces the first trace.
- Protocols: two constants of one name give the value read last, two sends of one command
  in one file the first's fields; which login, port and video stream are found depends on
  the order of files where several are named (the comment of `FoundIsTheProtocol` says of
  which apps it speaks); a path that a capture requested is added beside the
  same one found by a scanner, as the two are written differently.
- Bluetooth: two files of one stem are one; only methods with a modifier are seen; only
  files that mention Bluetooth are searched for values written.
- The oracle: a frame whose body is JSON and no object raises outside the oracle's
  handler and ends the run (`Raises`; the instance has such a capture).

## 6. Not modelled, and why

- **What is emitted.** Templates, names, schemas and their golden files are text. The
  models take "the output" as a set of defects or as the version it was made from.
- **What the patterns match.** Regular expressions over Java source are not state: the
  models start from the matches. The scanners of HTTP, Retrofit, GraphQL and React
  Native, discovery, payload enrichment and the entity classifier are matches and little
  else; `ProtocolScan` takes the result of the first three as inputs.
- **Field-name corrections** of the reconciliation: they are reported, and change no
  field of the IR a property is about.
- **The traffic of the oracle.** `DynamicOracle` has the capture as one step that
  succeeds or not; frida's agent is outside the repository's control.
- **Home Assistant, asyncio, aiohttp, bleak, Docker, jadx, adb.** Modelled only from how
  the code uses them, and marked external.
- **Set-up of both halves of an integration.** An entry with a push client and a
  Bluetooth client sets them up in turn; the models treat each by itself. That a failed
  Bluetooth set-up leaves the push client connected is listed as a hazard.
- **Five hazards without a property.** A partial frida-server download
  (`adb_client.py:67`) fails a launch, which `DynamicOracle` has as any failed launch;
  notifications that postpone the poll for ever (`ble_coordinator.py.j2:66`), where
  `StaleIsTransient` speaks of what is notified only; the failed set-up above; and the two
  of operations that overlap on one Bluetooth client (`ble_client.py.j2:60` and `:98`):
  the model has them, and `NoOrphanLink` excepts them because the code does leave links
  open then. The hazards of `PROJECT.json` that a property covers in part say so.
- **Config flows, single HTTP requests, developer scripts.** They keep no state from one
  call to the next.

## 7. Plan

In the order of what matters most to a user of the engine; numbers 1 to 7 and 10 are built.

| # | Module | Subject | Properties and bounds | Proof |
|---|---|---|---|---|
| 1 | `RunVerdict`, `FixLoop` | verdict of a run | done | done, with the refinement |
| 2 | `PushClient`, `PushLink` | push integration | done | done |
| 3 | `ExtractionCache` | caches by `apk_id` | done | done |
| 4 | `DynamicOracle` | release on every way out | done | done |
| 5 | `BleLink`, `GattLink` | Bluetooth integrations | done | done |
| 6 | `Reconcile`, `SigningTrace` | what an app signs, the escalation, a capture | done | types, `DoubtIsLow` and `EscalationAdds` done |
| 7 | `ProtocolScan`, `BleScan`, `FramedCodec`, `FramedScanner`, `FramedCheck` | from source files to the IR; framed protocols | done; open: the entity classifier | types (that `Encode` gives bytes among them), `SourcesAreClosed` and `CaptureAddsOnly` done |
| 8 | `LogVerdict`, `Rubric` | classification of log lines, quality score | an error line is never outweighed; refines what `FixLoop` takes as arbitrary | — |
| 9 | `PollLink` | HTTP and GraphQL coordinators with optimistic switches | what is shown follows the device; a poll racing a write | with `ShownIsDevice` as the abstract promise `GattLink` also implements |
| 10 | `DuplicateIndex` | the cached files of the duplicate check | done | done |
| 11 | `AuthLink`, `VideoStream` | challenge and response, back-off | ends; backs off | — |
| 12 | config flows | one entry per device | two flows for one device | — |

Runs stay few: one per module that has behaviour in time or an algorithm of its own, and
one for a statement of the documentation found not to hold where users would feel it most.
