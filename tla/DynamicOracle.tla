---------------------------- MODULE DynamicOracle ----------------------------
(***************************************************************************)
(* The dynamic oracle (dynamic/oracle.py): it starts an Android container, *)
(* installs the app and frida-server through adb, serves a mock device and *)
(* captures the app's traffic.  Whatever it acquired it gives back on      *)
(* every way out, and a failure of any part skips the oracle.              *)
(*                                                                         *)
(* Docker knows one container by the fixed name.  One process may run the  *)
(* oracle for several APKs in turn (scripts/run_corpus.py); it may die and *)
(* be started again, and finds what it left: the container, and the cached *)
(* frida-server.                                                           *)
(***************************************************************************)
EXTENDS Integers

CONSTANTS
  MaxRuns,   \* bound: oracle runs, over all processes
  Udp        \* whether the device is discovered over UDP

ASSUME OracleAssumption == MaxRuns \in Nat /\ Udp \in BOOLEAN

VARIABLES
  pc,       \* where oracle.run stands
  run,      \* the number of the current, or else the last run
  holder,   \* the run whose container has the name, or Nobody
  android,  \* whether that container runs: up, down
  removers, \* `docker rm -f <name>` processes start_container left running
  ws, udp,  \* the runs whose mock server holds the ports, or Nobody
  server,   \* .cache/frida-server: none, torn, whole
  report,   \* what the run returned
  late,     \* whether the deadline for the boot has passed
  died,     \* the runs in which the process died
  refused,  \* the runs whose container docker did not remove
  unbound   \* the runs whose UDP port could not be bound

vars == <<pc, run, holder, android, removers, ws, udp, server, report, late,
          died, refused, unbound>>
docker == <<holder, android, removers, refused>>
mock == <<ws, udp, unbound>>

Nobody == -1
Earlier == 0     \* a run of a process before the first one modelled

Runs == 1..MaxRuns

Init ==
  /\ pc = "idle" /\ run = 0
  /\ \/ holder = Nobody /\ android = "down"
     \/ holder = Earlier /\ android \in {"up", "down"}
  /\ removers = 0
  /\ ws = Nobody /\ udp = Nobody
  /\ server \in {"none", "whole"}
  /\ report = "none" /\ late = FALSE
  /\ died = {Earlier} /\ refused = {} /\ unbound = {}

Goto(l) == pc' = l

\* This run's container is up.
Alive == holder = run /\ android = "up"

Exists == holder # Nobody

-----------------------------------------------------------------------------
\* Gaps in the IR, if there are any, are what the oracle is for.
Begin ==
  /\ pc = "idle" /\ run < MaxRuns
  /\ run' = run + 1
  /\ \/ Goto("prepare") /\ report' = "none"
     \/ Goto("idle") /\ report' = "empty"
  /\ UNCHANGED <<docker, mock, server, late, died>>

\* Any exception: caught, logged, an empty report.
Skip == Goto("idle") /\ report' = "empty"

\* ensure_binder_module, pull_image_if_absent
Prepare ==
  /\ pc = "prepare"
  /\ \/ Goto("remove") /\ UNCHANGED report
     \/ Skip
  /\ UNCHANGED <<run, docker, mock, server, late, died>>

(* start_container *)

\* The removal of a stale container is started and not waited for.
StartRemover ==
  /\ pc = "remove"
  /\ removers' = removers + 1
  /\ Goto("docker_run")
  /\ UNCHANGED <<run, holder, android, refused, mock, server, report, late, died>>

\* Nobody looks at whether it succeeded.
RemoverEnds ==
  /\ removers > 0
  /\ removers' = removers - 1
  /\ \/ holder' = Nobody /\ android' = "down"
     \/ holder' = holder /\ android' \in {android, "down"}
  /\ UNCHANGED <<pc, run, refused, mock, server, report, late, died>>

\* `docker run --name` is refused while the name is taken.  It may fail after
\* it created the container (a published port in use), or before.
DockerRun ==
  /\ pc = "docker_run"
  /\ \/ /\ ~Exists /\ holder' = run /\ android' = "up"
        /\ Goto("boot") /\ late' = FALSE /\ UNCHANGED report
     \/ ~Exists /\ holder' = run /\ android' = "down" /\ Skip /\ UNCHANGED late
     \/ Skip /\ UNCHANGED <<holder, android, late>>
  /\ UNCHANGED <<run, removers, refused, mock, server, died>>

(* wait_for_boot: the deadline is tested between one `docker exec` and the *)
(* next, and not while one runs.                                           *)

PollForever ==  \* the loop has no condition
  /\ pc = "boot"
  /\ Goto("polling")
  /\ UNCHANGED <<run, docker, mock, server, report, late, died>>

Poll ==
  /\ pc = "boot" /\ ~late
  /\ Goto("polling")
  /\ UNCHANGED <<run, docker, mock, server, report, late, died>>

DeadlinePasses ==
  /\ pc \in {"boot", "polling"} /\ ~late
  /\ late' = TRUE
  /\ UNCHANGED <<pc, run, docker, mock, server, report, died>>

\* sys.boot_completed is 1, or not yet, or the poll raises.
Booted ==
  /\ pc = "polling"
  /\ \/ Alive /\ Goto("connect")
     \/ Goto("boot")
     \/ Goto("stop_container")
  /\ UNCHANGED <<run, docker, mock, server, report, late, died>>

BootTimesOutUncaught ==  \* the wait is outside the try block
  /\ pc = "boot" /\ late
  /\ Skip
  /\ UNCHANGED <<run, docker, mock, server, late, died>>

BootTimesOut ==
  /\ pc = "boot" /\ late
  /\ Goto("stop_container")
  /\ UNCHANGED <<run, docker, mock, server, report, late, died>>

-----------------------------------------------------------------------------
(* adb: no command has a timeout, and `wait-for-device` waits for a device *)
(* that may never be there.                                                *)

Connect ==
  /\ pc = "connect"
  /\ \/ Alive /\ Goto("install")
     \/ Goto("stop_container")
  /\ UNCHANGED <<run, docker, mock, server, report, late, died>>

Install ==
  /\ pc = "install"
  /\ \/ Alive /\ Goto("frida")
     \/ Goto("stop_container")
  /\ UNCHANGED <<run, docker, mock, server, report, late, died>>

\* ensure_frida_server: a file that is there is pushed as it is; unpacking a
\* broken download, or onto a full disk, leaves the file behind.
Ensure ==
  /\ pc = "frida"
  /\ \/ server' \in (IF server = "none" THEN {"whole"} ELSE {server})
        /\ Alive /\ Goto("frida_start")
     \/ server' \in (IF server = "none" THEN {"none", "torn", "whole"} ELSE {server})
        /\ Goto("stop_container")
  /\ UNCHANGED <<run, docker, mock, report, late, died>>

\* start_frida_server: started in the background of the device's shell.
StartFrida ==
  /\ pc = "frida_start"
  /\ \/ Alive /\ Goto("mock")
     \/ Goto("stop_container")
  /\ UNCHANGED <<run, docker, mock, server, report, late, died>>

\* MockDeviceServer.start: the WebSocket port, then the UDP port.  A start that
\* fails is outside the try block that would stop the server.
StartMock ==
  /\ pc = "mock"
  /\ \/ /\ ws = Nobody /\ (Udp => udp = Nobody)
        /\ ws' = run /\ udp' = IF Udp THEN run ELSE udp
        /\ Goto("launch") /\ UNCHANGED unbound
     \/ /\ ws = Nobody /\ Udp
        /\ ws' = run /\ unbound' = unbound \cup {run}
        /\ Goto("stop_container") /\ UNCHANGED udp
     \/ Goto("stop_container") /\ UNCHANGED <<ws, udp, unbound>>
  /\ UNCHANGED <<run, docker, server, report, late, died>>

LaunchUncaught ==  \* the app that does not start skips the server's stop
  /\ pc = "launch"
  /\ \/ Alive /\ Goto("inject")
     \/ Goto("stop_container")
  /\ UNCHANGED <<run, docker, mock, server, report, late, died>>

Launch ==
  /\ pc = "launch"
  /\ \/ Alive /\ Goto("inject")
     \/ Goto("stop_mock")
  /\ UNCHANGED <<run, docker, mock, server, report, late, died>>

\* frida_runner.capture: the injection needs a working frida-server; the
\* capture that follows lasts its time, whatever happens to the app.
Inject ==
  /\ pc = "inject"
  /\ \/ Alive /\ server = "whole" /\ report' = "captured"
     \/ UNCHANGED report
  /\ Goto("stop_mock")
  /\ UNCHANGED <<run, docker, mock, server, late, died>>

-----------------------------------------------------------------------------
(* The way out.                                                            *)

StopMock ==
  /\ pc = "stop_mock"
  /\ ws' = IF ws = run THEN Nobody ELSE ws
  /\ udp' = IF udp = run THEN Nobody ELSE udp
  /\ Goto("stop_container")
  /\ UNCHANGED <<run, docker, unbound, server, report, late, died>>

\* stop_container removes by its ID, not by the name, and does not look at
\* whether docker did remove the container.
Released ==
  \/ /\ holder' = (IF holder = run THEN Nobody ELSE holder)
     /\ android' = (IF holder = run THEN "down" ELSE android)
     /\ UNCHANGED refused
  \/ /\ holder = run
     /\ refused' = refused \cup {run}
     /\ android' \in {android, "down"} /\ UNCHANGED holder

StopContainerUnreported ==  \* the capture is dropped on the way
  /\ pc = "stop_container"
  /\ Released
  /\ Goto("idle") /\ UNCHANGED report
  /\ UNCHANGED <<run, removers, mock, server, late, died>>

StopContainer ==
  /\ pc = "stop_container"
  /\ Released
  /\ IF report = "captured" THEN Goto("reconcile") /\ UNCHANGED report ELSE Skip
  /\ UNCHANGED <<run, removers, mock, server, late, died>>

\* The reconciliation of the capture with the IR is outside the try block: if
\* it raises, so does the run.
Reconcile ==
  /\ pc = "reconcile"
  /\ Goto("idle") /\ report' \in {"reconciled", "none"}
  /\ UNCHANGED <<run, docker, mock, server, late, died>>

\* The process dies: its ports are free again, all else stays.
Die ==
  /\ pc # "idle"
  /\ Goto("idle") /\ report' = "none"
  /\ died' = died \cup {run}
  /\ ws' = Nobody /\ udp' = Nobody
  /\ server' \in {server} \cup {s \in {"torn"} : pc = "frida" /\ server = "none"}
  /\ UNCHANGED <<run, docker, late, unbound>>

\* What the engine does by itself, in bounded time.
OwnStep ==
  \/ StartRemover \/ Poll \/ BootTimesOut \/ StartMock \/ StopMock \/ Reconcile

\* What ends when docker, adb, frida or a download answers: the engine awaits
\* them without a timeout.
Awaited ==
  \/ Prepare \/ DockerRun \/ Booted \/ Connect \/ Install \/ Ensure
  \/ StartFrida \/ Launch \/ Inject \/ StopContainer

Next == Begin \/ OwnStep \/ Awaited \/ DeadlinePasses \/ RemoverEnds \/ Die

\* The engine goes on and time passes; nothing it awaits need ever answer.
Spec == Init /\ [][Next]_vars /\ WF_vars(OwnStep) /\ WF_vars(DeadlinePasses)

-----------------------------------------------------------------------------
(* Properties.                                                             *)

\* Where the run awaits one command, or one call of frida.
Waiting == {"prepare", "docker_run", "polling", "connect", "install", "frida",
            "frida_start", "launch", "inject", "stop_container"}
Pc == Waiting \cup {"idle", "remove", "boot", "mock", "stop_mock", "reconcile"}

\* The values of the variables; what a run returns is empty or reconciled,
\* never the raw capture, which exists from the injection to the reconciliation.
TypeOK ==
  /\ pc \in Pc /\ run \in 0..MaxRuns
  /\ holder \in {Nobody, Earlier} \cup Runs /\ android \in {"up", "down"}
  /\ removers \in 0..MaxRuns
  /\ ws \in {Nobody} \cup Runs /\ udp \in {Nobody} \cup Runs
  /\ server \in {"none", "torn", "whole"}
  /\ report \in {"none", "empty", "captured", "reconciled"}
  /\ report = "captured" => pc \in {"stop_mock", "stop_container", "reconcile"}
  /\ late \in BOOLEAN
  /\ died \subseteq {Earlier} \cup Runs
  /\ refused \subseteq Runs /\ unbound \subseteq Runs

\* A container that runs is the current run's, or was left by a process that
\* died, or is one docker did not remove when it was asked to: redroid() has it
\* removed on every other way out.
NoContainerLeftRunning ==
  Exists /\ android = "up" =>
    holder \in died \cup refused \/ (holder = run /\ pc # "idle")

\* The mock device's ports are free again after every run but one whose UDP
\* port could not be bound: the next APK of a corpus finds them free.
PortsFreedAtEnd ==
  pc \in {"idle", "prepare", "remove", "docker_run", "boot", "polling"} =>
    ws \in {Nobody} \cup unbound /\ udp = Nobody

\* A run that does not end waits for ever for the answer to one command: what
\* the engine does itself, the boot's loop of commands included, comes to its
\* end, at the latest past its deadline.
EndsOrAwaitsOneAnswer ==
  []<>(pc = "idle") \/ \E p \in Waiting : <>[](pc = p)

\* "Remove stale container with the same name": what start_container has
\* removed is an earlier run's container, never the one it starts.
RemovesStaleOnly ==
  [][removers' < removers /\ holder' # holder => holder # run]_vars
=============================================================================
