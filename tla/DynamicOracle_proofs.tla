------------------------- MODULE DynamicOracle_proofs -------------------------
(***************************************************************************)
(* What a run of the dynamic oracle leaves behind, proved for any number   *)
(* of runs, with and without UDP discovery.                                *)
(***************************************************************************)
EXTENDS DynamicOracle, TLAPS

\* The labels; and the raw capture is there from the injection to the
\* reconciliation only.
Labels ==
  /\ pc \in Pc
  /\ android \in {"up", "down"}
  /\ server \in {"none", "torn", "whole"}
  /\ report \in {"none", "empty", "captured", "reconciled"}
  /\ late \in BOOLEAN
  /\ report = "captured" => pc \in {"stop_mock", "stop_container", "reconcile"}

\* The runs are numbered in order: what is there, and what died, is of this run
\* or of an earlier one.
BeforeDocker == {"prepare", "remove", "docker_run"}

Numbering ==
  /\ run \in Int /\ 0 <= run /\ run <= MaxRuns
  /\ removers \in Int /\ 0 <= removers /\ removers <= run
  /\ holder \in Int /\ Nobody <= holder /\ holder <= run

Begun ==
  /\ pc # "idle" => run # 0
  /\ pc \in {"prepare", "remove"} => removers # run
  /\ pc \in BeforeDocker => holder # run

Deaths ==
  /\ \A r \in died : r \in Int /\ 0 <= r /\ r <= run /\ (pc # "idle" => r # run)
  /\ \A r \in unbound \cup refused : r \in Int /\ 1 <= r /\ r <= run

\* Past stop_container the run has no container, or one docker did not remove.
Container ==
  /\ NoContainerLeftRunning
  /\ pc = "reconcile" /\ holder = run => run \in refused

\* The ports are taken while the mock device serves, and no longer.
Serving == {"launch", "inject", "stop_mock"}

Ports ==
  IF pc \in Serving THEN ws = run /\ udp \in {Nobody, run}
  ELSE ws \in {Nobody} \cup unbound /\ udp = Nobody

IInv == Labels /\ Numbering /\ Begun /\ Deaths /\ Container /\ Ports

-----------------------------------------------------------------------------
(* Every step keeps the invariant.                                         *)

LEMMA InitHolds == Init => IInv
<1> USE DEF Init, Nobody, Earlier
<1>1. Init => Labels
  BY DEF Labels, Pc, Waiting
<1>2. Init => Numbering /\ Begun /\ Deaths
  BY OracleAssumption DEF Numbering, Begun, Deaths, BeforeDocker
<1>3. Init => Container /\ Ports
  BY DEF Container, NoContainerLeftRunning, Exists, Ports, Serving
<1> QED
  BY <1>1, <1>2, <1>3 DEF IInv

\* The labels.
LEMMA LabelStep == Labels /\ [Next]_vars => Labels'
<1> SUFFICES ASSUME Labels, [Next]_vars PROVE Labels'
  OBVIOUS
<1> USE DEF Labels, Pc, Waiting, Goto, docker, mock
<1>1. CASE Begin
  BY <1>1 DEF Begin
<1>2. CASE Prepare
  BY <1>2 DEF Prepare, Skip
<1>3. CASE StartRemover
  BY <1>3 DEF StartRemover
<1>4. CASE RemoverEnds
  BY <1>4 DEF RemoverEnds
<1>5. CASE DockerRun
  BY <1>5 DEF DockerRun, Skip
<1>6. CASE Poll
  BY <1>6 DEF Poll
<1>7. CASE DeadlinePasses
  BY <1>7 DEF DeadlinePasses
<1>8. CASE Booted
  BY <1>8 DEF Booted, Alive
<1>9. CASE BootTimesOut
  BY <1>9 DEF BootTimesOut
<1>10. CASE Connect
  BY <1>10 DEF Connect, Alive
<1>11. CASE Install
  BY <1>11 DEF Install, Alive
<1>12. CASE Ensure
  BY <1>12 DEF Ensure, Alive
<1>13. CASE StartFrida
  BY <1>13 DEF StartFrida, Alive
<1>14. CASE StartMock
  BY <1>14 DEF StartMock
<1>15. CASE Launch
  BY <1>15 DEF Launch, Alive
<1>16. CASE Inject
  BY <1>16 DEF Inject, Alive
<1>17. CASE StopMock
  BY <1>17 DEF StopMock
<1>18. CASE StopContainer
  BY <1>18 DEF StopContainer, Released, Skip
<1>19. CASE Reconcile
  BY <1>19 DEF Reconcile
<1>20. CASE Die
  BY <1>20 DEF Die
<1>21. CASE UNCHANGED vars
  BY <1>21 DEF vars
<1> QED
  BY <1>1, <1>2, <1>3, <1>4, <1>5, <1>6, <1>7, <1>8, <1>9,
     <1>10, <1>11, <1>12, <1>13, <1>14, <1>15, <1>16, <1>17, <1>18,
     <1>19, <1>20, <1>21
  DEF Next, OwnStep, Awaited

\* A run takes the next number; its container and its removal bear it.
LEMMA NumberStep == Numbering /\ Begun /\ [Next]_vars => (Numbering /\ Begun)'
<1> SUFFICES ASSUME Numbering /\ Begun, [Next]_vars PROVE (Numbering /\ Begun)'
  OBVIOUS
<1> USE OracleAssumption DEF Numbering, Begun, BeforeDocker, Nobody, Earlier,
        Goto, docker, mock
<1>1. CASE Begin
  BY <1>1 DEF Begin
<1>2. CASE Prepare
  BY <1>2 DEF Prepare, Skip
<1>3. CASE StartRemover
  BY <1>3 DEF StartRemover
<1>4. CASE RemoverEnds
  BY <1>4 DEF RemoverEnds
<1>5. CASE DockerRun
  BY <1>5 DEF DockerRun, Skip
<1>6. CASE Poll
  BY <1>6 DEF Poll
<1>7. CASE DeadlinePasses
  BY <1>7 DEF DeadlinePasses
<1>8. CASE Booted
  BY <1>8 DEF Booted, Alive
<1>9. CASE BootTimesOut
  BY <1>9 DEF BootTimesOut
<1>10. CASE Connect
  BY <1>10 DEF Connect, Alive
<1>11. CASE Install
  BY <1>11 DEF Install, Alive
<1>12. CASE Ensure
  BY <1>12 DEF Ensure, Alive
<1>13. CASE StartFrida
  BY <1>13 DEF StartFrida, Alive
<1>14. CASE StartMock
  BY <1>14 DEF StartMock
<1>15. CASE Launch
  BY <1>15 DEF Launch, Alive
<1>16. CASE Inject
  BY <1>16 DEF Inject, Alive
<1>17. CASE StopMock
  BY <1>17 DEF StopMock
<1>18. CASE StopContainer
  BY <1>18 DEF StopContainer, Released, Skip
<1>19. CASE Reconcile
  BY <1>19 DEF Reconcile
<1>20. CASE Die
  BY <1>20 DEF Die
<1>21. CASE UNCHANGED vars
  BY <1>21 DEF vars
<1> QED
  BY <1>1, <1>2, <1>3, <1>4, <1>5, <1>6, <1>7, <1>8, <1>9,
     <1>10, <1>11, <1>12, <1>13, <1>14, <1>15, <1>16, <1>17, <1>18,
     <1>19, <1>20, <1>21
  DEF Next, OwnStep, Awaited

\* The runs that died, could not bind the port or could not be rid of their
\* container are of the past.
LEMMA DeathStep == Numbering /\ Begun /\ Deaths /\ [Next]_vars => Deaths'
<1> SUFFICES ASSUME Numbering /\ Begun /\ Deaths, [Next]_vars PROVE Deaths'
  OBVIOUS
<1> USE DEF Numbering, Begun, Deaths, Earlier, Goto, docker, mock
<1>1. CASE Begin
  BY <1>1 DEF Begin
<1>2. CASE Prepare
  BY <1>2 DEF Prepare, Skip
<1>3. CASE StartRemover
  BY <1>3 DEF StartRemover
<1>4. CASE RemoverEnds
  BY <1>4 DEF RemoverEnds
<1>5. CASE DockerRun
  BY <1>5 DEF DockerRun, Skip
<1>6. CASE Poll
  BY <1>6 DEF Poll
<1>7. CASE DeadlinePasses
  BY <1>7 DEF DeadlinePasses
<1>8. CASE Booted
  BY <1>8 DEF Booted, Alive
<1>9. CASE BootTimesOut
  BY <1>9 DEF BootTimesOut
<1>10. CASE Connect
  BY <1>10 DEF Connect, Alive
<1>11. CASE Install
  BY <1>11 DEF Install, Alive
<1>12. CASE Ensure
  BY <1>12 DEF Ensure, Alive
<1>13. CASE StartFrida
  BY <1>13 DEF StartFrida, Alive
<1>14. CASE StartMock
  BY <1>14 DEF StartMock
<1>15. CASE Launch
  BY <1>15 DEF Launch, Alive
<1>16. CASE Inject
  BY <1>16 DEF Inject, Alive
<1>17. CASE StopMock
  BY <1>17 DEF StopMock
<1>18. CASE StopContainer
  BY <1>18 DEF StopContainer, Released, Skip
<1>19. CASE Reconcile
  BY <1>19 DEF Reconcile
<1>20. CASE Die
  BY <1>20 DEF Die
<1>21. CASE UNCHANGED vars
  BY <1>21 DEF vars
<1> QED
  BY <1>1, <1>2, <1>3, <1>4, <1>5, <1>6, <1>7, <1>8, <1>9,
     <1>10, <1>11, <1>12, <1>13, <1>14, <1>15, <1>16, <1>17, <1>18,
     <1>19, <1>20, <1>21
  DEF Next, OwnStep, Awaited

\* A container is removed by its own run, or its process died.
LEMMA ContainerStep == Numbering /\ Begun /\ Container /\ [Next]_vars => Container'
<1> SUFFICES ASSUME Numbering /\ Begun /\ Container, [Next]_vars PROVE Container'
  OBVIOUS
<1> USE DEF Numbering, Begun, BeforeDocker, Container, NoContainerLeftRunning,
        Exists, Nobody, Goto, docker, mock
<1>1. CASE Begin
  BY <1>1 DEF Begin
<1>2. CASE Prepare
  BY <1>2 DEF Prepare, Skip
<1>3. CASE StartRemover
  BY <1>3 DEF StartRemover
<1>4. CASE RemoverEnds
  BY <1>4 DEF RemoverEnds
<1>5. CASE DockerRun
  BY <1>5 DEF DockerRun, Skip
<1>6. CASE Poll
  BY <1>6 DEF Poll
<1>7. CASE DeadlinePasses
  BY <1>7 DEF DeadlinePasses
<1>8. CASE Booted
  BY <1>8 DEF Booted, Alive
<1>9. CASE BootTimesOut
  BY <1>9 DEF BootTimesOut
<1>10. CASE Connect
  BY <1>10 DEF Connect, Alive
<1>11. CASE Install
  BY <1>11 DEF Install, Alive
<1>12. CASE Ensure
  BY <1>12 DEF Ensure, Alive
<1>13. CASE StartFrida
  BY <1>13 DEF StartFrida, Alive
<1>14. CASE StartMock
  BY <1>14 DEF StartMock
<1>15. CASE Launch
  BY <1>15 DEF Launch, Alive
<1>16. CASE Inject
  BY <1>16 DEF Inject, Alive
<1>17. CASE StopMock
  BY <1>17 DEF StopMock
<1>18. CASE StopContainer
  BY <1>18 DEF StopContainer, Released, Skip
<1>19. CASE Reconcile
  BY <1>19 DEF Reconcile
<1>20. CASE Die
  BY <1>20 DEF Die
<1>21. CASE UNCHANGED vars
  BY <1>21 DEF vars
<1> QED
  BY <1>1, <1>2, <1>3, <1>4, <1>5, <1>6, <1>7, <1>8, <1>9,
     <1>10, <1>11, <1>12, <1>13, <1>14, <1>15, <1>16, <1>17, <1>18,
     <1>19, <1>20, <1>21
  DEF Next, OwnStep, Awaited

\* The ports are freed by the run that took them.
LEMMA PortsStep == Numbering /\ Ports /\ [Next]_vars => Ports'
<1> SUFFICES ASSUME Numbering /\ Ports, [Next]_vars PROVE Ports'
  OBVIOUS
<1> USE DEF Numbering, Ports, Serving, Nobody, Goto, docker, mock
<1>1. CASE Begin
  BY <1>1 DEF Begin
<1>2. CASE Prepare
  BY <1>2 DEF Prepare, Skip
<1>3. CASE StartRemover
  BY <1>3 DEF StartRemover
<1>4. CASE RemoverEnds
  BY <1>4 DEF RemoverEnds
<1>5. CASE DockerRun
  BY <1>5 DEF DockerRun, Skip
<1>6. CASE Poll
  BY <1>6 DEF Poll
<1>7. CASE DeadlinePasses
  BY <1>7 DEF DeadlinePasses
<1>8. CASE Booted
  BY <1>8 DEF Booted, Alive
<1>9. CASE BootTimesOut
  BY <1>9 DEF BootTimesOut
<1>10. CASE Connect
  BY <1>10 DEF Connect, Alive
<1>11. CASE Install
  BY <1>11 DEF Install, Alive
<1>12. CASE Ensure
  BY <1>12 DEF Ensure, Alive
<1>13. CASE StartFrida
  BY <1>13 DEF StartFrida, Alive
<1>14. CASE StartMock
  BY <1>14 DEF StartMock
<1>15. CASE Launch
  BY <1>15 DEF Launch, Alive
<1>16. CASE Inject
  BY <1>16 DEF Inject, Alive
<1>17. CASE StopMock
  BY <1>17 DEF StopMock
<1>18. CASE StopContainer
  BY <1>18 DEF StopContainer, Released, Skip
<1>19. CASE Reconcile
  BY <1>19 DEF Reconcile
<1>20. CASE Die
  BY <1>20 DEF Die
<1>21. CASE UNCHANGED vars
  BY <1>21 DEF vars
<1> QED
  BY <1>1, <1>2, <1>3, <1>4, <1>5, <1>6, <1>7, <1>8, <1>9,
     <1>10, <1>11, <1>12, <1>13, <1>14, <1>15, <1>16, <1>17, <1>18,
     <1>19, <1>20, <1>21
  DEF Next, OwnStep, Awaited

LEMMA StepHolds == IInv /\ [Next]_vars => IInv'
BY LabelStep, NumberStep, DeathStep, ContainerStep, PortsStep DEF IInv

-----------------------------------------------------------------------------
(* The theorems.                                                           *)

\* The invariant above holds in every reachable state.
THEOREM InductiveInvariant == Spec => []IInv
BY InitHolds, StepHolds, PTL DEF Spec

\* The types, and with them that what a run returns is never the raw capture.
THEOREM TypeCorrect == Spec => []TypeOK
<1>1. ASSUME IInv PROVE TypeOK
  <2> USE <1>1, OracleAssumption DEF IInv, Numbering, Nobody, Earlier, Runs
  <2>1. /\ run \in 0..MaxRuns /\ removers \in 0..MaxRuns
        /\ holder \in {Nobody, Earlier} \cup Runs
    OBVIOUS
  <2>2. /\ died \subseteq {Earlier} \cup Runs
        /\ unbound \subseteq Runs /\ refused \subseteq Runs
    BY DEF Deaths
  <2>3. ws \in {Nobody} \cup Runs /\ udp \in {Nobody} \cup Runs
    <3>1. CASE pc \in Serving
      <4>1. run \in Runs
        BY <3>1 DEF Begun, Serving
      <4>2. QED
        BY <3>1, <4>1 DEF Ports
    <3>2. CASE pc \notin Serving
      BY <2>2, <3>2 DEF Ports
    <3>3. QED
      BY <3>1, <3>2
  <2>4. QED
    BY <2>1, <2>2, <2>3 DEF TypeOK, Labels
<1>2. QED
  BY <1>1, InductiveInvariant, PTL

\* redroid() leaves no container running behind it, whatever fails and however
\* late an earlier `docker rm -f` takes effect, unless the process dies or docker
\* does not remove the container.
THEOREM NoContainerLeft == Spec => []NoContainerLeftRunning
<1>1. IInv => NoContainerLeftRunning
  BY DEF IInv, Container
<1>2. QED
  BY <1>1, InductiveInvariant, PTL

\* Every run starts its Android with the mock device's ports free, but for the
\* ports of a run whose UDP port could not be bound.
THEOREM PortsFreed == Spec => []PortsFreedAtEnd
<1>1. IInv => PortsFreedAtEnd
  BY DEF IInv, Ports, Serving, PortsFreedAtEnd
<1>2. QED
  BY <1>1, InductiveInvariant, PTL
=============================================================================
