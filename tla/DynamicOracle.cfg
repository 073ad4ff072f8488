SPECIFICATION Spec
CONSTANTS
  MaxRuns = 3
  Udp = TRUE
INVARIANTS TypeOK NoContainerLeftRunning PortsFreedAtEnd
PROPERTIES EndsOrAwaitsOneAnswer
\* after the last run nothing is left to do
CHECK_DEADLOCK FALSE
