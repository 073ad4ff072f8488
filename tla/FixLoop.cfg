SPECIFICATION Spec
CONSTANTS
  Dir <- MCDir
  Lint <- MCLint
  Style <- MCStyle
  AutoLint <- MCAutoLint
  DirOf <- MCDirOf
  Hassfest <- MCHassfest
  DockerOnly <- MCDockerOnly
  Routed <- MCRouted
  Spill <- MCSpill
  HassfestFailed = "hassfest_failed"
  MaxAttempts = 2
  MaxCycles = 3
INVARIANTS TypeOK PassIsEarned ExitZeroIsClean UnresolvedIsCurrent
PROPERTIES ImplementsVerdict Terminates
