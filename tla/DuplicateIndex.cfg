SPECIFICATION Spec
CONSTANTS
  Domain <- MCDomain
  Product = {"hue", "shelly"}
  Protocol = {"cast"}
  NoDomain <- MCNone
  App <- MCApp
  MinMentions = 2
  Dominance = 2
  TTL = 2
INVARIANTS TypeOK VerdictsRecover
PROPERTIES RaisingStops
CHECK_DEADLOCK FALSE
