SPECIFICATION Spec
CONSTANTS
  Sock = {s1, s2, s3}
  NoSock = none
  Task = {"setup", "refresh", "unload"}
INVARIANTS TypeOK AvailabilityIsTrue NoOrphanSocket
PROPERTIES LossIsRetried
CHECK_DEADLOCK FALSE
