SPECIFICATION Spec
CONSTANTS
  Link = {l1, l2}
  NoLink = none
  Notify = {"battery"}
  Read = {"level"}
  Value = {"low", "high"}
  Absent = "absent"
  MaxAttempts = 2
  Interval = 1
INVARIANTS TypeOK NoOrphanLink
PROPERTIES StaleIsTransient
CHECK_DEADLOCK FALSE
