SPECIFICATION Spec
CONSTANTS
  Link = {l1, l2}
  NoLink = none
  Notify = {"battery"}
  Read = {"level"}
  Value = {"low", "high"}
  Absent = "absent"
  MaxAttempts = 2
  Interval = 1
INVARIANTS NotifiedWhileConnected
CHECK_DEADLOCK FALSE
