SPECIFICATION Spec
CONSTANTS
  Key = {"fan", "sensor"}
  Value = {0, 1}
  Writer = {"fan"}
  Poll = "poll"
  Nobody = "nobody"
  Unread = Unread
  Absent = Absent
INVARIANTS TypeOK ShownIsDevice
PROPERTIES ShownCatchesUp EndsOrHangsLate
CHECK_DEADLOCK FALSE
