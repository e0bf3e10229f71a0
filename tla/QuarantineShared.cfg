CONSTANTS
  Absent = Absent
  Torn = Torn
  None = None
  Volume = {v1, v2}
  RelPath = {r1}
  Content = {a, b}
  Op = {o1}
  Undo = {u1}
  MaxItems = 2
  MaxTouched = 0
  MaxUnread = 0
  MaxCrashes = 0
SPECIFICATION Spec
INVARIANT QuarantineIsReversible
CHECK_DEADLOCK FALSE
