CONSTANTS
  Absent = Absent
  Torn = Torn
  None = None
  Volume = {v1, v2}
  RelPath = {r1}
  Content = {a, b}
  Op = {o1}
  Undo = {u1, u2}
  MaxItems = 2
  MaxTouched = 1
  MaxUnread = 1
  MaxCrashes = 1
SPECIFICATION Spec
INVARIANTS
  TypeOK
  VaultIsJournalled
  ActiveRowsExist
PROPERTIES
  NothingLost
  FinishedIsUndoable
  UndoRestores
SYMMETRY Symmetry
CHECK_DEADLOCK FALSE
