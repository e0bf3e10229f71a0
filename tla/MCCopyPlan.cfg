CONSTANTS
  Absent = Absent
  Torn = Torn
  None = None
  RelPath = {r1, r2}
  Content = {a, b}
  Op = {o1}
  MaxTouched = 1
  MaxUnplugs = 1
  MaxCrashes = 1
SPECIFICATION Spec
INVARIANTS
  TypeOK
  BackupRowsAreReal
  CompletedIsReconciled
PROPERTIES
  NothingOverwritten
  VerifiedIsAllOrNothing
SYMMETRY Symmetry
CHECK_DEADLOCK FALSE
