CONSTANTS
  Absent = Absent
  Torn = Torn
  None = None
  v1 = v1
  v2 = v2
  Item = {i1, i2}
  Version = {v1, v2}
  SizeOf <- Sizes
  RetryAttempts = 1
  BatchFiles = 2
  MaxWorkers = 2
  MaxEvents = 3
  MaxImports = 2
SPECIFICATION Spec
INVARIANTS
  TypeOK
  RecordedIsFile
  PublishedIsRecorded
PROPERTIES
  PublishedIsWhole
  NothingOverwritten
  CompletedIsDurable
SYMMETRY Symmetry
CHECK_DEADLOCK FALSE
