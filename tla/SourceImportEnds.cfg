CONSTANTS
  Absent = Absent
  Torn = Torn
  None = None
  v1 = v1
  v2 = v2
  Item = {i1, i2}
  Version = {v1, v2}
  SizeOf <- Sizes
  RetryAttempts = 1
  BatchFiles = 2
  MaxWorkers = 2
  MaxEvents = 2
  MaxImports = 1
SPECIFICATION FairSpec
PROPERTIES
  ImportEnds
CHECK_DEADLOCK FALSE
