CONSTANTS
  Absent = Absent
  Torn = Torn
  None = None
  v1 = v1
  v2 = v2
  Item = {i1}
  Version = {v1, v2}
  SizeOf <- SameSizes
  RetryAttempts = 1
  BatchFiles = 2
  MaxWorkers = 2
  MaxEvents = 3
  MaxImports = 2
SPECIFICATION Spec
INVARIANTS
  ImportIsOneVersion
CHECK_DEADLOCK FALSE
