CONSTANTS
  Absent = Absent
  Torn = Torn
  None = None
  v1 = v1
  v2 = v2
  Item = {i1}
  Version = {v1, v2}
  SizeOf <- SameSizes
  RetryAttempts = 1
  BatchFiles = 2
  MaxWorkers = 2
  MaxEvents = 1
  MaxImports = 2
SPECIFICATION Spec
PROPERTIES
  RetryResumes
CHECK_DEADLOCK FALSE
