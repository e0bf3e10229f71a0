CONSTANTS
  job = job
  Job = {job}
  Desk = {}
  Cli = {cli}
  Item = {a}
  Leftover = {}
  Chunks = 2
  Pool <- Workers
  MaxAttempts = 2
  MaxFaults = 0
  None = None
SPECIFICATION Spec
INVARIANTS
  RecordedIsPhoto
CHECK_DEADLOCK FALSE
