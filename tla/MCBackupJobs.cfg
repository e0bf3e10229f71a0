CONSTANTS
  job = job
  Job = {job}
  Desk = {desk}
  Cli = {}
  Item = {a, b}
  Leftover = {b}
  Chunks = 1
  Pool <- Workers
  MaxAttempts = 2
  MaxFaults = 1
  None = None
SPECIFICATION FairSpec
INVARIANTS
  TypeOK
  
  StatusTellsHistory
PROPERTIES
  ImplementsHistory
  BackupEnds
  CancelSticks
CHECK_DEADLOCK FALSE
