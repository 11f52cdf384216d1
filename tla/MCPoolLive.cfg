SPECIFICATION FairSpec
CONSTANTS
  e1 = e1
  e2 = e2
  r1 = r1
  builder = builder
  Executors = {e1}
  Reservers = {r1}
  Builder = builder
  MaxJobs = 2
  MaxGhosts = 0
  MaxSize = 1
  StartingSize = 1
  Reaping = TRUE
  Threshold = 1
  U32Max = 7
CHECK_DEADLOCK FALSE
PROPERTIES OperationsReturn RetryRecovers
