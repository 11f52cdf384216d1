SPECIFICATION Spec
CONSTANTS
  e1 = e1
  e2 = e2
  r1 = r1
  builder = builder
  Executors = {e1}
  Reservers = {r1}
  Builder = builder
  MaxJobs = 3
  MaxGhosts = 1
  MaxSize = 2
  StartingSize = 1
  Reaping = TRUE
  Threshold = 2
  U32Max = 7
CHECK_DEADLOCK FALSE
INVARIANTS TypeOK RegistryCoversLive CheckoutExclusive
