SPECIFICATION FairSpec
CONSTANTS
  c1 = c1
  c2 = c2
  exit = exit
  i1 = i1
  i2 = i2
  i3 = i3
  NoCall = NoCall
  NoId = NoId
  Calls <- MCCallers
  ExitCall = NoCall
  RequestOf <- MCRequestOf
  Ids <- MCIds
  IdOf <- MCSharedIdOf
  Capacity = 1
  U32Max = 4
  MaxStrays = 1
CHECK_DEADLOCK FALSE
INVARIANT SentinelFree
PROPERTIES ClosingFreesCallers EveryCallReturns
