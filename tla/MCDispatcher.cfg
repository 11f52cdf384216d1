SPECIFICATION Spec
CONSTANTS
  c1 = c1
  c2 = c2
  exit = exit
  i1 = i1
  i2 = i2
  i3 = i3
  NoCall = NoCall
  NoId = NoId
  Calls <- MCCalls
  ExitCall = exit
  RequestOf <- MCRequestOf
  Ids <- MCIds
  IdOf <- MCIdOf
  Capacity = 1
  U32Max = 4
  MaxStrays = 0
CHECK_DEADLOCK FALSE
INVARIANTS TypeOK InFlightExact RepliesToOwnRequest NoOrphan
PROPERTY ImplementsRequestReply
