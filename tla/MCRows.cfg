SPECIFICATION DrivenSpec
CONSTANTS
  s1 = s1
  s2 = s2
  Statements <- MCTwo
  RowCount <- MCRowCount
  PageSize = 2
  MaxErrs = 2
  OffRuntime = {s2}
  FailedPages = {s2}
CHECK_DEADLOCK FALSE
INVARIANTS TypeOK NoSilentLoss ClosedByOwnerOnly NoFetchAfterClose
PROPERTIES CursorReleased StreamEnds
