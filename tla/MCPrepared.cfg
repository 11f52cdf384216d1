SPECIFICATION Spec
CONSTANTS
  None = None
  t1 = t1
  t2 = t2
  Tasks = {t1, t2}
  Batches <- MCBatches
  PageSizes <- MCPageSizes
  MaxCalls = 3
  MaxRequests = 3
INVARIANTS
  TypeOK ExecutedInOrder OkMeansServed NoExecuteAfterClose ClosedOnce NothingForgotten
SYMMETRY MCSymmetry
CHECK_DEADLOCK FALSE
