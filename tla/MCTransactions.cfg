SPECIFICATION FairSpec
CONSTANTS
  h1 = h1
  h2 = h2
  t1 = t1
  t2 = t2
  NoHolder = NoHolder
  Holders = {h1, h2}
  Tasks = {t1, t2}
  Sql <- MCSql
  Vias = {"Reserved", "Reserved_opts", "Executor", "Executor_opts", "Job"}
  MaxCalls = 3
CHECK_DEADLOCK FALSE
INVARIANTS TypeOK TrackingExact
PROPERTIES RollbackExactly CleanHandOver ForgottenRolledBack
