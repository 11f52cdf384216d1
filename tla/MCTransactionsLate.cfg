SPECIFICATION Spec
CONSTANTS
  h1 = h1
  h2 = h2
  t1 = t1
  t2 = t2
  NoHolder = NoHolder
  Holders = {h1, h2}
  Tasks = {t1}
  Sql <- MCPlain
  Vias = {"Reserved"}
  MaxCalls = 2
CHECK_DEADLOCK FALSE
PROPERTY ExclusiveTransaction
