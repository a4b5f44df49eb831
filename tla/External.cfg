CONSTANTS
  p = p  x = x  y = y  d = d  e = e  v = v
  None = None  TheSet = TheSet  Nothing = Nothing
  Producers = {p}
  Accesses = {x, y}
  Permits = {d, e}
  Origin <- Origins
  Values = {v}
  PermitLimit = 2
  PhysicalLimit = 1
SPECIFICATION FairSpec
INVARIANTS OneResult StoppedIsEmpty
PROPERTIES DrainedIsFinal CancelledSettle
CHECK_DEADLOCK FALSE
