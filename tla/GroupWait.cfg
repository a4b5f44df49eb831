CONSTANTS
  a = a  b = b  c = c  u = u  v = v
  None = None
  Jobs = {a, b}
  Eligible = {a}
  Waiters = {u, v}
SPECIFICATION GroupFairSpec
INVARIANTS NoLostWakeup CompleteIsSettled
PROPERTIES WaitersReturn
CHECK_DEADLOCK FALSE
