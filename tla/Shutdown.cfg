CONSTANTS
  a = a  b = b  h = h  Low = Low  High = High
  Host = Host
  None = None
  Jobs = {a, b}
  Callers = {h}
  Classes = {Low, High}
  ClassOf <- SecondHigh
  Parent <- ChildOfFirst
  Workers = {1, 2, 3}
  PoolOf <- Pools
SPECIFICATION LifeFairSpec
INVARIANTS ReadingsSuffice SlotsGetLeases
PROPERTIES ShutdownFinishes BuildEndsWhole
CHECK_DEADLOCK FALSE
