CONSTANTS
  a = a  b = b  h = h  Low = Low  High = High
  Host = Host
  None = None
  Jobs = {a, b}
  Callers = {h}
  Classes = {Low, High}
  ClassOf <- SecondHigh
  Parent <- ChildOfFirst
SPECIFICATION Spec
INVARIANTS QuiescentOwnsBackend
CHECK_DEADLOCK FALSE
