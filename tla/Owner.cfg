CONSTANTS
  a = a  b = b
  None = None
  Deliveries = {a, b}
  Kinds <- AllKinds
  PhaseOf <- PhasesOf
  Capacity = 2
SPECIFICATION FairSpec
INVARIANTS CancelHolds NoneStranded FaultedRunsNothing ReleasedIsEmpty
PROPERTIES ClosingDrains
CHECK_DEADLOCK FALSE
