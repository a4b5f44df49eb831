CONSTANTS
  a = a  b = b  c = c
  None = None  NoRank = NoRank
  Nodes = {1, 2, 3, 4, 5, 6}
  External = {1}
  Baseline <- Ranked
  Prereqs <- Chain
  Consumers = {a, b, c}
  Wants <- Targets
  Asks <- Asked
  Bound = {b}
  Ranks = {1, 2}
  Threads = {1, 2}
  Budget = 1
  Runnable = 1
  HandoffLimit = 1
  MaxCommands = 1
  Eligible = {6}
  Early = {3, 4}
  Populations <- Scenarios
SPECIFICATION Spec
INVARIANTS CleanIsCurrent NewestArrives WindowInOrder ProvidersCatchUp EndedConsumersGone
CHECK_DEADLOCK FALSE
