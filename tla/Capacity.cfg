CONSTANTS
  a = a  b = b  c = c  l = l  m = m
  NoHandle = NoHandle
  Handles = {a, b, c}
  Leases = {l, m}
  Costs <- SomeCosts
  Batches = {2}
  Target <- TwoAndOne
  Allowance = 1
  PipelineLimit = 1
  Ceiling = 2
SPECIFICATION LedgerSpec
SYMMETRY Symmetry
INVARIANTS LedgerBounded CreditsConserved
CHECK_DEADLOCK FALSE
