CONSTANTS
  p = p  q = q
  Publishers = {p, q}
  SourceOf <- OneEach
  Changes = 1
  MaxRoutes = 2
  SignalFails = TRUE
SPECIFICATION Spec
INVARIANTS NoLostWake NoLostSignal QuiescenceHolds
