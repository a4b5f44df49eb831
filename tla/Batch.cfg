CONSTANTS
  s = s  t = t
  Submitter = Submitter
  N = 3
  Signals = {s, t}
  Quantum = 2
  RecordLimit = 2
  EdgeLimit = 3
  RunnableLimit = 1
SPECIFICATION Spec
SYMMETRY Symmetry
INVARIANTS BooksExact RangeExact NoneForgotten
CHECK_DEADLOCK FALSE
