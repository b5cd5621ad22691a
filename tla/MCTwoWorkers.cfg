SPECIFICATION Spec
CONSTANTS
  Workers = {w1, w2}
  n = 1
  Totals = {2}
  MaxCrashes = 2
  MaxEnqueues = 1
PROPERTIES
  TerminalNeverOverwritten
CHECK_DEADLOCK FALSE
SYMMETRY WorkerSymmetry
