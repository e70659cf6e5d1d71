CONSTANTS
  Workers = {w1, w2}
  Jobs = {j1, j2}
  NoJob = NoJob
SPECIFICATION Spec
SYMMETRY Symmetry
INVARIANTS
  DrainedAtShutdown
CHECK_DEADLOCK FALSE
