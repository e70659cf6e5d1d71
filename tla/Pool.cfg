CONSTANTS
  Workers = {w1, w2, w3}
  Jobs = {j1, j2, j3, j4}
  NoJob = NoJob
SPECIFICATION FairSpec
INVARIANTS
  JoinBeforeFree
  NoLostWakeup
  OwnerNotStranded
  FifoOnce
PROPERTIES
  WaitContract
  DestroyReturns
CHECK_DEADLOCK FALSE
