CONSTANTS
  Workers = {w1, w2}
  Jobs = {c1, c2}
  NoJob = NoJob
  Internal = {c2}
  MaxFaults = 1
  INT_MAX = 31
  LONG_MAX = 90
  PATH_MAX = 2
  BEARER_MAX = 2
  BODY_MAX = 3
  SomeRequests <- MCRequests
  Tokens <- MCTokens
  AdminTokens <- MCAdminTokens
  Words <- MCWords
  NumberOf <- MCNumberOf
  Envs <- MCEnvs
  Argvs <- MCArgvs
SPECIFICATION SFairSpec
INVARIANTS
  STypeOK
  InUse
  SocketOwned
  AuthExact
  PrefixSafe
  ConfigPrecedence
PROPERTIES
  ShutdownEnds
  Served
CHECK_DEADLOCK FALSE
