CONSTANTS
  w1 = w1  w2 = w2  w3 = w3
  cola = cola  chips = chips
  k1 = k1  k2 = k2
  NoUser = NoUser  Absent = Absent
  Workers = {w1, w2}
  UserIds = {0, 1, 2}
  Fingerprints = {k1, k2}
  Items = {cola, chips}
  Slots = {11, 12}
  Amounts = {1, 2}
  ItemOf <- MCItemOf
  InitPrice <- MCInitPrice
  InitQty <- MCInitQty
  InitLog <- MCInitLog
  Requests <- MixedRequests
  INT_MAX = 100
  Faults = {"error", "rollback"}
  MaxRequests = 3
  MaxCrashes = 1
  Readers = {r1}
  r1 = r1
  CAPACITY = 1
SPECIFICATION CFairSpec
INVARIANTS
  ListingWhole
  ListingCommitted
PROPERTIES
  TxnCloses
  EveryoneAnswered
CHECK_DEADLOCK FALSE
