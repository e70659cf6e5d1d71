CONSTANTS
  w1 = w1  w2 = w2  w3 = w3
  cola = cola  chips = chips
  k1 = k1  k2 = k2
  NoUser = NoUser  Absent = Absent
  Workers = {w1, w2}
  UserIds = {0, 1, 2, 3, 4, 5, 6, 7}
  Fingerprints = {k1, k2}
  Items = {cola, chips}
  Slots = {11, 12}
  Amounts = {1, 2}
  ItemOf <- MCItemOf
  InitPrice <- MCInitPrice
  InitQty <- MCInitQty
  InitLog <- MCInitLog
  Requests <- StoreRequests
  INT_MAX = 3
  Faults = {"error", "undo"}
  MaxRequests = 4
  MaxCrashes = 1
SPECIFICATION Spec
SYMMETRY Symmetry
INVARIANTS
  StockConserved
  OneAccountPerKey
  LookupAnswer
PROPERTIES
  AtomicBelowIntMax
  AccountForLife
CHECK_DEADLOCK FALSE
