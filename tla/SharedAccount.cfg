CONSTANTS
  k1 = k1  k2 = k2
  cola = cola  tea = tea
  NoUser = NoUser
  UserIds = {1, 2, 3, 4, 5, 6}
  Fingerprints = {k1, k2}
  Items = {cola, tea}
  Slots = {11, 32}
  ItemOf <- MCItemOf
  Amounts = {1, 100}
  InitPrice <- MCInitPrice
  InitQty <- MCInitQty
  InitLog <- MCInitLog
  INT_MAX = 999
  ZL_MAX = 99
  KONAMI_SEQ <- MCKonami
  PROMPT_BUF_LEN = 2
  Keys <- MCKeys
  Texts <- MCTexts
  Cells <- MCCells
  DefaultUser = 2
  EnvUser = 0
  Shelves <- MCShelves
  MaxKeys = 3
  MaxOthers = 2
  Key = k1
  Urls = {"internal", "public", "none"}
  MAX_ATTEMPTS = 2
SPECIFICATION Spec
INVARIANT
  OwnAccount
CHECK_DEADLOCK FALSE
