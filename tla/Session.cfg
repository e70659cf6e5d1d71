CONSTANTS
  k1 = k1  k2 = k2
  cola = cola  tea = tea
  NoUser = NoUser
  UserIds = {1, 2, 3, 4, 5, 6}
  Fingerprints = {k1, k2}
  Items = {cola, tea}
  Slots = {11, 32}
  ItemOf <- MCItemOf
  Amounts = {1, 100}
  InitPrice <- MCInitPrice
  InitQty <- MCInitQty
  InitLog <- MCInitLog
  INT_MAX = 999
  ZL_MAX = 99
  KONAMI_SEQ <- MCKonami
  PROMPT_BUF_LEN = 2
  Keys <- MCKeys
  Texts <- MCTexts
  Cells <- MCCells
  DefaultUser = 2
  EnvUser = 3
  Shelves <- MCShelves
  MaxKeys = 4
  MaxOthers = 1
  Key = k1
  Urls = {"internal"}
  MAX_ATTEMPTS = 2
SPECIFICATION FairSpec
INVARIANTS
  TypeOK
  SelectionInside
  PromptTarget
  Told
  ScreenAfterWrite
  PromptExact
  CursorExact
  GateIdentity
PROPERTIES
  LoginCompletes
  KeyAnswered
CHECK_DEADLOCK FALSE
