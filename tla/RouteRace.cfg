SPECIFICATION Spec
CONSTANTS
  c1 = c1
  c2 = c2
  Calls = {c1, c2}
  Requests <- MixedRequests
  Parts <- MCParts
  Garbage = Garbage
  NoCall = NoCall
CHECK_DEADLOCK FALSE
INVARIANTS
  OwnHandlerOrNone
  RoutedAsDeclared
