CONSTANTS
  a = a
  b = b
  Callers <- TwoCallers
  W = 16
  HotDen = 8
  Settings <- Mixed
  MaxRequests = 24
SPECIFICATION Spec
SYMMETRY Symmetry
CHECK_DEADLOCK FALSE
INVARIANT TypeOK
INVARIANT MixExact
INVARIANT ColdTakesTurns
