CONSTANTS
  Variants <- AllVariants
  LogServerCount = 3
  EventCount = 2
  Times <- TwoTimes
SPECIFICATION Spec
INVARIANT TypeOK
INVARIANT AcceptedPageIsComplete
INVARIANT PageIgnoresTiming
