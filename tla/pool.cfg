CONSTANTS
  h1 = h1
  h2 = h2
  c1 = c1
  r1 = r1
  r2 = r2
  Hot <- HotOne
  Cold <- ColdOne
  Requests <- OneClient
  Permits = 1
  UseSnapshots = TRUE
  MaxPanics = 1
  Main = Main
  None = None
SPECIFICATION FairSpec
INVARIANT TypeOK
INVARIANT PermitsConserved
INVARIANT NothingBeforeBarrier
INVARIANT VmMatchesRole
INVARIANT RelayToReadyVm
INVARIANT CleanShutdown
PROPERTY StartupCompletes
PROPERTY EveryRequestDecided
PROPERTY ShutdownCompletes
CHECK_DEADLOCK FALSE
