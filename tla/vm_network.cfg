CONSTANTS
  eth0 = eth0
  eth1 = eth1
  Ids <- TwoIds
  Nics <- TwoNics
  MaxRuns = 3
SPECIFICATION Spec
INVARIANT TypeOK
INVARIANT RulesNeverPileUp
INVARIANT SetupSucceeds
INVARIANT ServedTrafficFlows
INVARIANT GuestsFindTheirHost
INVARIANT CleanExitLeavesNothing
CHECK_DEADLOCK FALSE
