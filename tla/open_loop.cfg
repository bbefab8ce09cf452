CONSTANTS
  InitialChanges <- Shapes
  Duration = 2
  TicksPerSec = 10
  Slack = 1
  LateLimit = 2
  Lags <- SomeLag
  TimerCap = 2
  RecordCap = 1
  Stats = TRUE
  MayPanic = TRUE
SPECIFICATION FairSpec
INVARIANT TypeOK
INVARIANT TicksBecomeRequests
INVARIANT NothingLeftRunning
INVARIANT RatesFollowTrace
PROPERTY RunReturns
