CONSTANTS
  InitialChanges <- Even
  Duration = 2
  TicksPerSec = 10
  Slack = 1
  LateLimit = 2
  Lags <- SomeLag
  TimerCap = 2
  RecordCap = 1
  Stats = FALSE
  MayPanic = FALSE
SPECIFICATION Spec
INVARIANT OversleepingIsLate
