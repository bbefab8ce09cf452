CONSTANTS
  Commands <- SomeCommands
  Measurements = 3
  Rate = 1
  MaxThroughput = 3
  Kept = 60
  MayFail = TRUE
  StepCoarse = 10
  StepFine = 3
  Medians <- TwoMedians
  Capacity = 60
  MaxRefused = 1
SPECIFICATION FairSpec
INVARIANT TypeOK
INVARIANT RegisteredBeforeUse
INVARIANT ClaimsAccounted
INVARIANT MeasurementComplete
INVARIANT FilesClimb
INVARIANT EachRateOnce
INVARIANT Bracketed
INVARIANT BaselineIsLowest
PROPERTY ExperimentEnds
