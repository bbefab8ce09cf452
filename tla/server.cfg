CONSTANTS
  Requests <- FourRequests
  PerRun = 2
  Runs = 2
SPECIFICATION Spec
INVARIANT TypeOK
INVARIANT RowsInOnePlace
INVARIANT MeasurementHasItsRows
