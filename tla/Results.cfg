SPECIFICATION Spec
CONSTANTS
  BatchSz = 2
  HeldOut = 3
  Pool = 3
  MaxLearnIters = 2
  Samples <- FewSamples
  Errors = {1, 2}
  Times = {1, 2, 3}
  MaxConfigs = 5
INVARIANTS
  BestUnbeaten
  BestForecastFirst
  HeldOutApart
  KeepsBestModel
  ReportOrdered
CHECK_DEADLOCK FALSE
