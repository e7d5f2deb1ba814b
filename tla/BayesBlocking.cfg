SPECIFICATION TunersSpec
CONSTANTS
  CompileAhead = 2
  Bailout = 1
  MaxRequests = 6
  Impatient = FALSE
  GoodCalls = 1
  Registered = TRUE
  BatchSz = 3
  Asked <- BayesOnly
INVARIANT
  TrainsOnMeasured
