SPECIFICATION TunersSpec
CONSTANTS
  CompileAhead = 2
  Bailout = 1
  MaxRequests = 6
  Impatient = TRUE
  GoodCalls = 1
  Registered = TRUE
  BatchSz = 4
  Asked <- AllTuners
INVARIANTS
  TrainsOnMeasured
  TunersKeepAhead
  OwnOptions
  TrialIsWalked
  WalkMeasured
