SPECIFICATION FairDriverSpec
CONSTANTS
  CompileAhead = 1
  Bailout = 1
  MaxRequests = 4
  Impatient = TRUE
  GoodCalls = 2
  Registered = FALSE
INVARIANT
  NoLogicError
