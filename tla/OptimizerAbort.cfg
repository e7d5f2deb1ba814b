SPECIFICATION Spec
CONSTANTS
  CompileAhead = 2
  Bailout = 2
  MaxRequests = 5
  Impatient = FALSE
INVARIANT
  AbortMeansSlowJob
