SPECIFICATION FairSpec
CONSTANTS
  CompileAhead = 3
  Bailout = 2
  MaxRequests = 9
  Impatient = FALSE
INVARIANTS
  IInv
  ActiveMeansJobs
  InOrder
  BacklogBounded
PROPERTIES
  ImplementsService
  ChainEnds
  DestructorReturns
