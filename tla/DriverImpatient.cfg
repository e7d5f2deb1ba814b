SPECIFICATION FairDriverSpec
CONSTANTS
  CompileAhead = 2
  Bailout = 1
  MaxRequests = 4
  Impatient = TRUE
  GoodCalls = 2
  Registered = TRUE
INVARIANTS
  DInv
  SlotsApart
  HandedHolds
  KeepsProtocol
  JudgedBeforeChain
  NoopCompilesOnce
  AssertHolds
  ReadyIsReady
  NoStrandedWait
PROPERTIES
  OnlyBeatenLeave
  CallReturns
  AnsweredOrSlowJob
