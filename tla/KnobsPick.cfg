SPECIFICATION Spec
CONSTANTS
  UNROLL_CNT_MAX = 1
  VEC_WIDTH_MAX = 0
  INTRLV_COUNT_MAX = 0
  SECTION_SIZE_MAX = 2
  POLLY_KNOBS = TRUE
  IntKnobs <- MCIntKnobs
  Nests <- MCNests
  SourceMD <- MCSourceMD
  Walks <- MCWalks
  Energies = {100, 50}
  Full = {3}
  Sample <- MCSample
INVARIANT
  PicksCollected
