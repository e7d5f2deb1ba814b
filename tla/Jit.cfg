SPECIFICATION Spec

CONSTANTS
  Half <- Halves
  units <- Program
  hosts <- Heap
  calls <- Calls
  MaxEntries = 2
  MaxVersions = 3

INVARIANTS
  EntryServesKey
  CallsBindAlike
  ResolvesOriginals
  FindsBitcode

CHECK_DEADLOCK FALSE
