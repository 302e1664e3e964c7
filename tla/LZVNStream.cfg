\* Texts of up to 100 bytes; counts split at 20, literals flushed at 24.
CONSTANTS
  LongCount = 20
  Unwritten = 99
  Backlog = 24
  Inputs <- MCInputs
  MaxCalls = 3
SPECIFICATION Spec
CHECK_DEADLOCK FALSE
INVARIANTS
  PositionsSound
  StoresInBounds
  FailsOnlyForRoom
  LZVNReadsInBounds
  DecodesAll
