CONSTANTS
  PrecisionBits = 30
  Inputs <- MCInputs
  Undefined <- MCUndefined
SPECIFICATION Spec
CHECK_DEADLOCK FALSE
INVARIANTS
  StatesInRange
  BitsFit
  WideAccessesInBounds
  NormalizedFrequencies
  BlockDecodes
