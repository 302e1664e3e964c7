\* The same texts and calls: a cut end marker after a cut literal.
CONSTANTS
  LongCount = 20
  Unwritten = 99
  Backlog = 24
  Inputs <- MCInputs
  MaxCalls = 3
SPECIFICATION Spec
CHECK_DEADLOCK FALSE
INVARIANT CutsRemembered
