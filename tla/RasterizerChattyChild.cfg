\* One call whose child prints more diagnostics than the stderr pipe holds.
CONSTANTS
  Calls = {c1}
  PoolCallers = {}
  Workers = 1
  PipeCap = 1
  SvgSize = 1
  PngSize = 1
  MaxErr = 2
SPECIFICATION FairSpec
PROPERTY Terminates
