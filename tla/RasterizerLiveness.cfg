\* One call, made from a thread of the pool, which has one more; SVG and PNG
\* exceed a pipe, and the diagnostics fit one.
CONSTANTS
  Calls = {c1}
  PoolCallers = {c1}
  Workers = 2
  PipeCap = 2
  SvgSize = 4
  PngSize = 4
  MaxErr = 2
SPECIFICATION FairSpec
PROPERTY RefinesFairPromise
