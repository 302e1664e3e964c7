\* Two concurrent calls, one pool thread between them; an SVG and a PNG of
\* twice what a pipe holds.
CONSTANTS
  Calls = {c1, c2}
  PoolCallers = {}
  Workers = 1
  PipeCap = 1
  SvgSize = 2
  PngSize = 2
  MaxErr = 1
SPECIFICATION Spec
SYMMETRY Symmetry
INVARIANTS
  PngIsComplete
  NothingLeftBehind
  WriteErrorReported
PROPERTY RefinesPromise
