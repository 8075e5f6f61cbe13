SPECIFICATION Spec
CONSTANTS
  r = r
  q = q
  s = s
  e = e
  z = z
  Batch = {s, z}
  NoBatch = NoBatch
  Async = {}
  Count <- Counts
  Within <- NoNesting
  NumWorkers = 2
INVARIANTS FnThrowContained
