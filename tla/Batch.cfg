SPECIFICATION FairSpec
CONSTANTS
  r = r
  q = q
  s = s
  e = e
  z = z
  Batch = {r, q, s, e}
  NoBatch = NoBatch
  Async = {r, e}
  Count <- Counts
  Within <- Nesting
  NumWorkers = 2
INVARIANTS AsyncAllOrNothing
PROPERTIES ImplementsLoop ForReturns AsyncCompletes
