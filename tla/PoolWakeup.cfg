SPECIFICATION Spec
CONSTANTS
  NumThreads = 3
  SelectorRange = 4
  a = a
  b = b
  c = c
  tagA = tagA
  Task = {a, b, c}
  NoTask = NoTask
  Tag = {}
  NoTag = NoTag
  TagOf <- Untagged
  Spawns <- ASpawnsB
  Owner = Owner
  NoWorker = NoWorker
  Overlap = {}
  ShutdownCalls = {}
  Policies = {}
INVARIANTS QueuedCountExact IdleCountExact WorkConserving
