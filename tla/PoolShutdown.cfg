SPECIFICATION Spec
CONSTANTS
  NumThreads = 2
  SelectorRange = 3
  a = a
  b = b
  c = c
  tagA = tagA
  Task = {a, b, c}
  NoTask = NoTask
  Tag = {}
  NoTag = NoTag
  TagOf <- Untagged
  Spawns <- ASpawnsB
  Owner = Owner
  NoWorker = NoWorker
  Overlap = {}
  ShutdownCalls = {"drain", "abandon"}
  Policies = {"finish", "abandon"}
INVARIANTS Custody StopReachesAll DrainCompletes AbandonLeavesNoBacklog
