SPECIFICATION Spec
CONSTANTS
  NumThreads = 2
  SelectorRange = 3
  a = a
  b = b
  c = c
  tagA = tagA
  Task = {a, b}
  NoTask = NoTask
  Tag = {tagA}
  NoTag = NoTag
  TagOf <- AllTagged
  Spawns <- NoSpawns
  Owner = Owner
  NoWorker = NoWorker
  Overlap = {"enqueue-retire", "retire-shutdown"}
  ShutdownCalls = {"abandon"}
  Policies = {"finish"}
INVARIANTS OutstandingExact
PROPERTIES RetireBarrier RetiredNeverRuns
