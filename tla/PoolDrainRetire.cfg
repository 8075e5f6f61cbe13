SPECIFICATION Spec
CONSTANTS
  NumThreads = 2
  SelectorRange = 3
  a = a
  b = b
  c = c
  tagA = tagA
  Task = {a}
  NoTask = NoTask
  Tag = {tagA}
  NoTag = NoTag
  TagOf <- AllTagged
  Spawns <- NoSpawns
  Owner = Owner
  NoWorker = NoWorker
  Overlap = {"retire-shutdown"}
  ShutdownCalls = {"drain"}
  Policies = {"finish"}
INVARIANTS DrainAssertion
