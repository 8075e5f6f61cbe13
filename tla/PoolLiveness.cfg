SPECIFICATION FairSpec
CONSTANTS
  NumThreads = 2
  SelectorRange = 3
  a = a
  b = b
  c = c
  tagA = tagA
  Task = {a, b}
  NoTask = NoTask
  Tag = {tagA}
  NoTag = NoTag
  TagOf <- ATagged
  Spawns <- ASpawnsB
  Owner = Owner
  NoWorker = NoWorker
  Overlap = {"retire-shutdown"}
  ShutdownCalls = {"finish", "drain", "abandon"}
  Policies = {"finish", "abandon"}
PROPERTIES RetireReturns QueuedIsTaken ShutdownReturns
