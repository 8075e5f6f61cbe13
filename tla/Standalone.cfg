SPECIFICATION Spec
CONSTANTS
  MaxPauses = 3
  MaxStarts = 3
  t1 = t1
  t2 = t2
  t3 = t3
  e1 = e1
  e2 = e2
  tagged = tagged
  Task = {t1, t2, t3}
  NoTask = NoTask
  Untagged = Untagged
  TagOf <- Tags
  Executor = {e1, e2}
  MaxLength = 3
  p1 = p1
  p2 = p2
  c1 = c1
  c2 = c2
  c3 = c3
  Producer = {p1, p2}
  Consumer = {c1, c2, c3}
  MaxSize = 2
  MaxPushes = 2
  Usages = {"pop", "predicate", "wait"}
  MaxRuns = 3
  MaxRequests = 3
  Permutation <- Fresh
  Widths = {256, 384, 512}
  Pieces <- Lengths
  MaxMessage = 150
  Seeds <- Bits
  Systems <- SomeSystems
  MaxChanges = 1
  Site = {1, 2, 3}
  NameOf <- Names
  Nobody = 0
  Resetter = 4
  Durations = {2}
  MaxSamples = 1
  MaxResets = 2
  Volumes <- SomeVolumes
  MaxReplaced = 1
INVARIANTS AtMostOneLateCall OnePerTag OldestFirst EachItemWakesOne FlagReachesAll HashIsOfMessage SamplesAreCounted CountsAddUp CountsMatchCpus
PROPERTIES TerminateReturns UnpausedRuns PauseParks EntryTaken ExecReturns CancellationEndsRun RoundIsFips PredicateWaitHolds FastIsAttested
CHECK_DEADLOCK FALSE
