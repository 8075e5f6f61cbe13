SPECIFICATION FairSpec
CONSTANTS
  c1 = c1
  c2 = c2
  Caller = {c1, c2}
  Nobody = Nobody
  Platforms = {"unix", "windows"}
  PathsOf <- Paths
  MountingsOf <- Mountings
  Links <- MCLinks
  Firmlinks <- MCFirmlinks
  Drives = {"C", "D", "E"}
  MaxHops = 5
  MaxNames = 4
INVARIANTS ResolvesAsKernel OneEntryPerVolume
PROPERTIES NeverWaitsOnRemote KeyIsCurrent LookupEnds
