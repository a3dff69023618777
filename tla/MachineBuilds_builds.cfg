SPECIFICATION FairSpec
CONSTANTS
  Jobs = {j1}
  Machines = {m1, m2}
  Removable = {m1}
  MaxFixes = 0
  MaxBuilds = 2
  MaxCrashes = 1
INVARIANTS
  TakenBackOnce
PROPERTIES
  BuildsAreNotAwaitedForEver
  NobodyWaitsBesideABuilder
CHECK_DEADLOCK FALSE
