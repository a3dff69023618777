SPECIFICATION FairSpec
CONSTANTS
  Jobs = {j1}
  Machines = {m1, m2}
  Removable = {}
  MaxFixes = 1
  MaxBuilds = 2
  MaxCrashes = 1
PROPERTIES
  SleepIsNotARedBuild
CHECK_DEADLOCK FALSE
