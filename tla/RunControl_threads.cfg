SPECIFICATION FairSpec
CONSTANTS
  Threads = {t1, t2, t3}
  Steps = 3
  Supervised = TRUE
  MaxCalls = 2
  MaxRequests = 3
\* nobody has to ask for anything
CHECK_DEADLOCK FALSE
INVARIANTS
  OneCallAtATime
  NoStrandedWork
PROPERTIES
  NothingStopsUnderACall
  WorkComesToRest
