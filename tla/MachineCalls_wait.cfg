SPECIFICATION FairSpec
CONSTANTS
  Askers = {a1}
  Machines = {m1, m2}
  Retries = 1
  MaxCalls = 3
  MaxCrashes = 1
  a1 = a1
  m1 = m1
  m2 = m2
\* the attempts end, and no machine has to do anything
CHECK_DEADLOCK FALSE
PROPERTIES
  KeepsThePromise
  StopIsTheEnd
  NoQuestionWaitsForEver
