SPECIFICATION OrderSpec
CONSTANTS
  Plans <- AllPlans
  Parallel = 3
  Budget = 2
  MaxAttempts = 2
  MaxReplans = 1
CHECK_DEADLOCK FALSE
INVARIANTS
  NeedsComeFirst
  OwnWork
  AskedLast
PROPERTIES
  WaitsForMachinesAlone
