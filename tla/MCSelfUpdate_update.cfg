SPECIFICATION FairSpec
CONSTANTS
  MaxRelease = 3
  Knows <- Revisions
  Sorts <- AsText
  Keep = 1
  MaxBoxes = 3
  MaxDepth = 3
  MaxPresses = 2
  MaxTroubles = 2
INVARIANTS
  OneServes
  ProvenKept
PROPERTIES
  HelperUndisturbed
  CopiedBeforeItChanges
  ServesAgain
CHECK_DEADLOCK FALSE
