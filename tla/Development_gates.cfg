SPECIFICATION FairSpec
CONSTANTS
  Kinds = {"code", "platform"}
  MaxPhases = 2
  MaxBuildAttempts = 2
  MaxReviewRounds = 1
  MaxRejectRounds = 1
  MaxCiAttempts = 1
  ReviewMode = "blocking"
  Supervised = TRUE
  Combined = FALSE
  MaxCrashes = 0
  MaxSteers = 1
  MaxInterventions = 1
\* done, cancelled, or out of the interventions the bound allows
CHECK_DEADLOCK FALSE
INVARIANTS
  ViolationsAnswered
  GateRunsOverItsPhase
PROPERTIES
  WorkEnds
