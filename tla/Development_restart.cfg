SPECIFICATION Spec
CONSTANTS
  Kinds = {"code"}
  MaxPhases = 2
  MaxBuildAttempts = 2
  MaxReviewRounds = 0
  MaxRejectRounds = 0
  MaxCiAttempts = 0
  ReviewMode = "off"
  Supervised = FALSE
  Combined = FALSE
  MaxCrashes = 1
  MaxSteers = 0
  MaxInterventions = 0
\* done, cancelled, or out of the interventions the bound allows
CHECK_DEADLOCK FALSE
INVARIANTS
  EveryPhaseBuilt
