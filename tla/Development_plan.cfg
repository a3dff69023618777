SPECIFICATION Spec
CONSTANTS
  Kinds = {"screen"}
  MaxPhases = 2
  MaxBuildAttempts = 2
  MaxReviewRounds = 0
  MaxRejectRounds = 0
  MaxCiAttempts = 0
  ReviewMode = "off"
  Supervised = TRUE
  Combined = FALSE
  MaxCrashes = 0
  MaxSteers = 1
  MaxInterventions = 2
\* done, cancelled, or out of the interventions the bound allows
CHECK_DEADLOCK FALSE
INVARIANTS
  StepsAreLegal
  PhasesAccountedFor
  PlanAndTestsAgreed
  QaSeesTheWholePlan
  DecisionKeepsItsPlace
