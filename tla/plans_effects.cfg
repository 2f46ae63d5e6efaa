SPECIFICATION Spec
CONSTANTS
  MaxPlans = 2
  NumSteps = 2
  ScreenSteps = {2}
  MaxRounds = 0
  MaxFailures = 1
  MaxCrashes = 1
  FalseClaims = TRUE
INVARIANTS TypeOK CompletedIsBorneOut
PROPERTIES ProgressIsCarried ImplementsStepEffects
CHECK_DEADLOCK FALSE
