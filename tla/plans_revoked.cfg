SPECIFICATION Spec
CONSTANTS
  MaxPlans = 2
  NumSteps = 2
  ScreenSteps = {2}
  MaxRounds = 0
  MaxFailures = 1
  MaxCrashes = 0
  FalseClaims = FALSE
INVARIANT RevokedStaysRevoked
CHECK_DEADLOCK FALSE
