SPECIFICATION FairSpec
CONSTANTS
  MaxPlans = 2
  NumSteps = 1
  ScreenSteps = {1}
  MaxRounds = 1
  MaxFailures = 2
  MaxCrashes = 0
  FalseClaims = FALSE
INVARIANTS EffectOnce DecisionsAreOffered
PROPERTY TurnEnds
CHECK_DEADLOCK FALSE
