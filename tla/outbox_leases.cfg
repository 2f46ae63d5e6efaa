SPECIFICATION FairSpec
CONSTANTS
  m1 = m1
  v1 = v1
  w1 = w1
  w2 = w2
  default = default
  target = target
  None = None
  Memories <- OneMemory
  Versions = {v1}
  MemoryOf <- OfOneMemory
  Profiles = {default, target}
  Default = default
  Workers = {w1, w2}
  Refused <- TargetRefuses
  BatchSize = 1
  MaxAttempts = 2
  MaxFaults = 1
INVARIANTS ClaimsAreNumbered
PROPERTIES FirstCompletionIsFinal QueueDrains
CHECK_DEADLOCK FALSE
