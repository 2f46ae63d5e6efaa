SPECIFICATION MFairSpec
CONSTANTS
  m1 = m1
  v1 = v1
  w1 = w1
  default = default
  target = target
  g1 = g1
  c1 = c1
  c2 = c2
  None = None
  Memories <- OneMemory
  Versions = {v1}
  MemoryOf <- OfOneMemory
  Profiles = {default, target}
  Default = default
  Workers = {w1}
  Refused <- TargetRefuses
  BatchSize = 1
  MaxAttempts = 1
  MaxFaults = 1
  Migrations = {g1}
  TargetOf <- OneTarget
  Callers = {c1, c2}
  MinCoverage = 99
INVARIANTS CompletedHasVector MigrationTypeOK ActiveFollowsLedger ReadyIsServed
PROPERTIES BackfillAdvances
CHECK_DEADLOCK FALSE
