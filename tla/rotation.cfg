SPECIFICATION RotationFairSpec
CONSTANTS
  j1 = j1
  j2 = j2
  w1 = w1
  w2 = w2
  None = None
  Jobs = {j1, j2}
  Enabled = {j1, j2}
  Workers = {w1, w2}
  Manual = {}
  Cursors = {1, 2}
  LeaseTerm = 1
  FailureCap = 1
  MaxFaults = 0
  LeaseMayLapse = FALSE
  Renewing = {}
  Stoppable = {w1}
  MaxTenants = 2
  Rotating = {j1}
  CutsFirst = {j1}
  MaxPresent = 2
  RaisesInARow = 1
INVARIANT NobodyIsPassedOver
PROPERTY TenantsAreServed
CHECK_DEADLOCK FALSE
