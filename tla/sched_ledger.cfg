SPECIFICATION FairSpec
CONSTANTS
  j1 = j1
  j2 = j2
  w1 = w1
  w2 = w2
  c1 = c1
  c2 = c2
  None = None
  Jobs <- TwoJobs
  Enabled <- TwoJobs
  Workers <- TwoWorkers
  Manual <- OtherWorker
  Cursors <- OneCursor
  LeaseTerm = 2
  FailureCap = 1
  MaxFaults = 1
  LeaseMayLapse = TRUE
  Renewing <- OneWorker
  Stoppable <- OneWorker
INVARIANTS
  TypeOK
  OneExecutor
  CursorFollowsRun
  LeaseMatchesRun
PROPERTIES
  EveryDueJobRuns
  StopTerminates
