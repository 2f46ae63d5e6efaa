SPECIFICATION FairSpec
CONSTANTS
  j1 = j1
  j2 = j2
  w1 = w1
  w2 = w2
  c1 = c1
  c2 = c2
  None = None
  Jobs <- OneJob
  Enabled <- OneJob
  Workers <- OneWorker
  Manual <- NoWorkers
  Cursors <- OneCursor
  LeaseTerm = 1
  FailureCap = 1
  MaxFaults = 1
  LeaseMayLapse = FALSE
  Renewing <- NoWorkers
  Stoppable <- NoWorkers
PROPERTY LapsedLeaseIsReclaimed
