----------------------- MODULE MCMaintenanceScheduler -----------------------
(* Small instances of MaintenanceScheduler for TLC. *)
EXTENDS MaintenanceScheduler

CONSTANTS j1, j2, w1, w2, c1, c2

OneJob == {j1}
TwoJobs == {j1, j2}
OneWorker == {w1}
TwoWorkers == {w1, w2}
NoWorkers == {}
OneCursor == {c1}
OtherWorker == {w2}
=============================================================================
