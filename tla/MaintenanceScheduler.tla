------------------------ MODULE MaintenanceScheduler ------------------------
(***************************************************************************)
(* The maintenance scheduler: worker processes running                     *)
(* MaintenanceService.run_forever (memory/maintenance/service.py) against  *)
(* the ledger of MaintenanceRepository (memory/maintenance/repository.py), *)
(* whose tables and partial unique index come from migration 0006.         *)
(*                                                                         *)
(* A transaction of the ledger is split where it can wait: claim_due_job   *)
(* locks a row of "jobs" and then inserts a row of "runs", complete() and  *)
(* fail() lock the row of "runs" and then update the row of "jobs".  The   *)
(* two orders are opposite, so the database may have to break a deadlock.  *)
(*                                                                         *)
(* Time: next_run_at is kept as the order of the jobs by next_run_at       *)
(* (rank) and the set of those whose next_run_at has passed (due); a lease *)
(* as the ticks it has left.                                               *)
(***************************************************************************)
EXTENDS Naturals, FiniteSets

CONSTANTS
  Jobs,            \* rows of memory_maintenance_jobs
  Enabled,         \* the jobs whose "enabled" is true (no code writes it)
  Workers,         \* worker processes
  Manual,          \* those that are "once --job X --force" invocations
  Cursors,         \* what a Job may leave in jobs.cursor
  None,            \* SQL NULL
  LeaseTerm,       \* ticks a lease lasts
  FailureCap,      \* consecutive_failures is counted up to this bound
  MaxFaults,       \* bound on process crashes and database errors
  LeaseMayLapse,   \* may a lease run out while its worker is still alive?
  Renewing,        \* workers that call heartbeat (the service never does)
  Stoppable        \* workers that may be asked to stop

ASSUME JobsAssumption ==
  /\ IsFiniteSet(Jobs) /\ Enabled \subseteq Jobs
  /\ None \notin Jobs \cup Workers \cup Cursors
  /\ Cursors # {}
ASSUME BoundsAssumption ==
  /\ LeaseTerm \in Nat \ {0} /\ FailureCap \in Nat \ {0} /\ MaxFaults \in Nat
  /\ LeaseMayLapse \in BOOLEAN
  /\ Manual \cup Renewing \cup Stoppable \subseteq Workers

VARIABLES
  rank,      \* rank[j]: position of jobs.next_run_at in ORDER BY next_run_at
  due,       \* the jobs with next_run_at <= now()
  cursor,    \* jobs.cursor
  lease,     \* jobs.lease_owner and the ticks until lease_expires_at
  failures,  \* jobs.consecutive_failures, capped
  lock,      \* holder of the row lock on jobs
  running,   \* rows of runs with status 'running', as <<job, worker>>
  pc,        \* where each worker is
  claim,     \* the JobClaim a worker holds: job and cursor
  result,    \* what the worker's Job returned or raised
  stopping,  \* workers whose _stop_event is set
  faults     \* crashes and database errors so far

jobVars == <<rank, due, cursor, lease, failures>>
vars == <<rank, due, cursor, lease, failures, lock, running, pc, claim,
          result, stopping, faults>>

-----------------------------------------------------------------------------
Orders == {r \in [Jobs -> 1..Cardinality(Jobs)] :
             \A a, b \in Jobs : r[a] = r[b] => a = b}
NoLease == [owner |-> None, left |-> 0]
NoClaim == [job |-> None, cursor |-> None]
NoResult == [ok |-> FALSE, next |-> None]
Leases == [owner : Workers \cup {None}, left : 0..LeaseTerm]
Claims == [job : Jobs \cup {None}, cursor : Cursors \cup {None}]
Results == [ok : BOOLEAN, next : Cursors \cup {None}]
States == {"poll", "tick", "locked", "executing", "closing", "stopped",
           "crashed"}

TypeOK ==
  /\ rank \in Orders
  /\ due \subseteq Jobs
  /\ cursor \in [Jobs -> Cursors \cup {None}]
  /\ lease \in [Jobs -> Leases]
  /\ failures \in [Jobs -> 0..FailureCap]
  /\ lock \in [Jobs -> Workers \cup {None}]
  /\ running \subseteq Jobs \X Workers
  /\ pc \in [Workers -> States]
  /\ claim \in [Workers -> Claims]
  /\ result \in [Workers -> Results]
  /\ stopping \subseteq Workers
  /\ faults \in 0..MaxFaults

\* A worker between the commit of its claim and the end of complete()/fail().
Occupied(w) == pc[w] \in {"executing", "closing"}
\* The run row that a complete()/fail() transaction has locked and rewritten.
Closing(j, w) == pc[w] = "closing" /\ claim[w].job = j

Init ==
  /\ rank \in Orders
  /\ due = Jobs
  /\ cursor = [j \in Jobs |-> None]
  /\ lease = [j \in Jobs |-> NoLease]
  /\ failures = [j \in Jobs |-> 0]
  /\ lock = [j \in Jobs |-> None]
  /\ running = {}
  /\ pc = [w \in Workers |-> "poll"]
  /\ claim = [w \in Workers |-> NoClaim]
  /\ result = [w \in Workers |-> NoResult]
  /\ stopping = {}
  /\ faults = 0

-----------------------------------------------------------------------------
(* claim_due_job, first half: SELECT ... FOR UPDATE SKIP LOCKED LIMIT 1.    *)

LeaseFree(j) == lease[j].owner = None \/ lease[j].left = 0
Claimable(j) == LeaseFree(j) /\ lock[j] = None

LockRow(w, j) ==
  /\ pc' = [pc EXCEPT ![w] = "locked"]
  /\ lock' = [lock EXCEPT ![j] = w]
  /\ claim' = [claim EXCEPT ![w] = [job |-> j, cursor |-> cursor[j]]]
  /\ UNCHANGED <<jobVars, running, result, stopping, faults>>

\* The jobs the scheduling query may return: due, enabled, free, unlocked.
Candidates == {j \in due \cap Enabled : Claimable(j)}

\* run_forever looks at _stop_event at the top of its loop only, so a request
\* that arrives inside _tick is seen after one more job.
Tick(w) ==
  /\ pc[w] = "poll" /\ w \notin stopping \cup Manual
  /\ pc' = [pc EXCEPT ![w] = "tick"]
  /\ UNCHANGED <<jobVars, lock, running, claim, result, stopping, faults>>

\* No row to claim: back to the loop after poll_seconds.
FindNothing(w) ==
  /\ pc[w] = "tick" /\ Candidates = {}
  /\ pc' = [pc EXCEPT ![w] = "poll"]
  /\ UNCHANGED <<jobVars, lock, running, claim, result, stopping, faults>>

\* The earliest next_run_at wins.
LockDueJob(w) ==
  /\ pc[w] = "tick"
  /\ \E j \in Candidates :
       /\ \A k \in Candidates : rank[j] <= rank[k]
       /\ LockRow(w, j)

\* run_once(job, force=True), one claim per process: skips enabled and
\* next_run_at, respects the lease.
LockForced(w, j) ==
  /\ pc[w] = "poll" /\ w \in Manual
  /\ Claimable(j)
  /\ LockRow(w, j)

-----------------------------------------------------------------------------
(* claim_due_job, second half: INSERT the run, update the lease, commit.    *)

Return(w) ==  \* back to the loop (or to the next invocation), nothing held
  /\ pc' = [pc EXCEPT ![w] = "poll"]
  /\ claim' = [claim EXCEPT ![w] = NoClaim]
  /\ result' = [result EXCEPT ![w] = NoResult]

RunsOf(j) == {r \in running : r[1] = j}

\* Mutant: the lease alone guards the claim, no partial unique index.
OpenRun_LeaseOnly(w) ==
  LET j == claim[w].job IN
  /\ pc[w] = "locked"
  /\ running' = running \cup {<<j, w>>}
  /\ lease' = [lease EXCEPT ![j] = [owner |-> w, left |-> LeaseTerm]]
  /\ lock' = [lock EXCEPT ![j] = None]
  /\ pc' = [pc EXCEPT ![w] = "executing"]
  /\ UNCHANGED <<rank, due, cursor, failures, claim, result, stopping, faults>>

OpenRun(w) ==
  LET j == claim[w].job IN
  /\ pc[w] = "locked"
  /\ RunsOf(j) = {}
  /\ running' = running \cup {<<j, w>>}
  /\ lease' = [lease EXCEPT ![j] = [owner |-> w, left |-> LeaseTerm]]
  /\ lock' = [lock EXCEPT ![j] = None]
  /\ pc' = [pc EXCEPT ![w] = "executing"]
  /\ UNCHANGED <<rank, due, cursor, failures, claim, result, stopping, faults>>

\* memory_maintenance_runs_one_running_idx: the insert collides with a
\* committed running row and the transaction rolls back as ClaimRace.  A row
\* that is just being closed makes the insert wait instead.
LoseRace(w) ==
  LET j == claim[w].job IN
  /\ pc[w] = "locked"
  /\ \E r \in RunsOf(j) : ~Closing(j, r[2])
  /\ lock' = [lock EXCEPT ![j] = None]
  /\ Return(w)
  /\ UNCHANGED <<jobVars, running, stopping, faults>>

-----------------------------------------------------------------------------
(* Executing the Job and closing the run.                                   *)

\* Mutant: the renewal is added to what is left of the lease.
Heartbeat_Adds(w) ==
  LET j == claim[w].job IN
  /\ pc[w] = "executing" /\ w \in Renewing
  /\ lock[j] = None
  /\ lease[j].owner = w /\ lease[j].left \in 1..LeaseTerm - 1
  /\ lease' = [lease EXCEPT ![j].left = @ + LeaseTerm]
  /\ UNCHANGED <<rank, due, cursor, failures, lock, running, pc, claim, result,
                 stopping, faults>>

Heartbeat(w) ==
  LET j == claim[w].job IN
  /\ pc[w] = "executing" /\ w \in Renewing
  /\ lock[j] = None
  /\ lease[j].owner = w /\ lease[j].left \in 1..LeaseTerm - 1
  /\ lease' = [lease EXCEPT ![j].left = LeaseTerm]
  /\ UNCHANGED <<rank, due, cursor, failures, lock, running, pc, claim, result,
                 stopping, faults>>

\* job.run returned a JobResult or raised; complete()/fail() updates its row
\* of runs, which must still be 'running'.
BeginClose(w, r) ==
  /\ pc[w] = "executing"
  /\ <<claim[w].job, w>> \in running
  /\ r.ok \/ r.next = None
  /\ pc' = [pc EXCEPT ![w] = "closing"]
  /\ result' = [result EXCEPT ![w] = r]
  /\ UNCHANGED <<jobVars, lock, running, claim, stopping, faults>>

\* Mutant: next_run_at is left where it was.
Requeue_KeepsPlace(j) == UNCHANGED <<rank, due>>

\* next_run_at = now() + interval: behind every job that is due, anywhere
\* among those that are not.
Requeue(j) ==
  /\ due' = due \ {j}
  /\ rank' \in Orders
  /\ \A a, b \in Jobs \ {j} : rank'[a] < rank'[b] <=> rank[a] < rank[b]
  /\ \A a \in due \ {j} : rank'[a] < rank'[j]

\* The outcome in the row of jobs: success moves the cursor and clears the
\* failure count, failure counts one more and leaves the cursor alone.
RecordResult(w, j) ==
  IF result[w].ok
  THEN /\ cursor' = [cursor EXCEPT ![j] = result[w].next]
       /\ failures' = [failures EXCEPT ![j] = 0]
  ELSE /\ failures' = [failures EXCEPT
                        ![j] = IF @ < FailureCap THEN @ + 1 ELSE @]
       /\ UNCHANGED cursor

\* Mutant: the update does not wait for a claim that has locked the row.
CloseRun_NoRowLock(w) ==
  LET j == claim[w].job IN
  /\ pc[w] = "closing"
  /\ running' = running \ {<<j, w>>}
  /\ Requeue(j)
  /\ lease' = [lease EXCEPT ![j] = NoLease]
  /\ RecordResult(w, j)
  /\ Return(w)
  /\ UNCHANGED <<lock, stopping, faults>>

\* Mutant: fail() leaves lease_owner in place.
CloseRun_KeepsLease(w) ==
  LET j == claim[w].job IN
  /\ pc[w] = "closing"
  /\ lock[j] = None
  /\ running' = running \ {<<j, w>>}
  /\ Requeue(j)
  /\ lease' = IF result[w].ok THEN [lease EXCEPT ![j] = NoLease] ELSE lease
  /\ RecordResult(w, j)
  /\ Return(w)
  /\ UNCHANGED <<lock, stopping, faults>>

\* The update of jobs needs its row lock, then the transaction commits.
CloseRun(w) ==
  LET j == claim[w].job IN
  /\ pc[w] = "closing"
  /\ lock[j] = None
  /\ running' = running \ {<<j, w>>}
  /\ Requeue(j)
  /\ lease' = [lease EXCEPT ![j] = NoLease]
  /\ RecordResult(w, j)
  /\ Return(w)
  /\ UNCHANGED <<lock, stopping, faults>>

-----------------------------------------------------------------------------
(* Failures.                                                                *)

\* complete()/fail() raises and rolls back; the service logs it and goes on.
AbortClose(w) ==
  /\ Return(w)
  /\ UNCHANGED <<jobVars, lock, running, stopping>>

DatabaseError(w) ==
  /\ pc[w] = "closing" /\ faults < MaxFaults
  /\ faults' = faults + 1
  /\ AbortClose(w)

\* w holds the job row and waits for the run row, v the other way round: the
\* database aborts one of the two transactions.
Deadlocked(w, v) == pc[w] = "locked" /\ Closing(claim[w].job, v)

DeadlockAbortsClaim(w, v) ==
  /\ Deadlocked(w, v)
  /\ lock' = [lock EXCEPT ![claim[w].job] = None]
  /\ Return(w)
  /\ UNCHANGED <<jobVars, running, stopping, faults>>

DeadlockAbortsClose(w, v) ==
  /\ Deadlocked(w, v)
  /\ AbortClose(v)
  /\ UNCHANGED faults

\* The process dies; an open transaction is rolled back, committed rows stay.
Crash(w) ==
  /\ pc[w] \notin {"stopped", "crashed"}
  /\ faults < MaxFaults
  /\ faults' = faults + 1
  /\ pc' = [pc EXCEPT ![w] = "crashed"]
  /\ lock' = [j \in Jobs |-> IF lock[j] = w THEN None ELSE lock[j]]
  /\ claim' = [claim EXCEPT ![w] = NoClaim]
  /\ result' = [result EXCEPT ![w] = NoResult]
  /\ UNCHANGED <<jobVars, running, stopping>>

Restart(w) ==
  /\ pc[w] = "crashed"
  /\ pc' = [pc EXCEPT ![w] = "poll"]
  /\ stopping' = stopping \ {w}
  /\ UNCHANGED <<jobVars, lock, running, claim, result, faults>>

-----------------------------------------------------------------------------
(* Stopping and time.                                                       *)

RequestStop(w) ==
  /\ w \in Stoppable \ stopping
  /\ pc[w] \notin {"stopped", "crashed"}
  /\ stopping' = stopping \cup {w}
  /\ UNCHANGED <<jobVars, lock, running, pc, claim, result, faults>>

\* Mutant: a stopping worker waits until nothing is due any more.
Exit_Drained(w) ==
  /\ pc[w] = "poll" /\ w \in stopping /\ Candidates = {}
  /\ pc' = [pc EXCEPT ![w] = "stopped"]
  /\ UNCHANGED <<jobVars, lock, running, claim, result, stopping, faults>>

Exit(w) ==
  /\ pc[w] = "poll" /\ w \in stopping
  /\ pc' = [pc EXCEPT ![w] = "stopped"]
  /\ UNCHANGED <<jobVars, lock, running, claim, result, stopping, faults>>

BecomeDue(j) ==
  /\ j \notin due
  /\ \A k \in Jobs \ due : rank[j] <= rank[k]
  /\ due' = due \cup {j}
  /\ UNCHANGED <<rank, cursor, lease, failures, lock, running, pc, claim,
                 result, stopping, faults>>

LeaseTick(j) ==
  /\ lease[j].left > 0
  /\ LeaseMayLapse \/ ~\E w \in Workers : Occupied(w) /\ claim[w].job = j
  /\ lease' = [lease EXCEPT ![j].left = @ - 1]
  /\ UNCHANGED <<rank, due, cursor, failures, lock, running, pc, claim, result,
                 stopping, faults>>

-----------------------------------------------------------------------------
Step(w) ==
  \/ Tick(w) \/ FindNothing(w) \/ LockDueJob(w) \/ OpenRun(w) \/ LoseRace(w)
  \/ \E r \in Results : BeginClose(w, r)
  \/ CloseRun(w)
  \/ Exit(w)
  \/ \E v \in Workers : DeadlockAbortsClaim(w, v) \/ DeadlockAbortsClose(w, v)

Next ==
  \/ \E w \in Workers :
       \/ Step(w)
       \/ \E j \in Jobs : LockForced(w, j)
       \/ Heartbeat(w)
       \/ DatabaseError(w) \/ Crash(w) \/ Restart(w) \/ RequestStop(w)
  \/ \E j \in Jobs : BecomeDue(j) \/ LeaseTick(j)

Spec == Init /\ [][Next]_vars

\* Every process takes its next step and time passes; nobody has to force a
\* run, renew a lease, crash or be stopped.  CloseRun is strongly fair because
\* a transaction that waits for a row lock is next in the row's lock queue.
Fairness ==
  /\ \A w \in Workers :
       WF_vars(Step(w)) /\ SF_vars(CloseRun(w)) /\ WF_vars(Restart(w))
  /\ \A j \in Jobs : WF_vars(BecomeDue(j)) /\ WF_vars(LeaseTick(j))

FairSpec == Spec /\ Fairness

-----------------------------------------------------------------------------
(* Safety.                                                                  *)

\* Two workers never execute the same Job at the same time, even after a
\* lease ran out under its owner: the claim of claim_due_job is exclusive.
OneExecutor ==
  \A v, w \in Workers :
    Occupied(v) /\ Occupied(w) /\ claim[v].job = claim[w].job => v = w

\* The cursor a worker was handed by claim_due_job is still the one in the
\* ledger when complete() overwrites it: no progress is lost or repeated.
CursorFollowsRun ==
  \A w \in Workers : Occupied(w) => cursor[claim[w].job] = claim[w].cursor

\* jobs.lease_owner and the running row of runs always agree: both are set by
\* claim_due_job and cleared by complete()/fail() in one transaction.
LeaseMatchesRun ==
  \A j \in Jobs, w \in Workers : lease[j].owner = w <=> <<j, w>> \in running

-----------------------------------------------------------------------------
(* Liveness.                                                                *)

Executed(j) == \E w \in Workers : pc[w] = "executing" /\ claim[w].job = j

\* A job whose lease has run out without its run being closed is claimed
\* again, as the comment of migration 0006 on lease_owner says.
LapsedLeaseIsReclaimed ==
  \A j \in Enabled :
    (j \in due /\ lease[j].owner # None /\ lease[j].left = 0) ~> Executed(j)

\* A run that nobody will close: its worker is dead, or its close was rolled back.
Orphaned(j) ==
  \E r \in RunsOf(j) : ~(Occupied(r[2]) /\ claim[r[2]].job = j)

\* ORDER BY next_run_at LIMIT 1 comes to an orphaned run first, at every poll.
HeldUp(j) ==
  \E k \in due \cap Enabled : Orphaned(k) /\ rank[k] < rank[j]

\* A due job that has no run open in the ledger is executed, whoever crashes,
\* outlives a lease, forces runs or loses a deadlock, as long as a service goes
\* on: nothing but an orphaned run with an earlier next_run_at holds it up.
EveryDueJobRuns ==
  \A j \in Enabled :
    (j \in due /\ RunsOf(j) = {})
      ~> Executed(j) \/ HeldUp(j) \/ Workers \ Manual \subseteq stopping

\* A worker that is asked to stop exits: it never waits forever in a
\* transaction, not even when a claim and a close deadlock again and again, and
\* it does not run job after job while some are due.
StopTerminates ==
  \A w \in Stoppable : w \in stopping ~> pc[w] \in {"stopped", "crashed"}
=============================================================================
