--------------------- MODULE MaintenanceSchedulerProofs ---------------------
(***************************************************************************)
(* Proofs about MaintenanceScheduler for any jobs, workers and bounds.     *)
(* The invariants of the runs are not inductive: what makes them so is who *)
(* holds a row lock (LocksHeld), that a busy worker owns a running row     *)
(* (RunOwned), that a job has one such row (SingleRun), and that the       *)
(* cursor is frozen from the row lock on (ClaimIsCurrent).                 *)
(***************************************************************************)
EXTENDS MaintenanceScheduler, TLAPS

Claiming(w) == pc[w] \in {"locked", "executing", "closing"}

LocksHeld ==
  \A j \in Jobs, w \in Workers :
    lock[j] = w <=> pc[w] = "locked" /\ claim[w].job = j

RunOwned ==
  \A w \in Workers : Occupied(w) => <<claim[w].job, w>> \in running

SingleRun ==
  \A j \in Jobs, v, w \in Workers :
    <<j, v>> \in running /\ <<j, w>> \in running => v = w

ClaimIsCurrent ==
  \A w \in Workers :
    Claiming(w) => claim[w].job \in Jobs /\ cursor[claim[w].job] = claim[w].cursor

IInv ==
  /\ TypeOK /\ LocksHeld /\ RunOwned /\ SingleRun
  /\ ClaimIsCurrent /\ LeaseMatchesRun

\* The starting state satisfies the inductive invariant.
LEMMA InitInv == Init => IInv
BY JobsAssumption, BoundsAssumption
DEF Init, IInv, TypeOK, LocksHeld, RunOwned, SingleRun, ClaimIsCurrent,
    LeaseMatchesRun, Claiming, Occupied, NoLease, NoClaim, NoResult, Leases,
    Claims, Results, States

\* Every step of Next keeps the types.
LEMMA TypeInv == IInv /\ [Next]_vars => TypeOK'
<1> SUFFICES ASSUME IInv, [Next]_vars PROVE TypeOK'
  OBVIOUS
<1> USE JobsAssumption, BoundsAssumption
    DEF IInv, TypeOK, NoLease, NoClaim, NoResult, Leases, Claims, Results,
        States, jobVars
<1>1. ASSUME NEW w \in Workers, Step(w) PROVE TypeOK'
  <2>1. CASE Tick(w) \/ FindNothing(w) \/ Exit(w)
    <3>1. CASE Tick(w) BY <3>1 DEF Tick
    <3>2. CASE FindNothing(w) BY <3>2 DEF FindNothing
    <3>3. CASE Exit(w) BY <3>3 DEF Exit
    <3> QED BY <2>1, <3>1, <3>2, <3>3
  <2>2. CASE LockDueJob(w)
    BY <2>2 DEF LockDueJob, LockRow, Candidates
  <2>3. CASE OpenRun(w)
    <3>1. claim[w].job \in Jobs
      BY <2>3 DEF OpenRun, ClaimIsCurrent, Claiming
    <3> QED BY <2>3, <3>1 DEF OpenRun
  <2>4. CASE LoseRace(w)
    BY <2>4 DEF LoseRace, Return
  <2>5. CASE \E r \in Results : BeginClose(w, r)
    BY <2>5 DEF BeginClose
  <2>6. CASE CloseRun(w)
    <3> DEFINE j == claim[w].job
    <3>1. j \in Jobs /\ result[w].next \in Cursors \cup {None}
      BY <2>6 DEF CloseRun, ClaimIsCurrent, Claiming
    <3>2. rank' \in Orders /\ due' \subseteq Jobs
      BY <2>6 DEF CloseRun, Requeue
    <3>3. running' \subseteq Jobs \X Workers
      BY <2>6 DEF CloseRun
    <3>4. lease' \in [Jobs -> Leases] /\ lock' \in [Jobs -> Workers \cup {None}]
      <4>1. NoLease \in Leases
        OBVIOUS
      <4>2. lease' = [lease EXCEPT ![j] = NoLease] /\ lock' = lock
        BY <2>6 DEF CloseRun
      <4> HIDE DEF NoLease, Leases
      <4> QED BY <4>1, <4>2
    <3>5. cursor' \in [Jobs -> Cursors \cup {None}]
      BY <2>6, <3>1 DEF CloseRun, RecordResult
    <3>6. failures' \in [Jobs -> 0..FailureCap]
      BY <2>6, <3>1 DEF CloseRun, RecordResult
    <3>7. /\ pc' \in [Workers -> States] /\ claim' \in [Workers -> Claims]
          /\ result' \in [Workers -> Results]
          /\ stopping' \subseteq Workers /\ faults' \in 0..MaxFaults
      BY <2>6 DEF CloseRun, Return
    <3> QED BY <3>2, <3>3, <3>4, <3>5, <3>6, <3>7
  <2>7. ASSUME NEW v \in Workers,
               DeadlockAbortsClaim(w, v) \/ DeadlockAbortsClose(w, v)
        PROVE  TypeOK'
    <3>1. CASE DeadlockAbortsClaim(w, v)
      BY <3>1 DEF DeadlockAbortsClaim, Return
    <3>2. CASE DeadlockAbortsClose(w, v)
      BY <3>2 DEF DeadlockAbortsClose, AbortClose, Return
    <3> QED BY <2>7, <3>1, <3>2
  <2> QED
    BY <1>1, <2>1, <2>2, <2>3, <2>4, <2>5, <2>6, <2>7 DEF Step
<1>2. ASSUME NEW w \in Workers, NEW j \in Jobs, LockForced(w, j) PROVE TypeOK'
  BY <1>2 DEF LockForced, LockRow
<1>3. ASSUME NEW w \in Workers, Heartbeat(w) PROVE TypeOK'
  <2>1. claim[w].job \in Jobs
    BY <1>3 DEF Heartbeat, ClaimIsCurrent, Claiming
  <2>2. lease' \in [Jobs -> Leases]
    <3>1. lease[claim[w].job] \in Leases BY <2>1
    <3> QED BY <1>3, <2>1, <3>1 DEF Heartbeat
  <2> QED BY <1>3, <2>2 DEF Heartbeat
<1>4. ASSUME NEW w \in Workers, DatabaseError(w) \/ Crash(w) PROVE TypeOK'
  <2>1. CASE DatabaseError(w)
    BY <2>1 DEF DatabaseError, AbortClose, Return
  <2>2. CASE Crash(w)
    BY <2>2 DEF Crash
  <2> QED BY <1>4, <2>1, <2>2
<1>5. ASSUME NEW w \in Workers, Restart(w) \/ RequestStop(w) PROVE TypeOK'
  BY <1>5 DEF Restart, RequestStop
<1>6. ASSUME NEW j \in Jobs, BecomeDue(j) \/ LeaseTick(j) PROVE TypeOK'
  <2>1. CASE BecomeDue(j)
    BY <2>1 DEF BecomeDue
  <2>2. CASE LeaseTick(j)
    <3>1. lease' \in [Jobs -> Leases]
      <4>1. lease[j] \in Leases /\ lease[j].left - 1 \in 0..LeaseTerm
        BY <2>2 DEF LeaseTick
      <4> QED BY <2>2, <4>1 DEF LeaseTick
    <3> QED BY <2>2, <3>1 DEF LeaseTick
  <2> QED BY <1>6, <2>1, <2>2
<1>7. CASE UNCHANGED vars
  BY <1>7 DEF vars
<1> QED
  BY <1>1, <1>2, <1>3, <1>4, <1>5, <1>6, <1>7 DEF Next

\* The row-lock, ownership and agreement conjuncts survive every step.
LEMMA LedgerInv ==
  IInv /\ [Next]_vars =>
    (LocksHeld /\ RunOwned /\ SingleRun /\ ClaimIsCurrent /\ LeaseMatchesRun)'
<1> SUFFICES ASSUME IInv, [Next]_vars
             PROVE  (LocksHeld /\ RunOwned /\ SingleRun /\ ClaimIsCurrent
                       /\ LeaseMatchesRun)'
  OBVIOUS
<1> DEFINE Ledger == LocksHeld /\ RunOwned /\ SingleRun /\ ClaimIsCurrent
                       /\ LeaseMatchesRun
<1>0. TypeOK' BY TypeInv
<1> USE <1>0, JobsAssumption
    DEF IInv, TypeOK, NoLease, NoClaim, NoResult, Leases, Claims, States,
        jobVars, LocksHeld, RunOwned, SingleRun, ClaimIsCurrent,
        LeaseMatchesRun, Claiming, Occupied
<1>1. ASSUME NEW w \in Workers, Step(w) PROVE Ledger'
  <2>1. CASE Tick(w) \/ FindNothing(w) \/ Exit(w)
    BY <2>1 DEF Tick, FindNothing, Exit
  <2>2. CASE LockDueJob(w)
    BY <2>2 DEF LockDueJob, LockRow, Candidates, Claimable
  <2>3. CASE OpenRun(w)
    BY <2>3 DEF OpenRun, RunsOf
  <2>4. CASE LoseRace(w)
    BY <2>4 DEF LoseRace, Return
  <2>5. CASE \E r \in Results : BeginClose(w, r)
    BY <2>5 DEF BeginClose
  <2>6. CASE CloseRun(w)
    <3> DEFINE j == claim[w].job
    <3>1. /\ j \in Jobs /\ <<j, w>> \in running /\ lock[j] = None
          /\ pc' = [pc EXCEPT ![w] = "poll"]
          /\ claim' = [claim EXCEPT ![w] = NoClaim]
          /\ running' = running \ {<<j, w>>}
          /\ lease' = [lease EXCEPT ![j] = NoLease]
          /\ lock' = lock /\ pc[w] = "closing"
      BY <2>6 DEF CloseRun, Return
    <3>2. \A k \in Jobs \ {j} : cursor'[k] = cursor[k]
      BY <2>6 DEF CloseRun, RecordResult
    <3> HIDE DEF j
    <3>3. \A v \in Workers \ {w} : Claiming(v) => claim[v].job # j
      <4> SUFFICES ASSUME NEW v \in Workers \ {w}, Claiming(v), claim[v].job = j
                   PROVE  FALSE
        OBVIOUS
      <4>1. pc[v] # "locked"
        BY <3>1
      <4>2. <<j, v>> \in running
        BY <4>1
      <4> QED BY <3>1, <4>2
    <3>4. ClaimIsCurrent'
      BY <3>1, <3>2, <3>3
    <3>5. LeaseMatchesRun'
      <4> SUFFICES ASSUME NEW k \in Jobs, NEW v \in Workers
                   PROVE  lease'[k].owner = v <=> <<k, v>> \in running'
        OBVIOUS
      <4>1. CASE k # j
        BY <3>1, <4>1
      <4>2. CASE k = j
        <5>1. lease'[j] = NoLease /\ <<j, v>> \notin running'
          BY <3>1
        <5> QED BY <4>2, <5>1
      <4> QED BY <4>1, <4>2
    <3>6. LocksHeld'
      BY <3>1
    <3>7. RunOwned'
      <4> SUFFICES ASSUME NEW v \in Workers, Occupied(v)'
                   PROVE  <<claim'[v].job, v>> \in running'
        OBVIOUS
      <4>1. v # w /\ claim'[v] = claim[v] /\ Occupied(v)
        BY <3>1
      <4> QED BY <3>1, <4>1
    <3>8. SingleRun'
      BY <3>1
    <3> QED BY <3>4, <3>5, <3>6, <3>7, <3>8
  <2>7. ASSUME NEW v \in Workers, DeadlockAbortsClaim(w, v) PROVE Ledger'
    BY <2>7 DEF DeadlockAbortsClaim, Deadlocked, Return
  <2>8. ASSUME NEW v \in Workers, DeadlockAbortsClose(w, v) PROVE Ledger'
    BY <2>8 DEF DeadlockAbortsClose, Deadlocked, Closing, AbortClose, Return
  <2> QED
    BY <1>1, <2>1, <2>2, <2>3, <2>4, <2>5, <2>6, <2>7, <2>8 DEF Step
<1>2. ASSUME NEW w \in Workers, NEW j \in Jobs, LockForced(w, j) PROVE Ledger'
  BY <1>2 DEF LockForced, LockRow, Claimable
<1>3. ASSUME NEW w \in Workers, Heartbeat(w) PROVE Ledger'
  BY <1>3 DEF Heartbeat
<1>4. ASSUME NEW w \in Workers, DatabaseError(w) \/ Crash(w) PROVE Ledger'
  <2>1. CASE DatabaseError(w)
    BY <2>1 DEF DatabaseError, AbortClose, Return
  <2>2. CASE Crash(w)
    BY <2>2 DEF Crash
  <2> QED BY <1>4, <2>1, <2>2
<1>5. ASSUME NEW w \in Workers, Restart(w) \/ RequestStop(w) PROVE Ledger'
  BY <1>5 DEF Restart, RequestStop
<1>6. ASSUME NEW j \in Jobs, BecomeDue(j) \/ LeaseTick(j) PROVE Ledger'
  BY <1>6 DEF BecomeDue, LeaseTick
<1>7. CASE UNCHANGED vars
  BY <1>7 DEF vars
<1> QED
  BY <1>1, <1>2, <1>3, <1>4, <1>5, <1>6, <1>7 DEF Next

\* The inductive invariant holds in every behaviour of the scheduler.
THEOREM Invariance == Spec => []IInv
<1>1. IInv /\ [Next]_vars => IInv'
  BY TypeInv, LedgerInv DEF IInv
<1> QED
  BY InitInv, <1>1, PTL DEF Spec

\* The tables and the workers keep their types.
THEOREM TypeCorrect == Spec => []TypeOK
BY Invariance, PTL DEF IInv

\* claim_due_job hands a job to one worker at a time, whatever leases do.
THEOREM MutualExclusion == Spec => []OneExecutor
<1>1. IInv => OneExecutor
  BY DEF IInv, TypeOK, RunOwned, SingleRun, OneExecutor, Occupied
<1> QED
  BY Invariance, <1>1, PTL

\* complete() always replaces the very cursor its worker started from.
THEOREM NoLostProgress == Spec => []CursorFollowsRun
<1>1. IInv => CursorFollowsRun
  BY DEF IInv, ClaimIsCurrent, Claiming, CursorFollowsRun, Occupied
<1> QED
  BY Invariance, <1>1, PTL

\* The lease columns of jobs and the running rows of runs never disagree.
THEOREM LedgerAgreement == Spec => []LeaseMatchesRun
BY Invariance, PTL DEF IInv
=============================================================================
