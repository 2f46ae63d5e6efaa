----------------------------- MODULE JobRotation -----------------------------
(***************************************************************************)
(* The Jobs that go from tenant to tenant, as the scheduler runs them: the *)
(* run of a Job lists the tenants, takes those behind its cursor and       *)
(* handles them in order until none is left or the time is up              *)
(* (sweep_tenants of memory/maintenance/tenants.py for ExpirationJob,      *)
(* PurgeJob and ConsolidationJob, the loop of EmbeddingOutboxJob).  The    *)
(* results that MaintenanceScheduler leaves open are computed here.        *)
(*                                                                         *)
(* A tenant is its place in the order of tenant_key.  What its handler     *)
(* does is the other modules' matter.  Nothing passes should_stop to the   *)
(* Jobs (build_job), so a run ends early by its deadline only, or, purging, *)
(* by a leak it finds.                                                     *)
(***************************************************************************)
EXTENDS MaintenanceScheduler

CONSTANTS
  Rotating,    \* the jobs that go from tenant to tenant
  MaxTenants,  \* max_tenants_per_run
  CutsFirst,   \* jobs that cut the list to max_tenants before the cursor is
               \* looked at (EmbeddingOutboxJob)
  MaxPresent,  \* bound on the tenants there are at a time
  RaisesInARow \* bound on the runs of a job that raise one after another

ASSUME RotationAssumption ==
  /\ Cursors \subseteq Nat
  /\ MaxTenants \in Nat \ {0} /\ MaxPresent \in Nat /\ RaisesInARow \in 0..FailureCap
  /\ CutsFirst \subseteq Rotating /\ Rotating \subseteq Jobs

VARIABLES
  tenants,  \* what list_active_tenants returns
  sweep     \* the sweep each worker is at: the tenants it listed, those it has
            \* still to handle and those it has handled

rotationVars == <<vars, tenants, sweep>>

-----------------------------------------------------------------------------
Sweeps == [begun : BOOLEAN, listed : SUBSET Cursors, todo : SUBSET Cursors,
           handled : SUBSET Cursors]
NoSweep == [begun |-> FALSE, listed |-> {}, todo |-> {}, handled |-> {}]

\* Tenants, sweeps and the scheduler keep their types; a sweep is under way
\* during a run only.
RotationTypeOK ==
  /\ TypeOK
  /\ tenants \subseteq Cursors
  /\ sweep \in [Workers -> Sweeps]
  /\ \A w \in Workers : sweep[w].begun => Occupied(w)

RotationInit ==
  /\ Init
  /\ tenants \in {T \in SUBSET Cursors :
                   IsFiniteSet(T) /\ Cardinality(T) <= MaxPresent}
  /\ sweep = [w \in Workers |-> NoSweep]

\* [:max_tenants] of an ordered list.
Head(T) == {t \in T : Cardinality({u \in T : u < t}) < MaxTenants}

\* tenants_after_cursor.
Behind(T, c) == IF c = None THEN T ELSE {t \in T : t > c}

Batch(j, c) ==
  IF j \in CutsFirst THEN Behind(Head(tenants), c) ELSE Head(Behind(tenants, c))

-----------------------------------------------------------------------------
(* job.run.                                                                 *)

Rotates(w) == pc[w] = "executing" /\ claim[w].job \in Rotating
Sweeping(w) == Rotates(w) /\ sweep[w].begun

StartSweep(w) ==
  /\ Rotates(w) /\ ~sweep[w].begun
  /\ sweep' = [sweep EXCEPT ![w] =
       [begun |-> TRUE, listed |-> tenants, handled |-> {},
        todo |-> Batch(claim[w].job, claim[w].cursor)]]
  /\ UNCHANGED <<vars, tenants>>

Handle(w) ==
  /\ Sweeping(w)
  /\ \E t \in sweep[w].todo :
       /\ \A u \in sweep[w].todo : t <= u
       /\ sweep' = [sweep EXCEPT ![w].todo = @ \ {t}, ![w].handled = @ \cup {t}]
  /\ UNCHANGED <<vars, tenants>>

\* A sweep that found nobody behind its cursor leaves the cursor there.
Finish_KeepsCursor(w) ==
  /\ Sweeping(w) /\ sweep[w].todo = {}
  /\ BeginClose(w, [ok |-> TRUE,
       next |-> IF sweep[w].handled = {} THEN claim[w].cursor ELSE None])
  /\ UNCHANGED <<tenants, sweep>>

\* Nobody is left, or nobody was: the next run starts from the first tenant.
Finish(w) ==
  /\ Sweeping(w) /\ sweep[w].todo = {}
  /\ BeginClose(w, [ok |-> TRUE, next |-> None])
  /\ UNCHANGED <<tenants, sweep>>

\* A cursor that names the tenant to go on with.
CutShort_NamesNext(w) ==
  /\ Sweeping(w) /\ sweep[w].todo # {}
  /\ \E t \in sweep[w].todo :
       /\ \A u \in sweep[w].todo : t <= u
       /\ BeginClose(w, [ok |-> TRUE, next |-> t])
  /\ UNCHANGED <<tenants, sweep>>

\* The time is up after a tenant that is not the last one: that one is the
\* cursor.
CutShort(w) ==
  /\ Sweeping(w) /\ sweep[w].todo # {}
  /\ \E t \in sweep[w].handled :
       /\ \A u \in sweep[w].handled : u <= t
       /\ BeginClose(w, [ok |-> TRUE, next |-> t])
  /\ UNCHANGED <<tenants, sweep>>

\* A handler raises, and so does run.
Raise(w) ==
  /\ Sweeping(w) /\ sweep[w].todo # {}
  /\ failures[claim[w].job] < RaisesInARow
  /\ BeginClose(w, [ok |-> FALSE, next |-> None])
  /\ UNCHANGED <<tenants, sweep>>

\* The scheduler does anything else.  A job that does not rotate ends well or
\* not, and its cursor is no matter here; who no longer executes has no sweep.
Beside(A) ==
  /\ A
  /\ \A w \in Workers :
       pc[w] = "executing" /\ pc'[w] = "closing" =>
         claim[w].job \notin Rotating /\ result'[w].next = None
  /\ sweep' = [w \in Workers |-> IF Occupied(w)' THEN sweep[w] ELSE NoSweep]
  /\ UNCHANGED tenants

\* The first memory of a tenant is written, or its last one is deleted.
Join(t) ==
  /\ t \notin tenants /\ Cardinality(tenants) < MaxPresent
  /\ tenants' = tenants \cup {t}
  /\ UNCHANGED <<vars, sweep>>

Leave(t) ==
  /\ t \in tenants
  /\ tenants' = tenants \ {t}
  /\ UNCHANGED <<vars, sweep>>

Rotate(w) == StartSweep(w) \/ Handle(w) \/ Finish(w) \/ CutShort(w)

RotationNext ==
  \/ \E w \in Workers : Rotate(w) \/ Raise(w)
  \/ Beside(Next)
  \/ \E t \in Cursors : Join(t) \/ Leave(t)

RotationSpec == RotationInit /\ [][RotationNext]_rotationVars

\* As in MaintenanceScheduler; a run goes on until it ends, and next_run_at, a
\* fixed instant, is reached however often other jobs run before it.
RotationFairSpec ==
  /\ RotationSpec
  /\ \A w \in Workers :
       /\ WF_rotationVars(Rotate(w) \/ Beside(Step(w)))
       /\ SF_rotationVars(Beside(CloseRun(w)))
       /\ WF_rotationVars(Beside(Restart(w)))
  /\ \A j \in Jobs : /\ SF_rotationVars(Beside(BecomeDue(j)))
                     /\ WF_rotationVars(Beside(LeaseTick(j)))

-----------------------------------------------------------------------------
(* Properties.                                                              *)

\* When a run ends well, every tenant that it found behind its cursor has been
\* handled or lies behind the cursor it leaves, however its time was cut and
\* whoever came and went: as long as the tenants are max_tenants at most.
NobodyIsPassedOver ==
  \A w \in Workers :
    /\ pc[w] = "closing" /\ result[w].ok /\ claim[w].job \in Rotating
    /\ Cardinality(sweep[w].listed) <= MaxTenants
    => \A t \in Behind(sweep[w].listed, claim[w].cursor) :
         \/ t \in sweep[w].handled
         \/ result[w].next # None /\ t > result[w].next

Serves(j, t) ==
  \E w \in Workers : /\ Occupied(w) /\ claim[w].job = j
                     /\ t \in sweep[w].handled

\* Each rotating Job comes to every tenant that stays, wherever a cut-off run left its
\* cursor and whoever comes and goes, as long as the tenants are max_tenants
\* at most (MaxPresent) and no job raises more than RaisesInARow times in a row.
TenantsAreServed ==
  \A j \in Enabled \cap Rotating, t \in Cursors :
    t \in tenants ~> t \notin tenants \/ Serves(j, t)
=============================================================================
