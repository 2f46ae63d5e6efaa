------------------------- MODULE EmbeddingMigration -------------------------
(***************************************************************************)
(* The migration of all memories to another embedding model: the ledger    *)
(* of migrations with the state machine its trigger enforces               *)
(* (migrations/0008), EmbeddingMigrationManager, whose methods an operator *)
(* calls (memory/maintenance/reembedding.py), and ReembeddingJob, which    *)
(* the scheduler runs again and again (jobs/reembedding.py), over the      *)
(* queue and the workers of EmbeddingOutbox.                               *)
(*                                                                         *)
(* A method reads the ledger in one transaction and updates it in another, *)
(* without a condition on what it has read: a call is in progress between  *)
(* the two, and others may pass.  The caller may stop there as well.  The  *)
(* status "failed" is left out: nothing sets it.  "retiring" is left in    *)
(* the transaction that enters it.                                         *)
(***************************************************************************)
EXTENDS EmbeddingOutbox

CONSTANTS
  Migrations,   \* ids of embedding_migrations
  TargetOf,     \* target_profile_id of each; the source is Default
  Callers,      \* operators at work at the same time
  MinCoverage   \* min_coverage of the gate, in percent

ASSUME MigrationAssumption ==
  /\ IsFiniteSet(Versions)
  /\ MinCoverage \in 1..100
  /\ TargetOf \in [Migrations -> Profiles \ {Default}]
  /\ None \notin Migrations

VARIABLES
  ledger,     \* status by migration, "none" without a row
  passed,     \* stats.passed by migration
  active,     \* profile_id of the row of embedding_active_profile
  call,       \* what each caller is about to write
  run,        \* the run of ReembeddingJob
  validated   \* history: the versions counted when a migration became ready

migration == <<ledger, passed, active, call, run, validated>>
allVars == <<vars, migration>>

Statuses == {"none", "planned", "backfilling", "paused", "validating",
             "ready", "active", "retired", "cancelled"}
Terminal == {"retired", "cancelled"}

\* get_live, and the partial unique index one_live.
Live == {m \in Migrations : ledger[m] \notin {"none"} \cup Terminal}

\* embedding_migrations_guard_transition.
Allowed ==
  ({"planned", "paused", "validating"} \X {"backfilling"})
    \cup ({"backfilling"} \X {"paused", "validating"})
    \cup {<<"paused", "validating">>, <<"validating", "ready">>,
          <<"ready", "active">>}
    \cup ({"planned", "backfilling", "paused", "validating", "ready"}
            \X {"cancelled"})

\* The same status again is let through as well.
CanMove(m, to) == ledger[m] = to \/ <<ledger[m], to>> \in Allowed

Ops == {"create", "start", "seeded", "pause", "resume", "continue", "cancel",
        "validate", "measured", "promote", "rollback"}

\* The status a method asks for when it reads the ledger.
From == [start |-> {"planned", "paused"}, pause |-> {"backfilling"},
         resume |-> {"paused"}, continue |-> {"validating"},
         cancel |-> Statuses \ ({"none"} \cup Terminal),
         validate |-> {"validating"}, promote |-> {"ready"},
         rollback |-> {"active"}]

\* good: coverage and recall reach the gate.  counted: the versions that were
\* eligible and completed.
CallType == [op : Ops \cup {"none"}, mig : Migrations \cup {None},
             good : BOOLEAN, counted : SUBSET Versions]
NoCall == [op |-> "none", mig |-> None, good |-> FALSE, counted |-> {}]

Stages == {"idle", "seed", "work", "check", "advance"}
NoRun == [at |-> "idle", mig |-> None]

MInit ==
  /\ Init
  /\ ledger = [m \in Migrations |-> "none"]
  /\ passed = [m \in Migrations |-> FALSE]
  /\ active = Default
  /\ call = [c \in Callers |-> NoCall]
  /\ run = NoRun
  /\ validated = [m \in Migrations |-> {}]

-----------------------------------------------------------------------------
(* Coverage.                                                                *)

EligibleVersions == {v \in Versions : Eligible(v)}
Completed_ClaimedToo(m) ==
  {v \in EligibleVersions :
     status[<<v, TargetOf[m]>>] \in {"processing", "completed"}}

Completed(m) ==
  {v \in EligibleVersions : status[<<v, TargetOf[m]>>] = "completed"}

\* The gate of validate: coverage >= min_coverage, of something.
Covered(m) ==
  /\ EligibleVersions # {}
  /\ 100 * Cardinality(Completed(m))
       >= MinCoverage * Cardinality(EligibleVersions)

\* The Job asks for more: completed >= eligible.
AllCompleted(m) == EligibleVersions # {} /\ Completed(m) = EligibleVersions

-----------------------------------------------------------------------------
(* The methods of the manager.                                              *)

Return(c) == call' = [call EXCEPT ![c] = NoCall]

Move_Unguarded(m, to) == ledger' = [ledger EXCEPT ![m] = to]

\* UPDATE ... SET status, under the trigger.
Move(m, to) == CanMove(m, to) /\ ledger' = [ledger EXCEPT ![m] = to]

\* The first transaction: _require, get_live.
Begin(c, op, m) ==
  /\ call[c] = NoCall
  /\ IF op = "create" THEN ledger[m] = "none" /\ Live = {}
                      ELSE ledger[m] \in From[op]
  /\ op = "promote" => passed[m]
  /\ call' = [call EXCEPT ![c] = [NoCall EXCEPT !.op = op, !.mig = m]]
  /\ UNCHANGED <<vars, ledger, passed, active, run, validated>>

\* The primary key and the index on live migrations decide.
Create(c) ==
  LET m == call[c].mig IN
  /\ call[c].op = "create" /\ ledger[m] = "none" /\ Live = {}
  /\ ledger' = [ledger EXCEPT ![m] = "planned"]
  /\ Return(c)
  /\ UNCHANGED <<vars, passed, active, run, validated>>

\* start seeds in a transaction of its own, before the status moves.
StartSeeds(c) ==
  /\ call[c].op = "start"
  /\ SeedBackfill(TargetOf[call[c].mig])
  /\ call' = [call EXCEPT ![c].op = "seeded"]
  /\ UNCHANGED <<ledger, passed, active, run, validated>>

To == [seeded |-> "backfilling", pause |-> "paused",
       resume |-> "backfilling", continue |-> "backfilling"]

\* start, pause, resume, continue_backfill: _transition.
Transition(c) ==
  /\ call[c].op \in DOMAIN To
  /\ Move(call[c].mig, To[call[c].op])
  /\ Return(c)
  /\ UNCHANGED <<vars, passed, active, run, validated>>

\* The open rows of the profile go in the same transaction, whoever holds
\* them; what has been completed stays.
Cancel(c) ==
  LET m == call[c].mig IN
  /\ call[c].op = "cancel"
  /\ Move(m, "cancelled")
  /\ CancelBackfill(TargetOf[m])
  /\ Return(c)
  /\ UNCHANGED <<passed, active, run, validated>>

\* validate counts, then searches for its probes in both profiles, for a time;
\* what the recall comes to is open.
Measure(c) ==
  LET m == call[c].mig IN
  /\ call[c].op = "validate"
  /\ \E good \in {Covered(m), FALSE} :
       call' = [call EXCEPT ![c] =
         [op |-> "measured", mig |-> m, good |-> good,
          counted |-> IF good THEN Completed(m) ELSE {}]]
  /\ UNCHANGED <<vars, ledger, passed, active, run, validated>>

\* The report is written; ready if it is good.
Report(c) ==
  LET m == call[c].mig IN
  /\ call[c].op = "measured"
  /\ IF call[c].good
     THEN /\ Move(m, "ready")
          /\ validated' = [validated EXCEPT ![m] = call[c].counted]
     ELSE UNCHANGED <<ledger, validated>>
  /\ passed' = [passed EXCEPT ![m] = call[c].good]
  /\ Return(c)
  /\ UNCHANGED <<vars, active, run>>

\* Status and active profile move together.
Promote(c) ==
  /\ call[c].op = "promote"
  /\ Move(call[c].mig, "active")
  /\ active' = TargetOf[call[c].mig]
  /\ Return(c)
  /\ UNCHANGED <<vars, passed, run, validated>>

Rollback_StopsHalfway(c) ==
  LET m == call[c].mig IN
  /\ call[c].op = "rollback" /\ ledger[m] = "active"
  /\ ledger' = [ledger EXCEPT ![m] = "retiring"]
  /\ active' = Default
  /\ Return(c)
  /\ UNCHANGED <<vars, passed, run, validated>>

\* active, retiring, retired and back to the source, in one transaction.
Rollback(c) ==
  LET m == call[c].mig IN
  /\ call[c].op = "rollback" /\ ledger[m] = "active"
  /\ ledger' = [ledger EXCEPT ![m] = "retired"]
  /\ active' = Default
  /\ Return(c)
  /\ UNCHANGED <<vars, passed, run, validated>>

\* The trigger or an index refuses the write, or the caller stops before it.
GiveUp(c) ==
  /\ call[c] # NoCall
  /\ Return(c)
  /\ UNCHANGED <<vars, ledger, passed, active, run, validated>>

-----------------------------------------------------------------------------
(* ReembeddingJob.run.  OneExecutor of MaintenanceScheduler: one at a time. *)

\* A worker holds rows of a target profile only in a run of the Job.
OutOfRun(w) == \A r \in Rows : r[2] # Default => seen[w][r] = 0

BatchDone == \A w \in Workers : OutOfRun(w)

JobBegin ==
  /\ run = NoRun
  /\ \E m \in Live : /\ ledger[m] = "backfilling"
                     /\ run' = [at |-> "seed", mig |-> m]
  /\ UNCHANGED <<vars, ledger, passed, active, call, validated>>

JobSeeds_Once ==
  /\ run.at = "seed"
  /\ run' = [run EXCEPT !.at = "work"]
  /\ UNCHANGED <<vars, ledger, passed, active, call, validated>>

\* Versions written since the start get their rows.
JobSeeds ==
  /\ run.at = "seed"
  /\ SeedBackfill(TargetOf[run.mig])
  /\ run' = [run EXCEPT !.at = "work"]
  /\ UNCHANGED <<ledger, passed, active, call, validated>>

\* Seeding has failed, which is swallowed.
JobSeedFails ==
  /\ run.at = "seed"
  /\ run' = [run EXCEPT !.at = "work"]
  /\ UNCHANGED <<vars, ledger, passed, active, call, validated>>

\* Workers take rows of the target profile in a run only.
JobClaims(w) ==
  /\ run.at = "work"
  /\ ClaimPending(w, TargetOf[run.mig])
  /\ UNCHANGED migration

\* All tenants have been served, and nothing is missing.
JobCompletes ==
  /\ run.at = "work" /\ BatchDone
  /\ AllCompleted(run.mig)
  /\ run' = [run EXCEPT !.at = "check"]
  /\ UNCHANGED <<vars, ledger, passed, active, call, validated>>

\* mark_validating, reading.
JobChecks ==
  /\ run.at = "check"
  /\ run' = IF ledger[run.mig] = "backfilling"
            THEN [run EXCEPT !.at = "advance"] ELSE NoRun
  /\ UNCHANGED <<vars, ledger, passed, active, call, validated>>

\* mark_validating, writing.
JobAdvances ==
  /\ run.at = "advance"
  /\ Move(run.mig, "validating")
  /\ run' = NoRun
  /\ UNCHANGED <<vars, passed, active, call, validated>>

\* Rows are missing, the run is out of time or told to stop, or its write is
\* refused.
JobEnds ==
  /\ run # NoRun /\ BatchDone
  /\ run' = NoRun
  /\ UNCHANGED <<vars, ledger, passed, active, call, validated>>

\* The process of the run dies, with the row it is at.
JobCrashes ==
  /\ run # NoRun
  /\ \E w \in Workers : Crash(w) /\ \A u \in Workers \ {w} : OutOfRun(u)
  /\ run' = NoRun
  /\ UNCHANGED <<ledger, passed, active, call, validated>>

-----------------------------------------------------------------------------
Act(c) ==
  \/ \E m \in Migrations, op \in DOMAIN From \cup {"create"} : Begin(c, op, m)
  \/ Create(c) \/ StartSeeds(c) \/ Transition(c) \/ Cancel(c)
  \/ Measure(c) \/ Report(c) \/ Promote(c) \/ Rollback(c) \/ GiveUp(c)

Job ==
  \/ JobBegin \/ JobSeeds \/ JobSeedFails \/ JobCompletes \/ JobChecks
  \/ JobAdvances \/ JobEnds \/ JobCrashes
  \/ \E w \in Workers : JobClaims(w)

\* What goes on besides: the users of the store, the workers, time.
Beside ==
  \/ \E v \in Versions : Write(v)
  \/ \E m \in Memories : \/ Close(m) \/ Archive(m)
                         \/ DeleteMemory(m) \/ PurgeDeleted(m)
  \/ \E w \in Workers :
       \/ ClaimPending(w, Default) \/ Handle(w) \/ Abandon(w)
       \/ \E r \in Rows : FailUnrecorded(w, r)
       \/ OutOfRun(w) /\ Crash(w)
  \/ \E r \in Rows : Elapse(r)

MNext ==
  \/ \E c \in Callers : Act(c)
  \/ Job
  \/ Beside /\ UNCHANGED migration

MSpec == MInit /\ [][MNext]_allVars

\* Time passes and workers handle what they hold.  As long as no crash left a
\* run open, the scheduler runs the Job again and again; a run ends, and is
\* not cut short or refused every time.
MFairSpec ==
  /\ MSpec
  /\ \A r \in Rows : WF_allVars(Elapse(r) /\ UNCHANGED migration)
  /\ \A w \in Workers : WF_allVars(Handle(w) /\ UNCHANGED migration)
  /\ WF_allVars(~orphaned /\ JobBegin) /\ WF_allVars(~orphaned /\ JobEnds)
  /\ SF_allVars(~orphaned /\ JobSeeds)
  /\ SF_allVars(~orphaned /\ \E w \in Workers : JobClaims(w))
  /\ SF_allVars(~orphaned /\ JobCompletes)
  /\ SF_allVars(~orphaned /\ JobChecks)
  /\ SF_allVars(~orphaned /\ JobAdvances)

-----------------------------------------------------------------------------
\* Ledger, calls and runs hold what their columns and fields can hold.
MigrationTypeOK ==
  /\ ledger \in [Migrations -> Statuses]
  /\ passed \in [Migrations -> BOOLEAN]
  /\ active \in Profiles
  /\ call \in [Callers -> CallType]
  /\ run \in [at : Stages, mig : Migrations \cup {None}]
  /\ validated \in [Migrations -> SUBSET Versions]

\* Searches use the profile of the migration that is active, and the source
\* again after a rollback, whichever calls passed each other (promote and
\* rollback write the row of embedding_active_profile with the status).
ActiveFollowsLedger ==
  active = IF \E m \in Migrations : ledger[m] = "active"
           THEN TargetOf[CHOOSE m \in Migrations : ledger[m] = "active"]
           ELSE Default

\* A migration is promoted on what an earlier validate has counted: all it
\* counted is still there to be found, as long as it is current (validate,
\* promote, and the withdrawals of rows and vectors in between).
ReadyIsServed ==
  \A m \in Migrations : ledger[m] \in {"ready", "active"} =>
    /\ validated[m] # {}
    /\ \A v \in validated[m] : Eligible(v) => <<v, TargetOf[m]>> \in vectors

\* A backfill goes on to validation by itself, unless it is paused or
\* cancelled, nothing is left to embed, a row has been given up, which nothing
\* puts back in the queue (ReembeddingJob, "completed >= eligible"), or a
\* crash left a run open, after which the Job is not run again.
BackfillAdvances ==
  \A m \in Migrations :
    ledger[m] = "backfilling" ~>
      \/ ledger[m] # "backfilling"
      \/ EligibleVersions = {}
      \/ \E v \in EligibleVersions : status[<<v, TargetOf[m]>>] = "failed"
      \/ orphaned
=============================================================================
