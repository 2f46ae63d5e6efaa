# klonet_agent: TLA+ models and proofs

klonet_agent is a conversational agent for the Klonet platform. It answers questions,
writes code and operates servers, and it remembers: what users prefer, what is true of
their projects, and what happened. This directory holds TLA+ models of the parts of the
program where concurrency, failure and time decide whether it is correct (the long-term
memory, its maintenance, and the workflow of privileged changes), the TLC configurations
that check them on small instances, and theorems about them that TLAPS has checked for
every value of their constants.

Paths below are relative to the root of the repository (`src/` in `PROJECT.json`).
`PROJECT.json` maps each definition to the lines it translates.

## 1. The system

### 1.1 Components

| Component | Where | State it keeps | Operations | Module |
|---|---|---|---|---|
| Memory store | `memory/postgres.py`, `domain.py`, `repository.py`, migrations 0001 and 0003 | records, versions with validity windows, sources, relations, outbox rows | `add_record`, `add_version`, `replace_active`, `supersede`, `attach_sources`, `add_source`, `add_relation`, `mark_expired`, `delete_memory`, `purge_deleted`, `archive_expired_batch` | MemoryStore |
| Write pipeline | `memory/write_pipeline.py`, `versioning.py` | the table of candidates; a turn in each process | `process_turn`, `plan_consolidation`, `apply_plan`, `record_decision` | Consolidation, WritePipeline |
| Embedding outbox and workers | `memory/embedding_worker.py`, `memory/postgres.py` | queue rows with status, attempts and next attempt; vectors | enqueue, claim, write back, fail, seed and cancel a backfill | EmbeddingOutbox |
| Embedding migration | `memory/maintenance/reembedding.py`, `jobs/reembedding.py`, migration 0008 | ledger of migrations, the active profile | create, start, pause, resume, continue, validate, promote, roll back, cancel; the Job's run | EmbeddingMigration |
| Maintenance scheduler | `memory/maintenance/{repository,service,base,cli}.py`, migration 0006 | rows of jobs and runs, leases, cursors | `claim_due_job`, `heartbeat`, `complete`, `fail`, the service loop | MaintenanceScheduler |
| Tenant rotation | `memory/maintenance/tenants.py`, `jobs/` | a cursor over tenants, a sweep in each run | `sweep_tenants`, `tenants_after_cursor`, the loop of the outbox Job | JobRotation |
| Maintenance proposals | `memory/maintenance/proposals.py`, `jobs/consolidation.py`, migration 0007 | proposals and fingerprints of their sources | scan, create, approve, reject, apply, expire | MemoryProposals |
| Privileged workflow | `ops/privileged/workflow/` | change plans and failure records in files, the context of an operation | plan, bind, approve, execute a step, reconcile, judge, replan, recover | ChangePlans |
| Privileged planner, actions, probes | the rest of `ops/privileged/` | none that a plan does not hold | propose, validate, run commands, look for evidence | choices of ChangePlans |
| Recall | `memory/retriever.py`, `pack.py` | none | hybrid search, packing into a token budget | not modelled |
| Extraction and policy | `memory/candidate_extractor.py`, `write_policy.py` | none | parse and review model output | inputs of WritePipeline |
| Checkpoints, context compiler | `memory/compactor.py`, `checkpoint_store.py`, `context/` | covered rows of the history | compact, load the latest, fit messages into a budget | not modelled |
| Runtime governance | `runtime/governance/` | runs, tasks, steps, failures, evidence, events | start, transition, close, buffer telemetry | not modelled |
| Operation plans | `ops/operations.py` | plans in files | create, approve, execute a step | not modelled |
| Orchestrator | `orchestrator.py`, `session.py` | a conversation and its todos | the tool loop of a turn | its calls into the pipeline only |
| Tools, workspace, journal, tracing | `tools/`, `workspace/`, `journal/`, `tracing/` | files, logs | adapters | not modelled |
| LLM and knowledge base | `llm/`, `knowledge/` | indexes built offline | calls to providers, retrieval | not modelled |

### 1.2 How they interact

A process of the agent holds one conversation of one tenant (a user, perhaps in a
project). After a turn is stored, the orchestrator calls `MemoryWritePipeline.process_turn`;
the extractor and the policy turn the conversation into candidates, and for each the
pipeline looks up what the store holds of its subject, plans, registers the candidate,
applies the plan through the store, and records the decision. Each of these is a database
transaction of its own. Every version the store writes leaves a row in the embedding
outbox in the same transaction.

The maintenance service, any number of processes, takes jobs from a ledger in the same
database, each under a lease: draining the outbox, expiring, purging, consolidating,
re-embedding, reporting. Most jobs go from tenant to tenant and leave a cursor in the
ledger when their time is up. The consolidation Job only proposes; an operator approves,
and the proposal is carried out through the same rules and the same `apply_plan` as a
turn. The re-embedding Job fills the queue with rows of a second profile while an operator
moves the migration through its states. Processes share nothing but the database
(PostgreSQL at READ COMMITTED, with row level security per tenant).

The privileged workflow is apart from the memory. The user's turn is routed by
`PrivilegedOpsCoordinator`; a planner and a binder, both language models, make a plan; the
user confirms its hash; the plan is executed step by step on the user's servers, judged
against the goal and, if need be, succeeded by another plan. Plans, failure records and the
context are files, each replaced atomically, and nothing reads them again when a process
that was killed is started anew.

### 1.3 What is hard

* Processes of the same user interleave between any two transactions; what the pipeline, an
  operator or a migration read may have changed when they write.
* Leases are time only. A worker that is slow, not dead, answers after another has taken
  over its row or its job.
* Processes stop anywhere. What recovers them is a status, a lease or a key in a table, or
  a state in a file.
* Histories are promised to be immutable, but a window is ended by whichever of five
  operations comes first, at a date the caller chooses.
* One user's rows must have no effect on another's, yet some keys are unique in a table.
* An action on a server may have had its effect although it reported nothing, and must not
  be repeated on that account.

### 1.4 What makes each part correct

* Store: at most one current memory per subject; the current version is the last one and
  its window agrees with the status; history only grows; nothing is verified without
  evidence; a replaced memory leads to its heir; the outbox holds exactly what is to embed.
* Pipeline: the audit trail is true, decisions are final, nothing is overwritten in silence,
  a preference is superseded on the user's word only.
* Outbox: claims are told apart and a late answer does no harm (unless a backfill was cancelled), what counts as coverage has
  its vector, and every row ends out of the queue.
* Migration: searches use the profile the ledger says, and what validation counted is there
  when the profile is promoted; a backfill goes on by itself, if no crash leaves its run open.
* Scheduler and rotation: a job has one executor, no progress is lost, every due job runs
  (unless an orphaned run is due before it), a worker asked to stop stops, no tenant is passed over.
* Proposals: nothing without approval, a merge once, nothing over what was changed before.
* Change plans: an effect once, only approved plans, no step in doubt repeated, completed
  means done, a decision that is waited for is offered.

`PROJECT.json` lists under "hazards" where each of these is at risk, line by line.

## 2. The modules

| Module | What it is |
|---|---|
| `MaintenanceScheduler` | the ledger of jobs and runs with the workers' loop |
| `JobRotation` | EXTENDS `MaintenanceScheduler`: the jobs that go from tenant to tenant, as its workers run them |
| `EmbeddingOutbox` | the queue of versions to embed, its workers, and the operations that race them |
| `EmbeddingMigration` | EXTENDS `EmbeddingOutbox`: the ledger of migrations, operators and the re-embedding Job over that queue |
| `MemoryStore` | the store of one tenant, one action per repository method |
| `SubjectFacts` | what a store promises of each subject: the abstract specification of `MemoryStore` |
| `Consolidation` | EXTENDS `MemoryStore`: the rules of `plan_consolidation` and their lookups |
| `WritePipeline` | EXTENDS `Consolidation`: sessions that process turns over the store |
| `MemoryProposals` | EXTENDS `Consolidation`: the Job, operators and users around proposals to merge |
| `ChangePlans` | turns, plans, failure records and the environment of the privileged workflow |
| `StepEffects` | what may be attempted on the environment: the abstract specification of `ChangePlans` |
| `MC*` | instances for TLC: sets, candidates and symmetry |
| `*Proofs` | the theorems of each component, with their inductive invariants |

Operators whose names end in a suffix such as `ClaimPending_CountsNothing` are deliberate
deviations, one plausible bug each. No specification uses them; they are what the
properties are tested against (`PROJECT.json`, "mutants").

### 2.1 MaintenanceScheduler

A worker is at a `pc`: polling, in a tick, holding the row lock of `claim_due_job`,
executing, closing in `complete()`/`fail()`, stopped or crashed. The transaction of
`claim_due_job` is two steps, since its INSERT waits on the unique index if another
transaction is closing the run; `complete()`/`fail()` is two steps for the same reason in
the opposite order. The two can deadlock, and the database then aborts either
(`DeadlockAbortsClaim`, `DeadlockAbortsClose`). `next_run_at` is abstracted to the order
of the jobs (`rank`) and which of them are `due`; a lease to the ticks it has left. What a
job does is a result: success with a cursor, or failure. `once --force` invocations are
the `Manual` workers.

### 2.2 JobRotation

Here the results are computed. A worker that executes a rotating Job lists the tenants
(`StartSweep`), takes those behind its cursor and handles them in order (`Handle`); the run
ends well with nobody left (`Finish`), by its deadline after some tenant, which becomes the
cursor (`CutShort`), or badly by a handler that raises (`Raise`). `Head` is the truncation
to `max_tenants`, which the outbox Job applies before the cursor is looked at (`CutsFirst`)
and the others after. A tenant is its place in the order of `tenant_key`; tenants come and
go at any time (`Join`, `Leave`). The three ends are `BeginClose` of the scheduler, whose
other steps go on beside the sweeps (`Beside`). Nothing passes `should_stop` to the jobs, so
a request to stop does not shorten a run. What a handler does to its tenant is in the
modules of the store and the queue.

### 2.3 MemoryStore and SubjectFacts

Variables are the columns: `status`, `subject`, `activeVersion` and `confidence` of a
record, `versions` as a sequence of rows (content, `from`, `to`, sources, verified),
`relations`, `outbox` (which versions have a row) and `now`. A method is one action, as each
runs in one transaction under the lock of the record row. Contents are model values, equal
when `same_content` holds. `Confirming[s]` are the sources that can verify something of
subject s (`qualifies_as_verified`: a preference needs the user's own statement).
`LegacyClose` ends a window and leaves the status as it is; nothing in `memory/` does that
any more, but `list_expired_candidates` and `archive_expired_batch` exist for records in this
state. It is there when `LegacyWrites` holds.

`SubjectFacts` is the abstract ledger: for each subject, a current memory or none, and a
set of retired ones. The refinement takes `current[s]` to the active memory of s and
`retired` to the memories in any later status. A replacement is one abstract step, so the
subject is never without a fact in between.

### 2.4 Consolidation and WritePipeline

`Consolidation` holds what turns and proposals share: `Current` (`find_active_by_subject`),
`KnownSources`, and `Decide`, the rules R1 to R10 of `plan_consolidation`.

In `WritePipeline` a session is at a `stage` of `_process_one`: in a turn, with a memory
found, planned, registered, about to attach or to extend, applied, or raised. `Lookup` and
`Plan` are apart as `find_active_by_subject` and `list_sources` are two transactions;
`Inspect` and `ApplyAttach`/`ApplyExtend` are apart as `get_record` and the write are. The
ledger is `memory_write_candidates`: a candidate's key is the turn's range and its index, as
in the code without a tenant. A row has a decision (`ledger`) and the candidate it was
written for (`payload`): `ON CONFLICT DO NOTHING` keeps the first one, and a second session
that comes to the same key goes on with its own. `contested` is history: the keys where
that has happened, whose rows may get the decision on a candidate they do not hold. A turn's candidates are chosen when the session reaches them;
since nothing depends on a candidate before its turn comes, this is the same as extracting
them beforehand. `Discard` is a proposal that the policy refused: its row may be written
(never decided), may be withheld, or its failure ignored. `applied` is a history variable:
the writes made, by key and candidate. Every store step of a session is an action of `MemoryStore`; of
the lifecycle only `DeleteMemory` runs beside the sessions (`Forget`), it is the one that takes
away what a session has looked up; `MarkExpired` would do so in the same way.

### 2.5 MemoryProposals

A slot is a row of `memory_maintenance_proposals`. `Scan` is a run of `ConsolidationJob` that
compares active memories, `Propose` its `create` with the fingerprints of the two sources,
`ScanEnds` its end. An operator (`review[r]`) is at a point of `transition` (`ask` reads, `set`
writes under the trigger) or of `apply_proposal`: `apply`, `verify` the fingerprints, `build`
the candidate, `lookup`, `planned`, then `attach` or `extend` as in the pipeline, and `ask`
again to record what was applied. Nothing holds these transactions together: operators pass
each other, users write in between (`Edit`), and any of them may stop. Four variables are
history: `carried` and `written` (plans and versions of each proposal), `touched` (somebody
else changed a source), and `late` of an operator (a source had been changed when they set
out).

Records read one after the other by one function are read at once; the clock stands still;
no model suggests contents, as `build_job` passes none. The types `supersede` and `conflict`
are left out: nothing creates the one, and the other needs two active memories of one subject,
which `OneActive` excludes.

### 2.6 EmbeddingOutbox

A row is a version and a profile, with status, attempts and whether its next attempt is due.
Claiming a batch is a lease: the rows become `processing`, their attempts are counted and
their next attempt lies in the future, until `Elapse`. A worker remembers the count it has
seen. `set_embedding` is two steps (`FindLive` or `FindDeleted`, then `StoreVector`), because
its SELECT takes no lock on the record; its UPDATEs are one step. The provider's answer is a
choice: success, a passing failure, or for the rows in `Refused` a permanent one. Batches are
sets: the order inside a claim does not matter to the properties. A run that stops or meets
its deadline leaves the rest of its batch (`Abandon`) and is closed in order; a process that
dies (`Crash`) leaves its run open as well. The scheduler never claims a job that has an open
run (`sched_reclaim`), so `orphaned` remembers it: from then on nothing is promised of
liveness. `withdrawn` is history, the profiles whose backfill was cancelled: seeding them again
starts `attempt_count` anew under workers that still hold old rows, so what the properties
say of claims they say of the other profiles (`Kept`), the default one among them. Here a memory has the
statuses that matter to the queue ("closed" stands for superseded and expired).

### 2.7 EmbeddingMigration

A method of the manager reads the ledger in one transaction (`Begin`) and writes it in another
without comparing (`Transition`, `Cancel`, `Promote`, ...), so `call[c]` is in progress in
between; only the trigger (`Allowed`) and the index on live migrations stand in the way of a
call that comes late. `start` seeds before it moves the status; `validate` counts, searches for
its probes, and then reports. `run` is the run of `ReembeddingJob`: seed, work, check,
advance; workers take rows of the target profile during a run only. A worker's
crash in a run ends it for good (`JobCrashes`, `orphaned`). The gate of `validate` asks for
`MinCoverage` percent of the eligible versions (`Covered`), the Job for all (`AllCompleted`).
Everything else is `EmbeddingOutbox`, with its workers and users. `failed` and `retry` are left out, since nothing
sets the status that `retry` asks for; `retiring` never outlives its transaction. `validated`
is history: what was counted when a migration became ready.

### 2.8 ChangePlans and StepEffects

A turn of the user is at a point of `PrivilegedOpsCoordinator` and `MutationWorkflow`: making a
plan, binding it, running, acting on the environment, checking, judging the goal, telling the
user. It is split where a file has been written and a call of the model, an action or a check
follows, and between a plan and the record of its failure; the process can be killed there
(`Crash`), and what the turn held in memory is lost. Writes with only assignments in between
(an aborted plan and the context, a paused plan and the failure it names) are one step. The
loop of `_submit_mutation` has all its ways back with their counters: another round of
evidence or of candidates (`PlanAgain`, bounded by `MaxRounds`), a binding resumed from its
checkpoint (`BindResumes`, once) and a second planning after a refusal (`BindRefused`, once).
Of a plan to be succeeded, a new one inherits the completed Screen components (`ScreenSteps`)
only; a binding that raises inherits nothing. Verdicts of
planner, binder and verifier may be anything, and an action may succeed, fail with or without
an effect, time out, or be interrupted. `applied` is the environment, which no file records.
`StepEffects` says what may be attempted there, and knows neither turns nor files: the
refinement takes a step to be in doubt unless its only attempt has ended and is known to have
changed nothing.

Simplified: all plans pursue one goal for one project root and have one semantic change, and
step s of two plans is the same effect on the same component; the read-only loop before a turn
changes nothing that is modelled; the dialog that revises a goal is left out;
`latest_plan_id_for_goal` is any plan that
exists; of a record that has been answered the model remembers only that; the verifier may ask
for a new plan whenever it likes. Two sessions of one user are not modelled.
`ChangePlanStore.recover()` has no caller, so nothing recovers plans when a process starts.

## 3. The runs

Passing runs:

| Run | Question | Bounds |
|---|---|---|
| `sched_ledger` | Can two workers execute one job, lose a cursor, or leave lease and run in disagreement? Does a due job run, does a worker stop when asked? | two jobs, both enabled; a service worker that renews and may be stopped, and forced invocations; leases of two ticks that lapse under their owner; claims that deadlock with closes; one crash or database error |
| `rotation` | Is any tenant passed over, is each served in the end? | two workers, one stoppable; a rotating and a plain job; two tenants who come and go; runs cut by their deadline, one raise in a row; no other fault |
| `store` | Do status, windows and evidence stay coherent, the outbox complete, replacements on record and history immutable? | two memories of one preference, two contents, two versions each, dates 1 and 2 in any order, legacy closing |
| `pipe_audit` | Is the audit true, and is nothing overwritten in silence or against the user? | two sessions on the same range, up to two candidates out of five each, two memories, three versions; any statement may fail, any session may stop |
| `proposals` | Is nothing written without approval, is a merge written once, is what is stale left alone? | one proposal, two operators, three memories, two subjects and contents, three writes by users, three versions |
| `outbox_leases` | What do lapsed leases and late answers do? | two workers, one version, default and target profile, two attempts, one fault, one refused row |
| `migration` | Do profile and ledger agree, is coverage real, does a backfill come to an end? | two operators, one migration, one worker, one version, one attempt, one fault, the target may be refused |
| `plans_effects` | Is a step in doubt never repeated, is what counts as done real and carried on? | two plans of two steps, one of them of a Screen component, one failure record, one killed process; actions may claim falsely |
| `plans_turns` | Is an effect made once, is every decision offered, does every turn end? | two plans of one step, two failure records, one round of evidence; actions tell the truth |

Runs that show a disagreement between the code and what it says of itself:

| Run | What it shows |
|---|---|
| `sched_reclaim` | A worker that dies leaves its run `running`; the unique index then refuses every later claim although the lease has lapsed. Migration 0006 says an expired lease can be claimed again. |
| `plans_revoked` | A correction aborts the active plan and withdraws its hash; when planning then fails, the copy read before is saved with its authorization, and "continue" executes it. The coordinator says it can never remain executable. |
| `proposals_rerun` | The process stops between the merge and the mark `applied`: the retry finds its own version in the fingerprint and marks the proposal as expired. The docstring says a rerun is idempotent. |

### 3.1 Why the bounds are enough

Each hazard involves two actors at most (a session and another; a worker and its successor;
an operator and a user; a turn and the process that follows it), so two of each are there.
Two versions suffice for what relates neighbours; `pipe_audit` has three so that a memory can
be extended twice under a plan made before. Two attempts and two ticks are the least that
distinguish a first from a last. The five candidates are what the rules tell apart for a
preference: restating with more evidence, rewording, replacing with and without the user's
word. Of the three edits in `proposals` two write the sources and the third changes one under
the proposal; what a second change would do is left to the theorems. Two plans are a plan and
its successor; a second failure record is needed to hide a first. In `migration` one version is enough for full coverage and for its
loss. The theorems of section 5 hold without any of these bounds, and cover what the runs
leave out: batches of several rows, several migrations and races of their creation, relations
of all types, candidates of facts, several proposals.

Bounds by name: `LeaseTerm`, `FailureCap` (a counter that only saturates) and `MaxFaults` in
the scheduler; `MaxPresent` (tenants at one time) and `RaisesInARow` in the rotation, beside
`MaxTenants`, a parameter of the code; `MaxTime`, `MaxVersions`, `MaxConfidence` in the store;
`MaxIndex` in the pipeline; `MaxEdits` for the users beside proposals; `BatchSize`,
`MaxAttempts` (parameters of the code) and `MaxFaults` in the outbox; `MaxPlans`, `NumSteps`,
`MaxFailures`, `MaxRounds` (the sum of two parameters of the code) and `MaxCrashes` in the
change plans. `FalseClaims` lets an action that had an effect report that it had none, as the
executor does after an exception (`executor.py:285`): it is TRUE in `plans_effects`, FALSE in
`plans_turns`, whose `EffectOnce` is about actions that tell the truth. `MinCoverage` of
`migration` is the code's 99; with one version that is all of them, and the theorems cover any
number of versions and any percentage.
`LedgerLimit` is a constant of the code (ten times the backfill limit, 200 by default): beyond
it `processed_source_ranges` omits ranges by their order in the database, so the model lets the
session process the range or not.

`MaxFaults` bounds crashes, stops and failures that nobody could record. `QueueDrains` and
`BackfillAdvances` need it: a worker that stops for ever drains nothing. After a crash they
promise nothing at all, because the job is not claimed again. `TenantsAreServed`
needs `RaisesInARow` for the same reason, and `MaxPresent` no greater than `MaxTenants`, since
the code never visits the tenants beyond.

### 3.2 Symmetry and deadlock

Memories, contents, sessions, slots and operators are model values that no definition tells
apart, so properties without liveness are checked under their permutations; runs with liveness
properties use none. `CHECK_DEADLOCK FALSE` stands where the system may rest: all memories
used and bounds reached, the queue drained, the goal achieved. The scheduler's runs (`sched_ledger`, `sched_reclaim`) check
deadlock: there, a poll is always possible until every worker is stopped or time passes.

### 3.3 Fairness

* Scheduler: weak fairness of each worker's steps (processes run), of restarts (a supervisor
  brings a worker back), of `BecomeDue` and `LeaseTick` (time passes). `CloseRun` is strongly
  fair: a transaction waiting for a row lock is next in that lock's queue. Nothing obliges
  anyone to force a run, renew a lease, crash or be stopped.
* Rotation: the same, with a worker's steps in a sweep among its steps. `BecomeDue` is strongly
  fair, because `next_run_at` is an instant that is reached however often other jobs run
  before it.
* Outbox: weak fairness of `Elapse` (time passes) and of `Handle` for each worker (provider
  calls have a timeout, and the loop goes through its batch). Strong fairness of claiming per
  profile, for the set of workers, as long as no crash has left a run open (`~orphaned`): the
  scheduler runs the job of every profile again and again, but another claim may disable it
  for a while. No fairness for crashes or failures.
* Migration: the above, with weak fairness of `JobBegin` and `JobEnds` and strong fairness of
  each step of the Job: a run may be cut short or refused, but not every time. All of it only
  while no crash has left a run open. Operators owe nothing.
* Change plans: weak fairness of `Work`, the loop of a turn in its own process. The user owes
  nothing, and the process may be killed.

`FairSpec` is also the specification of the safety properties that are checked together with
liveness, and of `sched_reclaim`, so that its counterexample is not a system that merely stops.

## 4. Properties worth a remark

* `CursorFollowsRun`: the cursor is read under the lock of `claim_due_job` and overwritten at
  the close, minutes later and without a comparison. It still holds, because an open run
  keeps every other claim out even when the lease has lapsed: what `sched_reclaim` shows as a
  fault is what protects the cursor.
* `EveryDueJobRuns` is stated for jobs without an open run, and it names its exception: with an
  orphaned run of an earlier `next_run_at`, `ORDER BY next_run_at LIMIT 1` returns that job at
  every poll, and the others starve behind it (`HeldUp`). Nothing else starves a job: neither
  leases that lapse, nor forced runs, nor claims and closes that deadlock, nor jobs that come
  due more often.
* `StopTerminates` is checked where claims and closes do deadlock (`DeadlockAbortsClaim` and
  `DeadlockAbortsClose` fire in `sched_ledger`): either victim goes back to its loop.
* `ClaimsAreNumbered`, `FirstCompletionIsFinal` and `FailedWasTriedEnough` speak of profiles
  whose backfill was never cancelled. Of the others they are false of the code: a new seed
  starts `attempt_count` at 0 again, two workers may hold the same number, and a late
  `mark_embedding_failed` may reopen or give up a row of the new backfill
  (`memory/maintenance/reembedding.py:335`). `CompletedHasVector` holds of every profile.
* `NoFalseAudit` compares the decision with the write and with the row's own candidate, except
  at contested keys. There a row may say `add` of a value nobody wrote, while another was
  written under its key: `ON CONFLICT DO NOTHING` keeps the payload of the first session
  (`memory/postgres.py:487`).
* `PreferenceYieldsToUser` speaks of memories that are superseded. A new version of the same
  memory (R7) needs no word of the user: the rules believe a candidate that calls itself an
  update. `NoSilentOverwrite` asks of both that the candidate declared what it does, not that
  the rules would have judged the same of the memory it meets when it is applied.
* `ReplacementsAreRecorded` is a property of steps: a memory is superseded in the step that
  records its heir, and the record goes only with the purge of one of its ends. It does not
  exclude that two memories supersede one another, which the code allows
  (`memory/postgres.py:947`).
* `ProgressIsCarried` is about Screen components. A file, a package or a shell step that the
  plan before had completed is not carried over (`workflow/mutation.py:186`, `:271`).
* `FirstCompletionIsFinal` is further limited to rows completed by their only claim. In general a
  completed row can be put back to pending by a late failure, which `QueueDrains` shows to be
  harmless for the queue.
* `NoSilentOverwrite` needs the unique constraint on (memory, content hash), not the rules
  alone: an UPDATE planned for equal content may find other content when it is applied, and
  only because the candidate's content is already in the history is `add_version` refused.
* `WindowsDisjoint` is a theorem (`WindowsAreDisjoint`) and no run's property: it is about
  memories whose versions are dated in order, and needs that there is no legacy closing, which
  the run `store` has.
* `MergedOnce` speaks of proposals whose sources nobody else changes: verification and write
  are separate transactions, and a user's change in between is merged over. `OldIsNotApplied`
  covers the changes made before the operator set out.
* `ReadyIsServed` asks for vectors of what was counted, not for the count to be right at the
  promotion: `promote` counts nothing.
* `DecisionsAreOffered` depends on a gate, not on the records: only the latest is looked at, so
  a second unanswered one would hide the first for good.
* `TurnEnds` holds because each way back in the loop of a turn has a counter or a flag of its
  own, which nothing sets back within the turn; it does so up to the bounds on plans and
  failure records.

## 5. Proofs

Every theorem is proved for any constants that satisfy the named assumptions of its module,
from no other assumption. Induction is over steps: an invariant that includes the property,
shown to hold initially and to be preserved by each action.

### 5.1 MaintenanceSchedulerProofs and JobRotationProofs

The checked invariants of the scheduler are not inductive: which worker may close a run depends
on who holds a row lock and on who owns the running row. `IInv` adds that a lock belongs to the
one worker in `locked` (`LocksHeld`), that a busy worker owns a running row (`RunOwned`), that
a job has one such row (`SingleRun`, the partial unique index), and that the cursor is frozen
from the row lock on (`ClaimIsCurrent`). Theorems: `TypeCorrect`, `MutualExclusion`
(OneExecutor), `NoLostProgress` (CursorFollowsRun), `LedgerAgreement` (LeaseMatchesRun).
Lapsing leases, crashes and deadlock aborts are all in the steps.

For the rotation, `StepsAreSchedulers` shows that each of its steps is one of the scheduler or
leaves it alone (`RotationImplementsScheduler`), hence `OneRotationAtATime` from the theorems
above: what a sweep relies on, that nobody moves its cursor meanwhile. `RotInv` then adds that
lists are finite (`ListsAreFinite`) and each sweep `Sound`: if it found `MaxTenants` tenants at
most, those behind its cursor are handled or still to do, and what is handled comes before
what is to do. That a truncated list is then the whole list is `ShortListIsWhole`.
`NobodyPassedOver` follows for any number of tenants, however they come and go.

### 5.2 MemoryStoreProofs

`IInv` is `TypeOK`, `CurrentIsLastOpen`, `VerifiedHasEvidence`, `OneActive` and `Described` (an
existing memory has a subject). `Kept` says what a step leaves of one memory; lemmas about
appending a version (`AppendPreserves`), ending windows (`SealedHistory`) and adding evidence
(`EvidencePreserves`) carry each action. Theorems: `StoreInvariant`, `StoreTypeCorrect`,
`UniqueCurrentFact`, `StoreCoherent`, `NothingVerifiedByItself`, `HistoryImmutable`
(HistoryOnlyGrows).

A second invariant, `InStep`, relates each memory to the outbox and, without legacy closing,
each window to the next (`Abuts`: one ends where the other begins, or a moment after its own
beginning if the other is dated back). From it
`OutboxIsComplete` (OutboxFollowsRecords) and `WindowsAreDisjoint`. `ReplacementsAreTraceable`
(ReplacementsAreRecorded) has two halves: only two methods supersede, and both record the heir
(`NextSupersedes`); only purging takes a relation away, and then one of its ends
(`NextUnlinks`). With it, `ExpiryIsChecked` (ExpiryIsConditional) and `ConfidenceAccumulates`
(ConfidenceNeverDrops) are action properties. `StoreImplementsFacts` shows that the store
implements `SubjectFacts`; it rests on `OneActive`, which makes the CHOOSE of the refinement
mapping the active memory, in the state before and the state after each step.

### 5.3 WritePipelineProofs

`PipelineImplementsStore` shows that each step of the pipeline is a step of `MemoryStore` or
leaves the store alone, so the theorems of 5.2 hold for any number of sessions, the refinement
of `SubjectFacts` among them (`PipelineKeepsFacts`). The invariant
`PInv` adds that each session is `Sound`: what it looked up still exists, is still about the
candidate's subject and has the version that was seen (`Traced`, by the immutability of
histories); the rules' verdict is still `Justified`; and its ledger row (of its own candidate, or
contested: `About`) and its write are there when its stage says so. A session stays sound under any step of another one since memories,
ledger and history of writes only grow (`MemoriesGrow`, `LedgerGrows`). `Linked` (both ends of a
replacement exist) is needed for `PreferenceYieldsToUser`, so that the replacing version is
not lost. Theorems: `PipelineInvariant`, `PipelineTypeCorrect`, `AuditIsTrue` (NoFalseAudit),
`WritesAudited` (WritesAreRegistered), `DecisionsStay` (DecisionsAreFinal), `PreferencesYield`
(PreferenceYieldsToUser), `NothingSilent` (NoSilentOverwrite). The last is the argument of
section 4: a session that extends a memory with content the rules took for equal would add
content the traced version already has.

### 5.4 MemoryProposalsProofs

`ProposalsImplementStore` and with it `ProposalsKeepFacts`: proposals, too, only make steps of
`MemoryStore`, so one subject never has two facts on their account. `RInv` is the store's
invariant with typed rows, complete suggestions, `RowSound` for each row (nothing is carried
out before approval; `applied` has its plan) and `Steady` for each operator (what they are
about to write was approved, and they have a candidate and a plan where the code does). From it `ProposalsTypeCorrect` and
`AuditIsAlwaysTrue`.

The two deeper theorems need an order on what a memory goes through. `Later` compares two
fingerprints of one memory by stage of life and version number; every step of the store moves
forward in it (`WriteAges`, `LifecycleAges`), so a fingerprint once outdated never fits again
(`OutdatedDiffers`). `SeenInv` and `LateInv` then say that a proposal whose source was changed
has an outdated fingerprint and that a late operator who got past verification does not exist:
`OldIsNeverApplied`. For `MergesAtMostOnce`, `MergeInv` says of each undisturbed proposal that
its sources are active, that whatever was written for it is a version of the first source with
the approved content (`Tells`), and that an operator on the way plans to write just that. Two
such versions would be one, as no content is twice in a history (`Distinct`, the unique
constraint on memory and content hash).

### 5.5 EmbeddingOutboxProofs and EmbeddingMigrationProofs

`IInv` adds to the properties that rows and claims exist for written versions only
(`HeldIsWritten`, `RowIsWritten`), that a worker stores what it holds (`WritingIsHeld`), that a
claim's number is within the row's count (`SeenWithin`), and that nobody is left who could undo
a row completed by its only claim (`SoloCompletion`). Theorems: `OutboxInvariant`,
`OutboxTypeCorrect`, `CoverageIsReal` (CompletedHasVector), `ClaimsAreExclusive`
(ClaimsAreNumbered), `GivenUpWasTried` (FailedWasTriedEnough), `CompletionIsFinal`
(FirstCompletionIsFinal). The three last, and the parts of the invariant they rest on, are of
every profile never withdrawn, target profiles included: their rows are deleted only with
their versions, so their count of attempts never starts again.

`MigrationImplementsOutbox` carries these over to any number of migrations and operators
(`MigrationCoverageIsReal`). `MIInv` adds `LedgerOK` (one migration is live, and the active
profile is its target when it is active, otherwise the default), `CountIsServed` (what a call of
`validate` has counted stays served while the call goes on) and `ReadyCount` (so does what a
ready migration was counted on). The last two rest on `StaysServed`: a vector goes away only
with what made its version eligible. Theorems: `MigrationInvariant`, `MigrationTypeCorrect`,
`SearchFollowsLedger` (ActiveFollowsLedger), `PromotedIsServed` (ReadyIsServed).

### 5.6 ChangePlansProofs

`IInv` describes every plan (`PlanOK`) by its steps: one that waits was not attempted under this
plan; at most one is active, what is before it is completed and what is behind it waits
(`InOrder`); one known to have changed nothing had a single attempt and no effect; one that is
completed has its effect in the environment. It further says what the turn holds in memory: the
copy of the plan to be succeeded has the steps of its file (`PlanningOK`), a plan being bound is
`Fresh`, and the step in hand has more attempts than effects (`ExecutionOK`). Each action of the
module has a lemma that it keeps `IInv`. Theorems: `Invariance`, `TypeCorrect`,
`EffectAtMostOnce` (EffectOnce), `CompletedBorneOut` (CompletedIsBorneOut), `ProgressCarried`
(ProgressIsCarried, for Screen components), and `WorkflowImplementsEffects`: the workflow implements `StepEffects`. For
the last, doubt is reduced to evidence and attempts (`DoubtByEvidence`), so that only `Approve`,
`StartStep` and `Answer` matter and every other step is a stutter (`Steady`).
`DecisionsOffered` (DecisionsAreOffered) has an invariant of its own, `OffersOK`: a stored record
that is not answered is the latest one, and no turn is in progress. During a turn all records
are `Closed`, and a new one is stored only as the turn ends.

### 5.7 Only model-checked

Every invariant and action property of the passing runs is also a theorem. Liveness is not:
`EveryDueJobRuns`, `StopTerminates`, `TenantsAreServed`, `QueueDrains`, `BackfillAdvances`,
`TurnEnds`. The prover handles neither fairness with ENABLED nor the induction over time these
need. No module has RECURSIVE operators; nothing is claimed about recursive definitions.

## 6. Granularity and what is left out

A database statement is atomic, and so is a transaction that holds the row lock of what it
changes from its first read. Where a transaction reads without a lock (`set_embedding`) or can
wait (`claim_due_job`, `complete()`) it is split. Serialization anomalies inside one statement
(an INSERT ... SELECT of a backfill that reads a memory just before its deletion) are below this
grain. A commit whose acknowledgement is lost is represented in the pipeline (`GiveUp` from
`applied`) and, for the scheduler, by a crash after a commit. A file that the workflow replaces
is written at once or not at all, as `os.replace` does.

Not represented in the modules above: the text of contents, ranking and search; row level
security beyond the one effect that other tenants have on a shared unique key; the confidence
epsilon; the episodes of the legacy memory tools (`LegacyMemoryToolBridge`), whose keys contain
a content hash and do not meet a turn's; `record_blocked_legacy_write`, which only adds rows
that are never decided; the shared ops tenant. Event ranges are opaque, so overlapping ranges
of a backfill and a turn are not expressed. The store's `metadata` and `summary` columns follow
the content and are left out. What a maintenance handler does to its tenant is in the modules
of the store and the queue, not in `JobRotation`.

Parts without a module, and why, are listed in `PROJECT.json` under "components". By size most
of the repository is there: what the privileged planner may propose and how it is validated,
the commands and probes it runs, tools, knowledge base and user interface. Most of it is text
processing and access to files and servers, without state that several actors share.

### Seen while modelling

These are not stated as runs, because no document promises otherwise or the property is too
close to the line itself. They are grouped by component.

Store and pipeline:

* Windows of one memory overlap when a version is dated back, or when a legacy `valid_to` lies
  beyond the next `valid_from` (`memory/postgres.py:708`).
* A range counts as processed once one of its candidates is registered; candidates after a
  failure are not retried, and rows left undecided stay so (`memory/write_pipeline.py:391`).
* `replace_active` does not look again at what rule R10 was judged on
  (`memory/versioning.py:234`).
* Evidence is attached to whatever version is current when it is written, which may have other
  content than the one compared (`memory/versioning.py:307`).
* Keys are unique in the table and carry no tenant, and `add_candidate` is outside every `try`:
  a key another tenant has makes `process_turn` raise (`migrations/0001_init.sql:161`).
* The backfill's range never equals a turn's, so its events are extracted again
  (`orchestrator.py:1606`, against `memory/write_pipeline.py:20`).
* Two processes of one user and project give the same row numbers to different events
  (`orchestrator.py:488`).
* `delete_memory` leaves the vectors of other profiles (`memory/postgres.py:1520`), and deletes
  memories that `domain.py` calls terminal (superseded, expired).
* A deletion between the two statements of `set_embedding` leaves a deleted memory with a
  vector (`FindLive`, `StoreVector`).

Scheduler and rotation:

* One orphaned run blocks all due jobs (`memory/maintenance/repository.py:141`).
* Tenants beyond `max_tenants` are never visited (`memory/maintenance/tenants.py:160`), although
  `list_active_tenants` is made so that none is skipped in silence (`memory/postgres.py:216`).
* A handler that raises leaves the cursor, so the same tenant stops every later rotation
  (`memory/maintenance/tenants.py:171`).
* The purge does not visit a tenant with deleted memories only.
* The re-embedding Job starts from the head after a run that was cut short, where its comment
  speaks of going on (`memory/maintenance/jobs/reembedding.py:113`).

Proposals:

* Verification and write are separate transactions: a user's correction in between is merged
  over, a deleted memory is added again, an expired proposal may still be written.
* A memory deleted between the scan and its fingerprint is fingerprinted as deleted, and the
  merge brings its content back. The merged content is that of the scan and may be older than
  the fingerprint.
* Content the first source has had before is refused by the unique constraint every time; the
  proposal stays approved and stands in the way of others.
* Sources without evidence give the plan REJECT, and the proposal is marked as applied.
* A merge leaves the second source active, so the next scan proposes it again.
* A pair of user scope found under a project tenant makes `ProposalStore.create` raise
  (`memory/maintenance/proposals.py:360`), and the Job stays at that tenant.

Migration:

* A failed row keeps coverage below 100% for good, while the gate asks for 99%
  (`memory/maintenance/jobs/reembedding.py:152`); it also stays after a cancellation and stands
  in the way of a later migration to the same profile.
* After a cancellation a seed or a worker under way still writes rows and vectors of the
  cancelled profile, which `memory/maintenance/reembedding.py:5` rules out; `start` seeds before
  its status update may be refused.
* A pause is overridden by `mark_validating`. Two validations that overlap, the good one first,
  leave a ready migration with `passed` false, and promotion refused for good. `promote` looks
  at that flag and counts nothing again.
* After a promotion new versions get rows of the default profile only.
* While a migration is active no other can be created without rolling it back.
* The Job takes `DEFAULT_EMBEDDING_MODEL`, not the `target_model` of the migration.
* The manager needs a role that bypasses row level security, otherwise it finds no version
  eligible.

## 7. Plan

Done: MaintenanceScheduler, MemoryStore with SubjectFacts, EmbeddingOutbox, Consolidation and
WritePipeline, JobRotation, MemoryProposals, EmbeddingMigration, ChangePlans with StepEffects;
each with runs, and with proofs of all safety properties that the runs check.

Next, by importance:

1. The scheduler's abstract specification, a job that is idle or executed by one worker with
   the cursor it left, implemented by `MaintenanceScheduler` and through
   `RotationImplementsScheduler` by the rotation.
2. Safety arguments that liveness rests on and that can be proved: in the scheduler, that some
   worker can always move or all have stopped; in the queue, that attempts never decrease while
   a row exists.
3. Runtime governance: tasks and failures under optimistic versions, events in the same
   transaction, `apply_todos` failing in the middle.
4. Operation plans: plans in files, approval, step execution, a run cut off, two processes.
5. Checkpoints and the context budget: covered rows, message groups and budget as operators
   over bounded inputs.

## 8. Running

`tlc -config store.cfg MCMemoryStore` and alike: the module of each run is in `PROJECT.json`.
Each run takes from seconds to three minutes with two workers. `tlapm MemoryStoreProofs.tla` and
alike for the proofs; they need the community modules and the TLAPS library, and take from half
a minute to several minutes each.
