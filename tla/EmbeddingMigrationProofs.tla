---------------------- MODULE EmbeddingMigrationProofs ----------------------
(***************************************************************************)
(* Proofs about EmbeddingMigration for any migrations, targets and         *)
(* callers, and any outbox below: the ledger, the calls and the Job only   *)
(* do to the queue what EmbeddingOutbox allows, so that its theorems hold  *)
(* here as well; the active profile and the ledger agree; and what has     *)
(* been validated stays there to be found.                                 *)
(***************************************************************************)
EXTENDS EmbeddingMigration, EmbeddingOutboxProofs, FiniteSetTheorems

-----------------------------------------------------------------------------
(* The inductive invariant, beside the one of the outbox.                  *)

\* A call or a run under way is about a migration.
CallsAreAbout ==
  \A c \in Callers : call[c].op # "none" => call[c].mig \in Migrations

RunIsAbout == run.at # "idle" => run.mig \in Migrations

\* The partial unique index.
OneLive == \A m, n \in Live : m = n

\* ActiveFollowsLedger without the choice.
ActiveProfile ==
  \/ \E m \in Migrations : ledger[m] = "active" /\ active = TargetOf[m]
  \/ /\ \A m \in Migrations : ledger[m] # "active"
     /\ active = Default

\* Version v was written, and while it is current it has its vector for p.
Served(v, p) == v \in written /\ (Eligible(v) => <<v, p>> \in vectors)

AllServed(S, m) == S # {} /\ \A v \in S : v \in Versions /\ Served(v, TargetOf[m])

\* What a validate under way has counted.
CountIsServed ==
  \A c \in Callers :
    call[c].op = "measured" /\ call[c].good
      => AllServed(call[c].counted, call[c].mig)

ReadyCount ==
  \A m \in Migrations :
    ledger[m] \in {"ready", "active"} => AllServed(validated[m], m)

LedgerOK ==
  /\ MigrationTypeOK
  /\ CallsAreAbout /\ RunIsAbout
  /\ OneLive
  /\ ActiveProfile

MIInv == IInv /\ LedgerOK /\ CountIsServed /\ ReadyCount

-----------------------------------------------------------------------------
(* Steps of the outbox.                                                    *)

\* The targets are profiles other than the default one.
LEMMA Targets == \A m \in Migrations : TargetOf[m] \in Profiles /\ TargetOf[m] # Default
  BY MigrationAssumption

\* A call in progress is about a migration.
LEMMA AboutMigration ==
  ASSUME LedgerOK, NEW c \in Callers, call[c].op # "none"
  PROVE  /\ call[c].mig \in Migrations /\ TargetOf[call[c].mig] \in Profiles
         /\ TargetOf[call[c].mig] # Default
  BY Targets DEF LedgerOK, CallsAreAbout

\* What a caller does is to the outbox a seeding, a withdrawal, or nothing.
LEMMA ActIsOutboxStep ==
  ASSUME LedgerOK, NEW c \in Callers, Act(c)
  PROVE  [Next]_vars
<1>1. CASE StartSeeds(c)
  <2>1. SeedBackfill(TargetOf[call[c].mig]) /\ TargetOf[call[c].mig] \in Profiles
    BY <1>1, AboutMigration DEF StartSeeds
  <2> QED BY <2>1 DEF Next, Use
<1>2. CASE Cancel(c)
  <2>1. CancelBackfill(TargetOf[call[c].mig]) /\ TargetOf[call[c].mig] \in Profiles
    BY <1>2, AboutMigration DEF Cancel
  <2> QED BY <2>1 DEF Next, Use
<1>3. CASE \/ \E m \in Migrations, op \in DOMAIN From \cup {"create"} : Begin(c, op, m)
           \/ Create(c) \/ Transition(c) \/ Measure(c) \/ Report(c)
           \/ Promote(c) \/ Rollback(c) \/ GiveUp(c)
  <2>1. UNCHANGED vars
    BY <1>3 DEF Begin, Create, Transition, Measure, Report, Promote, Rollback, GiveUp
  <2> QED BY <2>1
<1> QED BY <1>1, <1>2, <1>3 DEF Act

\* What the Job does is to the outbox a seeding, a claim, or nothing.
LEMMA JobIsOutboxStep ==
  ASSUME LedgerOK, Job
  PROVE  [Next]_vars
<1>1. CASE JobSeeds
  <2>1. SeedBackfill(TargetOf[run.mig]) /\ TargetOf[run.mig] \in Profiles
    BY <1>1, Targets DEF JobSeeds, LedgerOK, RunIsAbout
  <2> QED BY <2>1 DEF Next, Use
<1>2. ASSUME NEW w \in Workers, JobClaims(w) PROVE [Next]_vars
  <2>1. ClaimPending(w, TargetOf[run.mig]) /\ TargetOf[run.mig] \in Profiles
    BY <1>2, Targets DEF JobClaims, LedgerOK, RunIsAbout
  <2> QED BY <2>1 DEF Next, Work
<1>3. CASE JobBegin \/ JobSeedFails \/ JobCompletes \/ JobChecks \/ JobAdvances \/ JobEnds
  <2>1. UNCHANGED vars
    BY <1>3 DEF JobBegin, JobSeedFails, JobCompletes, JobChecks, JobAdvances, JobEnds
  <2> QED BY <2>1
<1>4. CASE JobCrashes
  BY <1>4 DEF JobCrashes, Next, Work
<1> QED BY <1>1, <1>2, <1>3, <1>4 DEF Job

\* What goes on besides is what goes on in the outbox.
LEMMA BesideIsOutboxStep == ASSUME Beside PROVE [Next]_vars
  BY OutboxAssumption DEF Beside, Next, Use, Work

\* Every step of the migration is a step of the outbox, or none.
LEMMA IsOutboxStep == ASSUME LedgerOK, [MNext]_allVars PROVE [Next]_vars
<1>1. CASE \E c \in Callers : Act(c)
  BY <1>1, ActIsOutboxStep
<1>2. CASE Job
  BY <1>2, JobIsOutboxStep
<1>3. CASE Beside
  BY <1>3, BesideIsOutboxStep
<1>4. CASE UNCHANGED allVars
  BY <1>4 DEF allVars, vars
<1> QED BY <1>1, <1>2, <1>3, <1>4 DEF MNext

-----------------------------------------------------------------------------
(* The ledger.                                                             *)

\* A status change the trigger lets through adds no live migration, and
\* touches the active one only to keep it, unless it asks for "active".
LEMMA MoveKeeps ==
  ASSUME LedgerOK, NEW m \in Migrations, NEW to \in Statuses \ {"none", "active"},
         Move(m, to)
  PROVE  /\ ledger' \in [Migrations -> Statuses]
         /\ Live' \subseteq Live
         /\ \A n \in Migrations : ledger'[n] = "active" <=> ledger[n] = "active"
<1>1. /\ ledger \in [Migrations -> Statuses]
      /\ ledger' = [ledger EXCEPT ![m] = to]
      /\ ledger[m] = to \/ <<ledger[m], to>> \in Allowed
  BY DEF Move, CanMove, LedgerOK, MigrationTypeOK
<1>2. /\ ledger[m] = "active" => ledger'[m] = "active"
      /\ ledger[m] \notin {"none"} \cup Terminal \/ to \in Terminal
  BY <1>1 DEF Allowed, Terminal
<1> QED BY <1>1, <1>2 DEF Live, Terminal, Statuses

\* Without a new live or active migration the ledger stays in order.
LEMMA SameLive ==
  ASSUME LedgerOK, MigrationTypeOK', CallsAreAbout', RunIsAbout',
         Live' \subseteq Live, active' = active,
         \A n \in Migrations : ledger'[n] = "active" <=> ledger[n] = "active"
  PROVE  LedgerOK'
  BY DEF LedgerOK, OneLive, ActiveProfile

\* A call that ends leaves the others as they were.
LEMMA Returning ==
  ASSUME LedgerOK, NEW c \in Callers, Return(c)
  PROVE  /\ call' \in [Callers -> CallType] /\ CallsAreAbout'
         /\ \A d \in Callers : call'[d] = IF d = c THEN NoCall ELSE call[d]
<1>1. NoCall \in CallType
  BY DEF NoCall, CallType
<1> QED BY <1>1 DEF Return, LedgerOK, MigrationTypeOK, CallsAreAbout, NoCall

LEMMA ActKeepsLedger ==
  ASSUME LedgerOK, NEW c \in Callers, Act(c)
  PROVE  LedgerOK'
<1> DEFINE k == call[c]
<1>0. /\ MigrationTypeOK /\ CallsAreAbout /\ RunIsAbout
      /\ k.op # "none" => k.mig \in Migrations
      /\ k \in CallType
  BY DEF LedgerOK, CallsAreAbout, MigrationTypeOK
<1>1. ASSUME NEW m \in Migrations, NEW op \in DOMAIN From \cup {"create"},
             Begin(c, op, m)
      PROVE  LedgerOK'
  <2>1. /\ call' = [call EXCEPT ![c] = [NoCall EXCEPT !.op = op, !.mig = m]]
        /\ UNCHANGED <<ledger, passed, active, run, validated>>
    BY <1>1 DEF Begin
  <2>2. [NoCall EXCEPT !.op = op, !.mig = m] \in CallType
    BY DEF NoCall, CallType, From, Ops
  <2>3. MigrationTypeOK' /\ CallsAreAbout'
    BY <1>0, <2>1, <2>2 DEF MigrationTypeOK, CallsAreAbout
  <2>4. RunIsAbout' /\ Live' = Live
    BY <1>0, <2>1 DEF RunIsAbout, Live
  <2> QED BY <2>1, <2>3, <2>4, SameLive
<1>2. CASE Create(c)
  <2>1. /\ k.mig \in Migrations /\ Live = {} /\ Return(c)
        /\ ledger' = [ledger EXCEPT ![k.mig] = "planned"]
        /\ UNCHANGED <<passed, active, run, validated>>
    BY <1>0, <1>2 DEF Create
  <2>2. \A n \in Migrations : ledger'[n] = IF n = k.mig THEN "planned" ELSE ledger[n]
    BY <1>0, <2>1 DEF MigrationTypeOK
  <2>3. MigrationTypeOK' /\ CallsAreAbout' /\ RunIsAbout'
    BY <1>0, <2>1, Returning DEF MigrationTypeOK, RunIsAbout, Statuses
  <2>4. Live' \subseteq {k.mig}
    BY <2>1, <2>2 DEF Live
  <2>5. /\ \A n \in Migrations : ledger[n] # "active"
        /\ active = Default
    BY <2>1 DEF LedgerOK, ActiveProfile, Live, Terminal
  <2>6. \A n \in Migrations : ledger'[n] # "active"
    BY <2>2, <2>5
  <2> QED BY <2>1, <2>3, <2>4, <2>5, <2>6 DEF LedgerOK, OneLive, ActiveProfile
<1>3. CASE StartSeeds(c)
  <2>1. /\ call' = [call EXCEPT ![c].op = "seeded"] /\ k.op = "start"
        /\ UNCHANGED <<ledger, passed, active, run, validated>>
    BY <1>3 DEF StartSeeds
  <2>2. [k EXCEPT !.op = "seeded"] \in CallType
    BY <1>0 DEF CallType, Ops
  <2>3. MigrationTypeOK' /\ CallsAreAbout'
    BY <1>0, <2>1, <2>2 DEF MigrationTypeOK, CallsAreAbout
  <2>4. RunIsAbout' /\ Live' = Live
    BY <1>0, <2>1 DEF RunIsAbout, Live
  <2> QED BY <2>1, <2>3, <2>4, SameLive
<1>4. CASE Transition(c) \/ Cancel(c)
  <2>1. PICK to \in Statuses \ {"none", "active"} : Move(k.mig, to)
    BY <1>4 DEF Transition, Cancel, To, Statuses
  <2>2. k.mig \in Migrations /\ Return(c) /\ UNCHANGED <<passed, active, run, validated>>
    BY <1>0, <1>4 DEF Transition, Cancel, To
  <2> HIDE DEF k
  <2>3. /\ ledger' \in [Migrations -> Statuses]
        /\ Live' \subseteq Live
        /\ \A n \in Migrations : ledger'[n] = "active" <=> ledger[n] = "active"
    BY <2>1, <2>2, MoveKeeps
  <2>4. MigrationTypeOK' /\ CallsAreAbout' /\ RunIsAbout'
    BY <1>0, <2>2, <2>3, Returning DEF MigrationTypeOK, RunIsAbout
  <2> QED BY <2>2, <2>3, <2>4, SameLive
<1>5. CASE Measure(c)
  <2>1. PICK good \in BOOLEAN :
          call' = [call EXCEPT ![c] =
                     [op |-> "measured", mig |-> k.mig, good |-> good,
                      counted |-> IF good THEN Completed(k.mig) ELSE {}]]
    BY <1>5 DEF Measure, Covered
  <2>2. k.mig \in Migrations /\ UNCHANGED <<ledger, passed, active, run, validated>>
    BY <1>0, <1>5 DEF Measure
  <2> HIDE DEF k
  <2>3. [op |-> "measured", mig |-> k.mig, good |-> good,
         counted |-> IF good THEN Completed(k.mig) ELSE {}] \in CallType
    BY <2>2 DEF CallType, Ops, Completed, EligibleVersions
  <2>4. MigrationTypeOK' /\ CallsAreAbout'
    BY <1>0, <2>1, <2>2, <2>3 DEF MigrationTypeOK, CallsAreAbout
  <2>5. RunIsAbout' /\ Live' = Live
    BY <1>0, <2>2 DEF RunIsAbout, Live
  <2> QED BY <2>2, <2>4, <2>5, SameLive
<1>6. CASE Report(c)
  <2>1. /\ k.mig \in Migrations /\ Return(c) /\ UNCHANGED <<active, run>>
        /\ passed' = [passed EXCEPT ![k.mig] = k.good]
        /\ \/ Move(k.mig, "ready")
              /\ validated' = [validated EXCEPT ![k.mig] = k.counted]
           \/ UNCHANGED <<ledger, validated>>
    BY <1>0, <1>6 DEF Report
  <2>2. k.good \in BOOLEAN /\ k.counted \in SUBSET Versions
    BY <1>0 DEF CallType
  <2> HIDE DEF k
  <2>3. passed' \in [Migrations -> BOOLEAN] /\ validated' \in [Migrations -> SUBSET Versions]
    BY <1>0, <2>1, <2>2 DEF MigrationTypeOK
  <2>4. "ready" \in Statuses \ {"none", "active"}
    BY DEF Statuses
  <2>5. /\ ledger' \in [Migrations -> Statuses]
        /\ Live' \subseteq Live
        /\ \A n \in Migrations : ledger'[n] = "active" <=> ledger[n] = "active"
    BY <1>0, <2>1, <2>4, MoveKeeps DEF MigrationTypeOK, Live
  <2>6. MigrationTypeOK' /\ CallsAreAbout' /\ RunIsAbout'
    BY <1>0, <2>1, <2>3, <2>5, Returning DEF MigrationTypeOK, RunIsAbout
  <2> QED BY <2>1, <2>5, <2>6, SameLive
<1>7. CASE Promote(c)
  <2>1. /\ k.mig \in Migrations /\ Return(c) /\ UNCHANGED <<passed, run, validated>>
        /\ ledger[k.mig] \in {"ready", "active"}
        /\ ledger' = [ledger EXCEPT ![k.mig] = "active"]
        /\ active' = TargetOf[k.mig]
    BY <1>0, <1>7 DEF Promote, Move, CanMove, Allowed
  <2> HIDE DEF k
  <2>2. \A n \in Migrations : ledger'[n] = IF n = k.mig THEN "active" ELSE ledger[n]
    BY <1>0, <2>1 DEF MigrationTypeOK
  <2>3. MigrationTypeOK' /\ CallsAreAbout' /\ RunIsAbout'
    BY <1>0, <2>1, Returning, Targets DEF MigrationTypeOK, RunIsAbout, Statuses
  <2>4. Live' \subseteq Live
    BY <2>1, <2>2 DEF Live, Terminal
  <2> QED BY <2>1, <2>2, <2>3, <2>4 DEF LedgerOK, OneLive, ActiveProfile
<1>8. CASE Rollback(c)
  <2>1. /\ k.mig \in Migrations /\ Return(c) /\ UNCHANGED <<passed, run, validated>>
        /\ ledger[k.mig] = "active"
        /\ ledger' = [ledger EXCEPT ![k.mig] = "retired"]
        /\ active' = Default
    BY <1>0, <1>8 DEF Rollback
  <2> HIDE DEF k
  <2>2. \A n \in Migrations : ledger'[n] = IF n = k.mig THEN "retired" ELSE ledger[n]
    BY <1>0, <2>1 DEF MigrationTypeOK
  <2>3. MigrationTypeOK' /\ CallsAreAbout' /\ RunIsAbout'
    BY <1>0, <2>1, Returning, OutboxAssumption DEF MigrationTypeOK, RunIsAbout, Statuses
  <2>4. Live' \subseteq Live
    BY <2>2 DEF Live, Terminal
  <2>5. \A n \in Migrations : ledger[n] = "active" => n = k.mig
    BY <2>1 DEF LedgerOK, OneLive, Live, Terminal
  <2>6. \A n \in Migrations : ledger'[n] # "active"
    BY <2>2, <2>5
  <2> QED BY <2>1, <2>3, <2>4, <2>6 DEF LedgerOK, OneLive, ActiveProfile
<1>9. CASE GiveUp(c)
  <2>1. Return(c) /\ UNCHANGED <<ledger, passed, active, run, validated>>
    BY <1>9 DEF GiveUp
  <2>2. MigrationTypeOK' /\ CallsAreAbout' /\ RunIsAbout' /\ Live' = Live
    BY <1>0, <2>1, Returning DEF MigrationTypeOK, RunIsAbout, Live
  <2> QED BY <2>1, <2>2, SameLive
<1> QED BY <1>1, <1>2, <1>3, <1>4, <1>5, <1>6, <1>7, <1>8, <1>9 DEF Act

LEMMA JobKeepsLedger == ASSUME LedgerOK, Job PROVE LedgerOK'
<1>0. MigrationTypeOK /\ CallsAreAbout /\ RunIsAbout
  BY DEF LedgerOK
<1>1. CASE JobAdvances
  <2>1. /\ run.mig \in Migrations /\ Move(run.mig, "validating") /\ run' = NoRun
        /\ UNCHANGED <<passed, active, call, validated>>
    BY <1>0, <1>1 DEF JobAdvances, RunIsAbout
  <2>2. "validating" \in Statuses \ {"none", "active"}
    BY DEF Statuses
  <2>3. /\ ledger' \in [Migrations -> Statuses]
        /\ Live' \subseteq Live
        /\ \A n \in Migrations : ledger'[n] = "active" <=> ledger[n] = "active"
    BY <2>1, <2>2, MoveKeeps
  <2>4. MigrationTypeOK' /\ CallsAreAbout' /\ RunIsAbout'
    BY <1>0, <2>1, <2>3 DEF MigrationTypeOK, CallsAreAbout, RunIsAbout, NoRun, Stages
  <2> QED BY <2>1, <2>3, <2>4, SameLive
<1>2. CASE \/ JobBegin \/ JobSeeds \/ JobSeedFails \/ JobCompletes \/ JobChecks
           \/ JobEnds \/ JobCrashes \/ \E w \in Workers : JobClaims(w)
  <2>1. UNCHANGED <<ledger, passed, active, call, validated>>
    BY <1>2 DEF JobBegin, JobSeeds, JobSeedFails, JobCompletes, JobChecks,
                JobEnds, JobCrashes, JobClaims, migration
  <2>2. /\ run' \in [at : Stages, mig : Migrations \cup {None}]
        /\ RunIsAbout'
    BY <1>0, <1>2 DEF JobBegin, JobSeeds, JobSeedFails, JobCompletes, JobChecks,
         JobEnds, JobCrashes, JobClaims, migration, MigrationTypeOK, RunIsAbout,
         NoRun, Stages, Live
  <2>3. MigrationTypeOK' /\ CallsAreAbout' /\ Live' = Live
    BY <1>0, <2>1, <2>2 DEF MigrationTypeOK, CallsAreAbout, Live
  <2> QED BY <2>1, <2>2, <2>3, SameLive
<1> QED BY <1>1, <1>2 DEF Job

LEMMA StepKeepsLedger == ASSUME LedgerOK, [MNext]_allVars PROVE LedgerOK'
<1>1. CASE UNCHANGED migration
  BY <1>1 DEF migration, LedgerOK, MigrationTypeOK, CallsAreAbout, RunIsAbout,
              OneLive, Live, ActiveProfile
<1>2. CASE UNCHANGED allVars
  BY <1>1, <1>2 DEF allVars, migration
<1> QED BY <1>1, <1>2, ActKeepsLedger, JobKeepsLedger DEF MNext

-----------------------------------------------------------------------------
(* What has been counted stays there to be found.                          *)

\* No version that was ever current becomes current again, and the vector of
\* one that is current is not taken away: deleting it ends that first.
LEMMA StaysServed ==
  ASSUME TypeOK, [Next]_vars, NEW v \in Versions, NEW p \in Profiles, Served(v, p)
  PROVE  Served(v, p)'
<1> DEFINE m == MemoryOf[v]
<1>0. m \in Memories
  BY OutboxAssumption
<1>1. CASE Use
  <2>1. ASSUME NEW u \in Versions, Write(u) PROVE Served(v, p)'
    <3>1. /\ u # v /\ written' = written \cup {u} /\ vectors' = vectors
          /\ memory' = [memory EXCEPT ![MemoryOf[u]] = "active"]
          /\ current' = [current EXCEPT ![MemoryOf[u]] = u]
          /\ MemoryOf[u] \in Memories
      BY <2>1, OutboxAssumption DEF Write, Served
    <3> QED BY <1>0, <3>1 DEF Served, Eligible, TypeOK
  <2>2. ASSUME NEW n \in Memories, Close(n) \/ Archive(n) PROVE Served(v, p)'
    <3>1. /\ memory' = [memory EXCEPT ![n] = "closed"]
          /\ UNCHANGED <<current, written, vectors>>
      BY <2>2 DEF Close, Archive
    <3> QED BY <1>0, <3>1 DEF Served, Eligible, TypeOK
  <2>3. ASSUME NEW n \in Memories, DeleteMemory(n) \/ PurgeDeleted(n)
        PROVE  Served(v, p)'
    <3>1. PICK s \in {"deleted", "purged"} : memory' = [memory EXCEPT ![n] = s]
      BY <2>3 DEF DeleteMemory, PurgeDeleted
    <3>2. UNCHANGED <<current, written>> /\ vectors \ vectors' \subseteq RowsOf(n)
      BY <2>3 DEF DeleteMemory, PurgeDeleted
    <3>3. n # m => <<v, p>> \notin RowsOf(n)
      BY DEF RowsOf
    <3> HIDE DEF m
    <3>4. CASE n = m
      <4>1. memory'[m] # "active"
        BY <1>0, <3>1, <3>4 DEF TypeOK
      <4> QED BY <3>2, <4>1 DEF Served, Eligible, m
    <3>5. CASE n # m
      <4>1. memory'[m] = memory[m]
        BY <1>0, <3>1, <3>5 DEF TypeOK
      <4> QED BY <3>2, <3>3, <3>5, <4>1 DEF Served, Eligible, m
    <3> QED BY <3>4, <3>5
  <2>4. CASE \E q \in Profiles : SeedBackfill(q) \/ CancelBackfill(q)
    BY <2>4 DEF SeedBackfill, CancelBackfill, store, Served, Eligible
  <2> QED BY <1>1, <2>1, <2>2, <2>3, <2>4 DEF Use
<1>2. ASSUME NEW w \in Workers, Work(w) PROVE Served(v, p)'
  <2>1. CASE \/ \E q \in Profiles : ClaimPending(w, q)
             \/ \E r \in Rows : FindLive(w, r) \/ Fail(w, r) \/ FailUnrecorded(w, r)
             \/ Abandon(w) \/ Crash(w)
    <3>1. UNCHANGED <<memory, current, written, vectors>>
      BY <2>1 DEF ClaimPending, FindLive, Fail, FailUnrecorded, Abandon, Crash,
                  LeaveBatch, store
    <3> QED BY <3>1 DEF Served, Eligible
  <2>2. ASSUME NEW r \in Rows, FindDeleted(w, r) PROVE Served(v, p)'
    <3>1. /\ memory[MemoryOf[r[1]]] = "deleted" /\ vectors' = vectors \ {r}
          /\ UNCHANGED <<memory, current, written>>
      BY <2>2 DEF FindDeleted
    <3>2. r = <<v, p>> => ~Eligible(v)
      BY <3>1 DEF Eligible
    <3> QED BY <3>1, <3>2 DEF Served, Eligible
  <2>3. CASE StoreVector(w)
    BY <2>3 DEF StoreVector, Served, Eligible
  <2> QED BY <1>2, <2>1, <2>2, <2>3 DEF Work, Handle
<1>3. CASE \E r \in Rows : Elapse(r)
  BY <1>3 DEF Elapse, store, Served, Eligible
<1>4. CASE UNCHANGED vars
  BY <1>4 DEF vars, Served, Eligible
<1> QED BY <1>1, <1>2, <1>3, <1>4 DEF Next

\* So do all of a set.
LEMMA StayServed ==
  ASSUME TypeOK, [Next]_vars, NEW m \in Migrations, NEW S, AllServed(S, m)
  PROVE  S # {} /\ \A v \in S : v \in Versions /\ Served(v, TargetOf[m])'
  BY StaysServed, Targets DEF AllServed

\* The count of a validate that is good is served when it is made.
LEMMA CountedIsServed ==
  ASSUME IInv, NEW m \in Migrations, Covered(m)
  PROVE  AllServed(Completed(m), m)
<1>1. Completed(m) # {}
  <2>1. IsFiniteSet(EligibleVersions)
    BY MigrationAssumption, FS_Subset DEF EligibleVersions
  <2>2. Cardinality(EligibleVersions) \in Nat /\ Cardinality(EligibleVersions) # 0
    BY <2>1, FS_CardinalityType, FS_EmptySet DEF Covered
  <2>3. 100 * Cardinality(Completed(m)) # 0
    BY <2>2, MigrationAssumption DEF Covered
  <2>4. Cardinality({}) = 0
    BY FS_EmptySet
  <2> QED BY <2>3, <2>4
<1>2. ASSUME NEW v \in Completed(m)
      PROVE  v \in Versions /\ Served(v, TargetOf[m])
  <2>1. /\ v \in Versions /\ Eligible(v) /\ <<v, TargetOf[m]>> \in Rows
        /\ status[<<v, TargetOf[m]>>] = "completed"
    BY Targets DEF Completed, EligibleVersions, Rows
  <2>2. <<v, TargetOf[m]>> \in vectors
    BY <2>1 DEF IInv, CompletedHasVector
  <2> QED BY <2>1, <2>2 DEF Served, Eligible
<1> QED BY <1>1, <1>2 DEF AllServed

\* A good count is an old one, or one that is just being made.
LEMMA CountsAreServed ==
  ASSUME MIInv, [MNext]_allVars, NEW c \in Callers,
         call'[c].op = "measured", call'[c].good
  PROVE  /\ call'[c].mig \in Migrations
         /\ AllServed(call'[c].counted, call'[c].mig)
<1>0. /\ LedgerOK /\ call \in [Callers -> CallType]
      /\ call[c].op # "none" => call[c].mig \in Migrations
  BY DEF MIInv, LedgerOK, MigrationTypeOK, CallsAreAbout
<1>1. CASE call'[c] = call[c]
  BY <1>0, <1>1 DEF MIInv, CountIsServed
<1>2. CASE call'[c] # call[c]
  <2>1. PICK d \in Callers : Act(d)
    BY <1>2 DEF MNext, allVars, migration, Job, JobBegin, JobSeeds, JobSeedFails,
                JobCompletes, JobChecks, JobAdvances, JobEnds, JobCrashes, JobClaims
  <2>2. d = c /\ Measure(c)
    <3>1. CASE Return(d)
      BY <1>0, <1>2, <3>1 DEF Return, NoCall
    <3>2. ASSUME NEW m \in Migrations, NEW op \in DOMAIN From \cup {"create"},
                 Begin(d, op, m)
          PROVE  FALSE
      <4>1. call' = [call EXCEPT ![d] = [NoCall EXCEPT !.op = op, !.mig = m]]
        BY <3>2 DEF Begin
      <4>2. call'[c].op = op
        BY <1>0, <1>2, <4>1 DEF NoCall
      <4> QED BY <4>2 DEF From
    <3>3. CASE StartSeeds(d)
      <4>1. call' = [call EXCEPT ![d].op = "seeded"]
        BY <3>3 DEF StartSeeds
      <4> QED BY <1>0, <1>2, <4>1 DEF CallType
    <3>4. CASE Measure(d)
      BY <1>0, <1>2, <3>4 DEF Measure
    <3> QED BY <2>1, <3>1, <3>2, <3>3, <3>4
            DEF Act, Create, Transition, Cancel, Report, Promote, Rollback, GiveUp
  <2>3. PICK good \in {Covered(call[c].mig), FALSE} :
          call' = [call EXCEPT ![c] =
                     [op |-> "measured", mig |-> call[c].mig, good |-> good,
                      counted |-> IF good THEN Completed(call[c].mig) ELSE {}]]
    BY <2>2 DEF Measure
  <2>4. call'[c] = [op |-> "measured", mig |-> call[c].mig, good |-> good,
                    counted |-> IF good THEN Completed(call[c].mig) ELSE {}]
    BY <1>0, <2>3
  <2>5. call[c].mig \in Migrations
    BY <1>0, <2>2 DEF Measure
  <2>6. good # FALSE
    BY <2>4
  <2>7. good /\ Covered(call[c].mig)
    <3>1. good = Covered(call[c].mig) /\ Covered(call[c].mig) \in BOOLEAN
      BY <2>6, Zenon DEF Covered
    <3> QED BY <2>6, <3>1, Zenon
  <2> QED BY <2>4, <2>5, <2>7, CountedIsServed DEF MIInv
<1> QED BY <1>1, <1>2

\* A migration is ready or active because it was, or because a good count is
\* being reported.
LEMMA ReadyIsCounted ==
  ASSUME MIInv, [MNext]_allVars, NEW m \in Migrations,
         ledger'[m] \in {"ready", "active"}
  PROVE  AllServed(validated'[m], m)
<1>0. /\ ledger \in [Migrations -> Statuses]
      /\ validated \in [Migrations -> SUBSET Versions]
      /\ LedgerOK
  BY DEF MIInv, LedgerOK, MigrationTypeOK
<1>1. CASE ledger[m] \in {"ready", "active"} /\ validated' = validated
  BY <1>1 DEF MIInv, ReadyCount
<1>2. ASSUME NEW c \in Callers, Report(c) PROVE AllServed(validated'[m], m)
  <2>1. CASE ~call[c].good
    <3>1. UNCHANGED <<ledger, validated>>
      BY <1>2, <2>1 DEF Report
    <3> QED BY <1>1, <3>1
  <2>2. CASE call[c].good
    <3>1. /\ call[c].mig \in Migrations /\ AllServed(call[c].counted, call[c].mig)
          /\ ledger' = [ledger EXCEPT ![call[c].mig] = "ready"]
          /\ validated' = [validated EXCEPT ![call[c].mig] = call[c].counted]
      BY <1>2, <2>2, AboutMigration DEF Report, Move, MIInv, CountIsServed
    <3>2. CASE call[c].mig = m
      BY <1>0, <3>1, <3>2
    <3>3. CASE call[c].mig # m
      <4>1. ledger[m] \in {"ready", "active"} /\ validated'[m] = validated[m]
        BY <1>0, <3>1, <3>3
      <4> QED BY <4>1 DEF MIInv, ReadyCount
    <3> QED BY <3>2, <3>3
  <2> QED BY <2>1, <2>2
<1>3. ASSUME NEW c \in Callers, Act(c), ~Report(c)
      PROVE  ledger[m] \in {"ready", "active"} /\ validated' = validated
  <2>0. call[c].op # "none" => call[c].mig \in Migrations
    BY <1>0 DEF LedgerOK, CallsAreAbout
  <2>1. CASE Promote(c)
    BY <1>0, <2>0, <2>1 DEF Promote, Move, CanMove, Allowed
  <2>2. CASE Transition(c) \/ Cancel(c)
    <3>1. PICK to \in {"backfilling", "paused", "cancelled"} :
            ledger' = [ledger EXCEPT ![call[c].mig] = to]
      BY <2>2 DEF Transition, Cancel, Move, To
    <3> QED BY <1>0, <2>2, <3>1 DEF Transition, Cancel
  <2>3. CASE Create(c) \/ Rollback(c)
    BY <1>0, <2>3 DEF Create, Rollback
  <2>4. CASE \/ \E n \in Migrations, op \in DOMAIN From \cup {"create"} : Begin(c, op, n)
             \/ StartSeeds(c) \/ Measure(c) \/ GiveUp(c)
    BY <2>4 DEF Begin, StartSeeds, Measure, GiveUp
  <2> QED BY <1>3, <2>1, <2>2, <2>3, <2>4 DEF Act
<1>4. CASE Job
  <2>1. validated' = validated
    BY <1>4 DEF Job, JobBegin, JobSeeds, JobSeedFails, JobCompletes, JobChecks,
                JobAdvances, JobEnds, JobCrashes, JobClaims, migration
  <2>2. CASE JobAdvances
    BY <1>0, <1>1, <2>1, <2>2 DEF JobAdvances, Move
  <2>3. CASE ~JobAdvances
    <3>1. ledger' = ledger
      BY <1>4, <2>3 DEF Job, JobBegin, JobSeeds, JobSeedFails, JobCompletes,
                        JobChecks, JobEnds, JobCrashes, JobClaims, migration
    <3> QED BY <1>1, <2>1, <3>1
  <2> QED BY <2>2, <2>3
<1>5. CASE UNCHANGED migration
  BY <1>1, <1>5 DEF migration
<1>6. CASE UNCHANGED allVars
  BY <1>5, <1>6 DEF allVars, migration
<1> QED BY <1>1, <1>2, <1>3, <1>4, <1>5, <1>6 DEF MNext

LEMMA StepKeepsServed == ASSUME MIInv, [MNext]_allVars PROVE CountIsServed' /\ ReadyCount'
<1>1. TypeOK /\ [Next]_vars
  BY IsOutboxStep DEF MIInv, IInv
<1>2. CountIsServed'
  <2> SUFFICES ASSUME NEW c \in Callers, call'[c].op = "measured", call'[c].good
               PROVE  AllServed(call[c].counted, call[c].mig)'
    BY DEF CountIsServed
  <2> QED BY <1>1, CountsAreServed, StayServed DEF AllServed
<1>3. ReadyCount'
  <2> SUFFICES ASSUME NEW m \in Migrations, ledger'[m] \in {"ready", "active"}
               PROVE  AllServed(validated[m], m)'
    BY DEF ReadyCount
  <2> QED BY <1>1, ReadyIsCounted, StayServed DEF AllServed
<1> QED BY <1>2, <1>3

-----------------------------------------------------------------------------
(* The results.                                                            *)

LEMMA MInitMIInv == MInit => MIInv
<1> SUFFICES ASSUME MInit PROVE MIInv
  OBVIOUS
<1>1. IInv
  BY InitIInv DEF MInit
<1>2. MigrationTypeOK
  BY OutboxAssumption DEF MInit, MigrationTypeOK, Statuses, NoCall, CallType,
                          NoRun, Stages
<1>3. CallsAreAbout /\ RunIsAbout /\ OneLive /\ ActiveProfile
  BY DEF MInit, CallsAreAbout, RunIsAbout, OneLive, Live, ActiveProfile, NoCall, NoRun
<1>4. CountIsServed /\ ReadyCount
  BY DEF MInit, CountIsServed, ReadyCount, NoCall
<1> QED BY <1>1, <1>2, <1>3, <1>4 DEF MIInv, LedgerOK

LEMMA MStepMIInv == MIInv /\ [MNext]_allVars => MIInv'
<1> SUFFICES ASSUME MIInv, [MNext]_allVars PROVE MIInv'
  OBVIOUS
<1>1. IInv'
  BY IsOutboxStep, StepIInv DEF MIInv
<1>2. LedgerOK'
  BY StepKeepsLedger DEF MIInv
<1> QED BY <1>1, <1>2, StepKeepsServed DEF MIInv

\* The strengthened invariant of ledger, calls, Job and queue together.
THEOREM MigrationInvariant == MSpec => []MIInv
  BY MInitMIInv, MStepMIInv, PTL DEF MSpec

\* Migrations, their Job and their operators only do to the queue what the
\* model of the queue has any migration do: what is proved of it holds here.
THEOREM MigrationImplementsOutbox == MSpec => Spec
<1>1. MInit => Init
  BY DEF MInit
<1>2. MIInv /\ [MNext]_allVars => [Next]_vars
  BY IsOutboxStep DEF MIInv
<1> QED BY <1>1, <1>2, MigrationInvariant, PTL DEF MSpec, Spec

\* Among it: behind every completed row there is a vector.
THEOREM MigrationCoverageIsReal == MSpec => []CompletedHasVector
  BY MigrationImplementsOutbox, CoverageIsReal, PTL

\* Type correctness of ledger, calls and runs.
THEOREM MigrationTypeCorrect == MSpec => []MigrationTypeOK
<1>1. MIInv => MigrationTypeOK
  BY DEF MIInv, LedgerOK
<1> QED BY <1>1, MigrationInvariant, PTL

\* The profile searches use is the one the ledger says is active.
THEOREM SearchFollowsLedger == MSpec => []ActiveFollowsLedger
<1>1. MIInv => ActiveFollowsLedger
  <2> SUFFICES ASSUME MIInv PROVE ActiveFollowsLedger
    OBVIOUS
  <2>1. CASE \E m \in Migrations : ledger[m] = "active"
    <3> DEFINE a == CHOOSE m \in Migrations : ledger[m] = "active"
    <3>1. a \in Migrations /\ ledger[a] = "active"
      BY <2>1
    <3> HIDE DEF a
    <3>2. \A m \in Migrations : ledger[m] = "active" => m = a
      BY <3>1 DEF MIInv, LedgerOK, OneLive, Live, Terminal
    <3>3. active = TargetOf[a]
      BY <2>1, <3>2 DEF MIInv, LedgerOK, ActiveProfile
    <3> QED BY <2>1, <3>3 DEF ActiveFollowsLedger, a
  <2>2. CASE ~\E m \in Migrations : ledger[m] = "active"
    BY <2>2 DEF MIInv, LedgerOK, ActiveProfile, ActiveFollowsLedger
  <2> QED BY <2>1, <2>2
<1> QED BY <1>1, MigrationInvariant, PTL

\* Whatever happens between validate and promote, and after, the versions
\* that were counted can be found as long as they are current.
THEOREM PromotedIsServed == MSpec => []ReadyIsServed
<1>1. MIInv => ReadyIsServed
  BY DEF MIInv, ReadyCount, AllServed, Served, ReadyIsServed
<1> QED BY <1>1, MigrationInvariant, PTL
=============================================================================
