-------------------------- MODULE EmbeddingOutbox --------------------------
(***************************************************************************)
(* The asynchronous embedding of memory versions: the queue table          *)
(* memory_embedding_outbox with the methods of PostgresMemoryRepository    *)
(* that fill, claim and close it (memory/postgres.py), the loop of         *)
(* EmbeddingWorker (memory/embedding_worker.py) with the variant of        *)
(* ReembeddingWorker, and the two operations of EmbeddingMigrationManager  *)
(* that add and withdraw rows (memory/maintenance/reembedding.py).         *)
(*                                                                         *)
(* Workers hold no lock while they call the embedding provider: a claim is *)
(* a lease, written as a future next_attempt_at.  A lease may lapse while  *)
(* its holder is still at work.  A statement is atomic; the transaction of *)
(* set_embedding is two steps, its SELECT takes no lock.                   *)
(***************************************************************************)
EXTENDS Naturals, FiniteSets

CONSTANTS
  Memories,     \* ids of memory_records
  Versions,     \* ids of memory_versions
  MemoryOf,     \* the memory each version belongs to
  Profiles,     \* embedding profiles
  Default,      \* the one whose vectors live in memory_versions.embedding
  Workers,      \* worker processes; each runs the jobs of every profile
  Refused,      \* rows whose provider may raise a permanent error
  BatchSize,    \* rows of one claim
  MaxAttempts,  \* failures after which a row is given up
  MaxFaults,    \* bound on crashes, stops and failures nobody could record
  None

ASSUME OutboxAssumption ==
  /\ MemoryOf \in [Versions -> Memories]
  /\ Default \in Profiles
  /\ Refused \subseteq Versions \X Profiles
  /\ BatchSize \in Nat \ {0} /\ MaxAttempts \in Nat \ {0}
  /\ MaxFaults \in Nat
  /\ None \notin Versions \cup (Versions \X Profiles)

VARIABLES
  memory,    \* memory_records.status; "closed" stands for superseded, expired
  current,   \* memory_records.active_version_id
  written,   \* the versions inserted so far
  vectors,   \* which <<version, profile>> have a vector stored
  status,    \* memory_embedding_outbox.status by row, "none" without a row
  attempts,  \* its attempt_count
  due,       \* its next_attempt_at: "now" for NULL or past, "later" for future
  seen,      \* attempt_count of the rows a worker holds, 0 for the others
  writing,   \* the row whose vector a worker is about to store, or None
  faults,    \* crashes, stops and unrecorded failures so far
  orphaned,  \* a run of a Job was left open: it is not claimed again
  withdrawn  \* history: the profiles whose backfill was cancelled

store == <<memory, current, written, vectors>>
queue == <<status, attempts, due>>
marks == <<faults, orphaned, withdrawn>>
vars == <<memory, current, written, vectors, status, attempts, due, seen,
          writing, faults, orphaned, withdrawn>>

-----------------------------------------------------------------------------
Rows == Versions \X Profiles
RowsOf(m) == {r \in Rows : MemoryOf[r[1]] = m}
DefaultRow(v) == <<v, Default>>

Outstanding == {"pending", "processing"}

Gone(v) == memory[MemoryOf[v]] \in {"deleted", "purged"}
Purged(v) == memory[MemoryOf[v]] = "purged"

Idle(w) == \A r \in Rows : seen[w][r] = 0

Init ==
  /\ memory = [m \in Memories |-> "free"]
  /\ current = [m \in Memories |-> None]
  /\ written = {} /\ vectors = {}
  /\ status = [r \in Rows |-> "none"]
  /\ attempts = [r \in Rows |-> 0]
  /\ due = [r \in Rows |-> "now"]
  /\ seen = [w \in Workers |-> [r \in Rows |-> 0]]
  /\ writing = [w \in Workers |-> None]
  /\ faults = 0 /\ orphaned = FALSE /\ withdrawn = {}

\* INSERT ... ON CONFLICT DO NOTHING: fresh rows, for those not there yet.
Enqueue(R) ==
  LET fresh == {r \in R : status[r] = "none"}
  IN  /\ status' = [r \in Rows |-> IF r \in fresh THEN "pending" ELSE status[r]]
      /\ attempts' = [r \in Rows |-> IF r \in fresh THEN 0 ELSE attempts[r]]
      /\ due' = [r \in Rows |-> IF r \in fresh THEN "now" ELSE due[r]]

\* DELETE FROM memory_embedding_outbox.
Dequeue(R) ==
  /\ status' = [r \in Rows |-> IF r \in R THEN "none" ELSE status[r]]
  /\ attempts' = [r \in Rows |-> IF r \in R THEN 0 ELSE attempts[r]]
  /\ due' = [r \in Rows |-> IF r \in R THEN "now" ELSE due[r]]

-----------------------------------------------------------------------------
(* The users of the store.                                                 *)

\* add_record or add_version: the version and its row in one transaction.
Write(v) ==
  LET m == MemoryOf[v]
  IN  /\ v \notin written
      /\ memory[m] \in {"free", "active"}
      /\ memory' = [memory EXCEPT ![m] = "active"]
      /\ current' = [current EXCEPT ![m] = v]
      /\ written' = written \cup {v}
      /\ Enqueue({DefaultRow(v)})
      /\ UNCHANGED <<vectors, seen, writing, marks>>

\* supersede, replace_active or mark_expired: the rows stay queued.
Close(m) ==
  /\ memory[m] = "active"
  /\ memory' = [memory EXCEPT ![m] = "closed"]
  /\ UNCHANGED <<current, written, vectors, queue, seen, writing, marks>>

\* archive_expired_batch also puts off what is still to do.
Archive(m) ==
  /\ memory[m] = "active"
  /\ memory' = [memory EXCEPT ![m] = "closed"]
  /\ due' = [r \in Rows |->
               IF r \in RowsOf(m) /\ status[r] \in Outstanding
               THEN "later" ELSE due[r]]
  /\ UNCHANGED <<current, written, vectors, status, attempts, seen, writing,
                 marks>>

DeleteMemory_KeepsQueue(m) ==
  /\ memory[m] \in {"active", "closed"}
  /\ memory' = [memory EXCEPT ![m] = "deleted"]
  /\ vectors' = vectors \ {r \in RowsOf(m) : r[2] = Default}
  /\ UNCHANGED <<current, written, queue, seen, writing, marks>>

\* Clears memory_versions.embedding and the rows of every profile.
DeleteMemory(m) ==
  /\ memory[m] \in {"active", "closed"}
  /\ memory' = [memory EXCEPT ![m] = "deleted"]
  /\ vectors' = vectors \ {r \in RowsOf(m) : r[2] = Default}
  /\ Dequeue(RowsOf(m))
  /\ UNCHANGED <<current, written, seen, writing, marks>>

\* ON DELETE CASCADE reaches the versions, the rows and memory_embeddings.
PurgeDeleted(m) ==
  /\ memory[m] = "deleted"
  /\ memory' = [memory EXCEPT ![m] = "purged"]
  /\ vectors' = vectors \ RowsOf(m)
  /\ Dequeue(RowsOf(m))
  /\ UNCHANGED <<current, written, seen, writing, marks>>

-----------------------------------------------------------------------------
(* The migration to another profile.                                       *)

Eligible(v) ==
  /\ v \in written
  /\ memory[MemoryOf[v]] = "active"
  /\ current[MemoryOf[v]] = v

SeedBackfill(p) ==
  LET seeded == {r \in Rows : r[2] = p /\ Eligible(r[1])}
  IN  /\ p # Default
      /\ Enqueue(seeded)
      /\ UNCHANGED <<store, seen, writing, marks>>

\* Withdraws the open rows; workers that hold one are not told.
CancelBackfill(p) ==
  LET open == {r \in Rows : r[2] = p /\ status[r] \in Outstanding}
  IN  /\ p # Default
      /\ Dequeue(open)
      /\ withdrawn' = withdrawn \cup {p}
      /\ UNCHANGED <<store, seen, writing, faults, orphaned>>

-----------------------------------------------------------------------------
(* The workers.                                                            *)

Claimable_Pending(p) ==
  {r \in Rows : /\ r[2] = p
                /\ status[r] = "pending"
                /\ due[r] = "now"
                /\ memory[MemoryOf[r[1]]] # "deleted"}

Claimable_AlsoCompleted(p) ==
  {r \in Rows : /\ r[2] = p
                /\ status[r] \in Outstanding \cup {"completed"}
                /\ due[r] = "now"
                /\ memory[MemoryOf[r[1]]] # "deleted"}

Claimable(p) ==
  {r \in Rows : /\ r[2] = p
                /\ status[r] \in Outstanding
                /\ due[r] = "now"
                /\ memory[MemoryOf[r[1]]] # "deleted"}

Batches(p) ==
  {S \in SUBSET Claimable(p) :
     /\ S # {}
     /\ \/ Cardinality(S) = BatchSize
        \/ S = Claimable(p) /\ Cardinality(S) < BatchSize}

ClaimPending_CountsNothing(w, p) ==
  \E S \in Batches(p) :
    /\ Idle(w)
    /\ status' = [r \in Rows |-> IF r \in S THEN "processing" ELSE status[r]]
    /\ due' = [r \in Rows |-> IF r \in S THEN "later" ELSE due[r]]
    /\ seen' = [seen EXCEPT ![w] =
                  [r \in Rows |-> IF r \in S THEN attempts[r] + 1 ELSE 0]]
    /\ UNCHANGED <<store, attempts, writing, marks>>

\* claim_pending_embeddings: SKIP LOCKED makes two claims disjoint, and the
\* order of created_at only says which of the due rows come first.
ClaimPending(w, p) ==
  \E S \in Batches(p) :
    /\ Idle(w)
    /\ status' = [r \in Rows |-> IF r \in S THEN "processing" ELSE status[r]]
    /\ attempts' = [r \in Rows |->
                      IF r \in S THEN attempts[r] + 1 ELSE attempts[r]]
    /\ due' = [r \in Rows |-> IF r \in S THEN "later" ELSE due[r]]
    /\ seen' = [seen EXCEPT ![w] =
                  [r \in Rows |-> IF r \in S THEN attempts[r] + 1 ELSE 0]]
    /\ UNCHANGED <<store, writing, marks>>

\* A worker handles the rows of its batch one by one.
Holds(w, r) == writing[w] = None /\ seen[w][r] > 0
Drop(w, r) == seen' = [seen EXCEPT ![w][r] = 0]

\* The provider answered, and the SELECT of set_embedding finds the memory
\* not deleted.
FindLive(w, r) ==
  /\ Holds(w, r)
  /\ ~Gone(r[1])
  /\ writing' = [writing EXCEPT ![w] = r]
  /\ UNCHANGED <<store, queue, seen, marks>>

\* It finds the memory deleted: what is left of the vector goes, and the
\* row, for the default profile the rows of every profile.
FindDeleted(w, r) ==
  /\ Holds(w, r)
  /\ memory[MemoryOf[r[1]]] = "deleted"
  /\ vectors' = vectors \ {r}
  /\ Dequeue({q \in Rows : q[1] = r[1] /\ (r[2] = Default \/ q = r)})
  /\ Drop(w, r)
  /\ UNCHANGED <<memory, current, written, writing, marks>>

StoreVector_InTwoTransactions(w) ==
  LET r == writing[w]
  IN  /\ r # None
      /\ ~Purged(r[1])
      /\ status' = [status EXCEPT ![r] =
                      IF @ = "none" THEN @ ELSE "completed"]
      /\ due' = [due EXCEPT ![r] = "now"]
      /\ Drop(w, r)
      /\ writing' = [writing EXCEPT ![w] = None]
      /\ UNCHANGED <<store, attempts, marks>>

\* The rest of the transaction.  The outbox row may be gone: the UPDATE then
\* matches nothing and the call still returns True.
StoreVector(w) ==
  LET r == writing[w]
  IN  /\ r # None
      /\ ~Purged(r[1])
      /\ vectors' = vectors \cup {r}
      /\ status' = [status EXCEPT ![r] =
                      IF @ = "none" THEN @ ELSE "completed"]
      /\ due' = [due EXCEPT ![r] = "now"]
      /\ Drop(w, r)
      /\ writing' = [writing EXCEPT ![w] = None]
      /\ UNCHANGED <<memory, current, written, attempts, marks>>

\* mark_embedding_failed: back off, or give the row up.  The UPDATE asks
\* neither for the status of the row nor for whose lease it is.
MarkFailed(w, r, permanent) ==
  LET spent == permanent \/ seen[w][r] >= MaxAttempts
  IN  /\ status' = [status EXCEPT ![r] =
                      IF @ = "none" THEN @
                      ELSE IF spent THEN "failed" ELSE "pending"]
      /\ due' = [due EXCEPT ![r] =
                   IF status[r] = "none" \/ spent THEN "now" ELSE "later"]
      /\ UNCHANGED attempts

\* _process: the provider or the write raised, or the version is purged.
Fail(w, r) ==
  /\ seen[w][r] > 0
  /\ writing[w] \in {None, r}
  /\ \/ MarkFailed(w, r, FALSE)
     \/ r \in Refused /\ MarkFailed(w, r, TRUE)
  /\ Drop(w, r)
  /\ writing' = [writing EXCEPT ![w] = None]
  /\ UNCHANGED <<store, marks>>

\* Even that could not be written: the exception is swallowed.
FailUnrecorded(w, r) ==
  /\ faults < MaxFaults
  /\ seen[w][r] > 0
  /\ writing[w] \in {None, r}
  /\ Drop(w, r)
  /\ writing' = [writing EXCEPT ![w] = None]
  /\ faults' = faults + 1
  /\ UNCHANGED <<store, queue, orphaned, withdrawn>>

\* The rest of the batch is left "processing" until its lease lapses.
LeaveBatch(w) ==
  /\ faults < MaxFaults
  /\ seen' = [seen EXCEPT ![w] = [r \in Rows |-> 0]]
  /\ faults' = faults + 1
  /\ UNCHANGED <<store, queue, withdrawn>>

\* The deadline, or a stop, between two rows: the run is closed in order.
Abandon(w) ==
  /\ ~Idle(w) /\ writing[w] = None
  /\ LeaveBatch(w)
  /\ UNCHANGED <<writing, orphaned>>

\* The process dies anywhere in a run, which stays open: the scheduler does
\* not claim a Job that has an open run (LapsedLeaseIsReclaimed of
\* MaintenanceScheduler fails).
Crash(w) ==
  /\ LeaveBatch(w)
  /\ writing' = [writing EXCEPT ![w] = None]
  /\ orphaned' = TRUE

\* Time passes next_attempt_at: a backoff ends or a lease lapses.
Elapse(r) ==
  /\ due[r] = "later"
  /\ due' = [due EXCEPT ![r] = "now"]
  /\ UNCHANGED <<store, status, attempts, seen, writing, marks>>

-----------------------------------------------------------------------------
Handle(w) ==
  \/ \E r \in Rows : FindLive(w, r) \/ FindDeleted(w, r) \/ Fail(w, r)
  \/ StoreVector(w)

Work(w) ==
  \/ \E p \in Profiles : ClaimPending(w, p)
  \/ Handle(w)
  \/ \E r \in Rows : FailUnrecorded(w, r)
  \/ Abandon(w) \/ Crash(w)

Use ==
  \/ \E v \in Versions : Write(v)
  \/ \E m \in Memories : \/ Close(m) \/ Archive(m)
                         \/ DeleteMemory(m) \/ PurgeDeleted(m)
  \/ \E p \in Profiles : SeedBackfill(p) \/ CancelBackfill(p)

Next ==
  \/ Use
  \/ \E w \in Workers : Work(w)
  \/ \E r \in Rows : Elapse(r)

Spec == Init /\ [][Next]_vars

\* Time passes; a worker handles what it holds (the provider has a timeout);
\* the scheduler runs the job of every profile again and again as long as no
\* run was left open.
FairSpec ==
  /\ Spec
  /\ \A r \in Rows : WF_vars(Elapse(r))
  /\ \A w \in Workers : WF_vars(Handle(w))
  /\ \A p \in Profiles :
       SF_vars(~orphaned /\ \E w \in Workers : ClaimPending(w, p))

-----------------------------------------------------------------------------
\* Every variable holds a value its column or field can hold.
TypeOK ==
  /\ memory \in [Memories -> {"free", "active", "closed", "deleted", "purged"}]
  /\ current \in [Memories -> Versions \cup {None}]
  /\ written \subseteq Versions
  /\ vectors \subseteq Rows
  /\ status \in [Rows -> {"none", "pending", "processing", "completed", "failed"}]
  /\ attempts \in [Rows -> Nat]
  /\ due \in [Rows -> {"now", "later"}]
  /\ seen \in [Workers -> [Rows -> Nat]]
  /\ writing \in [Workers -> Rows \cup {None}]
  /\ faults \in Nat
  /\ orphaned \in BOOLEAN
  /\ withdrawn \subseteq Profiles \ {Default}

\* The coverage that opens a profile for search counts completed rows
\* (backfill_progress): behind each of them there is a vector.
CompletedHasVector ==
  \A r \in Rows : status[r] = "completed" => r \in vectors

\* A profile whose backfill was cancelled may be seeded again, which starts
\* attempt_count anew under workers that still hold its old rows (cancel,
\* _seed_backfill_outbox).  What is said of claims below is said of the other
\* profiles, the default one among them.
Kept(r) == r[2] \notin withdrawn

\* However leases lapse, no two workers act on the same claim of a row: the
\* later one holds a greater attempt_count.  Of a profile withdrawn and seeded
\* again this does not hold.
ClaimsAreNumbered ==
  \A r \in Rows : \A w1, w2 \in Workers :
    Kept(r) /\ w1 # w2 /\ seen[w1][r] > 0 => seen[w1][r] # seen[w2][r]

\* mark_embedding_failed can undo a completed row, but only after a lease
\* lapsed or a withdrawal: a row completed by its only claim, of a profile
\* never withdrawn, stays so while it exists.
FirstCompletionIsFinal ==
  [][\A r \in Rows :
       Kept(r) /\ status[r] = "completed" /\ attempts[r] = 1
         => status'[r] \in {"completed", "none"}]_vars

\* No stale worker gives up a row of a profile never withdrawn before it had
\* its attempts, unless the provider refused it for good.
FailedWasTriedEnough ==
  \A r \in Rows :
    Kept(r) /\ status[r] = "failed"
      => attempts[r] >= MaxAttempts \/ r \in Refused

\* Every version written ends, for good, out of the queue: embedded or given
\* up, whatever leases lapsed and whoever answered late, or deleted, unless a
\* crash left a run open, after which the code promises nothing.
QueueDrains ==
  \A v \in Versions :
    \/ <>[](status[DefaultRow(v)] \notin Outstanding \/ Gone(v))
    \/ <>orphaned
=============================================================================
