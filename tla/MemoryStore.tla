---------------------------- MODULE MemoryStore ----------------------------
(***************************************************************************)
(* The long-term memory store: PostgresMemoryRepository                    *)
(* (memory/postgres.py) over the tables of migrations 0001 and 0003, for   *)
(* one tenant.                                                             *)
(*                                                                         *)
(* Each write method is one transaction.  It first takes the row lock of   *)
(* the memory it changes, or relies on a unique index, so its statements   *)
(* take effect together: one action per method.  A method that raises      *)
(* rolls back and is no step.                                              *)
(*                                                                         *)
(* Time is counted in units of the microsecond that the code adds to keep  *)
(* a window non-empty.  Requests may carry any valid_from, past or future. *)
(***************************************************************************)
EXTENDS Naturals, Sequences, FiniteSets

CONSTANTS
  Memories,        \* ids of memory_records
  Subjects,        \* subject keys (with their type, scope and tenant)
  Episodes,        \* those of type "episode", which are never superseded
  Contents,        \* normalised contents, by content_hash
  Sources,         \* evidence a version may carry
  Confirming,      \* by subject, that which may verify it: a user statement or a
                   \* tool result, for a preference a user statement only
  None,            \* SQL NULL
  RelationTypes,   \* the relations add_relation is asked for
  MaxTime,         \* bound on the clock and on valid_from
  MaxVersions,     \* bound on the versions of a memory
  MaxConfidence,   \* confidence is 0..MaxConfidence
  LegacyWrites     \* may an old script have set valid_to by itself?

ASSUME StoreAssumption ==
  /\ None \notin Memories \cup Subjects
  /\ IsFiniteSet(Memories)
  /\ Episodes \subseteq Subjects
  /\ Confirming \in [Subjects -> SUBSET Sources]
  /\ MaxTime \in Nat \ {0} /\ MaxVersions \in Nat \ {0}
  /\ MaxConfidence \in Nat
  /\ LegacyWrites \in BOOLEAN

VARIABLES
  status,         \* memory_records.status; "absent" before, "purged" after
  subject,        \* memory_records.subject_key
  activeVersion,  \* memory_records.active_version_id, as a version number
  confidence,     \* memory_records.confidence
  versions,       \* rows of memory_versions of each memory, by version number
  relations,      \* rows of memory_relations: <<from, type, to>>
  outbox,         \* rows of memory_embedding_outbox: <<memory, version>>
  now             \* the clock

vars == <<status, subject, activeVersion, confidence, versions, relations,
          outbox, now>>

-----------------------------------------------------------------------------
Times == 1..MaxTime
Open == 0      \* valid_to IS NULL

Statuses == {"absent", "active", "superseded", "expired", "deleted", "purged"}
Versions ==
  [content : Contents, from : Times, to : 0..(MaxTime + 1),
   sources : SUBSET Sources, verified : BOOLEAN]

TypeOK ==
  /\ status \in [Memories -> Statuses]
  /\ subject \in [Memories -> Subjects \cup {None}]
  /\ activeVersion \in [Memories -> 0..MaxVersions]
  /\ confidence \in [Memories -> 0..MaxConfidence]
  /\ versions \in [Memories -> Seq(Versions)]
  /\ relations \subseteq
       Memories \X (RelationTypes \cup {"supersedes"}) \X Memories
  /\ outbox \subseteq Memories \X (1..MaxVersions)
  /\ now \in Times

Init ==
  /\ status = [m \in Memories |-> "absent"]
  /\ subject = [m \in Memories |-> None]
  /\ activeVersion = [m \in Memories |-> 0]
  /\ confidence = [m \in Memories |-> 0]
  /\ versions = [m \in Memories |-> << >>]
  /\ relations = {}
  /\ outbox = {}
  /\ now = 1

Active(m) == status[m] = "active"
Exists(m) == status[m] \notin {"absent", "purged"}
Greatest(a, b) == IF a >= b THEN a ELSE b

\* ensure_verification_supported: "verified" has to be backed by evidence that
\* counts for this kind of subject.
Supported(s, verified, sources) ==
  verified => sources \cap Confirming[s] # {}

\* Ending windows with a step past the smallest window.
Sealed_PastIt(history, N, t) ==
  [k \in 1..Len(history) |->
     IF k \in N /\ history[k].to = Open
       THEN [history[k] EXCEPT !.to = Greatest(t, history[k].from + 2)]
       ELSE history[k]]

\* End at t the windows of the versions N that have not ended already:
\* SET valid_to = GREATEST(t, valid_from + 1us) WHERE valid_to IS NULL.
Sealed(history, N, t) ==
  [k \in 1..Len(history) |->
     IF k \in N /\ history[k].to = Open
       THEN [history[k] EXCEPT !.to = Greatest(t, history[k].from + 1)]
       ELSE history[k]]

\* A new row of memory_versions, still valid.
Row(content, from, sources, verified) ==
  [content |-> content, from |-> from, to |-> Open, sources |-> sources,
   verified |-> verified]

\* More evidence for version n: sources are only added, verified only set.
WithEvidence(history, n, sources, verified) ==
  [history EXCEPT ![n] = [history[n] EXCEPT
     !.sources = @ \cup sources, !.verified = @ \/ verified]]

\* The unique index uq_memory_records_active_subject lets the row in.
SubjectFree(s) == \A n \in Memories : Active(n) => subject[n] # s

-----------------------------------------------------------------------------
(* Writing.  The request is a record: what NewRecordCommand and             *)
(* NewVersionCommand carry.                                                 *)

Requests ==
  [content : Contents, from : Times, sources : SUBSET Sources,
   verified : BOOLEAN, confidence : 0..MaxConfidence]

RowOf(r) == Row(r.content, r.from, r.sources, r.verified)

\* add_record without the unique index on active subjects.
AddRecord_NoIndex(m, s, r) ==
  /\ status[m] = "absent"
  /\ Supported(s, r.verified, r.sources)
  /\ status' = [status EXCEPT ![m] = "active"]
  /\ subject' = [subject EXCEPT ![m] = s]
  /\ activeVersion' = [activeVersion EXCEPT ![m] = 1]
  /\ confidence' = [confidence EXCEPT ![m] = r.confidence]
  /\ versions' = [versions EXCEPT ![m] = <<RowOf(r)>>]
  /\ outbox' = outbox \cup {<<m, 1>>}
  /\ UNCHANGED <<relations, now>>

\* add_record: a new memory, its first version, its sources and its outbox row.
AddRecord(m, s, r) ==
  /\ status[m] = "absent"
  /\ Supported(s, r.verified, r.sources)
  /\ SubjectFree(s)
  /\ status' = [status EXCEPT ![m] = "active"]
  /\ subject' = [subject EXCEPT ![m] = s]
  /\ activeVersion' = [activeVersion EXCEPT ![m] = 1]
  /\ confidence' = [confidence EXCEPT ![m] = r.confidence]
  /\ versions' = [versions EXCEPT ![m] = <<RowOf(r)>>]
  /\ outbox' = outbox \cup {<<m, 1>>}
  /\ UNCHANGED <<relations, now>>

\* MayExtend without memory_versions_unique_content.
MayExtend_AnyContent(m, r) ==
  /\ Active(m)
  /\ Supported(subject[m], r.verified, r.sources)
  /\ Len(versions[m]) < MaxVersions

\* What add_version checks under the row lock: the memory is active and none
\* of its versions has this content (memory_versions_unique_content).
MayExtend(m, r) ==
  /\ Active(m)
  /\ Supported(subject[m], r.verified, r.sources)
  /\ \A k \in 1..Len(versions[m]) : versions[m][k].content # r.content
  /\ Len(versions[m]) < MaxVersions

\* add_version: a new immutable version becomes the current one; the previous
\* window ends where the new one begins.
AddVersion(m, r) ==
  /\ MayExtend(m, r)
  /\ versions' = [versions EXCEPT ![m] =
                    Append(Sealed(@, {activeVersion[m]}, r.from), RowOf(r))]
  /\ activeVersion' = [activeVersion EXCEPT ![m] = Len(versions[m]) + 1]
  /\ confidence' = [confidence EXCEPT ![m] = Greatest(@, r.confidence)]
  /\ outbox' = outbox \cup {<<m, Len(versions[m]) + 1>>}
  /\ UNCHANGED <<status, subject, relations, now>>

\* replace_active checks: the old memory is active, its subject is the new
\* one's, and its type takes part in replacement.
MayReplace(old, new, r) ==
  /\ status[new] = "absent"
  /\ Active(old)
  /\ Supported(subject[old], r.verified, r.sources)
  /\ subject[old] \notin Episodes

\* replace_active that forgets to end the old window.
ReplaceActive_LeavesWindow(old, new, r) ==
  /\ MayReplace(old, new, r)
  /\ status' = [status EXCEPT ![old] = "superseded", ![new] = "active"]
  /\ subject' = [subject EXCEPT ![new] = subject[old]]
  /\ activeVersion' = [activeVersion EXCEPT ![new] = 1]
  /\ confidence' = [confidence EXCEPT ![new] = r.confidence]
  /\ versions' = [versions EXCEPT ![new] = <<RowOf(r)>>]
  /\ relations' = relations \cup {<<new, "supersedes", old>>}
  /\ outbox' = outbox \cup {<<new, 1>>}
  /\ UNCHANGED now

\* replace_active with the relation written by a later transaction.
ReplaceActive_NoRelation(old, new, r) ==
  /\ MayReplace(old, new, r)
  /\ status' = [status EXCEPT ![old] = "superseded", ![new] = "active"]
  /\ subject' = [subject EXCEPT ![new] = subject[old]]
  /\ activeVersion' = [activeVersion EXCEPT ![new] = 1]
  /\ confidence' = [confidence EXCEPT ![new] = r.confidence]
  /\ versions' = [versions EXCEPT
                    ![old] = Sealed(@, {activeVersion[old]}, r.from),
                    ![new] = <<RowOf(r)>>]
  /\ outbox' = outbox \cup {<<new, 1>>}
  /\ UNCHANGED <<relations, now>>

\* replace_active: the old memory leaves "active" and its window ends before
\* the new memory of the same subject is inserted, in one transaction.
ReplaceActive(old, new, r) ==
  /\ MayReplace(old, new, r)
  /\ status' = [status EXCEPT ![old] = "superseded", ![new] = "active"]
  /\ subject' = [subject EXCEPT ![new] = subject[old]]
  /\ activeVersion' = [activeVersion EXCEPT ![new] = 1]
  /\ confidence' = [confidence EXCEPT ![new] = r.confidence]
  /\ versions' = [versions EXCEPT
                    ![old] = Sealed(@, {activeVersion[old]}, r.from),
                    ![new] = <<RowOf(r)>>]
  /\ relations' = relations \cup {<<new, "supersedes", old>>}
  /\ outbox' = outbox \cup {<<new, 1>>}
  /\ UNCHANGED now

\* supersede: both memories exist, only the old one has to be active.
Supersede(old, new) ==
  /\ old # new
  /\ Active(old) /\ Exists(new)
  /\ relations' = relations \cup {<<new, "supersedes", old>>}
  /\ versions' = [versions EXCEPT ![old] = Sealed(@, {activeVersion[old]}, now)]
  /\ status' = [status EXCEPT ![old] = "superseded"]
  /\ UNCHANGED <<subject, activeVersion, confidence, outbox, now>>

\* attach_sources that takes the caller's word for "verified".
AttachSources_Trusts(m, r) ==
  /\ Active(m)
  /\ LET n == activeVersion[m]
     IN  versions' = [versions EXCEPT
                        ![m] = WithEvidence(@, n, r.sources, r.verified)]
  /\ confidence' = [confidence EXCEPT ![m] = Greatest(@, r.confidence)]
  /\ UNCHANGED <<status, subject, activeVersion, relations, outbox, now>>

\* attach_sources: more evidence for the current version; "verified" is
\* checked against the sources the version has and those it is given.
AttachSources(m, r) ==
  /\ Active(m)
  /\ LET n == activeVersion[m]
     IN  /\ Supported(subject[m], r.verified,
                   versions[m][n].sources \cup r.sources)
         /\ versions' = [versions EXCEPT
                           ![m] = WithEvidence(@, n, r.sources, r.verified)]
  /\ confidence' = [confidence EXCEPT ![m] = Greatest(@, r.confidence)]
  /\ UNCHANGED <<status, subject, activeVersion, relations, outbox, now>>

\* add_source: one more source for any version of a memory that exists.
AddSource(m, n, source) ==
  /\ Exists(m) /\ n \in 1..Len(versions[m])
  /\ versions' = [versions EXCEPT ![m] = WithEvidence(@, n, {source}, FALSE)]
  /\ UNCHANGED <<status, subject, activeVersion, confidence, relations,
                 outbox, now>>

\* add_relation: both ends exist; a duplicate row is ignored.
AddRelation(a, type, b) ==
  /\ a # b
  /\ Exists(a) /\ Exists(b)
  /\ relations' = relations \cup {<<a, type, b>>}
  /\ UNCHANGED <<status, subject, activeVersion, confidence, versions,
                 outbox, now>>

-----------------------------------------------------------------------------
(* Lifecycle.                                                               *)

\* mark_expired as it once was: the status test guards the record only.
MarkExpired_AnyStatus(m, t) ==
  /\ Exists(m)
  /\ t > versions[m][activeVersion[m]].from
  /\ versions' = [versions EXCEPT ![m][activeVersion[m]].to = t]
  /\ status' = [status EXCEPT ![m] = IF @ = "active" THEN "expired" ELSE @]
  /\ UNCHANGED <<subject, activeVersion, confidence, relations, outbox, now>>

\* mark_expired: the window must end after it began.
MarkExpired(m, t) ==
  /\ Active(m)
  /\ t > versions[m][activeVersion[m]].from
  /\ versions' = [versions EXCEPT ![m] = Sealed(@, {activeVersion[m]}, t)]
  /\ status' = [status EXCEPT ![m] = "expired"]
  /\ UNCHANGED <<subject, activeVersion, confidence, relations, outbox, now>>

\* Rows of the outbox that belong to one of the memories in M.
QueuedFor(M) == {row \in outbox : row[1] \in M}

\* delete_memory that leaves the outbox alone.
DeleteMemory_KeepsQueue(m) ==
  /\ Exists(m) /\ status[m] # "deleted"
  /\ status' = [status EXCEPT ![m] = "deleted"]
  /\ versions' = [versions EXCEPT ![m] = Sealed(@, 1..Len(@), now)]
  /\ UNCHANGED <<subject, activeVersion, confidence, relations, outbox, now>>

\* delete_memory: any status, once; every open window ends and the outbox
\* rows go.  Its vectors: EmbeddingOutbox.
DeleteMemory(m) ==
  /\ Exists(m) /\ status[m] # "deleted"
  /\ status' = [status EXCEPT ![m] = "deleted"]
  /\ versions' = [versions EXCEPT ![m] = Sealed(@, 1..Len(@), now)]
  /\ outbox' = outbox \ QueuedFor({m})
  /\ UNCHANGED <<subject, activeVersion, confidence, relations, now>>

\* purge_deleted: a batch of deleted records goes, and the foreign keys take
\* their versions, relations and outbox rows along.
PurgeDeleted(batch) ==
  /\ batch # {} /\ \A m \in batch : status[m] = "deleted"
  /\ status' = [m \in Memories |-> IF m \in batch THEN "purged" ELSE status[m]]
  /\ versions' = [m \in Memories |->
                    IF m \in batch THEN << >> ELSE versions[m]]
  /\ activeVersion' = [m \in Memories |->
                         IF m \in batch THEN 0 ELSE activeVersion[m]]
  /\ relations' = {e \in relations : e[1] \notin batch /\ e[3] \notin batch}
  /\ outbox' = outbox \ QueuedFor(batch)
  /\ UNCHANGED <<subject, confidence, now>>

\* The predicate of list_expired_candidates and of archive_expired_batch.
Lapsed(m) ==
  /\ Active(m)
  /\ versions[m][activeVersion[m]].to # Open
  /\ versions[m][activeVersion[m]].to <= now

\* archive_expired_batch that trusts the list it was given.
ArchiveExpiredBatch_TrustsList(batch) ==
  /\ \E m \in batch : Lapsed(m)
  /\ status' = [m \in Memories |->
                  IF m \in batch /\ Exists(m) THEN "expired" ELSE status[m]]
  /\ UNCHANGED <<subject, activeVersion, confidence, versions, relations,
                 outbox, now>>

\* archive_expired_batch: those of the batch that still satisfy the predicate.
ArchiveExpiredBatch(batch) ==
  /\ \E m \in batch : Lapsed(m)
  /\ status' = [m \in Memories |->
                  IF m \in batch /\ Lapsed(m) THEN "expired" ELSE status[m]]
  /\ UNCHANGED <<subject, activeVersion, confidence, versions, relations,
                 outbox, now>>

\* A write path outside src/ that set valid_to directly, the case the
\* archiving job is there for (ExpiredCandidate, memory/repository.py).
LegacyClose(m, t) ==
  /\ LegacyWrites
  /\ Active(m)
  /\ t > versions[m][activeVersion[m]].from
  /\ versions' = [versions EXCEPT ![m] = Sealed(@, {activeVersion[m]}, t)]
  /\ UNCHANGED <<status, subject, activeVersion, confidence, relations,
                 outbox, now>>

Tick ==
  /\ now < MaxTime
  /\ now' = now + 1
  /\ UNCHANGED <<status, subject, activeVersion, confidence, versions,
                 relations, outbox>>

Write ==
  \/ \E m \in Memories, s \in Subjects, r \in Requests : AddRecord(m, s, r)
  \/ \E m \in Memories, r \in Requests : AddVersion(m, r) \/ AttachSources(m, r)
  \/ \E old, new \in Memories, r \in Requests : ReplaceActive(old, new, r)
  \/ \E old, new \in Memories : Supersede(old, new)
  \/ \E m \in Memories, n \in 1..MaxVersions, e \in Sources : AddSource(m, n, e)
  \/ \E a, b \in Memories, type \in RelationTypes : AddRelation(a, type, b)

Lifecycle ==
  \/ \E m \in Memories, t \in 1..(MaxTime + 1) :
       MarkExpired(m, t) \/ LegacyClose(m, t)
  \/ \E m \in Memories : DeleteMemory(m)
  \/ \E batch \in SUBSET Memories :
       PurgeDeleted(batch) \/ ArchiveExpiredBatch(batch)

Next == Write \/ Lifecycle \/ Tick

Spec == Init /\ [][Next]_vars

-----------------------------------------------------------------------------
(* Properties.                                                              *)

\* A subject has at most one active memory: add_record and replace_active,
\* whatever the order in which they commit, cannot both be current.
OneActive ==
  \A m, n \in Memories :
    Active(m) /\ Active(n) /\ subject[m] = subject[n] => m = n

\* A memory with this status, current version and history is coherent.
Coherent(st, current, history) ==
  /\ current = Len(history)
  /\ st \notin {"absent", "purged"} <=> current > 0
  /\ \A k \in 1..Len(history) :
       history[k].to = Open => k = current /\ st = "active"
  /\ st = "active" /\ ~LegacyWrites => history[current].to = Open

\* The current version is the last one; every earlier version has ended; the
\* current one has ended exactly when the memory is no longer active (unless
\* a legacy script ended it), so the current view and status cannot disagree.
CurrentIsLastOpen ==
  \A m \in Memories : Coherent(status[m], activeVersion[m], versions[m])

\* A moment lies in the window of a version, as the as_of filter reads it.
ValidAt(v, t) == v.from <= t /\ (v.to = Open \/ t < v.to)

\* The versions of m were dated in the order they were written.
InOrder(m) ==
  \A j, k \in 1..Len(versions[m]) :
    j < k => versions[m][j].from < versions[m][k].from

\* Versions dated in order never hold at the same moment: add_version ends a
\* window where the next begins, however late either is written.
WindowsDisjoint ==
  \A m \in Memories : InOrder(m) =>
    \A j, k \in 1..Len(versions[m]), t \in Times :
      ValidAt(versions[m][j], t) /\ ValidAt(versions[m][k], t) => j = k

\* A version claims to be verified only with evidence that can verify it.
Evidenced(s, history) ==
  \A k \in 1..Len(history) :
    Supported(s, history[k].verified, history[k].sources)
VerifiedHasEvidence == \A m \in Memories : Evidenced(subject[m], versions[m])

\* Exactly the versions of memories that were not deleted are in the outbox.
OutboxFollowsRecords ==
  outbox = {row \in Memories \X (1..MaxVersions) :
              /\ row[2] <= Len(versions[row[1]])
              /\ Exists(row[1]) /\ status[row[1]] # "deleted"}

\* "later" keeps what "earlier" says: contents, beginnings, ends once set,
\* "verified" once true, and sources.
Preserves(later, earlier) ==
  /\ Len(later) >= Len(earlier)
  /\ \A k \in 1..Len(earlier) :
       /\ later[k].content = earlier[k].content
       /\ later[k].from = earlier[k].from
       /\ earlier[k].to # Open => later[k].to = earlier[k].to
       /\ earlier[k].verified => later[k].verified
       /\ earlier[k].sources \subseteq later[k].sources

\* History is not rewritten by any step, unless the memory is purged.
HistoryOnlyGrows ==
  [][\A m \in Memories :
       status'[m] # "purged" => Preserves(versions'[m], versions[m])]_vars

\* A memory is superseded out of "active" only, in the very step that records
\* which other memory takes its place, and that one is there; the record of a
\* replacement goes in no step but the purge of the memory at one of its ends.
ReplacementsAreRecorded ==
  [][\A m \in Memories :
       /\ status'[m] = "superseded" /\ status[m] # "superseded" =>
            /\ Active(m)
            /\ \E n \in Memories \ {m} :
                 /\ <<n, "supersedes", m>> \in relations'
                 /\ status'[n] \notin {"absent", "purged"}
       /\ \A n \in Memories :
            <<n, "supersedes", m>> \in relations \ relations' =>
              \E x \in {m, n} :
                status[x] = "deleted" /\ status'[x] = "purged"]_vars

\* A memory expires out of "active" only, and with its window ended: what a
\* batch listed may since have been deleted, replaced or given a new version,
\* and archiving never overwrites that.
ExpiryIsConditional ==
  [][\A m \in Memories : status'[m] = "expired" /\ status[m] # "expired" =>
       Active(m) /\ versions'[m][activeVersion'[m]].to # Open]_vars

\* Confidence accumulates: a rewording never lowers it.
ConfidenceNeverDrops ==
  [][\A m \in Memories : Exists(m) => confidence'[m] >= confidence[m]]_vars

\* The store implements the abstract ledger of current facts.
CurrentFact(s) ==
  IF SubjectFree(s)
    THEN None
    ELSE CHOOSE m \in Memories : Active(m) /\ subject[m] = s
Retired == {m \in Memories : status[m] \notin {"absent", "active"}}

Facts == INSTANCE SubjectFacts
           WITH current <- [s \in Subjects |-> CurrentFact(s)],
                retired <- Retired
ImplementsSubjectFacts == Facts!Spec
=============================================================================
