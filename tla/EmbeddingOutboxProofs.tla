----------------------- MODULE EmbeddingOutboxProofs -----------------------
(***************************************************************************)
(* Proofs about EmbeddingOutbox for any memories, versions, profiles and   *)
(* workers, any batch size and any number of attempts.                     *)
(***************************************************************************)
EXTENDS EmbeddingOutbox, TLAPS

-----------------------------------------------------------------------------
(* The inductive invariant.                                                *)

\* Rows and claims exist for written versions only: a new version meets no
\* worker that holds its row already.
HeldIsWritten ==
  \A w \in Workers, r \in Rows : seen[w][r] > 0 => r[1] \in written

RowIsWritten ==
  \A r \in Rows : status[r] # "none" => r[1] \in written

\* A worker stores only what it holds.
WritingIsHeld ==
  \A w \in Workers : writing[w] # None => seen[w][writing[w]] > 0

\* The row a worker holds is still there, or its memory is deleted for good:
\* nothing makes it anew with a smaller count.
HeldHasRow ==
  \A w \in Workers, r \in Rows :
    Kept(r) /\ seen[w][r] > 0 => status[r] # "none" \/ Gone(r[1])

\* A claim carries a number the row has counted.
SeenWithin ==
  \A r \in Rows, w \in Workers :
    Kept(r) /\ status[r] # "none" => seen[w][r] <= attempts[r]

\* Nobody is left who could undo a row completed by its only claim.
SoloCompletion ==
  \A r \in Rows :
    Kept(r) /\ status[r] = "completed" /\ attempts[r] = 1
      => \A w \in Workers : seen[w][r] = 0

IInv ==
  /\ TypeOK
  /\ HeldIsWritten /\ RowIsWritten
  /\ WritingIsHeld
  /\ HeldHasRow
  /\ SeenWithin
  /\ ClaimsAreNumbered
  /\ SoloCompletion
  /\ CompletedHasVector
  /\ FailedWasTriedEnough

-----------------------------------------------------------------------------
\* Every version has a row name for the default profile.
LEMMA DefaultRows == \A v \in Versions : DefaultRow(v) \in Rows /\ DefaultRow(v)[1] = v
  BY OutboxAssumption DEF DefaultRow, Rows

\* The initial state satisfies the invariant.
LEMMA InitIInv == Init => IInv
<1> SUFFICES ASSUME Init PROVE IInv
  OBVIOUS
<1> USE DefaultRows DEF Kept, marks
<1>1. TypeOK
  BY OutboxAssumption DEF Init, TypeOK
<1>2. HeldIsWritten /\ RowIsWritten /\ WritingIsHeld
  BY DEF Init, HeldIsWritten, RowIsWritten, WritingIsHeld
<1>3. HeldHasRow /\ SeenWithin /\ ClaimsAreNumbered /\ SoloCompletion
  BY DEF Init, HeldHasRow, SeenWithin, ClaimsAreNumbered, SoloCompletion
<1>4. CompletedHasVector /\ FailedWasTriedEnough
  BY DEF Init, CompletedHasVector, FailedWasTriedEnough
<1>5. QED
  BY <1>1, <1>2, <1>3, <1>4 DEF IInv

-----------------------------------------------------------------------------
(* Each action preserves it.                                               *)

\* What is deleted stays so: no step but a deletion touches a deleted memory.
LEMMA GoneStays ==
  ASSUME TypeOK, [Next]_vars, NEW r \in Rows, Gone(r[1])
  PROVE  Gone(r[1])'
<1>1. MemoryOf[r[1]] \in Memories
  BY OutboxAssumption DEF Rows
<1>2. CASE Use
  BY <1>1, <1>2
     DEF TypeOK, Gone, Use, Write, Close, Archive, DeleteMemory, PurgeDeleted,
         SeedBackfill, CancelBackfill, store
<1>3. CASE UNCHANGED memory
  BY <1>3 DEF Gone
<1>4. CASE \E w \in Workers : Work(w)
  BY <1>3, <1>4
     DEF Work, Handle, ClaimPending, FindLive, FindDeleted, Fail, StoreVector,
         FailUnrecorded, Abandon, Crash, LeaveBatch, store
<1>5. CASE \E r1 \in Rows : Elapse(r1)
  BY <1>3, <1>5 DEF Elapse, store
<1>6. QED
  BY <1>2, <1>3, <1>4, <1>5 DEF Next, vars

\* A new version finds its row free and held by nobody.
LEMMA WriteStep == \A v \in Versions : IInv /\ Write(v) => IInv'
<1> SUFFICES ASSUME NEW v \in Versions, IInv, Write(v) PROVE IInv'
  OBVIOUS
<1> USE DefaultRows DEF Kept, marks
<1> DEFINE d == DefaultRow(v)
<1>0. TypeOK
  BY DEF IInv
<1>1. /\ status[d] = "none"
      /\ \A w \in Workers : seen[w][d] = 0
  BY <1>0 DEF IInv, HeldIsWritten, RowIsWritten, TypeOK, Write
<1>2. /\ status' = [r \in Rows |-> IF r = d THEN "pending" ELSE status[r]]
      /\ attempts' = [r \in Rows |-> IF r = d THEN 0 ELSE attempts[r]]
      /\ due' = [r \in Rows |-> IF r = d THEN "now" ELSE due[r]]
  BY <1>1 DEF Write, Enqueue
<1>3. TypeOK'
  BY <1>0, <1>2, OutboxAssumption DEF TypeOK, Write
<1>4. HeldIsWritten' /\ RowIsWritten'
  BY <1>0, <1>2 DEF IInv, HeldIsWritten, RowIsWritten, TypeOK, Write
<1>5. WritingIsHeld'
  BY DEF IInv, WritingIsHeld, Write
<1>6. SeenWithin' /\ ClaimsAreNumbered' /\ SoloCompletion'
  BY <1>0, <1>1, <1>2
     DEF IInv, SeenWithin, ClaimsAreNumbered, SoloCompletion, TypeOK, Write
<1>9. HeldHasRow'
  BY <1>0, <1>1, <1>2, OutboxAssumption
     DEF IInv, HeldHasRow, Gone, Rows, TypeOK, Write
<1>7. CompletedHasVector' /\ FailedWasTriedEnough'
  BY <1>0, <1>2
     DEF IInv, CompletedHasVector, FailedWasTriedEnough, TypeOK, Write
<1>10. QED
  BY <1>3, <1>4, <1>5, <1>6, <1>7, <1>9 DEF IInv

\* Removing rows takes away work and no one's claim; it may take vectors of
\* rows that are gone too.
LEMMA DequeueStep ==
  ASSUME NEW R \in SUBSET Rows, IInv, TypeOK', Dequeue(R),
         vectors \ vectors' \subseteq R,
         \A w \in Workers, r \in Rows : seen'[w][r] \in {0, seen[w][r]},
         \A w \in Workers : writing'[w] # None =>
            /\ writing'[w] = writing[w]
            /\ seen'[w][writing[w]] = seen[w][writing[w]],
         UNCHANGED written,
         withdrawn \subseteq withdrawn',
         \A r \in Rows : Gone(r[1]) => Gone(r[1])',
         \A r \in R : Kept(r)' => Gone(r[1])'
  PROVE  IInv'
<1> USE DefaultRows DEF Kept, marks
<1>0. TypeOK
  BY DEF IInv
<1>1. \A r \in Rows : \/ status'[r] = "none"
                      \/ r \notin R /\ status'[r] = status[r] /\ attempts'[r] = attempts[r]
  BY <1>0 DEF Dequeue, TypeOK
<1>2. HeldIsWritten' /\ RowIsWritten'
  BY <1>0, <1>1 DEF IInv, HeldIsWritten, RowIsWritten
<1>3. WritingIsHeld'
  BY <1>0 DEF IInv, WritingIsHeld
<1>4. SeenWithin'
  BY <1>0, <1>1 DEF IInv, SeenWithin, TypeOK
<1>5. ClaimsAreNumbered'
  <2>1. \A w \in Workers, r \in Rows : seen[w][r] \in Nat
    BY <1>0 DEF TypeOK
  <2>2. \A r \in Rows : Kept(r)' => Kept(r)
    OBVIOUS
  <2> SUFFICES ASSUME NEW r \in Rows, NEW w1 \in Workers, NEW w2 \in Workers,
                      Kept(r)', w1 # w2, seen'[w1][r] > 0
               PROVE  seen'[w1][r] # seen'[w2][r]
    BY DEF ClaimsAreNumbered
  <2>3. seen'[w1][r] = seen[w1][r] /\ seen[w1][r] # seen[w2][r]
    BY <2>1, <2>2 DEF IInv, ClaimsAreNumbered
  <2>4. QED
    BY <2>1, <2>3
<1>6. SoloCompletion'
  BY <1>0, <1>1 DEF IInv, SoloCompletion
<1>7. CompletedHasVector' /\ FailedWasTriedEnough'
  BY <1>0, <1>1 DEF IInv, CompletedHasVector, FailedWasTriedEnough
<1>8. HeldHasRow'
  <2>1. \A r \in Rows : r \notin R => status'[r] = status[r]
    BY <1>0 DEF Dequeue, TypeOK
  <2>2. QED
    BY <1>0, <2>1 DEF IInv, HeldHasRow
<1>9. QED
  BY <1>2, <1>3, <1>4, <1>5, <1>6, <1>7, <1>8 DEF IInv

\* Nothing the users of the store or a migration do breaks the invariant.
LEMMA UseStep == IInv /\ Use => IInv'
<1> SUFFICES ASSUME IInv, Use PROVE IInv'
  OBVIOUS
<1> USE DefaultRows DEF Kept, marks
<1>0. TypeOK
  BY DEF IInv
<1>1. CASE \E v \in Versions : Write(v)
  BY <1>1, WriteStep
<1>2. ASSUME NEW m \in Memories, Close(m) \/ Archive(m) PROVE IInv'
  <2>1. TypeOK'
    BY <1>0, <1>2 DEF TypeOK, Close, Archive, queue, RowsOf
  <2>2. UNCHANGED <<written, vectors, status, attempts, seen, writing, withdrawn>>
    BY <1>2 DEF Close, Archive, queue
  <2>3. \A r \in Rows : Gone(r[1]) => Gone(r[1])'
    BY <1>0, <1>2, GoneStays DEF Next, Use
  <2>4. QED
    BY <2>1, <2>2, <2>3
       DEF IInv, HeldIsWritten, RowIsWritten, WritingIsHeld, HeldHasRow,
           SeenWithin, ClaimsAreNumbered, SoloCompletion, CompletedHasVector,
           FailedWasTriedEnough
<1>3. ASSUME NEW m \in Memories, DeleteMemory(m) \/ PurgeDeleted(m) PROVE IInv'
  <2>1. /\ Dequeue(RowsOf(m)) /\ RowsOf(m) \in SUBSET Rows
        /\ vectors \ vectors' \subseteq RowsOf(m)
        /\ vectors' \subseteq vectors
        /\ \/ memory' = [memory EXCEPT ![m] = "deleted"]
           \/ memory' = [memory EXCEPT ![m] = "purged"]
        /\ UNCHANGED <<current, written, seen, writing, faults, orphaned,
                       withdrawn>>
    BY <1>3 DEF DeleteMemory, PurgeDeleted, RowsOf
  <2>2. TypeOK'
    BY <1>0, <2>1 DEF TypeOK, Dequeue
  <2>3. \A r \in RowsOf(m) : Gone(r[1])'
    BY <1>0, <2>1 DEF RowsOf, Gone, TypeOK
  <2>4. \A r \in Rows : Gone(r[1]) => Gone(r[1])'
    BY <1>0, <1>3, GoneStays DEF Next, Use
  <2>5. QED
    BY <2>1, <2>2, <2>3, <2>4, DequeueStep
<1>4. ASSUME NEW p \in Profiles, SeedBackfill(p) PROVE IInv'
  <2> DEFINE fresh == {r \in Rows : r[2] = p /\ Eligible(r[1]) /\ status[r] = "none"}
  <2>1. /\ status' = [r \in Rows |-> IF r \in fresh THEN "pending" ELSE status[r]]
        /\ attempts' = [r \in Rows |-> IF r \in fresh THEN 0 ELSE attempts[r]]
        /\ due' = [r \in Rows |-> IF r \in fresh THEN "now" ELSE due[r]]
        /\ UNCHANGED <<memory, current, written, vectors, seen, writing, marks>>
    BY <1>4 DEF SeedBackfill, Enqueue, store
  <2>2. \A r \in fresh : r[1] \in written
    BY DEF Eligible
  <2>3. \A r \in fresh, w \in Workers : Kept(r) => seen[w][r] = 0
    BY <1>0 DEF IInv, HeldHasRow, Eligible, Gone, TypeOK
  <2> HIDE DEF fresh
  <2>4. TypeOK'
    BY <1>0, <2>1 DEF TypeOK
  <2>5. HeldIsWritten' /\ RowIsWritten' /\ WritingIsHeld'
    BY <1>0, <2>1, <2>2 DEF IInv, HeldIsWritten, RowIsWritten, WritingIsHeld
  <2>9. HeldHasRow'
    BY <1>0, <2>1 DEF IInv, HeldHasRow, Gone
  <2>6. SeenWithin' /\ ClaimsAreNumbered' /\ SoloCompletion' /\ FailedWasTriedEnough'
    BY <1>0, <2>1, <2>3
       DEF IInv, SeenWithin, ClaimsAreNumbered, SoloCompletion, FailedWasTriedEnough
  <2>7. CompletedHasVector'
    BY <1>0, <2>1 DEF IInv, CompletedHasVector
  <2>8. QED
    BY <2>4, <2>5, <2>6, <2>7, <2>9 DEF IInv
<1>5. ASSUME NEW p \in Profiles, CancelBackfill(p) PROVE IInv'
  <2> DEFINE open == {r \in Rows : r[2] = p /\ status[r] \in Outstanding}
  <2>1. /\ Dequeue(open) /\ open \in SUBSET Rows
        /\ p # Default
        /\ withdrawn' = withdrawn \cup {p}
        /\ \A r \in open : r[2] = p
        /\ UNCHANGED <<memory, current, written, vectors, seen, writing, faults,
                       orphaned>>
    BY <1>5 DEF CancelBackfill, store
  <2> HIDE DEF open
  <2>2. TypeOK'
    BY <1>0, <2>1 DEF TypeOK, Dequeue
  <2>3. /\ \A r \in Rows : Gone(r[1]) => Gone(r[1])'
        /\ \A r \in open : Kept(r)' => Gone(r[1])'
    BY <2>1 DEF Gone
  <2>4. QED
    BY <2>1, <2>2, <2>3, DequeueStep
<1>6. QED
  BY <1>1, <1>2, <1>3, <1>4, <1>5 DEF Use

-----------------------------------------------------------------------------
\* A claim numbers its rows above all earlier claims.
LEMMA ClaimStep ==
  \A w \in Workers, p \in Profiles : IInv /\ ClaimPending(w, p) => IInv'
<1> SUFFICES ASSUME NEW w \in Workers, NEW p \in Profiles, IInv,
                    ClaimPending(w, p)
             PROVE  IInv'
  OBVIOUS
<1> USE DefaultRows DEF Kept, marks
<1>0. TypeOK
  BY DEF IInv
<1>1. PICK S \in Batches(p) :
        /\ Idle(w)
        /\ status' = [r \in Rows |-> IF r \in S THEN "processing" ELSE status[r]]
        /\ attempts' = [r \in Rows |->
                          IF r \in S THEN attempts[r] + 1 ELSE attempts[r]]
        /\ due' = [r \in Rows |-> IF r \in S THEN "later" ELSE due[r]]
        /\ seen' = [seen EXCEPT ![w] =
                      [r \in Rows |-> IF r \in S THEN attempts[r] + 1 ELSE 0]]
        /\ UNCHANGED <<memory, current, written, vectors, writing, marks>>
  BY DEF ClaimPending, store
<1>2. /\ S \subseteq Rows
      /\ \A r \in S : status[r] \in Outstanding
  BY DEF Batches, Claimable
<1>3. \A r \in Rows : seen[w][r] = 0
  BY <1>1 DEF Idle
<1>4. \A u \in Workers, r \in Rows :
        seen'[u][r] = IF u = w /\ r \in S THEN attempts[r] + 1 ELSE seen[u][r]
  BY <1>0, <1>1, <1>3 DEF TypeOK
<1>5. TypeOK'
  BY <1>0, <1>1, <1>2 DEF TypeOK
<1>6. HeldIsWritten' /\ RowIsWritten'
  BY <1>0, <1>1, <1>2, <1>4
     DEF IInv, HeldIsWritten, RowIsWritten, Outstanding
<1>7. WritingIsHeld'
  <2>1. writing[w] = None
    BY <1>0, <1>3 DEF IInv, WritingIsHeld, TypeOK
  <2>2. QED
    BY <1>0, <1>1, <1>4, <2>1 DEF IInv, WritingIsHeld, TypeOK
<1>8. SeenWithin' /\ HeldHasRow'
  <2>1. \A r \in S : status[r] # "none"
    BY <1>2 DEF Outstanding
  <2>2. SeenWithin'
    BY <1>0, <1>1, <1>4, <2>1 DEF IInv, SeenWithin, TypeOK
  <2>3. HeldHasRow'
    BY <1>0, <1>1, <1>4, <2>1 DEF IInv, HeldHasRow, Gone, TypeOK
  <2>4. QED
    BY <2>2, <2>3
<1>9. ClaimsAreNumbered'
  \* The new number is above every number given for this row before.
  <2>1. \A r \in S, u \in Workers : Kept(r) => seen[u][r] <= attempts[r]
    BY <1>2 DEF IInv, SeenWithin, Outstanding
  <2>2. \A r \in Rows, u \in Workers : seen[u][r] \in Nat /\ attempts[r] \in Nat
    BY <1>0 DEF TypeOK
  <2>3. QED
    BY <1>1, <1>2, <1>4, <2>1, <2>2 DEF IInv, ClaimsAreNumbered
<1>10. SoloCompletion'
  BY <1>0, <1>1, <1>2, <1>4 DEF IInv, SoloCompletion, Outstanding, TypeOK
<1>11. CompletedHasVector' /\ FailedWasTriedEnough'
  BY <1>0, <1>1 DEF IInv, CompletedHasVector, FailedWasTriedEnough
<1>12. QED
  BY <1>5, <1>6, <1>7, <1>8, <1>9, <1>10, <1>11 DEF IInv

\* What a worker does with one row it holds changes that row only, and it
\* holds it no more.
LEMMA StoreStep == \A w \in Workers : IInv /\ StoreVector(w) => IInv'
<1> SUFFICES ASSUME NEW w \in Workers, IInv, StoreVector(w) PROVE IInv'
  OBVIOUS
<1> USE DefaultRows DEF Kept, marks
<1> DEFINE r == writing[w]
<1>0. TypeOK
  BY DEF IInv
<1>1. /\ r \in Rows /\ r # None
      /\ vectors' = vectors \cup {r}
      /\ status' = [status EXCEPT ![r] = IF status[r] = "none" THEN "none"
                                                             ELSE "completed"]
      /\ due' = [due EXCEPT ![r] = "now"]
      /\ seen' = [seen EXCEPT ![w][r] = 0]
      /\ writing' = [writing EXCEPT ![w] = None]
      /\ UNCHANGED <<memory, current, written, attempts, marks>>
  BY <1>0 DEF StoreVector, Drop, TypeOK
<1>2. seen[w][r] > 0
  BY <1>1 DEF IInv, WritingIsHeld
<1> HIDE DEF r
<1>3. \A u \in Workers, q \in Rows :
        seen'[u][q] = IF u = w /\ q = r THEN 0 ELSE seen[u][q]
  BY <1>0, <1>1 DEF TypeOK
<1>4. TypeOK'
  BY <1>0, <1>1 DEF TypeOK
<1>5. HeldIsWritten' /\ RowIsWritten'
  BY <1>0, <1>1, <1>3 DEF IInv, HeldIsWritten, RowIsWritten, TypeOK
<1>6. WritingIsHeld'
  BY <1>0, <1>1, <1>3 DEF IInv, WritingIsHeld, TypeOK
<1>7. SeenWithin' /\ ClaimsAreNumbered' /\ HeldHasRow'
  BY <1>0, <1>1, <1>3
     DEF IInv, SeenWithin, ClaimsAreNumbered, HeldHasRow, Gone, TypeOK
<1>8. SoloCompletion'
  <2> SUFFICES ASSUME NEW q \in Rows, Kept(q),
                      status'[q] = "completed", attempts'[q] = 1,
                      NEW u \in Workers
               PROVE  seen'[u][q] = 0
    BY <1>1 DEF SoloCompletion
  <2>1. CASE q # r
    BY <1>0, <1>1, <1>3, <2>1 DEF IInv, SoloCompletion, TypeOK
  <2>2. CASE q = r
    <3>1. /\ status[r] # "none" /\ attempts[r] = 1
          /\ seen[w][r] <= attempts[r] /\ seen[u][r] <= attempts[r]
      BY <1>0, <1>1, <2>2 DEF IInv, SeenWithin, TypeOK
    <3>2. u # w => seen[u][r] # seen[w][r]
      BY <1>2, <2>2 DEF IInv, ClaimsAreNumbered
    <3>3. seen[u][r] \in Nat /\ seen[w][r] \in Nat
      BY <1>0, <1>1 DEF TypeOK
    <3>4. QED
      BY <1>1, <1>2, <1>3, <2>2, <3>1, <3>2, <3>3
  <2>3. QED
    BY <2>1, <2>2
<1>9. CompletedHasVector' /\ FailedWasTriedEnough'
  BY <1>0, <1>1 DEF IInv, CompletedHasVector, FailedWasTriedEnough, TypeOK
<1>10. QED
  BY <1>4, <1>5, <1>6, <1>7, <1>8, <1>9 DEF IInv

\* A failure recorded late cannot give up a row before its attempts are spent.
LEMMA FailStep ==
  \A w \in Workers, r \in Rows : IInv /\ Fail(w, r) => IInv'
<1> SUFFICES ASSUME NEW w \in Workers, NEW r \in Rows, IInv, Fail(w, r)
             PROVE  IInv'
  OBVIOUS
<1> USE DefaultRows DEF Kept, marks
<1>0. TypeOK
  BY DEF IInv
<1>1. /\ seen[w][r] > 0
      /\ writing[w] \in {None, r}
      /\ seen' = [seen EXCEPT ![w][r] = 0]
      /\ writing' = [writing EXCEPT ![w] = None]
      /\ UNCHANGED <<memory, current, written, vectors, attempts, marks>>
  BY DEF Fail, MarkFailed, Drop, store
<1>2. PICK s \in {"none", "pending", "failed"}, t \in {"now", "later"} :
        /\ status' = [status EXCEPT ![r] = s]
        /\ due' = [due EXCEPT ![r] = t]
        /\ s = "none" <=> status[r] = "none"
        /\ s = "failed" => seen[w][r] >= MaxAttempts \/ r \in Refused
  BY <1>0 DEF Fail, MarkFailed, TypeOK
<1>3. \A u \in Workers, q \in Rows :
        seen'[u][q] = IF u = w /\ q = r THEN 0 ELSE seen[u][q]
  BY <1>0, <1>1 DEF TypeOK
<1>4. TypeOK'
  BY <1>0, <1>1, <1>2 DEF TypeOK
<1>5. HeldIsWritten' /\ RowIsWritten' /\ WritingIsHeld'
  BY <1>0, <1>1, <1>2, <1>3
     DEF IInv, HeldIsWritten, RowIsWritten, WritingIsHeld, TypeOK
<1>6. SeenWithin' /\ ClaimsAreNumbered' /\ HeldHasRow'
  BY <1>0, <1>1, <1>2, <1>3
     DEF IInv, SeenWithin, ClaimsAreNumbered, HeldHasRow, Gone, TypeOK
<1>7. SoloCompletion'
  BY <1>0, <1>1, <1>2, <1>3 DEF IInv, SoloCompletion, TypeOK
<1>8. CompletedHasVector'
  BY <1>0, <1>1, <1>2 DEF IInv, CompletedHasVector, TypeOK
<1>9. FailedWasTriedEnough'
  <2> SUFFICES ASSUME NEW q \in Rows, Kept(q), status'[q] = "failed"
               PROVE  attempts[q] >= MaxAttempts \/ q \in Refused
    BY <1>1 DEF FailedWasTriedEnough
  <2>1. CASE q # r
    BY <1>0, <1>2, <2>1 DEF IInv, FailedWasTriedEnough, TypeOK
  <2>2. CASE q = r
    <3>1. s = "failed" /\ status[r] # "none"
      BY <1>0, <1>2, <2>2 DEF TypeOK
    <3>2. seen[w][r] <= attempts[r]
      BY <2>2, <3>1 DEF IInv, SeenWithin
    <3>3. seen[w][r] \in Nat /\ attempts[r] \in Nat
      BY <1>0 DEF TypeOK
    <3>4. QED
      BY <1>2, <2>2, <3>1, <3>2, <3>3, OutboxAssumption
  <2>3. QED
    BY <2>1, <2>2
<1>10. QED
  BY <1>4, <1>5, <1>6, <1>7, <1>8, <1>9 DEF IInv

\* Nothing a worker does breaks the invariant.
LEMMA WorkStep == \A w \in Workers : IInv /\ Work(w) => IInv'
<1> SUFFICES ASSUME NEW w \in Workers, IInv, Work(w) PROVE IInv'
  OBVIOUS
<1> USE DefaultRows DEF Kept, marks
<1>0. TypeOK
  BY DEF IInv
<1>1. CASE \E p \in Profiles : ClaimPending(w, p)
  BY <1>1, ClaimStep
<1>2. ASSUME NEW r \in Rows, FindLive(w, r) PROVE IInv'
  <2>1. /\ writing' = [writing EXCEPT ![w] = r]
        /\ seen[w][r] > 0
        /\ UNCHANGED <<memory, current, written, vectors, status, attempts, due,
                       seen, marks>>
    BY <1>2 DEF FindLive, Holds, store, queue
  <2>2. TypeOK' /\ WritingIsHeld'
    BY <1>0, <2>1 DEF IInv, TypeOK, WritingIsHeld
  <2>3. QED
    BY <2>1, <2>2
       DEF IInv, HeldIsWritten, RowIsWritten, HeldHasRow, Gone, SeenWithin,
           ClaimsAreNumbered, SoloCompletion, CompletedHasVector,
           FailedWasTriedEnough
<1>3. ASSUME NEW r \in Rows, FindDeleted(w, r) PROVE IInv'
  <2> DEFINE R == {q \in Rows : q[1] = r[1] /\ (r[2] = Default \/ q = r)}
  <2>1. /\ Dequeue(R) /\ R \in SUBSET Rows /\ r \in R
        /\ vectors' = vectors \ {r}
        /\ writing[w] = None
        /\ seen' = [seen EXCEPT ![w][r] = 0]
        /\ UNCHANGED <<memory, current, written, writing, marks>>
        /\ Gone(r[1]) /\ \A q \in R : q[1] = r[1]
    BY <1>3 DEF FindDeleted, Holds, Drop, Gone
  <2> HIDE DEF R
  <2>2. TypeOK'
    BY <1>0, <2>1 DEF TypeOK, Dequeue
  <2>3. \A u \in Workers, q \in Rows :
          seen'[u][q] = IF u = w /\ q = r THEN 0 ELSE seen[u][q]
    BY <1>0, <2>1 DEF TypeOK
  <2>4. \A u \in Workers : writing'[u] # None =>
          /\ writing'[u] = writing[u]
          /\ seen'[u][writing[u]] = seen[u][writing[u]]
    BY <1>0, <2>1, <2>3 DEF TypeOK
  <2>5. \A q \in Rows : Gone(q[1])' <=> Gone(q[1])
    BY <2>1 DEF Gone
  <2>6. \A q \in R : Gone(q[1])'
    BY <2>1, <2>5
  <2>7. QED
    BY <2>1, <2>2, <2>3, <2>4, <2>5, <2>6, DequeueStep
<1>4. CASE \E r \in Rows : Fail(w, r)
  BY <1>4, FailStep
<1>5. CASE StoreVector(w)
  BY <1>5, StoreStep
<1>6. ASSUME \/ Abandon(w) \/ Crash(w)
             \/ \E r \in Rows : FailUnrecorded(w, r)
      PROVE  IInv'
  <2>1. /\ writing' \in {writing, [writing EXCEPT ![w] = None]}
        /\ writing[w] # None => writing' = [writing EXCEPT ![w] = None]
        /\ faults' = faults + 1
        /\ orphaned' \in {orphaned, TRUE}
        /\ UNCHANGED <<memory, current, written, vectors, status, attempts, due,
                       withdrawn>>
    BY <1>6 DEF Abandon, Crash, LeaveBatch, FailUnrecorded, store, queue
  <2>2. PICK g \in [Rows -> Nat] :
          /\ seen' = [seen EXCEPT ![w] = g]
          /\ \A q \in Rows : g[q] \in {0, seen[w][q]}
    <3>1. CASE Abandon(w) \/ Crash(w)
      <4>1. seen' = [seen EXCEPT ![w] = [q \in Rows |-> 0]]
        BY <3>1 DEF Abandon, Crash, LeaveBatch
      <4>2. /\ [q \in Rows |-> 0] \in [Rows -> Nat]
            /\ \A q \in Rows : [x \in Rows |-> 0][q] \in {0, seen[w][q]}
        OBVIOUS
      <4>3. QED
        BY <4>1, <4>2
    <3>2. ASSUME NEW r \in Rows, FailUnrecorded(w, r)
          PROVE  \E g \in [Rows -> Nat] :
                   /\ seen' = [seen EXCEPT ![w] = g]
                   /\ \A q \in Rows : g[q] \in {0, seen[w][q]}
      <4>1. seen' = [seen EXCEPT ![w] = [seen[w] EXCEPT ![r] = 0]]
        BY <3>2 DEF FailUnrecorded, Drop
      <4>2. /\ [seen[w] EXCEPT ![r] = 0] \in [Rows -> Nat]
            /\ \A q \in Rows : [seen[w] EXCEPT ![r] = 0][q] \in {0, seen[w][q]}
        BY <1>0 DEF TypeOK
      <4>3. QED
        BY <4>1, <4>2
    <3>3. QED
      BY <1>6, <3>1, <3>2
  <2>3. TypeOK'
    <3>1. writing' \in [Workers -> Rows \cup {None}]
      BY <1>0, <2>1 DEF TypeOK
    <3>2. seen' \in [Workers -> [Rows -> Nat]]
      BY <1>0, <2>2 DEF TypeOK
    <3>3. orphaned' \in BOOLEAN
      BY <1>0, <2>1 DEF TypeOK
    <3>4. QED
      BY <1>0, <2>1, <3>1, <3>2, <3>3 DEF TypeOK
  <2>4. \A u \in Workers, q \in Rows :
          /\ seen'[u][q] \in {0, seen[u][q]}
          /\ u # w => seen'[u][q] = seen[u][q]
    BY <1>0, <2>2 DEF TypeOK
  <2>5. \A u \in Workers : writing'[u] = IF u = w THEN None ELSE writing[u]
    BY <1>0, <2>1 DEF TypeOK
  <2>6. HeldIsWritten' /\ RowIsWritten' /\ WritingIsHeld'
    BY <1>0, <2>1, <2>4, <2>5
       DEF IInv, HeldIsWritten, RowIsWritten, WritingIsHeld, TypeOK
  <2>7. SeenWithin' /\ ClaimsAreNumbered' /\ SoloCompletion'
    <3>1. \A u \in Workers, q \in Rows : seen[u][q] \in Nat
      BY <1>0 DEF TypeOK
    <3>2. \A q \in Rows : attempts[q] \in Nat
      BY <1>0 DEF TypeOK
    <3>3. SeenWithin'
      BY <2>1, <2>4, <3>1, <3>2 DEF IInv, SeenWithin
    <3>4. ClaimsAreNumbered'
      <4> SUFFICES ASSUME NEW r \in Rows, NEW w1 \in Workers, NEW w2 \in Workers,
                          Kept(r), w1 # w2, seen'[w1][r] > 0
                   PROVE  seen'[w1][r] # seen'[w2][r]
        BY <2>1 DEF ClaimsAreNumbered
      <4>1. seen'[w1][r] = seen[w1][r] /\ seen[w1][r] # seen[w2][r]
        BY <2>4, <3>1 DEF IInv, ClaimsAreNumbered
      <4>2. QED
        BY <2>4, <3>1, <4>1
    <3>5. SoloCompletion'
      BY <2>1, <2>4 DEF IInv, SoloCompletion
    <3>6. QED
      BY <3>3, <3>4, <3>5
  <2>10. HeldHasRow'
    <3>1. \A u \in Workers, q \in Rows : seen[u][q] \in Nat
      BY <1>0 DEF TypeOK
    <3>2. QED
      BY <2>1, <2>4, <3>1 DEF IInv, HeldHasRow, Gone
  <2>8. CompletedHasVector' /\ FailedWasTriedEnough'
    BY <2>1 DEF IInv, CompletedHasVector, FailedWasTriedEnough
  <2>9. QED
    BY <2>3, <2>6, <2>7, <2>8, <2>10 DEF IInv
<1>7. QED
  BY <1>1, <1>2, <1>3, <1>4, <1>5, <1>6 DEF Work, Handle

\* Every step preserves the invariant.
LEMMA StepIInv == IInv /\ [Next]_vars => IInv'
<1> SUFFICES ASSUME IInv, [Next]_vars PROVE IInv'
  OBVIOUS
<1>1. CASE Use
  BY <1>1, UseStep
<1>2. CASE \E w \in Workers : Work(w)
  BY <1>2, WorkStep
<1>3. ASSUME NEW r \in Rows, Elapse(r) PROVE IInv'
  <2>1. TypeOK'
    BY <1>3 DEF IInv, TypeOK, Elapse, store, marks
  <2>2. QED
    BY <1>3, <2>1
       DEF Elapse, store, marks, IInv, HeldIsWritten, RowIsWritten,
           WritingIsHeld, HeldHasRow, Gone, Kept, SeenWithin,
           ClaimsAreNumbered, SoloCompletion, CompletedHasVector,
           FailedWasTriedEnough
<1>4. CASE UNCHANGED vars
  BY <1>4
     DEF vars, IInv, TypeOK, HeldIsWritten, RowIsWritten, WritingIsHeld,
         HeldHasRow, Gone, Kept, SeenWithin, ClaimsAreNumbered,
         SoloCompletion, CompletedHasVector, FailedWasTriedEnough
<1>5. QED
  BY <1>1, <1>2, <1>3, <1>4 DEF Next

-----------------------------------------------------------------------------
(* The results.                                                            *)

\* The strengthened invariant holds throughout.
THEOREM OutboxInvariant == Spec => []IInv
  BY InitIInv, StepIInv, PTL DEF Spec

\* Type correctness.
THEOREM OutboxTypeCorrect == Spec => []TypeOK
<1>1. IInv => TypeOK
  BY DEF IInv
<1>2. QED
  BY <1>1, OutboxInvariant, PTL

\* Behind every completed row of the queue there is a stored vector.
THEOREM CoverageIsReal == Spec => []CompletedHasVector
<1>1. IInv => CompletedHasVector
  BY DEF IInv
<1>2. QED
  BY <1>1, OutboxInvariant, PTL

\* Two workers never act on the same claim of a row whose profile was never
\* withdrawn, however leases lapse.
THEOREM ClaimsAreExclusive == Spec => []ClaimsAreNumbered
<1>1. IInv => ClaimsAreNumbered
  BY DEF IInv
<1>2. QED
  BY <1>1, OutboxInvariant, PTL

\* A row given up had its attempts or was refused for good, unless its profile
\* was withdrawn.
THEOREM GivenUpWasTried == Spec => []FailedWasTriedEnough
<1>1. IInv => FailedWasTriedEnough
  BY DEF IInv
<1>2. QED
  BY <1>1, OutboxInvariant, PTL

\* A row completed by the only claim ever made on it is not touched again.
LEMMA CompletionStep ==
  ASSUME IInv, [Next]_vars, NEW d \in Rows, Kept(d),
         status[d] = "completed", attempts[d] = 1
  PROVE  status'[d] \in {"completed", "none"}
<1>0. TypeOK
  BY DEF IInv
<1>1. \A w \in Workers : seen[w][d] = 0
  BY DEF IInv, SoloCompletion
<1>2. CASE Use
  BY <1>0, <1>2
     DEF TypeOK, Use, Write, Close, Archive, DeleteMemory, PurgeDeleted,
         SeedBackfill, CancelBackfill, Enqueue, Dequeue, store, queue
<1>3. ASSUME NEW w \in Workers, Work(w)
      PROVE  status'[d] \in {"completed", "none"}
  <2>1. CASE \E p \in Profiles : ClaimPending(w, p)
    BY <2>1, <1>0 DEF ClaimPending, Batches, Claimable, Outstanding, TypeOK
  <2>2. CASE \E r \in Rows : FindLive(w, r) \/ FindDeleted(w, r)
    BY <2>2, <1>0 DEF FindLive, FindDeleted, Dequeue, queue, TypeOK
  <2>3. ASSUME NEW r \in Rows, Fail(w, r)
        PROVE  status'[d] \in {"completed", "none"}
    <3>1. r # d
      BY <1>1, <2>3 DEF Fail
    <3>2. PICK s \in {"none", "pending", "failed"} :
            status' = [status EXCEPT ![r] = s]
      BY <1>0, <2>3 DEF Fail, MarkFailed, TypeOK
    <3>3. QED
      BY <1>0, <3>1, <3>2 DEF TypeOK
  <2>4. CASE StoreVector(w)
    BY <2>4, <1>0 DEF StoreVector, TypeOK
  <2>5. CASE Abandon(w) \/ Crash(w) \/ \E r \in Rows : FailUnrecorded(w, r)
    BY <2>5 DEF Abandon, Crash, LeaveBatch, FailUnrecorded, queue
  <2>6. QED
    BY <1>3, <2>1, <2>2, <2>3, <2>4, <2>5 DEF Work, Handle
<1>4. CASE \E r \in Rows : Elapse(r)
  BY <1>4 DEF Elapse
<1>5. CASE UNCHANGED vars
  BY <1>5 DEF vars
<1>6. QED
  BY <1>2, <1>3, <1>4, <1>5 DEF Next

\* First completions are final, for the code of any number of workers, of
\* every row whose profile was never withdrawn.
THEOREM CompletionIsFinal == Spec => FirstCompletionIsFinal
<1>1. IInv /\ [Next]_vars
        => [\A r \in Rows :
              Kept(r) /\ status[r] = "completed" /\ attempts[r] = 1
                => status'[r] \in {"completed", "none"}]_vars
  BY CompletionStep
<1>2. QED
  BY <1>1, OutboxInvariant, PTL DEF Spec, FirstCompletionIsFinal
=============================================================================
