-------------------------- MODULE JobRotationProofs --------------------------
(***************************************************************************)
(* Proofs about JobRotation for any tenants, jobs, workers and bounds.     *)
(*                                                                         *)
(* The rotation takes no step the scheduler does not allow, so what is     *)
(* proved of the scheduler holds of it.  NobodyIsPassedOver speaks of a    *)
(* run that ends; what makes it inductive is what a sweep under way keeps  *)
(* (Sound): whoever it found behind its cursor is handled or still to be   *)
(* handled, and the handled come before the others.  That the list is not  *)
(* cut is a fact about Head (ShortListIsWhole).                            *)
(***************************************************************************)
EXTENDS JobRotation, MaintenanceSchedulerProofs, FiniteSetTheorems

Sound(s, c) ==
  Cardinality(s.listed) <= MaxTenants =>
    /\ Behind(s.listed, c) \subseteq s.handled \cup s.todo
    /\ \A h \in s.handled, t \in s.todo : h < t

SweepsAreSound ==
  \A w \in Workers : Sweeping(w) => Sound(sweep[w], claim[w].cursor)

ListsAreFinite ==
  /\ IsFiniteSet(tenants)
  /\ \A w \in Workers : IsFiniteSet(sweep[w].listed)

RotInv ==
  /\ RotationTypeOK /\ IInv
  /\ ListsAreFinite /\ SweepsAreSound /\ NobodyIsPassedOver

-----------------------------------------------------------------------------
(* The list of tenants.                                                     *)

\* A list of max_tenants tenants at most is not cut.
LEMMA ShortListIsWhole ==
  ASSUME NEW T \in SUBSET Nat, IsFiniteSet(T), Cardinality(T) <= MaxTenants
  PROVE  Head(T) = T
<1>1. ASSUME NEW t \in T PROVE Cardinality({u \in T : u < t}) < MaxTenants
  <2> DEFINE B == {u \in T : u < t}
  <2>1. B \in SUBSET T /\ B # T
    BY <1>1
  <2>2. IsFiniteSet(B) /\ Cardinality(B) <= Cardinality(T)
    BY <2>1, FS_Subset
  <2>3. Cardinality(B) # Cardinality(T)
    BY <2>1, FS_Subset
  <2>4. Cardinality(B) \in Nat /\ Cardinality(T) \in Nat
    BY <2>2, FS_CardinalityType
  <2> HIDE DEF B
  <2>5. Cardinality(B) < MaxTenants
    BY <2>2, <2>3, <2>4, RotationAssumption
  <2> QED BY <2>5 DEF B
<1> QED BY <1>1 DEF Head

\* Neither way of cutting a short list loses a tenant behind the cursor.
LEMMA ShortBatchIsWhole ==
  ASSUME tenants \in SUBSET Cursors, IsFiniteSet(tenants),
         Cardinality(tenants) <= MaxTenants, NEW j, NEW c
  PROVE  Batch(j, c) = Behind(tenants, c)
<1>1. tenants \in SUBSET Nat
  BY RotationAssumption
<1>2. CASE j \in CutsFirst
  <2>1. Head(tenants) = tenants BY <1>1, ShortListIsWhole
  <2> QED BY <1>2, <2>1 DEF Batch
<1>3. CASE j \notin CutsFirst
  <2> DEFINE B == Behind(tenants, c)
  <2>1. B \in SUBSET tenants
    BY DEF Behind
  <2>2. IsFiniteSet(B) /\ Cardinality(B) <= Cardinality(tenants)
    BY <2>1, FS_Subset
  <2>3. Cardinality(B) \in Nat /\ Cardinality(tenants) \in Nat
    BY <2>2, FS_CardinalityType
  <2>4. B \in SUBSET Nat
    BY <1>1, <2>1
  <2> HIDE DEF B
  <2>5. Cardinality(B) <= MaxTenants
    BY <2>2, <2>3, RotationAssumption
  <2>6. Head(B) = B
    BY <2>2, <2>4, <2>5, ShortListIsWhole
  <2> QED BY <1>3, <2>6 DEF Batch, B
<1> QED BY <1>2, <1>3

\* A batch is taken from the list.
LEMMA BatchIsListed ==
  ASSUME NEW j, NEW c
  PROVE  Batch(j, c) \subseteq tenants
BY DEF Batch, Behind, Head

-----------------------------------------------------------------------------
(* A run of a rotating Job is a run of the scheduler.                       *)

\* The steps that end a sweep are the scheduler's BeginClose.
LEMMA EndsAreCloses ==
  ASSUME RotInv, NEW w \in Workers, Finish(w) \/ CutShort(w) \/ Raise(w)
  PROVE  \E r \in Results : /\ BeginClose(w, r) /\ UNCHANGED <<tenants, sweep>>
<1> USE DEF RotInv, RotationTypeOK, Sweeps, Results
<1>0. sweep[w] \in Sweeps
  OBVIOUS
<1>1. CASE Finish(w)
  BY <1>1 DEF Finish
<1>2. CASE CutShort(w)
  <2>1. PICK t \in sweep[w].handled : BeginClose(w, [ok |-> TRUE, next |-> t])
    BY <1>2 DEF CutShort
  <2>2. t \in Cursors BY <1>0
  <2>3. [ok |-> TRUE, next |-> t] \in Results BY <2>2
  <2> QED BY <1>2, <2>1, <2>3 DEF CutShort
<1>3. CASE Raise(w)
  BY <1>3 DEF Raise
<1> QED BY <1>1, <1>2, <1>3

\* Every step of the rotation is a step of the scheduler or leaves it alone.
LEMMA StepsAreSchedulers ==
  RotInv /\ [RotationNext]_rotationVars => [Next]_vars
<1> SUFFICES ASSUME RotInv, [RotationNext]_rotationVars PROVE [Next]_vars
  OBVIOUS
<1>1. ASSUME NEW w \in Workers, StartSweep(w) \/ Handle(w) PROVE UNCHANGED vars
  BY <1>1 DEF StartSweep, Handle
<1>2. ASSUME NEW w \in Workers, Finish(w) \/ CutShort(w) \/ Raise(w) PROVE Next
  <2>1. PICK r \in Results : BeginClose(w, r)
    BY <1>2, EndsAreCloses
  <2> QED BY <2>1 DEF Next, Step
<1>3. ASSUME Beside(Next) PROVE Next
  BY <1>3 DEF Beside
<1>4. ASSUME NEW t \in Cursors, Join(t) \/ Leave(t) PROVE UNCHANGED vars
  BY <1>4 DEF Join, Leave
<1>5. ASSUME UNCHANGED rotationVars PROVE UNCHANGED vars
  BY <1>5 DEF rotationVars
<1> QED BY <1>1, <1>2, <1>3, <1>4, <1>5 DEF RotationNext, Rotate

\* What a step of the scheduler does to a worker that is busy after it: it has
\* just opened its run, or it holds the claim it held and has begun to close
\* its run at most.
LEMMA BusyAfter ==
  ASSUME TypeOK, Next, NEW v \in Workers, Occupied(v)'
  PROVE  \/ ~Occupied(v) /\ pc'[v] = "executing"
         \/ /\ Occupied(v) /\ claim'[v] = claim[v]
            /\ \/ pc'[v] = pc[v] /\ result'[v] = result[v]
               \/ pc[v] = "executing" /\ pc'[v] = "closing"
<1> DEFINE Goal == \/ ~Occupied(v) /\ pc'[v] = "executing"
                   \/ /\ Occupied(v) /\ claim'[v] = claim[v]
                      /\ \/ pc'[v] = pc[v] /\ result'[v] = result[v]
                         \/ pc[v] = "executing" /\ pc'[v] = "closing"
<1> USE DEF TypeOK, Occupied
<1>1. ASSUME NEW w \in Workers, Step(w) PROVE Goal
  <2>1. CASE Tick(w) \/ FindNothing(w) \/ Exit(w)
    BY <2>1 DEF Tick, FindNothing, Exit
  <2>2. CASE LockDueJob(w)
    BY <2>2 DEF LockDueJob, LockRow
  <2>3. CASE OpenRun(w)
    BY <2>3 DEF OpenRun
  <2>4. CASE LoseRace(w)
    BY <2>4 DEF LoseRace, Return
  <2>5. CASE \E r \in Results : BeginClose(w, r)
    BY <2>5 DEF BeginClose
  <2>6. CASE CloseRun(w)
    BY <2>6 DEF CloseRun, Return
  <2>7. ASSUME NEW u \in Workers, DeadlockAbortsClaim(w, u) PROVE Goal
    BY <2>7 DEF DeadlockAbortsClaim, Deadlocked, Return
  <2>8. ASSUME NEW u \in Workers, DeadlockAbortsClose(w, u) PROVE Goal
    BY <2>8 DEF DeadlockAbortsClose, Deadlocked, Closing, AbortClose, Return
  <2> QED
    BY <1>1, <2>1, <2>2, <2>3, <2>4, <2>5, <2>6, <2>7, <2>8 DEF Step
<1>2. ASSUME NEW w \in Workers, NEW j \in Jobs, LockForced(w, j) PROVE Goal
  BY <1>2 DEF LockForced, LockRow
<1>3. ASSUME NEW w \in Workers, Heartbeat(w) PROVE Goal
  BY <1>3 DEF Heartbeat
<1>4. ASSUME NEW w \in Workers, DatabaseError(w) \/ Crash(w) PROVE Goal
  BY <1>4 DEF DatabaseError, AbortClose, Return, Crash
<1>5. ASSUME NEW w \in Workers, Restart(w) \/ RequestStop(w) PROVE Goal
  BY <1>5 DEF Restart, RequestStop
<1>6. ASSUME NEW j \in Jobs, BecomeDue(j) \/ LeaseTick(j) PROVE Goal
  BY <1>6 DEF BecomeDue, LeaseTick
<1> QED BY <1>1, <1>2, <1>3, <1>4, <1>5, <1>6 DEF Next

-----------------------------------------------------------------------------
(* The inductive invariant.                                                 *)

\* What the others do beside a sweep does not touch it: who is busy keeps its
\* sweep, who is not has none.
LEMMA BesideInv == RotInv /\ Beside(Next) => RotInv'
<1> SUFFICES ASSUME RotInv, Beside(Next) PROVE RotInv'
  OBVIOUS
<1> USE DEF RotInv, RotationTypeOK
<1>1. /\ Next /\ tenants' = tenants
      /\ \A w \in Workers :
           pc[w] = "executing" /\ pc'[w] = "closing" => claim[w].job \notin Rotating
      /\ sweep' = [w \in Workers |-> IF Occupied(w)' THEN sweep[w] ELSE NoSweep]
  BY DEF Beside
<1>2. IInv'
  BY <1>1, TypeInv, LedgerInv DEF IInv
<1>3. \A w \in Workers : /\ Occupied(w)' => sweep'[w] = sweep[w]
                         /\ ~Occupied(w)' => sweep'[w] = NoSweep
  BY <1>1
<1>4. NoSweep \in Sweeps /\ ~NoSweep.begun /\ NoSweep.listed = {}
  BY DEF NoSweep, Sweeps
<1>5. RotationTypeOK'
  <2>1. sweep' \in [Workers -> Sweeps]
    BY <1>1, <1>4
  <2>2. \A w \in Workers : (sweep[w].begun => Occupied(w))'
    BY <1>3, <1>4
  <2> QED BY <1>1, <1>2, <2>1, <2>2 DEF IInv
<1>6. ListsAreFinite'
  <2>1. IsFiniteSet({}) BY FS_EmptySet
  <2> QED BY <1>1, <1>3, <1>4, <2>1 DEF ListsAreFinite
<1>7. \A w \in Workers :
        Occupied(w)' => \/ ~Occupied(w) /\ pc'[w] = "executing"
                        \/ /\ Occupied(w) /\ claim'[w] = claim[w]
                           /\ \/ pc'[w] = pc[w] /\ result'[w] = result[w]
                              \/ pc[w] = "executing" /\ pc'[w] = "closing"
  BY <1>1, BusyAfter
<1>8. SweepsAreSound'
  <2> SUFFICES ASSUME NEW w \in Workers, Sweeping(w)'
               PROVE  Sound(sweep'[w], claim'[w].cursor)
    BY DEF SweepsAreSound
  <2>1. pc'[w] = "executing" /\ claim'[w].job \in Rotating /\ sweep'[w].begun
    BY DEF Sweeping, Rotates
  <2>2. Occupied(w)' BY <2>1 DEF Occupied
  <2>3. sweep'[w] = sweep[w] BY <1>3, <2>2
  <2>4. Occupied(w) BY <2>1, <2>3
  <2>5. pc[w] = "executing" /\ claim'[w] = claim[w]
    BY <1>7, <2>1, <2>2, <2>4
  <2> QED BY <2>1, <2>3, <2>5 DEF SweepsAreSound, Sweeping, Rotates
<1>9. NobodyIsPassedOver'
  <2> SUFFICES ASSUME NEW w \in Workers,
                      pc'[w] = "closing" /\ result'[w].ok /\ claim'[w].job \in Rotating,
                      Cardinality(sweep'[w].listed) <= MaxTenants
               PROVE  \A t \in Behind(sweep'[w].listed, claim'[w].cursor) :
                        \/ t \in sweep'[w].handled
                        \/ result'[w].next # None /\ t > result'[w].next
    BY DEF NobodyIsPassedOver
  <2>1. Occupied(w)' BY DEF Occupied
  <2>2. pc[w] = "closing" /\ claim'[w] = claim[w] /\ result'[w] = result[w]
    BY <1>1, <1>7, <2>1
  <2>3. sweep'[w] = sweep[w] BY <1>3, <2>1
  <2> QED BY <2>2, <2>3 DEF NobodyIsPassedOver
<1> QED BY <1>2, <1>5, <1>6, <1>8, <1>9

\* A sweep starts with everybody behind its cursor to be handled.
LEMMA StartSweepInv ==
  ASSUME RotInv, NEW w \in Workers, StartSweep(w)
  PROVE  RotInv'
<1> USE DEF RotInv, RotationTypeOK
<1> DEFINE s == [begun |-> TRUE, listed |-> tenants, handled |-> {},
                 todo |-> Batch(claim[w].job, claim[w].cursor)]
<1>1. /\ sweep' = [sweep EXCEPT ![w] = s]
      /\ pc[w] = "executing" /\ tenants' = tenants /\ UNCHANGED vars
  BY DEF StartSweep, Rotates
<1>2. s \in Sweeps
  BY BatchIsListed DEF Sweeps
<1>3. s.listed = tenants /\ s.handled = {}
      /\ s.todo = Batch(claim[w].job, claim[w].cursor)
  OBVIOUS
<1> HIDE DEF s
<1>4. /\ pc' = pc /\ claim' = claim /\ result' = result
  BY <1>1 DEF vars
<1>5. IInv'
  BY <1>1, TypeInv, LedgerInv DEF IInv
<1>6. RotationTypeOK'
  <2>1. sweep' \in [Workers -> Sweeps] BY <1>1, <1>2
  <2>2. \A v \in Workers : (sweep[v].begun => Occupied(v))'
    BY <1>1, <1>4 DEF Occupied
  <2> QED BY <1>1, <1>5, <2>1, <2>2 DEF IInv
<1>7. ListsAreFinite'
  BY <1>1, <1>3 DEF ListsAreFinite
<1>8. Sound(s, claim[w].cursor)
  <2> SUFFICES ASSUME Cardinality(tenants) <= MaxTenants
               PROVE  Behind(tenants, claim[w].cursor) \subseteq s.todo
    BY <1>3 DEF Sound
  <2>1. Batch(claim[w].job, claim[w].cursor) = Behind(tenants, claim[w].cursor)
    BY ShortBatchIsWhole DEF ListsAreFinite
  <2> QED BY <1>3, <2>1
<1>9. SweepsAreSound'
  BY <1>1, <1>4, <1>8 DEF SweepsAreSound, Sweeping, Rotates
<1>10. NobodyIsPassedOver'
  <2>1. \A v \in Workers : pc[v] = "closing" => sweep'[v] = sweep[v]
    BY <1>1
  <2> QED BY <1>4, <2>1 DEF NobodyIsPassedOver
<1> QED BY <1>5, <1>6, <1>7, <1>9, <1>10

\* The first of those to be handled joins the handled.
LEMMA HandleInv ==
  ASSUME RotInv, NEW w \in Workers, Handle(w)
  PROVE  RotInv'
<1> USE DEF RotInv, RotationTypeOK
<1>1. PICK t \in sweep[w].todo :
        /\ \A u \in sweep[w].todo : t <= u
        /\ sweep' = [sweep EXCEPT ![w].todo = @ \ {t}, ![w].handled = @ \cup {t}]
  BY DEF Handle
<1> DEFINE s == [sweep[w] EXCEPT !.todo = @ \ {t}, !.handled = @ \cup {t}]
<1>2. sweep[w] \in Sweeps /\ t \in Cursors
  BY DEF Sweeps
<1>3. /\ s.listed = sweep[w].listed /\ s.begun = sweep[w].begun
      /\ s.todo = sweep[w].todo \ {t} /\ s.handled = sweep[w].handled \cup {t}
      /\ s \in Sweeps
  BY <1>2 DEF Sweeps
<1>4. sweep' = [sweep EXCEPT ![w] = s]
  BY <1>1
<1> HIDE DEF s
<1>5. /\ Sweeping(w) /\ tenants' = tenants /\ UNCHANGED vars
      /\ pc' = pc /\ claim' = claim /\ result' = result
  BY DEF Handle, vars
<1>6. IInv'
  BY <1>5, TypeInv, LedgerInv DEF IInv
<1>7. RotationTypeOK'
  <2>1. sweep' \in [Workers -> Sweeps] BY <1>3, <1>4
  <2>2. \A v \in Workers : (sweep[v].begun => Occupied(v))'
    BY <1>3, <1>4, <1>5 DEF Occupied
  <2> QED BY <1>5, <1>6, <2>1, <2>2 DEF IInv
<1>8. ListsAreFinite'
  BY <1>3, <1>4, <1>5 DEF ListsAreFinite
<1>9. Sound(s, claim[w].cursor)
  <2> SUFFICES ASSUME Cardinality(sweep[w].listed) <= MaxTenants
               PROVE  /\ Behind(s.listed, claim[w].cursor) \subseteq s.handled \cup s.todo
                      /\ \A h \in s.handled, u \in s.todo : h < u
    BY <1>3 DEF Sound
  <2>1. /\ Behind(sweep[w].listed, claim[w].cursor)
             \subseteq sweep[w].handled \cup sweep[w].todo
        /\ \A h \in sweep[w].handled, u \in sweep[w].todo : h < u
    BY <1>5 DEF SweepsAreSound, Sound
  <2>2. Behind(s.listed, claim[w].cursor) \subseteq s.handled \cup s.todo
    BY <1>3, <2>1
  <2>3. \A u \in sweep[w].todo \ {t} : t < u
    BY <1>1, <1>2, RotationAssumption DEF Sweeps
  <2> QED BY <1>3, <2>1, <2>2, <2>3
<1>10. SweepsAreSound'
  BY <1>4, <1>5, <1>9 DEF SweepsAreSound, Sweeping, Rotates
<1>11. NobodyIsPassedOver'
  <2>1. \A v \in Workers : pc[v] = "closing" => sweep'[v] = sweep[v]
    BY <1>4, <1>5 DEF Sweeping, Rotates
  <2> QED BY <1>5, <2>1 DEF NobodyIsPassedOver
<1> QED BY <1>6, <1>7, <1>8, <1>10, <1>11

\* A run that ends leaves nobody between the handled and its cursor.
LEMMA EndInv ==
  ASSUME RotInv, NEW w \in Workers, Finish(w) \/ CutShort(w) \/ Raise(w)
  PROVE  RotInv'
<1> USE DEF RotInv, RotationTypeOK
<1>1. PICK r \in Results : BeginClose(w, r) /\ UNCHANGED <<tenants, sweep>>
  BY EndsAreCloses
<1>2. /\ pc' = [pc EXCEPT ![w] = "closing"] /\ result' = [result EXCEPT ![w] = r]
      /\ claim' = claim /\ tenants' = tenants /\ sweep' = sweep /\ Next
  BY <1>1 DEF BeginClose, Next, Step
<1>3. IInv'
  BY <1>2, TypeInv, LedgerInv DEF IInv
<1>4. pc \in [Workers -> States] /\ result \in [Workers -> Results] /\ Sweeping(w)
  BY DEF IInv, TypeOK, Finish, CutShort, Raise
<1>5. RotationTypeOK' /\ ListsAreFinite' /\ SweepsAreSound'
  <2>1. \A v \in Workers : (sweep[v].begun => Occupied(v))'
    BY <1>2, <1>4 DEF Occupied
  <2>2. SweepsAreSound'
    <3> SUFFICES ASSUME NEW v \in Workers, Sweeping(v)'
                 PROVE  Sound(sweep'[v], claim'[v].cursor)
      BY DEF SweepsAreSound
    <3>1. Sweeping(v)
      BY <1>2, <1>4 DEF Sweeping, Rotates
    <3> QED BY <1>2, <3>1 DEF SweepsAreSound
  <2> QED BY <1>2, <1>3, <2>1, <2>2 DEF IInv, ListsAreFinite
<1>6. NobodyIsPassedOver'
  <2> SUFFICES ASSUME NEW v \in Workers,
                      pc'[v] = "closing", result'[v].ok, claim[v].job \in Rotating,
                      Cardinality(sweep[v].listed) <= MaxTenants,
                      NEW u \in Behind(sweep[v].listed, claim[v].cursor)
               PROVE  \/ u \in sweep[v].handled
                      \/ result'[v].next # None /\ u > result'[v].next
    BY <1>2 DEF NobodyIsPassedOver
  <2>1. CASE v # w
    <3>1. pc'[v] = pc[v] /\ result'[v] = result[v] BY <1>2, <1>4, <2>1
    <3> QED BY <3>1 DEF NobodyIsPassedOver
  <2>2. CASE v = w
    <3>1. result'[w] = r BY <1>2, <1>4
    <3>2. /\ u \in sweep[w].handled \cup sweep[w].todo
          /\ \A h \in sweep[w].handled, t \in sweep[w].todo : h < t
      BY <1>4, <2>2 DEF SweepsAreSound, Sound
    <3>3. CASE Finish(w)
      BY <2>2, <3>2, <3>3 DEF Finish
    <3>4. CASE CutShort(w)
      <4>1. PICK t \in sweep[w].handled : BeginClose(w, [ok |-> TRUE, next |-> t])
        BY <3>4 DEF CutShort
      <4>2. result'[w] = [ok |-> TRUE, next |-> t]
        BY <1>4, <4>1 DEF BeginClose
      <4>3. sweep[w] \in Sweeps
        OBVIOUS
      <4>4. t \in Cursors /\ sweep[w].todo \subseteq Cursors
        BY <4>3 DEF Sweeps
      <4>5. t # None BY <4>4, JobsAssumption
      <4>6. u \in sweep[w].todo => t < u BY <3>2
      <4>7. u \in sweep[w].todo => u > t
        BY <4>4, <4>6, RotationAssumption
      <4>8. result'[w].next = t BY <4>2
      <4> QED BY <2>2, <3>2, <4>5, <4>7, <4>8
    <3>5. CASE Raise(w)
      <4>1. result'[w] = [ok |-> FALSE, next |-> None]
        BY <1>4, <3>5 DEF Raise, BeginClose
      <4> QED BY <2>2, <4>1
    <3> QED BY <3>3, <3>4, <3>5
  <2> QED BY <2>1, <2>2
<1> QED BY <1>3, <1>5, <1>6

\* Tenants come and go one by one.
LEMMA TenantsInv ==
  ASSUME RotInv, NEW t \in Cursors, Join(t) \/ Leave(t)
  PROVE  RotInv'
<1> USE DEF RotInv, RotationTypeOK
<1>1. /\ UNCHANGED <<vars, sweep>> /\ pc' = pc /\ claim' = claim /\ result' = result
  BY DEF Join, Leave, vars
<1>2. IInv'
  BY <1>1, TypeInv, LedgerInv DEF IInv
<1>3. tenants' \subseteq Cursors
  BY DEF Join, Leave
<1>4. IsFiniteSet(tenants')
  <2>1. IsFiniteSet(tenants) BY DEF ListsAreFinite
  <2>2. CASE Join(t)
    BY <2>1, <2>2, FS_AddElement DEF Join
  <2>3. CASE Leave(t)
    BY <2>1, <2>3, FS_RemoveElement DEF Leave
  <2> QED BY <2>2, <2>3
<1> QED
  BY <1>1, <1>2, <1>3, <1>4
  DEF IInv, Occupied, ListsAreFinite, SweepsAreSound, Sweeping, Rotates,
      NobodyIsPassedOver

\* The invariant holds in every behaviour of the rotation.
THEOREM RotationInvariance == RotationSpec => []RotInv
<1>1. RotationInit => RotInv
  <2> SUFFICES ASSUME RotationInit PROVE RotInv
    OBVIOUS
  <2>1. IInv BY InitInv DEF RotationInit
  <2>2. NoSweep \in Sweeps /\ ~NoSweep.begun /\ NoSweep.listed = {}
    BY DEF NoSweep, Sweeps
  <2>3. \A w \in Workers : sweep[w] = NoSweep /\ pc[w] = "poll"
    BY DEF RotationInit, Init
  <2>4. RotationTypeOK
    BY <2>1, <2>2, <2>3 DEF RotationInit, RotationTypeOK, IInv
  <2>5. ListsAreFinite
    BY <2>2, <2>3, FS_EmptySet DEF ListsAreFinite, RotationInit
  <2> QED
    BY <2>1, <2>3, <2>4, <2>5
    DEF RotInv, SweepsAreSound, Sweeping, Rotates, NobodyIsPassedOver
<1>2. RotInv /\ [RotationNext]_rotationVars => RotInv'
  <2> SUFFICES ASSUME RotInv, [RotationNext]_rotationVars PROVE RotInv'
    OBVIOUS
  <2>1. ASSUME NEW w \in Workers, StartSweep(w) PROVE RotInv'
    BY <2>1, StartSweepInv
  <2>2. ASSUME NEW w \in Workers, Handle(w) PROVE RotInv'
    BY <2>2, HandleInv
  <2>3. ASSUME NEW w \in Workers, Finish(w) \/ CutShort(w) \/ Raise(w) PROVE RotInv'
    BY <2>3, EndInv
  <2>4. CASE Beside(Next)
    BY <2>4, BesideInv
  <2>5. ASSUME NEW t \in Cursors, Join(t) \/ Leave(t) PROVE RotInv'
    BY <2>5, TenantsInv
  <2>6. CASE UNCHANGED rotationVars
    <3>1. UNCHANGED vars /\ tenants' = tenants /\ sweep' = sweep
      BY <2>6 DEF rotationVars
    <3>2. pc' = pc /\ claim' = claim /\ result' = result
      BY <3>1 DEF vars
    <3>3. IInv'
      BY <3>1, TypeInv, LedgerInv DEF IInv, RotInv
    <3> QED
      BY <3>1, <3>2, <3>3
      DEF RotInv, RotationTypeOK, IInv, Occupied, ListsAreFinite,
          SweepsAreSound, Sweeping, Rotates, NobodyIsPassedOver
  <2> QED BY <2>1, <2>2, <2>3, <2>4, <2>5, <2>6 DEF RotationNext, Rotate
<1> QED BY <1>1, <1>2, PTL DEF RotationSpec

\* Tenants, sweeps, tables and workers keep their types.
THEOREM RotationTypeCorrect == RotationSpec => []RotationTypeOK
BY RotationInvariance, PTL DEF RotInv

\* A rotating Job is a Job as the scheduler runs it.
THEOREM RotationImplementsScheduler == RotationSpec => Spec
<1>1. RotationInit => Init
  BY DEF RotationInit
<1> QED BY <1>1, RotationInvariance, StepsAreSchedulers, PTL DEF RotationSpec, Spec

\* Two workers never rotate for the same Job, and complete() replaces the very
\* cursor the sweep started from.
THEOREM OneRotationAtATime == RotationSpec => [](OneExecutor /\ CursorFollowsRun)
BY RotationImplementsScheduler, MutualExclusion, NoLostProgress, PTL

\* sweep_tenants hands on a cursor with no tenant before it left out.
THEOREM NobodyPassedOver == RotationSpec => []NobodyIsPassedOver
BY RotationInvariance, PTL DEF RotInv
=============================================================================
