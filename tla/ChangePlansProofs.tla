------------------------- MODULE ChangePlansProofs -------------------------
(***************************************************************************)
(* For any number of plans, steps, failures and crashes.                   *)
(***************************************************************************)
EXTENDS ChangePlans, TLAPS, FiniteSetTheorems

-----------------------------------------------------------------------------
(* The inductive invariant.                                                 *)

\* A step whose only attempt has ended and is known to have changed nothing.
Retriable(step) ==
  step.st = "paused" /\ step.ev = "unchanged" /\ step.tries = 1

\* The step in hand, or the one that was in hand when its turn ended.
Active(step) ==
  step.st \in {"running", "verifying", "execution_unknown"} \/ Retriable(step)

Waiting(step) == step.st \in {"pending", "completed"}

StepOK(step, n, done, present) ==
  /\ step.st = "pending" => step.ev = "none" /\ step.tries = 0 /\ n = 0
  /\ n > 0 => step.tries = n
  /\ step.st \in {"running", "verifying", "execution_unknown"} => n > 0
  /\ step.ev = "unchanged" /\ step.tries = 1 =>
       /\ step.st \in {"verifying", "paused"} /\ n = 1
       /\ ~FalseClaims => done = 0
  /\ step.st = "completed" => present

\* Nothing of the plan has been started.
Fresh(p, plan, T) ==
  /\ plan.change = "pending"
  /\ \A s \in Steps : Waiting(plan.steps[s]) /\ T[<<p, s>>] = 0

\* What is before the active step is completed, what is behind it waits.
InOrder(plan) ==
  \A t \in Steps : Active(plan.steps[t]) =>
    \A s \in Steps :
      /\ s < t => plan.steps[s].st = "completed"
      /\ t < s => Waiting(plan.steps[s])

Done(s, Z) == \E p \in Plans : Z[p][s] > 0

\* A: the approved plans, T: the attempts, Z: the effects.
PlanOK(p, plan, A, T, Z) ==
  /\ plan.auth => p \in A
  /\ plan.cursor => Fresh(p, plan, T)
  /\ plan.st = "awaiting_confirmation" => ~plan.cursor /\ Fresh(p, plan, T)
  /\ plan.st = "completed" => plan.auth /\ Accepted(plan)
  /\ plan.st = "absent" => plan = Absent
  /\ \A s \in Steps : StepOK(plan.steps[s], T[<<p, s>>], Z[p][s], Done(s, Z))
  /\ InOrder(plan)

PlansOK == \A p \in Plans : PlanOK(p, plans[p], approved, tried, applied)

Referable == Existing \cup {None}

References ==
  /\ context.active \in Referable /\ context.ran \in Referable
  /\ turn.plan \in Referable /\ turn.pred \in Referable
  /\ turn.ran \in Referable /\ turn.cause \in Referable
  /\ \A f \in DOMAIN fails : fails[f].plan \in Referable

\* Plans are made one after the other.
Numbered == \E n \in 0..MaxPlans : Existing = 1..n

Attempts ==
  \A p \in Plans, s \in Steps :
    /\ applied[p][s] <= tried[<<p, s>>]
    /\ ~FalseClaims => applied[p][s] <= 1

\* The copy of the plan to be succeeded has the steps of its file.
PlanningOK ==
  turn.at \in {"plan", "bind"} =>
    /\ turn.origin = "post" => turn.pred # None
    /\ turn.origin = "rebind" => turn.at = "bind"
    /\ turn.pred = None => turn.old = Absent
    /\ turn.pred # None =>
         PlanOK(turn.pred, turn.old, approved, tried, applied)
         /\ turn.old.steps = plans[turn.pred].steps

BindingOK ==
  turn.at = "bind" =>
    /\ turn.plan # None /\ turn.plan # turn.pred
    /\ turn.origin = "rebind" => turn.pred = None
    /\ Fresh(turn.plan, plans[turn.plan], tried)

ExecutionOK ==
  /\ turn.at = "tell" => fails # <<>>
  /\ turn.at \in {"run", "act", "late", "check", "judge", "verdict"} =>
       turn.plan # None /\ ThePlan.st # "completed"
  /\ turn.at \in {"run", "act", "late", "check"} =>
       turn.plan \in approved /\ ~ThePlan.cursor
  /\ turn.at = "late" => ThePlan.st # "awaiting_confirmation"
  /\ turn.at = "run" =>
       \A s \in Steps : Waiting(ThePlan.steps[s]) \/ Retriable(ThePlan.steps[s])
  /\ turn.at = "act" =>
       /\ turn.step # 0 /\ ThePlan.steps[turn.step].st = "running"
       /\ applied[turn.plan][turn.step] < tried[<<turn.plan, turn.step>>]
       /\ ~FalseClaims => applied[turn.plan][turn.step] = 0
  /\ turn.at = "check" =>
       /\ turn.step # 0 /\ ThePlan.steps[turn.step].st = "verifying"
       /\ ThePlan.steps[turn.step].ev # "none"

IInv ==
  /\ TypeOK
  /\ PlansOK
  /\ References /\ Numbered /\ Attempts
  /\ PlanningOK /\ BindingOK /\ ExecutionOK

-----------------------------------------------------------------------------
(* What keeps a plan in order.                                              *)

History == [Plans \X Steps -> 0..2]
Environment == [Plans -> [Steps -> 0..2]]

\* A new status, and nothing taken back.
LEMMA StatusOnly ==
  ASSUME NEW p \in Plans, NEW plan \in PlanType, NEW q \in PlanType,
         NEW A, NEW T, NEW Z, PlanOK(p, plan, A, T, Z),
         q.steps = plan.steps, q.change = plan.change,
         q.cursor => plan.cursor, q.auth => plan.auth,
         q.st \notin {"awaiting_confirmation", "completed", "absent"}
  PROVE  PlanOK(p, q, A, T, Z)
BY DEF PlanOK, Fresh, InOrder

\* A step settled late, or demoted: it waits for nobody any more.
LEMMA Settling ==
  ASSUME NEW p \in Plans, NEW plan \in PlanType, NEW q \in PlanType,
         NEW A, NEW T \in History, NEW Z, PlanOK(p, plan, A, T, Z),
         plan.st \notin {"absent", "completed"},
         \/ q.st = plan.st
         \/ q.st \notin {"awaiting_confirmation", "completed", "absent"},
         q.auth = plan.auth, q.cursor = plan.cursor,
         \A s \in Steps :
           \/ q.steps[s] = plan.steps[s]
           \/ /\ q.steps[s].ev = plan.steps[s].ev
              /\ q.steps[s].tries = plan.steps[s].tries
              /\ \/ q.steps[s].st = "paused" /\ plan.steps[s].st = "completed"
                 \/ /\ q.steps[s].st = "paused"
                    /\ plan.steps[s].st = "execution_unknown"
                 \/ /\ q.steps[s].st = "completed" /\ Done(s, Z)
                    /\ \/ plan.steps[s].st = "execution_unknown"
                       \/ plan.steps[s].st = "paused" /\ plan.steps[s].ev = "ok",
         (\E s \in Steps : q.steps[s].st = "paused" /\ plan.steps[s].st = "completed")
           => \A s \in Steps : plan.steps[s].st = "completed",
         Fresh(p, plan, T) => \/ ~plan.cursor /\ q.st # "awaiting_confirmation"
                              \/ q.change = "pending" /\ q.steps = plan.steps
  PROVE  PlanOK(p, q, A, T, Z)
<1>1. ASSUME NEW s \in Steps
      PROVE  StepOK(q.steps[s], T[<<p, s>>], Z[p][s], Done(s, Z))
  BY DEF PlanOK, StepOK, PlanType, StepType, StepStates, Evidence
<1>2. InOrder(q)
  <2>1. ASSUME NEW s \in Steps
        PROVE  /\ Waiting(plan.steps[s]) => ~Active(plan.steps[s])
               /\ Active(q.steps[s]) => Active(plan.steps[s])
    BY DEF PlanOK, StepOK, Active, Waiting, Retriable, PlanType, StepType
  <2> QED BY <2>1 DEF PlanOK, InOrder, Waiting
<1>3. q.cursor => Fresh(p, q, T)
  BY DEF PlanOK, Fresh
<1>4. q.st = "awaiting_confirmation" => ~q.cursor /\ Fresh(p, q, T)
  BY DEF PlanOK, Fresh
<1> QED BY <1>1, <1>2, <1>3, <1>4 DEF PlanOK

\* The step in hand moves on, alone; effects are never taken back.
LEMMA StepMoves ==
  ASSUME NEW p \in Plans, NEW plan \in PlanType, NEW q \in PlanType,
         NEW s \in Steps, NEW step \in StepType, NEW A,
         NEW T \in History, NEW U \in History,
         NEW Z \in Environment, NEW Y \in Environment,
         PlanOK(p, plan, A, T, Z),
         \A t \in Steps \ {s} : U[<<p, t>>] = T[<<p, t>>] /\ Y[p][t] = Z[p][t],
         \A t \in Steps : Done(t, Z) => Done(t, Y),
         q.steps = [plan.steps EXCEPT ![s] = step],
         ~q.cursor, q.auth => plan.auth,
         q.st \notin {"awaiting_confirmation", "completed", "absent"},
         StepOK(step, U[<<p, s>>], Y[p][s], Done(s, Y)),
         \A t \in Steps : /\ t < s => plan.steps[t].st = "completed"
                          /\ s < t => Waiting(plan.steps[t])
  PROVE  PlanOK(p, q, A, U, Y)
<1>1. /\ q.steps[s] = step
      /\ \A t \in Steps \ {s} : q.steps[t] = plan.steps[t]
  BY DEF PlanType
<1>2. ASSUME NEW t \in Steps
      PROVE  StepOK(q.steps[t], U[<<p, t>>], Y[p][t], Done(t, Y))
  BY <1>1 DEF PlanOK, StepOK
<1>3. InOrder(q)
  <2>1. Steps \subseteq Int
    BY PlanAssumption DEF Steps
  <2>2. \A t \in Steps \ {s} : ~Active(q.steps[t])
    <3> SUFFICES ASSUME NEW t \in Steps \ {s} PROVE ~Active(plan.steps[t])
      BY <1>1
    <3>1. t < s \/ s < t
      BY <2>1
    <3> QED BY <3>1 DEF Active, Waiting, Retriable
  <2> QED BY <1>1, <2>1, <2>2 DEF InOrder
<1> QED BY <1>2, <1>3 DEF PlanOK

\* What happens to one plan leaves the others in order.
LEMMA OtherPlans ==
  ASSUME NEW p \in Plans, NEW plan \in PlanType, NEW A, NEW B, A \subseteq B,
         NEW T, NEW U, NEW Z, NEW Y, PlanOK(p, plan, A, T, Z),
         \A t \in Steps : U[<<p, t>>] = T[<<p, t>>] /\ Y[p][t] = Z[p][t],
         \A t \in Steps : Done(t, Z) => Done(t, Y)
  PROVE  PlanOK(p, plan, B, U, Y)
BY DEF PlanOK, Fresh, StepOK

\* A new plan, or one whose binding has inherited effects.
LEMMA FreshPlan ==
  ASSUME NEW p \in Plans, NEW plan \in PlanType, NEW A, NEW T \in History, NEW Z,
         Fresh(p, plan, T), plan.auth => p \in A,
         plan.st \notin {"completed", "absent"},
         plan.st = "awaiting_confirmation" => ~plan.cursor,
         \A s \in Steps : /\ StepOK(plan.steps[s], T[<<p, s>>], Z[p][s], Done(s, Z))
  PROVE  PlanOK(p, plan, A, T, Z)
BY DEF PlanOK, InOrder, Fresh, Active, Waiting, Retriable

LEMMA AbsentPlan ==
  ASSUME NEW p \in Plans, NEW A, NEW T, NEW Z,
         \A s \in Steps : T[<<p, s>>] = 0
  PROVE  PlanOK(p, Absent, A, T, Z) /\ Fresh(p, Absent, T) /\ Absent \in PlanType
<1>1. /\ Absent.st = "absent" /\ Absent.auth = FALSE /\ Absent.cursor = FALSE
      /\ Absent.change = "pending" /\ Absent.steps = Untouched
  BY DEF Absent
<1>2. ASSUME NEW s \in Steps
      PROVE  Untouched[s] = [st |-> "pending", ev |-> "none", tries |-> 0]
  BY DEF Untouched
<1>3. Absent \in PlanType
  BY PlanAssumption DEF Absent, PlanType, PlanStates, ChangeStates, Untouched,
     StepType, StepStates, Evidence, None
<1> QED BY <1>1, <1>2, <1>3
       DEF PlanOK, InOrder, Fresh, Active, Waiting, Retriable, StepOK

-----------------------------------------------------------------------------
(* What a step of the workflow leaves alone.                                *)

LEMMA PlansKept ==
  ASSUME IInv, UNCHANGED <<plans, applied, tried, approved>>
  PROVE  PlansOK' /\ Numbered' /\ Attempts' /\ Existing' = Existing
<1>1. Existing' = Existing
  BY DEF Existing
<1> QED BY <1>1 DEF IInv, PlansOK, Numbered, Attempts

LEMMA PlanWritten ==
  ASSUME IInv, NEW p \in Existing, NEW q \in PlanType, q.st # "absent",
         plans' = [plans EXCEPT ![p] = q],
         UNCHANGED <<applied, tried>>, approved \subseteq approved',
         PlanOK(p, q, approved', tried, applied)
  PROVE  /\ plans' \in [Plans -> PlanType]
         /\ plans'[p] = q
         /\ \A r \in Plans \ {p} : plans'[r] = plans[r]
         /\ PlansOK' /\ Numbered' /\ Attempts' /\ Existing' = Existing
<1>1. p \in Plans /\ plans \in [Plans -> PlanType]
  BY DEF Existing, IInv, TypeOK
<1>2. /\ plans' \in [Plans -> PlanType] /\ plans'[p] = q
      /\ \A r \in Plans \ {p} : plans'[r] = plans[r]
  BY <1>1
<1>3. Existing' = Existing
  BY <1>1, <1>2 DEF Existing
<1>4. ASSUME NEW r \in Plans
      PROVE  PlanOK(r, plans'[r], approved', tried, applied)
  <2>1. CASE r = p
    BY <1>2, <2>1
  <2>2. CASE r # p
    <3>1. PlanOK(r, plans[r], approved, tried, applied) /\ plans[r] \in PlanType
      BY <1>1 DEF IInv, PlansOK
    <3>2. PlanOK(r, plans[r], approved', tried, applied)
      BY <3>1, OtherPlans
    <3> QED BY <1>2, <2>2, <3>2
  <2> QED BY <2>1, <2>2
<1> QED BY <1>2, <1>3, <1>4 DEF IInv, PlansOK, Numbered, Attempts

\* At the end of a turn nothing is left to be remembered.
LEMMA TurnOver ==
  ASSUME turn'.at = "idle" \/ (turn'.at = "tell" /\ fails' # <<>>)
  PROVE  PlanningOK' /\ BindingOK' /\ ExecutionOK'
BY DEF PlanningOK, BindingOK, ExecutionOK

LEMMA ReferenceType == 
  ASSUME IInv
  PROVE  Referable \subseteq 0..MaxPlans /\ Existing \subseteq Plans
BY PlanAssumption DEF Referable, Existing, Plans, None

\* The records of a turn.
LEMMA TurnTypes ==
  /\ Absent \in PlanType
  /\ NoTurn \in TurnType /\ NoTurn.at = "idle" /\ NoTurn.plan = None
  /\ NoTurn.pred = None /\ NoTurn.ran = None /\ NoTurn.cause = None
  /\ \A pred \in 0..MaxPlans, ran \in 0..MaxPlans, old \in PlanType,
        origin \in Origins :
       /\ Planning(pred, old, origin, ran) \in TurnType
       /\ Planning(pred, old, origin, ran).at = "plan"
       /\ Planning(pred, old, origin, ran).plan = None
       /\ Planning(pred, old, origin, ran).pred = pred
       /\ Planning(pred, old, origin, ran).old = old
       /\ Planning(pred, old, origin, ran).origin = origin
       /\ Planning(pred, old, origin, ran).ran = ran
       /\ Planning(pred, old, origin, ran).cause = None
<1>1. Absent \in PlanType
  BY PlanAssumption DEF Absent, PlanType, PlanStates, ChangeStates, Untouched,
     StepType, StepStates, Evidence, None
<1>2. /\ NoTurn \in TurnType /\ NoTurn.at = "idle" /\ NoTurn.plan = None
      /\ NoTurn.pred = None /\ NoTurn.ran = None /\ NoTurn.cause = None
  BY <1>1, PlanAssumption DEF NoTurn, TurnType, Points, Origins, None
<1>3. ASSUME NEW pred \in 0..MaxPlans, NEW ran \in 0..MaxPlans,
             NEW old \in PlanType, NEW origin \in Origins
      PROVE  /\ Planning(pred, old, origin, ran) \in TurnType
             /\ Planning(pred, old, origin, ran).at = "plan"
             /\ Planning(pred, old, origin, ran).plan = None
             /\ Planning(pred, old, origin, ran).pred = pred
             /\ Planning(pred, old, origin, ran).old = old
             /\ Planning(pred, old, origin, ran).origin = origin
             /\ Planning(pred, old, origin, ran).ran = ran
             /\ Planning(pred, old, origin, ran).cause = None
  <2> DEFINE t == [NoTurn EXCEPT !.at = "plan", !.pred = pred, !.old = old,
                                 !.origin = origin, !.ran = ran]
  <2>1. t \in TurnType
    BY <1>2 DEF TurnType, Points
  <2>2. /\ t.at = "plan" /\ t.plan = NoTurn.plan /\ t.pred = pred /\ t.old = old
        /\ t.origin = origin /\ t.ran = ran /\ t.cause = NoTurn.cause
    BY <1>2 DEF TurnType
  <2>3. Planning(pred, old, origin, ran) = t
    BY DEF Planning
  <2> HIDE DEF t
  <2> QED BY <1>2, <2>1, <2>2, <2>3
<1> QED BY <1>1, <1>2, <1>3

LEMMA FailureTypes ==
  ASSUME NEW p \in 0..MaxPlans, NEW category \in Categories,
         NEW changed \in BOOLEAN, NEW stored \in BOOLEAN
  PROVE  /\ Failure(p, category, changed, stored) \in FailureType
         /\ Failure(p, category, changed, stored).plan = p
         /\ Settled \in FailureType /\ Settled.plan = None
<1>1. /\ Failure(p, category, changed, stored) \in FailureType
      /\ Failure(p, category, changed, stored).plan = p
  BY DEF Failure, FailureType, Choices
<1>2. /\ Failure(None, "planning", FALSE, TRUE) \in FailureType
      /\ Failure(None, "planning", FALSE, TRUE).plan = None
  BY PlanAssumption DEF Failure, FailureType, Choices, Categories, None
<1>3. Settled \in FailureType /\ Settled.plan = None
  BY <1>2 DEF Settled, FailureType, Choices
<1> QED BY <1>1, <1>2, <1>3

LEMMA NewRecord ==
  ASSUME NEW F \in Seq(FailureType), Len(F) < MaxFailures,
         NEW r \in FailureType, r.plan \in Referable,
         \A f \in DOMAIN F : F[f].plan \in Referable
  PROVE  /\ Append(F, r) \in Seq(FailureType) /\ Append(F, r) # <<>>
         /\ Len(Append(F, r)) <= MaxFailures
         /\ \A f \in DOMAIN Append(F, r) : Append(F, r)[f].plan \in Referable
<1> DEFINE G == Append(F, r)
<1>1. /\ G \in Seq(FailureType) /\ Len(G) = Len(F) + 1
      /\ \A f \in 1..Len(F) : G[f] = F[f]
      /\ G[Len(F) + 1] = r
  OBVIOUS
<1>2. DOMAIN F = 1..Len(F) /\ DOMAIN G = 1..Len(G) /\ Len(F) \in Nat
  BY <1>1
<1>3. \A f \in DOMAIN G : f \in DOMAIN F \/ f = Len(F) + 1
  BY <1>1, <1>2
<1>4. \A f \in DOMAIN G : G[f].plan \in Referable
  BY <1>1, <1>2, <1>3
<1>5. Len(G) <= MaxFailures
  BY <1>1, <1>2, PlanAssumption
<1>6. G # <<>>
  BY <1>1, <1>2
<1> QED BY <1>1, <1>4, <1>5, <1>6

\* A plan has failed: it and the record are saved.
LEMMA Failing ==
  ASSUME IInv, NEW p \in Existing, NEW plan \in PlanType,
         NEW category \in Categories, NEW executed \in BOOLEAN,
         NEW active \in Referable, NEW ran \in Referable,
         UNCHANGED <<applied, tried, approved, revoked, crashes>>,
         PlanOK(p, plan, approved, tried, applied),
         FailWith(p, plan, category, executed, active, ran)
  PROVE  IInv'
<1> DEFINE q == [plan EXCEPT !.st = IF executed THEN "paused" ELSE "blocked",
                             !.asks = Len(fails) + 1]
<1>1. /\ fails \in Seq(FailureType) /\ Len(fails) \in Nat
      /\ Len(fails) < MaxFailures
      /\ Len(fails) + 1 \in 0..MaxFailures
  BY PlanAssumption DEF IInv, TypeOK, FailWith, RoomForFailure
<1>2. /\ p \in 0..MaxPlans /\ p \in Plans
      /\ active \in 0..MaxPlans /\ ran \in 0..MaxPlans
  BY ReferenceType DEF Referable
<1>3. q \in PlanType /\ PlanOK(p, q, approved, tried, applied)
  <2>1. q \in PlanType
    BY <1>1 DEF PlanType, PlanStates
  <2>2. q.st \notin {"awaiting_confirmation", "completed", "absent"}
    BY DEF PlanType
  <2>3. /\ q.steps = plan.steps /\ q.change = plan.change
        /\ q.cursor = plan.cursor /\ q.auth = plan.auth
    BY DEF PlanType
  <2> QED BY <1>2, <2>1, <2>2, <2>3, StatusOnly
<1>4. q.st # "absent" /\ plans' = [plans EXCEPT ![p] = q]
  BY DEF PlanType, FailWith
<1>5. /\ plans' \in [Plans -> PlanType] /\ PlansOK' /\ Numbered' /\ Attempts'
      /\ Existing' = Existing
  BY <1>3, <1>4, PlanWritten
<1>6. /\ turn' = [NoTurn EXCEPT !.at = "tell", !.plan = active, !.ran = ran]
      /\ turn' \in TurnType /\ turn'.at = "tell" /\ turn'.plan = active
      /\ turn'.ran = ran /\ turn'.pred = None /\ turn'.cause = None
  BY <1>2, TurnTypes DEF FailWith, TurnType, Points
<1>7. /\ fails' \in Seq(FailureType) /\ Len(fails') <= MaxFailures
      /\ fails' # <<>>
      /\ \A f \in DOMAIN fails' : fails'[f].plan \in Referable
  <2>1. Failure(p, category, executed, FALSE) \in FailureType
        /\ Failure(p, category, executed, FALSE).plan = p
    BY <1>2, FailureTypes
  <2>2. \A f \in DOMAIN fails : fails[f].plan \in Referable
    BY DEF IInv, References
  <2>3. fails' = Append(fails, Failure(p, category, executed, FALSE))
    BY DEF FailWith
  <2> QED BY <1>1, <2>1, <2>2, <2>3, NewRecord DEF Referable
<1>8. TypeOK'
  BY <1>5, <1>6, <1>7 DEF IInv, TypeOK, FailWith
<1>9. References'
  BY <1>5, <1>6, <1>7 DEF IInv, References, Referable, FailWith
<1> QED BY <1>5, <1>6, <1>7, <1>8, <1>9, TurnOver DEF IInv

-----------------------------------------------------------------------------
(* The invariant is kept by what the user does.                             *)

\* The plans are in order again after a step, and none has come or gone.
PlansSettled ==
  /\ plans' \in [Plans -> PlanType]
  /\ PlansOK' /\ Numbered' /\ Attempts' /\ Existing' = Existing
  /\ \A p \in Plans : plans'[p].steps = plans[p].steps

LEMMA Aborting ==
  ASSUME IInv, NEW p \in Referable, Abort(p),
         UNCHANGED <<applied, tried, approved>>
  PROVE  PlansSettled /\ revoked' \subseteq Plans
<1>1. plans \in [Plans -> PlanType] /\ revoked \subseteq Plans
  BY DEF IInv, TypeOK
<1>2. CASE p # None /\ plans[p].st \notin {"completed", "aborted"}
  <2> DEFINE q == [plans[p] EXCEPT !.st = "aborted", !.auth = FALSE]
  <2>1. p \in Existing /\ p \in Plans
    BY <1>2, ReferenceType DEF Referable
  <2>2. plans[p] \in PlanType /\ PlanOK(p, plans[p], approved, tried, applied)
    BY <1>1, <2>1 DEF IInv, PlansOK
  <2>3. /\ q \in PlanType /\ q.steps = plans[p].steps /\ q.st = "aborted"
        /\ q.change = plans[p].change /\ q.cursor = plans[p].cursor
        /\ q.auth = FALSE
    BY <2>2 DEF PlanType, PlanStates
  <2>4. PlanOK(p, q, approved, tried, applied)
    BY <2>1, <2>2, <2>3, StatusOnly
  <2>5. plans' = [plans EXCEPT ![p] = q] /\ revoked' = revoked \cup {p}
    <3>1. /\ plans' = [plans EXCEPT ![p].st = "aborted", ![p].auth = FALSE]
          /\ revoked' = revoked \cup {p}
      BY <1>2 DEF Abort
    <3> QED BY <1>1, <2>1, <3>1
  <2>6. /\ plans' \in [Plans -> PlanType] /\ plans'[p] = q
        /\ \A r \in Plans \ {p} : plans'[r] = plans[r]
        /\ PlansOK' /\ Numbered' /\ Attempts' /\ Existing' = Existing
    BY <2>1, <2>3, <2>4, <2>5, PlanWritten
  <2> QED BY <1>1, <2>1, <2>3, <2>5, <2>6 DEF PlansSettled
<1>3. CASE ~(p # None /\ plans[p].st \notin {"completed", "aborted"})
  <2>1. UNCHANGED <<plans, revoked>>
    BY <1>3 DEF Abort
  <2> QED BY <1>1, <2>1, PlansKept DEF PlansSettled
<1> QED BY <1>2, <1>3

\* A plan is to be made: what it succeeds is known as its file has it.
LEMMA PlanningOpened ==
  ASSUME IInv, PlansSettled, revoked' \subseteq Plans,
         UNCHANGED <<applied, tried, approved, crashes>>,
         fails' \in Seq(FailureType), Len(fails') <= MaxFailures,
         \A f \in DOMAIN fails' : fails'[f].plan \in Referable,
         context' \in [active : Referable, ran : Referable],
         NEW pred \in Referable, NEW ran \in Referable, NEW cause \in Referable,
         NEW origin \in Origins, origin # "rebind", origin = "post" => pred # None,
         turn' = [Planning(pred, IF pred = None THEN Absent ELSE plans[pred],
                           origin, ran) EXCEPT !.cause = cause]
  PROVE  IInv'
<1> DEFINE old == IF pred = None THEN Absent ELSE plans[pred]
<1>1. /\ pred \in 0..MaxPlans /\ ran \in 0..MaxPlans /\ cause \in 0..MaxPlans
      /\ pred # None => pred \in Plans
  BY ReferenceType DEF Referable
<1>2. old \in PlanType
  BY <1>1, TurnTypes DEF IInv, TypeOK
<1>3. /\ Planning(pred, old, origin, ran) \in TurnType
      /\ Planning(pred, old, origin, ran).at = "plan"
      /\ Planning(pred, old, origin, ran).plan = None
      /\ Planning(pred, old, origin, ran).pred = pred
      /\ Planning(pred, old, origin, ran).old = old
      /\ Planning(pred, old, origin, ran).origin = origin
      /\ Planning(pred, old, origin, ran).ran = ran
  BY <1>1, <1>2, TurnTypes
<1> HIDE DEF old
<1>4. /\ turn' \in TurnType /\ turn'.at = "plan" /\ turn'.plan = None
      /\ turn'.pred = pred /\ turn'.old = old /\ turn'.origin = origin
      /\ turn'.ran = ran /\ turn'.cause = cause
  <2>1. turn' = [Planning(pred, old, origin, ran) EXCEPT !.cause = cause]
    BY DEF old
  <2> QED BY <1>1, <1>3, <2>1 DEF TurnType
<1>5. context' \in [active : 0..MaxPlans, ran : 0..MaxPlans]
  BY ReferenceType
<1>6. TypeOK'
  BY <1>4, <1>5 DEF IInv, TypeOK, PlansSettled
<1>7. References'
  BY <1>4 DEF References, Referable, PlansSettled
<1>8. PlanningOK'
  <2>1. pred # None => /\ old = plans[pred]
                       /\ PlanOK(pred, old, approved, tried, applied)
                       /\ old.steps = plans'[pred].steps
    BY <1>1 DEF old, IInv, PlansOK, PlansSettled
  <2>2. pred = None => old = Absent
    BY DEF old
  <2> QED BY <1>4, <2>1, <2>2 DEF PlanningOK
<1>9. BindingOK' /\ ExecutionOK'
  BY <1>4 DEF BindingOK, ExecutionOK
<1> QED BY <1>6, <1>7, <1>8, <1>9 DEF IInv, PlansSettled

LEMMA NoCause ==
  ASSUME NEW pred \in 0..MaxPlans, NEW ran \in 0..MaxPlans,
         NEW old \in PlanType, NEW origin \in Origins
  PROVE  Planning(pred, old, origin, ran) =
           [Planning(pred, old, origin, ran) EXCEPT !.cause = None]
<1>1. /\ Planning(pred, old, origin, ran) \in TurnType
      /\ Planning(pred, old, origin, ran).cause = None
  BY TurnTypes
<1> QED BY <1>1 DEF TurnType

LEMMA Nothing ==
  ASSUME IInv
  PROVE  /\ None \in Referable
         /\ context.active \in Referable /\ context.ran \in Referable
         /\ context \in [active : Referable, ran : Referable]
         /\ fails \in Seq(FailureType) /\ Len(fails) <= MaxFailures
         /\ \A f \in DOMAIN fails : fails[f].plan \in Referable
BY DEF IInv, TypeOK, References, Referable

LEMMA KeptSettled ==
  ASSUME IInv, UNCHANGED <<plans, applied, tried, approved>>
  PROVE  PlansSettled
BY PlansKept DEF PlansSettled, IInv, TypeOK

LEMMA GoalOpened ==
  ASSUME IInv, PlansSettled, revoked' \subseteq Plans,
         UNCHANGED <<fails, applied, tried, approved, crashes>>,
         NEW pred \in Referable, NEW active \in Referable, NEW ran \in Referable,
         OpenGoal(pred, active, ran)
  PROVE  IInv'
<1> DEFINE old == IF pred = None THEN Absent ELSE plans[pred]
<1>1. pred \in 0..MaxPlans /\ ran \in 0..MaxPlans /\ pred # None => pred \in Plans
  BY ReferenceType DEF Referable
<1>2. old \in PlanType
  BY <1>1, TurnTypes, ReferenceType DEF IInv, TypeOK, Referable
<1>3. Planning(pred, old, "goal", ran) =
        [Planning(pred, old, "goal", ran) EXCEPT !.cause = None]
  BY <1>1, <1>2, NoCause, ReferenceType DEF Origins
<1>4. turn' = [Planning(pred, old, "goal", ran) EXCEPT !.cause = None]
  BY <1>3 DEF OpenGoal
<1>5. context' \in [active : Referable, ran : Referable]
  BY DEF OpenGoal
<1> QED BY <1>4, <1>5, Nothing, PlanningOpened DEF Origins

LEMMA NewGoalKeeps ==
  ASSUME IInv, NewGoal PROVE IInv'
<1>1. /\ UNCHANGED <<plans, fails, applied, history>>
      /\ \/ OpenGoal(None, None, None)
         \/ OpenGoal(None, context.active, context.ran)
  BY DEF NewGoal
<1>2. PlansSettled /\ revoked' \subseteq Plans
  BY <1>1, KeptSettled DEF history, IInv, TypeOK
<1> QED BY <1>1, <1>2, Nothing, GoalOpened DEF history

LEMMA SupersedeKeeps ==
  ASSUME IInv, Supersede PROVE IInv'
<1>1. PlansSettled /\ revoked' \subseteq Plans
  BY Nothing, Aborting DEF Supersede
<1> QED BY <1>1, Nothing, GoalOpened DEF Supersede

LEMMA RefineKeeps ==
  ASSUME IInv, Refine PROVE IInv'
<1>1. PlansSettled /\ revoked' \subseteq Plans
  BY Nothing, Aborting DEF Refine
<1>2. Predecessor \in Referable
  BY Nothing DEF Predecessor
<1> QED BY <1>1, <1>2, Nothing, GoalOpened DEF Refine

LEMMA ResumeDraftKeeps ==
  ASSUME IInv, ResumeDraft PROVE IInv'
<1>1. PICK p \in Plans : plans[p].st = "draft" /\ Abort(p)
  BY DEF ResumeDraft
<1>2. PlansSettled /\ revoked' \subseteq Plans
  <2>1. p \in Referable
    BY <1>1 DEF Referable, Existing
  <2> QED BY <1>1, <2>1, Aborting DEF ResumeDraft
<1>3. turn' = [Planning(None, Absent, "draft", context.ran) EXCEPT !.cause = None]
  <2>1. None \in 0..MaxPlans /\ context.ran \in 0..MaxPlans
    BY Nothing, ReferenceType
  <2> QED BY <2>1, NoCause, TurnTypes DEF ResumeDraft, Origins
<1> QED BY <1>2, <1>3, Nothing, PlanningOpened DEF ResumeDraft, Origins

\* A plan is taken up again where a verdict is due.
LEMMA JudgeOpened ==
  ASSUME IInv, NEW p \in Existing, plans[p].st # "completed",
         UNCHANGED <<plans, context, applied, history>>,
         fails' \in Seq(FailureType), Len(fails') <= MaxFailures,
         \A f \in DOMAIN fails' : fails'[f].plan \in Referable,
         turn' = [NoTurn EXCEPT !.at = "judge", !.plan = p]
  PROVE  IInv'
<1>1. p \in 0..MaxPlans /\ p # None
  BY ReferenceType DEF Referable, Existing, Plans, None
<1>2. /\ turn' \in TurnType /\ turn'.at = "judge" /\ turn'.plan = p
      /\ turn'.pred = None /\ turn'.ran = None /\ turn'.cause = None
  BY <1>1, TurnTypes DEF TurnType, Points
<1>3. PlansOK' /\ Numbered' /\ Attempts' /\ Existing' = Existing
  BY PlansKept DEF history
<1>4. TypeOK'
  BY <1>2 DEF IInv, TypeOK, history
<1>5. References'
  BY <1>2, <1>3 DEF IInv, References, Referable
<1>6. PlanningOK' /\ BindingOK' /\ ExecutionOK'
  BY <1>1, <1>2 DEF PlanningOK, BindingOK, ExecutionOK, ThePlan
<1> QED BY <1>3, <1>4, <1>5, <1>6 DEF IInv

LEMMA RunOpened ==
  ASSUME IInv, NEW p \in Existing, plans[p].st # "completed",
         p \in approved, ~plans[p].cursor,
         \A s \in Steps : Waiting(plans[p].steps[s]) \/ Retriable(plans[p].steps[s]),
         UNCHANGED <<plans, context, applied, history>>,
         fails' \in Seq(FailureType), Len(fails') <= MaxFailures,
         \A f \in DOMAIN fails' : fails'[f].plan \in Referable,
         turn' = [NoTurn EXCEPT !.at = "run", !.plan = p]
  PROVE  IInv'
<1>1. p \in 0..MaxPlans /\ p # None
  BY ReferenceType DEF Referable, Existing, Plans, None
<1>2. /\ turn' \in TurnType /\ turn'.at = "run" /\ turn'.plan = p
      /\ turn'.pred = None /\ turn'.ran = None /\ turn'.cause = None
  BY <1>1, TurnTypes DEF TurnType, Points
<1>3. PlansOK' /\ Numbered' /\ Attempts' /\ Existing' = Existing
  BY PlansKept DEF history
<1>4. TypeOK'
  BY <1>2 DEF IInv, TypeOK, history
<1>5. References'
  BY <1>2, <1>3 DEF IInv, References, Referable
<1>6. PlanningOK' /\ BindingOK' /\ ExecutionOK'
  BY <1>1, <1>2 DEF PlanningOK, BindingOK, ExecutionOK, ThePlan, history
<1> QED BY <1>3, <1>4, <1>5, <1>6 DEF IInv

\* A plan whose binding had stopped is bound once more.
LEMMA RebindOpened ==
  ASSUME IInv, NEW p \in Existing, Fresh(p, plans[p], tried),
         NEW cause \in Referable,
         UNCHANGED <<plans, context, applied, history>>,
         fails' \in Seq(FailureType), Len(fails') <= MaxFailures,
         \A f \in DOMAIN fails' : fails'[f].plan \in Referable,
         turn' = [NoTurn EXCEPT !.at = "bind", !.plan = p, !.origin = "rebind",
                                !.cause = cause]
  PROVE  IInv'
<1>1. p \in 0..MaxPlans /\ p # None /\ cause \in 0..MaxPlans
  BY ReferenceType DEF Referable, Existing, Plans, None
<1>2. /\ turn' \in TurnType /\ turn'.at = "bind" /\ turn'.plan = p
      /\ turn'.pred = None /\ turn'.ran = None /\ turn'.cause = cause
      /\ turn'.origin = "rebind" /\ turn'.old = NoTurn.old
  BY <1>1, TurnTypes DEF TurnType, Points, Origins
<1>3. PlansOK' /\ Numbered' /\ Attempts' /\ Existing' = Existing
  BY PlansKept DEF history
<1>4. TypeOK'
  BY <1>2 DEF IInv, TypeOK, history
<1>5. References'
  BY <1>2, <1>3 DEF IInv, References, Referable
<1>6. NoTurn.old = Absent
  BY DEF NoTurn
<1>7. PlanningOK' /\ BindingOK' /\ ExecutionOK'
  BY <1>1, <1>2, <1>6 DEF PlanningOK, BindingOK, ExecutionOK, history
<1> QED BY <1>3, <1>4, <1>5, <1>7 DEF IInv

LEMMA ResumeKeeps ==
  ASSUME IInv, Resume PROVE IInv'
<1>1. context.active \in Existing
  BY Nothing DEF Resume, Referable
<1> QED BY <1>1, Nothing, JudgeOpened DEF Resume

LEMMA ConfirmAgainKeeps ==
  ASSUME IInv, NEW p \in Plans, ConfirmAgain(p) PROVE IInv'
<1>1. p \in Existing /\ plans[p].st # "completed"
  BY DEF ConfirmAgain, Existing
<1> QED BY <1>1, Nothing, JudgeOpened DEF ConfirmAgain

LEMMA ApproveKeeps ==
  ASSUME IInv, NEW p \in Plans, Approve(p) PROVE IInv'
<1> DEFINE q == [plans[p] EXCEPT !.st = "approved", !.auth = TRUE]
<1>1. /\ p \in Existing /\ p \in 0..MaxPlans /\ p # None
      /\ plans[p] \in PlanType /\ PlanOK(p, plans[p], approved, tried, applied)
      /\ plans[p].st = "awaiting_confirmation"
  BY ReferenceType DEF Approve, Existing, IInv, TypeOK, PlansOK, Referable, Plans, None
<1>2. /\ q \in PlanType /\ q.steps = plans[p].steps /\ q.st = "approved"
      /\ q.change = plans[p].change /\ q.cursor = plans[p].cursor
      /\ q.auth = TRUE
  BY <1>1 DEF PlanType, PlanStates
<1>3. approved' = approved \cup {p}
  BY DEF Approve
<1>4. Fresh(p, q, tried) /\ ~q.cursor
  BY <1>1, <1>2 DEF PlanOK, Fresh
<1>5. PlanOK(p, q, approved', tried, applied)
  <2>1. tried \in History
    BY DEF IInv, TypeOK, History
  <2>2. \A s \in Steps :
          StepOK(q.steps[s], tried[<<p, s>>], applied[p][s], Done(s, applied))
    BY <1>1, <1>2 DEF PlanOK
  <2> QED BY <1>2, <1>3, <1>4, <2>1, <2>2, FreshPlan
<1>6. plans' = [plans EXCEPT ![p] = q]
  BY <1>1 DEF Approve, IInv, TypeOK
<1>7. /\ plans' \in [Plans -> PlanType] /\ plans'[p] = q
      /\ PlansOK' /\ Numbered' /\ Attempts' /\ Existing' = Existing
  BY <1>1, <1>2, <1>3, <1>5, <1>6, PlanWritten DEF Approve
<1>8. /\ turn' \in TurnType /\ turn'.at = "run" /\ turn'.plan = p
      /\ turn'.pred = None /\ turn'.ran = None /\ turn'.cause = None
  BY <1>1, TurnTypes DEF Approve, TurnType, Points
<1>9. TypeOK'
  BY <1>3, <1>7, <1>8 DEF Approve, IInv, TypeOK
<1>10. References'
  BY <1>1, <1>7, <1>8 DEF Approve, IInv, References, Referable
<1>11. PlanningOK' /\ BindingOK' /\ ExecutionOK'
  BY <1>1, <1>2, <1>3, <1>4, <1>7, <1>8
     DEF PlanningOK, BindingOK, ExecutionOK, ThePlan, Fresh
<1> QED BY <1>7, <1>9, <1>10, <1>11 DEF IInv

LEMMA RejectContractKeeps ==
  ASSUME IInv, NEW p \in Plans, RejectContract(p) PROVE IInv'
<1>1. /\ p \in Existing /\ plans[p] \in PlanType
      /\ PlanOK(p, plans[p], approved, tried, applied)
  BY DEF RejectContract, Existing, IInv, TypeOK, PlansOK
<1> QED BY <1>1, Nothing, Failing DEF RejectContract, Categories, history

\* Steps of the turn that touch no plan and end it, or let the user wait.
LEMMA Waits ==
  ASSUME IInv, UNCHANGED <<plans, applied, tried, approved, revoked>>,
         crashes' \in 0..MaxCrashes,
         fails' \in Seq(FailureType), Len(fails') <= MaxFailures,
         \A f \in DOMAIN fails' : fails'[f].plan \in Referable,
         context' \in [active : Referable, ran : Referable],
         turn' = NoTurn \/ (turn' = turn /\ turn.at = "idle")
  PROVE  IInv'
<1>1. /\ turn' \in TurnType /\ turn'.at = "idle"
      /\ turn'.plan \in Referable /\ turn'.pred \in Referable
      /\ turn'.ran \in Referable /\ turn'.cause \in Referable
  BY TurnTypes, Nothing DEF IInv, TypeOK, References
<1>2. PlansOK' /\ Numbered' /\ Attempts' /\ Existing' = Existing
  BY PlansKept
<1>3. TypeOK'
  BY <1>1, ReferenceType DEF IInv, TypeOK
<1>4. References'
  BY <1>1, <1>2 DEF References, Referable
<1> QED BY <1>1, <1>2, <1>3, <1>4, TurnOver DEF IInv

LEMMA ConfirmCompletedKeeps ==
  ASSUME IInv, NEW p \in Plans, ConfirmCompleted(p) PROVE IInv'
BY Nothing, Waits DEF ConfirmCompleted, Free, history, IInv, TypeOK

LEMMA CrashKeeps ==
  ASSUME IInv, Crash PROVE IInv'
<1>1. crashes' \in 0..MaxCrashes
  BY PlanAssumption DEF Crash, IInv, TypeOK
<1> QED BY <1>1, Nothing, Waits DEF Crash

\* The record in hand is answered, or a direction is asked for.
LEMMA RecordAnswered ==
  ASSUME IInv, NEW f \in DOMAIN fails,
         fails' = [fails EXCEPT ![f] = Settled]
           \/ fails' = [fails EXCEPT ![f].choice = "asked"]
           \/ fails' = [fails EXCEPT ![f].stored = TRUE]
  PROVE  /\ fails' \in Seq(FailureType) /\ Len(fails') <= MaxFailures
         /\ \A g \in DOMAIN fails' : fails'[g].plan \in Referable
<1>1. /\ fails \in Seq(FailureType) /\ Len(fails) <= MaxFailures
      /\ \A g \in DOMAIN fails : fails[g].plan \in Referable
      /\ None \in Referable
  BY Nothing
<1>2. fails[f] \in FailureType
  BY <1>1
<1>3. PICK r \in {Settled, [fails[f] EXCEPT !.choice = "asked"],
                  [fails[f] EXCEPT !.stored = TRUE]} :
        fails' = [fails EXCEPT ![f] = r]
  OBVIOUS
<1>4. Settled \in FailureType /\ Settled.plan = None
  BY FailureTypes, PlanAssumption DEF Categories
<1>5. r \in FailureType /\ r.plan \in Referable
  BY <1>1, <1>2, <1>3, <1>4 DEF FailureType, Choices
<1>6. fails' \in Seq(FailureType) /\ Len(fails') = Len(fails)
  BY <1>1, <1>3, <1>5
<1>7. \A g \in DOMAIN fails' : fails'[g].plan \in Referable
  BY <1>1, <1>3, <1>5
<1> QED BY <1>1, <1>6, <1>7

LEMMA AskDirectionKeeps ==
  ASSUME IInv, NEW f \in DOMAIN fails, AskDirection(f) PROVE IInv'
<1>1. fails' = [fails EXCEPT ![f].choice = "asked"]
  BY DEF AskDirection
<1>2. /\ fails' \in Seq(FailureType) /\ Len(fails') <= MaxFailures
      /\ \A g \in DOMAIN fails' : fails'[g].plan \in Referable
  BY <1>1, RecordAnswered
<1> QED BY <1>2, Nothing, Waits DEF AskDirection, history, IInv, TypeOK

LEMMA CancelKeeps ==
  ASSUME IInv, NEW f \in DOMAIN fails, Cancel(f) PROVE IInv'
<1> DEFINE p == fails[f].plan
<1>1. fails' = [fails EXCEPT ![f] = Settled]
  BY DEF Cancel
<1>2. /\ fails' \in Seq(FailureType) /\ Len(fails') <= MaxFailures
      /\ \A g \in DOMAIN fails' : fails'[g].plan \in Referable
  BY <1>1, RecordAnswered
<1>3. UNCHANGED <<context, turn, applied, tried, approved, crashes>>
  BY DEF Cancel
<1>4. CASE p = None
  <2>1. UNCHANGED <<plans, revoked>>
    BY <1>4 DEF Cancel
  <2> QED BY <1>2, <1>3, <2>1, Nothing, Waits DEF Cancel, IInv, TypeOK
<1>5. CASE p # None
  <2> DEFINE q == [plans[p] EXCEPT !.st = "aborted"]
  <2>1. p \in Existing /\ p \in Plans
    BY <1>5, Nothing, ReferenceType DEF Referable
  <2>2. /\ plans[p] \in PlanType /\ PlanOK(p, plans[p], approved, tried, applied)
        /\ plans \in [Plans -> PlanType]
    BY <2>1 DEF IInv, TypeOK, PlansOK
  <2>3. /\ q \in PlanType /\ q.steps = plans[p].steps /\ q.st = "aborted"
        /\ q.change = plans[p].change /\ q.cursor = plans[p].cursor
        /\ q.auth = plans[p].auth
    BY <2>2 DEF PlanType, PlanStates
  <2>4. PlanOK(p, q, approved, tried, applied)
    BY <2>1, <2>2, <2>3, StatusOnly
  <2>5. plans' = [plans EXCEPT ![p] = q] /\ revoked' = revoked \cup {p}
    <3>1. /\ plans' = [plans EXCEPT ![p].st = "aborted"]
          /\ revoked' = revoked \cup {p}
      BY <1>5 DEF Cancel
    <3> QED BY <2>1, <2>2, <3>1
  <2>6. /\ plans' \in [Plans -> PlanType]
        /\ PlansOK' /\ Numbered' /\ Attempts' /\ Existing' = Existing
    BY <1>3, <2>1, <2>3, <2>4, <2>5, PlanWritten
  <2>7. turn'.at = "idle"
    BY DEF Cancel
  <2>8. TypeOK'
    BY <1>2, <1>3, <2>1, <2>5, <2>6 DEF IInv, TypeOK
  <2>9. References'
    BY <1>2, <1>3, <2>6 DEF IInv, References, Referable
  <2> QED BY <2>6, <2>7, <2>8, <2>9, TurnOver DEF IInv
<1> QED BY <1>4, <1>5

\* The plan to recover from exists and is not completed.
LEMMA Recoverable ==
  ASSUME IInv, NEW f \in DOMAIN fails, RecoveryPlan(f) # None
  PROVE  RecoveryPlan(f) \in Existing /\ plans[RecoveryPlan(f)].st # "completed"
<1> DEFINE p == fails[f].plan
<1>1. p \in Referable /\ Predecessor \in Referable
  BY Nothing DEF Predecessor
<1>2. CASE p # None /\ Resumable(p)
  <2>1. p \in Existing
    BY <1>1, <1>2 DEF Referable
  <2>2. PlanOK(p, plans[p], approved, tried, applied)
    BY <2>1, ReferenceType DEF IInv, PlansOK
  <2>3. plans[p].st # "completed"
    BY <1>2, <2>2 DEF Resumable, PlanOK, Fresh, Accepted
  <2> QED BY <1>2, <2>1, <2>3 DEF RecoveryPlan
<1>3. CASE ~(p # None /\ Resumable(p))
  BY <1>1, <1>3 DEF RecoveryPlan, Referable
<1> QED BY <1>2, <1>3

\* The one automatic retry is that of the only step that was started and has
\* not completed.
LEMMA RetryInOrder ==
  ASSUME IInv, NEW p \in Existing, CanRetry(p)
  PROVE  /\ p \in approved /\ ~plans[p].cursor
         /\ \A s \in Steps : Waiting(plans[p].steps[s]) \/ Retriable(plans[p].steps[s])
<1> DEFINE S == {s \in Steps : /\ plans[p].steps[s].st = "paused"
                               /\ plans[p].steps[s].ev = "unchanged"
                               /\ plans[p].steps[s].tries = 1}
<1>1. PlanOK(p, plans[p], approved, tried, applied)
  BY ReferenceType DEF IInv, PlansOK
<1>2. PICK s \in S : TRUE
  <2>1. Cardinality(S) = 1
    BY DEF CanRetry
  <2> QED BY <2>1, FS_EmptySet
<1>3. s \in Steps /\ Retriable(plans[p].steps[s])
  BY <1>2 DEF Retriable
<1>4. \A t \in Steps : /\ t < s => plans[p].steps[t].st = "completed"
                       /\ s < t => Waiting(plans[p].steps[t])
  BY <1>1, <1>3 DEF PlanOK, InOrder, Active
<1>5. Steps \subseteq Int
  BY PlanAssumption DEF Steps
<1>6. \A t \in Steps : Waiting(plans[p].steps[t]) \/ t = s
  BY <1>3, <1>4, <1>5 DEF Waiting
<1>7. ~plans[p].cursor
  BY <1>1, <1>2 DEF PlanOK, Fresh, Waiting
<1> QED BY <1>1, <1>3, <1>6, <1>7 DEF PlanOK, CanRetry

\* Where the answer to a failure takes the turn.
LEMMA Recovering ==
  ASSUME IInv, NEW f \in DOMAIN fails, NEW proposed \in BOOLEAN,
         UNCHANGED <<plans, context, applied, history>>,
         fails' = [fails EXCEPT ![f] = Settled],
         turn' = Recovery(f, proposed)
  PROVE  IInv'
<1> DEFINE p == RecoveryPlan(f)
           going == proposed /\ p # None
           judging == going /\ fails[f].category = "post_execution"
           binding == /\ going /\ fails[f].category = "binding"
                      /\ ~fails[f].changed /\ plans[p].cursor
           running == going /\ CanRetry(p) /\ fails[f].category # "post_execution"
<1>1. /\ fails' \in Seq(FailureType) /\ Len(fails') <= MaxFailures
      /\ \A g \in DOMAIN fails' : fails'[g].plan \in Referable
  BY RecordAnswered
<1>2. /\ p # None => p \in Existing /\ plans[p].st # "completed"
      /\ p \in Referable /\ p \in 0..MaxPlans
      /\ fails[f].plan \in Referable /\ fails[f].plan \in 0..MaxPlans
  BY Recoverable, Nothing, ReferenceType DEF Referable
<1>3. /\ p # None => p \in Plans /\ PlanOK(p, plans[p], approved, tried, applied)
      /\ PlansOK' /\ Numbered' /\ Attempts' /\ Existing' = Existing
  BY <1>2, ReferenceType, PlansKept DEF IInv, PlansOK, history
<1>0. ~(binding /\ running)
  <2>1. running => ~plans[p].cursor
    BY <1>2, RetryInOrder
  <2> QED BY <2>1
<1>8. /\ judging => turn' = [NoTurn EXCEPT !.at = "judge", !.plan = p]
      /\ binding => turn' = [NoTurn EXCEPT !.at = "bind", !.plan = p,
                               !.origin = "rebind", !.cause = fails[f].plan]
      /\ running => turn' = [NoTurn EXCEPT !.at = "run", !.plan = p]
      /\ ~judging /\ ~binding /\ ~running =>
           turn' = [Planning(p, IF p = None THEN Absent ELSE plans[p], "recover",
                             IF p # None /\ plans[p].st \in {"paused", "blocked"}
                             THEN p ELSE context.ran)
                      EXCEPT !.cause = fails[f].plan]
  BY <1>0 DEF Recovery
<1>9. /\ going => p # None
      /\ binding => plans[p].cursor
      /\ running => CanRetry(p)
  OBVIOUS
<1> HIDE DEF p, going, judging, binding, running
<1>4. CASE judging
  <2>1. turn' = [NoTurn EXCEPT !.at = "judge", !.plan = p]
    BY <1>4, <1>8
  <2> QED BY <1>1, <1>2, <1>4, <2>1, JudgeOpened DEF judging, going
<1>5. CASE binding
  <2>1. p # None /\ plans[p].cursor
    BY <1>5, <1>9 DEF binding
  <2> QED BY <1>1, <1>2, <1>3, <1>5, <1>8, <2>1, RebindOpened DEF PlanOK
<1>6. CASE running
  <2>1. p # None /\ CanRetry(p)
    BY <1>6, <1>9 DEF running
  <2>2. /\ p \in approved /\ ~plans[p].cursor
        /\ \A s \in Steps :
             Waiting(plans[p].steps[s]) \/ Retriable(plans[p].steps[s])
    BY <1>2, <2>1, RetryInOrder
  <2> QED BY <1>1, <1>2, <1>6, <1>8, <2>1, <2>2, RunOpened
<1>7. CASE ~judging /\ ~binding /\ ~running
  <2> DEFINE ran == IF p # None /\ plans[p].st \in {"paused", "blocked"}
                    THEN p ELSE context.ran
  <2>1. turn' = [Planning(p, IF p = None THEN Absent ELSE plans[p], "recover", ran)
                   EXCEPT !.cause = fails[f].plan]
    BY <1>7, <1>8
  <2>2. ran \in Referable /\ context' \in [active : Referable, ran : Referable]
    BY <1>2, Nothing
  <2>3. PlansSettled /\ revoked' \subseteq Plans
    BY KeptSettled DEF history, IInv, TypeOK
  <2>4. "recover" \in Origins
    BY DEF Origins
  <2> HIDE DEF ran
  <2> QED BY <1>1, <1>2, <2>1, <2>2, <2>3, <2>4, PlanningOpened DEF history
<1> QED BY <1>4, <1>5, <1>6, <1>7

LEMMA AnsweredKeeps ==
  ASSUME IInv, NEW f \in DOMAIN fails, Answered(f) \/ GiveDirection(f)
  PROVE  IInv'
BY Recovering DEF Answered, GiveDirection

LEMMA RequestKeeps ==
  ASSUME IInv, Request PROVE IInv'
BY NewGoalKeeps, SupersedeKeeps, RefineKeeps, ResumeDraftKeeps, ResumeKeeps,
   ApproveKeeps, RejectContractKeeps, ConfirmAgainKeeps, ConfirmCompletedKeeps,
   AnsweredKeeps, AskDirectionKeeps, CancelKeeps DEF Request

-----------------------------------------------------------------------------
(* The invariant is kept by planning and binding.                           *)

LEMMA TellKeeps ==
  ASSUME IInv, Tell PROVE IInv'
<1>1. Len(fails) \in DOMAIN fails
  BY Nothing DEF Tell, IInv, ExecutionOK
<1>2. /\ fails' \in Seq(FailureType) /\ Len(fails') <= MaxFailures
      /\ \A g \in DOMAIN fails' : fails'[g].plan \in Referable
  BY <1>1, RecordAnswered DEF Tell
<1>3. context' \in [active : Referable, ran : Referable]
  BY DEF Tell, IInv, References
<1> QED BY <1>2, <1>3, Waits DEF Tell, history, IInv, TypeOK

\* A record that embeds no plan.
LEMMA RecordMade ==
  ASSUME IInv, RoomForFailure, UNCHANGED <<plans, context, applied, history>>,
         NEW p \in Referable, NEW active \in Referable, NEW ran \in Referable,
         NEW category \in Categories,
         fails' = Append(fails, Failure(p, category, FALSE, FALSE)),
         turn' = [NoTurn EXCEPT !.at = "tell", !.plan = active, !.ran = ran]
  PROVE  IInv'
<1>1. p \in 0..MaxPlans /\ active \in 0..MaxPlans /\ ran \in 0..MaxPlans
  BY ReferenceType
<1>2. /\ turn' \in TurnType /\ turn'.at = "tell" /\ turn'.plan = active
      /\ turn'.ran = ran /\ turn'.pred = None /\ turn'.cause = None
  BY <1>1, TurnTypes DEF TurnType, Points
<1>3. /\ Failure(p, category, FALSE, FALSE) \in FailureType
      /\ Failure(p, category, FALSE, FALSE).plan = p
  BY <1>1, FailureTypes
<1>4. /\ fails' \in Seq(FailureType) /\ Len(fails') <= MaxFailures
      /\ fails' # <<>>
      /\ \A f \in DOMAIN fails' : fails'[f].plan \in Referable
  BY <1>3, Nothing, NewRecord DEF RoomForFailure
<1>5. PlansOK' /\ Numbered' /\ Attempts' /\ Existing' = Existing
  BY PlansKept DEF history
<1>6. TypeOK'
  BY <1>2, <1>4 DEF IInv, TypeOK, history
<1>7. References'
  BY <1>2, <1>4, <1>5 DEF IInv, References, Referable
<1> QED BY <1>2, <1>4, <1>5, <1>6, <1>7, TurnOver DEF IInv

\* The plan to be succeeded, as the turn has it.
LEMMA ThePredecessor ==
  ASSUME IInv, turn.at \in {"plan", "bind"}
  PROVE  /\ turn.pred \in Referable /\ turn.ran \in Referable
         /\ turn.cause \in Referable /\ turn.old \in PlanType
         /\ MayHaveChanged(turn.old) \in BOOLEAN
         /\ turn.pred # None =>
              /\ turn.pred \in Existing
              /\ PlanOK(turn.pred, turn.old, approved, tried, applied)
BY DEF IInv, TypeOK, TurnType, References, Referable, PlanningOK, MayHaveChanged

LEMMA PlanAgainKeeps ==
  ASSUME IInv, PlanAgain PROVE IInv'
<1>1. /\ turn \in TurnType /\ turn.rounds + 1 \in 0..MaxRounds
  BY PlanAssumption DEF PlanAgain, IInv, TypeOK, TurnType
<1>2. /\ turn' \in TurnType /\ turn'.at = turn.at /\ turn'.plan = turn.plan
      /\ turn'.pred = turn.pred /\ turn'.old = turn.old /\ turn'.ran = turn.ran
      /\ turn'.origin = turn.origin /\ turn'.cause = turn.cause
  BY <1>1 DEF PlanAgain, TurnType
<1>3. PlansOK' /\ Numbered' /\ Attempts' /\ Existing' = Existing
  BY PlansKept DEF PlanAgain, history
<1>4. TypeOK'
  BY <1>2 DEF PlanAgain, history, IInv, TypeOK
<1>5. References'
  BY <1>2, <1>3 DEF PlanAgain, IInv, References, Referable
<1>6. PlanningOK' /\ BindingOK' /\ ExecutionOK'
  BY <1>2 DEF PlanAgain, history, IInv, PlanningOK, BindingOK, ExecutionOK
<1> QED BY <1>3, <1>4, <1>5, <1>6 DEF IInv

LEMMA PlanFailsKeeps ==
  ASSUME IInv, PlanFails PROVE IInv'
<1>1. PICK category \in {"planning", "binding"} :
        IF turn.pred = None
        THEN /\ RoomForFailure
             /\ fails' = Append(fails, Failure(None, category, FALSE, FALSE))
             /\ turn' = [NoTurn EXCEPT !.at = "tell", !.ran = turn.ran]
             /\ UNCHANGED <<plans, context>>
        ELSE FailWith(turn.pred, turn.old, category, MayHaveChanged(turn.old),
                      turn.pred, turn.ran)
  BY DEF PlanFails
<1>2. category \in Categories
  BY DEF Categories
<1>3. CASE turn.pred = None
  <2>1. /\ RoomForFailure /\ UNCHANGED <<plans, context, applied, history>>
        /\ fails' = Append(fails, Failure(None, category, FALSE, FALSE))
        /\ turn' = [NoTurn EXCEPT !.at = "tell", !.ran = turn.ran]
    BY <1>1, <1>3 DEF PlanFails
  <2>2. turn' = [NoTurn EXCEPT !.at = "tell", !.plan = None, !.ran = turn.ran]
    BY <2>1, TurnTypes DEF TurnType
  <2> QED BY <1>2, <2>1, <2>2, Nothing, ThePredecessor, RecordMade DEF PlanFails
<1>4. CASE turn.pred # None
  <2>1. FailWith(turn.pred, turn.old, category, MayHaveChanged(turn.old),
                 turn.pred, turn.ran)
    BY <1>1, <1>4
  <2> QED BY <1>2, <1>4, <2>1, ThePredecessor, Failing DEF PlanFails, history
<1> QED BY <1>3, <1>4

LEMMA PlanRaisesKeeps ==
  ASSUME IInv, PlanRaises PROVE IInv'
<1>1. CASE turn.origin = "post"
  <2>1. turn.pred # None
    BY <1>1 DEF PlanRaises, IInv, PlanningOK
  <2>2. FailWith(turn.pred, turn.old, "post_execution",
                 MayHaveChanged(turn.old), context.active, context.ran)
    BY <1>1 DEF PlanRaises
  <2> QED BY <2>1, <2>2, ThePredecessor, Nothing, Failing
          DEF PlanRaises, Categories, history
<1>2. CASE turn.origin # "post"
  <2>1. PICK p \in CASE turn.origin = "recover" -> {turn.cause}
                     [] turn.origin # "recover" /\ Existing = {} -> {None}
                     [] OTHER -> Existing :
          /\ RoomForFailure
          /\ fails' = Append(fails, Failure(p, "planning", FALSE, FALSE))
          /\ turn' = [NoTurn EXCEPT !.at = "tell",
                        !.plan = CASE turn.origin = "goal" /\ p # None -> p
                                   [] turn.origin = "draft" -> None
                                   [] OTHER -> context.active,
                        !.ran = context.ran]
          /\ UNCHANGED <<plans, context>>
    BY <1>2 DEF PlanRaises
  <2>2. p \in Referable
    BY <2>1, ThePredecessor, Nothing DEF PlanRaises, Referable
  <2>3. PICK active \in Referable :
          turn' = [NoTurn EXCEPT !.at = "tell", !.plan = active, !.ran = context.ran]
    BY <2>1, <2>2, Nothing
  <2>4. "planning" \in Categories
    BY DEF Categories
  <2> QED BY <2>1, <2>2, <2>3, <2>4, Nothing, RecordMade DEF PlanRaises
<1> QED BY <1>1, <1>2

LEMMA NothingToPlanKeeps ==
  ASSUME IInv, NothingToPlan PROVE IInv'
<1>1. context' \in [active : Referable, ran : Referable]
  BY Nothing DEF NothingToPlan
<1> QED BY <1>1, Nothing, Waits DEF NothingToPlan, history, IInv, TypeOK

LEMMA PlanReadyKeeps ==
  ASSUME IInv, PlanReady PROVE IInv'
<1> DEFINE p == Cardinality(Existing) + 1
           q == [Absent EXCEPT !.st = "draft"]
<1>1. PICK n \in 0..MaxPlans : Existing = 1..n
  BY DEF IInv, Numbered
<1>2. Cardinality(Existing) = n /\ p = n + 1
  BY <1>1, FS_Interval, PlanAssumption
<1>3. n + 1 \in 1..MaxPlans
  BY <1>1, <1>2, PlanAssumption DEF PlanReady, RoomForPlan
<1>4. /\ p \in Plans /\ p \notin Existing /\ p # None /\ p \in 0..MaxPlans
      /\ Existing \cup {p} = 1..(n + 1) /\ n + 1 \in 0..MaxPlans
  BY <1>1, <1>2, <1>3, PlanAssumption DEF Plans, None
<1>5. plans' = [plans EXCEPT ![p] = q] /\ turn' = [turn EXCEPT !.at = "bind", !.plan = p]
  BY DEF PlanReady
<1> HIDE DEF p
<1>6. plans \in [Plans -> PlanType] /\ turn \in TurnType /\ tried \in History
  BY DEF IInv, TypeOK, History
<1>7. plans[p] = Absent
  BY <1>4 DEF IInv, PlansOK, PlanOK, Existing
<1>8. \A s \in Steps : /\ StepOK(Absent.steps[s], tried[<<p, s>>], applied[p][s],
                                 Done(s, applied))
                       /\ Absent.steps[s].st = "pending"
                       /\ tried[<<p, s>>] = 0
  <2>1. \A s \in Steps : StepOK(plans[p].steps[s], tried[<<p, s>>], applied[p][s],
                                Done(s, applied))
    BY <1>4 DEF IInv, PlansOK, PlanOK
  <2>2. \A s \in Steps : Absent.steps[s].st = "pending"
    BY DEF Absent, Untouched
  <2> QED BY <1>7, <2>1, <2>2 DEF StepOK
<1>9. /\ q \in PlanType /\ q.st = "draft" /\ q.auth = FALSE
      /\ q.cursor = FALSE /\ q.change = "pending" /\ q.steps = Absent.steps
  <2>1. /\ Absent \in PlanType /\ Absent.auth = FALSE
        /\ Absent.cursor = FALSE /\ Absent.change = "pending"
    BY TurnTypes DEF Absent
  <2> QED BY <2>1 DEF PlanType, PlanStates
<1>10. Fresh(p, q, tried)
  BY <1>8, <1>9 DEF Fresh, Waiting
<1>11. PlanOK(p, q, approved, tried, applied)
  BY <1>4, <1>6, <1>8, <1>9, <1>10, FreshPlan
<1> HIDE DEF q
<1>12. /\ plans' \in [Plans -> PlanType] /\ plans'[p] = q
       /\ \A r \in Plans \ {p} : plans'[r] = plans[r]
  BY <1>4, <1>5, <1>6, <1>9
<1>13. Existing' = Existing \cup {p}
  BY <1>4, <1>9, <1>12 DEF Existing
<1>14. PlansOK' /\ Attempts' /\ Numbered'
  BY <1>1, <1>4, <1>11, <1>12, <1>13
     DEF PlanReady, history, IInv, PlansOK, Attempts, Numbered
<1>15. /\ turn' \in TurnType /\ turn'.at = "bind" /\ turn'.plan = p
       /\ turn'.pred = turn.pred /\ turn'.old = turn.old /\ turn'.ran = turn.ran
       /\ turn'.origin = turn.origin /\ turn'.cause = turn.cause
  BY <1>4, <1>5, <1>6 DEF TurnType, Points
<1>16. TypeOK'
  BY <1>12, <1>15 DEF PlanReady, history, IInv, TypeOK
<1>17. References'
  BY <1>4, <1>13, <1>15 DEF PlanReady, IInv, References, Referable
<1>18. /\ turn.pred # None => turn.pred \in Plans \ {p}
       /\ turn.pred # p
  BY <1>4, ReferenceType, ThePredecessor DEF PlanReady
<1>19. PlanningOK'
  BY <1>12, <1>15, <1>18 DEF PlanReady, history, IInv, PlanningOK
<1>20. BindingOK'
  BY <1>4, <1>10, <1>12, <1>15, <1>18
     DEF PlanReady, history, IInv, PlanningOK, BindingOK
<1>21. ExecutionOK'
  BY <1>15 DEF ExecutionOK
<1> QED BY <1>14, <1>16, <1>17, <1>19, <1>20, <1>21 DEF IInv

\* The plan that is being bound: nothing of it has been started, and what it
\* inherits has been there before.
LEMMA Binding ==
  ASSUME IInv, turn.at = "bind"
  PROVE  /\ turn.plan \in Existing /\ turn.plan \in Plans /\ turn.plan # turn.pred
         /\ plans[turn.plan] \in PlanType
         /\ Inherits(plans[turn.plan]) \in PlanType
         /\ \A q \in PlanType :
              /\ \/ q.steps = Inherits(plans[turn.plan]).steps
                 \/ q.steps = plans[turn.plan].steps
              /\ q.change = plans[turn.plan].change
              /\ q.auth => plans[turn.plan].auth
              /\ q.st \in {"draft", "paused", "blocked", "awaiting_confirmation",
                           plans[turn.plan].st}
              /\ q.st = "awaiting_confirmation" => ~q.cursor
              => /\ PlanOK(turn.plan, q, approved, tried, applied)
                 /\ Fresh(turn.plan, q, tried)
         /\ Inherits(plans[turn.plan]).change = plans[turn.plan].change
         /\ Inherits(plans[turn.plan]).st = plans[turn.plan].st
         /\ Inherits(plans[turn.plan]).auth = plans[turn.plan].auth
         /\ Inherits(plans[turn.plan]).cursor = plans[turn.plan].cursor
         /\ Inherits(plans[turn.plan]).asks = plans[turn.plan].asks
         /\ plans[turn.plan].st = "awaiting_confirmation" => ~plans[turn.plan].cursor
<1> DEFINE p == turn.plan
           plan == plans[p]
           new == Inherits(plan)
<1>1. /\ p \in Existing /\ p \in Plans /\ p # turn.pred
      /\ Fresh(p, plan, tried) /\ plan \in PlanType
      /\ PlanOK(p, plan, approved, tried, applied)
      /\ turn.old \in PlanType /\ tried \in History
  BY ReferenceType, ThePredecessor
     DEF IInv, BindingOK, References, Referable, TypeOK, PlansOK, History
<1>2. /\ new \in PlanType /\ new.change = plan.change /\ new.st = plan.st
      /\ new.auth = plan.auth /\ new.cursor = plan.cursor /\ new.asks = plan.asks
      /\ new.steps = [s \in Steps |->
           IF s \in ScreenSteps /\ turn.old.steps[s].st = "completed"
             THEN turn.old.steps[s] ELSE plan.steps[s]]
  BY <1>1 DEF Inherits, PlanType
<1>3. ASSUME NEW s \in Steps
      PROVE  /\ Waiting(new.steps[s]) /\ Waiting(plan.steps[s])
             /\ StepOK(plan.steps[s], tried[<<p, s>>], applied[p][s], Done(s, applied))
             /\ StepOK(new.steps[s], tried[<<p, s>>], applied[p][s], Done(s, applied))
  <2>1. /\ tried[<<p, s>>] = 0 /\ Waiting(plan.steps[s])
        /\ StepOK(plan.steps[s], tried[<<p, s>>], applied[p][s], Done(s, applied))
    BY <1>1 DEF Fresh, PlanOK
  <2>2. CASE s \in ScreenSteps /\ turn.old.steps[s].st = "completed"
    <3>1. turn.pred # None
      BY <2>2 DEF IInv, PlanningOK, Absent, Untouched
    <3>2. StepOK(turn.old.steps[s], tried[<<turn.pred, s>>],
                 applied[turn.pred][s], Done(s, applied))
      BY <3>1, ThePredecessor DEF PlanOK
    <3>3. new.steps[s] = turn.old.steps[s]
      BY <1>2, <2>2
    <3> QED BY <2>1, <2>2, <3>2, <3>3 DEF StepOK, Waiting
  <2>3. CASE ~(s \in ScreenSteps /\ turn.old.steps[s].st = "completed")
    BY <1>2, <2>1, <2>3
  <2> QED BY <2>2, <2>3
<1>4. plan.st \notin {"completed", "absent"}
  BY <1>1 DEF PlanOK, Fresh, Accepted, Existing
<1>5. ASSUME NEW q \in PlanType,
             q.steps = new.steps \/ q.steps = plan.steps,
             q.change = plan.change, q.auth => plan.auth,
             q.st \in {"draft", "paused", "blocked", "awaiting_confirmation", plan.st},
             q.st = "awaiting_confirmation" => ~q.cursor
      PROVE  PlanOK(p, q, approved, tried, applied) /\ Fresh(p, q, tried)
  <2>1. Fresh(p, q, tried)
    BY <1>1, <1>3, <1>5 DEF Fresh
  <2>2. \A s \in Steps :
          StepOK(q.steps[s], tried[<<p, s>>], applied[p][s], Done(s, applied))
    BY <1>3, <1>5
  <2>3. q.auth => p \in approved
    BY <1>1, <1>5 DEF PlanOK
  <2>4. q.st \notin {"completed", "absent"}
    BY <1>4, <1>5
  <2> QED BY <1>1, <1>5, <2>1, <2>2, <2>3, <2>4, FreshPlan
<1>6. plan.st = "awaiting_confirmation" => ~plan.cursor
  BY <1>1 DEF PlanOK
<1> HIDE DEF p, plan, new
<1> QED BY <1>1, <1>2, <1>5, <1>6 DEF p, plan, new

\* What is saved of a plan that is refused.
LEMMA Drafting ==
  ASSUME IInv, turn.at = "bind", NEW q \in Drafts(plans[turn.plan])
  PROVE  /\ q \in PlanType /\ q.st = "draft" /\ q.auth = FALSE
         /\ q.change = plans[turn.plan].change
         /\ q.asks = plans[turn.plan].asks
         /\ \/ q.steps = Inherits(plans[turn.plan]).steps
            \/ q.steps = plans[turn.plan].steps
         /\ PlanOK(turn.plan, q, approved, tried, applied)
         /\ Fresh(turn.plan, q, tried)
<1> DEFINE plan == plans[turn.plan]
           new == Inherits(plan)
           d == [new EXCEPT !.st = "draft", !.auth = FALSE]
           e == [d EXCEPT !.cursor = FALSE]
           o == [plan EXCEPT !.st = "draft", !.auth = FALSE]
<1>1. /\ plan \in PlanType /\ new \in PlanType /\ new.change = plan.change
      /\ new.asks = plan.asks
  BY Binding
<1>2. q \in {d, e, o}
  BY DEF Drafts
<1> HIDE DEF plan, new
<1>3. /\ d \in PlanType /\ d.st = "draft" /\ d.auth = FALSE
      /\ d.change = plan.change /\ d.asks = plan.asks /\ d.steps = new.steps
  BY <1>1 DEF PlanType, PlanStates
<1>4. /\ o \in PlanType /\ o.st = "draft" /\ o.auth = FALSE
      /\ o.change = plan.change /\ o.asks = plan.asks /\ o.steps = plan.steps
  BY <1>1 DEF PlanType, PlanStates
<1> HIDE DEF d, o
<1>5. /\ e \in PlanType /\ e.st = "draft" /\ e.auth = FALSE
      /\ e.change = plan.change /\ e.asks = plan.asks /\ e.steps = new.steps
  BY <1>3 DEF PlanType
<1> HIDE DEF e
<1>6. /\ q \in PlanType /\ q.st = "draft" /\ q.auth = FALSE
      /\ q.change = plan.change /\ q.asks = plan.asks
      /\ q.steps = new.steps \/ q.steps = plan.steps
  BY <1>2, <1>3, <1>4, <1>5
<1> QED BY <1>6, Binding DEF plan, new

\* A plan being bound is saved, and binding goes on.
LEMMA BindingGoesOn ==
  ASSUME IInv, turn.at = "bind", NEW q \in PlanType,
         q.steps = Inherits(plans[turn.plan]).steps
           \/ q.steps = plans[turn.plan].steps,
         q.change = plans[turn.plan].change, q.st = "draft", ~q.auth,
         plans' = [plans EXCEPT ![turn.plan] = q],
         turn' \in TurnType, turn'.at = "bind", turn'.plan = turn.plan,
         turn'.pred = turn.pred, turn'.old = turn.old, turn'.ran = turn.ran,
         turn'.origin = turn.origin, turn'.cause = turn.cause,
         UNCHANGED <<fails, context, applied, history>>
  PROVE  IInv'
<1> DEFINE p == turn.plan
<1>1. /\ p \in Existing /\ p \in Plans /\ p # turn.pred
  BY Binding
<1>2. PlanOK(p, q, approved, tried, applied) /\ Fresh(p, q, tried)
  BY Binding
<1>3. /\ plans' \in [Plans -> PlanType] /\ plans'[p] = q
      /\ \A r \in Plans \ {p} : plans'[r] = plans[r]
      /\ PlansOK' /\ Numbered' /\ Attempts' /\ Existing' = Existing
  BY <1>1, <1>2, PlanWritten DEF history
<1>4. TypeOK'
  BY <1>3 DEF history, IInv, TypeOK
<1>5. References'
  BY <1>3 DEF IInv, References, Referable
<1>6. turn.pred # None => turn.pred \in Plans \ {p}
  BY <1>1, ReferenceType, ThePredecessor
<1>7. PlanningOK' /\ BindingOK'
  BY <1>2, <1>3, <1>6 DEF history, IInv, PlanningOK, BindingOK
<1>8. ExecutionOK'
  BY DEF ExecutionOK
<1> QED BY <1>3, <1>4, <1>5, <1>7, <1>8 DEF IInv

LEMMA CheckpointKeeps ==
  ASSUME IInv, Checkpoint PROVE IInv'
<1> DEFINE plan == plans[turn.plan]
           q == [plan EXCEPT !.cursor = TRUE, !.st = "draft", !.auth = FALSE]
<1>1. plan \in PlanType /\ turn.plan \in Plans
  BY Binding DEF Checkpoint
<1>2. plans' = [plans EXCEPT ![turn.plan] = q]
  BY <1>1 DEF Checkpoint, IInv, TypeOK
<1> HIDE DEF plan
<1>3. /\ q \in PlanType /\ q.steps = plan.steps /\ q.change = plan.change
      /\ q.st = "draft" /\ ~q.auth
  BY <1>1 DEF PlanType, PlanStates
<1> HIDE DEF q
<1> QED BY <1>2, <1>3, BindingGoesOn DEF Checkpoint, IInv, TypeOK, plan

LEMMA BindResumesKeeps ==
  ASSUME IInv, BindResumes PROVE IInv'
<1> DEFINE plan == plans[turn.plan]
           new == Inherits(plan)
           q == [new EXCEPT !.st = "draft", !.auth = FALSE]
<1>1. /\ new \in PlanType /\ new.change = plan.change /\ turn.plan \in Plans
  BY Binding DEF BindResumes
<1>2. plans' = [plans EXCEPT ![turn.plan] = q]
  BY <1>1 DEF BindResumes, IInv, TypeOK
<1>3. /\ turn' \in TurnType /\ turn'.at = "bind" /\ turn'.plan = turn.plan
      /\ turn'.pred = turn.pred /\ turn'.old = turn.old /\ turn'.ran = turn.ran
      /\ turn'.origin = turn.origin /\ turn'.cause = turn.cause
  BY DEF BindResumes, IInv, TypeOK, TurnType
<1> HIDE DEF new, plan
<1>4. /\ q \in PlanType /\ q.steps = new.steps /\ q.change = plan.change
      /\ q.st = "draft" /\ ~q.auth
  BY <1>1 DEF PlanType, PlanStates
<1> HIDE DEF q
<1> QED BY <1>2, <1>3, <1>4, BindingGoesOn DEF BindResumes, new, plan

LEMMA RebindRaisesKeeps ==
  ASSUME IInv, RebindRaises PROVE IInv'
<1>1. context \in [active : Referable, ran : Referable]
  BY DEF IInv, TypeOK, References
<1> QED BY <1>1, Nothing, Waits DEF RebindRaises, history, IInv, TypeOK

LEMMA BindOkKeeps ==
  ASSUME IInv, BindOk PROVE IInv'
<1> DEFINE p == turn.plan
           q == Bound(plans[p])
<1>1. /\ p \in Existing /\ p \in Plans /\ plans[p] \in PlanType
      /\ Inherits(plans[p]) \in PlanType
  BY Binding DEF BindOk
<1>2. /\ q \in PlanType /\ q.steps = Inherits(plans[p]).steps
      /\ q.st = "awaiting_confirmation" /\ q.auth = FALSE /\ q.cursor = FALSE
      /\ q.change = Inherits(plans[p]).change
  BY <1>1 DEF Bound, PlanType, PlanStates
<1>3. PlanOK(p, q, approved, tried, applied)
  BY <1>2, Binding DEF BindOk
<1>4. plans' = [plans EXCEPT ![p] = q]
  BY <1>1 DEF BindOk, IInv, TypeOK
<1> HIDE DEF q
<1>5. /\ plans' \in [Plans -> PlanType]
      /\ PlansOK' /\ Numbered' /\ Attempts' /\ Existing' = Existing
  BY <1>1, <1>2, <1>3, <1>4, PlanWritten DEF BindOk, history
<1>6. context' \in [active : Referable, ran : Referable] /\ turn' = NoTurn
  BY <1>1, ThePredecessor, Nothing DEF BindOk, Referable
<1>7. TypeOK'
  BY <1>5, <1>6, TurnTypes, ReferenceType DEF BindOk, history, IInv, TypeOK
<1>8. References'
  BY <1>5, <1>6, TurnTypes DEF BindOk, IInv, References, Referable
<1> QED BY <1>5, <1>6, <1>7, <1>8, TurnOver, TurnTypes DEF IInv

LEMMA BindRefusedKeeps ==
  ASSUME IInv, BindRefused PROVE IInv'
<1> DEFINE p == turn.plan
<1>1. /\ p \in Existing /\ p \in Plans /\ p # turn.pred /\ plans[p] \in PlanType
  BY Binding DEF BindRefused
<1>2. PICK q \in Drafts(plans[p]) :
        /\ plans' = [plans EXCEPT ![p] = q]
        /\ turn' = IF turn.origin = "rebind"
                   THEN [Planning(p, q, "recover", context.ran)
                           EXCEPT !.cause = turn.cause]
                   ELSE [turn EXCEPT !.at = "plan", !.plan = None, !.again = TRUE]
  BY DEF BindRefused
<1>3. q \in PlanType /\ q.st = "draft" /\ q.auth = FALSE
  BY Drafting DEF BindRefused
<1>4. PlanOK(p, q, approved, tried, applied)
  BY Drafting DEF BindRefused
<1>5. /\ plans' \in [Plans -> PlanType] /\ plans'[p] = q
      /\ \A r \in Plans \ {p} : plans'[r] = plans[r]
      /\ PlansOK' /\ Numbered' /\ Attempts' /\ Existing' = Existing
  BY <1>1, <1>3, <1>4, <1>2, PlanWritten DEF BindRefused, history
<1>6. /\ p \in 0..MaxPlans /\ p # None /\ turn \in TurnType /\ turn.cause \in 0..MaxPlans
      /\ context.ran \in 0..MaxPlans /\ None \in 0..MaxPlans
  BY <1>1, ReferenceType, Nothing, ThePredecessor
     DEF BindRefused, IInv, TypeOK, Plans, None
<1>7. CASE turn.origin = "rebind"
  <2> DEFINE t == Planning(p, q, "recover", context.ran)
  <2>1. /\ t \in TurnType /\ t.at = "plan" /\ t.plan = None /\ t.pred = p
        /\ t.old = q /\ t.origin = "recover" /\ t.ran = context.ran
    BY <1>3, <1>6, TurnTypes DEF Origins
  <2>2. turn' = [t EXCEPT !.cause = turn.cause]
    BY <1>2, <1>7
  <2> HIDE DEF t
  <2>3. /\ turn' \in TurnType /\ turn'.at = "plan" /\ turn'.plan = None
        /\ turn'.pred = p /\ turn'.old = q /\ turn'.origin = "recover"
        /\ turn'.ran = context.ran /\ turn'.cause = turn.cause
    BY <1>6, <2>1, <2>2 DEF TurnType
  <2>4. TypeOK'
    BY <1>5, <2>3 DEF BindRefused, history, IInv, TypeOK
  <2>5. References'
    BY <1>1, <1>5, <2>3 DEF BindRefused, IInv, References, Referable
  <2>6. PlanningOK'
    BY <1>4, <1>5, <1>6, <2>3 DEF BindRefused, history, PlanningOK
  <2>7. BindingOK' /\ ExecutionOK'
    BY <2>3 DEF BindingOK, ExecutionOK
  <2> QED BY <1>5, <2>4, <2>5, <2>6, <2>7 DEF IInv
<1>8. CASE turn.origin # "rebind"
  <2>1. turn' = [turn EXCEPT !.at = "plan", !.plan = None, !.again = TRUE]
    BY <1>2, <1>8
  <2>2. /\ turn' \in TurnType /\ turn'.at = "plan" /\ turn'.plan = None
        /\ turn'.pred = turn.pred /\ turn'.old = turn.old /\ turn'.ran = turn.ran
        /\ turn'.origin = turn.origin /\ turn'.cause = turn.cause
    BY <1>6, <2>1 DEF TurnType, Points
  <2>3. TypeOK'
    BY <1>5, <2>2 DEF BindRefused, history, IInv, TypeOK
  <2>4. References'
    BY <1>5, <2>2 DEF BindRefused, IInv, References, Referable
  <2>5. turn.pred # None => turn.pred \in Plans \ {p}
    BY <1>1, ReferenceType, ThePredecessor DEF BindRefused
  <2>6. PlanningOK'
    BY <1>5, <1>8, <2>2, <2>5 DEF BindRefused, history, IInv, PlanningOK
  <2>7. BindingOK' /\ ExecutionOK'
    BY <2>2 DEF BindingOK, ExecutionOK
  <2> QED BY <1>5, <2>3, <2>4, <2>6, <2>7 DEF IInv
<1> QED BY <1>7, <1>8

\* The ways in which binding may fail for good.
LEMMA BindFailure ==
  ASSUME IInv, BindFails
  PROVE  \E plan \in Drafts(plans[turn.plan])
                        \cup {Inherits(plans[turn.plan]), plans[turn.plan]},
            executed \in BOOLEAN :
           /\ turn.pred = None => ~executed
           /\ turn.pred # None => executed \in {FALSE, MayHaveChanged(turn.old)}
           /\ FailWith(turn.plan, plan, "binding", executed,
                       AfterBind.active, AfterBind.ran)
<1>1. Inherited \in BOOLEAN /\ (turn.pred = None => ~Inherited)
      /\ (turn.pred # None => Inherited = MayHaveChanged(turn.old))
  BY ThePredecessor DEF BindFails, Inherited
<1> QED BY <1>1 DEF BindFails

LEMMA BindFailsKeeps ==
  ASSUME IInv, BindFails PROVE IInv'
<1>1. turn.plan \in Existing
  BY Binding DEF BindFails
<1>2. \A plan \in Drafts(plans[turn.plan])
                    \cup {Inherits(plans[turn.plan]), plans[turn.plan]} :
        plan \in PlanType /\ PlanOK(turn.plan, plan, approved, tried, applied)
  BY Binding, Drafting DEF BindFails
<1>3. AfterBind.active \in Referable /\ AfterBind.ran \in Referable
  BY <1>1, Nothing, ThePredecessor DEF BindFails, AfterBind, Referable
<1>4. PICK plan \in Drafts(plans[turn.plan])
                      \cup {Inherits(plans[turn.plan]), plans[turn.plan]},
           executed \in BOOLEAN :
        FailWith(turn.plan, plan, "binding", executed,
                 AfterBind.active, AfterBind.ran)
  BY BindFailure
<1> QED BY <1>1, <1>2, <1>3, <1>4, Failing DEF BindFails, Categories, history

-----------------------------------------------------------------------------
(* The invariant is kept by execution.                                      *)

\* The plan in hand, and the step that is executed or checked.
LEMMA InHand ==
  ASSUME IInv, turn.at \in {"run", "act", "late", "check", "judge", "verdict"}
  PROVE  /\ turn.plan \in Existing /\ turn.plan \in Plans /\ turn.plan # None
         /\ ThePlan \in PlanType
         /\ PlanOK(turn.plan, ThePlan, approved, tried, applied)
         /\ ThePlan.st \notin {"absent", "completed"}
         /\ turn.at \in {"run", "act", "late", "check"} =>
              turn.plan \in approved /\ ~ThePlan.cursor
         /\ turn.at \in {"act", "check"} =>
              /\ turn.step \in Steps
              /\ tried[<<turn.plan, turn.step>>] > 0
              /\ ThePlan.steps[turn.step].tries = tried[<<turn.plan, turn.step>>]
              /\ \A t \in Steps :
                   /\ t < turn.step => ThePlan.steps[t].st = "completed"
                   /\ turn.step < t => Waiting(ThePlan.steps[t])
<1>1. /\ turn.plan \in Existing /\ turn.plan \in Plans /\ turn.plan # None
      /\ ThePlan.st \notin {"absent", "completed"}
  BY ReferenceType DEF IInv, ExecutionOK, References, Referable, Existing, ThePlan
<1>2. ThePlan \in PlanType /\ PlanOK(turn.plan, ThePlan, approved, tried, applied)
  BY <1>1 DEF IInv, TypeOK, PlansOK, ThePlan
<1>3. CASE turn.at \in {"act", "check"}
  <2>1. turn.step \in 0..NumSteps /\ turn.step # 0
    BY <1>3 DEF IInv, TypeOK, TurnType, ExecutionOK
  <2>2. turn.step \in Steps
    BY <2>1, PlanAssumption DEF Steps
  <2>3. ThePlan.steps[turn.step].st \in {"running", "verifying"}
    BY <1>3 DEF IInv, ExecutionOK
  <2>4. StepOK(ThePlan.steps[turn.step], tried[<<turn.plan, turn.step>>],
               applied[turn.plan][turn.step], Done(turn.step, applied))
    BY <1>2, <2>2 DEF PlanOK
  <2>5. \A t \in Steps :
          /\ t < turn.step => ThePlan.steps[t].st = "completed"
          /\ turn.step < t => Waiting(ThePlan.steps[t])
    BY <1>2, <2>2, <2>3 DEF PlanOK, InOrder, Active
  <2> QED BY <1>1, <1>2, <1>3, <2>2, <2>3, <2>4, <2>5 DEF StepOK, IInv, ExecutionOK
<1>4. CASE turn.at \notin {"act", "check"}
  BY <1>1, <1>2, <1>4 DEF IInv, ExecutionOK
<1> QED BY <1>3, <1>4

\* What a step does to its plan and to the environment, for the other plans.
LEMMA StepWritten ==
  ASSUME IInv, NEW p \in Existing, NEW q \in PlanType, q.st # "absent",
         plans' = [plans EXCEPT ![p] = q], approved' = approved,
         \A r \in Plans \ {p}, s \in Steps :
           tried'[<<r, s>>] = tried[<<r, s>>] /\ applied'[r][s] = applied[r][s],
         \A s \in Steps : Done(s, applied) => Done(s, applied'),
         PlanOK(p, q, approved, tried', applied'),
         \A s \in Steps : /\ applied'[p][s] <= tried'[<<p, s>>]
                          /\ ~FalseClaims => applied'[p][s] <= 1
  PROVE  /\ plans' \in [Plans -> PlanType] /\ plans'[p] = q
         /\ PlansOK' /\ Numbered' /\ Attempts' /\ Existing' = Existing
<1>1. p \in Plans /\ plans \in [Plans -> PlanType]
  BY DEF Existing, IInv, TypeOK
<1>2. /\ plans' \in [Plans -> PlanType] /\ plans'[p] = q
      /\ \A r \in Plans \ {p} : plans'[r] = plans[r]
  BY <1>1
<1>3. Existing' = Existing
  BY <1>1, <1>2 DEF Existing
<1>4. ASSUME NEW r \in Plans
      PROVE  PlanOK(r, plans'[r], approved, tried', applied')
  <2>1. CASE r = p
    BY <1>2, <2>1
  <2>2. CASE r # p
    <3>1. PlanOK(r, plans[r], approved, tried, applied) /\ plans[r] \in PlanType
      BY <1>1 DEF IInv, PlansOK
    <3>2. PlanOK(r, plans[r], approved, tried', applied')
      BY <2>2, <3>1, OtherPlans
    <3> QED BY <1>2, <2>2, <3>2
  <2> QED BY <2>1, <2>2
<1>5. PlansOK'
  BY <1>4 DEF PlansOK
<1>6. Attempts'
  <2>1. \A r \in Plans, s \in Steps : /\ applied[r][s] <= tried[<<r, s>>]
                                      /\ ~FalseClaims => applied[r][s] <= 1
    BY DEF IInv, Attempts
  <2> QED BY <2>1 DEF Attempts
<1>7. Numbered'
  BY <1>3 DEF IInv, Numbered
<1> QED BY <1>2, <1>3, <1>5, <1>6, <1>7

SavedStep(st, ev) == [ThePlan.steps[turn.step] EXCEPT !.st = st, !.ev = ev]
SavedPlan(st, ev, change, status) ==
  [ThePlan EXCEPT !.steps = [@ EXCEPT ![turn.step] = SavedStep(st, ev)],
                  !.change = change, !.st = status]

LEMMA Saving ==
  ASSUME IInv, turn.plan \in Plans, turn.step \in Steps,
         NEW st \in StepStates, NEW ev \in Evidence,
         NEW change \in ChangeStates, NEW status \in PlanStates,
         SaveStep(st, ev, change, status)
  PROVE  LET step == SavedStep(st, ev)
             q == SavedPlan(st, ev, change, status)
         IN /\ step \in StepType /\ q \in PlanType
            /\ plans' = [plans EXCEPT ![turn.plan] = q]
            /\ step.st = st /\ step.ev = ev
            /\ step.tries = ThePlan.steps[turn.step].tries
            /\ q.steps = [ThePlan.steps EXCEPT ![turn.step] = step]
            /\ q.st = status /\ q.change = change
            /\ q.auth = ThePlan.auth /\ q.cursor = ThePlan.cursor
<1> DEFINE s == turn.step
           step == SavedStep(st, ev)
           q == SavedPlan(st, ev, change, status)
<1>1. ThePlan \in PlanType /\ ThePlan.steps \in [Steps -> StepType]
  BY DEF IInv, TypeOK, ThePlan, PlanType
<1>2. /\ step \in StepType /\ step.st = st /\ step.ev = ev
      /\ step.tries = ThePlan.steps[s].tries
  BY <1>1 DEF StepType, SavedStep
<1>3. /\ q \in PlanType /\ q.steps = [ThePlan.steps EXCEPT ![s] = step]
      /\ q.st = status /\ q.change = change
      /\ q.auth = ThePlan.auth /\ q.cursor = ThePlan.cursor
  BY <1>1, <1>2 DEF PlanType, SavedPlan
<1>4. plans' = [plans EXCEPT ![turn.plan] = q]
  <2> DEFINE saved == [ThePlan EXCEPT !.steps[s].st = st, !.steps[s].ev = ev,
                                      !.change = change, !.st = status]
  <2>1. plans' = [plans EXCEPT ![turn.plan] = saved]
    BY DEF SaveStep, ThePlan, IInv, TypeOK
  <2>2. saved = q
    <3>1. [ThePlan.steps EXCEPT ![s].st = st, ![s].ev = ev]
            = [ThePlan.steps EXCEPT ![s] = step]
      BY <1>1 DEF SavedStep
    <3> QED BY <1>1, <3>1 DEF PlanType, SavedPlan
  <2> QED BY <2>1, <2>2
<1> QED BY <1>2, <1>3, <1>4

LEMMA StartedStep ==
  ASSUME NEW x \in StepType, NEW n \in 0..1,
         x.tries = n
  PROVE  /\ Started(x) \in StepType /\ Started(x).st = "running"
         /\ Started(x).tries = n + 1 /\ Started(x).ev = x.ev
<1>1. n + 1 \in 0..2
  OBVIOUS
<1> QED BY <1>1 DEF Started, StepType, StepStates

\* The step that is started: the first that has not completed.
LEMMA StartStepKeeps ==
  ASSUME IInv, StartStep PROVE IInv'
<1> DEFINE p == turn.plan
<1>0. PICK s \in Unfinished(ThePlan) :
        /\ \A t \in Unfinished(ThePlan) : s <= t
        /\ plans' = [plans EXCEPT ![p] =
             [@ EXCEPT !.steps[s] = Started(ThePlan.steps[s]),
                       !.change = "running", !.st = "executing"]]
        /\ turn' = [turn EXCEPT !.at = "act", !.step = s]
        /\ tried' = [tried EXCEPT ![<<p, s>>] = @ + 1]
  BY DEF StartStep
<1> DEFINE n == tried[<<p, s>>]
           step == Started(ThePlan.steps[s])
           q == [ThePlan EXCEPT !.steps[s] = step, !.change = "running",
                                !.st = "executing"]
<1>1. /\ p \in Existing /\ p \in Plans /\ p # None /\ ThePlan \in PlanType
      /\ PlanOK(p, ThePlan, approved, tried, applied)
      /\ p \in approved /\ ~ThePlan.cursor
      /\ \A t \in Steps : Waiting(ThePlan.steps[t]) \/ Retriable(ThePlan.steps[t])
  BY InHand DEF StartStep, IInv, ExecutionOK
<1>3. /\ s \in Steps /\ ThePlan.steps[s].st # "completed" /\ Steps \subseteq Int
      /\ \A t \in Steps : t < s => ThePlan.steps[t].st = "completed"
  BY <1>0, PlanAssumption DEF Unfinished, Steps
<1>4. \A t \in Steps : s < t => Waiting(ThePlan.steps[t])
  <2> SUFFICES ASSUME NEW t \in Steps, s < t, Retriable(ThePlan.steps[t])
               PROVE  FALSE
    BY <1>1
  <2> QED BY <1>1, <1>3 DEF PlanOK, InOrder, Active
<1>5. /\ ThePlan.steps[s] \in StepType /\ tried \in History
      /\ applied \in Environment
      /\ StepOK(ThePlan.steps[s], n, applied[p][s], Done(s, applied))
  BY <1>1, <1>3 DEF PlanType, PlanOK, IInv, TypeOK, History, Environment
<1>6. /\ n \in 0..1 /\ ThePlan.steps[s].tries = n
      /\ n = 0 => ThePlan.steps[s].ev # "unchanged"
      /\ applied[p][s] <= n
      /\ ~FalseClaims => applied[p][s] = 0
  <2>1. applied[p][s] <= n /\ applied[p][s] \in 0..2 /\ n \in 0..2
    BY <1>1, <1>3, <1>5 DEF IInv, Attempts, History, Environment
  <2>2. CASE Waiting(ThePlan.steps[s])
    BY <1>3, <1>5, <2>1, <2>2 DEF Waiting, StepOK
  <2>3. CASE Retriable(ThePlan.steps[s])
    BY <1>5, <2>1, <2>3 DEF Retriable, StepOK
  <2> QED BY <1>1, <1>3, <2>2, <2>3
<1> HIDE DEF n
<1>7. /\ step \in StepType /\ step.st = "running" /\ step.tries = n + 1
      /\ step.ev = ThePlan.steps[s].ev
  BY <1>5, <1>6, StartedStep
<1> HIDE DEF step
<1>8. /\ q \in PlanType /\ q.steps = [ThePlan.steps EXCEPT ![s] = step]
      /\ q.st = "executing" /\ q.change = "running"
      /\ q.auth = ThePlan.auth /\ q.cursor = ThePlan.cursor
  BY <1>1, <1>3, <1>7 DEF PlanType, PlanStates, ChangeStates
<1>9. /\ plans' = [plans EXCEPT ![p] = q]
      /\ turn' = [turn EXCEPT !.at = "act", !.step = s]
      /\ tried' = [tried EXCEPT ![<<p, s>>] = n + 1]
      /\ UNCHANGED <<fails, context, applied, approved, revoked, crashes>>
  <2>2. plans' = [plans EXCEPT ![p] = q]
    BY <1>0 DEF ThePlan, step
  <2>3. /\ turn' = [turn EXCEPT !.at = "act", !.step = s]
        /\ UNCHANGED <<fails, context, applied, approved, revoked, crashes>>
    BY <1>0 DEF StartStep
  <2>4. tried' = [tried EXCEPT ![<<p, s>>] = n + 1]
    BY <1>0, <1>1, <1>3, <1>5 DEF n, History
  <2> QED BY <2>2, <2>3, <2>4
<1> HIDE DEF q
<1>10. /\ tried' \in History /\ tried'[<<p, s>>] = n + 1
       /\ \A t \in Steps \ {s} : tried'[<<p, t>>] = tried[<<p, t>>]
       /\ \A r \in Plans \ {p}, t \in Steps :
            tried'[<<r, t>>] = tried[<<r, t>>] /\ applied'[r][t] = applied[r][t]
  BY <1>1, <1>3, <1>5, <1>6, <1>9 DEF History
<1>11. PlanOK(p, q, approved, tried', applied)
  <2>1. StepOK(step, tried'[<<p, s>>], applied[p][s], Done(s, applied))
    BY <1>5, <1>6, <1>7, <1>10 DEF StepOK
  <2> QED BY <1>1, <1>3, <1>4, <1>5, <1>7, <1>8, <1>10, <2>1, StepMoves
<1>12. \A t \in Steps : /\ applied[p][t] <= tried'[<<p, t>>]
                        /\ ~FalseClaims => applied[p][t] <= 1
  <2> SUFFICES ASSUME NEW t \in Steps
               PROVE  /\ applied[p][t] <= tried'[<<p, t>>]
                      /\ ~FalseClaims => applied[p][t] <= 1
    OBVIOUS
  <2>1. applied[p][t] \in 0..2 /\ n \in 0..1 /\ tried[<<p, t>>] \in 0..2
    BY <1>1, <1>5, <1>6 DEF Environment, History
  <2>2. /\ applied[p][t] <= tried[<<p, t>>]
        /\ ~FalseClaims => applied[p][t] <= 1
    BY <1>1 DEF IInv, Attempts
  <2>3. CASE t = s
    BY <1>6, <1>10, <2>1, <2>2, <2>3
  <2>4. CASE t # s
    BY <1>1, <1>3, <1>10, <2>2, <2>4
  <2> QED BY <2>3, <2>4
<1>13. /\ plans' \in [Plans -> PlanType] /\ plans'[p] = q
       /\ PlansOK' /\ Numbered' /\ Attempts' /\ Existing' = Existing
  BY <1>1, <1>3, <1>8, <1>9, <1>10, <1>11, <1>12, StepWritten
<1>14. /\ turn' \in TurnType /\ turn'.at = "act" /\ turn'.step = s
       /\ turn'.plan = p /\ turn'.pred = turn.pred /\ turn'.ran = turn.ran
       /\ turn'.cause = turn.cause
  <2>1. turn \in TurnType /\ s \in 0..NumSteps
    BY <1>3, PlanAssumption DEF IInv, TypeOK, Steps
  <2> QED BY <1>9, <2>1 DEF TurnType, Points
<1>15. TypeOK'
  BY <1>9, <1>10, <1>13, <1>14 DEF IInv, TypeOK, History
<1>16. References'
  BY <1>9, <1>13, <1>14 DEF IInv, References, Referable
<1>17. PlanningOK' /\ BindingOK'
  BY <1>14 DEF PlanningOK, BindingOK
<1>18. ExecutionOK'
  <2>1. /\ q.steps[s].st = "running" /\ s # 0
        /\ applied[p][s] < tried'[<<p, s>>]
    <3>1. applied[p][s] \in 0..2
      BY <1>1, <1>3, <1>5 DEF Environment
    <3> QED BY <1>1, <1>3, <1>6, <1>7, <1>8, <1>10, <3>1, PlanAssumption
            DEF PlanType, Steps
  <2>2. ThePlan' = q
    BY <1>13, <1>14 DEF ThePlan
  <2>3. /\ applied' = applied /\ approved' = approved
        /\ q.st # "completed" /\ ~q.cursor
    BY <1>1, <1>8, <1>9
  <2> QED BY <1>1, <1>6, <1>14, <2>1, <2>2, <2>3 DEF ExecutionOK
<1> QED BY <1>13, <1>15, <1>16, <1>17, <1>18 DEF IInv

\* An effect is that of the step in hand, and it is one of its attempt.
LEMMA Effecting ==
  ASSUME IInv, turn.at = "act", NEW yes \in BOOLEAN, Effect(yes)
  PROVE  /\ applied' \in Environment
         /\ \A r \in Plans \ {turn.plan}, t \in Steps : applied'[r][t] = applied[r][t]
         /\ \A t \in Steps \ {turn.step} :
              applied'[turn.plan][t] = applied[turn.plan][t]
         /\ \A t \in Steps : Done(t, applied) => Done(t, applied')
         /\ ~yes => applied' = applied
         /\ \A t \in Steps : /\ applied'[turn.plan][t] <= tried[<<turn.plan, t>>]
                             /\ ~FalseClaims => applied'[turn.plan][t] <= 1
         /\ yes => Done(turn.step, applied')
<1> DEFINE p == turn.plan
           s == turn.step
<1>1. /\ p \in Plans /\ s \in Steps /\ applied \in Environment /\ tried \in History
      /\ applied[p][s] < tried[<<p, s>>]
      /\ ~FalseClaims => applied[p][s] = 0
      /\ \A t \in Steps : /\ applied[p][t] <= tried[<<p, t>>]
                          /\ ~FalseClaims => applied[p][t] <= 1
  BY InHand DEF IInv, TypeOK, ExecutionOK, Attempts, Environment, History
<1> HIDE DEF p, s
<1>2. CASE yes
  <2>1. applied' = [applied EXCEPT ![p][s] = applied[p][s] + 1]
    BY <1>2 DEF Effect, p, s
  <2>2. /\ applied[p][s] \in 0..2 /\ tried[<<p, s>>] \in 0..2
        /\ applied[p][s] + 1 \in 0..2
    BY <1>1 DEF Environment, History
  <2>3. /\ applied' \in Environment /\ applied'[p][s] = applied[p][s] + 1
        /\ \A t \in Steps \ {s} : applied'[p][t] = applied[p][t]
        /\ \A r \in Plans \ {p}, t \in Steps : applied'[r][t] = applied[r][t]
    BY <1>1, <2>1, <2>2 DEF Environment
  <2>4. Done(s, applied')
    BY <1>1, <2>2, <2>3 DEF Done
  <2>5. \A t \in Steps : Done(t, applied) => Done(t, applied')
    BY <1>1, <2>2, <2>3, <2>4 DEF Done
  <2>6. \A t \in Steps : /\ applied'[p][t] <= tried[<<p, t>>]
                         /\ ~FalseClaims => applied'[p][t] <= 1
    <3> SUFFICES ASSUME NEW t \in Steps
                 PROVE  /\ applied'[p][t] <= tried[<<p, t>>]
                        /\ ~FalseClaims => applied'[p][t] <= 1
      OBVIOUS
    <3>1. CASE t = s
      BY <1>1, <2>2, <2>3, <3>1
    <3>2. CASE t # s
      BY <1>1, <2>3, <3>2
    <3> QED BY <3>1, <3>2
  <2> QED BY <1>2, <2>3, <2>4, <2>5, <2>6 DEF p, s
<1>3. CASE ~yes
  <2>1. applied' = applied
    BY <1>3 DEF Effect
  <2> QED BY <1>1, <1>3, <2>1 DEF p, s
<1> QED BY <1>2, <1>3

\* Saving the step in hand with a state that the environment bears out.
LEMMA StepSaved ==
  ASSUME IInv, turn.at \in {"act", "check"}, UNCHANGED <<tried, approved>>,
         applied' \in Environment,
         \A r \in Plans \ {turn.plan}, t \in Steps : applied'[r][t] = applied[r][t],
         \A t \in Steps \ {turn.step} :
           applied'[turn.plan][t] = applied[turn.plan][t],
         \A t \in Steps : Done(t, applied) => Done(t, applied'),
         \A t \in Steps : /\ applied'[turn.plan][t] <= tried[<<turn.plan, t>>]
                          /\ ~FalseClaims => applied'[turn.plan][t] <= 1,
         NEW q \in PlanType, NEW step \in StepType,
         plans' = [plans EXCEPT ![turn.plan] = q],
         step.tries = ThePlan.steps[turn.step].tries,
         q.steps = [ThePlan.steps EXCEPT ![turn.step] = step],
         ~q.cursor, q.auth => ThePlan.auth,
         q.st \notin {"awaiting_confirmation", "completed", "absent"},
         step.st # "pending",
         step.ev = "unchanged" /\ step.tries = 1 =>
           /\ step.st \in {"verifying", "paused"}
           /\ ~FalseClaims => applied'[turn.plan][turn.step] = 0,
         step.st = "completed" => Done(turn.step, applied')
  PROVE  /\ plans' \in [Plans -> PlanType] /\ plans'[turn.plan] = q
         /\ PlansOK' /\ Numbered' /\ Attempts' /\ Existing' = Existing
<1>1. /\ turn.plan \in Existing /\ turn.plan \in Plans /\ ThePlan \in PlanType
      /\ PlanOK(turn.plan, ThePlan, approved, tried, applied)
      /\ turn.step \in Steps
      /\ tried[<<turn.plan, turn.step>>] > 0
      /\ ThePlan.steps[turn.step].tries = tried[<<turn.plan, turn.step>>]
      /\ \A t \in Steps :
           /\ t < turn.step => ThePlan.steps[t].st = "completed"
           /\ turn.step < t => Waiting(ThePlan.steps[t])
  BY InHand
<1>2. tried \in History /\ applied \in Environment /\ tried' = tried
  BY DEF IInv, TypeOK, History, Environment
<1>3. StepOK(step, tried[<<turn.plan, turn.step>>], applied'[turn.plan][turn.step],
             Done(turn.step, applied'))
  BY <1>1 DEF StepOK
<1>4. PlanOK(turn.plan, q, approved, tried, applied')
  BY <1>1, <1>2, <1>3, StepMoves
<1>5. /\ PlanOK(turn.plan, q, approved, tried', applied')
      /\ \A r \in Plans \ {turn.plan}, t \in Steps :
           tried'[<<r, t>>] = tried[<<r, t>>] /\ applied'[r][t] = applied[r][t]
      /\ \A t \in Steps : /\ applied'[turn.plan][t] <= tried'[<<turn.plan, t>>]
                           /\ ~FalseClaims => applied'[turn.plan][t] <= 1
  BY <1>2, <1>4
<1> QED BY <1>1, <1>5, StepWritten

\* The step in hand, as far as its effect is concerned.
LEMMA StepInHand ==
  ASSUME IInv, turn.at \in {"act", "check"}
  PROVE  /\ ThePlan.steps[turn.step] \in StepType
         /\ ThePlan.st \in PlanStates /\ ThePlan.change \in ChangeStates
         /\ ThePlan.st # "awaiting_confirmation"
         /\ ThePlan.steps[turn.step].ev = "unchanged"
              /\ ThePlan.steps[turn.step].tries = 1 =>
              /\ turn.at = "check"
              /\ ~FalseClaims => applied[turn.plan][turn.step] = 0
<1>1. /\ turn.plan \in Plans /\ ThePlan \in PlanType /\ turn.step \in Steps
      /\ PlanOK(turn.plan, ThePlan, approved, tried, applied)
      /\ tried[<<turn.plan, turn.step>>] > 0
  BY InHand
<1>2. ThePlan.steps[turn.step] \in StepType
      /\ ThePlan.st \in PlanStates /\ ThePlan.change \in ChangeStates
  BY <1>1 DEF PlanType
<1>3. ThePlan.st # "awaiting_confirmation"
  BY <1>1 DEF PlanOK, Fresh
<1>4. turn.at = "act" => ThePlan.steps[turn.step].st = "running"
  BY DEF IInv, ExecutionOK
<1>5. StepOK(ThePlan.steps[turn.step], tried[<<turn.plan, turn.step>>],
             applied[turn.plan][turn.step], Done(turn.step, applied))
  BY <1>1 DEF PlanOK
<1> QED BY <1>2, <1>3, <1>4, <1>5 DEF StepOK

LEMMA AnswerKeeps ==
  ASSUME IInv, Answer PROVE IInv'
<1>1. PICK ev \in {"ok", "changed", "unchanged"}, yes \in BOOLEAN :
        /\ ev = "unchanged" /\ yes => FalseClaims
        /\ Effect(yes)
        /\ SaveStep("verifying", ev, ThePlan.change, "verifying")
  BY DEF Answer
<1>2. /\ turn.at = "act" /\ turn' = [turn EXCEPT !.at = "check"]
      /\ UNCHANGED <<fails, context, tried, approved, revoked, crashes>>
  BY DEF Answer, history
<1>3. /\ turn.plan \in Existing /\ turn.plan \in Plans /\ turn.step \in Steps
      /\ turn.plan # None /\ turn.plan \in approved /\ ~ThePlan.cursor
      /\ ThePlan.steps[turn.step].tries = tried[<<turn.plan, turn.step>>]
      /\ ThePlan \in PlanType
  BY <1>2, InHand
<1> DEFINE step == SavedStep("verifying", ev)
           q == SavedPlan("verifying", ev, ThePlan.change, "verifying")
<1>4. /\ step \in StepType /\ q \in PlanType
      /\ plans' = [plans EXCEPT ![turn.plan] = q]
      /\ step.st = "verifying" /\ step.ev = ev
      /\ step.tries = ThePlan.steps[turn.step].tries
      /\ q.steps = [ThePlan.steps EXCEPT ![turn.step] = step]
      /\ q.st = "verifying" /\ q.change = ThePlan.change
      /\ q.auth = ThePlan.auth /\ q.cursor = ThePlan.cursor
  <2>1. /\ "verifying" \in StepStates /\ "verifying" \in PlanStates
        /\ ev \in Evidence /\ ThePlan.change \in ChangeStates
    BY <1>2, StepInHand DEF StepStates, PlanStates, Evidence
  <2> QED BY <1>1, <1>3, <2>1, Saving
<1> HIDE DEF step, q
<1>5. /\ applied' \in Environment
      /\ \A r \in Plans \ {turn.plan}, t \in Steps : applied'[r][t] = applied[r][t]
      /\ \A t \in Steps \ {turn.step} :
           applied'[turn.plan][t] = applied[turn.plan][t]
      /\ \A t \in Steps : Done(t, applied) => Done(t, applied')
      /\ ~yes => applied' = applied
      /\ \A t \in Steps : /\ applied'[turn.plan][t] <= tried[<<turn.plan, t>>]
                          /\ ~FalseClaims => applied'[turn.plan][t] <= 1
  BY <1>1, <1>2, Effecting
<1>6. ~FalseClaims => applied[turn.plan][turn.step] = 0
  BY <1>2 DEF IInv, ExecutionOK
<1>7. /\ plans' \in [Plans -> PlanType] /\ plans'[turn.plan] = q
      /\ PlansOK' /\ Numbered' /\ Attempts' /\ Existing' = Existing
  BY <1>1, <1>2, <1>3, <1>4, <1>5, <1>6, StepSaved
<1>8. /\ turn' \in TurnType /\ turn'.at = "check" /\ turn'.step = turn.step
      /\ turn'.plan = turn.plan /\ turn'.pred = turn.pred /\ turn'.ran = turn.ran
      /\ turn'.cause = turn.cause
  BY <1>2 DEF IInv, TypeOK, TurnType, Points
<1>9. TypeOK'
  BY <1>2, <1>5, <1>7, <1>8 DEF IInv, TypeOK, Environment
<1>10. References'
  BY <1>2, <1>7, <1>8 DEF IInv, References, Referable
<1>11. PlanningOK' /\ BindingOK'
  BY <1>8 DEF PlanningOK, BindingOK
<1>12. ExecutionOK'
  <2>1. ThePlan' = q
    BY <1>7, <1>8 DEF ThePlan
  <2>2. q.steps[turn.step] = step /\ turn.step # 0 /\ step.ev # "none"
    BY <1>1, <1>3, <1>4, PlanAssumption DEF PlanType, Steps
  <2>3. ThePlan'.steps[turn'.step] = step /\ turn'.plan \in approved'
    BY <1>2, <1>3, <1>8, <2>1, <2>2
  <2> QED BY <1>3, <1>4, <1>8, <2>1, <2>2, <2>3 DEF ExecutionOK
<1> QED BY <1>7, <1>9, <1>10, <1>11, <1>12 DEF IInv

LEMMA InterruptKeeps ==
  ASSUME IInv, Interrupt PROVE IInv'
<1> DEFINE ev == ThePlan.steps[turn.step].ev
<1>1. PICK yes \in BOOLEAN : Effect(yes)
  BY DEF Interrupt
<1>2. /\ turn.at = "act" /\ turn' = NoTurn
      /\ SaveStep("execution_unknown", ev, "paused", "paused")
      /\ UNCHANGED <<fails, context, tried, approved, revoked, crashes>>
  BY DEF Interrupt, history
<1>3. /\ turn.plan \in Existing /\ turn.plan \in Plans /\ turn.step \in Steps
      /\ ~ThePlan.cursor
      /\ ~(ev = "unchanged" /\ ThePlan.steps[turn.step].tries = 1)
      /\ ev \in Evidence
  BY <1>2, InHand, StepInHand DEF StepType
<1> HIDE DEF ev
<1> DEFINE step == SavedStep("execution_unknown", ev)
           q == SavedPlan("execution_unknown", ev, "paused", "paused")
<1>4. /\ step \in StepType /\ q \in PlanType
      /\ plans' = [plans EXCEPT ![turn.plan] = q]
      /\ step.st = "execution_unknown" /\ step.ev = ev
      /\ step.tries = ThePlan.steps[turn.step].tries
      /\ q.steps = [ThePlan.steps EXCEPT ![turn.step] = step]
      /\ q.st = "paused" /\ q.change = "paused"
      /\ q.auth = ThePlan.auth /\ q.cursor = ThePlan.cursor
  <2>1. /\ "execution_unknown" \in StepStates /\ "paused" \in PlanStates
        /\ "paused" \in ChangeStates
    BY DEF StepStates, PlanStates, ChangeStates
  <2> QED BY <1>2, <1>3, <2>1, Saving
<1> HIDE DEF step, q
<1>5. /\ applied' \in Environment
      /\ \A r \in Plans \ {turn.plan}, t \in Steps : applied'[r][t] = applied[r][t]
      /\ \A t \in Steps \ {turn.step} :
           applied'[turn.plan][t] = applied[turn.plan][t]
      /\ \A t \in Steps : Done(t, applied) => Done(t, applied')
      /\ \A t \in Steps : /\ applied'[turn.plan][t] <= tried[<<turn.plan, t>>]
                          /\ ~FalseClaims => applied'[turn.plan][t] <= 1
  BY <1>1, <1>2, Effecting
<1>6. /\ plans' \in [Plans -> PlanType]
      /\ PlansOK' /\ Numbered' /\ Attempts' /\ Existing' = Existing
  BY <1>2, <1>3, <1>4, <1>5, StepSaved
<1>7. TypeOK'
  BY <1>2, <1>5, <1>6, TurnTypes DEF IInv, TypeOK, Environment
<1>8. References'
  BY <1>2, <1>6, TurnTypes DEF IInv, References, Referable
<1> QED BY <1>2, <1>6, <1>7, <1>8, TurnOver, TurnTypes DEF IInv

LEMMA StepLeft ==
  ASSUME IInv, NEW at \in Points, turn' = [turn EXCEPT !.at = at, !.step = 0]
  PROVE  /\ turn' \in TurnType /\ turn'.at = at
         /\ turn'.plan = turn.plan /\ turn'.pred = turn.pred
         /\ turn'.ran = turn.ran /\ turn'.cause = turn.cause
<1>1. 0 \in 0..NumSteps /\ turn \in TurnType
  BY PlanAssumption DEF IInv, TypeOK
<1> QED BY <1>1 DEF TurnType

LEMMA TimeOutKeeps ==
  ASSUME IInv, TimeOut PROVE IInv'
<1>1. PICK yes \in BOOLEAN : Effect(yes)
  BY DEF TimeOut
<1>2. /\ turn.at = "act" /\ turn' = [turn EXCEPT !.at = "late"]
      /\ SaveStep("execution_unknown", "changed", ThePlan.change, "verifying")
      /\ UNCHANGED <<fails, context, tried, approved, revoked, crashes>>
  BY DEF TimeOut, history
<1>3. /\ turn.plan \in Existing /\ turn.plan \in Plans /\ turn.step \in Steps
      /\ turn.plan # None /\ turn.plan \in approved /\ ~ThePlan.cursor
  BY <1>2, InHand
<1> DEFINE step == SavedStep("execution_unknown", "changed")
           q == SavedPlan("execution_unknown", "changed", ThePlan.change, "verifying")
<1>4. /\ step \in StepType /\ q \in PlanType
      /\ plans' = [plans EXCEPT ![turn.plan] = q]
      /\ step.st = "execution_unknown" /\ step.ev = "changed"
      /\ step.tries = ThePlan.steps[turn.step].tries
      /\ q.steps = [ThePlan.steps EXCEPT ![turn.step] = step]
      /\ q.st = "verifying" /\ q.change = ThePlan.change
      /\ q.auth = ThePlan.auth /\ q.cursor = ThePlan.cursor
  <2>1. /\ "execution_unknown" \in StepStates /\ "verifying" \in PlanStates
        /\ "changed" \in Evidence /\ ThePlan.change \in ChangeStates
    BY <1>2, StepInHand DEF StepStates, PlanStates, Evidence
  <2> QED BY <1>2, <1>3, <2>1, Saving
<1> HIDE DEF step, q
<1>5. /\ applied' \in Environment
      /\ \A r \in Plans \ {turn.plan}, t \in Steps : applied'[r][t] = applied[r][t]
      /\ \A t \in Steps \ {turn.step} :
           applied'[turn.plan][t] = applied[turn.plan][t]
      /\ \A t \in Steps : Done(t, applied) => Done(t, applied')
      /\ \A t \in Steps : /\ applied'[turn.plan][t] <= tried[<<turn.plan, t>>]
                          /\ ~FalseClaims => applied'[turn.plan][t] <= 1
  BY <1>1, <1>2, Effecting
<1>6. /\ plans' \in [Plans -> PlanType] /\ plans'[turn.plan] = q
      /\ PlansOK' /\ Numbered' /\ Attempts' /\ Existing' = Existing
  BY <1>2, <1>3, <1>4, <1>5, StepSaved
<1>7. /\ turn' \in TurnType /\ turn'.at = "late" /\ turn'.plan = turn.plan
      /\ turn'.pred = turn.pred /\ turn'.ran = turn.ran /\ turn'.cause = turn.cause
  BY <1>2 DEF IInv, TypeOK, TurnType, Points
<1>8. TypeOK'
  BY <1>2, <1>5, <1>6, <1>7 DEF IInv, TypeOK, Environment
<1>9. References'
  BY <1>2, <1>6, <1>7 DEF IInv, References, Referable
<1>10. PlanningOK' /\ BindingOK'
  BY <1>7 DEF PlanningOK, BindingOK
<1>11. ExecutionOK'
  <2>1. ThePlan' = q
    BY <1>6, <1>7 DEF ThePlan
  <2> QED BY <1>2, <1>3, <1>4, <1>7, <2>1 DEF ExecutionOK
<1> QED BY <1>6, <1>8, <1>9, <1>10, <1>11 DEF IInv

\* The plan that is paused once a step was late.
LEMMA LatePlan ==
  ASSUME IInv, turn.at = "late"
  PROVE  LET q == [ThePlan EXCEPT !.change = "paused"]
         IN /\ q \in PlanType /\ q.steps = ThePlan.steps
            /\ PlanOK(turn.plan, q, approved, tried, applied)
<1> DEFINE q == [ThePlan EXCEPT !.change = "paused"]
<1>1. /\ ThePlan \in PlanType /\ ~ThePlan.cursor
      /\ PlanOK(turn.plan, ThePlan, approved, tried, applied)
      /\ ThePlan.st \notin {"absent", "completed"}
  BY InHand
<1>2. ThePlan.st # "awaiting_confirmation"
  BY DEF IInv, ExecutionOK
<1>3. /\ q \in PlanType /\ q.steps = ThePlan.steps /\ q.st = ThePlan.st
      /\ q.auth = ThePlan.auth /\ q.cursor = ThePlan.cursor
  BY <1>1 DEF PlanType, ChangeStates
<1> HIDE DEF q
<1>4. PlanOK(turn.plan, q, approved, tried, applied)
  BY <1>1, <1>2, <1>3 DEF PlanOK, InOrder
<1> QED BY <1>3, <1>4 DEF q

LEMMA TimedOutKeeps ==
  ASSUME IInv, TimedOut PROVE IInv'
<1> DEFINE q == [ThePlan EXCEPT !.change = "paused"]
<1>1. turn.plan \in Existing
  BY InHand DEF TimedOut
<1>2. q \in PlanType /\ PlanOK(turn.plan, q, approved, tried, applied)
  BY LatePlan DEF TimedOut
<1>3. FailWith(turn.plan, q, "execution", TRUE, context.active, context.ran)
  BY DEF TimedOut
<1> HIDE DEF q
<1> QED BY <1>1, <1>2, <1>3, Nothing, Failing DEF TimedOut, Categories, history

LEMMA CheckPassesKeeps ==
  ASSUME IInv, CheckPasses PROVE IInv'
<1> DEFINE step == SavedStep("completed", "ok")
           q == SavedPlan("completed", "ok", ThePlan.change, ThePlan.st)
<1>1. /\ turn.at = "check" /\ Done(turn.step, applied)
      /\ SaveStep("completed", "ok", ThePlan.change, ThePlan.st)
      /\ turn' = [turn EXCEPT !.at = "run", !.step = 0]
      /\ UNCHANGED <<fails, context, applied, tried, approved, revoked, crashes>>
  BY DEF CheckPasses, history, Present, Done
<1>2. /\ turn.plan \in Existing /\ turn.plan \in Plans /\ turn.step \in Steps
      /\ turn.plan # None /\ turn.plan \in approved /\ ~ThePlan.cursor
      /\ ThePlan \in PlanType /\ ThePlan.st \notin {"absent", "completed"}
      /\ \A t \in Steps : /\ t < turn.step => ThePlan.steps[t].st = "completed"
                          /\ turn.step < t => Waiting(ThePlan.steps[t])
  BY <1>1, InHand
<1>3. /\ step \in StepType /\ q \in PlanType
      /\ plans' = [plans EXCEPT ![turn.plan] = q]
      /\ step.st = "completed" /\ step.ev = "ok"
      /\ step.tries = ThePlan.steps[turn.step].tries
      /\ q.steps = [ThePlan.steps EXCEPT ![turn.step] = step]
      /\ q.st = ThePlan.st /\ q.change = ThePlan.change
      /\ q.auth = ThePlan.auth /\ q.cursor = ThePlan.cursor
  <2>1. /\ "completed" \in StepStates /\ ThePlan.st \in PlanStates
        /\ "ok" \in Evidence /\ ThePlan.change \in ChangeStates
    BY <1>1, StepInHand DEF StepStates, Evidence
  <2> QED BY <1>1, <1>2, <2>1, Saving
<1> HIDE DEF step, q
<1>4. /\ applied' \in Environment /\ applied' = applied
      /\ \A t \in Steps : /\ applied[turn.plan][t] <= tried[<<turn.plan, t>>]
                          /\ ~FalseClaims => applied[turn.plan][t] <= 1
  BY <1>1, <1>2 DEF IInv, TypeOK, Attempts, Environment
<1>5. /\ plans' \in [Plans -> PlanType] /\ plans'[turn.plan] = q
      /\ PlansOK' /\ Numbered' /\ Attempts' /\ Existing' = Existing
  <2>1. ThePlan.st # "awaiting_confirmation"
    BY <1>1, StepInHand
  <2> QED BY <1>1, <1>2, <1>3, <1>4, <2>1, StepSaved
<1>6. /\ turn' \in TurnType /\ turn'.at = "run"
      /\ turn'.plan = turn.plan /\ turn'.pred = turn.pred /\ turn'.ran = turn.ran
      /\ turn'.cause = turn.cause
  BY <1>1, StepLeft DEF Points
<1>7. TypeOK'
  BY <1>1, <1>5, <1>6 DEF IInv, TypeOK
<1>8. References'
  BY <1>1, <1>5, <1>6 DEF IInv, References, Referable
<1>9. PlanningOK' /\ BindingOK'
  BY <1>6 DEF PlanningOK, BindingOK
<1>10. ExecutionOK'
  <2>1. ThePlan' = q
    BY <1>5, <1>6 DEF ThePlan
  <2>2. \A t \in Steps : Waiting(q.steps[t])
    <3> SUFFICES ASSUME NEW t \in Steps PROVE Waiting(q.steps[t])
      OBVIOUS
    <3>1. t < turn.step \/ t = turn.step \/ turn.step < t
      BY <1>2, PlanAssumption DEF Steps
    <3>2. /\ t # turn.step => q.steps[t] = ThePlan.steps[t]
          /\ q.steps[turn.step] = step
      BY <1>2, <1>3 DEF PlanType
    <3> QED BY <1>2, <1>3, <3>1, <3>2 DEF Waiting
  <2>3. turn'.plan \in approved' /\ q.st # "completed" /\ ~q.cursor
    BY <1>1, <1>2, <1>3, <1>6
  <2> QED BY <1>2, <1>6, <2>1, <2>2, <2>3 DEF ExecutionOK
<1> QED BY <1>5, <1>7, <1>8, <1>9, <1>10 DEF IInv

LEMMA CheckFailsKeeps ==
  ASSUME IInv, CheckFails PROVE IInv'
<1> DEFINE ev == ThePlan.steps[turn.step].ev
           step == SavedStep("paused", ev)
           q == SavedPlan("paused", ev, "paused", "paused")
<1>1. /\ turn.at = "check"
      /\ SaveStep("paused", ev, "paused", "paused")
      /\ turn' = [turn EXCEPT !.at = "judge", !.step = 0]
      /\ UNCHANGED <<fails, context, applied, tried, approved, revoked, crashes>>
  BY DEF CheckFails, history
<1>2. /\ turn.plan \in Existing /\ turn.plan \in Plans /\ turn.step \in Steps
      /\ turn.plan # None /\ ~ThePlan.cursor /\ ev \in Evidence
      /\ ev = "unchanged" /\ ThePlan.steps[turn.step].tries = 1 /\ ~FalseClaims
           => applied[turn.plan][turn.step] = 0
  BY <1>1, InHand, StepInHand DEF StepType
<1> HIDE DEF ev
<1>3. /\ step \in StepType /\ q \in PlanType
      /\ plans' = [plans EXCEPT ![turn.plan] = q]
      /\ step.st = "paused" /\ step.ev = ev
      /\ step.tries = ThePlan.steps[turn.step].tries
      /\ q.steps = [ThePlan.steps EXCEPT ![turn.step] = step]
      /\ q.st = "paused" /\ q.change = "paused"
      /\ q.auth = ThePlan.auth /\ q.cursor = ThePlan.cursor
  <2>1. "paused" \in StepStates /\ "paused" \in PlanStates /\ "paused" \in ChangeStates
    BY DEF StepStates, PlanStates, ChangeStates
  <2> QED BY <1>1, <1>2, <2>1, Saving
<1> HIDE DEF step, q
<1>4. /\ applied' \in Environment /\ applied' = applied
      /\ \A t \in Steps : /\ applied[turn.plan][t] <= tried[<<turn.plan, t>>]
                          /\ ~FalseClaims => applied[turn.plan][t] <= 1
  BY <1>1, <1>2 DEF IInv, TypeOK, Attempts, Environment
<1>5. /\ plans' \in [Plans -> PlanType] /\ plans'[turn.plan] = q
      /\ PlansOK' /\ Numbered' /\ Attempts' /\ Existing' = Existing
  BY <1>1, <1>2, <1>3, <1>4, StepSaved
<1>6. /\ turn' \in TurnType /\ turn'.at = "judge"
      /\ turn'.plan = turn.plan /\ turn'.pred = turn.pred /\ turn'.ran = turn.ran
      /\ turn'.cause = turn.cause
  BY <1>1, StepLeft DEF Points
<1>7. TypeOK'
  BY <1>1, <1>5, <1>6 DEF IInv, TypeOK
<1>8. References'
  BY <1>1, <1>5, <1>6 DEF IInv, References, Referable
<1>9. PlanningOK' /\ BindingOK' /\ ExecutionOK'
  BY <1>2, <1>3, <1>5, <1>6 DEF PlanningOK, BindingOK, ExecutionOK, ThePlan
<1> QED BY <1>5, <1>7, <1>8, <1>9 DEF IInv

\* A step that neither attempts nor effects anything, on the plan in hand.
LEMMA PlanSettled ==
  ASSUME IInv, turn.at \in {"run", "judge", "verdict"},
         UNCHANGED <<fails, applied, history>>,
         NEW q \in PlanType, plans' = [plans EXCEPT ![turn.plan] = q],
         PlanOK(turn.plan, q, approved, tried, applied),
         q.st # "absent",
         context' \in [active : Referable, ran : Referable],
         \/ turn' = NoTurn
         \/ \E at \in {"judge", "verdict"}, unmet \in BOOLEAN :
              /\ q.st # "completed"
              /\ turn' = [turn EXCEPT !.at = at, !.unmet = unmet]
  PROVE  IInv'
<1>1. turn.plan \in Existing /\ turn.plan # None
  BY InHand
<1>2. /\ plans' \in [Plans -> PlanType] /\ plans'[turn.plan] = q
      /\ PlansOK' /\ Numbered' /\ Attempts' /\ Existing' = Existing
  BY <1>1, PlanWritten DEF history
<1>3. CASE turn' = NoTurn
  <2>1. TypeOK'
    BY <1>2, <1>3, TurnTypes, ReferenceType DEF IInv, TypeOK, history
  <2>2. References'
    BY <1>2, <1>3, TurnTypes DEF IInv, References, Referable
  <2> QED BY <1>2, <1>3, <2>1, <2>2, TurnOver, TurnTypes DEF IInv
<1>4. ASSUME NEW at \in {"judge", "verdict"}, NEW unmet \in BOOLEAN,
             q.st # "completed",
             turn' = [turn EXCEPT !.at = at, !.unmet = unmet]
      PROVE  IInv'
  <2>1. /\ turn' \in TurnType /\ turn'.at = at
        /\ turn'.plan = turn.plan /\ turn'.pred = turn.pred
        /\ turn'.ran = turn.ran /\ turn'.cause = turn.cause
    BY <1>4 DEF IInv, TypeOK, TurnType, Points
  <2>2. TypeOK'
    BY <1>2, <2>1, ReferenceType DEF IInv, TypeOK, history
  <2>3. References'
    BY <1>2, <2>1 DEF IInv, References, Referable
  <2>4. PlanningOK' /\ BindingOK' /\ ExecutionOK'
    BY <1>1, <1>2, <1>4, <2>1 DEF PlanningOK, BindingOK, ExecutionOK, ThePlan
  <2> QED BY <1>2, <2>2, <2>3, <2>4 DEF IInv
<1> QED BY <1>3, <1>4

LEMMA DemotedPlan ==
  ASSUME NEW p \in Plans, NEW plan \in PlanType, NEW S \in SUBSET Steps,
         NEW A, NEW T \in History, NEW Z, PlanOK(p, plan, A, T, Z),
         plan.st \notin {"absent", "completed"}, Unfinished(plan) = {},
         Fresh(p, plan, T) => ~plan.cursor
  PROVE  /\ Demoted(plan, S) \in PlanType
         /\ Demoted(plan, S).st = plan.st
         /\ \A q \in PlanType :
              /\ q.steps = Demoted(plan, S).steps
              /\ q.auth = plan.auth /\ q.cursor = plan.cursor
              /\ \/ q.st = "paused"
                 \/ q.st = plan.st /\ ~Fresh(p, plan, T)
              => PlanOK(p, q, A, T, Z)
<1> DEFINE d == Demoted(plan, S)
<1>1. \A s \in Steps : plan.steps[s].st = "completed"
  BY DEF Unfinished
<1>2. ASSUME NEW s \in Steps
      PROVE  [plan.steps[s] EXCEPT !.st = "paused"] \in StepType
  BY DEF PlanType, StepType, StepStates
<1>3. /\ d \in PlanType /\ d.st = plan.st
      /\ d.steps = [s \in Steps |-> IF s \in S
                                    THEN [plan.steps[s] EXCEPT !.st = "paused"]
                                    ELSE plan.steps[s]]
  BY <1>2 DEF Demoted, PlanType, ChangeStates
<1>4. ASSUME NEW q \in PlanType, q.steps = d.steps, q.auth = plan.auth,
             q.cursor = plan.cursor,
             q.st = "paused" \/ (q.st = plan.st /\ ~Fresh(p, plan, T))
      PROVE  PlanOK(p, q, A, T, Z)
  <2>1. ASSUME NEW s \in Steps
        PROVE  \/ q.steps[s] = plan.steps[s]
               \/ /\ q.steps[s].ev = plan.steps[s].ev
                  /\ q.steps[s].tries = plan.steps[s].tries
                  /\ q.steps[s].st = "paused" /\ plan.steps[s].st = "completed"
    BY <1>1, <1>2, <1>3, <1>4 DEF PlanType, StepType
  <2> QED BY <1>1, <1>4, <2>1, Settling
<1> QED BY <1>3, <1>4

LEMMA TurnToJudge ==
  ASSUME IInv, NEW at \in Points, turn' = [turn EXCEPT !.at = at]
  PROVE  turn' = [turn EXCEPT !.at = at, !.unmet = turn.unmet]
         /\ turn.unmet \in BOOLEAN
BY DEF IInv, TypeOK, TurnType

LEMMA ChangePassesKeeps ==
  ASSUME IInv, ChangePasses PROVE IInv'
<1> DEFINE p == turn.plan
           done == [ThePlan EXCEPT !.change = "completed", !.noted = TRUE]
           q == [done EXCEPT !.st = IF Accepted(done) THEN "verifying" ELSE "paused"]
<1>1. /\ turn.at = "run" /\ plans' = [plans EXCEPT ![p] = q]
      /\ turn' = [turn EXCEPT !.at = "judge"]
      /\ UNCHANGED <<fails, context, applied, history>>
  BY DEF ChangePasses
<1>2. /\ p \in Plans /\ ThePlan \in PlanType /\ ~ThePlan.cursor
      /\ PlanOK(p, ThePlan, approved, tried, applied)
      /\ ThePlan.st \notin {"absent", "completed"} /\ tried \in History
  BY <1>1, InHand DEF IInv, TypeOK, History
<1>3. /\ q \in PlanType /\ q.steps = ThePlan.steps /\ q.st \in {"verifying", "paused"}
      /\ q.auth = ThePlan.auth /\ q.cursor = ThePlan.cursor
  BY <1>2 DEF PlanType, PlanStates, ChangeStates
<1> HIDE DEF q
<1>4. PlanOK(p, q, approved, tried, applied)
  <2>1. \A s \in Steps : q.steps[s] = ThePlan.steps[s]
    BY <1>3
  <2>2. ~\E s \in Steps : q.steps[s].st = "paused" /\ ThePlan.steps[s].st = "completed"
    BY <2>1
  <2> QED BY <1>2, <1>3, <2>1, <2>2, Settling
<1>5. \E at \in {"judge", "verdict"}, unmet \in BOOLEAN :
        q.st # "completed" /\ turn' = [turn EXCEPT !.at = at, !.unmet = unmet]
  BY <1>1, <1>3, TurnToJudge DEF Points
<1> QED BY <1>1, <1>3, <1>4, <1>5, Nothing, PlanSettled

LEMMA ChangeFailsKeeps ==
  ASSUME IInv, ChangeFails PROVE IInv'
<1> DEFINE p == turn.plan
<1>1. PICK S \in SUBSET Steps :
        plans' = [plans EXCEPT ![p] = [Demoted(ThePlan, S) EXCEPT !.st = "paused"]]
  BY DEF ChangeFails
<1> DEFINE q == [Demoted(ThePlan, S) EXCEPT !.st = "paused"]
<1>2. /\ turn.at = "run" /\ Unfinished(ThePlan) = {}
      /\ turn' = [turn EXCEPT !.at = "judge"]
      /\ UNCHANGED <<fails, context, applied, history>>
  BY DEF ChangeFails
<1>3. /\ p \in Plans /\ ThePlan \in PlanType /\ ~ThePlan.cursor
      /\ PlanOK(p, ThePlan, approved, tried, applied)
      /\ ThePlan.st \notin {"absent", "completed"} /\ tried \in History
  BY <1>2, InHand DEF IInv, TypeOK, History
<1>4. Demoted(ThePlan, S) \in PlanType
  BY <1>2, <1>3, DemotedPlan
<1>5. /\ q \in PlanType /\ q.steps = Demoted(ThePlan, S).steps /\ q.st = "paused"
      /\ q.auth = ThePlan.auth /\ q.cursor = ThePlan.cursor
  <2>1. /\ Demoted(ThePlan, S).auth = ThePlan.auth
        /\ Demoted(ThePlan, S).cursor = ThePlan.cursor
    BY <1>3 DEF Demoted, PlanType
  <2> QED BY <1>4, <2>1 DEF PlanType, PlanStates
<1>6. PlanOK(p, q, approved, tried, applied)
  BY <1>2, <1>3, <1>5, DemotedPlan
<1> HIDE DEF q
<1>7. \E at \in {"judge", "verdict"}, unmet \in BOOLEAN :
        q.st # "completed" /\ turn' = [turn EXCEPT !.at = at, !.unmet = unmet]
  BY <1>2, <1>5, TurnToJudge DEF Points
<1>8. plans' = [plans EXCEPT ![p] = q]
  BY <1>1 DEF q
<1> QED BY <1>2, <1>5, <1>6, <1>7, <1>8, Nothing, PlanSettled

\* A plan as reconciliation finds it.
LEMMA FoundPlan ==
  ASSUME NEW p \in Plans, NEW plan \in PlanType, NEW found \in [Steps -> StepStates],
         NEW A, NEW T \in History, PlanOK(p, plan, A, T, applied),
         plan.st \notin {"absent", "completed"},
         \A s \in Steps : found[s] \in Recovered(plan.steps[s], s)
  PROVE  /\ WithSteps(plan, found) \in PlanType
         /\ WithSteps(plan, found).st = plan.st
         /\ WithSteps(plan, found).auth = plan.auth
         /\ WithSteps(plan, found).cursor = plan.cursor
         /\ WithSteps(plan, found).change = plan.change
         /\ \A s \in Steps : WithSteps(plan, found).steps[s].st = found[s]
         /\ PlanOK(p, WithSteps(plan, found), A, T, applied)
         /\ Fresh(p, plan, T) => WithSteps(plan, found).steps = plan.steps
<1> DEFINE q == WithSteps(plan, found)
<1>1. ASSUME NEW s \in Steps
      PROVE  /\ plan.steps[s] \in StepType
             /\ [plan.steps[s] EXCEPT !.st = found[s]] \in StepType
  BY DEF PlanType, StepType
<1>2. /\ q \in PlanType /\ q.st = plan.st /\ q.auth = plan.auth
      /\ q.cursor = plan.cursor /\ q.change = plan.change
      /\ q.steps = [s \in Steps |-> [plan.steps[s] EXCEPT !.st = found[s]]]
  BY <1>1 DEF WithSteps, PlanType
<1>3. ASSUME NEW s \in Steps
      PROVE  /\ q.steps[s].ev = plan.steps[s].ev
             /\ q.steps[s].tries = plan.steps[s].tries
             /\ q.steps[s].st = found[s]
             /\ found[s] = plan.steps[s].st => q.steps[s] = plan.steps[s]
  BY <1>1, <1>2 DEF StepType
<1>4. ASSUME NEW s \in Steps
      PROVE  \/ found[s] = plan.steps[s].st
             \/ found[s] = "paused" /\ plan.steps[s].st = "execution_unknown"
             \/ /\ found[s] = "completed" /\ Done(s, applied)
                /\ \/ plan.steps[s].st = "execution_unknown"
                   \/ plan.steps[s].st = "paused" /\ plan.steps[s].ev = "ok"
  BY DEF Recovered, Present, Done
<1>5. ASSUME Fresh(p, plan, T)
      PROVE  q.steps = plan.steps
  <2>1. \A s \in Steps : found[s] = plan.steps[s].st
    BY <1>4, <1>5 DEF Fresh, Waiting
  <2>2. \A s \in Steps : q.steps[s] = plan.steps[s]
    BY <1>3, <2>1
  <2> QED BY <1>2, <2>2 DEF PlanType
<1>6. PlanOK(p, q, A, T, applied)
  <2>1. ~\E s \in Steps : q.steps[s].st = "paused" /\ plan.steps[s].st = "completed"
    BY <1>3, <1>4
  <2>2. \A s \in Steps :
           \/ q.steps[s] = plan.steps[s]
           \/ /\ q.steps[s].ev = plan.steps[s].ev
              /\ q.steps[s].tries = plan.steps[s].tries
              /\ \/ /\ q.steps[s].st = "paused"
                    /\ plan.steps[s].st = "execution_unknown"
                 \/ /\ q.steps[s].st = "completed" /\ Done(s, applied)
                    /\ \/ plan.steps[s].st = "execution_unknown"
                       \/ plan.steps[s].st = "paused" /\ plan.steps[s].ev = "ok"
    BY <1>3, <1>4
  <2>3. Fresh(p, plan, T) => q.change = "pending" /\ q.steps = plan.steps
    BY <1>2, <1>5 DEF Fresh
  <2> HIDE DEF q
  <2> QED BY <1>2, <2>1, <2>2, <2>3, Settling
<1> HIDE DEF q
<1> QED BY <1>2, <1>3, <1>5, <1>6 DEF q

\* What becomes of the change when its steps have been reconciled.
LEMMA ReconciledPlan ==
  ASSUME NEW p \in Plans, NEW plan \in PlanType, NEW q \in Reconciled(plan),
         NEW A, NEW T \in History, PlanOK(p, plan, A, T, applied),
         plan.st \notin {"absent", "completed"}
  PROVE  /\ q \in PlanType /\ q.st = plan.st
         /\ PlanOK(p, q, A, T, applied)
<1>1. CASE /\ Unfinished(plan) = {}
           /\ plan.change = "paused" /\ plan.noted
  <2>1. ~Fresh(p, plan, T) /\ ~plan.cursor /\ plan.st # "awaiting_confirmation"
    BY <1>1 DEF Fresh, PlanOK
  <2>2. CASE q = [plan EXCEPT !.change = "completed"]
    <3>1. /\ q \in PlanType /\ q.steps = plan.steps /\ q.st = plan.st
          /\ q.auth = plan.auth /\ q.cursor = plan.cursor
      BY <2>2 DEF PlanType, ChangeStates
    <3>2. /\ \A s \in Steps : q.steps[s] = plan.steps[s]
          /\ ~\E s \in Steps : q.steps[s].st = "paused"
                                 /\ plan.steps[s].st = "completed"
      BY <3>1
    <3> QED BY <2>1, <3>1, <3>2, Settling
  <2>3. CASE \E S \in SUBSET Steps : q = Demoted(plan, S)
    <3>1. PICK S \in SUBSET Steps : q = Demoted(plan, S)
      BY <2>3
    <3>2. q \in PlanType /\ q.st = plan.st
      BY <1>1, <2>1, <3>1, DemotedPlan
    <3>3. q.auth = plan.auth /\ q.cursor = plan.cursor
      BY <3>1 DEF Demoted, PlanType
    <3> QED BY <1>1, <2>1, <3>1, <3>2, <3>3, DemotedPlan
  <2> QED BY <1>1, <2>2, <2>3 DEF Reconciled
<1>2. CASE /\ ~(/\ Unfinished(plan) = {}
                /\ plan.change = "paused" /\ plan.noted)
           /\ \E s \in Steps : plan.steps[s].st \in {"paused", "execution_unknown"}
  <2>1. q = [plan EXCEPT !.change = "paused"]
    BY <1>2 DEF Reconciled
  <2>2. ~Fresh(p, plan, T)
    BY <1>2 DEF Fresh, Waiting
  <2>3. /\ q \in PlanType /\ q.steps = plan.steps /\ q.st = plan.st
        /\ q.auth = plan.auth /\ q.cursor = plan.cursor
    BY <2>1 DEF PlanType, ChangeStates
  <2>4. /\ \A s \in Steps : q.steps[s] = plan.steps[s]
        /\ ~\E s \in Steps : q.steps[s].st = "paused"
                               /\ plan.steps[s].st = "completed"
    BY <2>3
  <2> QED BY <2>2, <2>3, <2>4, Settling
<1>3. CASE /\ ~(/\ Unfinished(plan) = {}
                /\ plan.change = "paused" /\ plan.noted)
           /\ ~\E s \in Steps : plan.steps[s].st \in {"paused", "execution_unknown"}
  BY <1>3 DEF Reconciled
<1> QED BY <1>1, <1>2, <1>3

LEMMA ReconcileKeeps ==
  ASSUME IInv, Reconcile PROVE IInv'
<1> DEFINE p == turn.plan
<1>1. PICK found \in [Steps -> StepStates] :
        /\ \A s \in Steps : found[s] \in Recovered(ThePlan.steps[s], s)
        /\ \E plan \in Reconciled(WithSteps(ThePlan, found)) :
             plans' = [plans EXCEPT ![p] = plan]
        /\ turn' = [turn EXCEPT !.at = "verdict",
             !.unmet = \E s \in Steps :
                         /\ ThePlan.steps[s].st = "execution_unknown"
                         /\ found[s] = "paused"]
  BY DEF Reconcile
<1>2. PICK q \in Reconciled(WithSteps(ThePlan, found)) :
        plans' = [plans EXCEPT ![p] = q]
  BY <1>1
<1>3. turn.at = "judge" /\ UNCHANGED <<fails, context, applied, history>>
  BY DEF Reconcile
<1>4. /\ p \in Plans /\ ThePlan \in PlanType
      /\ PlanOK(p, ThePlan, approved, tried, applied)
      /\ ThePlan.st \notin {"absent", "completed"} /\ tried \in History
  BY <1>3, InHand DEF IInv, TypeOK, History
<1>5. /\ WithSteps(ThePlan, found) \in PlanType
      /\ WithSteps(ThePlan, found).st = ThePlan.st
      /\ PlanOK(p, WithSteps(ThePlan, found), approved, tried, applied)
  BY <1>1, <1>4, FoundPlan
<1>6. q \in PlanType /\ q.st = ThePlan.st /\ PlanOK(p, q, approved, tried, applied)
  BY <1>2, <1>4, <1>5, ReconciledPlan
<1>7. \E at \in {"judge", "verdict"}, unmet \in BOOLEAN :
        q.st # "completed" /\ turn' = [turn EXCEPT !.at = at, !.unmet = unmet]
  BY <1>1, <1>4, <1>6
<1> QED BY <1>2, <1>3, <1>4, <1>6, <1>7, Nothing, PlanSettled

LEMMA VerdictAsksKeeps ==
  ASSUME IInv, VerdictAsks PROVE IInv'
BY Nothing, Waits DEF VerdictAsks, history, IInv, TypeOK

LEMMA GoalAchievedKeeps ==
  ASSUME IInv, GoalAchieved PROVE IInv'
<1> DEFINE p == turn.plan
           q == [ThePlan EXCEPT !.st = "completed"]
<1>1. /\ turn.at = "verdict" /\ ThePlan.auth /\ Accepted(ThePlan)
      /\ UNCHANGED <<fails, applied, history>> /\ turn' = NoTurn
      /\ context' = [active |-> None, ran |-> None]
  BY DEF GoalAchieved
<1>2. /\ p \in Plans /\ ThePlan \in PlanType /\ plans \in [Plans -> PlanType]
      /\ PlanOK(p, ThePlan, approved, tried, applied)
  BY <1>1, InHand DEF IInv, TypeOK
<1>3. /\ q \in PlanType /\ q.steps = ThePlan.steps /\ q.st = "completed"
      /\ q.auth = ThePlan.auth /\ q.cursor = ThePlan.cursor
      /\ q.change = ThePlan.change
  BY <1>2 DEF PlanType, PlanStates
<1>4. plans' = [plans EXCEPT ![p] = q]
  BY <1>2 DEF GoalAchieved, ThePlan
<1> HIDE DEF q
<1>5. PlanOK(p, q, approved, tried, applied)
  BY <1>1, <1>2, <1>3 DEF PlanOK, Fresh, InOrder, Accepted, Unfinished
<1>6. context' \in [active : Referable, ran : Referable]
  BY <1>1, Nothing
<1> QED BY <1>1, <1>3, <1>4, <1>5, <1>6, PlanSettled

LEMMA GoalNotBorneOutKeeps ==
  ASSUME IInv, GoalNotBorneOut PROVE IInv'
<1> DEFINE p == turn.plan
           q == [ThePlan EXCEPT !.st = "paused"]
<1>1. /\ turn.at = "verdict" /\ UNCHANGED <<fails, context, applied, history>>
      /\ turn' = NoTurn
  BY DEF GoalNotBorneOut
<1>2. /\ p \in Plans /\ ThePlan \in PlanType /\ plans \in [Plans -> PlanType]
      /\ PlanOK(p, ThePlan, approved, tried, applied)
  BY <1>1, InHand DEF IInv, TypeOK
<1>3. /\ q \in PlanType /\ q.steps = ThePlan.steps /\ q.st = "paused"
      /\ q.auth = ThePlan.auth /\ q.cursor = ThePlan.cursor
      /\ q.change = ThePlan.change
  BY <1>2 DEF PlanType, PlanStates
<1>4. plans' = [plans EXCEPT ![p] = q]
  BY <1>2 DEF GoalNotBorneOut, ThePlan
<1> HIDE DEF q
<1>5. PlanOK(p, q, approved, tried, applied)
  BY <1>2, <1>3, StatusOnly
<1> QED BY <1>1, <1>3, <1>4, <1>5, Nothing, PlanSettled

LEMMA VerdictFailsKeeps ==
  ASSUME IInv, VerdictFails PROVE IInv'
<1>1. /\ turn.plan \in Existing /\ ThePlan \in PlanType
      /\ PlanOK(turn.plan, ThePlan, approved, tried, applied)
  BY InHand DEF VerdictFails
<1>2. PICK executed \in {MayHaveChanged(ThePlan)}
                          \cup (IF turn.unmet THEN {} ELSE {TRUE}) :
        FailWith(turn.plan, ThePlan, "post_execution", executed,
                 context.active, context.ran)
  BY DEF VerdictFails
<1>3. executed \in BOOLEAN
  BY <1>2 DEF MayHaveChanged
<1> QED BY <1>1, <1>2, <1>3, Nothing, Failing DEF VerdictFails, Categories, history

LEMMA ReplanKeeps ==
  ASSUME IInv, Replan PROVE IInv'
<1> DEFINE p == turn.plan
<1>1. turn.at = "verdict" /\ UNCHANGED <<plans, fails, context, applied, history>>
  BY DEF Replan
<1>2. /\ p \in Existing /\ p \in Referable /\ p # None /\ p \in 0..MaxPlans
      /\ ThePlan \in PlanType
  BY <1>1, InHand, ReferenceType DEF Referable
<1>3. turn' = [Planning(p, IF p = None THEN Absent ELSE plans[p], "post", p)
                 EXCEPT !.cause = None]
  <2>1. turn' = Planning(p, ThePlan, "post", p)
    BY DEF Replan
  <2> QED BY <1>2, <2>1, NoCause DEF Origins, ThePlan
<1>4. PlansSettled /\ revoked' \subseteq Plans
  BY <1>1, KeptSettled DEF history, IInv, TypeOK
<1>5. "post" \in Origins
  BY DEF Origins
<1> QED BY <1>1, <1>2, <1>3, <1>4, <1>5, Nothing, PlanningOpened DEF history

LEMMA WorkKeeps ==
  ASSUME IInv, Work PROVE IInv'
BY TellKeeps, PlanAgainKeeps, PlanFailsKeeps, PlanRaisesKeeps, NothingToPlanKeeps,
   PlanReadyKeeps, CheckpointKeeps, BindOkKeeps, BindResumesKeeps, BindRefusedKeeps,
   BindFailsKeeps, RebindRaisesKeeps,
   StartStepKeeps, AnswerKeeps, TimeOutKeeps, TimedOutKeeps, InterruptKeeps,
   CheckPassesKeeps, CheckFailsKeeps, ChangePassesKeeps, ChangeFailsKeeps,
   ReconcileKeeps, VerdictAsksKeeps, GoalAchievedKeeps, GoalNotBorneOutKeeps,
   VerdictFailsKeeps, ReplanKeeps DEF Work

LEMMA InitInvariant == Init => IInv
<1> SUFFICES ASSUME Init PROVE IInv
  OBVIOUS
<1>1. TypeOK
  <2>1. fails \in Seq(FailureType) /\ Len(fails) <= MaxFailures
    BY PlanAssumption DEF Init
  <2>2. 0 \in 0..MaxPlans /\ 0 \in 0..MaxCrashes /\ 0 \in 0..2
    BY PlanAssumption
  <2> QED BY <2>1, <2>2, TurnTypes DEF Init, TypeOK, None
<1>2. ASSUME NEW p \in Plans
      PROVE  PlanOK(p, plans[p], approved, tried, applied)
  <2>1. \A s \in Steps : tried[<<p, s>>] = 0
    BY DEF Init
  <2> QED BY <2>1, AbsentPlan DEF Init
<1>3. Existing = {}
  BY DEF Init, Existing, Absent
<1>4. References
  BY TurnTypes DEF Init, References, Referable
<1>5. Numbered
  <2>1. 0 \in 0..MaxPlans /\ 1..0 = {}
    BY PlanAssumption
  <2> QED BY <1>3, <2>1 DEF Numbered
<1>6. Attempts
  BY DEF Init, Attempts
<1>7. PlanningOK /\ BindingOK /\ ExecutionOK
  BY TurnTypes DEF Init, PlanningOK, BindingOK, ExecutionOK
<1> QED BY <1>1, <1>2, <1>4, <1>5, <1>6, <1>7 DEF IInv, PlansOK

LEMMA NextInvariant ==
  ASSUME IInv, [Next]_vars PROVE IInv'
<1>1. CASE Next
  BY <1>1, RequestKeeps, WorkKeeps, CrashKeeps DEF Next
<1>2. CASE UNCHANGED vars
  <2>1. UNCHANGED <<plans, fails, context, turn, applied, tried, approved, revoked,
                    crashes>>
    BY <1>2 DEF vars, history
  <2>2. PlansOK' /\ Numbered' /\ Attempts' /\ Existing' = Existing
    BY <2>1, PlansKept
  <2>3. TypeOK'
    BY <2>1 DEF IInv, TypeOK
  <2>4. References' /\ PlanningOK' /\ BindingOK' /\ ExecutionOK'
    BY <2>1, <2>2 DEF IInv, References, Referable, PlanningOK, BindingOK, ExecutionOK,
       ThePlan
  <2> QED BY <2>2, <2>3, <2>4 DEF IInv
<1> QED BY <1>1, <1>2

-----------------------------------------------------------------------------
(* The theorems.                                                            *)

\* The inductive invariant holds in every reachable state.
THEOREM Invariance == Spec => []IInv
<1>1. IInv /\ [Next]_vars => IInv'
  BY NextInvariant
<1> QED BY InitInvariant, <1>1, PTL DEF Spec

\* Plans, failure records, context and turn keep their shape; a step is never
\* attempted more than twice.
THEOREM TypeCorrect == Spec => []TypeOK
<1>1. IInv => TypeOK
  BY DEF IInv
<1> QED BY Invariance, <1>1, PTL

\* An action that tells the truth of itself has its effect at most once under
\* one plan, whatever is interrupted, killed, timed out, retried or confirmed
\* again.
THEOREM EffectAtMostOnce == Spec => []EffectOnce
<1>1. IInv => EffectOnce
  BY DEF IInv, Attempts, EffectOnce
<1> QED BY Invariance, <1>1, PTL

\* A completed plan was approved by the user, all its steps are completed, and
\* what is completed has had its effect.
THEOREM CompletedBorneOut == Spec => []CompletedIsBorneOut
<1>1. IInv => CompletedIsBorneOut
  <2> SUFFICES ASSUME IInv PROVE CompletedIsBorneOut
    OBVIOUS
  <2>1. ASSUME NEW p \in Plans
        PROVE  PlanOK(p, plans[p], approved, tried, applied)
    BY DEF IInv, PlansOK
  <2>2. \A p \in Plans : plans[p].st = "completed" =>
          p \in approved /\ plans[p].auth /\ Accepted(plans[p])
    BY <2>1 DEF PlanOK
  <2>3. \A p \in Plans, s \in Steps :
          plans[p].steps[s].st = "completed" => Present(s)
    BY <2>1 DEF PlanOK, StepOK, Done, Present
  <2> QED BY <2>2, <2>3 DEF CompletedIsBorneOut
<1> QED BY Invariance, <1>1, PTL

\* The binding of a plan that succeeds another ends well, or in a failure, or
\* goes on.
LEMMA BindingEnds ==
  ASSUME IInv, Next, turn.at = "bind", turn.pred # None, turn'.at = "idle",
         crashes' = crashes
  PROVE  BindOk
<1>1. ~Request
  BY DEF Request, NewGoal, Supersede, Refine, ResumeDraft, Resume, Approve,
     RejectContract, ConfirmAgain, ConfirmCompleted, Answered, AskDirection,
     GiveDirection, Cancel, Free
<1>2. ~Crash
  BY DEF Crash, IInv, TypeOK
<1>3. ~Checkpoint
  BY DEF Checkpoint
<1>4. ~BindRefused
  <2> SUFFICES ASSUME BindRefused PROVE FALSE
    OBVIOUS
  <2>1. turn.origin # "rebind"
    BY DEF IInv, BindingOK
  <2>2. turn' = [turn EXCEPT !.at = "plan", !.plan = None, !.again = TRUE]
    BY <2>1 DEF BindRefused
  <2> QED BY <2>2 DEF IInv, TypeOK, TurnType
<1>5. ~BindFails
  <2> SUFFICES ASSUME BindFails PROVE FALSE
    OBVIOUS
  <2>1. PICK active, ran :
          turn' = [NoTurn EXCEPT !.at = "tell", !.plan = active, !.ran = ran]
    BY BindFailure DEF FailWith
  <2> QED BY <2>1, TurnTypes DEF TurnType
<1>6. ~BindResumes
  BY DEF BindResumes, IInv, TypeOK, TurnType
<1>7. ~RebindRaises
  BY DEF RebindRaises, IInv, BindingOK
<1> QED BY <1>1, <1>2, <1>3, <1>4, <1>5, <1>6, <1>7
        DEF Next, Work, Tell, PlanAgain, PlanFails, PlanRaises, NothingToPlan,
            PlanReady, StartStep, Answer, TimeOut, TimedOut, Interrupt, CheckPasses,
            CheckFails,
            ChangePasses, ChangeFails, Reconcile, VerdictAsks, GoalAchieved,
            GoalNotBorneOut, VerdictFails, Replan

\* A plan that succeeds another awaits confirmation with every Screen component
\* the other had completed, also after a refusal, a resumed binding and a second
\* planning.
THEOREM ProgressCarried == Spec => ProgressIsCarried
<1> DEFINE A == turn.at = "bind" /\ turn.pred # None /\ turn'.at = "idle"
                  /\ crashes' = crashes =>
                  \A s \in ScreenSteps :
                    plans[turn.pred].steps[s].st = "completed" =>
                      plans'[turn.plan].steps[s].st = "completed"
<1>1. IInv /\ [Next]_vars => [A]_vars
  <2> SUFFICES ASSUME IInv, Next, turn.at = "bind", turn.pred # None,
                      turn'.at = "idle", crashes' = crashes, NEW s \in ScreenSteps,
                      plans[turn.pred].steps[s].st = "completed"
               PROVE  plans'[turn.plan].steps[s].st = "completed"
    BY DEF vars
  <2>1. BindOk
    BY BindingEnds
  <2>2. turn.plan \in Plans /\ Inherits(plans[turn.plan]) \in PlanType
        /\ plans[turn.plan] \in PlanType
    BY Binding
  <2>3. plans'[turn.plan] = Bound(plans[turn.plan])
    BY <2>1, <2>2 DEF BindOk, IInv, TypeOK
  <2>4. Bound(plans[turn.plan]).steps = Inherits(plans[turn.plan]).steps
    BY <2>2 DEF Bound, PlanType
  <2>5. turn.old.steps[s].st = "completed" /\ s \in Steps
    BY PlanAssumption DEF IInv, PlanningOK, Steps
  <2>6. Inherits(plans[turn.plan]).steps[s] = turn.old.steps[s]
    BY <2>2, <2>5 DEF Inherits, PlanType
  <2> QED BY <2>3, <2>4, <2>5, <2>6
<1> QED BY Invariance, <1>1, PTL DEF Spec, ProgressIsCarried

-----------------------------------------------------------------------------
(* The workflow keeps what StepEffects promises of the environment.         *)

\* A step that was attempted, unless its only attempt has changed nothing.
Doubt(P, T) ==
  {x \in Plans \X Steps :
     /\ T[x] > 0
     /\ ~(P[x[1]].steps[x[2]].ev = "unchanged" /\ T[x] = 1)}

\* With the invariant, doubt is a matter of evidence and attempts alone.
LEMMA DoubtOfPlans ==
  ASSUME NEW P, NEW T, NEW A, NEW Z,
         \A p \in Plans : PlanOK(p, P[p], A, T, Z)
  PROVE  Doubt(P, T) =
           {x \in Plans \X Steps :
              LET step == P[x[1]].steps[x[2]] IN
                /\ T[x] > 0
                /\ ~(/\ step.st \in {"verifying", "paused"}
                     /\ step.ev = "unchanged" /\ T[x] = 1)}
<1> SUFFICES ASSUME NEW p \in Plans, NEW s \in Steps, T[<<p, s>>] = 1,
                    P[p].steps[s].ev = "unchanged"
             PROVE  P[p].steps[s].st \in {"verifying", "paused"}
  BY DEF Doubt
<1>1. StepOK(P[p].steps[s], T[<<p, s>>], Z[p][s], Done(s, Z))
  BY DEF PlanOK
<1> QED BY <1>1 DEF StepOK

LEMMA DoubtByEvidence ==
  ASSUME IInv, IInv'
  PROVE  InDoubt = Doubt(plans, tried) /\ InDoubt' = Doubt(plans', tried')
<1>1. \A p \in Plans : PlanOK(p, plans[p], approved, tried, applied)
  BY DEF IInv, PlansOK
<1>2. \A p \in Plans : PlanOK(p, plans'[p], approved', tried', applied')
  BY DEF IInv, PlansOK
<1>3. InDoubt = Doubt(plans, tried)
  BY <1>1, DoubtOfPlans DEF InDoubt
<1>4. InDoubt' = Doubt(plans', tried')
  BY <1>2, DoubtOfPlans DEF InDoubt
<1> QED BY <1>3, <1>4

\* The evidence of what was attempted stays, and nothing is attempted.
Steady ==
  /\ UNCHANGED <<tried, approved>>
  /\ \A p \in Plans, s \in Steps : tried[<<p, s>>] > 0 =>
       plans'[p].steps[s].ev = plans[p].steps[s].ev

LEMMA SteadyDoubt ==
  ASSUME IInv, IInv', Steady
  PROVE  UNCHANGED <<approved, tried, InDoubt>>
<1>1. InDoubt = Doubt(plans, tried) /\ InDoubt' = Doubt(plans', tried')
  BY DoubtByEvidence
<1>2. Doubt(plans', tried') = Doubt(plans, tried)
  BY DEF Steady, Doubt
<1> QED BY <1>1, <1>2 DEF Steady

LEMMA SteadyWrite ==
  ASSUME IInv, NEW p \in Plans, NEW q \in PlanType,
         plans' = [plans EXCEPT ![p] = q],
         UNCHANGED <<tried, approved>>,
         \A s \in Steps : tried[<<p, s>>] > 0 =>
           q.steps[s].ev = plans[p].steps[s].ev
  PROVE  Steady
BY DEF Steady, IInv, TypeOK

LEMMA SteadyFail ==
  ASSUME IInv, NEW p \in Plans, NEW plan \in PlanType, NEW category, NEW executed,
         NEW active, NEW ran, FailWith(p, plan, category, executed, active, ran),
         UNCHANGED <<tried, approved>>,
         \A s \in Steps : tried[<<p, s>>] > 0 =>
           plan.steps[s].ev = plans[p].steps[s].ev
  PROVE  Steady
<1> DEFINE q == [plan EXCEPT !.st = IF executed THEN "paused" ELSE "blocked",
                             !.asks = Len(fails) + 1]
<1>1. plans' = [plans EXCEPT ![p] = q]
  BY DEF FailWith
<1>2. q \in PlanType /\ q.steps = plan.steps
  <2>1. Len(fails) + 1 \in 0..MaxFailures
    BY PlanAssumption DEF IInv, TypeOK, FailWith, RoomForFailure
  <2> QED BY <2>1 DEF PlanType, PlanStates
<1> HIDE DEF q
<1>3. \A s \in Steps : tried[<<p, s>>] > 0 => q.steps[s].ev = plans[p].steps[s].ev
  BY <1>2
<1>4. IInv /\ UNCHANGED <<tried, approved>>
  OBVIOUS
<1> QED BY ONLY <1>1, <1>2, <1>3, <1>4, p \in Plans, SteadyWrite

\* A plan that is bound has had no attempt.
LEMMA BindingUntried ==
  ASSUME IInv, turn.at = "bind"
  PROVE  turn.plan \in Plans /\ \A s \in Steps : tried[<<turn.plan, s>>] = 0
BY Binding DEF IInv, BindingOK, Fresh

LEMMA RequestSteady ==
  ASSUME IInv, Request, \A p \in Plans : ~Approve(p)
  PROVE  Steady
<1>1. CASE PlansSettled /\ UNCHANGED <<tried, approved>>
  BY <1>1 DEF PlansSettled, Steady
<1>2. ASSUME UNCHANGED <<plans, tried, approved>> PROVE Steady
  BY <1>2 DEF Steady
<1>3. CASE NewGoal \/ Resume
  BY <1>2, <1>3 DEF NewGoal, Resume, history
<1>4. CASE Supersede
  <2>1. Abort(context.active) /\ UNCHANGED <<applied, tried, approved>>
    BY <1>4 DEF Supersede
  <2> QED BY <1>1, <2>1, Nothing, Aborting
<1>5. CASE Refine
  <2>1. Abort(context.active) /\ UNCHANGED <<applied, tried, approved>>
    BY <1>5 DEF Refine
  <2> QED BY <1>1, <2>1, Nothing, Aborting
<1>6. CASE ResumeDraft
  <2>1. PICK p \in Plans : plans[p].st = "draft" /\ Abort(p)
    BY <1>6 DEF ResumeDraft
  <2>2. p \in Referable
    BY <2>1 DEF Referable, Existing
  <2>3. UNCHANGED <<applied, tried, approved>>
    BY <1>6 DEF ResumeDraft
  <2> QED BY <1>1, <2>1, <2>2, <2>3, Aborting
<1>7. ASSUME NEW p \in Plans, RejectContract(p)
      PROVE  Steady
  <2>1. plans[p] \in PlanType
    BY DEF IInv, TypeOK
  <2> QED BY <1>7, <2>1, SteadyFail DEF RejectContract, history
<1>8. ASSUME NEW p \in Plans, ConfirmAgain(p) \/ ConfirmCompleted(p)
      PROVE  Steady
  BY <1>2, <1>8 DEF ConfirmAgain, ConfirmCompleted, history
<1>9. ASSUME NEW f \in DOMAIN fails, Answered(f) \/ AskDirection(f) \/ GiveDirection(f)
      PROVE  Steady
  BY <1>2, <1>9 DEF Answered, AskDirection, GiveDirection, history
<1>10. ASSUME NEW f \in DOMAIN fails, Cancel(f)
       PROVE  Steady
  <2> DEFINE p == fails[f].plan
  <2>1. CASE p = None
    BY <1>2, <1>10, <2>1 DEF Cancel
  <2>2. CASE p # None
    <3>1. p \in Plans
      BY <2>2, ReferenceType DEF IInv, References, Referable
    <3>2. plans' = [plans EXCEPT ![p] = [plans[p] EXCEPT !.st = "aborted"]]
      BY <1>10, <2>2, <3>1 DEF Cancel, IInv, TypeOK
    <3>3. /\ [plans[p] EXCEPT !.st = "aborted"] \in PlanType
          /\ [plans[p] EXCEPT !.st = "aborted"].steps = plans[p].steps
      <4>1. plans[p] \in PlanType
        BY <3>1 DEF IInv, TypeOK
      <4> QED BY <4>1 DEF PlanType, PlanStates
    <3> QED BY <1>10, <3>1, <3>2, <3>3, SteadyWrite DEF Cancel
  <2> QED BY <2>1, <2>2
<1> QED BY <1>3, <1>4, <1>5, <1>6, <1>7, <1>8, <1>9, <1>10 DEF Request

LEMMA PlanningSteady ==
  ASSUME IInv, PlanAgain \/ PlanFails \/ PlanRaises \/ NothingToPlan \/ PlanReady
  PROVE  Steady
<1>1. ASSUME UNCHANGED <<plans, tried, approved>> PROVE Steady
  BY <1>1 DEF Steady
<1>2. ASSUME turn.at = "plan", turn.pred # None
      PROVE  /\ turn.pred \in Plans /\ turn.old \in PlanType
             /\ turn.old.steps = plans[turn.pred].steps
  BY <1>2, ThePredecessor, ReferenceType DEF IInv, PlanningOK, Referable
<1>3. CASE PlanFails
  <2>1. UNCHANGED <<tried, approved>> /\ turn.at = "plan"
    BY <1>3 DEF PlanFails, history
  <2>2. CASE turn.pred = None
    BY <1>1, <1>3, <2>1, <2>2 DEF PlanFails
  <2>3. CASE turn.pred # None
    <3>1. PICK category \in {"planning", "binding"} :
            FailWith(turn.pred, turn.old, category, MayHaveChanged(turn.old),
                     turn.pred, turn.ran)
      BY <1>3, <2>3 DEF PlanFails
    <3> QED BY <1>2, <2>1, <2>3, <3>1, SteadyFail
  <2> QED BY <2>2, <2>3
<1>4. CASE PlanRaises
  <2>1. UNCHANGED <<tried, approved>> /\ turn.at = "plan"
    BY <1>4 DEF PlanRaises, history
  <2>2. CASE turn.origin = "post"
    <3>1. turn.pred # None
      BY <2>1, <2>2 DEF IInv, PlanningOK
    <3>2. FailWith(turn.pred, turn.old, "post_execution",
                   MayHaveChanged(turn.old), context.active, context.ran)
      BY <1>4, <2>2 DEF PlanRaises
    <3> QED BY <1>2, <2>1, <3>1, <3>2, SteadyFail
  <2>3. CASE turn.origin # "post"
    BY <1>1, <1>4, <2>1, <2>3 DEF PlanRaises
  <2> QED BY <2>2, <2>3
<1>5. CASE NothingToPlan \/ PlanAgain
  BY <1>1, <1>5 DEF NothingToPlan, PlanAgain, history
<1>6. CASE PlanReady
  <2> DEFINE p == Cardinality(Existing) + 1
             q == [Absent EXCEPT !.st = "draft"]
  <2>1. plans' = [plans EXCEPT ![p] = q] /\ UNCHANGED <<tried, approved>>
    BY <1>6 DEF PlanReady, history
  <2>2. PICK n \in 0..MaxPlans : Existing = 1..n
    BY DEF IInv, Numbered
  <2>3. Cardinality(Existing) = n
    BY <2>2, FS_Interval, PlanAssumption
  <2>4. p \in Plans /\ p \notin Existing
    BY <1>6, <2>2, <2>3, PlanAssumption DEF PlanReady, RoomForPlan, Plans
  <2>5. plans[p].st = "absent"
    BY <2>4 DEF Existing
  <2>6. plans[p] = Absent
    BY <2>4, <2>5 DEF IInv, PlansOK, PlanOK
  <2>7. q \in PlanType /\ q.steps = plans[p].steps
    BY <2>6, TurnTypes DEF PlanType, PlanStates
  <2> HIDE DEF p, q
  <2> QED BY <2>1, <2>4, <2>7, SteadyWrite
<1> QED BY <1>3, <1>4, <1>5, <1>6

LEMMA BindingSteady ==
  ASSUME IInv, Checkpoint \/ BindOk \/ BindResumes \/ BindRefused \/ BindFails
                 \/ RebindRaises
  PROVE  Steady
<1> DEFINE p == turn.plan
<1>1. /\ turn.at = "bind" /\ UNCHANGED <<tried, approved>>
  BY DEF Checkpoint, BindOk, BindResumes, BindRefused, BindFails, RebindRaises, history
<1>2. p \in Plans /\ \A s \in Steps : tried[<<p, s>>] = 0
  BY <1>1, BindingUntried
<1>3. ASSUME NEW r \in Plans \ {p} PROVE plans'[r] = plans[r]
  BY <1>2, <1>3 DEF Checkpoint, BindOk, BindResumes, BindRefused, BindFails,
     RebindRaises, FailWith, IInv, TypeOK
<1>4. \A r \in Plans, s \in Steps : tried[<<r, s>>] > 0 => plans'[r] = plans[r]
  BY <1>2, <1>3
<1> QED BY <1>1, <1>4 DEF Steady

\* What the executor or the checker says is evidence for the step in hand.
LEMMA CheckSteady ==
  ASSUME IInv, CheckPasses \/ CheckFails \/ Interrupt
  PROVE  Steady
<1>1. /\ turn.at \in {"act", "check"} /\ UNCHANGED <<tried, approved>>
  BY DEF CheckPasses, CheckFails, Interrupt, history
<1>2. /\ turn.plan \in Plans /\ turn.step \in Steps /\ ThePlan \in PlanType
  BY <1>1, InHand
<1>3. PICK st \in StepStates, change \in ChangeStates, status \in PlanStates :
        SaveStep(st, ThePlan.steps[turn.step].ev, change, status)
  <2>1. /\ {"completed", "paused", "execution_unknown"} \subseteq StepStates
        /\ "paused" \in ChangeStates /\ "paused" \in PlanStates
        /\ ThePlan.change \in ChangeStates /\ ThePlan.st \in PlanStates
    BY <1>2 DEF StepStates, ChangeStates, PlanStates, PlanType
  <2> QED BY <2>1 DEF CheckPasses, CheckFails, Interrupt
<1> DEFINE ev == ThePlan.steps[turn.step].ev
           step == SavedStep(st, ev)
           q == SavedPlan(st, ev, change, status)
<1>4. ev \in Evidence /\ ThePlan.steps \in [Steps -> StepType]
  BY <1>2 DEF PlanType, StepType
<1>5. /\ q \in PlanType /\ plans' = [plans EXCEPT ![turn.plan] = q]
      /\ step.ev = ev /\ q.steps = [ThePlan.steps EXCEPT ![turn.step] = step]
  BY <1>2, <1>3, <1>4, Saving
<1>6. \A s \in Steps : q.steps[s].ev = plans[turn.plan].steps[s].ev
  BY <1>2, <1>4, <1>5 DEF ThePlan
<1> HIDE DEF q
<1> DEFINE p == turn.plan
<1>7. /\ p \in Plans /\ q \in PlanType /\ plans' = [plans EXCEPT ![p] = q]
      /\ IInv /\ UNCHANGED <<tried, approved>>
      /\ \A s \in Steps : tried[<<p, s>>] > 0 => q.steps[s].ev = plans[p].steps[s].ev
  BY <1>1, <1>2, <1>5, <1>6
<1> HIDE DEF p
<1> QED BY <1>7, SteadyWrite

LEMMA TimedOutSteady ==
  ASSUME IInv, TimedOut PROVE Steady
<1> DEFINE q == [ThePlan EXCEPT !.change = "paused"]
<1>1. turn.plan \in Plans /\ q \in PlanType /\ q.steps = plans[turn.plan].steps
  BY InHand, LatePlan DEF TimedOut, ThePlan
<1>2. FailWith(turn.plan, q, "execution", TRUE, context.active, context.ran)
      /\ UNCHANGED <<tried, approved>>
  BY DEF TimedOut, history
<1> HIDE DEF q
<1> QED BY <1>1, <1>2, SteadyFail

LEMMA DemotedEvidence ==
  ASSUME NEW plan \in PlanType, NEW S \in SUBSET Steps
  PROVE  /\ Demoted(plan, S) \in PlanType
         /\ \A s \in Steps : Demoted(plan, S).steps[s].ev = plan.steps[s].ev
<1>1. ASSUME NEW s \in Steps
      PROVE  /\ [plan.steps[s] EXCEPT !.st = "paused"] \in StepType
             /\ [plan.steps[s] EXCEPT !.st = "paused"].ev = plan.steps[s].ev
  BY DEF PlanType, StepType, StepStates
<1>2. /\ Demoted(plan, S) \in PlanType
      /\ Demoted(plan, S).steps =
           [s \in Steps |-> IF s \in S THEN [plan.steps[s] EXCEPT !.st = "paused"]
                            ELSE plan.steps[s]]
  BY <1>1 DEF Demoted, PlanType, ChangeStates
<1> QED BY <1>1, <1>2

LEMMA ReconciledEvidence ==
  ASSUME NEW plan \in PlanType, NEW found \in [Steps -> StepStates],
         NEW q \in Reconciled(WithSteps(plan, found))
  PROVE  q \in PlanType /\ \A s \in Steps : q.steps[s].ev = plan.steps[s].ev
<1> DEFINE w == WithSteps(plan, found)
<1>1. ASSUME NEW s \in Steps
      PROVE  /\ [plan.steps[s] EXCEPT !.st = found[s]] \in StepType
             /\ [plan.steps[s] EXCEPT !.st = found[s]].ev = plan.steps[s].ev
  BY DEF PlanType, StepType
<1>2. /\ w \in PlanType
      /\ w.steps = [s \in Steps |-> [plan.steps[s] EXCEPT !.st = found[s]]]
  BY <1>1 DEF WithSteps, PlanType
<1>3. \A s \in Steps : w.steps[s].ev = plan.steps[s].ev
  BY <1>1, <1>2
<1> HIDE DEF w
<1>4. \/ q \in {[w EXCEPT !.change = "completed"], [w EXCEPT !.change = "paused"], w}
      \/ \E S \in SUBSET Steps : q = Demoted(w, S)
  BY DEF Reconciled, w
<1>5. CASE q \in {[w EXCEPT !.change = "completed"], [w EXCEPT !.change = "paused"], w}
  <2>1. q \in PlanType /\ q.steps = w.steps
    BY <1>2, <1>5 DEF PlanType, ChangeStates
  <2> QED BY <1>3, <2>1
<1>6. CASE \E S \in SUBSET Steps : q = Demoted(w, S)
  BY <1>2, <1>3, <1>6, DemotedEvidence
<1> QED BY <1>4, <1>5, <1>6

LEMMA JudgementSteady ==
  ASSUME IInv, ChangePasses \/ ChangeFails \/ Reconcile \/ VerdictAsks
                 \/ GoalAchieved \/ GoalNotBorneOut \/ VerdictFails \/ Replan
  PROVE  Steady
<1> DEFINE p == turn.plan
<1>1. /\ turn.at \in {"run", "judge", "verdict"} /\ UNCHANGED <<tried, approved>>
  BY DEF ChangePasses, ChangeFails, Reconcile, VerdictAsks, GoalAchieved,
     GoalNotBorneOut, VerdictFails, Replan, history
<1>2. p \in Plans /\ ThePlan \in PlanType /\ ThePlan = plans[p]
  BY <1>1, InHand DEF ThePlan
<1>3. ASSUME NEW q \in PlanType, plans' = [plans EXCEPT ![p] = q],
             \A s \in Steps : q.steps[s].ev = ThePlan.steps[s].ev
      PROVE  Steady
  BY <1>1, <1>2, <1>3, SteadyWrite
<1>4. CASE ChangePasses
  <2> DEFINE done == [ThePlan EXCEPT !.change = "completed", !.noted = TRUE]
             q == [done EXCEPT !.st = IF Accepted(done) THEN "verifying" ELSE "paused"]
  <2>1. plans' = [plans EXCEPT ![p] = q]
    BY <1>4 DEF ChangePasses
  <2>2. q \in PlanType /\ q.steps = ThePlan.steps
    BY <1>2 DEF PlanType, PlanStates, ChangeStates
  <2> HIDE DEF q
  <2>3. \A s \in Steps : q.steps[s].ev = ThePlan.steps[s].ev
    BY <2>2
  <2> QED BY <1>3, <2>1, <2>2, <2>3
<1>5. CASE ChangeFails
  <2>1. PICK S \in SUBSET Steps :
          plans' = [plans EXCEPT ![p] = [Demoted(ThePlan, S) EXCEPT !.st = "paused"]]
    BY <1>5 DEF ChangeFails
  <2> DEFINE d == Demoted(ThePlan, S)
             q == [d EXCEPT !.st = "paused"]
  <2>2. d \in PlanType /\ \A s \in Steps : d.steps[s].ev = ThePlan.steps[s].ev
    BY <1>2, DemotedEvidence
  <2> HIDE DEF d
  <2>3. q \in PlanType /\ q.steps = d.steps
    BY <2>2 DEF PlanType, PlanStates
  <2>4. plans' = [plans EXCEPT ![p] = q]
    BY <2>1 DEF d
  <2> HIDE DEF q
  <2>5. \A s \in Steps : q.steps[s].ev = ThePlan.steps[s].ev
    BY <2>2, <2>3
  <2> QED BY <1>3, <2>3, <2>4, <2>5
<1>6. CASE Reconcile
  <2>1. PICK found \in [Steps -> StepStates] :
          \E q \in Reconciled(WithSteps(ThePlan, found)) :
            plans' = [plans EXCEPT ![p] = q]
    BY <1>6 DEF Reconcile
  <2>2. PICK q \in Reconciled(WithSteps(ThePlan, found)) :
          plans' = [plans EXCEPT ![p] = q]
    BY <2>1
  <2>3. q \in PlanType /\ \A s \in Steps : q.steps[s].ev = ThePlan.steps[s].ev
    BY <1>2, ReconciledEvidence
  <2> QED BY <1>3, <2>2, <2>3
<1>7. CASE VerdictAsks \/ Replan
  BY <1>1, <1>7 DEF VerdictAsks, Replan, Steady
<1>8. CASE GoalAchieved \/ GoalNotBorneOut
  <2>1. PICK status \in {"completed", "paused"} :
          plans' = [plans EXCEPT ![p].st = status]
    BY <1>8 DEF GoalAchieved, GoalNotBorneOut
  <2> DEFINE q == [ThePlan EXCEPT !.st = status]
  <2>2. plans' = [plans EXCEPT ![p] = q]
    BY <1>2, <2>1 DEF IInv, TypeOK
  <2>3. q \in PlanType /\ q.steps = ThePlan.steps
    BY <1>2 DEF PlanType, PlanStates
  <2> HIDE DEF q
  <2>4. \A s \in Steps : q.steps[s].ev = ThePlan.steps[s].ev
    BY <2>3
  <2> QED BY <1>3, <2>2, <2>3, <2>4
<1>9. CASE VerdictFails
  <2>1. \E executed : FailWith(p, ThePlan, "post_execution", executed,
                               context.active, context.ran)
    BY <1>9 DEF VerdictFails
  <2> QED BY <1>1, <1>2, <2>1, SteadyFail
<1> QED BY <1>4, <1>5, <1>6, <1>7, <1>8, <1>9

\* Plan p alone is saved again, with new evidence for step s alone.
Concerns(before, after, p, s) ==
  \E q \in PlanType :
    /\ after = [before EXCEPT ![p] = q]
    /\ \A t \in Steps \ {s} : q.steps[t].ev = before[p].steps[t].ev

\* Evidence recorded for one step in doubt: no other step is concerned, and it
\* stays in doubt unless this was its only attempt.
LEMMA DoubtKept ==
  ASSUME IInv, IInv', tried' = tried,
         NEW p \in Plans, NEW s \in Steps,
         Concerns(plans, plans', p, s),
         <<p, s>> \in InDoubt
  PROVE  \/ InDoubt' = InDoubt
         \/ tried[<<p, s>>] = 1 /\ InDoubt' = InDoubt \ {<<p, s>>}
<1>0. PICK q \in PlanType :
        /\ plans' = [plans EXCEPT ![p] = q]
        /\ \A t \in Steps \ {s} : q.steps[t].ev = plans[p].steps[t].ev
  BY DEF Concerns
<1>1. InDoubt = Doubt(plans, tried) /\ InDoubt' = Doubt(plans', tried)
  BY DoubtByEvidence
<1>2. ASSUME NEW x \in Plans \X Steps, x # <<p, s>>
      PROVE  x \in InDoubt' <=> x \in InDoubt
  <2>1. x[1] \in Plans /\ x[2] \in Steps /\ x = <<x[1], x[2]>>
    OBVIOUS
  <2>2. plans'[x[1]].steps[x[2]].ev = plans[x[1]].steps[x[2]].ev
    BY <1>0, <1>2, <2>1 DEF IInv, TypeOK
  <2> QED BY <1>1, <2>2 DEF Doubt
<1>3. /\ <<p, s>> \in InDoubt'
         \/ (tried[<<p, s>>] = 1 /\ <<p, s>> \notin InDoubt')
      /\ InDoubt \subseteq Plans \X Steps /\ InDoubt' \subseteq Plans \X Steps
  BY <1>1 DEF Doubt
<1> DEFINE x == <<p, s>>
           D == InDoubt
           E == InDoubt'
<1>4. /\ x \in D /\ D \subseteq Plans \X Steps /\ E \subseteq Plans \X Steps
      /\ x \in E \/ (tried[x] = 1 /\ x \notin E)
      /\ \A y \in Plans \X Steps : y # x => (y \in E <=> y \in D)
  BY <1>2, <1>3
<1> HIDE DEF x, D, E
<1>5. E = D \/ (tried[x] = 1 /\ E = D \ {x})
  <2>1. CASE x \in E
    <3>1. \A y : y \in E <=> y \in D
      BY <1>4, <2>1
    <3> QED BY <3>1
  <2>2. CASE x \notin E
    <3>1. \A y : y \in E <=> y \in D \ {x}
      BY <1>4, <2>2
    <3> QED BY <1>4, <2>2, <3>1
  <2> QED BY <2>1, <2>2
<1> QED BY <1>5 DEF x, D, E

LEMMA AnswerRefines ==
  ASSUME IInv, IInv', Answer \/ TimeOut
  PROVE  [Effects!Next]_<<approved, tried, InDoubt>>
<1> DEFINE p == turn.plan
           s == turn.step
<1>1. turn.at = "act" /\ UNCHANGED <<tried, approved>>
  BY DEF Answer, TimeOut, history
<1>2. /\ p \in Plans /\ s \in Steps /\ ThePlan \in PlanType /\ tried[<<p, s>>] > 0
      /\ ThePlan = plans[p] /\ ThePlan.steps \in [Steps -> StepType]
      /\ PlanOK(p, ThePlan, approved, tried, applied)
  BY <1>1, InHand DEF ThePlan, PlanType
<1>3. <<p, s>> \in InDoubt
  <2>1. ThePlan.steps[s].st = "running"
    BY <1>1 DEF IInv, ExecutionOK
  <2> QED BY <1>2, <2>1 DEF InDoubt
<1>4. \E q \in PlanType :
        /\ plans' = [plans EXCEPT ![p] = q]
        /\ \A t \in Steps \ {s} : q.steps[t].ev = plans[p].steps[t].ev
  <2>1. PICK st \in StepStates, ev \in Evidence :
          SaveStep(st, ev, ThePlan.change, "verifying")
    BY DEF Answer, TimeOut, StepStates, Evidence
  <2> DEFINE step == SavedStep(st, ev)
             q == SavedPlan(st, ev, ThePlan.change, "verifying")
  <2>2. "verifying" \in PlanStates /\ ThePlan.change \in ChangeStates
    BY <1>2 DEF PlanStates, PlanType
  <2>3. /\ q \in PlanType /\ plans' = [plans EXCEPT ![p] = q]
        /\ q.steps = [ThePlan.steps EXCEPT ![s] = step]
    BY <1>2, <2>1, <2>2, Saving
  <2> HIDE DEF q, step
  <2>4. \A t \in Steps \ {s} : q.steps[t].ev = plans[p].steps[t].ev
    BY <1>2, <2>3
  <2> QED BY <2>3, <2>4
<1>5. \/ InDoubt' = InDoubt
      \/ tried[<<p, s>>] = 1 /\ InDoubt' = InDoubt \ {<<p, s>>}
  <2>1. Concerns(plans, plans', p, s)
    BY <1>4 DEF Concerns
  <2>2. IInv /\ IInv' /\ tried' = tried /\ p \in Plans /\ s \in Steps
    BY <1>1, <1>2
  <2> HIDE DEF p, s
  <2> QED BY ONLY <1>3, <2>1, <2>2, DoubtKept
<1> HIDE DEF p, s
<1>6. CASE InDoubt' = InDoubt
  BY <1>1, <1>6
<1>7. CASE tried[<<p, s>>] = 1 /\ InDoubt' = InDoubt \ {<<p, s>>}
  <2>1. Effects!NothingChanged(p, s)
    BY <1>1, <1>7 DEF Effects!NothingChanged
  <2> QED BY <1>2, <2>1 DEF Effects!Next
<1> QED BY <1>5, <1>6, <1>7

LEMMA ApproveRefines ==
  ASSUME IInv, IInv', NEW p \in Plans, Approve(p)
  PROVE  Effects!Approve(p)
<1> DEFINE q == [plans[p] EXCEPT !.st = "approved", !.auth = TRUE]
<1>1. /\ plans' = [plans EXCEPT ![p] = q] /\ tried' = tried
      /\ approved' = approved \cup {p}
  BY DEF Approve, IInv, TypeOK
<1>2. q.steps = plans[p].steps
  BY DEF IInv, TypeOK, PlanType
<1>3. \A r \in Plans : plans'[r].steps = plans[r].steps
  BY <1>1, <1>2 DEF IInv, TypeOK
<1>4. InDoubt = Doubt(plans, tried) /\ InDoubt' = Doubt(plans', tried')
  BY DoubtByEvidence
<1>5. Doubt(plans', tried') = Doubt(plans, tried)
  BY <1>1, <1>3 DEF Doubt
<1> QED BY <1>1, <1>4, <1>5 DEF Effects!Approve

\* A step that is started was not in doubt, and is from now on.
LEMMA StartRefines ==
  ASSUME IInv, IInv', StartStep
  PROVE  \E p \in Plans, s \in Steps : Effects!Attempt(p, s)
<1> DEFINE p == turn.plan
<1>1. PICK s \in Unfinished(ThePlan) :
        /\ plans' = [plans EXCEPT ![p] =
             [@ EXCEPT !.steps[s] = Started(ThePlan.steps[s]),
                       !.change = "running", !.st = "executing"]]
        /\ tried' = [tried EXCEPT ![<<p, s>>] = @ + 1]
  BY DEF StartStep
<1>2. turn.at = "run" /\ approved' = approved
  BY DEF StartStep
<1>3. /\ p \in Plans /\ p \in approved /\ ThePlan = plans[p]
      /\ ThePlan \in PlanType /\ ThePlan.steps \in [Steps -> StepType]
      /\ s \in Steps /\ ThePlan.steps[s].st # "completed"
      /\ tried \in [Plans \X Steps -> 0..2]
  BY <1>2, InHand DEF ThePlan, PlanType, Unfinished, IInv, TypeOK
<1>4. StepOK(ThePlan.steps[s], tried[<<p, s>>], applied[p][s], Done(s, applied))
  BY <1>3 DEF IInv, PlansOK, PlanOK
<1>5. \/ tried[<<p, s>>] = 0 /\ ThePlan.steps[s].ev = "none"
            /\ ThePlan.steps[s].tries = 0
      \/ tried[<<p, s>>] = 1 /\ ThePlan.steps[s].ev = "unchanged"
            /\ ThePlan.steps[s].tries = 1
  BY <1>2, <1>3, <1>4 DEF IInv, ExecutionOK, Waiting, Retriable, StepOK
<1> DEFINE x == <<p, s>>
           new == Started(ThePlan.steps[s])
           steps == [ThePlan.steps EXCEPT ![s] = new]
           q == [ThePlan EXCEPT !.steps = steps,
                                !.change = "running", !.st = "executing"]
<1>6. new \in StepType /\ new.ev = ThePlan.steps[s].ev
  BY <1>3, <1>5, StartedStep
<1> HIDE DEF new
<1>7. steps \in [Steps -> StepType] /\ steps[s] = new
      /\ \A t \in Steps \ {s} : steps[t] = ThePlan.steps[t]
  BY <1>3, <1>6
<1>8. plans' = [plans EXCEPT ![p] = q]
  <2>1. plans' = [plans EXCEPT ![p] = [plans[p] EXCEPT !.steps[s] = new,
                                        !.change = "running", !.st = "executing"]]
    BY <1>1, <1>3 DEF new, IInv, TypeOK
  <2> QED BY <1>3, <2>1
<1>9. q.steps = steps
  BY <1>3 DEF PlanType
<1> HIDE DEF q, steps
<1>10. /\ plans'[p].steps[s].ev = ThePlan.steps[s].ev
       /\ \A t \in Steps \ {s} : plans'[p].steps[t].ev = plans[p].steps[t].ev
       /\ \A r \in Plans \ {p} : plans'[r] = plans[r]
  BY <1>3, <1>6, <1>7, <1>8, <1>9 DEF IInv, TypeOK
<1>11. /\ x \in Plans \X Steps /\ tried'[x] = tried[x] + 1
       /\ \A y \in Plans \X Steps : y # x => tried'[y] = tried[y]
  BY <1>1, <1>3
<1>12. InDoubt = Doubt(plans, tried) /\ InDoubt' = Doubt(plans', tried')
  BY DoubtByEvidence
<1>13. x \notin InDoubt /\ x \in InDoubt'
  <2>1. x[1] = p /\ x[2] = s
    OBVIOUS
  <2>2. x \notin InDoubt
    BY <1>5, <1>3, <1>12, <2>1 DEF Doubt
  <2>3. tried'[x] > 0 /\ ~(plans'[p].steps[s].ev = "unchanged" /\ tried'[x] = 1)
    BY <1>5, <1>10, <1>11
  <2>4. x \in Doubt(plans', tried')
    BY <1>11, <2>1, <2>3 DEF Doubt
  <2> QED BY <1>12, <2>2, <2>4
<1>14. ASSUME NEW y \in Plans \X Steps, y # x
       PROVE  y \in InDoubt' <=> y \in InDoubt
  <2>1. y[1] \in Plans /\ y[2] \in Steps /\ y = <<y[1], y[2]>>
    OBVIOUS
  <2>2. plans'[y[1]].steps[y[2]].ev = plans[y[1]].steps[y[2]].ev
    BY <1>10, <1>14, <2>1
  <2>3. tried'[y] = tried[y]
    BY <1>11, <1>14
  <2> QED BY <1>12, <2>2, <2>3 DEF Doubt
<1>15. InDoubt \subseteq Plans \X Steps /\ InDoubt' \subseteq Plans \X Steps
  BY <1>12 DEF Doubt
<1> DEFINE D == InDoubt
           E == InDoubt'
<1>16. E = D \cup {x}
  <2>1. /\ x \in E /\ D \subseteq Plans \X Steps /\ E \subseteq Plans \X Steps
        /\ \A y \in Plans \X Steps : y # x => (y \in E <=> y \in D)
    BY <1>13, <1>14, <1>15
  <2> HIDE DEF x, D, E
  <2>2. \A y : y \in E <=> y \in D \cup {x}
    BY <2>1
  <2> QED BY <2>2
<1> HIDE DEF p
<1>17. Effects!Attempt(p, s)
  BY <1>1, <1>2, <1>3, <1>13, <1>16 DEF Effects!Attempt
<1> QED BY <1>3, <1>17

\* Every step of the workflow is a step of StepEffects or does not concern it.
LEMMA StepRefines ==
  ASSUME IInv, IInv', [Next]_vars
  PROVE  [Effects!Next]_<<approved, tried, InDoubt>>
<1>1. CASE Steady
  BY <1>1, SteadyDoubt
<1>2. CASE UNCHANGED vars
  BY <1>1, <1>2 DEF vars, history, Steady
<1>3. CASE Crash
  BY <1>1, <1>3 DEF Crash, Steady
<1>4. CASE Request
  <2>1. CASE \E p \in Plans : Approve(p)
    BY <2>1, ApproveRefines DEF Effects!Next
  <2>2. CASE \A p \in Plans : ~Approve(p)
    BY <1>1, <1>4, <2>2, RequestSteady
  <2> QED BY <2>1, <2>2
<1>5. CASE StartStep
  BY <1>5, StartRefines DEF Effects!Next
<1>6. CASE Answer \/ TimeOut
  BY <1>6, AnswerRefines
<1>7. CASE Tell
  BY <1>1, <1>7 DEF Tell, history, Steady
<1>8. CASE Work /\ ~(StartStep \/ Answer \/ TimeOut \/ Tell)
  <2>1. Steady
    BY <1>8, PlanningSteady, BindingSteady, CheckSteady, TimedOutSteady,
       JudgementSteady DEF Work
  <2> QED BY <1>1, <2>1
<1> QED BY <1>2, <1>3, <1>4, <1>5, <1>6, <1>7, <1>8 DEF Next

\* Only steps of approved plans are attempted, and none whose last attempt is
\* in doubt: the workflow implements StepEffects.
THEOREM WorkflowImplementsEffects == Spec => ImplementsStepEffects
<1>1. Init => Effects!Init
  BY DEF Init, Effects!Init, InDoubt
<1>2. IInv /\ IInv' /\ [Next]_vars => [Effects!Next]_(Effects!effects)
  BY StepRefines DEF Effects!effects
<1> QED BY Invariance, <1>1, <1>2, PTL DEF Spec, Effects!Spec, ImplementsStepEffects

-----------------------------------------------------------------------------
(* The decisions of the user.                                               *)

Open(f) == fails[f].stored /\ Unresolved(f)

\* A stored record that is not answered is the last one stored and holds up
\* every turn; a plan asks for a record that has been made.
OffersOK ==
  /\ \A p \in Plans : plans[p].asks \in 0..Len(fails)
  /\ \A f \in DOMAIN fails : Open(f) => turn.at = "idle" /\ f = LatestFailure

\* Nothing waits for the user's decision.
Closed == \A f \in DOMAIN fails : ~Open(f)

\* A plan keeps its record, or loses it as it is made anew.
RecordsKept ==
  /\ fails' = fails
  /\ \A p \in Plans : plans'[p].asks \in {plans[p].asks, None}

\* A record is made that is not stored yet.
RecordAdded ==
  /\ \E e \in FailureType : ~e.stored /\ fails' = Append(fails, e)
  /\ \A p \in Plans : plans'[p].asks \in {plans[p].asks, Len(fails) + 1}

\* A turn is under way, or begins, only when nothing is open.
LEMMA TurnsAreClosed ==
  ASSUME TypeOK, OffersOK, turn.at # "idle" \/ Free
  PROVE  Closed
<1> SUFFICES ASSUME NEW f \in DOMAIN fails, Open(f) PROVE FALSE
  BY DEF Closed
<1>1. turn.at = "idle" /\ f = LatestFailure
  BY DEF OffersOK
<1>2. f # None
  BY DEF None, TypeOK
<1>3. Pending = LatestFailure
  BY <1>1, <1>2 DEF Pending, Open
<1> QED BY <1>1, <1>2, <1>3 DEF Free

\* What a step that answers no record does to a closed set of records.
LEMMA StaysOffered ==
  ASSUME TypeOK, TypeOK', OffersOK, Closed, RecordsKept \/ RecordAdded
  PROVE  OffersOK'
<1> USE DEF TypeOK
<1>1. CASE RecordsKept
  <2>1. fails' = fails /\ Len(fails) \in Nat
    BY <1>1 DEF RecordsKept
  <2>2. \A p \in Plans : plans'[p].asks \in 0..Len(fails')
    <3> SUFFICES ASSUME NEW p \in Plans PROVE plans'[p].asks \in 0..Len(fails')
      OBVIOUS
    <3>1. plans'[p].asks = plans[p].asks \/ plans'[p].asks = 0
      BY <1>1 DEF RecordsKept, None
    <3>2. plans[p].asks \in 0..Len(fails)
      BY DEF OffersOK
    <3> HIDE DEF TypeOK
    <3> QED BY <2>1, <3>1, <3>2
  <2> QED BY <2>1, <2>2 DEF OffersOK, Closed, Open, Unresolved
<1>2. CASE RecordAdded
  <2>1. PICK e \in FailureType : ~e.stored /\ fails' = Append(fails, e)
    BY <1>2 DEF RecordAdded
  <2>2. Len(fails') = Len(fails) + 1 /\ DOMAIN fails' = 1..Len(fails) + 1
    BY <2>1
  <2>3. /\ fails'[Len(fails) + 1] = e
        /\ \A f \in 1..Len(fails) : fails'[f] = fails[f]
    BY <2>1
  <2>4. \A f \in DOMAIN fails' : ~(fails'[f].stored /\ fails'[f].choice # "given")
    <3> SUFFICES ASSUME NEW f \in DOMAIN fails'
                 PROVE  ~(fails'[f].stored /\ fails'[f].choice # "given")
      OBVIOUS
    <3>1. CASE f = Len(fails) + 1 BY <2>1, <2>3, <3>1
    <3>2. CASE f \in 1..Len(fails)
      BY <2>3, <3>2 DEF Closed, Open, Unresolved
    <3> QED BY <2>2, <3>1, <3>2
  <2>5. \A p \in Plans : plans'[p].asks \in 0..Len(fails')
    BY <1>2, <2>2 DEF RecordAdded, OffersOK
  <2> QED BY <2>4, <2>5 DEF OffersOK, Open, Unresolved
<1> QED BY <1>1, <1>2

LEMMA FailureAdds ==
  ASSUME TypeOK, NEW p \in Plans, NEW plan \in PlanType,
         NEW category \in Categories, NEW executed \in BOOLEAN,
         NEW active, NEW ran,
         FailWith(p, plan, category, executed, active, ran)
  PROVE  RecordAdded
<1> DEFINE e == Failure(p, category, executed, FALSE)
           q == [plan EXCEPT !.st = IF executed THEN "paused" ELSE "blocked",
                             !.asks = Len(fails) + 1]
<1>1. fails' = Append(fails, e) /\ plans' = [plans EXCEPT ![p] = q]
  BY DEF FailWith
<1>2. ~e.stored /\ q.asks = Len(fails) + 1
  BY DEF Failure, PlanType
<1>3. p \in 0..MaxPlans
  BY PlanAssumption DEF Plans
<1>4. e \in FailureType
  BY <1>3, FailureTypes
<1> HIDE DEF e, q
<1> QED BY <1>1, <1>2, <1>4 DEF RecordAdded, TypeOK

LEMMA RecordAlone ==
  ASSUME TypeOK, NEW p \in 0..MaxPlans, NEW category \in Categories,
         UNCHANGED plans,
         fails' = Append(fails, Failure(p, category, FALSE, FALSE))
  PROVE  RecordAdded
<1> DEFINE e == Failure(p, category, FALSE, FALSE)
<1>1. ~e.stored
  BY DEF Failure
<1>2. e \in FailureType
  BY FailureTypes
<1>3. fails' = Append(fails, e)
  OBVIOUS
<1> HIDE DEF e
<1> QED BY <1>1, <1>2, <1>3 DEF RecordAdded

\* One plan is written, and keeps its record.
LEMMA PlanKeeps ==
  ASSUME TypeOK, NEW p \in Plans, NEW q,
         plans' = [plans EXCEPT ![p] = q], fails' = fails,
         q.asks \in {plans[p].asks, None}
  PROVE  RecordsKept
BY DEF RecordsKept, TypeOK

LEMMA AbortKeeps ==
  ASSUME TypeOK, NEW p \in 0..MaxPlans, Abort(p), fails' = fails
  PROVE  RecordsKept
<1>1. CASE plans' = plans
  BY <1>1 DEF RecordsKept
<1>2. CASE plans' # plans
  <2> DEFINE q == [plans[p] EXCEPT !.st = "aborted", !.auth = FALSE]
  <2>1. p \in Plans /\ plans' = [plans EXCEPT ![p].st = "aborted", ![p].auth = FALSE]
    BY <1>2, PlanAssumption DEF Abort, Plans, None
  <2>2. plans[p] \in PlanType
    BY <2>1 DEF TypeOK
  <2>3. q.asks = plans[p].asks
    BY <2>2 DEF PlanType
  <2>4. plans' = [plans EXCEPT ![p] = q]
    BY <2>1, <2>2 DEF TypeOK, PlanType
  <2> HIDE DEF q
  <2> QED BY <2>1, <2>3, <2>4, PlanKeeps
<1> QED BY <1>1, <1>2

LEMMA RequestOffers ==
  ASSUME IInv, TypeOK', OffersOK, Request
  PROVE  OffersOK'
<1> USE DEF IInv
<1>0. TypeOK
  OBVIOUS
<1>1. ASSUME NewGoal \/ Supersede \/ Refine \/ ResumeDraft \/ Resume
      PROVE  Free /\ RecordsKept
  <2>1. context.active \in 0..MaxPlans /\ Plans \subseteq 0..MaxPlans
    BY PlanAssumption DEF TypeOK, Plans
  <2>2. CASE NewGoal \/ Resume
    BY <2>2 DEF NewGoal, Resume, OpenGoal, RecordsKept
  <2>3. CASE Supersede \/ Refine
    BY <1>0, <2>1, <2>3, AbortKeeps DEF Supersede, Refine
  <2>4. CASE ResumeDraft
    BY <1>0, <2>1, <2>4, AbortKeeps DEF ResumeDraft
  <2> QED BY <1>1, <2>2, <2>3, <2>4
<1>2. ASSUME NEW p \in Plans, Approve(p) \/ ConfirmAgain(p) \/ ConfirmCompleted(p)
      PROVE  Free /\ RecordsKept
  <2>1. CASE Approve(p)
    <3> DEFINE q == [plans[p] EXCEPT !.st = "approved", !.auth = TRUE]
    <3>1. Free /\ fails' = fails /\ plans' = [plans EXCEPT ![p] = q]
      BY <2>1 DEF Approve, TypeOK
    <3>2. q.asks = plans[p].asks
      BY DEF TypeOK, PlanType
    <3> HIDE DEF q
    <3> QED BY <1>0, <3>1, <3>2, PlanKeeps
  <2>2. CASE ConfirmAgain(p) \/ ConfirmCompleted(p)
    BY <2>2 DEF ConfirmAgain, ConfirmCompleted, RecordsKept
  <2> QED BY <1>2, <2>1, <2>2
<1>3. ASSUME NEW p \in Plans, RejectContract(p)
      PROVE  Free /\ RecordAdded
  <2>1. plans[p] \in PlanType BY DEF TypeOK
  <2> QED BY <1>0, <1>3, <2>1, FailureAdds DEF RejectContract, Categories
<1>4. ASSUME NEW f \in DOMAIN fails, Answered(f) \/ GiveDirection(f) \/ Cancel(f)
      PROVE  OffersOK'
  <2>1. /\ fails' = [fails EXCEPT ![f] = Settled] /\ f = LatestFailure
        /\ \A p \in Plans : plans'[p].asks = plans[p].asks
    <3>1. f # None
      BY <1>0 DEF TypeOK, None
    <3>2. CASE Answered(f) \/ GiveDirection(f)
      BY <3>1, <3>2 DEF Answered, GiveDirection, Pending
    <3>3. CASE Cancel(f)
      <4> DEFINE p == fails[f].plan
                 q == [plans[p] EXCEPT !.st = "aborted"]
      <4>1. f = LatestFailure /\ fails' = [fails EXCEPT ![f] = Settled]
        BY <3>1, <3>3 DEF Cancel, Pending
      <4>2. CASE p = None
        BY <3>3, <4>1, <4>2 DEF Cancel
      <4>3. CASE p # None
        <5>1. p \in Plans /\ plans[p] \in PlanType
          <6>1. fails[f] \in FailureType
            BY <1>0 DEF TypeOK
          <6>2. p \in 0..MaxPlans
            BY <6>1 DEF FailureType
          <6>3. p \in Plans
            BY <4>3, <6>2, PlanAssumption DEF Plans, None
          <6> QED BY <1>0, <6>3 DEF TypeOK
        <5>2. plans' = [plans EXCEPT ![p] = q]
          BY <3>3, <4>3 DEF Cancel
        <5>3. q.asks = plans[p].asks
          BY <5>1 DEF PlanType
        <5> HIDE DEF p, q
        <5> QED BY <1>0, <4>1, <5>1, <5>2, <5>3 DEF TypeOK
      <4> QED BY <4>2, <4>3
    <3> QED BY <1>4, <3>2, <3>3
  <2>2. Settled.choice = "given"
    BY DEF Settled, Failure
  <2>3. /\ DOMAIN fails' = DOMAIN fails /\ fails'[f] = Settled
        /\ \A g \in DOMAIN fails : g # f => fails'[g] = fails[g]
    BY <2>1
  <2>4. Len(fails') = Len(fails)
    BY <1>0, <2>1 DEF TypeOK
  <2>5. \A g \in DOMAIN fails' : ~(fails'[g].stored /\ fails'[g].choice # "given")
    BY <2>1, <2>2, <2>3 DEF OffersOK, Open, Unresolved
  <2> QED BY <2>1, <2>4, <2>5 DEF OffersOK, Open, Unresolved
<1>5. ASSUME NEW f \in DOMAIN fails, AskDirection(f)
      PROVE  OffersOK'
  <2>1. /\ fails' = [fails EXCEPT ![f].choice = "asked"] /\ f = LatestFailure
        /\ fails[f].choice = "none" /\ plans' = plans /\ turn' = turn
        /\ turn.at = "idle"
    BY <1>5 DEF AskDirection, Pending, None, TypeOK
  <2>2. fails \in Seq(FailureType) /\ fails[f] \in FailureType
    BY <1>0 DEF TypeOK
  <2>3. /\ DOMAIN fails' = DOMAIN fails /\ Len(fails') = Len(fails)
        /\ fails'[f].stored = fails[f].stored
        /\ \A g \in DOMAIN fails : g # f => fails'[g] = fails[g]
    BY <2>1, <2>2 DEF FailureType
  <2>4. StoredFailures' = StoredFailures
    BY <2>3 DEF StoredFailures
  <2>5. LatestFailure' = LatestFailure
    BY <2>4 DEF LatestFailure
  <2>6. \A g \in DOMAIN fails' : g # LatestFailure => ~Open(g)'
    BY <2>1, <2>3 DEF OffersOK, Open, Unresolved
  <2> QED BY <2>1, <2>3, <2>5, <2>6 DEF OffersOK
<1>6. ASSUME Free, RecordsKept \/ RecordAdded PROVE OffersOK'
  BY <1>0, <1>6, TurnsAreClosed, StaysOffered
<1> QED BY <1>1, <1>2, <1>3, <1>4, <1>5, <1>6 DEF Request

\* Storing a record makes it the latest.
LEMMA TellOffers ==
  ASSUME IInv, TypeOK', OffersOK, Tell
  PROVE  OffersOK'
<1>1. fails \in Seq(FailureType) /\ fails # <<>> /\ TypeOK
  BY DEF IInv, TypeOK, ExecutionOK, Tell
<1> DEFINE n == Len(fails)
<1>2. n \in DOMAIN fails /\ n \in Nat /\ DOMAIN fails = 1..n
  BY <1>1
<1>3. Closed
  BY <1>1, TurnsAreClosed DEF Tell
<1>4. /\ fails' = [fails EXCEPT ![n].stored = TRUE] /\ turn'.at = "idle"
      /\ plans' = plans
  BY DEF Tell, NoTurn
<1>5. /\ DOMAIN fails' = 1..n /\ Len(fails') = n /\ fails'[n].stored
      /\ \A f \in 1..n : f # n => fails'[f] = fails[f]
  BY <1>1, <1>2, <1>4 DEF FailureType
<1> HIDE DEF n
<1>6. n \in StoredFailures' /\ \A g \in StoredFailures' : g <= n
  BY <1>2, <1>5 DEF StoredFailures
<1>7. \A g \in StoredFailures' : g \in Nat
  BY <1>5 DEF StoredFailures
<1>8. LatestFailure' = n
  <2>1. ASSUME NEW f \in StoredFailures', \A g \in StoredFailures' : g <= f
        PROVE  f = n
    BY <1>2, <1>6, <1>7, <2>1
  <2> QED BY <1>6, <2>1 DEF LatestFailure
<1>9. \A f \in DOMAIN fails' : Open(f)' => f = n
  BY <1>2, <1>3, <1>5 DEF Closed, Open, Unresolved
<1>10. \A p \in Plans : plans'[p].asks \in 0..Len(fails')
  BY <1>4, <1>5 DEF OffersOK, n
<1> QED BY <1>4, <1>8, <1>9, <1>10 DEF OffersOK

LEMMA PlanningOffers ==
  ASSUME IInv, TypeOK',
         PlanAgain \/ PlanFails \/ PlanRaises \/ NothingToPlan \/ PlanReady
  PROVE  RecordsKept \/ RecordAdded
<1> USE DEF IInv
<1>0. TypeOK
  OBVIOUS
<1>1. turn.at = "plan"
  BY DEF PlanAgain, PlanFails, PlanRaises, NothingToPlan, PlanReady
<1>2. /\ turn.old \in PlanType /\ turn.pred \in 0..MaxPlans
      /\ turn.origin = "post" => turn.pred # None
  BY <1>1 DEF TypeOK, TurnType, PlanningOK
<1>3. turn.pred # None => turn.pred \in Plans
  BY <1>2, PlanAssumption DEF Plans, None
<1>4. CASE PlanFails
  <2>1. CASE turn.pred = None
    BY <1>0, <1>4, <2>1, <1>2, RecordAlone DEF PlanFails, Categories
  <2>2. CASE turn.pred # None
    BY <1>0, <1>2, <1>3, <1>4, <2>2, FailureAdds DEF PlanFails, Categories, MayHaveChanged
  <2> QED BY <2>1, <2>2
<1>5. CASE PlanRaises
  <2>1. CASE turn.origin = "post"
    BY <1>0, <1>2, <1>3, <1>5, <2>1, FailureAdds DEF PlanRaises, Categories, MayHaveChanged
  <2>2. CASE turn.origin # "post"
    <3>1. PICK p \in CASE turn.origin = "recover" -> {turn.cause}
                       [] turn.origin # "recover" /\ Existing = {} -> {None}
                       [] OTHER -> Existing :
            /\ fails' = Append(fails, Failure(p, "planning", FALSE, FALSE))
            /\ UNCHANGED plans
      BY <1>5, <2>2 DEF PlanRaises
    <3>2. p \in 0..MaxPlans
      <4>1. turn.cause \in 0..MaxPlans /\ None \in 0..MaxPlans
        BY <1>0, PlanAssumption DEF None, TypeOK, TurnType
      <4>2. Existing \subseteq 0..MaxPlans
        BY PlanAssumption DEF Existing, Plans
      <4>3. p = turn.cause \/ p = None \/ p \in Existing
        BY <3>1
      <4> QED BY <4>1, <4>2, <4>3
    <3> QED BY <1>0, <3>1, <3>2, RecordAlone DEF Categories
  <2> QED BY <2>1, <2>2
<1>6. CASE NothingToPlan \/ PlanAgain
  BY <1>6 DEF NothingToPlan, PlanAgain, RecordsKept
<1>7. CASE PlanReady
  BY <1>7 DEF PlanReady, RecordsKept, Absent, TypeOK
<1> QED BY <1>4, <1>5, <1>6, <1>7

LEMMA BindingOffers ==
  ASSUME IInv, TypeOK',
         Checkpoint \/ BindOk \/ BindResumes \/ BindRefused \/ BindFails
           \/ RebindRaises
  PROVE  RecordsKept \/ RecordAdded
<1> USE DEF IInv
<1>0. TypeOK
  OBVIOUS
<1>1. turn.at = "bind"
  BY DEF Checkpoint, BindOk, BindResumes, BindRefused, BindFails, RebindRaises
<1>2. turn.plan \in Plans /\ plans[turn.plan] \in PlanType
  BY <1>1, Binding
<1> DEFINE q == Inherits(plans[turn.plan])
<1>3. q.asks = plans[turn.plan].asks /\ q \in PlanType
  BY <1>1, Binding
<1>4. CASE Checkpoint
  BY <1>2, <1>4 DEF Checkpoint, RecordsKept, TypeOK, PlanType
<1>5. CASE BindOk
  <2> DEFINE b == Bound(plans[turn.plan])
  <2>1. plans' = [plans EXCEPT ![turn.plan] = b] /\ fails' = fails
    BY <1>5 DEF BindOk
  <2>2. b.asks = plans[turn.plan].asks
    BY <1>3 DEF Bound, PlanType
  <2> HIDE DEF b, q
  <2> QED BY <2>1, <2>2 DEF RecordsKept, TypeOK
<1>6. CASE BindResumes
  <2> DEFINE b == [q EXCEPT !.st = "draft", !.auth = FALSE]
  <2>1. plans' = [plans EXCEPT ![turn.plan] = b] /\ fails' = fails
    BY <1>6 DEF BindResumes
  <2>2. b.asks = plans[turn.plan].asks
    BY <1>3 DEF PlanType
  <2> HIDE DEF b, q
  <2> QED BY <2>1, <2>2 DEF RecordsKept, TypeOK
<1>7. CASE BindRefused
  <2>1. PICK b \in Drafts(plans[turn.plan]) :
          plans' = [plans EXCEPT ![turn.plan] = b] /\ fails' = fails
    BY <1>7 DEF BindRefused
  <2>2. b.asks = plans[turn.plan].asks
    BY <1>1, Drafting
  <2> HIDE DEF q
  <2> QED BY <2>1, <2>2 DEF RecordsKept, TypeOK
<1>8. CASE BindFails
  <2>1. PICK plan \in Drafts(plans[turn.plan])
                        \cup {Inherits(plans[turn.plan]), plans[turn.plan]},
             executed \in BOOLEAN :
          FailWith(turn.plan, plan, "binding", executed,
                   AfterBind.active, AfterBind.ran)
    BY <1>8, BindFailure
  <2>2. plan \in PlanType
    BY <1>1, <1>2, <1>3, Drafting
  <2> HIDE DEF q
  <2> QED BY <1>0, <1>2, <2>1, <2>2, FailureAdds DEF Categories
<1>9. CASE RebindRaises
  BY <1>9 DEF RebindRaises, RecordsKept
<1> QED BY <1>4, <1>5, <1>6, <1>7, <1>8, <1>9

LEMMA ExecutionOffers ==
  ASSUME IInv, StartStep \/ Answer \/ TimeOut \/ TimedOut \/ Interrupt \/ CheckPasses
                 \/ CheckFails
  PROVE  RecordsKept \/ RecordAdded
<1>1. /\ TypeOK /\ turn.plan \in Plans /\ ThePlan \in PlanType
      /\ ThePlan = plans[turn.plan] /\ ThePlan.steps \in [Steps -> StepType]
  BY InHand DEF StartStep, Answer, TimeOut, TimedOut, Interrupt, CheckPasses,
                CheckFails, IInv, ThePlan, PlanType
<1>2. ASSUME NEW st, NEW ev, NEW change, NEW status,
             SaveStep(st, ev, change, status), fails' = fails
      PROVE  RecordsKept
  <2> DEFINE q == [ThePlan EXCEPT !.steps[turn.step].st = st,
                                  !.steps[turn.step].ev = ev,
                                  !.change = change, !.st = status]
  <2>1. plans' = [plans EXCEPT ![turn.plan] = q]
    BY <1>1, <1>2 DEF SaveStep, TypeOK
  <2>2. q.asks = ThePlan.asks
    BY <1>1 DEF PlanType
  <2> HIDE DEF q
  <2> QED BY <1>1, <1>2, <2>1, <2>2, PlanKeeps
<1>3. CASE StartStep
  <2>1. PICK s \in Unfinished(ThePlan) :
          plans' = [plans EXCEPT ![turn.plan] =
            [@ EXCEPT !.steps[s] = Started(ThePlan.steps[s]),
                      !.change = "running", !.st = "executing"]]
    BY <1>3 DEF StartStep
  <2> DEFINE new == Started(ThePlan.steps[s])
             q == [ThePlan EXCEPT !.steps[s] = new,
                                  !.change = "running", !.st = "executing"]
  <2>2. plans' = [plans EXCEPT ![turn.plan] = q] /\ fails' = fails
    BY <1>1, <1>3, <2>1 DEF StartStep, TypeOK
  <2> HIDE DEF new
  <2>3. q.asks = ThePlan.asks
    BY <1>1 DEF PlanType
  <2> HIDE DEF q
  <2> QED BY <1>1, <2>2, <2>3, PlanKeeps
<1>4. CASE Answer
  <2>1. \E ev : SaveStep("verifying", ev, ThePlan.change, "verifying")
    BY <1>4 DEF Answer
  <2> QED BY <1>2, <1>4, <2>1 DEF Answer
<1>5. CASE TimedOut
  <2> DEFINE q == [ThePlan EXCEPT !.change = "paused"]
  <2>1. q \in PlanType
    BY <1>5, LatePlan DEF TimedOut
  <2>2. FailWith(turn.plan, q, "execution", TRUE, context.active, context.ran)
    BY <1>5 DEF TimedOut
  <2> HIDE DEF q
  <2> QED BY <1>1, <2>1, <2>2, FailureAdds DEF Categories
<1>6. CASE TimeOut \/ Interrupt \/ CheckPasses \/ CheckFails
  <2>1. fails' = fails /\ \E st, ev, change, status : SaveStep(st, ev, change, status)
    BY <1>6 DEF TimeOut, Interrupt, CheckPasses, CheckFails
  <2> QED BY <1>2, <2>1
<1> QED BY <1>3, <1>4, <1>5, <1>6

LEMMA JudgementOffers ==
  ASSUME IInv,
         \/ ChangePasses \/ ChangeFails \/ Reconcile \/ VerdictAsks
         \/ GoalAchieved \/ GoalNotBorneOut \/ VerdictFails \/ Replan
  PROVE  RecordsKept \/ RecordAdded
<1>1. /\ TypeOK /\ turn.plan \in Plans /\ ThePlan \in PlanType
      /\ ThePlan = plans[turn.plan]
  BY InHand DEF ChangePasses, ChangeFails, Reconcile, VerdictAsks, GoalAchieved,
                GoalNotBorneOut, VerdictFails, Replan, IInv, ThePlan
<1>2. ASSUME NEW q, plans' = [plans EXCEPT ![turn.plan] = q], fails' = fails,
             q.asks = ThePlan.asks
      PROVE  RecordsKept
  BY <1>1, <1>2, PlanKeeps
<1>3. ASSUME NEW S \in SUBSET Steps, NEW plan \in PlanType
      PROVE  Demoted(plan, S).asks = plan.asks
  BY DEF Demoted, PlanType
<1>4. CASE ChangePasses
  <2> DEFINE done == [ThePlan EXCEPT !.change = "completed", !.noted = TRUE]
             q == [done EXCEPT !.st = IF Accepted(done) THEN "verifying"
                                                        ELSE "paused"]
  <2>1. plans' = [plans EXCEPT ![turn.plan] = q] /\ fails' = fails
    BY <1>4 DEF ChangePasses
  <2>2. done \in PlanType /\ done.asks = ThePlan.asks
    BY <1>1 DEF PlanType, ChangeStates
  <2> HIDE DEF done
  <2>3. q.asks = done.asks
    BY <2>2 DEF PlanType
  <2> HIDE DEF q
  <2> QED BY <1>2, <2>1, <2>2, <2>3
<1>5. CASE ChangeFails
  <2>1. PICK S \in SUBSET Steps :
          plans' = [plans EXCEPT ![turn.plan] =
                      [Demoted(ThePlan, S) EXCEPT !.st = "paused"]]
    BY <1>5 DEF ChangeFails
  <2> DEFINE q == [Demoted(ThePlan, S) EXCEPT !.st = "paused"]
  <2>2. q.asks = ThePlan.asks
    BY <1>1 DEF Demoted, PlanType
  <2>3. plans' = [plans EXCEPT ![turn.plan] = q] /\ fails' = fails
    BY <1>5, <2>1 DEF ChangeFails
  <2> HIDE DEF q
  <2> QED BY <1>2, <2>2, <2>3
<1>6. CASE Reconcile
  <2>1. PICK found \in [Steps -> StepStates] :
          \E q \in Reconciled(WithSteps(ThePlan, found)) :
            plans' = [plans EXCEPT ![turn.plan] = q]
    BY <1>6 DEF Reconcile
  <2> DEFINE plan == WithSteps(ThePlan, found)
  <2>2. plan.asks = ThePlan.asks /\ plan \in PlanType
    <3>1. \A s \in Steps : [ThePlan.steps[s] EXCEPT !.st = found[s]] \in StepType
      BY <1>1 DEF PlanType, StepType
    <3> QED BY <1>1, <3>1 DEF WithSteps, PlanType
  <2>3. PICK q \in Reconciled(plan) : plans' = [plans EXCEPT ![turn.plan] = q]
    BY <2>1
  <2> HIDE DEF plan
  <2>4. q.asks = plan.asks
    <3>1. \/ q = [plan EXCEPT !.change = "completed"]
          \/ \E S \in SUBSET Steps : q = Demoted(plan, S)
          \/ q = [plan EXCEPT !.change = "paused"]
          \/ q = plan
      BY <2>3 DEF Reconciled
    <3>2. /\ [plan EXCEPT !.change = "completed"].asks = plan.asks
          /\ [plan EXCEPT !.change = "paused"].asks = plan.asks
      BY <2>2 DEF PlanType
    <3> QED BY <1>3, <2>2, <3>1, <3>2
  <2>5. fails' = fails
    BY <1>6 DEF Reconcile
  <2> QED BY <1>2, <2>2, <2>3, <2>4, <2>5
<1>7. CASE VerdictAsks \/ Replan
  BY <1>7 DEF VerdictAsks, Replan, RecordsKept
<1>8. CASE GoalAchieved \/ GoalNotBorneOut
  <2>1. PICK st : plans' = [plans EXCEPT ![turn.plan] = [ThePlan EXCEPT !.st = st]]
    <3>1. CASE GoalAchieved
      BY <1>1, <3>1 DEF GoalAchieved, TypeOK
    <3>2. CASE GoalNotBorneOut
      BY <1>1, <3>2 DEF GoalNotBorneOut, TypeOK
    <3> QED BY <1>8, <3>1, <3>2
  <2> DEFINE q == [ThePlan EXCEPT !.st = st]
  <2>2. q.asks = ThePlan.asks
    BY <1>1 DEF PlanType
  <2>3. fails' = fails
    BY <1>8 DEF GoalAchieved, GoalNotBorneOut
  <2> HIDE DEF q
  <2> QED BY <1>2, <2>1, <2>2, <2>3 DEF q
<1>9. CASE VerdictFails
  <2>1. \E executed \in BOOLEAN :
          FailWith(turn.plan, ThePlan, "post_execution", executed,
                   context.active, context.ran)
    BY <1>9 DEF VerdictFails, MayHaveChanged
  <2> QED BY <1>1, <2>1, FailureAdds DEF Categories
<1> QED BY <1>4, <1>5, <1>6, <1>7, <1>8, <1>9

LEMMA OffersKept ==
  ASSUME IInv, IInv', OffersOK, [Next]_vars
  PROVE  OffersOK'
<1>0. TypeOK /\ TypeOK'
  BY DEF IInv
<1>1. CASE Request
  BY <1>0, <1>1, RequestOffers
<1>2. CASE Tell
  BY <1>0, <1>2, TellOffers
<1>3. CASE Work /\ ~Tell
  <2>1. RecordsKept \/ RecordAdded
    BY <1>0, <1>3, PlanningOffers, BindingOffers, ExecutionOffers, JudgementOffers
       DEF Work
  <2>2. turn.at # "idle"
    BY <1>3 DEF Work, PlanAgain, PlanFails, PlanRaises, NothingToPlan, PlanReady,
       Checkpoint, BindOk, BindResumes, BindRefused, BindFails, RebindRaises,
       StartStep, Answer, TimeOut, TimedOut, Interrupt, CheckPasses, CheckFails, ChangePasses, ChangeFails, Reconcile, VerdictAsks,
       GoalAchieved, GoalNotBorneOut, VerdictFails, Replan
  <2> QED BY <1>0, <2>1, <2>2, TurnsAreClosed, StaysOffered
<1>4. CASE Crash
  BY <1>0, <1>4, TurnsAreClosed, StaysOffered DEF Crash, RecordsKept
<1>5. CASE UNCHANGED vars
  BY <1>5 DEF vars, OffersOK, Open, Unresolved, LatestFailure, StoredFailures
<1> QED BY <1>1, <1>2, <1>3, <1>4, <1>5 DEF Next

\* A decision that a plan waits for is the one the user is asked for: whatever
\* fails, is stored late or lost with its process, no later record hides it.
THEOREM DecisionsOffered == Spec => []DecisionsAreOffered
<1>1. Init => OffersOK
  BY DEF Init, OffersOK, Absent, None
<1>2. OffersOK => DecisionsAreOffered
  BY DEF OffersOK, DecisionsAreOffered, Open, None
<1> QED BY Invariance, <1>1, <1>2, OffersKept, PTL DEF Spec
=============================================================================
