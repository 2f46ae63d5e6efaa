---------------------------- MODULE ChangePlans ----------------------------
(***************************************************************************)
(* The privileged workflow (ops/privileged/workflow): a change plan is     *)
(* proposed and bound, approved by its hash, executed step by step, judged *)
(* against the goal, and succeeded by another plan when the goal was not   *)
(* reached.  PrivilegedOpsCoordinator (coordinator.py) routes a turn of    *)
(* the user, MutationWorkflow (mutation.py) makes the transitions, and     *)
(* ChangePlanStore (plan_store.py) keeps plans and failure records as      *)
(* files that are replaced atomically.                                     *)
(*                                                                         *)
(* A turn is split where a file has been written and a call follows - of   *)
(* the model, an action, a check - and between a plan and the record of    *)
(* its failure: there the process may stop, and what the turn holds in     *)
(* memory is lost.  Writes that follow one another with nothing but        *)
(* assignments in between are one step (abort and context, blocked and the *)
(* failure it names, pause and the failure it names).                      *)
(*                                                                         *)
(* All plans here pursue one goal for one project root.  A plan has one    *)
(* semantic change whose atomic steps are Steps, in this order; step s of  *)
(* two plans is the same effect on the same component.  The verdicts of    *)
(* planner, binder and goal verifier come from a model: any may come.      *)
(***************************************************************************)
EXTENDS Integers, Sequences, FiniteSets

CONSTANTS
  MaxPlans,      \* bound on the plans made for the goal
  NumSteps,      \* atomic steps of a plan
  ScreenSteps,   \* those that start or restart a Screen component
  MaxRounds,     \* max_replanning_rounds + max_candidate_replans
  MaxFailures,   \* bound on the failure records
  MaxCrashes,    \* bound on the times the process is killed
  FalseClaims    \* may an action that had an effect report that it had none?

ASSUME PlanAssumption ==
  /\ MaxPlans \in Nat /\ NumSteps \in Nat \ {0}
  /\ ScreenSteps \subseteq 1..NumSteps /\ MaxRounds \in Nat
  /\ MaxFailures \in Nat /\ MaxCrashes \in Nat
  /\ FalseClaims \in BOOLEAN

Plans == 1..MaxPlans
Steps == 1..NumSteps
None == 0                        \* no plan, no failure record

StepStates == {"pending", "running", "verifying", "execution_unknown",
               "paused", "completed"}

\* ExecutionEvidence: none yet; return code 0; a failure after which the
\* environment may have changed, no answer in time being one; a failure that
\* changed nothing.
Evidence == {"none", "ok", "changed", "unchanged"}

StepType == [st : StepStates, ev : Evidence, tries : 0..2]
PlanStates == {"absent", "draft", "awaiting_confirmation", "approved",
               "executing", "verifying", "completed", "paused", "blocked",
               "aborted"}
ChangeStates == {"pending", "running", "paused", "completed"}

\* auth: authorized_hash is that of the content.  cursor: Binding has stopped
\* at a checkpoint.  noted: the change carries a semantic observation.
\* asks: the failure record embedded in the plan.
PlanType ==
  [st : PlanStates, auth : BOOLEAN, cursor : BOOLEAN, change : ChangeStates,
   noted : BOOLEAN, asks : 0..MaxFailures, steps : [Steps -> StepType]]

Categories == {"execution", "post_execution", "binding", "planning"}

\* The user's part of a record: no option chosen; a direction promised and not
\* given yet; answered, or the plan cancelled.
Choices == {"none", "asked", "given"}

FailureType ==
  [plan : 0..MaxPlans, category : Categories, changed : BOOLEAN,
   choice : Choices, stored : BOOLEAN]

Points == {"idle", "plan", "bind", "run", "act", "late", "check", "judge",
           "verdict", "tell"}
Origins == {"goal", "draft", "post", "recover", "rebind"}

Untouched == [s \in Steps |-> [st |-> "pending", ev |-> "none", tries |-> 0]]

Absent == [st |-> "absent", auth |-> FALSE, cursor |-> FALSE,
           change |-> "pending", noted |-> FALSE, asks |-> None,
           steps |-> Untouched]

\* plan: the plan worked on.  pred, old: the plan to be succeeded and the copy
\* of it in memory.  ran: the executed plan that will be in the context.
\* cause: the plan of the failure the user has answered.  again, resumed,
\* rounds: the counters of _submit_mutation's loop (binding_attempt,
\* binding_resume_attempts, the replanning rounds and candidate replans).
TurnType ==
  [at : Points, plan : 0..MaxPlans, step : 0..NumSteps, pred : 0..MaxPlans,
   old : PlanType, again : BOOLEAN, origin : Origins, ran : 0..MaxPlans,
   unmet : BOOLEAN, cause : 0..MaxPlans, resumed : BOOLEAN,
   rounds : 0..MaxRounds]

NoTurn == [at |-> "idle", plan |-> None, step |-> 0, pred |-> None,
           old |-> Absent, again |-> FALSE, origin |-> "goal", ran |-> None,
           unmet |-> FALSE, cause |-> None, resumed |-> FALSE, rounds |-> 0]

VARIABLES
  plans,      \* the plan files
  fails,      \* the failure files, oldest first
  context,    \* OperationalContextSnapshot: the active and the executed plan
  turn,       \* the turn in progress
  applied,    \* environment: how often a step of a plan has had its effect
  tried,      \* history: how often <<plan, step>> was started
  approved,   \* history: plans whose hash the user has confirmed
  revoked,    \* history: plans that a later wish of the user has aborted
  crashes

history == <<tried, approved, revoked, crashes>>
vars == <<plans, fails, context, turn, applied, history>>

Init ==
  /\ plans = [p \in Plans |-> Absent]
  /\ fails = <<>>
  /\ context = [active |-> None, ran |-> None]
  /\ turn = NoTurn
  /\ applied = [p \in Plans |-> [s \in Steps |-> 0]]
  /\ tried = [x \in Plans \X Steps |-> 0]
  /\ approved = {}
  /\ revoked = {}
  /\ crashes = 0

-----------------------------------------------------------------------------
(* Reading plans and failures.                                              *)

Existing == {p \in Plans : plans[p].st # "absent"}
Unfinished(plan) == {s \in Steps : plan.steps[s].st # "completed"}

\* Some plan has applied the effect, so a check of the present state can pass.
Present(s) == \E p \in Plans : applied[p][s] > 0

\* _paused_plan_environment_changed is not "false".
MayHaveChanged(plan) ==
  \/ \A s \in Steps : plan.steps[s].ev = "none"
  \/ \E s \in Steps : plan.steps[s].ev \in {"ok", "changed"}

\* verify_plan_execution, and no completion gap.
Accepted(plan) ==
  /\ plan.change = "completed"
  /\ Unfinished(plan) = {}
  /\ \A s \in Steps : plan.steps[s].ev \in {"none", "ok"}

StoredFailures == {f \in DOMAIN fails : fails[f].stored}
LatestFailure ==
  IF StoredFailures = {} THEN None
  ELSE CHOOSE f \in StoredFailures : \A g \in StoredFailures : g <= f

Unresolved(f) == fails[f].choice # "given"

\* The gate: only the latest record holds up the user.
Pending == IF LatestFailure # None /\ Unresolved(LatestFailure)
           THEN LatestFailure ELSE None

\* _pending_plan_failure: a record that was never stored stays unresolved.
Asks(p) == plans[p].asks # None
           /\ (~fails[plans[p].asks].stored \/ Unresolved(plans[p].asks))

\* The gate forgotten.
Free_NoGate == turn.at = "idle"

\* A new turn may begin that is not an answer to a failure.
Free == turn.at = "idle" /\ Pending = None

\* The bounds: room for another plan, and for another failure record.
RoomForPlan == Cardinality(Existing) < MaxPlans
RoomForFailure == Len(fails) < MaxFailures

-----------------------------------------------------------------------------
(* Writing plans and failures.                                              *)

Failure(p, category, changed, stored) ==
  [plan |-> p, category |-> category, changed |-> changed,
   choice |-> "none", stored |-> stored]

\* failure_result with a plan: the plan is saved first, paused if something
\* may have been executed, else blocked; Tell saves the record.
FailWith(p, plan, category, executed, active, ran) ==
  /\ RoomForFailure
  /\ plans' = [plans EXCEPT ![p] =
       [plan EXCEPT !.st = IF executed THEN "paused" ELSE "blocked",
                    !.asks = Len(fails) + 1]]
  /\ fails' = Append(fails, Failure(p, category, executed, FALSE))
  /\ turn' = [NoTurn EXCEPT !.at = "tell", !.plan = active, !.ran = ran]
  /\ UNCHANGED context

\* The record is written, then the context of the turn.
Tell ==
  /\ turn.at = "tell"
  /\ fails' = [fails EXCEPT ![Len(fails)].stored = TRUE]
  /\ context' = [active |-> turn.plan, ran |-> turn.ran]
  /\ turn' = NoTurn
  /\ UNCHANGED <<plans, applied, history>>

\* Enters _submit_mutation with the plan to be succeeded, and a copy of it.
Planning(pred, old, origin, ran) ==
  [NoTurn EXCEPT !.at = "plan", !.pred = pred, !.old = old,
                 !.origin = origin, !.ran = ran]

\* abort_plan.
Abort(p) ==
  IF p # None /\ plans[p].st \notin {"completed", "aborted"}
  THEN /\ plans' = [plans EXCEPT ![p].st = "aborted", ![p].auth = FALSE]
       /\ revoked' = revoked \cup {p}
  ELSE UNCHANGED <<plans, revoked>>

-----------------------------------------------------------------------------
(* The user opens a turn.                                                   *)

\* The context of a mutating turn is saved before discovery begins.
OpenGoal(pred, active, ran) ==
  /\ context' = [active |-> active, ran |-> ran]
  /\ turn' = Planning(pred, IF pred = None THEN Absent ELSE plans[pred],
                      "goal", ran)

\* A goal of its own, or the same one once more: no plan is succeeded, none
\* is aborted.
NewGoal ==
  /\ Free
  /\ \/ OpenGoal(None, None, None)
     \/ OpenGoal(None, context.active, context.ran)
  /\ UNCHANGED <<plans, fails, applied, history>>

\* The request replaces the previous one: its active plan is aborted.
Supersede ==
  /\ Free /\ context.active # None
  /\ Abort(context.active)
  /\ OpenGoal(None, None, None)
  /\ UNCHANGED <<fails, applied, tried, approved, crashes>>

\* _refinement_predecessor: the plan last executed, else the active one.
Predecessor == IF context.ran # None THEN context.ran ELSE context.active

\* The request corrects the previous one: its plan is read, then aborted.
Refine ==
  /\ Free /\ context.active # None
  /\ Abort(context.active)
  /\ OpenGoal(Predecessor, None, context.ran)
  /\ UNCHANGED <<fails, applied, tried, approved, crashes>>

\* The user comes back to a draft: it is aborted and planned anew.
ResumeDraft ==
  /\ Free
  /\ \E p \in Plans : plans[p].st = "draft" /\ Abort(p)
  /\ turn' = Planning(None, Absent, "draft", context.ran)
  /\ UNCHANGED <<fails, context, applied, tried, approved, crashes>>

\* "Continue" with the active plan: resume_paused_plan.
Resume ==
  /\ Free /\ context.active # None
  /\ plans[context.active].st = "paused" /\ plans[context.active].auth
  /\ turn' = [NoTurn EXCEPT !.at = "judge", !.plan = context.active]
  /\ UNCHANGED <<plans, fails, context, applied, history>>

\* confirm with the hash of a plan that still meets the binding contract.
Approve(p) ==
  /\ Free
  /\ plans[p].st = "awaiting_confirmation"
  /\ plans' = [plans EXCEPT ![p].st = "approved", ![p].auth = TRUE]
  /\ approved' = approved \cup {p}
  /\ turn' = [NoTurn EXCEPT !.at = "run", !.plan = p]
  /\ UNCHANGED <<fails, context, applied, tried, revoked, crashes>>

\* The contract has become stricter since the plan was bound.
RejectContract(p) ==
  /\ Free
  /\ plans[p].st = "awaiting_confirmation"
  /\ FailWith(p, plans[p], "binding", FALSE, context.active, context.ran)
  /\ UNCHANGED <<applied, history>>

\* confirm of a paused plan that was approved: back to the goal's verdict.
ConfirmAgain(p) ==
  /\ Free
  /\ plans[p].st = "paused" /\ plans[p].auth /\ ~Asks(p)
  /\ turn' = [NoTurn EXCEPT !.at = "judge", !.plan = p]
  /\ UNCHANGED <<plans, fails, context, applied, history>>

\* confirm of a completed plan retires the goal.
ConfirmCompleted(p) ==
  /\ Free
  /\ plans[p].st = "completed" /\ plans[p].auth
  /\ context' = [active |-> None, ran |-> None]
  /\ UNCHANGED <<plans, fails, turn, applied, history>>

-----------------------------------------------------------------------------
(* Planning and binding: _submit_mutation.                                  *)

\* Evidence for the planner, with a counter that is set back once it is used up.
PlanAgain_StartsOver ==
  /\ turn.at = "plan"
  /\ turn' = [turn EXCEPT !.rounds = IF @ < MaxRounds THEN @ + 1 ELSE 0]
  /\ UNCHANGED <<plans, fails, context, applied, history>>

\* More evidence is read, or other ports are chosen, and the planner is asked
\* again.
PlanAgain ==
  /\ turn.at = "plan" /\ turn.rounds < MaxRounds
  /\ turn' = [turn EXCEPT !.rounds = @ + 1]
  /\ UNCHANGED <<plans, fails, context, applied, history>>

\* The plan to be succeeded is saved as it is in memory, with its new status
\* (recovery_failure_context).  Once binding has been refused that counts as a
\* failure of binding, unless it is evidence that is missing.
PlanFails ==
  /\ turn.at = "plan"
  /\ \E category \in {"planning"} \cup (IF turn.again THEN {"binding"} ELSE {}) :
       IF turn.pred = None
       THEN /\ RoomForFailure
            /\ fails' = Append(fails, Failure(None, category, FALSE, FALSE))
            /\ turn' = [NoTurn EXCEPT !.at = "tell", !.ran = turn.ran]
            /\ UNCHANGED <<plans, context>>
       ELSE FailWith(turn.pred, turn.old, category, MayHaveChanged(turn.old),
                     turn.pred, turn.ran)
  /\ UNCHANGED <<applied, history>>

\* Discovery or planning raises.  After an execution the plan is saved again;
\* otherwise the record only names a plan: that of the failure the user
\* answered, or one found for the goal (latest_plan_id_for_goal, any here).
PlanRaises ==
  /\ turn.at = "plan"
  /\ IF turn.origin = "post"
     THEN FailWith(turn.pred, turn.old, "post_execution",
                   MayHaveChanged(turn.old), context.active, context.ran)
     ELSE \E p \in CASE turn.origin = "recover" -> {turn.cause}
                     [] turn.origin # "recover" /\ Existing = {} -> {None}
                     [] OTHER -> Existing :
            /\ RoomForFailure
            /\ fails' = Append(fails, Failure(p, "planning", FALSE, FALSE))
            /\ turn' = [NoTurn EXCEPT !.at = "tell",
                          !.plan = CASE turn.origin = "goal" /\ p # None -> p
                                     [] turn.origin = "draft" -> None
                                     [] OTHER -> context.active,
                          !.ran = context.ran]
            /\ UNCHANGED <<plans, context>>
  /\ UNCHANGED <<applied, history>>

\* verify_pre_execution: the goal is already met, or a decision is missing.
NothingToPlan ==
  /\ turn.at = "plan" /\ turn.origin = "goal" /\ ~turn.again
  /\ context' \in {context, [active |-> None, ran |-> None]}
  /\ turn' = NoTurn
  /\ UNCHANGED <<plans, fails, applied, history>>

\* The planner is ready; bind_once saves its plan, a new one, first.
PlanReady ==
  /\ turn.at = "plan" /\ RoomForPlan
  /\ LET p == Cardinality(Existing) + 1 IN
       /\ plans' = [plans EXCEPT ![p] = [Absent EXCEPT !.st = "draft"]]
       /\ turn' = [turn EXCEPT !.at = "bind", !.plan = p]
  /\ UNCHANGED <<fails, context, applied, history>>

\* ChangeBinder saves a checkpoint after each atomic step.
Checkpoint ==
  /\ turn.at = "bind"
  /\ plans' = [plans EXCEPT ![turn.plan].cursor = TRUE,
                            ![turn.plan].st = "draft",
                            ![turn.plan].auth = FALSE]
  /\ UNCHANGED <<fails, context, turn, applied, history>>

\* Binding has forgotten what its predecessor achieved.
Inherits_Nothing(plan) == plan

\* _inherit_completed_component_effects: what the plan to be succeeded has
\* completed of its Screen components is taken over; files, packages and shell
\* steps are not.
Inherits(plan) ==
  [plan EXCEPT !.steps = [s \in Steps |->
     IF s \in ScreenSteps /\ turn.old.steps[s].st = "completed"
       THEN turn.old.steps[s] ELSE @[s]]]

Bound(plan) == [Inherits(plan) EXCEPT !.st = "awaiting_confirmation",
                                      !.auth = FALSE, !.cursor = FALSE]

BindOk ==
  /\ turn.at = "bind"
  /\ plans' = [plans EXCEPT ![turn.plan] = Bound(@)]
  /\ context' = IF turn.origin = "rebind" THEN context
                ELSE [active |-> turn.plan, ran |-> turn.ran]
  /\ turn' = NoTurn
  /\ UNCHANGED <<fails, applied, history>>

\* What bind_once saves of a plan it refuses.  A change that no checkpoint has
\* expanded has nothing to inherit into; the last contract check comes when
\* binding is through.
Drafts(plan) ==
  LET draft == [Inherits(plan) EXCEPT !.st = "draft", !.auth = FALSE] IN
    {draft, [draft EXCEPT !.cursor = FALSE]}
      \cup (IF plan.cursor THEN {}
            ELSE {[plan EXCEPT !.st = "draft", !.auth = FALSE]})

\* A call fails after a checkpoint: binding is resumed from there, once.
BindResumes ==
  /\ turn.at = "bind" /\ turn.origin # "rebind" /\ ~turn.resumed
  /\ plans[turn.plan].cursor
  /\ plans' = [plans EXCEPT ![turn.plan] =
                 [Inherits(@) EXCEPT !.st = "draft", !.auth = FALSE]]
  /\ turn' = [turn EXCEPT !.resumed = TRUE]
  /\ UNCHANGED <<fails, context, applied, history>>

\* The binder refuses the plan.  The first time it is planned again, with the
\* same plan to be succeeded; a rebound plan is itself succeeded.
BindRefused ==
  /\ turn.at = "bind" /\ ~turn.again
  /\ \E draft \in Drafts(plans[turn.plan]) :
       /\ plans' = [plans EXCEPT ![turn.plan] = draft]
       /\ turn' = IF turn.origin = "rebind"
                  THEN [Planning(turn.plan, draft, "recover", context.ran)
                          EXCEPT !.cause = turn.cause]
                  ELSE [turn EXCEPT !.at = "plan", !.plan = None,
                                    !.again = TRUE]
  /\ UNCHANGED <<fails, context, applied, history>>

\* Where the context points after a binding failed.
AfterBind == IF turn.origin = "rebind" THEN context
             ELSE [active |-> turn.plan, ran |-> turn.ran]

\* What the failure of a binding says of the environment: the predecessor's.
Inherited == turn.pred # None /\ MayHaveChanged(turn.old)

\* The second refusal; a call that fails once more; or an exception out of
\* binding, before anything is inherited.
BindFails ==
  /\ turn.at = "bind"
  /\ \/ /\ turn.again
        /\ \E draft \in Drafts(plans[turn.plan]) :
             FailWith(turn.plan, draft, "binding", FALSE,
                      AfterBind.active, AfterBind.ran)
     \/ /\ plans[turn.plan].cursor
        /\ turn.resumed \/ turn.origin = "rebind"
        /\ FailWith(turn.plan, Inherits(plans[turn.plan]), "binding", Inherited,
                    AfterBind.active, AfterBind.ran)
     \/ /\ turn.origin # "rebind"
        /\ FailWith(turn.plan, plans[turn.plan], "binding", Inherited,
                    AfterBind.active, AfterBind.ran)
  /\ UNCHANGED <<applied, history>>

\* Out of a resumed binding the exception ends the turn.
RebindRaises ==
  /\ turn.at = "bind" /\ turn.origin = "rebind"
  /\ turn' = NoTurn
  /\ UNCHANGED <<plans, fails, context, applied, history>>

-----------------------------------------------------------------------------
(* Execution of an approved plan: _execute.                                 *)

ThePlan == plans[turn.plan]

\* The step in hand gets this state, and change and plan theirs.
SaveStep(st, ev, change, plan) ==
  plans' = [plans EXCEPT ![turn.plan] =
    [@ EXCEPT !.steps[turn.step].st = st, !.steps[turn.step].ev = ev,
              !.change = change, !.st = plan]]

Started(step) == [step EXCEPT !.st = "running", !.tries = @ + 1]

\* The first step that is not completed is saved as running before the
\* executor is called.  (A step whose outcome is unknown is refused; no plan
\* comes here with one.)
StartStep ==
  /\ turn.at = "run"
  /\ \E s \in Unfinished(ThePlan) :
       /\ \A t \in Unfinished(ThePlan) : s <= t
       /\ ThePlan.steps[s].st # "execution_unknown"
       /\ plans' = [plans EXCEPT ![turn.plan] =
            [@ EXCEPT !.steps[s] = Started(ThePlan.steps[s]),
                      !.change = "running", !.st = "executing"]]
       /\ turn' = [turn EXCEPT !.at = "act", !.step = s]
       /\ tried' = [tried EXCEPT ![<<turn.plan, s>>] = @ + 1]
  /\ UNCHANGED <<fails, context, applied, approved, revoked, crashes>>

\* Did the action have its effect?
Effect(yes) ==
  applied' = IF yes THEN [applied EXCEPT ![turn.plan][turn.step] = @ + 1]
             ELSE applied

\* The executor answers in time; its evidence tells the truth, unless an
\* exception of the runner or a late refusal is taken for no change.
Answer ==
  /\ turn.at = "act"
  /\ \E ev \in {"ok", "changed", "unchanged"}, yes \in BOOLEAN :
       /\ ev = "ok" => yes
       /\ ev = "unchanged" /\ yes => FalseClaims
       /\ Effect(yes)
       /\ SaveStep("verifying", ev, ThePlan.change, "verifying")
  /\ turn' = [turn EXCEPT !.at = "check"]
  /\ UNCHANGED <<fails, context, history>>

\* No answer in time: the outcome stays unknown.
TimeOut ==
  /\ turn.at = "act"
  /\ \E yes \in BOOLEAN : Effect(yes)
  /\ SaveStep("execution_unknown", "changed", ThePlan.change, "verifying")
  /\ turn' = [turn EXCEPT !.at = "late"]
  /\ UNCHANGED <<fails, context, history>>

\* The plan is paused, and the user is asked.
TimedOut ==
  /\ turn.at = "late"
  /\ FailWith(turn.plan, [ThePlan EXCEPT !.change = "paused"],
              "execution", TRUE, context.active, context.ran)
  /\ UNCHANGED <<applied, history>>

\* The call is interrupted: no evidence, and the exception goes on.
Interrupt ==
  /\ turn.at = "act"
  /\ \E yes \in BOOLEAN : Effect(yes)
  /\ SaveStep("execution_unknown", ThePlan.steps[turn.step].ev, "paused",
              "paused")
  /\ turn' = NoTurn
  /\ UNCHANGED <<fails, context, history>>

CheckPasses ==
  /\ turn.at = "check"
  /\ ThePlan.steps[turn.step].ev = "ok" /\ Present(turn.step)
  /\ SaveStep("completed", "ok", ThePlan.change, ThePlan.st)
  /\ turn' = [turn EXCEPT !.at = "run", !.step = 0]
  /\ UNCHANGED <<fails, context, applied, history>>

\* The step is tried again at once.
CheckFails_Retries ==
  /\ turn.at = "check"
  /\ SaveStep("paused", ThePlan.steps[turn.step].ev, "paused", "paused")
  /\ turn' = [turn EXCEPT !.at = "run", !.step = 0]
  /\ UNCHANGED <<fails, context, applied, history>>

\* A postcondition fails, or the checker does.
CheckFails ==
  /\ turn.at = "check"
  /\ SaveStep("paused", ThePlan.steps[turn.step].ev, "paused", "paused")
  /\ turn' = [turn EXCEPT !.at = "judge", !.step = 0]
  /\ UNCHANGED <<fails, context, applied, history>>

\* The semantic check of the change, then the check of the whole plan.
ChangePasses ==
  /\ turn.at = "run" /\ Unfinished(ThePlan) = {}
  /\ LET done == [ThePlan EXCEPT !.change = "completed", !.noted = TRUE] IN
       plans' = [plans EXCEPT ![turn.plan] =
         [done EXCEPT !.st = IF Accepted(done) THEN "verifying"
                                               ELSE "paused"]]
  /\ turn' = [turn EXCEPT !.at = "judge"]
  /\ UNCHANGED <<fails, context, applied, history>>

\* _demote_semantically_unaccepted_components
Demoted(plan, S) ==
  [plan EXCEPT
     !.steps = [s \in Steps |-> IF s \in S THEN [@[s] EXCEPT !.st = "paused"]
                                ELSE @[s]],
     !.change = "paused", !.noted = TRUE]

ChangeFails ==
  /\ turn.at = "run" /\ Unfinished(ThePlan) = {}
  /\ \E S \in SUBSET Steps :
       plans' = [plans EXCEPT ![turn.plan] =
                   [Demoted(ThePlan, S) EXCEPT !.st = "paused"]]
  /\ turn' = [turn EXCEPT !.at = "judge"]
  /\ UNCHANGED <<fails, context, applied, history>>

-----------------------------------------------------------------------------
(* After execution: _continue_post_execution.                               *)

\* The interrupted step is accepted without a look at the present state.
Recovered_Unjudged(step, s) ==
  CASE step.st = "execution_unknown" -> {"paused", "completed"}
    [] OTHER -> {step.st}

\* What reconcile_recovery_state may find of a step, without executing it:
\* an unknown one is judged by the present state alone, a paused one only if
\* its action had ended well.
Recovered(step, s) ==
  CASE step.st = "execution_unknown" ->
         {"execution_unknown", "paused"}
           \cup (IF Present(s) THEN {"completed"} ELSE {})
    [] step.st = "paused" /\ step.ev = "ok" ->
         {"paused"} \cup (IF Present(s) THEN {"completed"} ELSE {})
    [] OTHER -> {step.st}

WithSteps(plan, found) ==
  [plan EXCEPT !.steps = [s \in Steps |-> [@[s] EXCEPT !.st = found[s]]]]

\* The change is accepted late if it only lacked its semantic check.
Reconciled(plan) ==
  IF /\ Unfinished(plan) = {}
     /\ plan.change = "paused" /\ plan.noted
  THEN {[plan EXCEPT !.change = "completed"]}
         \cup {Demoted(plan, S) : S \in SUBSET Steps}
  ELSE IF \E s \in Steps : plan.steps[s].st \in {"paused", "execution_unknown"}
       THEN {[plan EXCEPT !.change = "paused"]}
       ELSE {plan}

Reconcile ==
  /\ turn.at = "judge"
  /\ \E found \in [Steps -> StepStates] :
       /\ \A s \in Steps : found[s] \in Recovered(ThePlan.steps[s], s)
       /\ \E plan \in Reconciled(WithSteps(ThePlan, found)) :
            plans' = [plans EXCEPT ![turn.plan] = plan]
       /\ turn' = [turn EXCEPT !.at = "verdict",
             !.unmet = \E s \in Steps :
                         /\ ThePlan.steps[s].st = "execution_unknown"
                         /\ found[s] = "paused"]
  /\ UNCHANGED <<fails, context, applied, history>>

\* The verifier needs a decision of the user.
VerdictAsks ==
  /\ turn.at = "verdict" /\ ~turn.unmet
  /\ turn' = NoTurn
  /\ UNCHANGED <<plans, fails, context, applied, history>>

\* complete_goal, and the context is cleared.
GoalAchieved ==
  /\ turn.at = "verdict" /\ ~turn.unmet
  /\ ThePlan.auth /\ Accepted(ThePlan)
  /\ plans' = [plans EXCEPT ![turn.plan].st = "completed"]
  /\ context' = [active |-> None, ran |-> None]
  /\ turn' = NoTurn
  /\ UNCHANGED <<fails, applied, history>>

\* complete_goal refuses a verdict that the plan does not bear out.
GoalNotBorneOut ==
  /\ turn.at = "verdict" /\ ~turn.unmet
  /\ ~(ThePlan.auth /\ Accepted(ThePlan))
  /\ plans' = [plans EXCEPT ![turn.plan].st = "paused"]
  /\ turn' = NoTurn
  /\ UNCHANGED <<fails, context, applied, history>>

\* No verdict that a plan could be built on, or diagnosis raises.
VerdictFails ==
  /\ turn.at = "verdict"
  /\ \E executed \in {MayHaveChanged(ThePlan)}
                       \cup (IF turn.unmet THEN {} ELSE {TRUE}) :
       FailWith(turn.plan, ThePlan, "post_execution", executed,
                context.active, context.ran)
  /\ UNCHANGED <<applied, history>>

\* The goal is not reached: the plan is to be succeeded.
Replan ==
  /\ turn.at = "verdict"
  /\ turn' = Planning(turn.plan, ThePlan, "post", turn.plan)
  /\ UNCHANGED <<plans, fails, context, applied, history>>

-----------------------------------------------------------------------------
(* The user answers a failure: handle_control, _recover_failure_option.     *)

Resumable(p) ==
  \/ plans[p].st \in {"approved", "executing", "verifying", "paused",
                      "blocked"}
  \/ plans[p].cursor
  \/ plans[p].change # "pending" /\ plans[p].st # "completed"

\* The plan of the record, if it is a state to recover from; else the one
\* that was executed last.
RecoveryPlan(f) ==
  LET p == fails[f].plan IN
    CASE p # None /\ Resumable(p) -> p
      [] OTHER -> IF Predecessor # None /\ plans[Predecessor].st \in
                       {"paused", "blocked", "executing", "verifying"}
                  THEN Predecessor ELSE None

\* What the failed action has changed is not looked at.
CanRetry_AnyOutcome(p) ==
  /\ plans[p].st = "paused" /\ plans[p].auth
  /\ Cardinality({s \in Steps : /\ plans[p].steps[s].st = "paused"
                                /\ plans[p].steps[s].tries = 1}) = 1

\* The number of attempts is not looked at.
CanRetry_AnyTime(p) ==
  /\ plans[p].st = "paused" /\ plans[p].auth
  /\ Cardinality({s \in Steps : /\ plans[p].steps[s].st = "paused"
                                /\ plans[p].steps[s].ev = "unchanged"}) = 1

\* retry_unchanged_paused_action: one step has failed, once, and said that it
\* changed nothing.
CanRetry(p) ==
  /\ plans[p].st = "paused" /\ plans[p].auth
  /\ Cardinality({s \in Steps : /\ plans[p].steps[s].st = "paused"
                                /\ plans[p].steps[s].ev = "unchanged"
                                /\ plans[p].steps[s].tries = 1}) = 1

\* Where the answer to failure f takes the turn: to go on as proposed, or with
\* a direction of the user's.
Recovery(f, asProposed) ==
  LET p == RecoveryPlan(f)
      going == asProposed /\ p # None
  IN CASE going /\ fails[f].category = "post_execution" ->
            [NoTurn EXCEPT !.at = "judge", !.plan = p]
       [] going /\ fails[f].category = "binding" /\ ~fails[f].changed
            /\ plans[p].cursor ->
            [NoTurn EXCEPT !.at = "bind", !.plan = p, !.origin = "rebind",
                           !.cause = fails[f].plan]
       [] going /\ CanRetry(p) /\ fails[f].category # "post_execution" ->
            [NoTurn EXCEPT !.at = "run", !.plan = p]
       [] OTHER ->
            [Planning(p, IF p = None THEN Absent ELSE plans[p], "recover",
                      IF p # None /\ plans[p].st \in {"paused", "blocked"}
                      THEN p ELSE context.ran)
               EXCEPT !.cause = fails[f].plan]

\* The record is answered; what it said is not read again.
Settled == [Failure(None, "planning", FALSE, TRUE) EXCEPT !.choice = "given"]

\* Continue, or a direction given at once.
Answered(f) ==
  /\ turn.at = "idle" /\ f = Pending
  /\ fails[f].choice = "none"
  /\ fails' = [fails EXCEPT ![f] = Settled]
  /\ turn' \in {Recovery(f, TRUE), Recovery(f, FALSE)}
  /\ UNCHANGED <<plans, context, applied, history>>

AskDirection(f) ==
  /\ turn.at = "idle" /\ f = Pending
  /\ fails[f].choice = "none"
  /\ fails' = [fails EXCEPT ![f].choice = "asked"]
  /\ UNCHANGED <<plans, context, turn, applied, history>>

GiveDirection(f) ==
  /\ turn.at = "idle" /\ f = Pending
  /\ fails[f].choice = "asked"
  /\ fails' = [fails EXCEPT ![f] = Settled]
  /\ turn' = Recovery(f, FALSE)
  /\ UNCHANGED <<plans, context, applied, history>>

\* The plan of the record is aborted; its authorization stays in the file.
Cancel(f) ==
  /\ turn.at = "idle" /\ f = Pending
  /\ fails[f].choice = "none"
  /\ fails' = [fails EXCEPT ![f] = Settled]
  /\ LET p == fails[f].plan IN
       IF p = None THEN UNCHANGED <<plans, revoked>>
       ELSE /\ plans' = [plans EXCEPT ![p].st = "aborted"]
            /\ revoked' = revoked \cup {p}
  /\ UNCHANGED <<context, turn, applied, tried, approved, crashes>>

-----------------------------------------------------------------------------
\* The process is killed: the turn is lost, the files stay as they are, and
\* nothing reads them when the next process starts.
Crash ==
  /\ turn.at # "idle" /\ crashes < MaxCrashes
  /\ turn' = NoTurn
  /\ crashes' = crashes + 1
  /\ UNCHANGED <<plans, fails, context, applied, tried, approved, revoked>>

Request ==
  \/ NewGoal \/ Supersede \/ Refine \/ ResumeDraft \/ Resume
  \/ \E p \in Plans : \/ Approve(p) \/ RejectContract(p)
                      \/ ConfirmAgain(p) \/ ConfirmCompleted(p)
  \/ \E f \in DOMAIN fails : \/ Answered(f) \/ AskDirection(f)
                             \/ GiveDirection(f) \/ Cancel(f)

\* A turn goes on by itself.
Work ==
  \/ Tell
  \/ PlanAgain \/ PlanFails \/ PlanRaises \/ NothingToPlan \/ PlanReady
  \/ Checkpoint \/ BindOk \/ BindResumes \/ BindRefused \/ BindFails
  \/ RebindRaises
  \/ StartStep \/ Answer \/ TimeOut \/ TimedOut \/ Interrupt
  \/ CheckPasses \/ CheckFails \/ ChangePasses \/ ChangeFails
  \/ Reconcile \/ VerdictAsks \/ GoalAchieved \/ GoalNotBorneOut
  \/ VerdictFails \/ Replan

Next == Request \/ Work \/ Crash
Spec == Init /\ [][Next]_vars

\* The loop of a turn is the process's own: it goes on while it is not killed.
FairSpec == Spec /\ WF_vars(Work)

-----------------------------------------------------------------------------
TypeOK ==
  /\ plans \in [Plans -> PlanType]
  /\ fails \in Seq(FailureType) /\ Len(fails) <= MaxFailures
  /\ context \in [active : 0..MaxPlans, ran : 0..MaxPlans]
  /\ turn \in TurnType
  /\ applied \in [Plans -> [Steps -> 0..2]]
  /\ tried \in [Plans \X Steps -> 0..2]
  /\ approved \subseteq Plans
  /\ revoked \subseteq Plans
  /\ crashes \in 0..MaxCrashes

\* An action that tells the truth of itself has its effect at most once under
\* one plan, whatever is interrupted, times out, is killed, retried or
\* confirmed again (_execute, retry_unchanged_paused_action).
EffectOnce ==
  ~FalseClaims => \A p \in Plans, s \in Steps : applied[p][s] <= 1

\* Only a plan the user approved completes, with every step completed, and a
\* step counts as completed, here or in a plan that inherited it, only if the
\* environment has had its effect (complete_goal, reconcile_recovery_state).
CompletedIsBorneOut ==
  /\ \A p \in Plans : plans[p].st = "completed" =>
       p \in approved /\ plans[p].auth /\ Accepted(plans[p])
  /\ \A p \in Plans, s \in Steps :
       plans[p].steps[s].st = "completed" => Present(s)

\* A decision that a plan waits for is one the user can take: no later record
\* hides it (handle_control, _latest_pending_failure).
DecisionsAreOffered ==
  \A p \in Plans :
    LET f == plans[p].asks IN
      f # None /\ fails[f].stored /\ Unresolved(f) => f = LatestFailure

\* A plan that succeeds another awaits confirmation with every Screen component
\* the other had completed, also after a refusal, a resumed binding and a second
\* planning (bind_once, _inherit_completed_component_effects).
ProgressIsCarried ==
  [][turn.at = "bind" /\ turn.pred # None /\ turn'.at = "idle"
       /\ crashes' = crashes =>
       \A s \in ScreenSteps :
         plans[turn.pred].steps[s].st = "completed" =>
           plans'[turn.plan].steps[s].st = "completed"]_vars

\* In doubt: the step was started, and it is not so that its only attempt has
\* ended and is known to have changed nothing.
InDoubt ==
  {x \in Plans \X Steps :
     LET step == plans[x[1]].steps[x[2]] IN
       /\ tried[x] > 0
       /\ ~(/\ step.st \in {"verifying", "paused"} /\ step.ev = "unchanged"
            /\ tried[x] = 1)}

\* Only steps of approved plans are attempted, and none whose last attempt is
\* in doubt (confirm, _execute, retry_unchanged_paused_action).
Effects == INSTANCE StepEffects WITH attempts <- tried, doubt <- InDoubt
ImplementsStepEffects == Effects!Spec

\* Planning, binding, execution and verdict come to an end, whatever they
\* answer: the counters of _submit_mutation's loop and the steps of _execute run
\* out, and the user gets the word again (RoomForFailure: the model has room for
\* the record the turn may leave).
TurnEnds == turn.at # "idle" /\ RoomForFailure ~> turn.at = "idle"

\* A plan that a later request of the user has revoked is not executed again
\* (coordinator.py, _handle: "Revoke the old hash before planning so it can
\* never remain executable in parallel").
RevokedStaysRevoked == turn.at = "act" => turn.plan \notin revoked
=============================================================================
