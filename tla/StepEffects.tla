---------------------------- MODULE StepEffects ----------------------------
(***************************************************************************)
(* What the privileged workflow promises of the environment, whatever its  *)
(* plans, turns and failures look like: only a step of a plan the user has *)
(* approved is attempted, and it is attempted a second time only when the  *)
(* first attempt has ended and is known to have changed nothing.  A step   *)
(* in doubt, one that was cut off, timed out, changed something, succeeded *)
(* or failed twice, is left to a new plan.                                 *)
(***************************************************************************)
EXTENDS Integers

CONSTANTS Plans, Steps

VARIABLES
  approved,   \* the plans the user has approved
  attempts,   \* how often <<plan, step>> was attempted
  doubt       \* <<plan, step>>: attempted, and not known to be without effect

effects == <<approved, attempts, doubt>>

Init ==
  /\ approved = {}
  /\ attempts = [x \in Plans \X Steps |-> 0]
  /\ doubt = {}

Approve(p) ==
  /\ approved' = approved \cup {p}
  /\ UNCHANGED <<attempts, doubt>>

Attempt(p, s) ==
  /\ p \in approved
  /\ <<p, s>> \notin doubt
  /\ attempts' = [attempts EXCEPT ![<<p, s>>] = @ + 1]
  /\ doubt' = doubt \cup {<<p, s>>}
  /\ UNCHANGED approved

\* The first attempt has ended and is known to have changed nothing.
NothingChanged(p, s) ==
  /\ attempts[<<p, s>>] = 1
  /\ doubt' = doubt \ {<<p, s>>}
  /\ UNCHANGED <<approved, attempts>>

Next ==
  \E p \in Plans :
    \/ Approve(p)
    \/ \E s \in Steps : Attempt(p, s) \/ NothingChanged(p, s)

Spec == Init /\ [][Next]_effects
=============================================================================
