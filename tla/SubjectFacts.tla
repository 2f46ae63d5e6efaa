---------------------------- MODULE SubjectFacts ----------------------------
(***************************************************************************)
(* What the memory store promises of a subject, whatever its records and   *)
(* versions look like: at most one memory states the current fact about a  *)
(* subject, replacing it never leaves the subject without a fact nor with  *)
(* two, and a memory that stopped being current never becomes so again     *)
(* (the state machine of MemoryStatus, memory/domain.py: the same subject  *)
(* is asserted again by a new memory).                                     *)
(***************************************************************************)
CONSTANTS Memories, Subjects, None   \* None is no memory

VARIABLES
  current,   \* the memory that states the current fact about each subject
  retired    \* the memories that once did, or were replaced, and no longer do

facts == <<current, retired>>

Fresh(m) == m \notin retired /\ \A s \in Subjects : current[s] # m

Init ==
  /\ current = [s \in Subjects |-> None]
  /\ retired = {}

Establish(s, m) ==
  /\ current[s] = None
  /\ Fresh(m)
  /\ current' = [current EXCEPT ![s] = m]
  /\ UNCHANGED retired

Replace(s, m) ==
  /\ current[s] # None
  /\ Fresh(m)
  /\ current' = [current EXCEPT ![s] = m]
  /\ retired' = retired \cup {current[s]}

Retire(S) ==
  /\ \A s \in S : current[s] # None
  /\ current' = [s \in Subjects |-> IF s \in S THEN None ELSE current[s]]
  /\ retired' = retired \cup {current[s] : s \in S}

Next ==
  \/ \E s \in Subjects, m \in Memories : Establish(s, m) \/ Replace(s, m)
  \/ \E S \in SUBSET Subjects : Retire(S)

Spec == Init /\ [][Next]_facts
=============================================================================
