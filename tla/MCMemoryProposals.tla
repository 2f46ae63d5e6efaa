------------------------- MODULE MCMemoryProposals -------------------------
(* Instances of MemoryProposals for TLC.                                    *)
EXTENDS MemoryProposals, TLC

CONSTANTS m1, m2, m3, s1, s2, c1, c2, p1, p2, r1, r2

MCConfirming == [s \in Subjects |-> Sources]

Says(content, sources) ==
  [content |-> content, sources |-> sources, verified |-> FALSE,
   confidence |-> 0]

\* Two subjects of which the same is told, in other words or in the same, with
\* evidence or without.
Restated == {<<s1, Says(c1, Sources)>>, <<s1, Says(c1, {})>>,
             <<s1, Says(c2, Sources)>>, <<s2, Says(c2, {})>>}

Interchangeable ==
  Permutations(Memories) \cup Permutations(Slots) \cup Permutations(Reviewers)
=============================================================================
