--------------------------- MODULE MCMemoryStore ---------------------------
(* Instances of MemoryStore for TLC.                                        *)
EXTENDS MemoryStore, TLC

CONSTANTS m1, m2, s1, c1, c2

\* Preferences: a tool result says nothing of what the user prefers.
MCConfirming == [s \in Subjects |-> Sources \cap {"user_statement"}]

\* Memories and contents are interchangeable ids.
StoreSymmetry == Permutations(Memories) \cup Permutations(Contents)
=============================================================================
