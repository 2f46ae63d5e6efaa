-------------------------- MODULE MCWritePipeline --------------------------
(* Instances of WritePipeline for TLC.                                      *)
EXTENDS WritePipeline, TLC

CONSTANTS m1, m2, w1, w2, pref, c1, c2, g1

\* The one subject is a preference: the user alone confirms it.
MCConfirming == [s \in Subjects |-> {"user_statement"}]

Says(s, content, source, verified, proposal) ==
  [subject |-> s, content |-> content, sources |-> {source},
   verified |-> verified, confidence |-> 0, proposal |-> proposal]

\* The user states a preference, and replaces it; tool results suggest the same
\* and the contrary, and would replace what is there.
PreferenceCandidates ==
  {Says(pref, c1, "user_statement", TRUE, "none"),
   Says(pref, c2, "tool_result", FALSE, "update"),
   Says(pref, c2, "user_statement", TRUE, "supersede"),
   Says(pref, c1, "tool_result", FALSE, "supersede")}

Interchangeable == Permutations(Memories) \cup Permutations(Sessions)
=============================================================================
