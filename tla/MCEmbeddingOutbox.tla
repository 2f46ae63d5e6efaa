------------------------- MODULE MCEmbeddingOutbox -------------------------
(* Instances of EmbeddingOutbox for TLC.                                    *)
EXTENDS EmbeddingOutbox

CONSTANTS m1, v1, w1, w2, default, target

\* All versions are versions of one memory.
OneMemory == {m1}
OfOneMemory == [v \in Versions |-> m1]

\* The provider of the new profile may refuse.
TargetRefuses == {<<v1, target>>}
=============================================================================
