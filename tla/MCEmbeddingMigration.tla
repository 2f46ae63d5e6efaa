------------------------ MODULE MCEmbeddingMigration ------------------------
(* Instances of EmbeddingMigration for TLC.                                 *)
EXTENDS EmbeddingMigration

CONSTANTS m1, v1, w1, default, target, g1, c1, c2

OneMemory == {m1}
OfOneMemory == [v \in Versions |-> m1]
OneTarget == [g \in Migrations |-> target]
TargetRefuses == {<<v1, target>>}
=============================================================================
