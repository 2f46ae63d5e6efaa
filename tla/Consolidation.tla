--------------------------- MODULE Consolidation ---------------------------
(***************************************************************************)
(* The rules by which a candidate becomes a write, or none: the pure       *)
(* function plan_consolidation (memory/versioning.py), with the lookups    *)
(* whose answers it judges, for those who apply its plans to MemoryStore.  *)
(***************************************************************************)
EXTENDS MemoryStore

CONSTANT Preferences   \* the subjects of type "preference"

ASSUME ConsolidationAssumption == Preferences \subseteq Subjects \ Episodes

Proposals == {"none", "add", "update", "supersede", "noop", "reject"}
Decisions == {"add", "update", "supersede", "noop", "reject"}

\* A source that can verify what the candidate says of its subject.
Confirms(c) == c.sources \cap Confirming[c.subject] # {}

CandidateType ==
  [subject : Subjects, content : Contents, sources : SUBSET Sources,
   verified : BOOLEAN, confidence : 0..MaxConfidence, proposal : Proposals]

\* What find_active_by_subject returns of an active memory.
Found ==
  [memory : Memories, version : 1..MaxVersions, content : Contents,
   confidence : 0..MaxConfidence, verified : BOOLEAN]

\* find_active_by_subject.
Current(s) ==
  IF SubjectFree(s)
    THEN {None}
    ELSE {LET v == versions[m][activeVersion[m]]
          IN  [memory |-> m, version |-> activeVersion[m],
               content |-> v.content, verified |-> v.verified,
               confidence |-> confidence[m]] :
            m \in {n \in Memories : Active(n) /\ subject[n] = s}}

\* list_sources, of the version that was looked up.
KnownSources(found) ==
  IF found = None THEN {} ELSE versions[found.memory][found.version].sources

-----------------------------------------------------------------------------
(* plan_consolidation, rules R1 to R10.                                     *)

\* R4, R5: the same content with new evidence, or with more confidence.
AddsTo(c, found, sources) ==
  ~(c.sources \subseteq sources) \/ c.confidence > found.confidence

\* R8 to R10 without R9: a preference is replaced like any fact.
MaySupersede_AnyEvidence(c, found, sources) ==
  /\ c.proposal = "supersede"
  /\ found.verified \/ sources \cap Confirming[c.subject] # {} => Confirms(c)

\* R8 to R10: a different value replaces the current one only if it says it
\* does; a preference, and a value with evidence, yields to evidence only.
MaySupersede(c, found, sources) ==
  /\ c.proposal = "supersede"
  /\ c.subject \in Preferences => Confirms(c)
  /\ found.verified \/ sources \cap Confirming[c.subject] # {} => Confirms(c)

Decide(c, found, sources) ==
  IF c.sources = {} \/ c.proposal = "reject" THEN "reject"
  ELSE IF found = None THEN "add"
  ELSE IF found.content = c.content
    THEN IF AddsTo(c, found, sources) THEN "update" ELSE "noop"
  ELSE IF c.subject \in Episodes \/ c.proposal = "update" THEN "update"
  ELSE IF MaySupersede(c, found, sources) THEN "supersede" ELSE "reject"

\* What apply_plan asks of the store: NewRecordCommand, NewVersionCommand.
Request(c) ==
  [content |-> c.content, from |-> now, sources |-> c.sources,
   verified |-> c.verified, confidence |-> c.confidence]
=============================================================================
