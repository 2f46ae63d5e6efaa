--------------------------- MODULE WritePipeline ---------------------------
(***************************************************************************)
(* How memories come to be written: MemoryWritePipeline                    *)
(* (memory/write_pipeline.py), apply_plan (memory/versioning.py) and the   *)
(* candidate table (migration 0001), on top of MemoryStore.                *)
(*                                                                         *)
(* A session handles one turn at a time.  A turn is known by its range of  *)
(* event rows; its i-th candidate by the key <<range, i>>.  A candidate is *)
(* looked up, planned, registered, applied and decided in transactions of  *)
(* their own, so the steps of two sessions interleave, and a session may   *)
(* stop between any two of them.                                           *)
(*                                                                         *)
(* Rows are numbered from 0 for each user and project, and the key has no  *)
(* other part: turns of two sessions, and of other tenants of the same     *)
(* database, may carry the same key.                                       *)
(***************************************************************************)
EXTENDS Consolidation

CONSTANTS
  Sessions,      \* processes that hold a conversation of this tenant
  Candidates,    \* what a review may approve
  Ranges,        \* source_event_range of a turn
  MaxIndex,      \* bound on the candidates of a turn
  LedgerLimit,   \* ranges that processed_source_ranges returns at most
  Faults         \* may the database fail a statement?

Keys == Ranges \X (0..(MaxIndex - 1))

ASSUME PipelineAssumption ==
  /\ Candidates \subseteq CandidateType
  /\ \A c \in Candidates : c.verified => Confirms(c)
  /\ None \notin Candidates \cup Ranges \cup Found \cup Decisions
  /\ MaxIndex \in Nat /\ LedgerLimit \in Nat
  /\ Faults \in BOOLEAN

VARIABLES
  session,   \* what each session is doing
  ledger,    \* memory_write_candidates of this tenant: the decision, by key
  payload,   \* its candidate_payload by key, None for a refused proposal
  foreign,   \* keys of that table that belong to other tenants
  applied,   \* history: the writes made, by key and candidate
  contested  \* history: keys whose row a session found about something else

pipeline == <<session, ledger, payload, foreign, applied, contested>>
allVars == <<vars, pipeline>>

-----------------------------------------------------------------------------
Stages == {"idle", "turn", "found", "planned", "registered", "attach",
           "extend", "applied", "raised"}

SessionType ==
  [stage : Stages, range : Ranges \cup {None}, index : 0..MaxIndex,
   candidate : Candidates \cup {None}, found : Found \cup {None},
   plan : Decisions \cup {None}]

Idle == [stage |-> "idle", range |-> None, index |-> 0, candidate |-> None,
         found |-> None, plan |-> None]

\* A session has a candidate and a plan exactly where the code does.
Consistent(x) ==
  /\ x.stage = "idle" <=> x.range = None
  /\ x.candidate = None <=> x.stage \in {"idle", "turn"}
  /\ x.plan = None <=> x.stage \in {"idle", "turn", "found"}
  /\ x.candidate # None => x.index < MaxIndex
  /\ x.plan \in {"update", "supersede"} => x.found # None
  /\ x.found # None => x.candidate # None

PipelineTypeOK ==
  /\ TypeOK
  /\ session \in [Sessions -> SessionType]
  /\ \A w \in Sessions : Consistent(session[w])
  /\ ledger \in [Keys -> Decisions \cup {"absent", "undecided"}]
  /\ foreign \subseteq Keys
  /\ payload \in [Keys -> Candidates \cup {None}]
  /\ applied \subseteq Keys \X Candidates \X Decisions
  /\ contested \subseteq Keys

PipelineInit ==
  /\ Init
  /\ session = [w \in Sessions |-> Idle]
  /\ ledger = [k \in Keys |-> "absent"]
  /\ payload = [k \in Keys |-> None]
  /\ foreign = {} /\ applied = {} /\ contested = {}

\* In the turn of range g, about to take up its i-th candidate.
InTurnAt(g, i) == [Idle EXCEPT !.stage = "turn", !.range = g, !.index = i]

Stage(w) == session[w].stage
Key(w) == <<session[w].range, session[w].index>>

\* The next candidate, with the plan of the one before.
NextCandidate_KeepsPlan(w) ==
  session' = [session EXCEPT ![w] =
                [session[w] EXCEPT !.stage = "turn", !.index = @ + 1]]

\* The session turns to the next candidate, or leaves the turn.
NextCandidate(w) ==
  session' = [session EXCEPT ![w] =
                InTurnAt(session[w].range, session[w].index + 1)]
LeaveTurn(w) == session' = [session EXCEPT ![w] = Idle]

-----------------------------------------------------------------------------
(* A turn.                                                                  *)

Registered == {g \in Ranges : \E k \in Keys : k[1] = g /\ ledger[k] # "absent"}

\* _range_already_processed.  Beyond the limit the answer depends on how the
\* ranges sort.
MayProcess(g) == g \notin Registered \/ Cardinality(Registered) > LedgerLimit

StartTurn(w, g) ==
  /\ Stage(w) = "idle"
  /\ MayProcess(g)
  /\ session' = [session EXCEPT ![w] = InTurnAt(g, 0)]
  /\ UNCHANGED <<vars, ledger, payload, foreign, applied, contested>>

\* No more proposals, the extraction failed, or the caller
\* (_capture_memory_candidates) swallows what was raised.
EndTurn(w) ==
  /\ Stage(w) \in {"turn", "raised"}
  /\ LeaveTurn(w)
  /\ UNCHANGED <<vars, ledger, payload, foreign, applied, contested>>

\* The policy refuses a proposal.  Unless it was found to hold a secret its
\* row is kept, never to be decided; a failure to keep it is ignored.
Discard(w) ==
  /\ Stage(w) = "turn" /\ session[w].index < MaxIndex
  /\ NextCandidate(w)
  /\ \/ UNCHANGED ledger
     \/ /\ ledger[Key(w)] = "absent" /\ Key(w) \notin foreign
        /\ ledger' = [ledger EXCEPT ![Key(w)] = "undecided"]
  /\ UNCHANGED <<vars, payload, foreign, applied, contested>>

Lookup(w, c) ==
  /\ Stage(w) = "turn" /\ session[w].index < MaxIndex
  /\ \E found \in Current(c.subject) :
       session' = [session EXCEPT ![w] =
                     [session[w] EXCEPT !.stage = "found", !.candidate = c,
                                        !.found = found]]
  /\ UNCHANGED <<vars, ledger, payload, foreign, applied, contested>>

Plan(w) ==
  /\ Stage(w) = "found"
  /\ LET found == session[w].found
     IN  session' = [session EXCEPT ![w] =
                       [session[w] EXCEPT !.stage = "planned",
                          !.plan = Decide(session[w].candidate, found,
                                          KnownSources(found))]]
  /\ UNCHANGED <<vars, ledger, payload, foreign, applied, contested>>

\* add_candidate: a new row, or the one that has the key, with the payload it
\* has (ON CONFLICT DO NOTHING).
Register(w) ==
  LET k == Key(w)
      new == ledger[k] = "absent"
  IN  /\ Stage(w) = "planned" /\ k \notin foreign
      /\ session' = [session EXCEPT ![w] =
                       [session[w] EXCEPT !.stage = "registered"]]
      /\ ledger' = [ledger EXCEPT ![k] = IF new THEN "undecided" ELSE @]
      /\ payload' = [payload EXCEPT ![k] =
                        IF new THEN session[w].candidate ELSE @]
      /\ contested' = IF payload'[k] = session[w].candidate
                      THEN contested ELSE contested \cup {k}
      /\ UNCHANGED <<vars, foreign, applied>>

\* add_candidate raises, outside of every try: the key belongs to another
\* tenant, or the database failed.
RegisterRaises(w) ==
  /\ Stage(w) = "planned"
  /\ Key(w) \in foreign \/ Faults
  /\ session' = [session EXCEPT ![w] = [session[w] EXCEPT !.stage = "raised"]]
  /\ UNCHANGED <<vars, ledger, payload, foreign, applied, contested>>

-----------------------------------------------------------------------------
(* apply_plan: write first, record the decision afterwards.                 *)

\* The write of session w is done.
Wrote(w) ==
  /\ session' = [session EXCEPT ![w] =
                   [session[w] EXCEPT !.stage = "applied"]]
  /\ applied' = applied
                  \cup {<<Key(w), session[w].candidate, session[w].plan>>}
  /\ UNCHANGED <<ledger, payload, foreign, contested>>

ApplyAdd(w) ==
  /\ Stage(w) = "registered" /\ session[w].plan = "add"
  /\ LET c == session[w].candidate
     IN  \E m \in Memories : AddRecord(m, c.subject, Request(c))
  /\ Wrote(w)

ApplySupersede(w) ==
  /\ Stage(w) = "registered" /\ session[w].plan = "supersede"
  /\ \E m \in Memories :
       ReplaceActive(session[w].found.memory, m, Request(session[w].candidate))
  /\ Wrote(w)

\* UPDATE reads the memory again: its content decides what to do with it.
Inspect(w) ==
  /\ Stage(w) = "registered" /\ session[w].plan = "update"
  /\ LET m == session[w].found.memory
         same == versions[m][activeVersion[m]].content
                   = session[w].candidate.content
     IN  session' = [session EXCEPT ![w] =
                       [session[w] EXCEPT !.stage =
                          IF same THEN "attach" ELSE "extend"]]
  /\ UNCHANGED <<vars, ledger, payload, foreign, applied, contested>>

ApplyAttach(w) ==
  /\ Stage(w) = "attach"
  /\ AttachSources(session[w].found.memory, Request(session[w].candidate))
  /\ Wrote(w)

ApplyExtend(w) ==
  /\ Stage(w) = "extend"
  /\ AddVersion(session[w].found.memory, Request(session[w].candidate))
  /\ Wrote(w)

\* The store refuses the write: the subject has been taken, the memory is no
\* longer active, or it has had this content before.
Refused(w) ==
  LET c == session[w].candidate
      target == session[w].found.memory
  IN  \/ /\ Stage(w) = "registered" /\ session[w].plan = "add"
         /\ ~SubjectFree(c.subject)
      \/ /\ Stage(w) = "registered" /\ session[w].plan = "supersede"
         /\ ~Active(target)
      \/ Stage(w) = "attach" /\ ~Active(target)
      \/ Stage(w) = "extend" /\ ~MayExtend(target, Request(c))

\* lookup_failed or write_failed: the candidate is given up, the turn goes on.
\* One that is registered stays undecided.
GiveUp(w) ==
  /\ \/ Refused(w)
     \/ Faults /\ Stage(w) \in {"found", "registered", "attach", "extend",
                                "applied"}
  /\ NextCandidate(w)
  /\ UNCHANGED <<vars, ledger, payload, foreign, applied, contested>>

\* The plan is carried out, or asks for no write.
Done(w) ==
  \/ Stage(w) = "applied"
  \/ Stage(w) = "registered" /\ session[w].plan \in {"noop", "reject"}

\* record_decision before the write.
Record_Early(w) ==
  /\ Stage(w) \in {"registered", "applied"}
  /\ ledger' = [ledger EXCEPT ![Key(w)] =
                  IF @ = "undecided" THEN session[w].plan ELSE @]
  /\ NextCandidate(w)
  /\ UNCHANGED <<vars, payload, foreign, applied, contested>>

\* record_decision: only where there is none; otherwise the candidate counts
\* as a duplicate.
Record(w) ==
  /\ Done(w)
  /\ ledger' = [ledger EXCEPT ![Key(w)] =
                  IF @ = "undecided" THEN session[w].plan ELSE @]
  /\ NextCandidate(w)
  /\ UNCHANGED <<vars, payload, foreign, applied, contested>>

-----------------------------------------------------------------------------
(* What happens around a session.                                           *)

\* The process of the session stops; its turn is not resumed.
Crash(w) ==
  /\ Stage(w) # "idle"
  /\ LeaveTurn(w)
  /\ UNCHANGED <<vars, ledger, payload, foreign, applied, contested>>

\* Another tenant's turn has a key before this tenant's does.
OtherTenant(k) ==
  /\ ledger[k] = "absent" /\ k \notin foreign
  /\ foreign' = foreign \cup {k}
  /\ UNCHANGED <<vars, session, ledger, payload, applied, contested>>

\* The user deletes a memory.
Forget(m) == DeleteMemory(m) /\ UNCHANGED pipeline

Turn(w) ==
  \/ \E g \in Ranges : StartTurn(w, g)
  \/ \E c \in Candidates : Lookup(w, c)
  \/ EndTurn(w) \/ Discard(w) \/ Plan(w)
  \/ Register(w) \/ RegisterRaises(w)
  \/ Crash(w)

Apply(w) ==
  \/ ApplyAdd(w) \/ ApplySupersede(w)
  \/ Inspect(w) \/ ApplyAttach(w) \/ ApplyExtend(w)
  \/ Record(w) \/ GiveUp(w)

PipelineNext ==
  \/ \E w \in Sessions : Turn(w) \/ Apply(w)
  \/ \E k \in Keys : OtherTenant(k)
  \/ \E m \in Memories : Forget(m)

PipelineSpec == PipelineInit /\ [][PipelineNext]_allVars

-----------------------------------------------------------------------------
(* Properties.                                                              *)

Writes == {"add", "update", "supersede"}

\* The audit trail never claims a write that was not made: for a row decided
\* ADD, UPDATE or SUPERSEDE that write was made under its key, whatever failed
\* or stopped, and it was of the row's own candidate, unless sessions with
\* different candidates met at the key.  There the row keeps the candidate of
\* the first and may get the decision on another's.
NoFalseAudit ==
  \A k \in Keys : ledger[k] \in Writes =>
    \E c \in Candidates :
      <<k, c, ledger[k]>> \in applied /\ (k \in contested \/ c = payload[k])

\* No write without an audit row: each was made under a key that this tenant's
\* table holds, for the candidate the row is about, unless sessions with
\* different candidates met there.
WritesAreRegistered ==
  \A a \in applied :
    ledger[a[1]] # "absent" /\ (a[1] \in contested \/ payload[a[1]] = a[2])

\* A decision once recorded stays, though the same range is processed again.
DecisionsAreFinal ==
  [][\A k \in Keys : ledger[k] \in Decisions => ledger'[k] = ledger[k]]_allVars

\* A memory of a preference is superseded by another on the user's own word
\* only (R9).  A new version of the same memory is not a replacement: there the
\* rules take the candidate's word that the meaning is the same (R7).
PreferenceYieldsToUser ==
  \A m, n \in Memories :
    <<n, "supersedes", m>> \in relations /\ subject[m] \in Preferences =>
      versions[n][1].sources \cap Confirming[subject[m]] # {}

\* What the store currently holds about a subject.
CurrentContents(s) ==
  {versions[m][activeVersion[m]].content :
     m \in {n \in Memories : Active(n) /\ subject[n] = s}}

\* The candidate says that it restates or replaces the current value.
Declares(c) == c.proposal \in {"update", "supersede"} \/ c.subject \in Episodes

\* No silent overwrite: the value held about a subject gives way to another
\* only to a candidate that declared it, even if the memory it was planned
\* against has changed since it was looked up.
NoSilentOverwrite ==
  [][\A s \in Subjects :
       CurrentContents(s) # {} /\ CurrentContents(s)' # {}
         /\ CurrentContents(s)' # CurrentContents(s) =>
           \E w \in Sessions :
             /\ session'[w].stage = "applied" /\ session[w].stage # "applied"
             /\ session[w].candidate.subject = s
             /\ Declares(session[w].candidate)]_allVars
=============================================================================
