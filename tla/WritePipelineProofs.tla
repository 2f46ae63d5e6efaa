------------------------ MODULE WritePipelineProofs ------------------------
(***************************************************************************)
(* Theorems about WritePipeline for every value of its constants.          *)
(***************************************************************************)
EXTENDS WritePipeline, MemoryStoreProofs

-----------------------------------------------------------------------------
(* The inductive invariant.                                                 *)

SessionsTyped ==
  /\ session \in [Sessions -> SessionType]
  /\ ledger \in [Keys -> Decisions \cup {"absent", "undecided"}]
  /\ foreign \subseteq Keys
  /\ payload \in [Keys -> Candidates \cup {None}]
  /\ applied \subseteq Keys \X Candidates \X Decisions
  /\ contested \subseteq Keys

\* The row of key k is about candidate c, or is known to be about another.
About(k, c) == ledger[k] # "absent" /\ (k \in contested \/ payload[k] = c)

\* What was looked up is still there: a memory about the candidate's subject,
\* with the version that was seen.
Traced(found, c) ==
  /\ found.memory \in Memories /\ Exists(found.memory)
  /\ subject[found.memory] = c.subject
  /\ found.version \in 1..Len(versions[found.memory])
  /\ versions[found.memory][found.version].content = found.content

\* What the rules grant a plan.
Justified(x) ==
  /\ x.plan = "supersede" =>
       /\ x.candidate.proposal = "supersede"
       /\ x.candidate.subject \in Preferences => Confirms(x.candidate)
  /\ x.plan = "update" =>
       Declares(x.candidate) \/ x.found.content = x.candidate.content

\* A session in state x is consistent with the tables.
Sound(x) ==
  /\ Consistent(x)
  /\ x.found # None => Traced(x.found, x.candidate)
  /\ Justified(x)
  /\ x.stage \in {"registered", "attach", "extend", "applied"} =>
       About(<<x.range, x.index>>, x.candidate)
  /\ x.stage \in {"attach", "extend"} => x.plan = "update"
  /\ x.stage = "applied" =>
       <<<<x.range, x.index>>, x.candidate, x.plan>> \in applied

\* Both ends of a replacement exist.
Linked ==
  \A m, n \in Memories :
    <<n, "supersedes", m>> \in relations => Exists(m) /\ Exists(n)

PInv ==
  /\ IInv
  /\ SessionsTyped
  /\ \A w \in Sessions : Sound(session[w])
  /\ NoFalseAudit /\ WritesAreRegistered
  /\ Linked /\ PreferenceYieldsToUser

-----------------------------------------------------------------------------
(* The store underneath.                                                    *)

LEMMA RequestType ==
  ASSUME TypeOK, NEW c \in Candidates
  PROVE  /\ Request(c) \in Requests
         /\ Request(c).content = c.content
         /\ Request(c).sources = c.sources
BY PipelineAssumption DEF TypeOK, CandidateType, Request, Requests

\* A session that works on a candidate has one, and so has its plan a target.
LEMMA AtWork ==
  ASSUME PInv, NEW w \in Sessions
  PROVE  /\ session[w] \in SessionType /\ Sound(session[w])
         /\ session[w].candidate # None => session[w].candidate \in Candidates
         /\ session[w].plan \in {"update", "supersede"} =>
              /\ session[w].found.memory \in Memories
              /\ session[w].candidate \in Candidates
              /\ Exists(session[w].found.memory)
              /\ subject[session[w].found.memory] = session[w].candidate.subject
<1>1. session[w] \in SessionType /\ Sound(session[w])
  BY DEF PInv, SessionsTyped
<1>2. session[w].candidate # None => session[w].candidate \in Candidates
  BY <1>1 DEF SessionType
<1>3. session[w].plan \in {"update", "supersede"} =>
        session[w].found # None /\ session[w].candidate # None
  BY <1>1 DEF Sound, Consistent
<1> QED BY <1>1, <1>2, <1>3 DEF Sound, Traced

LEMMA InTurn ==
  ASSUME PInv, NEW w \in Sessions, session[w].stage # "idle"
  PROVE  /\ session[w].range \in Ranges
         /\ session[w].index \in 0..MaxIndex
         /\ session[w].candidate # None =>
              session[w].index < MaxIndex /\ Key(w) \in Keys
<1>a. PICK x : x = session[w]
  OBVIOUS
<1>1. x \in SessionType /\ Consistent(x)
  BY <1>a, AtWork DEF Sound
<1>2. x.range # None
  BY <1>a, <1>1 DEF Consistent
<1>3. x.range \in Ranges /\ x.index \in 0..MaxIndex
  BY <1>1, <1>2 DEF SessionType
<1>4. ASSUME x.candidate # None
      PROVE  x.index < MaxIndex /\ <<x.range, x.index>> \in Keys
  <2>1. x.index < MaxIndex
    BY <1>1, <1>4 DEF Consistent
  <2> QED BY <1>3, <2>1, PipelineAssumption DEF Keys
<1> QED BY <1>a, <1>3, <1>4 DEF Key

\* A write that a session makes is a write of the store.
Made(w) == ApplyAdd(w) \/ ApplySupersede(w) \/ ApplyAttach(w) \/ ApplyExtend(w)

LEMMA AddIsWrite ==
  ASSUME PInv, NEW w \in Sessions, ApplyAdd(w)
  PROVE  \E m \in Memories :
           /\ AddRecord(m, session[w].candidate.subject,
                        Request(session[w].candidate))
           /\ session[w].candidate.subject \in Subjects
           /\ Request(session[w].candidate) \in Requests
<1>1. session[w].candidate # None
  BY AtWork DEF ApplyAdd, Stage, Sound, Consistent
<1>2. /\ session[w].candidate \in Candidates
      /\ session[w].candidate.subject \in Subjects
  BY <1>1, AtWork, PipelineAssumption DEF CandidateType
<1> QED BY <1>2, RequestType DEF ApplyAdd, PInv, IInv

LEMMA MadeIsWrite ==
  ASSUME PInv, NEW w \in Sessions, Made(w)
  PROVE  Write
<1>1. CASE ApplyAdd(w)
  BY <1>1, AddIsWrite DEF Write
<1>2. ASSUME session[w].plan \in {"update", "supersede"}
      PROVE  /\ session[w].found.memory \in Memories
             /\ Request(session[w].candidate) \in Requests
  BY <1>2, AtWork, RequestType DEF PInv, IInv
<1>3. CASE ApplySupersede(w)
  BY <1>2, <1>3 DEF ApplySupersede, Write
<1>4. CASE ApplyAttach(w)
  <2>1. session[w].plan = "update"
    BY <1>4, AtWork DEF ApplyAttach, Stage, Sound
  <2> QED BY <1>2, <1>4, <2>1 DEF ApplyAttach, Write
<1>5. CASE ApplyExtend(w)
  <2>1. session[w].plan = "update"
    BY <1>5, AtWork DEF ApplyExtend, Stage, Sound
  <2> QED BY <1>2, <1>5, <2>1 DEF ApplyExtend, Write
<1> QED BY <1>1, <1>3, <1>4, <1>5 DEF Made

LEMMA StepOfStore ==
  ASSUME PInv, [PipelineNext]_allVars
  PROVE  [Next]_vars
<1>1. CASE \E w \in Sessions : Made(w)
  BY <1>1, MadeIsWrite DEF Next
<1>2. CASE \E m \in Memories : Forget(m)
  BY <1>2 DEF Forget, Lifecycle, Next
<1>3. CASE UNCHANGED vars
  BY <1>3
<1>4. \/ \E w \in Sessions : Made(w)
      \/ \E m \in Memories : Forget(m)
      \/ UNCHANGED vars
  BY DEF PipelineNext, Turn, Apply, Made, StartTurn, EndTurn, Discard, Lookup,
     Plan, Register, RegisterRaises, Crash, Inspect, Record, GiveUp,
     OtherTenant, allVars
<1> QED BY <1>1, <1>2, <1>3, <1>4

-----------------------------------------------------------------------------
(* The tables only grow: nothing a session has seen disappears.             *)

MemoriesGrow ==
  \A m \in Memories : Exists(m) =>
    /\ Exists(m)'
    /\ subject'[m] = subject[m]
    /\ Len(versions'[m]) \in Nat /\ Len(versions'[m]) >= Len(versions[m])
    /\ \A k \in 1..Len(versions[m]) :
         /\ versions'[m][k].content = versions[m][k].content
         /\ versions[m][k].sources \subseteq versions'[m][k].sources

LedgerGrows ==
  /\ \A k \in Keys : ledger[k] # "absent" =>
       ledger'[k] # "absent" /\ payload'[k] = payload[k]
  /\ applied \subseteq applied' /\ contested \subseteq contested'

LEMMA StillExist ==
  ASSUME PInv, [PipelineNext]_allVars
  PROVE  \A m \in Memories : Exists(m) =>
           /\ Exists(m)' /\ status'[m] # "purged" /\ subject'[m] = subject[m]
<1> SUFFICES ASSUME NEW m \in Memories, Exists(m)
             PROVE  /\ Exists(m)' /\ status'[m] # "purged"
                    /\ subject'[m] = subject[m]
  OBVIOUS
<1>0. /\ status \in [Memories -> Statuses]
      /\ subject \in [Memories -> Subjects \cup {None}]
  BY DEF PInv, IInv, TypeOK
<1>1. CASE \E w \in Sessions : Made(w)
  <2>1. PICK w \in Sessions : Made(w)
    BY <1>1
  <2>2. CASE ApplyAdd(w)
    BY <1>0, <2>2 DEF ApplyAdd, AddRecord, Exists
  <2>3. CASE ApplySupersede(w)
    BY <1>0, <2>3 DEF ApplySupersede, ReplaceActive, MayReplace, Exists
  <2>4. CASE ApplyAttach(w)
    BY <1>0, <2>4 DEF ApplyAttach, AttachSources, Exists
  <2>5. CASE ApplyExtend(w)
    BY <1>0, <2>5 DEF ApplyExtend, AddVersion, Exists
  <2> QED BY <2>1, <2>2, <2>3, <2>4, <2>5 DEF Made
<1>2. CASE \E n \in Memories : Forget(n)
  BY <1>0, <1>2 DEF Forget, DeleteMemory, Exists
<1>3. CASE UNCHANGED vars
  BY <1>3 DEF vars, Exists
<1>4. \/ \E w \in Sessions : Made(w)
      \/ \E n \in Memories : Forget(n)
      \/ UNCHANGED vars
  BY DEF PipelineNext, Turn, Apply, Made, StartTurn, EndTurn, Discard, Lookup,
     Plan, Register, RegisterRaises, Crash, Inspect, Record, GiveUp,
     OtherTenant, allVars
<1> QED BY <1>1, <1>2, <1>3, <1>4

LEMMA MemoriesDoGrow ==
  ASSUME PInv, [PipelineNext]_allVars
  PROVE  MemoriesGrow
<1> SUFFICES ASSUME NEW m \in Memories, Exists(m)
             PROVE  /\ Exists(m)'
                    /\ subject'[m] = subject[m]
                    /\ Len(versions'[m]) \in Nat
                    /\ Len(versions'[m]) >= Len(versions[m])
                    /\ \A k \in 1..Len(versions[m]) :
                         /\ versions'[m][k].content = versions[m][k].content
                         /\ versions[m][k].sources \subseteq
                              versions'[m][k].sources
  BY DEF MemoriesGrow
<1>1. Kept(m)
  BY StepOfStore, NextKeeps DEF PInv
<1>2. Exists(m)' /\ status'[m] # "purged" /\ subject'[m] = subject[m]
  BY StillExist
<1>3. Preserves(versions'[m], versions[m]) /\ Len(versions'[m]) \in Nat
  BY <1>1, <1>2 DEF Kept
<1> QED BY <1>2, <1>3 DEF Preserves

\* The ledger and the history of writes, action by action.
LEMMA LedgerDoesGrow ==
  ASSUME PInv, [PipelineNext]_allVars
  PROVE  LedgerGrows
<1>0. /\ ledger \in [Keys -> Decisions \cup {"absent", "undecided"}]
      /\ payload \in [Keys -> Candidates \cup {None}]
  BY DEF PInv, SessionsTyped
<1>1. ASSUME NEW w \in Sessions, Discard(w) PROVE LedgerGrows
  BY <1>0, <1>1 DEF Discard, LedgerGrows
<1>2. ASSUME NEW w \in Sessions, Register(w) PROVE LedgerGrows
  BY <1>0, <1>2 DEF Register, LedgerGrows
<1>3. ASSUME NEW w \in Sessions, Record(w) PROVE LedgerGrows
  <2>1. session[w].plan \in Decisions
    BY <1>3, AtWork DEF Record, Done, Stage, Sound, Consistent, SessionType
  <2> QED BY <1>0, <1>3, <2>1 DEF Record, LedgerGrows, Decisions
<1>4. ASSUME UNCHANGED <<ledger, payload, contested>>, applied \subseteq applied'
      PROVE  LedgerGrows
  BY <1>4 DEF LedgerGrows
<1>5. \/ \E w \in Sessions : Discard(w) \/ Register(w) \/ Record(w)
      \/ UNCHANGED <<ledger, payload, contested>> /\ applied \subseteq applied'
  BY DEF PipelineNext, Turn, Apply, StartTurn, EndTurn, Lookup, Plan,
     RegisterRaises, Crash, Inspect, ApplyAdd, ApplySupersede, ApplyAttach,
     ApplyExtend, Wrote, GiveUp, OtherTenant, Forget, pipeline, allVars
<1> QED BY <1>1, <1>2, <1>3, <1>4, <1>5

\* A session that does not move stays sound.
LEMMA StaysSound ==
  ASSUME PInv, MemoriesGrow, LedgerGrows,
         NEW x \in SessionType, Sound(x)
  PROVE  Sound(x)'
<1>1. x.found # None => Traced(x.found, x.candidate)'
  <2> SUFFICES ASSUME x.found # None PROVE Traced(x.found, x.candidate)'
    OBVIOUS
  <2>1. Traced(x.found, x.candidate)
    BY DEF Sound
  <2> DEFINE m == x.found.memory
  <2>2. m \in Memories /\ Exists(m)
    BY <2>1 DEF Traced
  <2>3. Len(versions[m]) \in Nat
    BY <2>2, WellFormed DEF PInv
  <2> QED BY <2>1, <2>2, <2>3 DEF Traced, MemoriesGrow
<1>2. x.stage \in {"registered", "attach", "extend", "applied"} =>
        <<x.range, x.index>> \in Keys
  <2> SUFFICES ASSUME x.stage \in {"registered", "attach", "extend", "applied"}
               PROVE  <<x.range, x.index>> \in Keys
    OBVIOUS
  <2>1. x.candidate # None
    BY DEF Sound, Consistent
  <2>2. x.index < MaxIndex /\ x.range \in Ranges
    BY <2>1 DEF Sound, Consistent, SessionType
  <2> QED BY <2>2, PipelineAssumption DEF Keys, SessionType
<1> QED BY <1>1, <1>2 DEF Sound, About, LedgerGrows

-----------------------------------------------------------------------------
(* The session that moves is sound in its new state.                        *)

Moves(w) ==
  \E x \in SessionType : session' = [session EXCEPT ![w] = x] /\ Sound(x)'

\* A session between candidates, or idle, claims nothing.
LEMMA BetweenCandidates ==
  ASSUME NEW g \in Ranges, NEW i \in 0..MaxIndex,
         NEW x, x = Idle \/ x = InTurnAt(g, i)
  PROVE  x \in SessionType /\ Sound(x)'
<1>0. g # None /\ 0 \in 0..MaxIndex
  BY PipelineAssumption
<1>1. \/ x = [stage |-> "idle", range |-> None, index |-> 0,
              candidate |-> None, found |-> None, plan |-> None]
      \/ x = [stage |-> "turn", range |-> g, index |-> i,
              candidate |-> None, found |-> None, plan |-> None]
  BY DEF Idle, InTurnAt
<1>2. x \in SessionType /\ x.plan = None
  BY <1>0, <1>1 DEF SessionType, Stages
<1>3. x.plan \notin Decisions
  BY <1>2, PipelineAssumption
<1> QED BY <1>0, <1>1, <1>2, <1>3 DEF Sound, Consistent, Justified, Decisions

\* Only the stage of the session changes.
LEMMA StageMoves ==
  ASSUME PInv, MemoriesGrow, LedgerGrows, NEW w \in Sessions,
         NEW st \in Stages \ {"idle", "turn", "found"},
         NEW k, k = Key(w), NEW c, c = session[w].candidate,
         session[w].plan # None,
         session' = [session EXCEPT ![w] = [session[w] EXCEPT !.stage = st]],
         st \in {"registered", "attach", "extend", "applied"} =>
           About(k, c)',
         st \in {"attach", "extend"} => session[w].plan = "update",
         st = "applied" => <<k, c, session[w].plan>> \in applied'
  PROVE  Moves(w)
<1>a. PICK x : x = session[w]
  OBVIOUS
<1>b. PICK y : y = [x EXCEPT !.stage = st]
  OBVIOUS
<1>0. x \in SessionType /\ Sound(x)
  BY <1>a, AtWork
<1>1. x \in SessionType /\ Sound(x) /\ Sound(x)'
  BY <1>0, StaysSound
<1>2. /\ y \in SessionType /\ y.stage = st /\ y.range = x.range
      /\ y.index = x.index /\ y.candidate = x.candidate
      /\ y.found = x.found /\ y.plan = x.plan
  BY <1>1, <1>b DEF SessionType
<1>3. x.stage \notin {"idle", "turn", "found"} /\ x.candidate # None
  BY <1>1, <1>a DEF Sound, Consistent
<1>4. Consistent(y)
  BY <1>1, <1>2, <1>3 DEF Sound, Consistent
<1>5. Justified(y) /\ (y.found # None => Traced(y.found, y.candidate)')
  BY <1>1, <1>2 DEF Sound, Justified
<1>6. /\ k = <<y.range, y.index>> /\ c = y.candidate
  BY <1>a, <1>2 DEF Key
<1>7. Sound(y)'
  BY <1>a, <1>2, <1>4, <1>5, <1>6 DEF Sound
<1> QED BY <1>a, <1>b, <1>2, <1>7 DEF Moves

LEMMA LookupMoves ==
  ASSUME PInv, NEW w \in Sessions, NEW c \in Candidates, Lookup(w, c)
  PROVE  Moves(w)
<1>1. PICK found \in Current(c.subject) :
        session' = [session EXCEPT ![w] =
                      [session[w] EXCEPT !.stage = "found", !.candidate = c,
                                         !.found = found]]
  BY DEF Lookup
<1>2. found = None \/ (found \in Found /\ Traced(found, c))
  <2>1. CASE SubjectFree(c.subject)
    BY <2>1 DEF Current
  <2>2. CASE ~SubjectFree(c.subject)
    <3>1. PICK m \in Memories :
            /\ Active(m) /\ subject[m] = c.subject
            /\ found = [memory |-> m, version |-> activeVersion[m],
                        content |-> versions[m][activeVersion[m]].content,
                        verified |-> versions[m][activeVersion[m]].verified,
                        confidence |-> confidence[m]]
      BY <2>2 DEF Current
    <3>2. activeVersion[m] \in 1..Len(versions[m]) /\ Exists(m)
      BY <3>1, HasCurrentVersion DEF PInv, Active, Exists
    <3>3. /\ activeVersion[m] \in 1..MaxVersions
          /\ versions[m][activeVersion[m]] \in Versions
          /\ confidence[m] \in 0..MaxConfidence
      BY <3>2, WellFormed, StoreAssumption DEF PInv, IInv, TypeOK
    <3>4. found \in Found
      BY <3>1, <3>3 DEF Found, Versions
    <3> QED BY <3>1, <3>2, <3>4 DEF Traced
  <2> QED BY <2>1, <2>2
<1>a. PICK x : x = session[w]
  OBVIOUS
<1>b. PICK y : y = [x EXCEPT !.stage = "found", !.candidate = c,
                             !.found = found]
  OBVIOUS
<1>3. /\ x \in SessionType /\ Sound(x) /\ x.stage = "turn" /\ x.index < MaxIndex
  BY <1>a, AtWork DEF Lookup, Stage
<1>4. x.plan = None /\ x.range # None
  BY <1>3 DEF Sound, Consistent
<1>5. /\ y \in SessionType /\ y.stage = "found" /\ y.range = x.range
      /\ y.index = x.index /\ y.candidate = c
      /\ y.found = found /\ y.plan = None
  BY <1>b, <1>2, <1>3, <1>4 DEF SessionType, Stages
<1>6. None \notin Decisions /\ c # None
  BY PipelineAssumption
<1>7. Consistent(y) /\ Justified(y)
  BY <1>3, <1>4, <1>5, <1>6 DEF Consistent, Justified, Decisions
<1>8. y.found # None => Traced(y.found, y.candidate)'
  BY <1>2, <1>5 DEF Traced, Exists, Lookup, vars
<1>9. Sound(y)'
  BY <1>5, <1>7, <1>8 DEF Sound
<1> QED BY <1>a, <1>b, <1>1, <1>5, <1>9 DEF Moves

LEMMA PlanMoves ==
  ASSUME PInv, NEW w \in Sessions, Plan(w)
  PROVE  Moves(w)
<1>a. PICK x : x = session[w]
  OBVIOUS
<1>b. PICK S : S = KnownSources(x.found)
  OBVIOUS
<1>c. PICK d : d = Decide(x.candidate, x.found, S)
  OBVIOUS
<1>d. PICK y : y = [x EXCEPT !.stage = "planned", !.plan = d]
  OBVIOUS
<1>1. session' = [session EXCEPT ![w] = y]
  BY <1>a, <1>b, <1>c, <1>d DEF Plan
<1>2. /\ x \in SessionType /\ Sound(x) /\ x.stage = "found"
  BY <1>a, AtWork DEF Plan, Stage
<1>3. d \in Decisions
  BY <1>c DEF Decide, Decisions
<1>4. d \in {"update", "supersede"} => x.found # None
  BY <1>c DEF Decide
<1>5. d = "supersede" => MaySupersede(x.candidate, x.found, S)
  BY <1>c DEF Decide
<1>6. d = "update" => Declares(x.candidate) \/ x.found.content = x.candidate.content
  BY <1>c DEF Decide, Declares
<1>7. /\ y \in SessionType /\ y.stage = "planned" /\ y.range = x.range
      /\ y.index = x.index /\ y.candidate = x.candidate
      /\ y.found = x.found /\ y.plan = d
  BY <1>d, <1>2, <1>3 DEF SessionType, Stages
<1>8. x.candidate # None /\ x.range # None /\ x.index < MaxIndex /\ d # None
  BY <1>2, <1>3, PipelineAssumption DEF Sound, Consistent
<1>9. Consistent(y)
  BY <1>4, <1>7, <1>8 DEF Consistent
<1>10. Justified(y)
  BY <1>5, <1>6, <1>7 DEF Justified, MaySupersede
<1>11. y.found # None => Traced(y.found, y.candidate)'
  BY <1>2, <1>7 DEF Sound, Traced, Exists, Plan, vars
<1>12. Sound(y)'
  BY <1>7, <1>9, <1>10, <1>11 DEF Sound
<1> QED BY <1>1, <1>7, <1>12 DEF Moves

LEMMA NextCandidateMoves ==
  ASSUME PInv, NEW w \in Sessions, NextCandidate(w),
         session[w].candidate # None \/ session[w].index < MaxIndex,
         session[w].stage # "idle"
  PROVE  Moves(w)
<1>a. PICK g : g = session[w].range
  OBVIOUS
<1>b. PICK i : i = session[w].index + 1
  OBVIOUS
<1>c. PICK x : x = InTurnAt(g, i)
  OBVIOUS
<1>1. g \in Ranges /\ i \in 0..MaxIndex
  BY <1>a, <1>b, InTurn, PipelineAssumption
<1>2. session' = [session EXCEPT ![w] = x]
  BY <1>a, <1>b, <1>c DEF NextCandidate
<1> QED BY <1>c, <1>1, <1>2, BetweenCandidates DEF Moves

LEMMA LeaveTurnMoves ==
  ASSUME PInv, NEW w \in Sessions, LeaveTurn(w), session[w].stage # "idle"
  PROVE  Moves(w)
<1>1. session[w].range \in Ranges /\ 0 \in 0..MaxIndex
  BY InTurn, PipelineAssumption
<1>2. PICK g : g \in Ranges
  BY <1>1
<1> QED BY <1>1, <1>2, BetweenCandidates DEF LeaveTurn, Moves

LEMMA WroteMoves ==
  ASSUME PInv, MemoriesGrow, LedgerGrows, NEW w \in Sessions, Wrote(w),
         session[w].stage \in {"registered", "attach", "extend"}
  PROVE  Moves(w)
<1>a. PICK k, c : k = Key(w) /\ c = session[w].candidate
  OBVIOUS
<1>1. /\ session[w].plan # None
      /\ session[w].candidate # None
      /\ About(k, c)
  BY <1>a, AtWork DEF Sound, Consistent, Key
<1>2. k \in Keys
  BY <1>a, <1>1, InTurn DEF Stage
<1>3. About(k, c)'
  BY <1>1, <1>2 DEF About, LedgerGrows
<1> QED BY <1>a, <1>1, <1>3, StageMoves DEF Wrote, Stages

\* Whatever session moves, and at most one does.
LEMMA SomeSessionMoves ==
  ASSUME PInv, PipelineNext
  PROVE  UNCHANGED session \/ \E w \in Sessions : Moves(w)
<1>1. MemoriesGrow /\ LedgerGrows
  BY MemoriesDoGrow, LedgerDoesGrow
<1>2. ASSUME NEW w \in Sessions, NEW g \in Ranges, StartTurn(w, g)
      PROVE  Moves(w)
  <2>1. 0 \in 0..MaxIndex
    BY PipelineAssumption
  <2>2. PICK x : x = InTurnAt(g, 0)
    OBVIOUS
  <2> QED BY <1>2, <2>1, <2>2, BetweenCandidates DEF StartTurn, Moves
<1>3. ASSUME NEW w \in Sessions, EndTurn(w) \/ Crash(w)
      PROVE  Moves(w)
  BY <1>3, LeaveTurnMoves DEF EndTurn, Crash, Stage
<1>4. ASSUME NEW w \in Sessions, Discard(w)
      PROVE  Moves(w)
  BY <1>4, NextCandidateMoves DEF Discard, Stage
<1>5. ASSUME NEW w \in Sessions, Register(w) \/ RegisterRaises(w)
      PROVE  Moves(w)
  <2>a. PICK k, c : k = Key(w) /\ c = session[w].candidate
    OBVIOUS
  <2>1. session[w].plan # None /\ session[w].stage = "planned"
    BY <1>5, AtWork DEF Register, RegisterRaises, Stage, Sound, Consistent
  <2>2. CASE Register(w)
    <3>1. k \in Keys
      BY <2>a, <2>1, AtWork, InTurn DEF Sound, Consistent
    <3>2. /\ ledger' = [ledger EXCEPT ![k] =
                          IF ledger[k] = "absent" THEN "undecided" ELSE @]
          /\ contested' = IF payload'[k] = c
                          THEN contested ELSE contested \cup {k}
      BY <2>a, <2>2 DEF Register
    <3>3. ledger'[k] # "absent"
      BY <3>1, <3>2 DEF PInv, SessionsTyped
    <3>4. About(k, c)'
      BY <3>2, <3>3 DEF About
    <3> QED BY <1>1, <2>a, <2>1, <2>2, <3>4, StageMoves DEF Register, Stages
  <2>3. CASE RegisterRaises(w)
    BY <1>1, <2>a, <2>1, <2>3, StageMoves DEF RegisterRaises, Stages
  <2> QED BY <1>5, <2>2, <2>3
<1>6. ASSUME NEW w \in Sessions, Inspect(w)
      PROVE  Moves(w)
  <2>1. PICK st \in {"attach", "extend"} :
          session' = [session EXCEPT ![w] = [session[w] EXCEPT !.stage = st]]
    BY <1>6 DEF Inspect
  <2>a. PICK k, c : k = Key(w) /\ c = session[w].candidate
    OBVIOUS
  <2>2. /\ session[w].plan = "update" /\ session[w].plan # None
        /\ About(k, c) /\ UNCHANGED <<ledger, payload, contested>>
    BY <1>6, <2>a, AtWork, PipelineAssumption
    DEF Inspect, Stage, Sound, Consistent, Key
  <2>3. About(k, c)'
    BY <2>2 DEF About
  <2> QED BY <1>1, <2>a, <2>1, <2>2, <2>3, StageMoves DEF Stages
<1>7. ASSUME NEW w \in Sessions, Made(w)
      PROVE  Moves(w)
  BY <1>1, <1>7, WroteMoves
  DEF Made, ApplyAdd, ApplySupersede, ApplyAttach, ApplyExtend, Stage
<1>8. ASSUME NEW w \in Sessions, Record(w) \/ GiveUp(w)
      PROVE  Moves(w)
  <2>1. session[w].stage \notin {"idle", "turn"} /\ session[w].candidate # None
    BY <1>8, AtWork DEF Record, GiveUp, Done, Refused, Stage, Sound, Consistent
  <2> QED BY <1>8, <2>1, NextCandidateMoves DEF Record, GiveUp
<1>9. ASSUME (\E k \in Keys : OtherTenant(k)) \/ \E m \in Memories : Forget(m)
      PROVE  UNCHANGED session
  BY <1>9 DEF OtherTenant, Forget, pipeline
<1> QED
  BY <1>2, <1>3, <1>4, <1>5, <1>6, <1>7, <1>8, <1>9, LookupMoves, PlanMoves
  DEF PipelineNext, Turn, Apply, Made

LEMMA SessionsStaySound ==
  ASSUME PInv, [PipelineNext]_allVars
  PROVE  /\ session' \in [Sessions -> SessionType]
         /\ \A v \in Sessions : Sound(session[v])'
<1>1. MemoriesGrow /\ LedgerGrows /\ session \in [Sessions -> SessionType]
  BY MemoriesDoGrow, LedgerDoesGrow DEF PInv, SessionsTyped
<1>2. UNCHANGED session \/ \E w \in Sessions : Moves(w)
  BY SomeSessionMoves DEF allVars, pipeline
<1>3. session' \in [Sessions -> SessionType]
  BY <1>1, <1>2 DEF Moves
<1>4. ASSUME NEW v \in Sessions PROVE Sound(session[v])'
  <2>a. PICK y : y = session'[v]
    OBVIOUS
  <2>1. CASE session'[v] = session[v]
    <3>1. y \in SessionType /\ Sound(y)
      BY <2>a, <2>1, AtWork
    <3>2. Sound(y)'
      BY <1>1, <3>1, StaysSound
    <3> QED BY <2>a, <3>2
  <2>2. CASE session'[v] # session[v]
    <3>1. PICK w \in Sessions : Moves(w)
      BY <1>2, <2>2
    <3>2. PICK x \in SessionType :
            session' = [session EXCEPT ![w] = x] /\ Sound(x)'
      BY <3>1 DEF Moves
    <3>3. w = v /\ session'[v] = x
      BY <1>1, <2>2, <3>2
    <3> QED BY <3>2, <3>3
  <2> QED BY <2>1, <2>2
<1> QED BY <1>3, <1>4

-----------------------------------------------------------------------------
(* The audit.                                                               *)

TablesTyped ==
  /\ ledger \in [Keys -> Decisions \cup {"absent", "undecided"}]
  /\ foreign \subseteq Keys
  /\ payload \in [Keys -> Candidates \cup {None}]
  /\ applied \subseteq Keys \X Candidates \X Decisions
  /\ contested \subseteq Keys

Audited == TablesTyped /\ NoFalseAudit /\ WritesAreRegistered

\* Rows that are no longer undecided, and writes, are left alone.
LEMMA AuditStays ==
  ASSUME Audited, LedgerGrows, TablesTyped', applied' = applied,
         \A k \in Keys : ledger'[k] \in Writes => ledger'[k] = ledger[k]
  PROVE  Audited'
<1>1. NoFalseAudit'
  <2> SUFFICES ASSUME NEW k \in Keys, ledger'[k] \in Writes
               PROVE  \E c \in Candidates :
                        /\ <<k, c, ledger'[k]>> \in applied'
                        /\ k \in contested' \/ c = payload'[k]
    BY DEF NoFalseAudit
  <2>1. /\ ledger'[k] = ledger[k] /\ ledger[k] # "absent"
        /\ payload'[k] = payload[k] /\ contested \subseteq contested'
    BY DEF LedgerGrows, Writes
  <2> QED BY <2>1 DEF Audited, NoFalseAudit
<1>2. WritesAreRegistered'
  <2> SUFFICES ASSUME NEW a \in applied
               PROVE  /\ ledger'[a[1]] # "absent"
                      /\ a[1] \in contested' \/ payload'[a[1]] = a[2]
    BY DEF WritesAreRegistered
  <2>1. a[1] \in Keys
    BY DEF Audited, TablesTyped
  <2> QED BY <2>1 DEF Audited, WritesAreRegistered, LedgerGrows
<1> QED BY <1>1, <1>2 DEF Audited

LEMMA AuditStep ==
  ASSUME PInv, [PipelineNext]_allVars
  PROVE  Audited'
<1>0. Audited /\ TablesTyped /\ LedgerGrows
  BY LedgerDoesGrow DEF PInv, SessionsTyped, TablesTyped, Audited
<1>1. ASSUME NEW w \in Sessions, Discard(w) PROVE Audited'
  <2>1. /\ TablesTyped' /\ applied' = applied
        /\ \A k \in Keys : ledger'[k] \in Writes => ledger'[k] = ledger[k]
    BY <1>0, <1>1 DEF Discard, TablesTyped, Writes
  <2> QED BY <1>0, <2>1, AuditStays
<1>2. ASSUME NEW w \in Sessions, Register(w) PROVE Audited'
  <2>1. /\ session[w].candidate \in Candidates /\ Key(w) \in Keys
    BY <1>2, AtWork, InTurn DEF Register, Stage, Sound, Consistent
  <2>2. /\ TablesTyped' /\ applied' = applied
        /\ \A k \in Keys : ledger'[k] \in Writes => ledger'[k] = ledger[k]
    BY <1>0, <1>2, <2>1 DEF Register, TablesTyped, Writes
  <2> QED BY <1>0, <2>2, AuditStays
<1>3. ASSUME NEW w \in Sessions, Record(w) PROVE Audited'
  <2>a. PICK k, c, d : k = Key(w) /\ c = session[w].candidate
                       /\ d = session[w].plan
    OBVIOUS
  <2>1. /\ d \in Decisions /\ c \in Candidates /\ k \in Keys
        /\ d \in Writes => <<k, c, d>> \in applied
        /\ About(k, c)
    BY <1>3, <2>a, AtWork, InTurn
    DEF Record, Done, Stage, Sound, Consistent, SessionType, Writes, Key
  <2>2. /\ ledger' = [ledger EXCEPT ![k] = IF @ = "undecided" THEN d ELSE @]
        /\ UNCHANGED <<payload, foreign, applied, contested>>
    BY <1>3, <2>a DEF Record
  <2>3. TablesTyped'
    BY <1>0, <2>1, <2>2 DEF TablesTyped
  <2>4. NoFalseAudit'
    <3> SUFFICES ASSUME NEW j \in Keys, ledger'[j] \in Writes
                 PROVE  \E b \in Candidates :
                          /\ <<j, b, ledger'[j]>> \in applied
                          /\ j \in contested \/ b = payload[j]
      BY <2>2 DEF NoFalseAudit
    <3>1. CASE ledger'[j] = ledger[j]
      BY <1>0, <3>1 DEF Audited, NoFalseAudit
    <3>2. CASE j = k /\ ledger'[j] = d
      BY <2>1, <3>2 DEF About
    <3> QED BY <1>0, <2>1, <2>2, <3>1, <3>2 DEF TablesTyped
  <2>5. WritesAreRegistered'
    <3>1. \A j \in Keys : ledger[j] # "absent" => ledger'[j] # "absent"
      BY <1>0 DEF LedgerGrows
    <3> QED
      BY <1>0, <2>2, <3>1 DEF Audited, WritesAreRegistered, TablesTyped
  <2> QED BY <2>3, <2>4, <2>5 DEF Audited
<1>4. ASSUME NEW w \in Sessions, Made(w) PROVE Audited'
  <2>a. PICK k, c, d : k = Key(w) /\ c = session[w].candidate
                       /\ d = session[w].plan
    OBVIOUS
  <2>1. d \in Decisions /\ c \in Candidates /\ k \in Keys /\ About(k, c)
    <3>1. session[w].stage \in {"registered", "attach", "extend"}
      BY <1>4 DEF Made, ApplyAdd, ApplySupersede, ApplyAttach, ApplyExtend, Stage
    <3>2. session[w].candidate # None /\ session[w].plan # None
      BY <3>1, AtWork DEF Sound, Consistent
    <3> QED BY <2>a, <3>1, <3>2, AtWork, InTurn DEF Sound, SessionType, Key
  <2>2. /\ applied' = applied \cup {<<k, c, d>>}
        /\ UNCHANGED <<ledger, payload, foreign, contested>>
    BY <1>4, <2>a
    DEF Made, ApplyAdd, ApplySupersede, ApplyAttach, ApplyExtend, Wrote
  <2>3. TablesTyped' /\ NoFalseAudit'
    BY <1>0, <2>1, <2>2 DEF Audited, TablesTyped, NoFalseAudit
  <2>4. WritesAreRegistered'
    BY <1>0, <2>1, <2>2 DEF Audited, WritesAreRegistered, About
  <2> QED BY <2>3, <2>4 DEF Audited
<1>5. ASSUME UNCHANGED <<ledger, payload, applied, contested>>,
             foreign' \subseteq Keys
      PROVE  Audited'
  BY <1>0, <1>5 DEF Audited, TablesTyped, NoFalseAudit, WritesAreRegistered
<1>6. ASSUME NEW k \in Keys, OtherTenant(k) PROVE Audited'
  BY <1>0, <1>5, <1>6 DEF OtherTenant, TablesTyped
<1>7. \/ \E w \in Sessions : Discard(w) \/ Register(w) \/ Record(w) \/ Made(w)
      \/ \E k \in Keys : OtherTenant(k)
      \/ UNCHANGED <<ledger, payload, applied, foreign, contested>>
  BY DEF PipelineNext, Turn, Apply, Made, StartTurn, EndTurn, Lookup, Plan,
     RegisterRaises, Crash, Inspect, GiveUp, Forget, pipeline, allVars
<1>8. CASE UNCHANGED <<ledger, payload, applied, foreign, contested>>
  BY <1>0, <1>5, <1>8 DEF TablesTyped
<1> QED BY <1>1, <1>2, <1>3, <1>4, <1>6, <1>7, <1>8

-----------------------------------------------------------------------------
(* What replaces a preference.                                              *)

LEMMA RelationsStep ==
  ASSUME PInv, [PipelineNext]_allVars
  PROVE  \/ UNCHANGED relations
         \/ \E w \in Sessions, new \in Memories :
              /\ session[w].plan = "supersede"
              /\ ReplaceActive(session[w].found.memory, new,
                               Request(session[w].candidate))
BY DEF PipelineNext, Turn, Apply, StartTurn, EndTurn, Discard, Lookup, Plan,
   Register, RegisterRaises, Crash, Inspect, ApplyAdd, AddRecord, ApplyAttach,
   AttachSources, ApplyExtend, AddVersion, ApplySupersede, Record, GiveUp,
   OtherTenant, Forget, DeleteMemory, vars, allVars

LEMMA LinkedStep ==
  ASSUME PInv, [PipelineNext]_allVars
  PROVE  Linked' /\ PreferenceYieldsToUser'
<1>1. MemoriesGrow /\ Linked /\ PreferenceYieldsToUser
  BY MemoriesDoGrow DEF PInv
<1>2. ASSUME NEW m \in Memories, NEW n \in Memories,
             <<n, "supersedes", m>> \in relations
      PROVE  /\ Exists(m)' /\ Exists(n)'
             /\ subject'[m] \in Preferences =>
                  versions'[n][1].sources \cap Confirming[subject'[m]] # {}
  <2>1. Exists(m) /\ Exists(n)
    BY <1>1, <1>2 DEF Linked
  <2>2. 1 \in 1..Len(versions[n])
    BY <2>1, HasCurrentVersion, WellFormed DEF PInv
  <2>3. /\ Exists(m)' /\ Exists(n)' /\ subject'[m] = subject[m]
        /\ versions[n][1].sources \subseteq versions'[n][1].sources
    BY <1>1, <2>1, <2>2 DEF MemoriesGrow
  <2> QED BY <1>1, <1>2, <2>3 DEF PreferenceYieldsToUser
<1>3. ASSUME NEW w \in Sessions, NEW new \in Memories,
             session[w].plan = "supersede",
             ReplaceActive(session[w].found.memory, new,
                           Request(session[w].candidate)),
             NEW old, old = session[w].found.memory
      PROVE  /\ old \in Memories
             /\ relations' = relations \cup {<<new, "supersedes", old>>}
             /\ Exists(old)' /\ Exists(new)'
             /\ subject'[old] \in Preferences =>
                  versions'[new][1].sources \cap Confirming[subject'[old]] # {}
  <2>a. PICK c : c = session[w].candidate
    OBVIOUS
  <2>1. /\ old \in Memories /\ c \in Candidates /\ Exists(old)
        /\ subject[old] = c.subject
        /\ c.subject \in Preferences => Confirms(c)
    BY <1>3, <2>a, AtWork DEF Sound, Justified
  <2>2. /\ Request(c) \in Requests /\ Request(c).sources = c.sources
    BY <2>1, RequestType DEF PInv, IInv
  <2>3. subject'[old] = subject[old] /\ Exists(old)'
    BY <1>1, <2>1 DEF MemoriesGrow
  <2>4. /\ relations' = relations \cup {<<new, "supersedes", old>>}
        /\ status'[new] = "active" /\ versions'[new] = <<RowOf(Request(c))>>
    BY <1>3, <2>a, <2>1 DEF ReplaceActive, MayReplace, Active, PInv, IInv, TypeOK
  <2>5. versions'[new][1].sources = c.sources
    BY <2>2, <2>4, RowType
  <2>6. Exists(new)'
    BY <2>4 DEF Exists
  <2> QED BY <2>1, <2>3, <2>4, <2>5, <2>6 DEF Confirms
<1>4. CASE UNCHANGED relations
  BY <1>2, <1>4 DEF Linked, PreferenceYieldsToUser
<1>5. ASSUME NEW w \in Sessions, NEW new \in Memories,
             session[w].plan = "supersede",
             ReplaceActive(session[w].found.memory, new,
                           Request(session[w].candidate))
      PROVE  Linked' /\ PreferenceYieldsToUser'
  <2>a. PICK old : old = session[w].found.memory
    OBVIOUS
  <2>b. /\ relations' = relations \cup {<<new, "supersedes", old>>}
        /\ Exists(old)' /\ Exists(new)'
        /\ subject'[old] \in Preferences =>
             versions'[new][1].sources \cap Confirming[subject'[old]] # {}
    BY <1>3, <1>5, <2>a
  <2>1. ASSUME NEW m \in Memories, NEW n \in Memories,
               <<n, "supersedes", m>> \in relations'
        PROVE  /\ Exists(m)' /\ Exists(n)'
               /\ subject'[m] \in Preferences =>
                    versions'[n][1].sources \cap Confirming[subject'[m]] # {}
    <3>1. CASE <<n, "supersedes", m>> \in relations
      BY <1>2, <3>1
    <3>2. CASE n = new /\ m = old
      BY <2>b, <3>2
    <3> QED BY <2>b, <2>1, <3>1, <3>2
  <2> QED BY <2>1 DEF Linked, PreferenceYieldsToUser
<1> QED BY <1>4, <1>5, RelationsStep

-----------------------------------------------------------------------------
(* The invariant.                                                           *)

LEMMA InitPInv == PipelineInit => PInv
<1> SUFFICES ASSUME PipelineInit PROVE PInv
  OBVIOUS
<1>1. IInv
  BY InitInvariant DEF PipelineInit
<1>2. Idle \in SessionType /\ Consistent(Idle)
  <2>1. 0 \in 0..MaxIndex /\ "idle" \in Stages
    BY PipelineAssumption DEF Stages
  <2>2. Idle \in SessionType
    BY <2>1 DEF Idle, SessionType
  <2>3. /\ Idle.stage = "idle" /\ Idle.range = None /\ Idle.candidate = None
        /\ Idle.plan = None /\ Idle.found = None
    BY DEF Idle
  <2>4. None \notin Decisions /\ "update" \in Decisions /\ "supersede" \in Decisions
    BY PipelineAssumption DEF Decisions
  <2> QED BY <2>2, <2>3, <2>4 DEF Consistent
<1>3. SessionsTyped
  BY <1>2 DEF PipelineInit, SessionsTyped
<1>4. \A w \in Sessions : Sound(session[w])
  <2>1. /\ Idle.stage = "idle" /\ Idle.found = None /\ Idle.plan = None
        /\ None \notin Decisions
    BY PipelineAssumption DEF Idle
  <2>2. Sound(Idle)
    BY <1>2, <2>1 DEF Sound, Justified, Decisions
  <2> QED BY <2>2 DEF PipelineInit
<1>5. NoFalseAudit /\ WritesAreRegistered
  BY DEF PipelineInit, NoFalseAudit, WritesAreRegistered, Writes
<1>6. Linked /\ PreferenceYieldsToUser
  BY DEF PipelineInit, Init, Linked, PreferenceYieldsToUser
<1> QED BY <1>1, <1>3, <1>4, <1>5, <1>6 DEF PInv

LEMMA NextPInv == PInv /\ [PipelineNext]_allVars => PInv'
<1> SUFFICES ASSUME PInv, [PipelineNext]_allVars PROVE PInv'
  OBVIOUS
<1>1. IInv'
  BY StepOfStore, NextInvariant DEF PInv
<1>2. Audited'
  BY AuditStep
<1>3. SessionsTyped'
  BY <1>2, SessionsStaySound DEF Audited, TablesTyped, SessionsTyped
<1> QED
  BY <1>1, <1>2, <1>3, SessionsStaySound, LinkedStep DEF PInv, Audited

-----------------------------------------------------------------------------
(* What changes the value held about a subject.                             *)

\* Memory m says about s after the step what it says before, if anything.
SaysTheSame(m, s) ==
  /\ Active(m)' /\ subject'[m] = s <=> Active(m) /\ subject[m] = s
  /\ Active(m) /\ subject[m] = s =>
       versions'[m][activeVersion'[m]].content
         = versions[m][activeVersion[m]].content

LEMMA ContentsStay ==
  ASSUME NEW s, \A m \in Memories : SaysTheSame(m, s)
  PROVE  CurrentContents(s)' = CurrentContents(s)
<1>1. CurrentContents(s)' =
        {versions'[m][activeVersion'[m]].content :
           m \in {n \in Memories : status'[n] = "active" /\ subject'[n] = s}}
  BY DEF CurrentContents, Active
<1> QED BY <1>1 DEF CurrentContents, SaysTheSame, Active

LEMMA AddOverwritesNothing ==
  ASSUME PInv, NEW w \in Sessions, ApplyAdd(w), NEW s, CurrentContents(s) # {}
  PROVE  CurrentContents(s)' = CurrentContents(s)
<1>a. PICK t, r : t = session[w].candidate.subject
                  /\ r = Request(session[w].candidate)
  OBVIOUS
<1>1. PICK m \in Memories : AddRecord(m, t, r)
  BY <1>a DEF ApplyAdd
<1>2. t # s
  BY <1>1 DEF AddRecord, SubjectFree, CurrentContents
<1> QED BY <1>1, <1>2, ContentsStay
        DEF AddRecord, SaysTheSame, Active, PInv, IInv, TypeOK

LEMMA AttachOverwritesNothing ==
  ASSUME PInv, NEW w \in Sessions, ApplyAttach(w), NEW s
  PROVE  CurrentContents(s)' = CurrentContents(s)
<1>a. PICK old, r : old = session[w].found.memory
                    /\ r = Request(session[w].candidate)
  OBVIOUS
<1>1. AttachSources(old, r) /\ old \in Memories /\ r \in Requests
  <2>1. session[w].plan = "update"
    BY AtWork DEF ApplyAttach, Stage, Sound
  <2> QED BY <1>a, <2>1, AtWork, RequestType DEF ApplyAttach, PInv, IInv
<1>2. activeVersion[old] \in 1..Len(versions[old])
      /\ versions[old] \in Seq(Versions)
  BY <1>1, HasCurrentVersion, WellFormed DEF AttachSources, Active, Exists, PInv
<1>b. PICK g : g = WithEvidence(versions[old], activeVersion[old],
                                r.sources, r.verified)
  OBVIOUS
<1>3. Preserves(g, versions[old])
  BY <1>1, <1>2, <1>b, EvidencePreserves DEF Requests
<1>4. /\ versions' = [versions EXCEPT ![old] = g]
      /\ versions'[old] = g
      /\ UNCHANGED <<status, subject, activeVersion>>
  BY <1>1, <1>b DEF AttachSources, PInv, IInv, TypeOK
<1>5. ASSUME NEW m \in Memories PROVE SaysTheSame(m, s)
  <2>1. CASE m = old
    BY <1>2, <1>3, <1>4, <2>1 DEF SaysTheSame, Active, Preserves
  <2>2. CASE m # old
    BY <1>4, <2>2 DEF SaysTheSame, Active, PInv, IInv, TypeOK
  <2> QED BY <2>1, <2>2
<1> QED BY <1>5, ContentsStay

\* Its own subject apart, an extension or a replacement overwrites nothing.
LEMMA OthersKeepTheirs ==
  ASSUME PInv, NEW w \in Sessions, ApplyExtend(w) \/ ApplySupersede(w),
         NEW s, s # session[w].candidate.subject
  PROVE  CurrentContents(s)' = CurrentContents(s)
<1>a. PICK old, r : old = session[w].found.memory
                    /\ r = Request(session[w].candidate)
  OBVIOUS
<1>1. old \in Memories /\ subject[old] # s
  <2>1. session[w].plan \in {"update", "supersede"}
    BY AtWork DEF ApplyExtend, ApplySupersede, Stage, Sound
  <2> QED BY <1>a, <2>1, AtWork
<1>2. CASE ApplyExtend(w)
  BY <1>a, <1>1, <1>2, ContentsStay
  DEF ApplyExtend, AddVersion, SaysTheSame, Active, PInv, IInv, TypeOK
<1>3. CASE ApplySupersede(w)
  <2>1. PICK new \in Memories : ReplaceActive(old, new, r)
    BY <1>a, <1>3 DEF ApplySupersede
  <2> QED
    BY <1>1, <2>1, ContentsStay
    DEF ReplaceActive, MayReplace, SaysTheSame, Active, PInv, IInv, TypeOK
<1> QED BY <1>2, <1>3

\* What the rules allowed when the candidate was planned still holds when it
\* is applied: a version that had the candidate's content has it for good.
LEMMA OverwriteIsDeclared ==
  ASSUME PInv, NEW w \in Sessions, ApplyExtend(w) \/ ApplySupersede(w)
  PROVE  /\ session'[w].stage = "applied" /\ session[w].stage # "applied"
         /\ Declares(session[w].candidate)
<1>1. session'[w].stage = "applied" /\ session[w].stage # "applied"
  BY AtWork DEF ApplyExtend, ApplySupersede, Wrote, Stage, SessionType, PInv,
     SessionsTyped
<1>2. CASE ApplySupersede(w)
  BY <1>1, <1>2, AtWork DEF ApplySupersede, Sound, Justified, Declares
<1>3. CASE ApplyExtend(w)
  <2>1. session[w].plan = "update" /\ session[w].found # None
    BY <1>3, AtWork DEF ApplyExtend, Stage, Sound, Consistent
  <2>2. Traced(session[w].found, session[w].candidate)
    BY <2>1, AtWork DEF Sound
  <2>3. session[w].candidate \in Candidates
    BY <2>1, AtWork
  <2>4. session[w].found.content # session[w].candidate.content
    <3>1. MayExtend(session[w].found.memory, Request(session[w].candidate))
      BY <1>3 DEF ApplyExtend, AddVersion
    <3>2. Request(session[w].candidate).content = session[w].candidate.content
      BY DEF Request
    <3> QED BY <2>2, <3>1, <3>2 DEF Traced, MayExtend
  <2> QED BY <1>1, <2>1, <2>4, AtWork DEF Sound, Justified
<1> QED BY <1>1, <1>2, <1>3

LEMMA ForgettingSilences ==
  ASSUME PInv, NEW m \in Memories, Forget(m), NEW s,
         CurrentContents(s)' # {}
  PROVE  CurrentContents(s)' = CurrentContents(s)
<1>1. PICK n \in Memories : status'[n] = "active" /\ subject'[n] = s
  BY DEF CurrentContents, Active
<1>2. /\ status[n] = "active" /\ subject[n] = s /\ n # m
      /\ status[m] = "active" => subject[m] # s
  BY <1>1 DEF Forget, DeleteMemory, PInv, IInv, TypeOK, OneActive, Active
<1> QED
  BY <1>2, ContentsStay
  DEF Forget, DeleteMemory, SaysTheSame, Active, PInv, IInv, TypeOK

LEMMA StepDeclared ==
  ASSUME PInv, [PipelineNext]_allVars, NEW s \in Subjects,
         CurrentContents(s) # {}, CurrentContents(s)' # {},
         CurrentContents(s)' # CurrentContents(s)
  PROVE  \E w \in Sessions :
           /\ session'[w].stage = "applied" /\ session[w].stage # "applied"
           /\ session[w].candidate.subject = s
           /\ Declares(session[w].candidate)
<1>1. ~UNCHANGED vars
  <2> SUFFICES ASSUME UNCHANGED vars PROVE FALSE
    OBVIOUS
  <2> QED BY ContentsStay DEF vars, SaysTheSame, Active
<1>2. \/ \E w \in Sessions : Made(w)
      \/ \E m \in Memories : Forget(m)
  BY <1>1
  DEF PipelineNext, Turn, Apply, Made, StartTurn, EndTurn, Discard, Lookup,
      Plan, Register, RegisterRaises, Crash, Inspect, Record, GiveUp,
      OtherTenant, allVars
<1>3. PICK w \in Sessions : ApplyExtend(w) \/ ApplySupersede(w)
  BY <1>2, AddOverwritesNothing, AttachOverwritesNothing, ForgettingSilences
  DEF Made
<1>4. session[w].candidate.subject = s
  BY <1>3, OthersKeepTheirs
<1> QED BY <1>3, <1>4, OverwriteIsDeclared

-----------------------------------------------------------------------------
(* Theorems.                                                                *)

\* The pipeline's inductive invariant, the store's included.
THEOREM PipelineInvariant == PipelineSpec => []PInv
BY InitPInv, NextPInv, PTL DEF PipelineSpec

\* Store, sessions and tables keep their types, and a session has a candidate
\* and a plan exactly where the code does.
THEOREM PipelineTypeCorrect == PipelineSpec => []PipelineTypeOK
<1>1. PInv => PipelineTypeOK
  BY DEF PInv, IInv, SessionsTyped, Sound, PipelineTypeOK
<1> QED BY <1>1, PipelineInvariant, PTL

\* Whatever sessions, crashes and other tenants do, the store only ever takes
\* steps of its own specification: every theorem about Spec holds here.
THEOREM PipelineImplementsStore == PipelineSpec => Spec
<1>1. PipelineInit => Init
  BY DEF PipelineInit
<1>2. PInv /\ [PipelineNext]_allVars => [Next]_vars
  BY StepOfStore
<1> QED BY <1>1, <1>2, PipelineInvariant, PTL DEF PipelineSpec, Spec

\* However many sessions plan on what others change, a subject has one fact at
\* a time, replaced or retired in one step and never restored.
THEOREM PipelineKeepsFacts == PipelineSpec => ImplementsSubjectFacts
BY PipelineImplementsStore, StoreImplementsFacts

\* The audit trail never claims a write that was not made, nor, for a row only
\* one candidate came to, that another's was made.
THEOREM AuditIsTrue == PipelineSpec => []NoFalseAudit
<1>1. PInv => NoFalseAudit
  BY DEF PInv
<1> QED BY <1>1, PipelineInvariant, PTL

\* No write lacks its audit row, about what was written unless sessions with
\* different candidates met at it.
THEOREM WritesAudited == PipelineSpec => []WritesAreRegistered
<1>1. PInv => WritesAreRegistered
  BY DEF PInv
<1> QED BY <1>1, PipelineInvariant, PTL

\* A recorded decision is never changed.
THEOREM DecisionsStay == PipelineSpec => DecisionsAreFinal
<1>1. PInv /\ [PipelineNext]_allVars =>
        [\A k \in Keys : ledger[k] \in Decisions => ledger'[k] = ledger[k]]_allVars
  <2> SUFFICES ASSUME PInv, PipelineNext, NEW k \in Keys,
                      ledger[k] \in Decisions
               PROVE  ledger'[k] = ledger[k]
    BY DEF allVars
  <2>1. /\ ledger \in [Keys -> Decisions \cup {"absent", "undecided"}]
        /\ ledger[k] \notin {"absent", "undecided"}
    BY DEF PInv, SessionsTyped, Decisions
  <2> QED
    BY <2>1
    DEF PipelineNext, Turn, Apply, StartTurn, EndTurn, Discard, Lookup, Plan,
        Register, RegisterRaises, Crash, Inspect, ApplyAdd, ApplyAttach,
        ApplyExtend, ApplySupersede, Wrote, Record, GiveUp, OtherTenant,
        Forget, pipeline
<1> QED BY <1>1, PipelineInvariant, PTL DEF PipelineSpec, DecisionsAreFinal

\* A preference is superseded on the user's word only.
THEOREM PreferencesYield == PipelineSpec => []PreferenceYieldsToUser
<1>1. PInv => PreferenceYieldsToUser
  BY DEF PInv
<1> QED BY <1>1, PipelineInvariant, PTL

\* The value held about a subject is never overwritten in silence.
THEOREM NothingSilent == PipelineSpec => NoSilentOverwrite
<1>1. PInv /\ [PipelineNext]_allVars =>
        [\A s \in Subjects :
           CurrentContents(s) # {} /\ CurrentContents(s)' # {}
             /\ CurrentContents(s)' # CurrentContents(s) =>
               \E w \in Sessions :
                 /\ session'[w].stage = "applied" /\ session[w].stage # "applied"
                 /\ session[w].candidate.subject = s
                 /\ Declares(session[w].candidate)]_allVars
  BY StepDeclared
<1> QED BY <1>1, PipelineInvariant, PTL DEF PipelineSpec, NoSilentOverwrite
=============================================================================
