------------------------ MODULE MemoryProposalsProofs ------------------------
(***************************************************************************)
(* Theorems about MemoryProposals for every value of its constants.        *)
(***************************************************************************)
EXTENDS MemoryProposals, MemoryStoreProofs, FiniteSetTheorems

-----------------------------------------------------------------------------
(* The inductive invariant.                                                 *)

RowsTyped ==
  /\ edits \in 0..MaxEdits
  /\ proposal \in [Slots -> ProposalType]
  /\ scan \subseteq Suggestion
  /\ review \in [Reviewers -> ReviewType]
  /\ carried \in [Slots -> SUBSET Decisions]
  /\ written \in [Slots -> SUBSET VersionIds]
  /\ touched \subseteq Slots

\* A merge says what the merged content is.
Complete(x) == x.kind = "merge" => x.content # None

\* A proposal has once been approved.
Granted(st) == st \in {"approved", "applied", "expired"}

Planned == {"planned", "attach", "extend"}
Working == {"lookup"} \cup Planned

\* The row c of a proposal whose plans C were carried out.
RowSound(c, C) ==
  /\ c.status = "none" <=> c.suggestion = None
  /\ c.suggestion # None => Complete(c.suggestion)
  /\ C # {} => Granted(c.status)
  /\ c.status = "applied" /\ c.suggestion.kind = "merge" => C # {}

\* An operator in state x, given the proposals P and the plans C carried out
\* for them.
Steady(x, P, C) ==
  /\ x.on = None <=> x.at = "idle"
  /\ x.candidate # None <=> x.at \in Working
  /\ x.plan # None <=> x.at \in Planned
  /\ x.plan = "update" => x.found # None
  /\ x.at \in {"attach", "extend"} => x.plan = "update"
  /\ x.on # None => P[x.on].suggestion # None
  /\ x.at \in Working \cup {"build"} => P[x.on].suggestion.kind = "merge"
  /\ x.at \in Working \cup {"build", "verify"} => Granted(P[x.on].status)
  /\ x.at \in {"ask", "set"} /\ x.to = "applied"
       /\ P[x.on].suggestion.kind = "merge" => C[x.on] # {}

RInv ==
  /\ IInv
  /\ RowsTyped
  /\ \A x \in scan : Complete(x)
  /\ \A p \in Slots : RowSound(proposal[p], carried[p])
  /\ \A r \in Reviewers : Steady(review[r], proposal, carried)

-----------------------------------------------------------------------------
(* The store underneath.                                                    *)

LEMMA FoundType ==
  ASSUME IInv, NEW s \in Subjects, NEW f \in Current(s)
  PROVE  f \in Found \cup {None}
<1>1. CASE SubjectFree(s)
  BY <1>1 DEF Current
<1>2. CASE ~SubjectFree(s)
  <2>1. PICK m \in Memories :
          /\ Active(m) /\ subject[m] = s
          /\ f = [memory |-> m, version |-> activeVersion[m],
                  content |-> versions[m][activeVersion[m]].content,
                  verified |-> versions[m][activeVersion[m]].verified,
                  confidence |-> confidence[m]]
    BY <1>2 DEF Current
  <2>2. activeVersion[m] \in 1..Len(versions[m])
    BY <2>1, HasCurrentVersion DEF Active, Exists
  <2>3. versions[m] \in Seq(Versions) /\ Len(versions[m]) \in 0..MaxVersions
    BY WellFormed
  <2>4. versions[m][activeVersion[m]] \in Versions
    BY <2>2, <2>3
  <2>5. activeVersion[m] \in 1..MaxVersions
    BY <2>2, <2>3, StoreAssumption
  <2>6. confidence[m] \in 0..MaxConfidence
    BY DEF IInv, TypeOK
  <2> QED BY <2>1, <2>4, <2>5, <2>6 DEF Found, Versions
<1> QED BY <1>1, <1>2

LEMMA LatestType ==
  ASSUME IInv, NEW m \in Memories, Exists(m)
  PROVE  /\ Latest(m) \in Versions
         /\ activeVersion[m] \in 1..MaxVersions
         /\ subject[m] \in Subjects
         /\ confidence[m] \in 0..MaxConfidence
<1>1. activeVersion[m] \in 1..Len(versions[m])
  BY HasCurrentVersion
<1>2. versions[m] \in Seq(Versions) /\ Len(versions[m]) \in 0..MaxVersions
  BY WellFormed
<1>3. confidence[m] \in 0..MaxConfidence /\ subject[m] \in Subjects
  BY DEF IInv, TypeOK, Described
<1> QED BY <1>1, <1>2, <1>3, StoreAssumption DEF Latest

LEMMA FingerprintType ==
  ASSUME IInv, NEW m \in Memories
  PROVE  Fingerprint(m) \in Fingerprints
<1>1. CASE Exists(m)
  <2>1. status[m] \in Statuses /\ activeVersion[m] \in 0..MaxVersions
    BY DEF IInv, TypeOK
  <2>2. Latest(m).content \in Contents
    BY <1>1, LatestType DEF Versions
  <2> QED BY <1>1, <2>1, <2>2 DEF Fingerprint, Fingerprints, Latest
<1>2. CASE ~Exists(m)
  BY <1>2, StoreAssumption DEF Fingerprint, Missing, Fingerprints, Statuses
<1> QED BY <1>1, <1>2

LEMMA RequestType ==
  ASSUME IInv, NEW c \in CandidateType
  PROVE  Request(c) \in Requests
BY DEF IInv, TypeOK, CandidateType, Request, Requests

LEMMA StatedType ==
  ASSUME IInv, NEW i \in Incoming
  PROVE  i[1] \in Subjects /\ Stated(i[2]) \in Requests
<1>1. i \in Subjects \X [content : Contents, sources : SUBSET Sources,
                          verified : BOOLEAN, confidence : 0..MaxConfidence]
  BY ProposalAssumption
<1> QED BY <1>1 DEF IInv, TypeOK, Stated, Requests

\* An operator who has a plan has a candidate, and a memory to update.
LEMMA AtWork ==
  ASSUME RInv, NEW r \in Reviewers
  PROVE  /\ review[r] \in ReviewType
         /\ Steady(review[r], proposal, carried)
         /\ At(r) # "idle" => On(r) \in Slots /\ Pair(On(r)) \in Pairs
         /\ At(r) \in Working => review[r].candidate \in CandidateType
         /\ At(r) \in {"attach", "extend"} => review[r].found \in Found
<1>1. review[r] \in ReviewType
  BY DEF RInv, RowsTyped
<1>2. Steady(review[r], proposal, carried)
  BY DEF RInv
<1>3. ASSUME At(r) # "idle" PROVE On(r) \in Slots /\ Pair(On(r)) \in Pairs
  <2>1. On(r) \in Slots
    BY <1>1, <1>2, <1>3 DEF Steady, ReviewType, At, On
  <2>2. proposal[On(r)] \in ProposalType /\ proposal[On(r)].suggestion # None
    BY <1>2, <2>1, NoneAssumption DEF Steady, On, RInv, RowsTyped
  <2>3. proposal[On(r)].suggestion \in Suggestion
    BY <2>2 DEF ProposalType
  <2> QED BY <2>1, <2>3 DEF Suggestion, Pair
<1>4. At(r) \in Working => review[r].candidate \in CandidateType
  BY <1>1, <1>2 DEF Steady, At, ReviewType
<1>5. At(r) \in {"attach", "extend"} => review[r].found \in Found
  BY <1>1, <1>2 DEF Steady, At, ReviewType
<1> QED BY <1>1, <1>2, <1>3, <1>4, <1>5

LEMMA ReviewIsStep ==
  ASSUME RInv, NEW r \in Reviewers, Review(r)
  PROVE  Write \/ UNCHANGED vars
<1>1. CASE ApplyAdd(r)
  <2>1. review[r].candidate \in CandidateType
    BY <1>1, AtWork DEF ApplyAdd, Working, Planned
  <2>2. /\ review[r].candidate.subject \in Subjects
        /\ Request(review[r].candidate) \in Requests
    BY <2>1, RequestType DEF RInv, CandidateType
  <2> QED BY <1>1, <2>2 DEF ApplyAdd, Write
<1>2. CASE ApplyAttach(r) \/ ApplyExtend(r)
  <2>1. review[r].candidate \in CandidateType /\ review[r].found \in Found
    BY <1>2, AtWork DEF ApplyAttach, ApplyExtend, Working, Planned
  <2>2. /\ review[r].found.memory \in Memories
        /\ Request(review[r].candidate) \in Requests
    BY <2>1, RequestType DEF RInv, Found
  <2> QED BY <1>2, <2>2 DEF ApplyAttach, ApplyExtend, Write
<1>3. UNCHANGED vars \/ ApplyAdd(r) \/ ApplyAttach(r) \/ ApplyExtend(r)
  BY DEF Review, Command, Ask, Set, Load, Verify, Build, MakePlan,
     ApplyNothing, Inspect, Stop
<1> QED BY <1>1, <1>2, <1>3

LEMMA OthersAreSteps ==
  ASSUME RInv, Others
  PROVE  Next
<1>1. ASSUME NEW m \in Memories, NEW i \in Incoming,
             \/ AddRecord(m, i[1], Stated(i[2]))
             \/ AddVersion(m, Stated(i[2]))
             \/ AttachSources(m, Stated(i[2]))
      PROVE  Write
  BY <1>1, StatedType DEF RInv, Write
<1>2. ASSUME NEW m \in Memories, NEW n \in Memories, NEW i \in Incoming,
             ReplaceActive(m, n, Stated(i[2]))
      PROVE  Write
  BY <1>2, StatedType DEF RInv, Write
<1>3. ASSUME NEW m \in Memories, DeleteMemory(m) \/ PurgeDeleted({m})
      PROVE  Lifecycle
  BY <1>3, {m} \in SUBSET Memories DEF Lifecycle
<1>4. ASSUME NEW m \in Memories, NEW t \in 1..(MaxTime + 1), MarkExpired(m, t)
      PROVE  Lifecycle
  BY <1>4 DEF Lifecycle
<1> QED BY <1>1, <1>2, <1>3, <1>4 DEF Others, Edit, Next

LEMMA StepOfStore ==
  ASSUME RInv, [ProposalsNext]_allVars
  PROVE  [Next]_vars
<1>1. CASE \E r \in Reviewers : Review(r)
  BY <1>1, ReviewIsStep DEF Next
<1>2. CASE Others
  BY <1>2, OthersAreSteps
<1>3. CASE Scan \/ (\E x \in scan : Propose(x)) \/ ScanEnds \/ UNCHANGED allVars
  BY <1>3 DEF Scan, Propose, ScanEnds, allVars
<1> QED BY <1>1, <1>2, <1>3 DEF ProposalsNext

-----------------------------------------------------------------------------
(* Proposals, and what operators know of them.                              *)

\* A proposal once made keeps what it suggests, and once approved it is not
\* pending again; what was carried out and who was disturbed is not forgotten.
ProposalsMove ==
  /\ \A p \in Slots : proposal[p].suggestion # None =>
       /\ proposal'[p].suggestion = proposal[p].suggestion
       /\ proposal'[p].seen = proposal[p].seen
       /\ Granted(proposal[p].status) => Granted(proposal'[p].status)
  /\ \A p \in Slots : carried[p] \subseteq carried'[p]
  /\ touched \subseteq touched'

LEMMA StaysSteady ==
  ASSUME RInv, ProposalsMove, NEW r \in Reviewers
  PROVE  Steady(review[r], proposal', carried')
<1>1. /\ review[r] \in ReviewType
      /\ Steady(review[r], proposal, carried)
  BY AtWork
<1>2. CASE review[r].on = None
  BY <1>1, <1>2 DEF Steady, Working, Planned
<1>3. CASE review[r].on # None
  <2>1. review[r].on \in Slots
    BY <1>1, <1>3 DEF ReviewType
  <2>2. proposal[review[r].on].suggestion # None
    BY <1>1, <1>3 DEF Steady
  <2> QED BY <1>1, <1>3, <2>1, <2>2 DEF Steady, ProposalsMove
<1> QED BY <1>2, <1>3

\* Operator r goes to x, and the others wait.
LEMMA OneMoves ==
  ASSUME RInv, ProposalsMove, NEW r \in Reviewers, NEW x, Goes(r, x),
         x \in ReviewType, Steady(x, proposal', carried')
  PROVE  /\ review' \in [Reviewers -> ReviewType]
         /\ \A q \in Reviewers : Steady(review'[q], proposal', carried')
<1>1. review \in [Reviewers -> ReviewType]
  BY DEF RInv, RowsTyped
<1>2. review' \in [Reviewers -> ReviewType]
  BY <1>1 DEF Goes
<1>3. ASSUME NEW q \in Reviewers
      PROVE  Steady(review'[q], proposal', carried')
  <2>1. CASE q = r
    <3>1. review'[q] = x
      BY <1>1, <2>1 DEF Goes
    <3> QED BY <3>1
  <2>2. CASE q # r
    <3>1. review'[q] = review[q]
      BY <1>1, <2>2 DEF Goes
    <3> QED BY <3>1, StaysSteady
  <2> QED BY <2>1, <2>2
<1> QED BY <1>2, <1>3

LEMMA IdleIsSteady ==
  ASSUME NEW P, NEW C
  PROVE  NoReview \in ReviewType /\ Steady(NoReview, P, C)
<1>1. NoReview \in ReviewType
  BY DEF NoReview, ReviewType, Points, States, VersionIds
<1>2. /\ NoReview.on = None /\ NoReview.at = "idle" /\ NoReview.candidate = None
      /\ NoReview.plan = None
  BY DEF NoReview
<1>3. None # "update"
  BY NoneAssumption DEF Decisions
<1> QED BY <1>1, <1>2, <1>3 DEF Steady, Working, Planned

\* The part of the invariant that a step of an operator may disturb.
OperatorsSound ==
  /\ proposal \in [Slots -> ProposalType]
  /\ carried \in [Slots -> SUBSET Decisions]
  /\ review \in [Reviewers -> ReviewType]
  /\ \A p \in Slots : RowSound(proposal[p], carried[p])
  /\ \A r \in Reviewers : Steady(review[r], proposal, carried)

\* Steps that read only.
LEMMA ReadingMoves ==
  ASSUME RInv, NEW r \in Reviewers, NEW x, Goes(r, x), x \in ReviewType,
         Steady(x, proposal, carried),
         UNCHANGED <<proposal, carried>>, touched' = touched
  PROVE  OperatorsSound' /\ ProposalsMove
<1>1. ProposalsMove
  BY DEF ProposalsMove
<1>2. Steady(x, proposal', carried')
  OBVIOUS
<1>3. /\ review' \in [Reviewers -> ReviewType]
      /\ \A q \in Reviewers : Steady(review'[q], proposal', carried')
  BY <1>1, <1>2, OneMoves
<1> QED BY <1>1, <1>3 DEF OperatorsSound, RInv, RowsTyped

LEMMA CommandMoves ==
  ASSUME RInv, NEW r \in Reviewers, NEW p \in Slots, Command(r, p)
  PROVE  OperatorsSound' /\ ProposalsMove
<1>0. UNCHANGED <<proposal, carried>> /\ touched' = touched
  BY DEF Command
<1>1. proposal[p].suggestion # None
  <2>1. proposal[p].status # "none"
    BY DEF Command
  <2> QED BY <2>1 DEF RInv, RowSound
<1>2. ASSUME NEW x, x \in ReviewType, x.at \in {"ask", "apply"}, x.on = p,
             x.to \in {"approved", "rejected", "none"}, x.candidate = None,
             x.plan = None, Goes(r, x)
      PROVE  OperatorsSound' /\ ProposalsMove
  <2>1. None # p /\ None # "update"
    BY NoneAssumption DEF Decisions
  <2>2. Steady(x, proposal, carried)
    BY <1>1, <1>2, <2>1 DEF Steady, Working, Planned
  <2> QED BY <1>0, <1>2, <2>2, ReadingMoves
<1> DEFINE late == p \in touched
           x == [NoReview EXCEPT !.on = p, !.late = late]
<1>3. /\ x \in ReviewType
      /\ x.on = p /\ x.to = "none" /\ x.candidate = None /\ x.plan = None
  <2>1. late \in BOOLEAN
    OBVIOUS
  <2> HIDE DEF late
  <2> QED BY <2>1 DEF NoReview, ReviewType, Points, States, VersionIds
<1> HIDE DEF x
<1>4. ASSUME NEW to \in {"approved", "rejected"},
             Goes(r, [x EXCEPT !.at = "ask", !.to = to])
      PROVE  OperatorsSound' /\ ProposalsMove
  <2> DEFINE z == [x EXCEPT !.at = "ask", !.to = to]
  <2>1. /\ z \in ReviewType /\ z.at = "ask" /\ z.to = to
        /\ z.on = p /\ z.candidate = None /\ z.plan = None
    BY <1>3 DEF ReviewType, Points, States
  <2>2. Goes(r, z)
    BY <1>4
  <2> HIDE DEF z
  <2> QED BY <1>2, <2>1, <2>2
<1>5. ASSUME Goes(r, [x EXCEPT !.at = "apply"])
      PROVE  OperatorsSound' /\ ProposalsMove
  <2> DEFINE z == [x EXCEPT !.at = "apply"]
  <2>1. /\ z \in ReviewType /\ z.at = "apply" /\ z.to = "none"
        /\ z.on = p /\ z.candidate = None /\ z.plan = None
    BY <1>3 DEF ReviewType, Points
  <2>2. Goes(r, z)
    BY <1>5
  <2> HIDE DEF z
  <2> QED BY <1>2, <2>1, <2>2
<1> QED BY <1>4, <1>5 DEF Command, x

LEMMA LeavesMoves ==
  ASSUME RInv, NEW r \in Reviewers, Leaves(r),
         UNCHANGED <<proposal, carried>>, touched' = touched
  PROVE  OperatorsSound' /\ ProposalsMove
BY IdleIsSteady, ReadingMoves DEF Leaves

LEMMA ChecksMove ==
  ASSUME RInv, NEW r \in Reviewers, Ask(r) \/ Load(r) \/ Verify(r)
  PROVE  OperatorsSound' /\ ProposalsMove
<1> DEFINE y == review[r]
<1>0. /\ UNCHANGED <<proposal, carried>> /\ touched' = touched
      /\ y.at \in {"ask", "apply", "verify"}
  BY DEF Ask, Load, Verify, At
<1>1. y \in ReviewType /\ Steady(y, proposal, carried)
  BY AtWork
<1>2. y.on \in Slots /\ proposal[y.on].suggestion # None
  BY <1>0, <1>1 DEF Steady, ReviewType
<1>3. ASSUME NEW x, Goes(r, x), x \in ReviewType,
             Steady(x, proposal, carried)
      PROVE  OperatorsSound' /\ ProposalsMove
  BY <1>0, <1>3, ReadingMoves
<1>4. CASE Leaves(r)
  BY <1>0, <1>4, LeavesMoves
<1>5. CASE y.at = "ask" /\ Goes(r, [y EXCEPT !.at = "set"])
  <2>1. /\ [y EXCEPT !.at = "set"] \in ReviewType
        /\ Steady([y EXCEPT !.at = "set"], proposal, carried)
    BY <1>1, <1>2, <1>5 DEF ReviewType, Points, Steady, Working, Planned
  <2> QED BY <1>3, <1>5, <2>1
<1>6. CASE y.at = "apply" /\ proposal[y.on].status = "approved"
             /\ Goes(r, [y EXCEPT !.at = "verify"])
  <2>1. /\ [y EXCEPT !.at = "verify"] \in ReviewType
        /\ Steady([y EXCEPT !.at = "verify"], proposal, carried)
    BY <1>1, <1>2, <1>6 DEF ReviewType, Points, Steady, Working, Planned, Granted
  <2> QED BY <1>3, <1>6, <2>1
<1>7. CASE Verify(r)
  <2> DEFINE s == proposal[y.on].suggestion
             goes(at, to) == Goes(r, [y EXCEPT !.at = at, !.to = to])
  <2>1. y.at = "verify" /\ Granted(proposal[y.on].status)
    BY <1>1, <1>7 DEF Verify, At, Steady
  <2>2. s \in Suggestion
    BY <1>2 DEF RInv, RowsTyped, ProposalType
  <2>3. \/ goes("ask", "expired")
        \/ goes("ask", "applied") /\ s.kind = "noop"
        \/ goes("build", y.to) /\ s.kind = "merge"
    <3>1. s.kind \in {"noop", "merge"}
      BY <2>2 DEF Suggestion, Kinds
    <3>2. [y EXCEPT !.at = "build"] = [y EXCEPT !.at = "build", !.to = y.to]
      BY <1>1 DEF ReviewType
    <3> QED BY <1>7, <3>1, <3>2 DEF Verify, On
  <2>4. ASSUME NEW at \in {"ask", "build"}, NEW to \in States,
               at = "ask" /\ to = "applied" => s.kind = "noop",
               at = "build" => s.kind = "merge",
               goes(at, to)
        PROVE  OperatorsSound' /\ ProposalsMove
    <3> DEFINE x == [y EXCEPT !.at = at, !.to = to]
    <3>1. /\ x.at = at /\ x.to = to /\ x.on = y.on /\ x.candidate = y.candidate
          /\ x.plan = y.plan /\ x.found = y.found
      BY <1>1 DEF ReviewType
    <3>2. x \in ReviewType
      BY <1>1 DEF ReviewType, Points
    <3>3. Steady(x, proposal, carried)
      <4> HIDE DEF x
      <4> QED BY <1>1, <1>2, <2>1, <2>4, <3>1 DEF Steady, Working, Planned
    <3> HIDE DEF x
    <3> QED BY <1>3, <2>4, <3>2, <3>3 DEF x
  <2>5. "expired" \in States /\ "applied" \in States /\ y.to \in States
    BY <1>1 DEF ReviewType, States
  <2> HIDE DEF goes
  <2> QED BY <2>3, <2>4, <2>5 DEF goes
<1> QED BY <1>4, <1>5, <1>6, <1>7 DEF Ask, Load, At, On

LEMMA SetMoves ==
  ASSUME RInv, NEW r \in Reviewers, Set(r)
  PROVE  OperatorsSound' /\ ProposalsMove
<1> DEFINE y == review[r]
           p == y.on
           to == y.to
           z == [proposal[p] EXCEPT !.status = to, !.applied = y.version]
<1>0. /\ carried' = carried /\ touched' = touched /\ y.at = "set"
  BY DEF Set, At
<1>1. y \in ReviewType /\ Steady(y, proposal, carried)
  BY AtWork
<1>2. p \in Slots /\ proposal[p].suggestion # None
  BY <1>0, <1>1 DEF Steady, ReviewType
<1>3. /\ proposal \in [Slots -> ProposalType] /\ carried \in [Slots -> SUBSET Decisions]
      /\ \A q \in Slots : RowSound(proposal[q], carried[q])
  BY DEF RInv, RowsTyped
<1>4. CASE Leaves(r) /\ UNCHANGED proposal
  BY <1>0, <1>4, LeavesMoves
<1>5. CASE /\ MayBecome(proposal[p].status, to)
           /\ proposal' = [proposal EXCEPT ![p].status = to, ![p].applied = y.version]
           /\ IF to = "approved"
                THEN Goes(r, [y EXCEPT !.at = "apply", !.to = "none"])
                ELSE Leaves(r)
  <2>1. /\ z \in ProposalType /\ z.status = to
        /\ z.suggestion = proposal[p].suggestion /\ z.seen = proposal[p].seen
    BY <1>1, <1>2, <1>3 DEF ProposalType, ReviewType
  <2>2. /\ proposal' \in [Slots -> ProposalType]
        /\ proposal'[p] = z
        /\ \A q \in Slots \ {p} : proposal'[q] = proposal[q]
    BY <1>2, <1>3, <1>5, <2>1
  <2> HIDE DEF z
  <2>3. to # "none" /\ (Granted(proposal[p].status) => Granted(to))
    BY <1>2, <1>3, <1>5 DEF MayBecome, Allowed, Granted, RowSound
  <2>4. ProposalsMove
    BY <1>0, <2>1, <2>2, <2>3 DEF ProposalsMove
  <2>5. RowSound(z, carried[p])
    BY <1>0, <1>1, <1>2, <1>3, <2>1, <2>3 DEF RowSound, Steady
  <2>6. \A q \in Slots : RowSound(proposal'[q], carried'[q])
    BY <1>0, <1>3, <2>2, <2>5
  <2>7. PICK x : /\ Goes(r, x) /\ x \in ReviewType
                 /\ Steady(x, proposal', carried')
    <3>1. CASE to = "approved"
      <4> DEFINE x == [y EXCEPT !.at = "apply", !.to = "none"]
      <4>1. /\ x \in ReviewType /\ x.at = "apply" /\ x.on = p
            /\ x.candidate = y.candidate /\ x.plan = y.plan /\ x.found = y.found
        BY <1>1 DEF ReviewType, Points, States
      <4>2. Goes(r, x)
        BY <1>5, <3>1
      <4> HIDE DEF x
      <4>3. Steady(x, proposal', carried')
        BY <1>0, <1>1, <1>2, <2>1, <2>2, <4>1 DEF Steady, Working, Planned
      <4> QED BY <4>1, <4>2, <4>3
    <3>2. CASE to # "approved"
      BY <1>5, <3>2, IdleIsSteady DEF Leaves
    <3> QED BY <3>1, <3>2
  <2>8. /\ review' \in [Reviewers -> ReviewType]
        /\ \A q \in Reviewers : Steady(review'[q], proposal', carried')
    BY <2>4, <2>7, OneMoves
  <2> QED BY <1>0, <1>3, <2>2, <2>4, <2>6, <2>8 DEF OperatorsSound
<1> QED BY <1>4, <1>5 DEF Set, On

LEMMA BestOfTwo ==
  ASSUME NEW a \in Memories, NEW b \in Memories, NEW left,
         left \subseteq {a, b}, left # {}, confidence \in [Memories -> Nat]
  PROVE  \E m \in left : \A n \in left : confidence[m] >= confidence[n]
<1>1. confidence[a] \in Nat /\ confidence[b] \in Nat
  OBVIOUS
<1>2. left = {a} \/ left = {b} \/ left = {a, b}
  OBVIOUS
<1> QED BY <1>1, <1>2

LEMMA BuildMoves ==
  ASSUME RInv, NEW r \in Reviewers, Build(r)
  PROVE  OperatorsSound' /\ ProposalsMove
<1> DEFINE y == review[r]
           p == y.on
           pr == Pair(p)
           left == {m \in {pr[1], pr[2]} : Exists(m)}
           first == IF Exists(pr[1]) THEN pr[1] ELSE pr[2]
           best == CHOOSE m \in left : \A n \in left : confidence[m] >= confidence[n]
           c == [subject |-> subject[first],
                 content |-> proposal[p].suggestion.content,
                 sources |-> UNION {Latest(m).sources : m \in left},
                 verified |-> FALSE, confidence |-> confidence[best],
                 proposal |-> "update"]
           x == [y EXCEPT !.at = "lookup", !.candidate = c]
<1>0. /\ UNCHANGED <<proposal, carried>> /\ touched' = touched /\ y.at = "build"
  BY DEF Build, At
<1>1. y \in ReviewType /\ Steady(y, proposal, carried) /\ p \in Slots /\ pr \in Pairs
  BY <1>0, AtWork DEF At, On
<1>2. CASE left = {}
  BY <1>0, <1>2, LeavesMoves DEF Build, On
<1>3. CASE left # {}
  <2>1. Goes(r, x)
    BY <1>3 DEF Build, On
  <2>2. pr[1] \in Memories /\ pr[2] \in Memories
    BY <1>1 DEF Pairs
  <2>3. first \in Memories /\ Exists(first)
    BY <1>3, <2>2
  <2>4. best \in left
    <3>1. confidence \in [Memories -> Nat]
      BY StoreAssumption DEF RInv, IInv, TypeOK
    <3>2. \E m \in left : \A n \in left : confidence[m] >= confidence[n]
      BY <1>3, <2>2, <3>1, BestOfTwo
    <3> HIDE DEF left
    <3> QED BY <3>2
  <2>5. subject[first] \in Subjects /\ confidence[best] \in 0..MaxConfidence
    BY <2>2, <2>3, <2>4, LatestType DEF RInv
  <2>6. \A m \in left : Latest(m).sources \in SUBSET Sources
    BY <2>2, LatestType DEF RInv, Versions
  <2>7. proposal[p].suggestion.content \in Contents
    <3>1. proposal[p].suggestion # None /\ proposal[p].suggestion.kind = "merge"
      BY <1>0, <1>1, NoneAssumption DEF Steady
    <3>2. Complete(proposal[p].suggestion) /\ proposal[p].suggestion \in Suggestion
      BY <1>1, <3>1 DEF RInv, RowsTyped, RowSound, ProposalType
    <3> QED BY <3>1, <3>2 DEF Complete, Suggestion
  <2>8. c \in CandidateType
    <3>1. UNION {Latest(m).sources : m \in left} \in SUBSET Sources
      <4> HIDE DEF left
      <4> QED BY <2>6
    <3> HIDE DEF left, first, best
    <3> QED BY <2>5, <2>7, <3>1 DEF CandidateType, Proposals
  <2> HIDE DEF c
  <2>9. /\ x \in ReviewType /\ x.at = "lookup" /\ x.on = p /\ x.candidate = c
        /\ x.plan = y.plan /\ x.found = y.found
    BY <1>1, <2>8 DEF ReviewType, Points
  <2> HIDE DEF x
  <2>10. c # None
    BY <2>8, NoneAssumption
  <2>11. Steady(x, proposal, carried)
    BY <1>0, <1>1, <2>9, <2>10 DEF Steady, Working, Planned
  <2> QED BY <1>0, <2>1, <2>9, <2>11, ReadingMoves
<1> QED BY <1>2, <1>3

LEMMA DecideType ==
  ASSUME NEW c \in CandidateType, NEW f \in Found \cup {None}
  PROVE  /\ Decide(c, f, {}) \in Decisions
         /\ Decide(c, f, {}) = "update" => f # None
BY DEF Decide, Decisions, CandidateType, Proposals

LEMMA MakePlanMoves ==
  ASSUME RInv, NEW r \in Reviewers, MakePlan(r)
  PROVE  OperatorsSound' /\ ProposalsMove
<1> DEFINE y == review[r]
<1>0. /\ UNCHANGED <<proposal, carried>> /\ touched' = touched /\ y.at = "lookup"
  BY DEF MakePlan, At
<1>1. /\ y \in ReviewType /\ Steady(y, proposal, carried)
      /\ y.candidate \in CandidateType
  BY <1>0, AtWork DEF At, Working
<1>2. PICK f \in Current(y.candidate.subject) :
        Goes(r, [y EXCEPT !.at = "planned", !.found = f,
                          !.plan = Decide(y.candidate, f, {})])
  BY DEF MakePlan
<1> DEFINE d == Decide(y.candidate, f, {})
           x == [y EXCEPT !.at = "planned", !.found = f, !.plan = d]
<1>3. f \in Found \cup {None}
  BY <1>1, FoundType DEF RInv, CandidateType
<1>4. d \in Decisions /\ (d = "update" => f # None)
  BY <1>1, <1>3, DecideType
<1>5. d # None
  BY <1>4, NoneAssumption
<1> HIDE DEF d
<1>6. /\ x \in ReviewType /\ x.at = "planned" /\ x.on = y.on
      /\ x.candidate = y.candidate /\ x.plan = d /\ x.found = f
  BY <1>1, <1>3, <1>4 DEF ReviewType, Points
<1>7. Goes(r, x)
  BY <1>2 DEF d
<1> HIDE DEF x
<1>8. Steady(x, proposal, carried)
  BY <1>0, <1>1, <1>4, <1>5, <1>6 DEF Steady, Working, Planned
<1> QED BY <1>0, <1>6, <1>7, <1>8, ReadingMoves

LEMMA InspectMoves ==
  ASSUME RInv, NEW r \in Reviewers, Inspect(r)
  PROVE  OperatorsSound' /\ ProposalsMove
<1> DEFINE y == review[r]
<1>0. /\ UNCHANGED <<proposal, carried>> /\ touched' = touched
      /\ y.at = "planned" /\ y.plan = "update"
  BY DEF Inspect, At
<1>1. y \in ReviewType /\ Steady(y, proposal, carried)
  BY AtWork
<1>2. PICK at \in {"attach", "extend"} : Goes(r, [y EXCEPT !.at = at])
  BY DEF Inspect
<1> DEFINE x == [y EXCEPT !.at = at]
<1>3. /\ x \in ReviewType /\ x.at = at /\ x.on = y.on /\ x.plan = y.plan
      /\ x.candidate = y.candidate /\ x.found = y.found
  BY <1>1 DEF ReviewType, Points
<1>4. Goes(r, x)
  BY <1>2
<1> HIDE DEF x
<1>5. Steady(x, proposal, carried)
  BY <1>0, <1>1, <1>2, <1>3 DEF Steady, Working, Planned
<1> QED BY <1>0, <1>3, <1>4, <1>5, ReadingMoves

\* A plan is carried out: its operator has it recorded next.
LEMMA CarriesMoves ==
  ASSUME RInv, NEW r \in Reviewers, NEW ids \in SUBSET VersionIds,
         NEW v \in VersionIds, At(r) \in Planned, Carries(r, ids, v),
         touched \subseteq touched'
  PROVE  OperatorsSound' /\ ProposalsMove
<1> DEFINE y == review[r]
           p == y.on
           x == MarkApplied(r, v)
<1>1. y \in ReviewType /\ Steady(y, proposal, carried) /\ p \in Slots
  BY AtWork DEF Planned, At, On
<1>2. /\ y.plan \in Decisions /\ y.on # None /\ Granted(proposal[p].status)
      /\ proposal[p].suggestion # None
  BY <1>1 DEF Steady, Planned, Working, At, ReviewType
<1>3. proposal' = proposal /\ Goes(r, x)
      /\ carried' = [carried EXCEPT ![p] = @ \cup {y.plan}]
  BY DEF Carries, On
<1>4. /\ carried \in [Slots -> SUBSET Decisions]
      /\ proposal \in [Slots -> ProposalType]
      /\ \A q \in Slots : RowSound(proposal[q], carried[q])
  BY DEF RInv, RowsTyped
<1>5. /\ carried' \in [Slots -> SUBSET Decisions]
      /\ carried'[p] # {}
      /\ \A q \in Slots : carried[q] \subseteq carried'[q]
      /\ \A q \in Slots \ {p} : carried'[q] = carried[q]
  BY <1>1, <1>2, <1>3, <1>4
<1>6. ProposalsMove
  BY <1>3, <1>5 DEF ProposalsMove
<1>7. \A q \in Slots : RowSound(proposal'[q], carried'[q])
  <2> SUFFICES ASSUME NEW q \in Slots PROVE RowSound(proposal'[q], carried'[q])
    OBVIOUS
  <2>1. CASE q = p
    BY <1>2, <1>3, <1>4, <1>5, <2>1 DEF RowSound
  <2>2. CASE q # p
    BY <1>3, <1>4, <1>5, <2>2
  <2> QED BY <2>1, <2>2
<1>8. /\ x \in ReviewType /\ x.at = "ask" /\ x.on = p /\ x.candidate = None
      /\ x.plan = None
  BY <1>1 DEF MarkApplied, NoReview, ReviewType, Points, States, On
<1> HIDE DEF x
<1>9. Steady(x, proposal', carried')
  <2>1. None # "update"
    BY NoneAssumption DEF Decisions
  <2> QED BY <1>1, <1>2, <1>3, <1>5, <1>8, <2>1 DEF Steady, Working, Planned
<1>10. /\ review' \in [Reviewers -> ReviewType]
       /\ \A q \in Reviewers : Steady(review'[q], proposal', carried')
  BY <1>3, <1>6, <1>8, <1>9, OneMoves
<1> QED BY <1>3, <1>4, <1>5, <1>6, <1>7, <1>10 DEF OperatorsSound

LEMMA AppliesMove ==
  ASSUME RInv, NEW r \in Reviewers,
         ApplyNothing(r) \/ ApplyAdd(r) \/ ApplyAttach(r) \/ ApplyExtend(r)
  PROVE  /\ OperatorsSound' /\ ProposalsMove
         /\ edits' = edits /\ scan' = scan
         /\ written' \in [Slots -> SUBSET VersionIds]
         /\ touched' \subseteq Slots
<1>1. At(r) \in Planned
  BY DEF ApplyNothing, ApplyAdd, ApplyAttach, ApplyExtend, Planned
<1>2. On(r) \in Slots /\ written \in [Slots -> SUBSET VersionIds] /\ touched \subseteq Slots
  BY <1>1, AtWork DEF Planned, RInv, RowsTyped
<1>3. touched \subseteq touched' /\ touched' \subseteq Slots
  BY <1>2 DEF ApplyNothing, ApplyAdd, ApplyAttach, ApplyExtend, Touch
<1>4. ASSUME NEW ids \in SUBSET VersionIds, NEW v \in VersionIds, Carries(r, ids, v)
      PROVE  /\ OperatorsSound' /\ ProposalsMove
             /\ edits' = edits /\ scan' = scan
             /\ written' \in [Slots -> SUBSET VersionIds]
  <2>1. OperatorsSound' /\ ProposalsMove
    BY <1>1, <1>3, <1>4, CarriesMoves
  <2>2. written' \in [Slots -> SUBSET VersionIds]
    BY <1>2, <1>4 DEF Carries
  <2> QED BY <1>4, <2>1, <2>2 DEF Carries
<1>5. CASE ApplyNothing(r)
  BY <1>3, <1>4, <1>5 DEF ApplyNothing, VersionIds
<1>6. CASE ApplyAdd(r)
  <2>1. PICK m \in Memories : Carries(r, {<<m, 1>>}, <<m, 1>>)
    BY <1>6 DEF ApplyAdd
  <2>2. <<m, 1>> \in VersionIds
    BY StoreAssumption DEF VersionIds
  <2> QED BY <1>3, <1>4, <2>1, <2>2
<1>7. CASE ApplyAttach(r)
  <2> DEFINE m == review[r].found.memory
  <2>1. review[r].found \in Found
    BY <1>7, AtWork DEF ApplyAttach
  <2>2. m \in Memories /\ Exists(m)
    BY <1>7, <2>1 DEF ApplyAttach, AttachSources, Active, Exists, Found
  <2>3. <<m, activeVersion[m]>> \in VersionIds
    BY <2>2, LatestType DEF RInv, VersionIds
  <2>4. Carries(r, {}, <<m, activeVersion[m]>>)
    BY <1>7 DEF ApplyAttach
  <2> HIDE DEF m
  <2> QED BY <1>3, <1>4, <2>3, <2>4
<1>8. CASE ApplyExtend(r)
  <2> DEFINE m == review[r].found.memory
             id == <<m, Len(versions[m]) + 1>>
  <2>1. review[r].found \in Found
    BY <1>8, AtWork DEF ApplyExtend
  <2>2. m \in Memories
    BY <2>1 DEF Found
  <2>3. Len(versions[m]) \in 0..MaxVersions /\ Len(versions[m]) < MaxVersions
    BY <1>8, <2>2, WellFormed DEF RInv, ApplyExtend, AddVersion, MayExtend
  <2>4. id \in VersionIds
    BY <2>2, <2>3, StoreAssumption DEF VersionIds
  <2>5. Carries(r, {id}, id)
    BY <1>8 DEF ApplyExtend
  <2> HIDE DEF id
  <2> QED BY <1>3, <1>4, <2>4, <2>5
<1> QED BY <1>5, <1>6, <1>7, <1>8

LEMMA ReviewMoves ==
  ASSUME RInv, NEW r \in Reviewers, Review(r)
  PROVE  /\ OperatorsSound' /\ ProposalsMove
         /\ edits' = edits /\ scan' = scan
         /\ written' \in [Slots -> SUBSET VersionIds]
         /\ touched' \subseteq Slots
<1>1. CASE ApplyNothing(r) \/ ApplyAdd(r) \/ ApplyAttach(r) \/ ApplyExtend(r)
  BY <1>1, AppliesMove
<1>2. CASE \/ \E p \in Slots : Command(r, p)
           \/ Ask(r) \/ Set(r) \/ Load(r) \/ Verify(r) \/ Build(r)
           \/ MakePlan(r) \/ Inspect(r) \/ Stop(r)
  <2>1. UNCHANGED <<edits, scan, written, touched>>
    BY <1>2 DEF Command, Ask, Set, Load, Verify, Build, MakePlan, Inspect, Stop
  <2>2. OperatorsSound' /\ ProposalsMove
    <3>1. CASE Stop(r)
      BY <3>1, LeavesMoves DEF Stop
    <3> QED BY <1>2, <3>1, CommandMoves, ChecksMove, SetMoves, BuildMoves,
               MakePlanMoves, InspectMoves
  <2> QED BY <2>1, <2>2 DEF RInv, RowsTyped
<1> QED BY <1>1, <1>2 DEF Review

-----------------------------------------------------------------------------
(* The Job and the users of the store.                                      *)

LEMMA SuggestedType ==
  ASSUME IInv, NEW p \in Pairs, InForce(p[1]), InForce(p[2]), NEW x \in Suggested(p)
  PROVE  x \in Suggestion /\ Complete(x)
<1>1. p[1] \in Memories /\ p[2] \in Memories /\ Exists(p[1]) /\ Exists(p[2])
  BY DEF Pairs, InForce, Active, Exists
<1>2. Latest(p[1]).content \in Contents /\ Latest(p[2]).content \in Contents
  BY <1>1, LatestType DEF Versions
<1>3. CASE x = [kind |-> "noop", pair |-> p, content |-> None]
  BY <1>3 DEF Suggestion, Kinds, Complete
<1>4. ASSUME NEW w \in {p[1], p[2]},
             x = [kind |-> "merge", pair |-> p, content |-> Latest(w).content]
      PROVE  x \in Suggestion /\ Complete(x)
  <2>1. Latest(w).content \in Contents /\ Latest(w).content # None
    BY <1>2, NoneAssumption
  <2> QED BY <1>4, <2>1 DEF Suggestion, Kinds, Complete
<1>5. \/ x = [kind |-> "noop", pair |-> p, content |-> None]
      \/ \E w \in {p[1], p[2]} :
           x = [kind |-> "merge", pair |-> p, content |-> Latest(w).content]
  BY DEF Suggested
<1> QED BY <1>3, <1>4, <1>5

LEMMA JobMoves ==
  ASSUME RInv, Scan \/ (\E x \in scan : Propose(x)) \/ ScanEnds
  PROVE  /\ OperatorsSound' /\ ProposalsMove
         /\ UNCHANGED <<edits, written, touched>>
         /\ scan' \subseteq Suggestion /\ \A x \in scan' : Complete(x)
<1>1. /\ scan \subseteq Suggestion /\ \A x \in scan : Complete(x)
      /\ proposal \in [Slots -> ProposalType] /\ carried \in [Slots -> SUBSET Decisions]
      /\ review \in [Reviewers -> ReviewType]
      /\ \A p \in Slots : RowSound(proposal[p], carried[p])
      /\ \A r \in Reviewers : Steady(review[r], proposal, carried)
  BY DEF RInv, RowsTyped
<1>2. ASSUME UNCHANGED <<proposal, review, carried, touched>>
      PROVE  OperatorsSound' /\ ProposalsMove
  BY <1>1, <1>2 DEF OperatorsSound, ProposalsMove
<1>3. CASE Scan
  <2> DEFINE found == {q \in Pairs : /\ InForce(q[1]) /\ InForce(q[2])
                                     /\ Alike(subject[q[1]], subject[q[2]])}
  <2>1. scan' \subseteq UNION {Suggested(p) : p \in found}
    BY <1>3 DEF Scan
  <2>2. \A x \in scan' : \E p \in found : x \in Suggested(p)
    <3> HIDE DEF found
    <3> QED BY <2>1
  <2>3. \A x \in scan' : x \in Suggestion /\ Complete(x)
    BY <2>2, SuggestedType DEF RInv
  <2> QED BY <1>2, <1>3, <2>3 DEF Scan
<1>4. CASE ScanEnds
  BY <1>2, <1>4 DEF ScanEnds
<1>5. ASSUME NEW x \in scan, Propose(x)
      PROVE  /\ OperatorsSound' /\ ProposalsMove
             /\ UNCHANGED <<edits, written, touched>>
             /\ scan' \subseteq scan
  <2>1. UNCHANGED <<edits, review, carried, written, touched>> /\ scan' \subseteq scan
    BY <1>5 DEF Propose
  <2>2. CASE UNCHANGED proposal
    BY <1>2, <2>1, <2>2
  <2>3. ASSUME NEW p \in Slots, proposal[p].status = "none",
               proposal' = [proposal EXCEPT ![p] =
                 [status |-> "pending", suggestion |-> x, applied |-> None,
                  seen |-> <<Fingerprint(x.pair[1]), Fingerprint(x.pair[2])>>]]
        PROVE  OperatorsSound' /\ ProposalsMove
    <3> DEFINE seen == <<Fingerprint(x.pair[1]), Fingerprint(x.pair[2])>>
               z == [status |-> "pending", suggestion |-> x, applied |-> None,
                     seen |-> seen]
    <3>1. seen \in Fingerprints \X Fingerprints
      <4>1. x.pair[1] \in Memories /\ x.pair[2] \in Memories
        BY <1>1 DEF Suggestion, Pairs
      <4> QED BY <4>1, FingerprintType DEF RInv
    <3> HIDE DEF seen
    <3>2. z \in ProposalType
      BY <1>1, <3>1 DEF ProposalType, States, VersionIds
    <3>3. x # None /\ Complete(x)
      BY <1>1, NoneAssumption
    <3>4. carried[p] = {}
      BY <1>1, <2>3 DEF RowSound, Granted
    <3>5. RowSound(z, carried[p])
      BY <3>3, <3>4 DEF RowSound
    <3>6. proposal[p].suggestion = None
      BY <1>1, <2>3 DEF RowSound
    <3>7. /\ proposal' \in [Slots -> ProposalType]
          /\ proposal'[p] = z
          /\ \A q \in Slots \ {p} : proposal'[q] = proposal[q]
      BY <1>1, <2>3, <3>2 DEF seen
    <3> HIDE DEF z
    <3>8. ProposalsMove
      BY <2>1, <3>6, <3>7 DEF ProposalsMove
    <3>9. \A q \in Slots : RowSound(proposal'[q], carried'[q])
      BY <1>1, <2>1, <3>5, <3>7
    <3>10. \A q \in Reviewers : Steady(review'[q], proposal', carried')
      BY <2>1, <3>8, StaysSteady
    <3> QED BY <1>1, <2>1, <3>7, <3>8, <3>9, <3>10 DEF OperatorsSound
  <2> QED BY <1>5, <2>1, <2>2, <2>3 DEF Propose
<1> QED BY <1>1, <1>3, <1>4, <1>5 DEF Scan, ScanEnds

LEMMA OthersMove ==
  ASSUME RInv, Others
  PROVE  /\ OperatorsSound' /\ ProposalsMove
         /\ edits' \in 0..MaxEdits /\ UNCHANGED <<scan, written>>
         /\ touched' \subseteq Slots
<1>1. /\ UNCHANGED <<proposal, scan, review, carried, written>>
      /\ touched \subseteq touched' /\ touched' \subseteq Slots
      /\ edits' \in 0..MaxEdits
  BY ProposalAssumption DEF Others, Touch, RInv, RowsTyped
<1> QED BY <1>1 DEF RInv, RowsTyped, OperatorsSound, ProposalsMove

LEMMA AllMove ==
  ASSUME RInv, ProposalsNext
  PROVE  RInv' /\ ProposalsMove
<1>1. IInv'
  BY StepOfStore, NextInvariant DEF RInv
<1>2. CASE Scan \/ (\E x \in scan : Propose(x)) \/ ScanEnds
  <2>1. /\ OperatorsSound' /\ ProposalsMove
        /\ UNCHANGED <<edits, written, touched>>
        /\ scan' \subseteq Suggestion /\ \A x \in scan' : Complete(x)
    BY <1>2, JobMoves
  <2> QED BY <1>1, <2>1 DEF RInv, RowsTyped, OperatorsSound
<1>3. ASSUME NEW r \in Reviewers, Review(r)
      PROVE  RInv' /\ ProposalsMove
  <2>1. /\ OperatorsSound' /\ ProposalsMove
        /\ edits' = edits /\ scan' = scan
        /\ written' \in [Slots -> SUBSET VersionIds]
        /\ touched' \subseteq Slots
    BY <1>3, ReviewMoves
  <2> QED BY <1>1, <2>1 DEF RInv, RowsTyped, OperatorsSound
<1>4. CASE Others
  <2>1. /\ OperatorsSound' /\ ProposalsMove
        /\ edits' \in 0..MaxEdits /\ UNCHANGED <<scan, written>>
        /\ touched' \subseteq Slots
    BY <1>4, OthersMove
  <2> QED BY <1>1, <2>1 DEF RInv, RowsTyped, OperatorsSound
<1> QED BY <1>2, <1>3, <1>4 DEF ProposalsNext

LEMMA ProposalsInitInvariant == ProposalsInit => RInv
<1> SUFFICES ASSUME ProposalsInit PROVE RInv
  OBVIOUS
<1>1. IInv
  BY InitInvariant DEF ProposalsInit
<1>2. NoProposal \in ProposalType /\ RowSound(NoProposal, {})
  <2>1. Missing \in Fingerprints
    BY StoreAssumption DEF Missing, Fingerprints, Statuses
  <2>2. NoProposal \in ProposalType
    BY <2>1 DEF NoProposal, ProposalType, States, VersionIds
  <2> QED BY <2>2 DEF NoProposal, RowSound
<1>3. /\ NoReview \in ReviewType
      /\ Steady(NoReview, proposal, carried)
  BY IdleIsSteady
<1>4. RowsTyped
  BY <1>2, <1>3, ProposalAssumption DEF ProposalsInit, RowsTyped
<1>5. /\ \A p \in Slots : RowSound(proposal[p], carried[p])
      /\ \A r \in Reviewers : Steady(review[r], proposal, carried)
  BY <1>2, <1>3 DEF ProposalsInit
<1>6. \A x \in scan : Complete(x)
  BY DEF ProposalsInit
<1> QED BY <1>1, <1>4, <1>5, <1>6 DEF RInv

LEMMA ProposalsNextInvariant == RInv /\ [ProposalsNext]_allVars => RInv'
<1>1. ASSUME RInv, UNCHANGED allVars PROVE RInv'
  <2>1. IInv'
    BY <1>1, StepOfStore, NextInvariant DEF RInv
  <2> QED BY <1>1, <2>1 DEF RInv, RowsTyped, allVars, proposalVars
<1> QED BY <1>1, AllMove

LEMMA ProposalsInvariant == ProposalsSpec => []RInv
BY ProposalsInitInvariant, ProposalsNextInvariant, PTL DEF ProposalsSpec

\* Rows, operators and histories keep their types, and every operator has the
\* candidate and the plan its step needs.
THEOREM ProposalsTypeCorrect == ProposalsSpec => []ProposalsTypeOK
<1>1. RInv => ProposalsTypeOK
  <2> SUFFICES ASSUME RInv PROVE ProposalsTypeOK
    OBVIOUS
  <2>1. \A p \in Slots : proposal[p].status = "none" <=> proposal[p].suggestion = None
    BY DEF RInv, RowSound
  <2>2. \A r \in Reviewers : Steady(review[r], proposal, carried)
    BY DEF RInv
  <2> QED BY <2>1, <2>2
          DEF RInv, RowsTyped, IInv, ProposalsTypeOK, Steady, Working, Planned
<1> QED BY <1>1, ProposalsInvariant, PTL

\* Whatever proposals are approved and applied, and however operators and the
\* users of the store interleave, the store takes its own steps only.
THEOREM ProposalsImplementStore == ProposalsSpec => Spec
<1>1. ProposalsInit => Init
  BY DEF ProposalsInit
<1>2. RInv /\ [ProposalsNext]_allVars => [Next]_vars
  BY StepOfStore
<1> QED BY <1>1, <1>2, ProposalsInvariant, PTL DEF ProposalsSpec, Spec

\* Nothing is carried out without approval, and no merge is marked as applied
\* before it was carried out.
THEOREM AuditIsAlwaysTrue == ProposalsSpec => []AuditIsTrue
<1>1. RInv => AuditIsTrue
  BY DEF RInv, RowSound, AuditIsTrue, Granted
<1> QED BY <1>1, ProposalsInvariant, PTL

-----------------------------------------------------------------------------
(* An operator who sets out late.                                           *)

\* How far a memory of this status is on its way; a fingerprint of a purged
\* memory says "absent".
Stage(st) ==
  CASE st = "active" -> 1
    [] st \in {"superseded", "expired"} -> 2
    [] st = "deleted" -> 3
    [] OTHER -> 4

\* Status st and current version n are further on than fs and fn, or as far.
Later(st, n, fs, fn) ==
  \/ Stage(st) > Stage(fs)
  \/ Stage(st) = Stage(fs) /\ n > fn
AsFar(st, n, fs, fn) ==
  \/ Later(st, n, fs, fn)
  \/ Stage(st) = Stage(fs) /\ n = fn

\* The memories of proposal c are where c saw them, or further.
Reaches(c, st, current) ==
  \A i \in {1, 2} :
    LET m == c.suggestion.pair[i]
    IN  /\ st[m] # "absent"
        /\ AsFar(st[m], current[m], c.seen[i].status, c.seen[i].version)
Outdated(c, st, current) ==
  \E i \in {1, 2} :
    LET m == c.suggestion.pair[i]
    IN  Later(st[m], current[m], c.seen[i].status, c.seen[i].version)

SeenInv ==
  /\ \A x \in scan : \A i \in {1, 2} : status[x.pair[i]] # "absent"
  /\ \A p \in Slots : proposal[p].suggestion # None =>
       Reaches(proposal[p], status, activeVersion)
  /\ \A p \in touched : /\ proposal[p].suggestion # None
                        /\ Outdated(proposal[p], status, activeVersion)

LateInv ==
  \A r \in Reviewers : review[r].late =>
    /\ review[r].on \in touched
    /\ review[r].at \in {"ask", "set", "apply", "verify"}

Moved(m) == status'[m] # status[m] \/ activeVersion'[m] # activeVersion[m]

LEMMA StageType ==
  ASSUME NEW st
  PROVE  Stage(st) \in 1..4
BY DEF Stage

LEMMA LaterIsTransitive ==
  ASSUME NEW s1, NEW s2, NEW s3, NEW n1 \in Nat, NEW n2 \in Nat, NEW n3 \in Nat
  PROVE  /\ AsFar(s3, n3, s2, n2) /\ AsFar(s2, n2, s1, n1) => AsFar(s3, n3, s1, n1)
         /\ AsFar(s3, n3, s2, n2) /\ Later(s2, n2, s1, n1) => Later(s3, n3, s1, n1)
         /\ Later(s3, n3, s2, n2) /\ AsFar(s2, n2, s1, n1) => Later(s3, n3, s1, n1)
<1>1. Stage(s1) \in 1..4 /\ Stage(s2) \in 1..4 /\ Stage(s3) \in 1..4
  BY StageType
<1> QED BY <1>1 DEF AsFar, Later

LEMMA StagesInOrder ==
  ASSUME NEW n, NEW k
  PROVE  /\ Later("superseded", n, "active", k) /\ Later("expired", n, "active", k)
         /\ \A st \in {"active", "superseded", "expired"} : Later("deleted", n, st, k)
         /\ Later("purged", n, "deleted", k)
BY DEF Later, Stage

\* A memory goes one way: to further versions while it is active, then out of
\* use, deleted and purged.
LEMMA WriteAges ==
  ASSUME IInv, Write, NEW x \in Memories, status[x] # "absent"
  PROVE  /\ status'[x] # "absent"
         /\ Moved(x) => Later(status'[x], activeVersion'[x], status[x], activeVersion[x])
<1> USE DEF IInv, TypeOK
<1> DEFINE Stays == status'[x] = status[x] /\ activeVersion'[x] = activeVersion[x]
           GivesWay == /\ status[x] = "active" /\ status'[x] = "superseded"
                       /\ activeVersion'[x] = activeVersion[x]
<1>1. ASSUME NEW m \in Memories, NEW s \in Subjects, NEW r \in Requests, AddRecord(m, s, r)
      PROVE  Stays
  BY <1>1 DEF AddRecord
<1>2. ASSUME NEW m \in Memories, NEW r \in Requests, AddVersion(m, r)
      PROVE  Stays \/ /\ status'[x] = status[x]
                      /\ activeVersion'[x] = activeVersion[x] + 1
  <2>1. CASE x = m
    <3>1. activeVersion[x] = Len(versions[x])
      BY WellFormed DEF Coherent
    <3> QED BY <1>2, <2>1, <3>1 DEF AddVersion
  <2>2. CASE x # m
    BY <1>2, <2>2 DEF AddVersion
  <2> QED BY <2>1, <2>2
<1>3. ASSUME NEW old \in Memories, NEW new \in Memories, NEW r \in Requests,
             ReplaceActive(old, new, r)
      PROVE  Stays \/ GivesWay
  <2>1. status[new] = "absent" /\ status[old] = "active" /\ old # new
    BY <1>3 DEF ReplaceActive, MayReplace, Active
  <2>2. x # new
    BY <2>1
  <2>3. activeVersion'[x] = activeVersion[x]
    BY <1>3, <2>2 DEF ReplaceActive
  <2>4. CASE x = old
    BY <1>3, <2>1, <2>3, <2>4 DEF ReplaceActive
  <2>5. CASE x # old
    BY <1>3, <2>2, <2>3, <2>5 DEF ReplaceActive
  <2> QED BY <2>4, <2>5
<1>4. ASSUME NEW old \in Memories, NEW new \in Memories, Supersede(old, new)
      PROVE  Stays \/ GivesWay
  BY <1>4 DEF Supersede, Active
<1>5. ASSUME \/ \E m \in Memories, r \in Requests : AttachSources(m, r)
             \/ \E m \in Memories, n \in 1..MaxVersions, e \in Sources : AddSource(m, n, e)
             \/ \E a, b \in Memories, type \in RelationTypes : AddRelation(a, type, b)
      PROVE  Stays
  BY <1>5 DEF AttachSources, AddSource, AddRelation
<1>6. \/ Stays \/ GivesWay
      \/ status'[x] = status[x] /\ activeVersion'[x] = activeVersion[x] + 1
  BY <1>1, <1>2, <1>3, <1>4, <1>5 DEF Write
<1>7. activeVersion[x] \in Nat
  BY StoreAssumption
<1>8. activeVersion[x] + 1 > activeVersion[x]
  BY <1>7
<1> HIDE DEF IInv, TypeOK
<1>10. Stays => status'[x] # "absent" /\ ~Moved(x)
  BY DEF Moved
<1>11. GivesWay => /\ status'[x] # "absent"
                   /\ Later(status'[x], activeVersion'[x], status[x], activeVersion[x])
  BY StagesInOrder
<1>12. status'[x] = status[x] /\ activeVersion'[x] = activeVersion[x] + 1 =>
         /\ status'[x] # "absent"
         /\ Later(status'[x], activeVersion'[x], status[x], activeVersion[x])
  BY <1>8 DEF Later
<1> QED BY <1>6, <1>10, <1>11, <1>12

LEMMA LifecycleAges ==
  ASSUME IInv, Lifecycle, NEW x \in Memories, status[x] # "absent"
  PROVE  /\ status'[x] # "absent"
         /\ Moved(x) => Later(status'[x], activeVersion'[x], status[x], activeVersion[x])
<1> USE DEF IInv, TypeOK
<1> DEFINE Stays == status'[x] = status[x] /\ activeVersion'[x] = activeVersion[x]
           Expires == status[x] = "active" /\ status'[x] = "expired"
           Deleted == status[x] \in {"active", "superseded", "expired"}
                        /\ status'[x] = "deleted"
           Purged == status[x] = "deleted" /\ status'[x] = "purged"
<1>1. ASSUME NEW m \in Memories, NEW t \in 1..(MaxTime + 1),
             MarkExpired(m, t) \/ LegacyClose(m, t)
      PROVE  Stays \/ Expires
  BY <1>1 DEF MarkExpired, LegacyClose, Active
<1>2. ASSUME NEW m \in Memories, DeleteMemory(m)
      PROVE  Stays \/ Deleted
  <2>1. status[m] \in Statuses /\ status[m] \notin {"absent", "purged", "deleted"}
    BY <1>2 DEF DeleteMemory, Exists
  <2>2. status[m] \in {"active", "superseded", "expired"}
    BY <2>1 DEF Statuses
  <2> QED BY <1>2, <2>2 DEF DeleteMemory
<1>3. ASSUME NEW batch \in SUBSET Memories, PurgeDeleted(batch)
      PROVE  Stays \/ Purged
  BY <1>3 DEF PurgeDeleted
<1>4. ASSUME NEW batch \in SUBSET Memories, ArchiveExpiredBatch(batch)
      PROVE  Stays \/ Expires
  BY <1>4 DEF ArchiveExpiredBatch, Lapsed, Active
<1>5. Stays \/ Expires \/ Deleted \/ Purged
  BY <1>1, <1>2, <1>3, <1>4 DEF Lifecycle
<1> HIDE DEF IInv, TypeOK
<1>7. Stays => status'[x] # "absent" /\ ~Moved(x)
  BY DEF Moved
<1>8. Expires \/ Deleted \/ Purged =>
        /\ status'[x] # "absent"
        /\ Later(status'[x], activeVersion'[x], status[x], activeVersion[x])
  BY StagesInOrder
<1> QED BY <1>5, <1>7, <1>8

LEMMA NextAges ==
  ASSUME IInv, [Next]_vars, NEW x \in Memories, status[x] # "absent"
  PROVE  /\ status'[x] # "absent"
         /\ Moved(x) => Later(status'[x], activeVersion'[x], status[x], activeVersion[x])
         /\ AsFar(status'[x], activeVersion'[x], status[x], activeVersion[x])
<1>1. \/ status'[x] = status[x] /\ activeVersion'[x] = activeVersion[x]
      \/ Write \/ Lifecycle
  BY DEF Next, Tick, vars
<1>2. /\ status'[x] # "absent"
      /\ Moved(x) => Later(status'[x], activeVersion'[x], status[x], activeVersion[x])
  <2>1. CASE Write \/ Lifecycle
    BY <2>1, WriteAges, LifecycleAges
  <2>2. CASE status'[x] = status[x] /\ activeVersion'[x] = activeVersion[x]
    BY <2>2 DEF Moved
  <2> QED BY <1>1, <2>1, <2>2
<1>3. ~Moved(x) => AsFar(status'[x], activeVersion'[x], status[x], activeVersion[x])
  BY DEF Moved, AsFar
<1>4. Later(status'[x], activeVersion'[x], status[x], activeVersion[x]) =>
        AsFar(status'[x], activeVersion'[x], status[x], activeVersion[x])
  BY DEF AsFar
<1> QED BY <1>2, <1>3, <1>4

\* What was seen of an outdated memory is not what is there.
LEMMA OutdatedDiffers ==
  ASSUME RInv, SeenInv, NEW p \in touched
  PROVE  proposal[p].seen # <<Fingerprint(Pair(p)[1]), Fingerprint(Pair(p)[2])>>
<1>1. p \in Slots /\ proposal[p].suggestion # None
  BY DEF RInv, RowsTyped, SeenInv
<1>2. /\ Reaches(proposal[p], status, activeVersion)
      /\ Outdated(proposal[p], status, activeVersion)
  BY <1>1 DEF SeenInv
<1>3. PICK i \in {1, 2} :
        Later(status[Pair(p)[i]], activeVersion[Pair(p)[i]],
              proposal[p].seen[i].status, proposal[p].seen[i].version)
  BY <1>2 DEF Outdated, Pair
<1> DEFINE m == Pair(p)[i]
           f == proposal[p].seen[i]
<1>4. m \in Memories /\ f \in Fingerprints
  <2>1. proposal[p] \in ProposalType /\ proposal[p].suggestion \in Suggestion
    BY <1>1 DEF RInv, RowsTyped, ProposalType
  <2> QED BY <2>1 DEF ProposalType, Suggestion, Pairs, Pair
<1>5. status[m] # "absent"
  BY <1>2 DEF Reaches, Pair
<1>6. Fingerprint(m) # f
  <2>0. /\ Stage(status[m]) \in 1..4 /\ Stage(f.status) \in 1..4
        /\ activeVersion[m] \in Nat /\ f.version \in Nat
    BY <1>4, StageType, StoreAssumption DEF RInv, IInv, TypeOK, Fingerprints
  <2>1. CASE Exists(m)
    <3>1. Fingerprint(m).status = status[m] /\ Fingerprint(m).version = activeVersion[m]
      BY <2>1 DEF Fingerprint
    <3> HIDE DEF m, f
    <3> QED BY <1>3, <2>0, <3>1 DEF Later, m, f
  <2>2. CASE ~Exists(m)
    <3>1. status[m] = "purged" /\ activeVersion[m] = 0
      <4>1. status[m] = "purged"
        BY <1>5, <2>2 DEF Exists
      <4>2. activeVersion[m] \in Nat /\ ~(activeVersion[m] > 0)
        BY <1>4, <2>0, <4>1, WellFormed DEF RInv, Coherent
      <4> QED BY <4>1, <4>2
    <3>2. Fingerprint(m).status = "absent" /\ Fingerprint(m).version = 0
      BY <2>2 DEF Fingerprint, Missing
    <3>3. Stage("purged") = 4 /\ Stage("absent") = 4
      BY DEF Stage
    <3> HIDE DEF m, f
    <3> QED BY <1>3, <2>0, <3>1, <3>2, <3>3 DEF Later, m, f
  <2> QED BY <2>1, <2>2
<1>7. f = IF i = 1 THEN proposal[p].seen[1] ELSE proposal[p].seen[2]
  OBVIOUS
<1> QED BY <1>6, <1>7

\* A step of the store under the proposals, and what is new among them.
LEMMA SeenStays ==
  ASSUME RInv, SeenInv, [Next]_vars, ProposalsMove,
         \A p \in Slots : proposal[p].suggestion = None =>
           \/ proposal'[p].suggestion = None
           \/ /\ Reaches(proposal'[p], status, activeVersion)
              /\ UNCHANGED vars,
         \A p \in touched' \ touched :
           /\ p \in Slots /\ proposal[p].suggestion # None
           /\ \E m \in {Pair(p)[1], Pair(p)[2]} : Moved(m),
         \A x \in scan' : x \in scan \/
           \A i \in {1, 2} : x.pair[i] \in Memories /\ status[x.pair[i]] # "absent"
  PROVE  SeenInv'
<1>0. \A m \in Memories : status[m] # "absent" => status'[m] # "absent"
  BY NextAges DEF RInv
<1>1. ASSUME NEW x \in scan', NEW i \in {1, 2} PROVE status'[x.pair[i]] # "absent"
  <2>1. x \in scan => x.pair[i] \in Memories
    BY DEF RInv, RowsTyped, Suggestion, Pairs
  <2> QED BY <1>0, <1>1, <2>1 DEF SeenInv
<1>2. ASSUME NEW p \in Slots, proposal[p].suggestion # None
      PROVE  /\ Reaches(proposal'[p], status', activeVersion')
             /\ p \in touched => Outdated(proposal'[p], status', activeVersion')
             /\ (\E m \in {Pair(p)[1], Pair(p)[2]} : Moved(m)) =>
                  Outdated(proposal'[p], status', activeVersion')
  <2>1. /\ proposal'[p].suggestion = proposal[p].suggestion
        /\ proposal'[p].seen = proposal[p].seen
    BY <1>2 DEF ProposalsMove
  <2>2. /\ Reaches(proposal[p], status, activeVersion)
        /\ p \in touched => Outdated(proposal[p], status, activeVersion)
    BY <1>2 DEF SeenInv
  <2>3. ASSUME NEW i \in {1, 2}
        PROVE  LET m == proposal[p].suggestion.pair[i]
                   f == proposal[p].seen[i]
               IN  /\ status'[m] # "absent"
                   /\ AsFar(status'[m], activeVersion'[m], f.status, f.version)
                   /\ Later(status[m], activeVersion[m], f.status, f.version) \/ Moved(m)
                        => Later(status'[m], activeVersion'[m], f.status, f.version)
    <3> DEFINE m == proposal[p].suggestion.pair[i]
               f == proposal[p].seen[i]
    <3>1. m \in Memories /\ f \in Fingerprints
      <4>1. proposal[p] \in ProposalType /\ proposal[p].suggestion \in Suggestion
        BY <1>2 DEF RInv, RowsTyped, ProposalType
      <4> QED BY <4>1 DEF ProposalType, Suggestion, Pairs
    <3>2. /\ status[m] # "absent"
          /\ AsFar(status[m], activeVersion[m], f.status, f.version)
      BY <2>2 DEF Reaches
    <3>3. /\ activeVersion[m] \in Nat /\ activeVersion'[m] \in Nat /\ f.version \in Nat
      <4>1. IInv /\ IInv'
        BY NextInvariant DEF RInv
      <4>2. activeVersion[m] \in 0..MaxVersions /\ activeVersion'[m] \in 0..MaxVersions
        BY <3>1, <4>1 DEF IInv, TypeOK
      <4>3. f.version \in 0..MaxVersions
        BY <3>1 DEF Fingerprints
      <4> HIDE DEF m, f
      <4> QED BY <4>2, <4>3, StoreAssumption
    <3>4. /\ status'[m] # "absent"
          /\ AsFar(status'[m], activeVersion'[m], status[m], activeVersion[m])
          /\ Moved(m) =>
               Later(status'[m], activeVersion'[m], status[m], activeVersion[m])
      BY <3>1, <3>2, NextAges DEF RInv
    <3> HIDE DEF m, f
    <3>5. /\ AsFar(status'[m], activeVersion'[m], f.status, f.version)
          /\ Later(status[m], activeVersion[m], f.status, f.version) \/ Moved(m)
               => Later(status'[m], activeVersion'[m], f.status, f.version)
      BY <3>2, <3>3, <3>4, LaterIsTransitive
    <3> QED BY <3>4, <3>5 DEF m, f
  <2>4. Reaches(proposal'[p], status', activeVersion')
    BY <2>1, <2>3 DEF Reaches
  <2>5. p \in touched => Outdated(proposal'[p], status', activeVersion')
    BY <2>1, <2>2, <2>3 DEF Outdated
  <2>6. (\E m \in {Pair(p)[1], Pair(p)[2]} : Moved(m)) =>
           Outdated(proposal'[p], status', activeVersion')
    BY <2>1, <2>3 DEF Outdated, Pair
  <2> QED BY <2>4, <2>5, <2>6
<1>3. ASSUME NEW p \in Slots, proposal'[p].suggestion # None
      PROVE  Reaches(proposal'[p], status', activeVersion')
  <2>1. CASE proposal[p].suggestion # None
    BY <1>2, <2>1
  <2>2. CASE proposal[p].suggestion = None
    <3>1. Reaches(proposal'[p], status, activeVersion) /\ UNCHANGED vars
      BY <1>3, <2>2
    <3>2. status' = status /\ activeVersion' = activeVersion
      BY <3>1 DEF vars
    <3> QED BY <3>1, <3>2
  <2> QED BY <2>1, <2>2
<1>4. ASSUME NEW p \in touched'
      PROVE  /\ proposal'[p].suggestion # None
             /\ Outdated(proposal'[p], status', activeVersion')
  <2>1. /\ p \in Slots /\ proposal[p].suggestion # None
        /\ p \in touched \/ \E m \in {Pair(p)[1], Pair(p)[2]} : Moved(m)
    BY DEF RInv, RowsTyped, SeenInv
  <2>2. Outdated(proposal'[p], status', activeVersion')
    BY <1>2, <2>1
  <2>3. proposal'[p].suggestion # None
    BY <2>1 DEF ProposalsMove
  <2> QED BY <2>2, <2>3
<1> QED BY <1>1, <1>3, <1>4 DEF SeenInv

LEMMA ReviewSeen ==
  ASSUME RInv, SeenInv, NEW r \in Reviewers, Review(r)
  PROVE  SeenInv'
<1>1. OperatorsSound' /\ ProposalsMove /\ scan' = scan
  BY ReviewMoves
<1>2. [Next]_vars
  BY ReviewIsStep DEF Next
<1>3. \A p \in Slots : proposal[p].suggestion = None => proposal'[p].suggestion = None
  <2>1. CASE Set(r)
    <3>1. On(r) \in Slots
      BY <2>1, AtWork DEF Set
    <3>2. proposal \in [Slots -> ProposalType]
      BY DEF RInv, RowsTyped
    <3>3. \/ UNCHANGED proposal
          \/ proposal' = [proposal EXCEPT ![On(r)].status = review[r].to,
                                          ![On(r)].applied = review[r].version]
      BY <2>1 DEF Set
    <3> QED BY <3>1, <3>2, <3>3 DEF ProposalType
  <2>2. CASE ~Set(r)
    BY <2>2 DEF Review, Command, Ask, Load, Verify, Build, MakePlan, ApplyNothing,
       ApplyAdd, Inspect, ApplyAttach, ApplyExtend, Stop, Carries
  <2> QED BY <2>1, <2>2
<1>4. ASSUME NEW p \in touched' \ touched
      PROVE  /\ p \in Slots /\ proposal[p].suggestion # None
             /\ \E m \in {Pair(p)[1], Pair(p)[2]} : Moved(m)
  <2>1. touched' = touched \/ Touch({On(r)})
    BY DEF Review, Command, Ask, Set, Load, Verify, Build, MakePlan, ApplyNothing,
       ApplyAdd, Inspect, ApplyAttach, ApplyExtend, Stop
  <2> QED BY <2>1 DEF Touch, Moved, RInv, RowSound
<1> QED BY <1>1, <1>2, <1>3, <1>4, SeenStays

LEMMA JobSeen ==
  ASSUME RInv, SeenInv, Scan \/ (\E x \in scan : Propose(x)) \/ ScanEnds
  PROVE  SeenInv'
<1>1. ProposalsMove /\ touched' = touched
  BY JobMoves
<1>2. UNCHANGED vars
  BY DEF Scan, Propose, ScanEnds
<1>3. \A x \in scan' : x \in scan \/
        \A i \in {1, 2} : x.pair[i] \in Memories /\ status[x.pair[i]] # "absent"
  <2>1. CASE Scan
    <3> DEFINE found == {q \in Pairs : /\ InForce(q[1]) /\ InForce(q[2])
                                       /\ Alike(subject[q[1]], subject[q[2]])}
    <3>1. scan' \subseteq UNION {Suggested(p) : p \in found}
      BY <2>1 DEF Scan
    <3>2. \A x \in scan' : \E p \in found : x \in Suggested(p)
      <4> HIDE DEF found
      <4> QED BY <3>1
    <3>3. ASSUME NEW p \in found, NEW x \in Suggested(p) PROVE x.pair = p
      BY DEF Suggested
    <3>4. \A p \in found : \A i \in {1, 2} : p[i] \in Memories /\ status[p[i]] # "absent"
      BY DEF Pairs, InForce, Active
    <3> HIDE DEF found
    <3> QED BY <3>2, <3>3, <3>4
  <2>2. CASE ScanEnds \/ \E x \in scan : Propose(x)
    BY <2>2 DEF ScanEnds, Propose
  <2> QED BY <2>1, <2>2
<1>4. ASSUME NEW p \in Slots, proposal[p].suggestion = None,
             proposal'[p].suggestion # None
      PROVE  Reaches(proposal'[p], status, activeVersion)
  <2>1. PICK x \in scan : Propose(x)
    BY <1>4 DEF Scan, ScanEnds
  <2>2. PICK q \in Slots : proposal' = [proposal EXCEPT ![q] =
          [status |-> "pending", suggestion |-> x, applied |-> None,
           seen |-> <<Fingerprint(x.pair[1]), Fingerprint(x.pair[2])>>]]
    BY <1>4, <2>1 DEF Propose
  <2>3. proposal \in [Slots -> ProposalType]
    BY DEF RInv, RowsTyped
  <2>4. q = p
    BY <1>4, <2>2, <2>3
  <2>5. /\ proposal'[p].suggestion = x
        /\ proposal'[p].seen = <<Fingerprint(x.pair[1]), Fingerprint(x.pair[2])>>
    BY <2>2, <2>3, <2>4
  <2>6. x.pair \in Memories \X Memories
    BY DEF RInv, RowsTyped, Suggestion, Pairs
  <2>7. ASSUME NEW i \in {1, 2}
        PROVE  /\ status[x.pair[i]] # "absent"
               /\ AsFar(status[x.pair[i]], activeVersion[x.pair[i]],
                        Fingerprint(x.pair[i]).status, Fingerprint(x.pair[i]).version)
    <3> DEFINE m == x.pair[i]
    <3>1. m \in Memories /\ status[m] # "absent"
      BY <2>6 DEF SeenInv
    <3>2. CASE Exists(m)
      BY <3>1, <3>2 DEF Fingerprint, AsFar
    <3>3. CASE ~Exists(m)
      <4>1. status[m] = "purged"
        BY <3>1, <3>3 DEF Exists
      <4>2. activeVersion[m] = 0
        <5>1. activeVersion[m] \in 0..MaxVersions
          BY <3>1 DEF RInv, IInv, TypeOK
        <5>2. ~(activeVersion[m] > 0)
          BY <3>1, <4>1, WellFormed DEF RInv, Coherent
        <5> HIDE DEF m
        <5> QED BY <5>1, <5>2, StoreAssumption
      <4>3. Fingerprint(m).status = "absent" /\ Fingerprint(m).version = 0
        BY <3>3 DEF Fingerprint, Missing
      <4>4. Stage("purged") = Stage("absent")
        BY DEF Stage
      <4> QED BY <3>1, <4>1, <4>2, <4>3, <4>4 DEF AsFar
    <3> QED BY <3>2, <3>3
  <2>8. \A i \in {1, 2} : proposal'[p].seen[i] = Fingerprint(x.pair[i])
    BY <2>5
  <2> QED BY <2>5, <2>7, <2>8 DEF Reaches
<1> QED BY <1>1, <1>2, <1>3, <1>4, SeenStays

LEMMA OthersSeen ==
  ASSUME RInv, SeenInv, Others
  PROVE  SeenInv'
<1>1. ProposalsMove
  BY OthersMove
<1>2. Next
  BY OthersAreSteps
<1>3. UNCHANGED <<proposal, scan>> /\ Touch({})
  BY DEF Others
<1>4. ASSUME NEW p \in touched' \ touched
      PROVE  /\ p \in Slots /\ proposal[p].suggestion # None
             /\ \E m \in {Pair(p)[1], Pair(p)[2]} : Moved(m)
  BY <1>3 DEF Touch, Moved, RInv, RowSound
<1> QED BY <1>1, <1>2, <1>3, <1>4, SeenStays

LEMMA ReviewLate ==
  ASSUME RInv, SeenInv, LateInv, NEW r \in Reviewers, Review(r)
  PROVE  LateInv' /\ (review[r].late => carried' = carried)
<1> DEFINE y == review[r]
           OK(x) == x.late => /\ x.on \in touched
                              /\ x.at \in {"ask", "set", "apply", "verify"}
<1>0. y \in ReviewType /\ OK(y) /\ review \in [Reviewers -> ReviewType]
  BY AtWork DEF LateInv, RInv, RowsTyped
<1>1. touched \subseteq touched'
  BY ReviewMoves DEF ProposalsMove
<1>2. ASSUME NEW x, Goes(r, x), OK(x) PROVE LateInv'
  <2> SUFFICES ASSUME NEW q \in Reviewers, review'[q].late
               PROVE  /\ review'[q].on \in touched'
                      /\ review'[q].at \in {"ask", "set", "apply", "verify"}
    BY DEF LateInv
  <2>1. review'[q] = x \/ review'[q] = review[q]
    BY <1>0, <1>2 DEF Goes
  <2> QED BY <1>1, <1>2, <2>1 DEF LateInv
<1>3. ASSUME Leaves(r) PROVE LateInv'
  <2>1. OK(NoReview)
    BY DEF NoReview
  <2> QED BY <1>2, <1>3, <2>1 DEF Leaves
<1>4. ASSUME NEW p \in Slots, Command(r, p) PROVE LateInv' /\ carried' = carried
  <2> DEFINE late == p \in touched
             x == [NoReview EXCEPT !.on = p, !.late = late]
  <2>0. late \in BOOLEAN
    OBVIOUS
  <2>1. PICK z : /\ Goes(r, z) /\ z.at \in {"ask", "apply"}
                 /\ z.on = p /\ z.late = late
    <3>1. x \in ReviewType /\ x.on = p /\ x.late = late
      <4> HIDE DEF late
      <4> QED BY <1>4, <2>0 DEF NoReview, ReviewType, Points, States, VersionIds
    <3> HIDE DEF x, late
    <3>2. ASSUME NEW to \in {"approved", "rejected"},
                 Goes(r, [x EXCEPT !.at = "ask", !.to = to])
          PROVE  \E z : /\ Goes(r, z) /\ z.at \in {"ask", "apply"}
                        /\ z.on = p /\ z.late = late
      <4> DEFINE z == [x EXCEPT !.at = "ask", !.to = to]
      <4>1. z.at = "ask" /\ z.on = p /\ z.late = late
        BY <3>1 DEF ReviewType
      <4>2. Goes(r, z)
        BY <3>2
      <4> HIDE DEF z
      <4> QED BY <4>1, <4>2
    <3>3. ASSUME Goes(r, [x EXCEPT !.at = "apply"])
          PROVE  \E z : /\ Goes(r, z) /\ z.at \in {"ask", "apply"}
                        /\ z.on = p /\ z.late = late
      <4> DEFINE z == [x EXCEPT !.at = "apply"]
      <4>1. z.at = "apply" /\ z.on = p /\ z.late = late
        BY <3>1 DEF ReviewType
      <4>2. Goes(r, z)
        BY <3>3
      <4> HIDE DEF z
      <4> QED BY <4>1, <4>2
    <3> QED BY <1>4, <3>2, <3>3 DEF Command, x, late
  <2>2. OK(z)
    BY <2>1
  <2> QED BY <1>2, <1>4, <2>1, <2>2 DEF Command
<1>5. ASSUME NEW at \in {"ask", "set", "apply", "verify"}, NEW to \in States,
             y.at \in {"ask", "set", "apply", "verify"},
             Goes(r, [y EXCEPT !.at = at, !.to = to])
      PROVE  LateInv'
  <2> DEFINE x == [y EXCEPT !.at = at, !.to = to]
  <2>1. x.at = at /\ x.on = y.on /\ x.late = y.late
    BY <1>0 DEF ReviewType
  <2> HIDE DEF x
  <2>2. OK(x)
    BY <1>0, <1>5, <2>1
  <2> QED BY <1>2, <1>5, <2>2 DEF x
<1>6. /\ \A at : [y EXCEPT !.at = at] = [y EXCEPT !.at = at, !.to = y.to]
      /\ y.to \in States /\ "none" \in States /\ "expired" \in States
      /\ "applied" \in States
  BY <1>0 DEF ReviewType, States
<1>7. CASE Ask(r) \/ Load(r) \/ Set(r)
  <2>1. y.at \in {"ask", "set", "apply"} /\ carried' = carried
    BY <1>7 DEF Ask, Load, Set, At
  <2>2. \/ Leaves(r)
        \/ Goes(r, [y EXCEPT !.at = "set"])
        \/ Goes(r, [y EXCEPT !.at = "verify"])
        \/ Goes(r, [y EXCEPT !.at = "apply", !.to = "none"])
    BY <1>7 DEF Ask, Load, Set
  <2>3. \/ Leaves(r)
        \/ Goes(r, [y EXCEPT !.at = "set", !.to = y.to])
        \/ Goes(r, [y EXCEPT !.at = "verify", !.to = y.to])
        \/ Goes(r, [y EXCEPT !.at = "apply", !.to = "none"])
    BY <1>6, <2>2
  <2> QED BY <1>3, <1>5, <1>6, <2>1, <2>3
<1>8. CASE Verify(r)
  <2>1. y.at = "verify" /\ carried' = carried
    BY <1>8 DEF Verify, At
  <2>2. CASE \/ Goes(r, [y EXCEPT !.at = "ask", !.to = "expired"])
             \/ Goes(r, [y EXCEPT !.at = "ask", !.to = "applied"])
    BY <1>5, <1>6, <2>1, <2>2
  <2>3. CASE /\ proposal[y.on].seen =
                  <<Fingerprint(Pair(y.on)[1]), Fingerprint(Pair(y.on)[2])>>
             /\ Goes(r, [y EXCEPT !.at = "build"])
    <3>1. ~y.late
      BY <1>0, <2>3, OutdatedDiffers
    <3>2. [y EXCEPT !.at = "build"].late = y.late
      BY <1>0 DEF ReviewType
    <3> DEFINE x == [y EXCEPT !.at = "build"]
    <3> HIDE DEF x
    <3>3. OK(x)
      BY <3>1, <3>2 DEF x
    <3> QED BY <1>2, <2>1, <2>3, <3>3 DEF x
  <2> QED BY <1>8, <2>2, <2>3 DEF Verify, On
<1>9. CASE \/ Build(r) \/ MakePlan(r) \/ Inspect(r) \/ ApplyNothing(r)
           \/ ApplyAdd(r) \/ ApplyAttach(r) \/ ApplyExtend(r)
  <2>1. y.at \in {"build", "lookup", "planned", "attach", "extend"}
    BY <1>9 DEF Build, MakePlan, Inspect, ApplyNothing, ApplyAdd, ApplyAttach,
       ApplyExtend, At
  <2>2. ~y.late
    BY <1>0, <2>1
  <2>3. PICK x : Goes(r, x) /\ x.late = FALSE
    <3>1. y.late = FALSE
      BY <1>0, <2>2 DEF ReviewType
    <3>2. CASE Leaves(r)
      BY <3>2 DEF Leaves, NoReview
    <3>3. CASE \E at \in {"attach", "extend"} : Goes(r, [y EXCEPT !.at = at])
      BY <1>0, <3>1, <3>3 DEF ReviewType
    <3>4. CASE \E c : Goes(r, [y EXCEPT !.at = "lookup", !.candidate = c])
      <4>1. PICK c : Goes(r, [y EXCEPT !.at = "lookup", !.candidate = c])
        BY <3>4
      <4>2. [y EXCEPT !.at = "lookup", !.candidate = c].late = FALSE
        BY <1>0, <3>1 DEF ReviewType
      <4> QED BY <4>1, <4>2
    <3>5. CASE \E f, d : Goes(r, [y EXCEPT !.at = "planned", !.found = f, !.plan = d])
      <4>1. PICK f, d : Goes(r, [y EXCEPT !.at = "planned", !.found = f, !.plan = d])
        BY <3>5
      <4>2. [y EXCEPT !.at = "planned", !.found = f, !.plan = d].late = FALSE
        BY <1>0, <3>1 DEF ReviewType
      <4> QED BY <4>1, <4>2
    <3>6. CASE \E v : Goes(r, MarkApplied(r, v))
      <4>1. PICK v : Goes(r, MarkApplied(r, v))
        BY <3>6
      <4>2. MarkApplied(r, v).late = FALSE
        BY <3>1 DEF MarkApplied, NoReview
      <4> QED BY <4>1, <4>2
    <3>7. Build(r) => \/ Leaves(r)
                      \/ \E c : Goes(r, [y EXCEPT !.at = "lookup", !.candidate = c])
      BY DEF Build
    <3>8. Inspect(r) => \E at \in {"attach", "extend"} : Goes(r, [y EXCEPT !.at = at])
      BY DEF Inspect
    <3>9. MakePlan(r) =>
            \E f, d : Goes(r, [y EXCEPT !.at = "planned", !.found = f, !.plan = d])
      BY DEF MakePlan
    <3>10. ApplyNothing(r) \/ ApplyAdd(r) \/ ApplyAttach(r) \/ ApplyExtend(r) =>
             \E v : Goes(r, MarkApplied(r, v))
      BY DEF ApplyNothing, ApplyAdd, ApplyAttach, ApplyExtend, Carries
    <3> QED BY <1>9, <3>2, <3>3, <3>4, <3>5, <3>6, <3>7, <3>8, <3>9, <3>10
  <2>4. OK(x)
    BY <2>3
  <2> QED BY <1>2, <2>2, <2>3, <2>4
<1>10. CASE Stop(r)
  BY <1>3, <1>10 DEF Stop
<1> QED BY <1>4, <1>7, <1>8, <1>9, <1>10 DEF Review

\* Nothing is carried out by an operator who sets out when a source of the
\* proposal has been changed: neither over the change, nor bringing back what
\* was deleted (verify_sources_unchanged).
THEOREM OldIsNeverApplied == ProposalsSpec => OldIsNotApplied
<1> DEFINE L == SeenInv /\ LateInv
           Step == \A r \in Reviewers :
                     review[r].late /\ review'[r] # review[r] => carried' = carried
<1>1. ProposalsInit => L
  <2> SUFFICES ASSUME ProposalsInit PROVE L
    OBVIOUS
  <2> QED BY DEF ProposalsInit, SeenInv, LateInv, NoReview, NoProposal
<1>2. ASSUME RInv, L, ProposalsNext PROVE L' /\ Step
  <2>1. ASSUME NEW r \in Reviewers, Review(r) PROVE L' /\ Step
    <3>1. SeenInv' /\ LateInv' /\ (review[r].late => carried' = carried)
      BY <1>2, <2>1, ReviewSeen, ReviewLate
    <3>2. \A q \in Reviewers : q # r => review'[q] = review[q]
      <4>1. PICK x : Goes(r, x)
        BY <2>1 DEF Review, Command, Ask, Set, Load, Verify, Build, MakePlan,
           ApplyNothing, ApplyAdd, Inspect, ApplyAttach, ApplyExtend, Stop,
           Carries, Leaves
      <4> QED BY <1>2, <4>1 DEF Goes, RInv, RowsTyped
    <3> QED BY <3>1, <3>2
  <2>2. CASE Scan \/ (\E x \in scan : Propose(x)) \/ ScanEnds
    <3>1. SeenInv'
      BY <1>2, <2>2, JobSeen
    <3>2. UNCHANGED <<review, touched>>
      BY <2>2 DEF Scan, Propose, ScanEnds
    <3> QED BY <1>2, <3>1, <3>2 DEF LateInv
  <2>3. CASE Others
    <3>1. SeenInv'
      BY <1>2, <2>3, OthersSeen
    <3>2. review' = review /\ touched \subseteq touched'
      BY <2>3 DEF Others, Touch
    <3> QED BY <1>2, <3>1, <3>2 DEF LateInv
  <2> QED BY <1>2, <2>1, <2>2, <2>3 DEF ProposalsNext
<1>3. ASSUME RInv, L, UNCHANGED allVars PROVE L' /\ carried' = carried
  BY <1>3 DEF SeenInv, LateInv, allVars, proposalVars, vars
<1>4. RInv /\ L /\ [ProposalsNext]_allVars => L' /\ [Step]_allVars
  BY <1>2, <1>3
<1> HIDE DEF L, Step
<1>5. ProposalsSpec => [][Step]_allVars
  BY <1>1, <1>4, ProposalsInvariant, PTL DEF ProposalsSpec
<1> QED BY <1>5 DEF OldIsNotApplied, Step

-----------------------------------------------------------------------------
(* A proposal that nobody disturbs is merged once.                          *)

\* memory_versions_unique_content.
Distinct(h) ==
  \A j, k \in 1..Len(h) : h[j].content = h[k].content => j = k

LEMMA SealedLength ==
  ASSUME NEW h \in Seq(Versions), NEW N, NEW t
  PROVE  Len(Sealed(h, N, t)) = Len(h)
BY DEF Sealed

LEMMA WriteLengths ==
  ASSUME IInv, Write, NEW x \in Memories
  PROVE  LET h == versions[x]
             g == versions'[x]
         IN  \/ Len(g) = Len(h) \/ Len(g) = 1
             \/ /\ Len(g) = Len(h) + 1
                /\ \A k \in 1..Len(h) : h[k].content # g[Len(h) + 1].content
<1> DEFINE h == versions[x]
           g == versions'[x]
<1>0. h \in Seq(Versions) /\ Len(h) \in Nat /\ versions \in [Memories -> Seq(Versions)]
  BY WellFormed DEF IInv, TypeOK
<1>1. ASSUME NEW m \in Memories, NEW s \in Subjects, NEW r \in Requests, AddRecord(m, s, r)
      PROVE  Len(g) = Len(h) \/ Len(g) = 1
  BY <1>0, <1>1 DEF AddRecord
<1>2. ASSUME NEW m \in Memories, NEW r \in Requests, AddVersion(m, r)
      PROVE  \/ Len(g) = Len(h)
             \/ /\ Len(g) = Len(h) + 1
                /\ \A k \in 1..Len(h) : h[k].content # g[Len(h) + 1].content
  <2>1. CASE x = m
    <3> DEFINE s == Sealed(h, {activeVersion[m]}, r.from)
    <3>1. g = Append(s, RowOf(r))
      BY <1>0, <1>2, <2>1 DEF AddVersion
    <3>2. s \in Seq(Versions) /\ Len(s) = Len(h) /\ RowOf(r) \in Versions
      <4>1. r.from \in 1..(MaxTime + 1)
        BY StoreAssumption DEF Requests, Times
      <4> QED BY <1>0, <4>1, SealedHistory, RowType
    <3> HIDE DEF s
    <3>3. Len(g) = Len(h) + 1 /\ g[Len(h) + 1] = RowOf(r)
      BY <3>1, <3>2, AppendHistory
    <3>4. \A k \in 1..Len(h) : h[k].content # r.content
      BY <1>2, <2>1 DEF AddVersion, MayExtend
    <3>5. RowOf(r).content = r.content
      BY DEF RowOf, Row
    <3> QED BY <3>3, <3>4, <3>5
  <2>2. CASE x # m
    BY <1>0, <1>2, <2>2 DEF AddVersion
  <2> QED BY <2>1, <2>2
<1>3. ASSUME NEW old \in Memories, NEW new \in Memories, NEW r \in Requests,
             ReplaceActive(old, new, r)
      PROVE  Len(g) = Len(h) \/ Len(g) = 1
  <2>1. CASE x = new
    BY <1>0, <1>3, <2>1 DEF ReplaceActive
  <2>2. CASE x = old /\ x # new
    <3>1. g = Sealed(h, {activeVersion[old]}, r.from)
      BY <1>0, <1>3, <2>2 DEF ReplaceActive
    <3> QED BY <1>0, <3>1, SealedLength
  <2>3. CASE x # old /\ x # new
    BY <1>0, <1>3, <2>3 DEF ReplaceActive
  <2> QED BY <2>1, <2>2, <2>3
<1>4. ASSUME NEW old \in Memories, NEW new \in Memories, Supersede(old, new)
      PROVE  Len(g) = Len(h)
  <2>1. g = h \/ g = Sealed(h, {activeVersion[old]}, now)
    BY <1>0, <1>4 DEF Supersede
  <2> QED BY <1>0, <2>1, SealedLength
<1>5. ASSUME NEW m \in Memories, NEW r \in Requests, AttachSources(m, r)
      PROVE  Len(g) = Len(h)
  <2>1. g = h \/ g = WithEvidence(h, activeVersion[m], r.sources, r.verified)
    BY <1>0, <1>5 DEF AttachSources
  <2> QED BY <1>0, <2>1, EvidenceLength
<1>6. ASSUME NEW m \in Memories, NEW n \in 1..MaxVersions, NEW e \in Sources,
             AddSource(m, n, e)
      PROVE  Len(g) = Len(h)
  <2>1. g = h \/ g = WithEvidence(h, n, {e}, FALSE)
    BY <1>0, <1>6 DEF AddSource
  <2>2. Len(WithEvidence(h, n, {e}, FALSE)) = Len(h)
    BY <1>0 DEF WithEvidence
  <2> QED BY <2>1, <2>2
<1>7. ASSUME NEW a \in Memories, NEW b \in Memories, NEW type \in RelationTypes,
             AddRelation(a, type, b)
      PROVE  Len(g) = Len(h)
  BY <1>7 DEF AddRelation
<1> HIDE DEF h, g
<1>8. \/ Len(g) = Len(h) \/ Len(g) = 1
      \/ /\ Len(g) = Len(h) + 1
         /\ \A k \in 1..Len(h) : h[k].content # g[Len(h) + 1].content
  BY <1>1, <1>2, <1>3, <1>4, <1>5, <1>6, <1>7 DEF Write
<1> QED BY <1>8 DEF h, g

LEMMA LifecycleLengths ==
  ASSUME IInv, Lifecycle, NEW x \in Memories
  PROVE  Len(versions'[x]) = Len(versions[x]) \/ Len(versions'[x]) = 0
<1> DEFINE h == versions[x]
           g == versions'[x]
<1>0. h \in Seq(Versions) /\ versions \in [Memories -> Seq(Versions)]
  BY WellFormed DEF IInv, TypeOK
<1>1. ASSUME NEW m \in Memories, NEW t \in 1..(MaxTime + 1),
             MarkExpired(m, t) \/ LegacyClose(m, t)
      PROVE  Len(g) = Len(h)
  <2>1. g = h \/ g = Sealed(h, {activeVersion[m]}, t)
    BY <1>0, <1>1 DEF MarkExpired, LegacyClose
  <2> QED BY <1>0, <2>1, SealedLength
<1>2. ASSUME NEW m \in Memories, DeleteMemory(m) PROVE Len(g) = Len(h)
  <2>1. g = h \/ g = Sealed(h, 1..Len(h), now)
    BY <1>0, <1>2 DEF DeleteMemory
  <2> QED BY <1>0, <2>1, SealedLength
<1>3. ASSUME NEW batch \in SUBSET Memories,
             PurgeDeleted(batch) \/ ArchiveExpiredBatch(batch)
      PROVE  Len(g) = Len(h) \/ Len(g) = 0
  <2>1. g = h \/ g = << >>
    BY <1>3 DEF PurgeDeleted, ArchiveExpiredBatch
  <2>2. Len(<< >>) = 0
    OBVIOUS
  <2> QED BY <2>1, <2>2
<1> QED BY <1>1, <1>2, <1>3 DEF Lifecycle

LEMMA NextDistinct ==
  ASSUME IInv, [Next]_vars, NEW x \in Memories, Distinct(versions[x])
  PROVE  Distinct(versions'[x])
<1> DEFINE h == versions[x]
           g == versions'[x]
<1>1. /\ h \in Seq(Versions) /\ g \in Seq(Versions)
      /\ Coherent(status'[x], activeVersion'[x], g)
      /\ status'[x] # "purged" => Preserves(g, h)
  BY WellFormed, NextKeeps DEF Kept
<1>2. \/ Len(g) = Len(h) \/ Len(g) = 1 \/ Len(g) = 0
      \/ /\ Len(g) = Len(h) + 1
         /\ \A k \in 1..Len(h) : h[k].content # g[Len(h) + 1].content
  BY WriteLengths, LifecycleLengths DEF Next, Tick, vars
<1>3. status'[x] = "purged" => Len(g) = 0
  BY <1>1 DEF Coherent
<1> HIDE DEF h, g
<1>4. Len(h) \in Nat /\ Len(g) \in Nat
  BY <1>1
<1>5. CASE Len(g) = 0 \/ Len(g) = 1
  BY <1>4, <1>5 DEF Distinct, g
<1>6. CASE Len(g) # 0 /\ Len(g) # 1
  <2>1. Preserves(g, h)
    BY <1>1, <1>3, <1>6
  <2>2. \A k \in 1..Len(h) : g[k].content = h[k].content
    BY <2>1 DEF Preserves
  <2>3. Distinct(h)
    BY DEF h
  <2>4. CASE Len(g) = Len(h)
    <3>1. Distinct(g)
      BY <2>2, <2>3, <2>4 DEF Distinct
    <3> QED BY <3>1 DEF g
  <2>5. CASE /\ Len(g) = Len(h) + 1
             /\ \A k \in 1..Len(h) : h[k].content # g[Len(h) + 1].content
    <3>1. \A k \in 1..Len(g) : k \in 1..Len(h) \/ k = Len(h) + 1
      BY <1>4, <2>5
    <3>2. Distinct(g)
      BY <2>2, <2>3, <2>5, <3>1 DEF Distinct
    <3> QED BY <3>2 DEF g
  <2> QED BY <1>2, <1>6, <2>4, <2>5
<1> QED BY <1>4, <1>5, <1>6

\* The subject of a memory is its subject for good.
LEMMA NextSubject ==
  ASSUME IInv, [Next]_vars, NEW x \in Memories, status[x] # "absent"
  PROVE  subject'[x] = subject[x]
<1>1. CASE Write
  BY <1>1 DEF Write, AddRecord, AddVersion, AttachSources, ReplaceActive, MayReplace,
     Supersede, AddSource, AddRelation, IInv, TypeOK
<1>2. CASE Lifecycle \/ Tick \/ UNCHANGED vars
  BY <1>2 DEF Lifecycle, MarkExpired, LegacyClose, DeleteMemory, PurgeDeleted,
     ArchiveExpiredBatch, Tick, vars
<1> QED BY <1>1, <1>2 DEF Next

\* Nobody else has changed a source of p, and both were active.
Undisturbed(p) ==
  proposal[p].suggestion # None /\ OfActive(p) /\ p \notin touched

First(p) == Pair(p)[1]
Text(p) == proposal[p].suggestion.content

\* v is a version of memory a, with history h, and says c.
Says(v, a, h, c) == \E k \in 1..Len(h) : v = <<a, k>> /\ h[k].content = c
Tells(v, p) == Says(v, First(p), versions[First(p)], Text(p))

\* What was written for p and what its row names is the approved content.
RowMerges(p) ==
  /\ proposal[p].suggestion = None => written[p] = {} /\ proposal[p].applied = None
  /\ Undisturbed(p) =>
       /\ \A i \in {1, 2} : status[Pair(p)[i]] = "active"
       /\ \A v \in written[p] : Tells(v, p)
       /\ proposal[p].applied # None => Tells(proposal[p].applied, p)

\* An operator in state x is on the way to the first source with that content.
OperatorMerges(x) ==
  x.on # None /\ Undisturbed(x.on) =>
    /\ x.version # None => Tells(x.version, x.on)
    /\ x.at \in Working =>
         /\ x.candidate.content = Text(x.on)
         /\ x.candidate.subject = subject[First(x.on)]
         /\ x.candidate.proposal = "update"
    /\ x.at \in Planned =>
         x.plan # "add" /\ x.found # None /\ x.found.memory = First(x.on)
    /\ x.at = "attach" => Latest(First(x.on)).content = Text(x.on)

MergeInv ==
  /\ \A m \in Memories : Distinct(versions[m])
  /\ \A p \in Slots : RowMerges(p)
  /\ \A r \in Reviewers : OperatorMerges(review[r])

\* The sources of p stay what they are, but for what p itself writes.
SourcesStay(p) ==
  /\ \A i \in {1, 2} : status'[Pair(p)[i]] = "active"
  /\ subject'[First(p)] = subject[First(p)]
  /\ Preserves(versions'[First(p)], versions[First(p)])
  /\ Latest(First(p)).content = Text(p) =>
       versions'[First(p)][activeVersion'[First(p)]].content = Text(p)

LEMMA SourcesOf ==
  ASSUME RInv, NEW p \in Slots, proposal[p].suggestion # None
  PROVE  /\ proposal[p].suggestion \in Suggestion
         /\ Pair(p) \in Memories \X Memories /\ First(p) \in Memories
         /\ \A i \in {1, 2} : Pair(p)[i] \in Memories
<1>1. proposal[p].suggestion \in Suggestion
  BY DEF RInv, RowsTyped, ProposalType
<1> QED BY <1>1 DEF Suggestion, Pairs, Pair, First

\* A memory that did not move says what it said.
LEMMA StillSources ==
  ASSUME RInv, MergeInv, [Next]_vars, NEW p \in Slots, Undisturbed(p),
         \A i \in {1, 2} : ~Moved(Pair(p)[i])
  PROVE  SourcesStay(p)
<1> DEFINE a == First(p)
<1>1. /\ proposal[p].suggestion # None
      /\ \A i \in {1, 2} : status[Pair(p)[i]] = "active"
  BY DEF MergeInv, RowMerges, Undisturbed
<1>2. a \in Memories /\ status[a] = "active"
  BY <1>1, SourcesOf DEF First
<1>3. \A i \in {1, 2} : status'[Pair(p)[i]] = "active"
  BY <1>1 DEF Moved
<1>4. activeVersion'[a] = activeVersion[a] /\ status'[a] = "active"
  BY <1>3 DEF Moved, First
<1>5. subject'[a] = subject[a]
  BY <1>2, NextSubject DEF RInv
<1>6. Preserves(versions'[a], versions[a])
  <2>1. Kept(a)
    BY <1>2, NextKeeps DEF RInv
  <2> QED BY <1>4, <2>1 DEF Kept
<1>7. activeVersion[a] \in 1..Len(versions[a])
  BY <1>2, HasCurrentVersion DEF RInv, Exists
<1>8. versions'[a][activeVersion'[a]].content = Latest(a).content
  BY <1>4, <1>6, <1>7 DEF Preserves, Latest
<1> QED BY <1>3, <1>5, <1>6, <1>8 DEF SourcesStay

LEMMA UntouchedStay ==
  ASSUME RInv, MergeInv, [Next]_vars, NEW own, Touch(own),
         NEW p \in Slots \ own, Undisturbed(p), p \notin touched'
  PROVE  SourcesStay(p)
<1>1. proposal[p].status # "none"
  BY DEF RInv, RowSound, Undisturbed
<1>2. \A m \in {Pair(p)[1], Pair(p)[2]} : ~Moved(m)
  BY <1>1 DEF Touch, Moved
<1> QED BY <1>2, StillSources

\* What r is about to write for a proposal that nobody disturbs.
LEMMA OwnPlan ==
  ASSUME RInv, MergeInv, NEW r \in Reviewers, At(r) \in Planned, Undisturbed(On(r))
  PROVE  /\ On(r) \in Slots /\ First(On(r)) \in Memories
         /\ review[r].candidate.content = Text(On(r))
         /\ review[r].plan # "add" /\ review[r].found.memory = First(On(r))
         /\ At(r) = "attach" => Latest(First(On(r))).content = Text(On(r))
<1>1. On(r) \in Slots /\ On(r) # None
  BY AtWork, NoneAssumption DEF Planned
<1>2. First(On(r)) \in Memories
  BY <1>1, SourcesOf DEF Undisturbed
<1>3. OperatorMerges(review[r])
  BY DEF MergeInv
<1> QED BY <1>1, <1>2, <1>3 DEF OperatorMerges, Working, At, On

LEMMA OwnStay ==
  ASSUME RInv, MergeInv, NEW r \in Reviewers,
         ApplyAdd(r) \/ ApplyAttach(r) \/ ApplyExtend(r), Undisturbed(On(r))
  PROVE  SourcesStay(On(r))
<1> DEFINE p == On(r)
           a == First(p)
<1>1. /\ p \in Slots /\ a \in Memories /\ review[r].candidate.content = Text(p)
      /\ review[r].plan # "add" /\ review[r].found.memory = a
  BY OwnPlan DEF ApplyAdd, ApplyAttach, ApplyExtend, Planned
<1>2. [Next]_vars
  BY ReviewIsStep DEF Review, Next
<1>3. CASE ApplyAdd(r)
  BY <1>1, <1>3 DEF ApplyAdd
<1>4. CASE ApplyAttach(r)
  <2>1. \A i \in {1, 2} : ~Moved(Pair(p)[i])
    BY <1>4 DEF ApplyAttach, AttachSources, Moved
  <2> QED BY <1>1, <1>2, <2>1, StillSources
<1>5. CASE ApplyExtend(r)
  <2>1. status' = status /\ subject' = subject
    BY <1>5 DEF ApplyExtend, AddVersion
  <2>2. \A i \in {1, 2} : status'[Pair(p)[i]] = "active"
    BY <1>1, <2>1 DEF MergeInv, RowMerges
  <2>3. status[a] = "active"
    BY <2>1, <2>2 DEF First
  <2>4. Preserves(versions'[a], versions[a])
    <3>1. Kept(a)
      BY <1>1, <1>2, NextKeeps DEF RInv
    <3> QED BY <2>1, <2>3, <3>1 DEF Kept
  <2>5. MayExtend(a, Request(review[r].candidate))
    BY <1>1, <1>5 DEF ApplyExtend, AddVersion
  <2>6. \A k \in 1..Len(versions[a]) : versions[a][k].content # Text(p)
    BY <1>1, <2>5 DEF MayExtend, Request
  <2>7. Latest(a).content # Text(p)
    <3>1. activeVersion[a] \in 1..Len(versions[a])
      BY <1>1, <2>3, HasCurrentVersion DEF RInv, Exists
    <3> QED BY <2>6, <3>1 DEF Latest
  <2> QED BY <2>1, <2>2, <2>4, <2>7 DEF SourcesStay
<1> QED BY <1>3, <1>4, <1>5

\* In every step.
LEMMA SourcesAlwaysStay ==
  ASSUME RInv, MergeInv, ProposalsNext, NEW p \in Slots, Undisturbed(p), p \notin touched'
  PROVE  SourcesStay(p)
<1>1. [Next]_vars
  BY StepOfStore
<1>2. CASE UNCHANGED vars
  <2>1. \A i \in {1, 2} : ~Moved(Pair(p)[i])
    BY <1>2 DEF vars, Moved
  <2> QED BY <1>1, <2>1, StillSources
<1>3. CASE Others
  BY <1>1, <1>3, UntouchedStay DEF Others
<1>4. ASSUME NEW r \in Reviewers, ApplyAdd(r) \/ ApplyAttach(r) \/ ApplyExtend(r)
      PROVE  SourcesStay(p)
  <2>1. CASE p = On(r)
    BY <1>4, <2>1, OwnStay
  <2>2. CASE p # On(r)
    <3>1. Touch({On(r)}) /\ p \in Slots \ {On(r)}
      BY <1>4, <2>2 DEF ApplyAdd, ApplyAttach, ApplyExtend
    <3> QED BY <1>1, <3>1, UntouchedStay
  <2> QED BY <2>1, <2>2
<1>5. \/ UNCHANGED vars \/ Others
      \/ \E r \in Reviewers : ApplyAdd(r) \/ ApplyAttach(r) \/ ApplyExtend(r)
  BY DEF ProposalsNext, Scan, Propose, ScanEnds, Review, Command, Ask, Set, Load,
     Verify, Build, MakePlan, ApplyNothing, Inspect, Stop
<1> QED BY <1>2, <1>3, <1>4, <1>5

LEMMA WasUndisturbed ==
  ASSUME ProposalsMove, NEW p \in Slots, proposal[p].suggestion # None, Undisturbed(p)'
  PROVE  /\ Undisturbed(p) /\ p \notin touched'
         /\ First(p)' = First(p) /\ Text(p)' = Text(p) /\ Pair(p)' = Pair(p)
<1>1. /\ proposal'[p].suggestion = proposal[p].suggestion
      /\ proposal'[p].seen = proposal[p].seen
  BY DEF ProposalsMove
<1>2. p \notin touched' /\ p \notin touched
  BY DEF Undisturbed, ProposalsMove
<1> QED BY <1>1, <1>2 DEF Undisturbed, OfActive, First, Text, Pair

\* What is written, and what an operator who waits knows, remains true.
LEMMA MergesStay ==
  ASSUME RInv, MergeInv, ProposalsNext, ProposalsMove, NEW p \in Slots,
         proposal[p].suggestion # None, Undisturbed(p)'
  PROVE  /\ \A i \in {1, 2} : status'[Pair(p)'[i]] = "active"
         /\ \A v : Tells(v, p) => Tells(v, p)'
         /\ \A x \in ReviewType : x.on = p /\ OperatorMerges(x) => OperatorMerges(x)'
<1>1. /\ Undisturbed(p) /\ p \notin touched'
      /\ First(p)' = First(p) /\ Text(p)' = Text(p) /\ Pair(p)' = Pair(p)
  BY WasUndisturbed
<1>2. SourcesStay(p)
  BY <1>1, SourcesAlwaysStay
<1>3. \A v : Tells(v, p) => Tells(v, p)'
  <2> SUFFICES ASSUME NEW v, Tells(v, p) PROVE Tells(v, p)'
    OBVIOUS
  <2> DEFINE h == versions[First(p)]
             g == versions'[First(p)]
  <2>1. PICK k \in 1..Len(h) : v = <<First(p), k>> /\ h[k].content = Text(p)
    BY DEF Tells, Says
  <2>2. /\ Len(g) >= Len(h)
        /\ \A j \in 1..Len(h) : g[j].content = h[j].content
    BY <1>2 DEF SourcesStay, Preserves
  <2>3. Len(h) \in Nat /\ Len(g) \in Nat
    <3>1. First(p) \in Memories
      BY SourcesOf
    <3>2. h \in Seq(Versions) /\ g \in Seq(Versions)
      BY <3>1, WellFormed, StepOfStore, NextKeeps DEF RInv, Kept
    <3> QED BY <3>2
  <2> HIDE DEF h, g
  <2>4. k \in 1..Len(g) /\ g[k].content = Text(p)
    BY <2>1, <2>2, <2>3
  <2> QED BY <1>1, <2>1, <2>4 DEF Tells, Says, g
<1>4. ASSUME NEW x \in ReviewType, x.on = p, OperatorMerges(x)
      PROVE  OperatorMerges(x)'
  <2>1. p # None
    BY NoneAssumption
  <2>2. /\ x.version # None => Tells(x.version, p)
        /\ x.at \in Working =>
             /\ x.candidate.content = Text(p)
             /\ x.candidate.subject = subject[First(p)]
             /\ x.candidate.proposal = "update"
        /\ x.at \in Planned =>
             x.plan # "add" /\ x.found # None /\ x.found.memory = First(p)
        /\ x.at = "attach" => Latest(First(p)).content = Text(p)
    BY <1>1, <1>4, <2>1 DEF OperatorMerges
  <2>3. subject'[First(p)] = subject[First(p)]
    BY <1>2 DEF SourcesStay
  <2>4. x.at = "attach" => versions'[First(p)][activeVersion'[First(p)]].content = Text(p)
    BY <1>2, <2>2 DEF SourcesStay
  <2>5. x.version # None => Tells(x.version, p)'
    BY <1>3, <2>2
  <2> QED BY <1>1, <1>4, <2>2, <2>3, <2>4, <2>5 DEF OperatorMerges, Latest
<1> QED BY <1>1, <1>2, <1>3, <1>4 DEF SourcesStay

LEMMA SameOperator ==
  ASSUME NEW r, NEW z, review'[r] = z, OperatorMerges(z)'
  PROVE  OperatorMerges(review[r])'
BY DEF OperatorMerges, Undisturbed, OfActive, Tells, Text, First, Pair, Latest

\* Carrying out the plan writes the approved content, into the first source.
LEMMA OwnWrites ==
  ASSUME RInv, MergeInv, NEW r \in Reviewers,
         ApplyNothing(r) \/ ApplyAdd(r) \/ ApplyAttach(r) \/ ApplyExtend(r),
         NEW p, p = On(r), Undisturbed(p)
  PROVE  \E ids, v : /\ Carries(r, ids, v)
                     /\ \A w \in ids : Tells(w, p)'
                     /\ v # None => Tells(v, p)'
<1> DEFINE a == First(p)
           c == review[r].candidate
           g == versions'[a]
<1>1. /\ p \in Slots /\ a \in Memories /\ c.content = Text(p)
      /\ review[r].plan # "add" /\ review[r].found.memory = a
      /\ At(r) = "attach" => Latest(a).content = Text(p)
  BY OwnPlan DEF ApplyNothing, ApplyAdd, ApplyAttach, ApplyExtend, Planned
<1>2. proposal' = proposal
  BY DEF ApplyNothing, ApplyAdd, ApplyAttach, ApplyExtend, Carries
<1>3. First(p)' = a /\ Text(p)' = Text(p)
  BY <1>2 DEF First, Text, Pair
<1>4. \A v : Tells(v, p)' <=> Says(v, a, g, Text(p))
  BY <1>3 DEF Tells
<1>5. CASE ApplyNothing(r)
  <2>1. Carries(r, {}, None)
    BY <1>5 DEF ApplyNothing
  <2> QED BY <2>1
<1>6. CASE ApplyAdd(r)
  BY <1>1, <1>6 DEF ApplyAdd
<1>7. CASE ApplyAttach(r)
  <2>1. /\ AttachSources(a, Request(c)) /\ Carries(r, {}, <<a, activeVersion[a]>>)
        /\ At(r) = "attach"
    BY <1>1, <1>7 DEF ApplyAttach
  <2>2. SourcesStay(p)
    BY <1>1, <1>7, OwnStay
  <2>3. g[activeVersion[a]].content = Text(p) /\ Len(g) >= Len(versions[a])
    BY <1>1, <2>1, <2>2 DEF AttachSources, SourcesStay, Preserves
  <2>4. activeVersion[a] \in 1..Len(versions[a])
    BY <1>1, <2>1, HasCurrentVersion DEF RInv, AttachSources, Active, Exists
  <2>5. Len(versions[a]) \in Nat /\ Len(g) \in Nat
    <3>1. [Next]_vars
      BY <1>7, ReviewIsStep DEF Review, Next
    <3>2. versions[a] \in Seq(Versions) /\ g \in Seq(Versions)
      BY <1>1, <3>1, WellFormed, NextKeeps DEF RInv, Kept
    <3> QED BY <3>2
  <2> HIDE DEF a, g
  <2>6. Says(<<a, activeVersion[a]>>, a, g, Text(p))
    BY <2>3, <2>4, <2>5 DEF Says
  <2> QED BY <1>4, <2>1, <2>6
<1>8. CASE ApplyExtend(r)
  <2> DEFINE n == Len(versions[a]) + 1
             s == Sealed(versions[a], {activeVersion[a]}, Request(c).from)
             row == RowOf(Request(c))
  <2>1. AddVersion(a, Request(c)) /\ Carries(r, {<<a, n>>}, <<a, n>>)
    BY <1>1, <1>8 DEF ApplyExtend
  <2>2. c \in CandidateType
    BY <1>8, AtWork DEF ApplyExtend, Working, Planned
  <2>3. Request(c) \in Requests
    BY <2>2, RequestType DEF RInv
  <2>4. versions \in [Memories -> Seq(Versions)] /\ versions[a] \in Seq(Versions)
    BY <1>1 DEF RInv, IInv, TypeOK
  <2>5. g = Append(s, row)
    BY <1>1, <2>1, <2>4 DEF AddVersion
  <2>6. s \in Seq(Versions) /\ Len(s) = Len(versions[a]) /\ row \in Versions
    <3>1. Request(c).from \in 1..(MaxTime + 1)
      BY <2>3, StoreAssumption DEF Requests, Times
    <3> QED BY <2>3, <2>4, <3>1, SealedHistory, RowType
  <2>7. row.content = Text(p)
    BY <1>1 DEF RowOf, Row, Request
  <2>8. Len(g) = n /\ g[n] = row /\ n \in 1..n
    <3>1. Len(versions[a]) \in Nat
      BY <2>4
    <3>2. n \in 1..n
      BY <3>1
    <3> HIDE DEF s, row
    <3> QED BY <2>5, <2>6, <3>2, AppendHistory
  <2> HIDE DEF n, row, g, a
  <2>9. Says(<<a, n>>, a, g, Text(p))
    BY <2>7, <2>8 DEF Says
  <2> QED BY <1>4, <2>1, <2>9
<1> QED BY <1>5, <1>6, <1>7, <1>8

LEMMA MoverMerges ==
  ASSUME RInv, MergeInv, ProposalsNext, ProposalsMove, NEW r \in Reviewers, Review(r),
         NEW z \in ReviewType, review'[r] = z
  PROVE  OperatorMerges(z)'
<1> DEFINE y == review[r]
           p == z.on
<1>0. y \in ReviewType /\ Steady(y, proposal, carried) /\ OperatorMerges(y)
  BY AtWork DEF MergeInv
<1>a. \A x : Goes(r, x) => z = x
  BY DEF Goes, RInv, RowsTyped
<1> SUFFICES ASSUME p # None, Undisturbed(p)'
             PROVE  /\ z.version # None => Tells(z.version, p)'
                    /\ z.at \in Working =>
                         /\ z.candidate.content = Text(p)'
                         /\ z.candidate.subject = subject'[First(p)']
                         /\ z.candidate.proposal = "update"
                    /\ z.at \in Planned =>
                         z.plan # "add" /\ z.found # None /\ z.found.memory = First(p)'
                    /\ z.at = "attach" => Latest(First(p))'.content = Text(p)'
  BY DEF OperatorMerges, Latest
<1>1. p \in Slots
  BY DEF ReviewType
<1>2. CASE Leaves(r)
  <2>1. z = NoReview
    BY <1>2, <1>a DEF Leaves
  <2> QED BY <2>1 DEF NoReview
<1>3. CASE z.version = None /\ z.at \notin Working
  BY <1>3 DEF Working, Planned
<1>4. ASSUME p = y.on
      PROVE  /\ proposal[p].suggestion # None /\ Undisturbed(p)
             /\ First(p)' = First(p) /\ Text(p)' = Text(p)
             /\ y.version # None => Tells(y.version, p)
             /\ y.at \in Working =>
                  /\ y.candidate.content = Text(p)
                  /\ y.candidate.subject = subject[First(p)]
                  /\ y.candidate.proposal = "update"
             /\ y.at \in Planned =>
                  y.plan # "add" /\ y.found # None /\ y.found.memory = First(p)
             /\ \A v : Tells(v, p) => Tells(v, p)'
             /\ First(p) \in Memories /\ status[First(p)] = "active"
  <2>1. proposal[p].suggestion # None
    BY <1>0, <1>4 DEF Steady
  <2>2. Undisturbed(p) /\ First(p)' = First(p) /\ Text(p)' = Text(p)
    BY <1>1, <2>1, WasUndisturbed
  <2>3. \A v : Tells(v, p) => Tells(v, p)'
    BY <1>1, <2>1, MergesStay
  <2>4. First(p) \in Memories /\ status[First(p)] = "active"
    BY <1>1, <2>1, <2>2, SourcesOf DEF MergeInv, RowMerges, First
  <2> QED BY <1>0, <1>4, <2>1, <2>2, <2>3, <2>4 DEF OperatorMerges
<1>5. CASE z.on = y.on /\ z.version = y.version /\ z.at \notin Working
  BY <1>4, <1>5 DEF Working, Planned
<1>6. CASE \E q \in Slots : Command(r, q)
  <2>1. PICK q \in Slots : Command(r, q)
    BY <1>6
  <2> DEFINE late == q \in touched
             x == [NoReview EXCEPT !.on = q, !.late = late]
  <2>2. x \in ReviewType /\ x.version = None
    <3>1. late \in BOOLEAN
      OBVIOUS
    <3> HIDE DEF late
    <3> QED BY <3>1 DEF NoReview, ReviewType, Points, States, VersionIds
  <2> HIDE DEF x
  <2>3. \/ \E to \in {"approved", "rejected"} : z = [x EXCEPT !.at = "ask", !.to = to]
        \/ z = [x EXCEPT !.at = "apply"]
    BY <2>1, <1>a DEF Command, x
  <2>4. z.version = None /\ z.at \in {"ask", "apply"}
    BY <2>2, <2>3 DEF ReviewType
  <2> QED BY <1>3, <2>4 DEF Working, Planned
<1>7. CASE Ask(r) \/ Load(r) \/ Verify(r) \/ Set(r)
  <2>1. CASE \/ z = [y EXCEPT !.at = "set"] \/ z = [y EXCEPT !.at = "verify"]
             \/ z = [y EXCEPT !.at = "build"]
             \/ z = [y EXCEPT !.at = "ask", !.to = "expired"]
             \/ z = [y EXCEPT !.at = "ask", !.to = "applied"]
             \/ z = [y EXCEPT !.at = "apply", !.to = "none"]
    <3>1. /\ z.on = y.on /\ z.version = y.version
          /\ z.at \in {"set", "verify", "build", "ask", "apply"}
      BY <1>0, <2>1 DEF ReviewType
    <3> QED BY <1>5, <3>1 DEF Working, Planned
  <2>2. \/ Leaves(r)
        \/ Goes(r, [y EXCEPT !.at = "set"]) \/ Goes(r, [y EXCEPT !.at = "verify"])
        \/ Goes(r, [y EXCEPT !.at = "build"])
        \/ Goes(r, [y EXCEPT !.at = "ask", !.to = "expired"])
        \/ Goes(r, [y EXCEPT !.at = "ask", !.to = "applied"])
        \/ Goes(r, [y EXCEPT !.at = "apply", !.to = "none"])
    BY <1>7 DEF Ask, Load, Verify, Set
  <2> QED BY <1>2, <1>a, <2>1, <2>2
<1>8. CASE Build(r) /\ ~Leaves(r)
  <2>1. PICK c : /\ Goes(r, [y EXCEPT !.at = "lookup", !.candidate = c])
                 /\ c.content = Text(y.on) /\ c.proposal = "update"
                 /\ Exists(First(y.on)) => c.subject = subject[First(y.on)]
    <3> DEFINE q == y.on
               pr == Pair(q)
               left == {m \in {pr[1], pr[2]} : Exists(m)}
               first == IF Exists(pr[1]) THEN pr[1] ELSE pr[2]
               best == CHOOSE m \in left : \A n \in left : confidence[m] >= confidence[n]
               c == [subject |-> subject[first],
                     content |-> proposal[q].suggestion.content,
                     sources |-> UNION {Latest(m).sources : m \in left},
                     verified |-> FALSE, confidence |-> confidence[best],
                     proposal |-> "update"]
    <3>1. Goes(r, [y EXCEPT !.at = "lookup", !.candidate = c])
      BY <1>8 DEF Build, On
    <3>2. c.content = Text(q) /\ c.proposal = "update" /\ c.subject = subject[first]
      BY DEF Text
    <3>3. Exists(First(q)) => first = First(q)
      BY DEF First
    <3> HIDE DEF c, first
    <3> QED BY <3>1, <3>2, <3>3
  <2>2. z = [y EXCEPT !.at = "lookup", !.candidate = c]
    BY <1>a, <2>1
  <2>3. z.at = "lookup" /\ z.candidate = c /\ z.on = y.on /\ z.version = y.version
    BY <1>0, <2>2 DEF ReviewType
  <2>4. UNCHANGED vars
    BY <1>8 DEF Build
  <2>5. subject' = subject
    BY <2>4 DEF vars
  <2>6. c.subject = subject[First(p)]
    BY <1>4, <2>1, <2>3 DEF Exists
  <2> QED BY <1>4, <2>1, <2>3, <2>5, <2>6 DEF Planned
<1>9. CASE MakePlan(r)
  <2>1. PICK f \in Current(y.candidate.subject) :
          Goes(r, [y EXCEPT !.at = "planned", !.found = f,
                            !.plan = Decide(y.candidate, f, {})])
    BY <1>9 DEF MakePlan
  <2> DEFINE d == Decide(y.candidate, f, {})
  <2>2. z = [y EXCEPT !.at = "planned", !.found = f, !.plan = d]
    BY <1>a, <2>1
  <2> HIDE DEF d
  <2>3. /\ z.at = "planned" /\ z.found = f /\ z.plan = d
        /\ z.on = y.on /\ z.version = y.version /\ z.candidate = y.candidate
    BY <1>0, <2>2 DEF ReviewType
  <2>4. UNCHANGED vars /\ y.at = "lookup"
    BY <1>9 DEF MakePlan, At
  <2>5. subject' = subject
    BY <2>4 DEF vars
  <2>6. /\ First(p) \in Memories /\ Active(First(p))
        /\ subject[First(p)] = y.candidate.subject
    BY <1>4, <2>3, <2>4 DEF Active, Working
  <2>7. f # None /\ f.memory = First(p)
    <3>1. ~SubjectFree(y.candidate.subject)
      BY <2>6 DEF SubjectFree
    <3>2. PICK m \in Memories :
            /\ Active(m) /\ subject[m] = y.candidate.subject
            /\ f = [memory |-> m, version |-> activeVersion[m],
                    content |-> versions[m][activeVersion[m]].content,
                    verified |-> versions[m][activeVersion[m]].verified,
                    confidence |-> confidence[m]]
      BY <3>1 DEF Current
    <3>3. m = First(p)
      BY <2>6, <3>2 DEF RInv, IInv, OneActive
    <3>4. f.memory = m
      BY <3>2
    <3>5. f # None
      <4>1. y.candidate.subject \in Subjects
        BY <1>0, <2>4, AtWork DEF Working, At, CandidateType
      <4>2. activeVersion[m] \in 1..MaxVersions /\ Latest(m) \in Versions
        BY <3>2, LatestType DEF RInv, Active, Exists
      <4>3. confidence[m] \in 0..MaxConfidence
        BY DEF RInv, IInv, TypeOK
      <4>4. f \in Found
        BY <3>2, <4>2, <4>3 DEF Found, Versions, Latest
      <4> QED BY <4>4, NoneAssumption
    <3> QED BY <3>3, <3>4, <3>5
  <2>8. d # "add"
    BY <2>7 DEF d, Decide
  <2> QED BY <1>4, <2>3, <2>4, <2>5, <2>7, <2>8 DEF Working
<1>10. CASE Inspect(r)
  <2> DEFINE m == y.found.memory
             same == Exists(m) /\ Latest(m).content = y.candidate.content
  <2>1. /\ UNCHANGED <<vars, proposal>> /\ y.at = "planned"
        /\ Goes(r, [y EXCEPT !.at = IF same THEN "attach" ELSE "extend"])
    BY <1>10 DEF Inspect, At
  <2>2. PICK at \in {"attach", "extend"} :
          z = [y EXCEPT !.at = at] /\ (at = "attach" => same)
    <3> HIDE DEF same
    <3> QED BY <1>a, <2>1
  <2>3. /\ z.at = at /\ z.found = y.found /\ z.plan = y.plan
        /\ z.on = y.on /\ z.version = y.version /\ z.candidate = y.candidate
    BY <1>0, <2>2 DEF ReviewType
  <2>4. Latest(First(p))' = Latest(First(p)) /\ subject' = subject
    BY <1>4, <2>1, <2>3 DEF Latest, vars
  <2>5. at = "attach" => Latest(First(p)).content = Text(p)
    BY <1>4, <2>1, <2>2, <2>3 DEF Planned, Working
  <2> QED BY <1>4, <2>1, <2>3, <2>4, <2>5 DEF Planned, Working
<1>11. CASE ApplyNothing(r) \/ ApplyAdd(r) \/ ApplyAttach(r) \/ ApplyExtend(r)
  <2>1. PICK ids, v : Carries(r, ids, v)
    BY <1>11 DEF ApplyNothing, ApplyAdd, ApplyAttach, ApplyExtend
  <2>2. z = MarkApplied(r, v)
    BY <1>a, <2>1 DEF Carries
  <2>3. z.on = y.on
    BY <2>2 DEF MarkApplied, NoReview, On
  <2>4. Undisturbed(p)
    BY <1>4, <2>3
  <2>5. PICK jds, w : Carries(r, jds, w) /\ (w # None => Tells(w, p)')
    BY <1>11, <2>3, <2>4, OwnWrites DEF On
  <2>6. z = MarkApplied(r, w)
    BY <1>a, <2>5 DEF Carries
  <2>7. z.version = w /\ z.at = "ask"
    BY <2>6 DEF MarkApplied, NoReview
  <2> QED BY <2>5, <2>7 DEF Working, Planned
<1>12. CASE Stop(r)
  BY <1>2, <1>12 DEF Stop
<1> QED BY <1>2, <1>6, <1>7, <1>8, <1>9, <1>10, <1>11, <1>12 DEF Review

\* What a step does to the row of p and to what was written for it.
LEMMA RowSteps ==
  ASSUME RInv, ProposalsNext, NEW p \in Slots
  PROVE  /\ \/ written'[p] = written[p]
            \/ \E r \in Reviewers :
                 /\ ApplyNothing(r) \/ ApplyAdd(r) \/ ApplyAttach(r) \/ ApplyExtend(r)
                 /\ p = On(r)
         /\ \/ proposal'[p] = proposal[p]
            \/ \E r \in Reviewers :
                 /\ p = On(r) /\ At(r) = "set"
                 /\ proposal'[p].applied = review[r].version
                 /\ written' = written
            \/ \E x \in scan :
                 /\ proposal[p].suggestion = None
                 /\ UNCHANGED <<vars, written, touched>>
                 /\ proposal'[p] = [status |-> "pending", suggestion |-> x,
                      applied |-> None,
                      seen |-> <<Fingerprint(x.pair[1]), Fingerprint(x.pair[2])>>]
<1>0. /\ proposal \in [Slots -> ProposalType]
      /\ written \in [Slots -> SUBSET VersionIds]
  BY DEF RInv, RowsTyped
<1>1. CASE Scan \/ ScanEnds \/ Others
  BY <1>1 DEF Scan, ScanEnds, Others
<1>2. ASSUME NEW x \in scan, Propose(x)
      PROVE  /\ written' = written
             /\ \/ proposal'[p] = proposal[p]
                \/ /\ proposal[p].suggestion = None
                   /\ UNCHANGED <<vars, written, touched>>
                   /\ proposal'[p] = [status |-> "pending", suggestion |-> x,
                        applied |-> None,
                        seen |-> <<Fingerprint(x.pair[1]), Fingerprint(x.pair[2])>>]
  <2>1. UNCHANGED <<vars, written, touched>>
    BY <1>2 DEF Propose
  <2>2. CASE UNCHANGED proposal
    BY <2>1, <2>2
  <2>3. ASSUME NEW q \in Slots, proposal[q].status = "none",
               proposal' = [proposal EXCEPT ![q] =
                 [status |-> "pending", suggestion |-> x, applied |-> None,
                  seen |-> <<Fingerprint(x.pair[1]), Fingerprint(x.pair[2])>>]]
        PROVE  \/ proposal'[p] = proposal[p]
               \/ /\ proposal[p].suggestion = None
                  /\ proposal'[p] = [status |-> "pending", suggestion |-> x,
                       applied |-> None,
                       seen |-> <<Fingerprint(x.pair[1]), Fingerprint(x.pair[2])>>]
    <3>1. CASE p = q
      <4>1. proposal[p].suggestion = None
        BY <2>3, <3>1 DEF RInv, RowSound
      <4> QED BY <1>0, <2>3, <3>1, <4>1
    <3>2. CASE p # q
      BY <1>0, <2>3, <3>2
    <3> QED BY <3>1, <3>2
  <2> QED BY <1>2, <2>1, <2>2, <2>3 DEF Propose
<1>3. ASSUME NEW r \in Reviewers, Set(r)
      PROVE  /\ written' = written
             /\ \/ proposal'[p] = proposal[p]
                \/ /\ p = On(r) /\ At(r) = "set"
                   /\ proposal'[p].applied = review[r].version
  <2>1. \/ proposal' = proposal
        \/ proposal' = [proposal EXCEPT ![On(r)].status = review[r].to,
                                        ![On(r)].applied = review[r].version]
    BY <1>3 DEF Set
  <2>2. At(r) = "set" /\ written' = written
    BY <1>3 DEF Set
  <2>3. CASE proposal' = [proposal EXCEPT ![On(r)].status = review[r].to,
                                          ![On(r)].applied = review[r].version]
    <3>1. CASE p = On(r)
      <4>1. proposal'[p] = [proposal[p] EXCEPT !.status = review[r].to,
                                               !.applied = review[r].version]
        BY <1>0, <2>3, <3>1
      <4>2. proposal'[p].applied = review[r].version
        BY <1>0, <4>1 DEF ProposalType
      <4> QED BY <2>2, <3>1, <4>2
    <3>2. CASE p # On(r)
      BY <1>0, <2>2, <2>3, <3>2
    <3> QED BY <3>1, <3>2
  <2> QED BY <2>1, <2>2, <2>3
<1>4. ASSUME NEW r \in Reviewers,
             ApplyNothing(r) \/ ApplyAdd(r) \/ ApplyAttach(r) \/ ApplyExtend(r)
      PROVE  proposal' = proposal /\ (p = On(r) \/ written'[p] = written[p])
  BY <1>0, <1>4 DEF ApplyNothing, ApplyAdd, ApplyAttach, ApplyExtend, Carries
<1>5. ASSUME NEW r \in Reviewers,
             \/ \E q \in Slots : Command(r, q)
             \/ Ask(r) \/ Load(r) \/ Verify(r) \/ Build(r) \/ MakePlan(r)
             \/ Inspect(r) \/ Stop(r)
      PROVE  UNCHANGED <<proposal, written>>
  BY <1>5 DEF Command, Ask, Load, Verify, Build, MakePlan, Inspect, Stop
<1>6. ASSUME NEW r \in Reviewers, Review(r)
      PROVE  \/ Set(r)
             \/ ApplyNothing(r) \/ ApplyAdd(r) \/ ApplyAttach(r) \/ ApplyExtend(r)
             \/ UNCHANGED <<proposal, written>>
  BY <1>5, <1>6 DEF Review
<1> QED BY <1>1, <1>2, <1>3, <1>4, <1>6 DEF ProposalsNext

LEMMA RowsMerge ==
  ASSUME RInv, MergeInv, ProposalsNext, ProposalsMove, NEW p \in Slots
  PROVE  RowMerges(p)'
<1> DEFINE Applies(r) ==
             ApplyNothing(r) \/ ApplyAdd(r) \/ ApplyAttach(r) \/ ApplyExtend(r)
<1>0. RowMerges(p)
  BY DEF MergeInv
<1>w. \/ written'[p] = written[p]
      \/ \E r \in Reviewers : Applies(r) /\ p = On(r)
  BY RowSteps
<1>p. \/ proposal'[p] = proposal[p]
      \/ \E r \in Reviewers :
           /\ p = On(r) /\ At(r) = "set"
           /\ proposal'[p].applied = review[r].version
           /\ written' = written
      \/ \E x \in scan :
           /\ proposal[p].suggestion = None
           /\ UNCHANGED <<vars, written, touched>>
           /\ proposal'[p] = [status |-> "pending", suggestion |-> x,
                applied |-> None,
                seen |-> <<Fingerprint(x.pair[1]), Fingerprint(x.pair[2])>>]
  BY RowSteps
<1>o. \A r \in Reviewers : p = On(r) => proposal[p].suggestion # None
  BY AtWork, NoneAssumption DEF On, Steady
<1>1. CASE proposal[p].suggestion = None
  <2>1. written'[p] = {} /\ proposal[p].applied = None
    BY <1>0, <1>1, <1>w, <1>o DEF RowMerges
  <2>2. CASE proposal'[p] = proposal[p]
    <3>1. proposal'[p].suggestion = None /\ proposal'[p].applied = None
      BY <1>1, <2>1, <2>2
    <3> QED BY <2>1, <3>1 DEF RowMerges, Undisturbed
  <2>3. ASSUME NEW x \in scan, status' = status,
               proposal'[p] = [status |-> "pending", suggestion |-> x,
                 applied |-> None,
                 seen |-> <<Fingerprint(x.pair[1]), Fingerprint(x.pair[2])>>]
        PROVE  RowMerges(p)'
    <3>1. /\ proposal'[p].applied = None /\ proposal'[p].suggestion = x
          /\ proposal'[p].seen = <<Fingerprint(x.pair[1]), Fingerprint(x.pair[2])>>
      BY <2>3
    <3>2. ASSUME NEW i \in {1, 2}, proposal'[p].seen[i].status = "active"
          PROVE  status'[x.pair[i]] = "active"
      <4>1. Fingerprint(x.pair[i]).status = "active"
        BY <3>1, <3>2
      <4> QED BY <2>3, <4>1 DEF Fingerprint, Missing
    <3> QED BY <2>1, <3>1, <3>2 DEF RowMerges, Undisturbed, OfActive, Pair
  <2>4. status' = status \/ ~UNCHANGED vars
    BY DEF vars
  <2> QED BY <1>1, <1>p, <1>o, <2>2, <2>3, <2>4
<1>2. CASE proposal[p].suggestion # None
  <2>1. proposal'[p].suggestion # None
    BY <1>2 DEF ProposalsMove
  <2> SUFFICES ASSUME Undisturbed(p)'
               PROVE  /\ \A i \in {1, 2} : status'[Pair(p)'[i]] = "active"
                      /\ \A v \in written'[p] : Tells(v, p)'
                      /\ proposal'[p].applied # None =>
                           \A v : v = proposal'[p].applied => Tells(v, p)'
    <3>1. (\A v : v = proposal'[p].applied => Tells(v, p)') =>
            Tells(proposal[p].applied, p)'
      BY DEF Tells
    <3> QED BY <2>1, <3>1 DEF RowMerges
  <2>2. /\ \A i \in {1, 2} : status'[Pair(p)'[i]] = "active"
        /\ \A v : Tells(v, p) => Tells(v, p)'
    BY <1>2, MergesStay
  <2>3. Undisturbed(p)
    BY <1>2, WasUndisturbed
  <2>4. /\ \A v \in written[p] : Tells(v, p)
        /\ proposal[p].applied # None => Tells(proposal[p].applied, p)
    BY <1>0, <2>3 DEF RowMerges
  <2>5. ASSUME NEW v \in written'[p] PROVE Tells(v, p)'
    <3>1. CASE v \in written[p]
      BY <2>2, <2>4, <3>1
    <3>2. CASE v \notin written[p]
      <4>1. PICK r \in Reviewers : Applies(r) /\ p = On(r)
        BY <1>w, <2>5, <3>2
      <4>2. PICK ids, u : Carries(r, ids, u) /\ \A w \in ids : Tells(w, p)'
        BY <2>3, <4>1, OwnWrites
      <4>3. written'[p] = written[p] \cup ids
        BY <4>1, <4>2 DEF Carries, RInv, RowsTyped
      <4> QED BY <2>5, <3>2, <4>2, <4>3
    <3> QED BY <3>1, <3>2
  <2>6. ASSUME NEW v, v = proposal'[p].applied, v # None PROVE Tells(v, p)'
    <3>1. CASE proposal'[p] = proposal[p]
      BY <2>2, <2>4, <2>6, <3>1
    <3>2. ASSUME NEW r \in Reviewers, p = On(r), v = review[r].version
          PROVE  Tells(v, p)'
      <4>1. OperatorMerges(review[r]) /\ p # None
        BY NoneAssumption DEF MergeInv
      <4>2. Tells(v, p)
        BY <2>3, <2>6, <3>2, <4>1 DEF OperatorMerges, On
      <4> QED BY <2>2, <4>2
    <3> QED BY <1>2, <1>p, <2>6, <3>1, <3>2
  <2> QED BY <2>2, <2>5, <2>6
<1> QED BY <1>1, <1>2

LEMMA MergeNext ==
  ASSUME RInv, MergeInv, ProposalsNext
  PROVE  MergeInv'
<1>1. RInv' /\ ProposalsMove /\ [Next]_vars
  BY AllMove, StepOfStore
<1>2. \A m \in Memories : Distinct(versions'[m])
  BY <1>1, NextDistinct DEF RInv, MergeInv
<1>3. \A p \in Slots : RowMerges(p)'
  BY <1>1, RowsMerge
<1>4. ASSUME NEW q \in Reviewers PROVE OperatorMerges(review[q])'
  <2>1. review'[q] \in ReviewType /\ review[q] \in ReviewType
    BY <1>1 DEF RInv, RowsTyped
  <2>2. PICK z \in ReviewType : review'[q] = z
    BY <2>1
  <2>3. CASE review'[q] = review[q]
    <3>1. review[q] = z
      BY <2>2, <2>3
    <3>2. OperatorMerges(z)
      BY <3>1 DEF MergeInv
    <3>3. OperatorMerges(z)'
      <4>1. CASE z.on = None
        BY <4>1 DEF OperatorMerges
      <4>2. CASE z.on # None
        <5>1. z.on \in Slots /\ proposal[z.on].suggestion # None
          BY <3>1, <4>2, AtWork DEF ReviewType, Steady
        <5>2. CASE Undisturbed(z.on)'
          BY <1>1, <3>2, <5>1, <5>2, MergesStay
        <5>3. CASE ~Undisturbed(z.on)'
          BY <5>3 DEF OperatorMerges
        <5> QED BY <5>2, <5>3
      <4> QED BY <4>1, <4>2
    <3> QED BY <2>2, <3>3, SameOperator
  <2>4. ASSUME NEW r \in Reviewers, Review(r), review'[q] # review[q]
        PROVE  OperatorMerges(review[q])'
    <3>1. PICK x : Goes(r, x)
      BY <2>4 DEF Review, Command, Ask, Set, Load, Verify, Build, MakePlan,
         ApplyNothing, ApplyAdd, Inspect, ApplyAttach, ApplyExtend, Stop,
         Carries, Leaves
    <3>2. q = r
      BY <2>4, <3>1 DEF Goes, RInv, RowsTyped
    <3>3. OperatorMerges(z)'
      BY <1>1, <2>2, <2>4, <3>2, MoverMerges
    <3> QED BY <2>2, <3>3, SameOperator
  <2>5. review' = review \/ \E r \in Reviewers : Review(r)
    BY DEF ProposalsNext, Scan, Propose, ScanEnds, Others
  <2> QED BY <2>3, <2>4, <2>5
<1> QED BY <1>2, <1>3, <1>4 DEF MergeInv

LEMMA MergeInvariant == ProposalsSpec => []MergeInv
<1>1. ProposalsInit => MergeInv
  <2> SUFFICES ASSUME ProposalsInit PROVE MergeInv
    OBVIOUS
  <2>1. ASSUME NEW m \in Memories PROVE Distinct(versions[m])
    <3>1. versions[m] = << >>
      BY DEF ProposalsInit, Init
    <3> QED BY <3>1 DEF Distinct
  <2>2. \A p \in Slots : RowMerges(p)
    BY DEF ProposalsInit, NoProposal, RowMerges, Undisturbed
  <2>3. \A r \in Reviewers : OperatorMerges(review[r])
    BY DEF ProposalsInit, NoReview, OperatorMerges
  <2> QED BY <2>1, <2>2, <2>3 DEF MergeInv
<1>2. ASSUME MergeInv, UNCHANGED allVars PROVE MergeInv'
  <2>1. /\ UNCHANGED <<status, subject, activeVersion, versions>>
        /\ UNCHANGED <<proposal, review, written, touched>>
    BY <1>2 DEF allVars, proposalVars, vars
  <2>2. \A m \in Memories : Distinct(versions'[m])
    BY <1>2, <2>1 DEF MergeInv
  <2>3. ASSUME NEW p \in Slots PROVE RowMerges(p)'
    <3>1. RowMerges(p)
      BY <1>2 DEF MergeInv
    <3> QED BY <2>1, <3>1 DEF RowMerges, Undisturbed, OfActive, Tells, Text, First, Pair
  <2>4. ASSUME NEW r \in Reviewers PROVE OperatorMerges(review[r])'
    <3>1. OperatorMerges(review[r])
      BY <1>2 DEF MergeInv
    <3> QED BY <2>1, <3>1 DEF OperatorMerges, Undisturbed, OfActive, Tells, Text,
               First, Pair, Latest
  <2> QED BY <2>2, <2>3, <2>4 DEF MergeInv
<1>3. RInv /\ MergeInv /\ [ProposalsNext]_allVars => MergeInv'
  BY <1>2, MergeNext
<1> QED BY <1>1, <1>3, ProposalsInvariant, PTL DEF ProposalsSpec

\* However many operators apply a proposal and however often it is retried: as
\* long as its sources were active and nobody else changes them, at most one
\* version is written for it, and what its row names has the approved content.
THEOREM MergesAtMostOnce == ProposalsSpec => []MergedOnce
<1>1. RInv /\ MergeInv => MergedOnce
  <2> SUFFICES ASSUME RInv, MergeInv, NEW p \in Slots, OfActive(p), p \notin touched
               PROVE  /\ Cardinality(written[p]) <= 1
                      /\ LET v == proposal[p].applied
                         IN  v # None => versions[v[1]][v[2]].content =
                                           proposal[p].suggestion.content
    BY DEF MergedOnce
  <2>1. RowMerges(p)
    BY DEF MergeInv
  <2>2. Cardinality({}) = 0
    BY FS_EmptySet
  <2>3. CASE proposal[p].suggestion = None
    BY <2>1, <2>2, <2>3 DEF RowMerges
  <2>4. CASE proposal[p].suggestion # None
    <3>1. /\ \A v \in written[p] : Tells(v, p)
          /\ proposal[p].applied # None => Tells(proposal[p].applied, p)
      BY <2>1, <2>4 DEF RowMerges, Undisturbed
    <3>2. First(p) \in Memories
      BY <2>4, SourcesOf
    <3>3. ASSUME NEW v \in written[p], NEW w \in written[p] PROVE v = w
      <4>1. Distinct(versions[First(p)])
        BY <3>2 DEF MergeInv
      <4> QED BY <3>1, <4>1 DEF Tells, Says, Distinct
    <3>4. Cardinality(written[p]) <= 1
      <4>1. CASE written[p] = {}
        BY <2>2, <4>1
      <4>2. ASSUME NEW v \in written[p] PROVE Cardinality(written[p]) <= 1
        <5>1. written[p] = {v}
          BY <3>3
        <5>2. Cardinality({v}) = 1
          BY FS_Singleton
        <5> QED BY <5>1, <5>2
      <4> QED BY <4>1, <4>2
    <3> QED BY <3>1, <3>4 DEF Tells, Says, Text
  <2> QED BY <2>3, <2>4
<1> QED BY <1>1, ProposalsInvariant, MergeInvariant, PTL

\* With all this, the store still refines its ledger of current facts.
THEOREM ProposalsKeepFacts == ProposalsSpec => ImplementsSubjectFacts
BY ProposalsImplementStore, StoreImplementsFacts
=============================================================================
