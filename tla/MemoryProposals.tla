-------------------------- MODULE MemoryProposals --------------------------
(***************************************************************************)
(* Proposals to tidy up the memory: ConsolidationJob                       *)
(* (memory/maintenance/jobs/consolidation.py) compares active memories and *)
(* proposes to merge those that say nearly the same, operators approve or  *)
(* reject (cli.py), and apply_proposal (proposals.py) carries an approved  *)
(* proposal out through plan_consolidation and apply_plan.                 *)
(*                                                                         *)
(* Every read and every write is a transaction of its own, so operators    *)
(* interleave with each other and with the users of the store, and may     *)
(* stop anywhere.  The records read one after the other by one function    *)
(* are read at once here.  The types supersede and conflict are left out:  *)
(* nothing creates the one, and the other needs two active memories of one *)
(* subject.  No model suggests contents (build_job passes none).  The      *)
(* clock stands still; what it would do to a memory is Edit's MarkExpired. *)
(***************************************************************************)
EXTENDS Consolidation

CONSTANTS
  Slots,       \* proposal ids
  Reviewers,   \* operators at work at the same time
  Incoming,    \* what the users of the store may state, with its subject
  MaxEdits     \* bound on the writes of the users of the store

Kinds == {"noop", "merge"}

ASSUME ProposalAssumption ==
  /\ Incoming \subseteq Subjects \X
       [content : Contents, sources : SUBSET Sources, verified : BOOLEAN,
        confidence : 0..MaxConfidence]
  /\ MaxEdits \in Nat

VARIABLES
  edits,      \* writes of the users of the store so far
  proposal,   \* rows of memory_maintenance_proposals
  scan,       \* pairs that a run of the Job has found and not yet proposed
  review,     \* what each operator is doing; late is history: a source had been
              \* changed when the operator set out
  carried,    \* history: the plans carried out for each proposal
  written,    \* history: the versions written for each proposal
  touched     \* history: proposals of which somebody else changed a source

proposalVars == <<edits, proposal, scan, review, carried, written, touched>>
allVars == <<vars, proposalVars>>

-----------------------------------------------------------------------------
States == {"none", "pending", "approved", "rejected", "applied", "expired"}

\* proposals_guard_transition; _ALLOWED_TRANSITIONS.
Allowed == {<<"pending", "approved">>, <<"pending", "rejected">>,
            <<"pending", "expired">>, <<"approved", "applied">>,
            <<"approved", "expired">>}
MayBecome_AnyStatus(old, new) == TRUE

\* The trigger lets the same status through.
MayBecome(old, new) == old = new \/ <<old, new>> \in Allowed

Missing == [status |-> "absent", version |-> 0, content |-> None]
Fingerprints == [status : Statuses, version : 0..MaxVersions,
           content : Contents \cup {None}]
VersionIds == (Memories \X (1..MaxVersions)) \cup {None}

Fingerprint_ContentOnly(m) ==
  IF Exists(m)
    THEN [status |-> "active", version |-> 1,
          content |-> versions[m][activeVersion[m]].content]
    ELSE Missing

\* capture_source_fingerprints, of one source.
Fingerprint(m) ==
  IF Exists(m)
    THEN [status |-> status[m], version |-> activeVersion[m],
          content |-> versions[m][activeVersion[m]].content]
    ELSE Missing

Pairs == {p \in Memories \X Memories : p[1] # p[2]}
Suggestion == [kind : Kinds, pair : Pairs, content : Contents \cup {None}]

ASSUME NoneAssumption ==
  None \notin Slots \cup CandidateType \cup Found \cup Decisions \cup Contents
    \cup Suggestion \cup (Memories \X (1..MaxVersions))

ProposalType ==
  [status : States, suggestion : Suggestion \cup {None},
   seen : Fingerprints \X Fingerprints, applied : VersionIds]
NoProposal == [status |-> "none", suggestion |-> None,
               seen |-> <<Missing, Missing>>, applied |-> None]

\* ask and set: store.transition, reading and writing.
Points == {"idle", "ask", "set", "apply", "verify", "build", "lookup",
           "planned", "attach", "extend"}
ReviewType ==
  [at : Points, on : Slots \cup {None}, to : States,
   candidate : CandidateType \cup {None}, found : Found \cup {None},
   plan : Decisions \cup {None}, version : VersionIds, late : BOOLEAN]
NoReview == [at |-> "idle", on |-> None, to |-> "none", candidate |-> None,
             found |-> None, plan |-> None, version |-> None, late |-> FALSE]

\* Rows, operators and histories keep their types; an operator has a candidate
\* and a plan exactly where the code does.
ProposalsTypeOK ==
  /\ TypeOK
  /\ edits \in 0..MaxEdits
  /\ proposal \in [Slots -> ProposalType]
  /\ \A p \in Slots : proposal[p].status = "none" <=> proposal[p].suggestion = None
  /\ scan \subseteq Suggestion
  /\ review \in [Reviewers -> ReviewType]
  /\ \A r \in Reviewers :
       /\ review[r].on = None <=> review[r].at = "idle"
       /\ review[r].candidate # None <=>
            review[r].at \in {"lookup", "planned", "attach", "extend"}
       /\ review[r].plan # None <=> review[r].at \in {"planned", "attach", "extend"}
  /\ carried \in [Slots -> SUBSET Decisions]
  /\ written \in [Slots -> SUBSET VersionIds]
  /\ touched \subseteq Slots

ProposalsInit ==
  /\ Init
  /\ edits = 0
  /\ proposal = [p \in Slots |-> NoProposal]
  /\ scan = {}
  /\ review = [r \in Reviewers |-> NoReview]
  /\ carried = [p \in Slots |-> {}]
  /\ written = [p \in Slots |-> {}]
  /\ touched = {}

-----------------------------------------------------------------------------
(* ConsolidationJob.  OneExecutor of MaintenanceScheduler: one at a time.   *)

Latest(m) == versions[m][activeVersion[m]]

\* candidate_pairs takes active memories whose version has not lapsed.
InForce(m) == Active(m) /\ (Latest(m).to = Open \/ Latest(m).to > now)

\* classify_pair, for subjects of one type and entity; memories with different
\* contents count as alike or not by their words.
Alike(s, t) == /\ s \in Preferences <=> t \in Preferences
               /\ s \in Episodes <=> t \in Episodes

\* _fallback_merge_content: the more confident one, then the longer one.
Suggested(pair) ==
  LET m == pair[1]
      n == pair[2]
  IN  IF Latest(m).content = Latest(n).content
        THEN {[kind |-> "noop", pair |-> pair, content |-> None]}
        ELSE {[kind |-> "merge", pair |-> pair, content |-> Latest(w).content] :
                w \in {x \in {m, n} : \A y \in {m, n} :
                         confidence[x] >= confidence[y]}}

SameSources(p, q) == {p[1], p[2]} = {q[1], q[2]}

\* The memories are read, and pairs of them found, at most max_pairs.  Which of
\* two memories comes first depends on their ids, and is open here.
Scan ==
  /\ scan = {}
  /\ scan' \in SUBSET UNION
       {Suggested(p) : p \in {q \in Pairs :
          /\ InForce(q[1]) /\ InForce(q[2])
          /\ Alike(subject[q[1]], subject[q[2]])}}
  /\ scan' # {}
  /\ \A x, y \in scan' : SameSources(x.pair, y.pair) => x = y
  /\ UNCHANGED <<vars, edits, proposal, review, carried, written, touched>>

IsOpen(p) == proposal[p].status \in {"pending", "approved"}

\* _create_proposal: the sources are read once more, for their fingerprints.
\* One that is open for the same pair is taken instead.
Propose(x) ==
  /\ x \in scan
  /\ scan' = scan \ {x}
  /\ IF \E p \in Slots : /\ IsOpen(p) /\ proposal[p].suggestion.kind = x.kind
                         /\ SameSources(proposal[p].suggestion.pair, x.pair)
     THEN UNCHANGED proposal
     ELSE \E p \in Slots :
            /\ proposal[p].status = "none"
            /\ proposal' = [proposal EXCEPT ![p] =
                 [status |-> "pending", suggestion |-> x, applied |-> None,
                  seen |-> <<Fingerprint(x.pair[1]), Fingerprint(x.pair[2])>>]]
  /\ UNCHANGED <<vars, edits, review, carried, written, touched>>

\* The run ends, by its deadline, an error or a crash.
ScanEnds ==
  /\ scan # {} /\ scan' = {}
  /\ UNCHANGED <<vars, edits, proposal, review, carried, written, touched>>

-----------------------------------------------------------------------------
(* Operators.                                                               *)

At(r) == review[r].at
On(r) == review[r].on
Goes(r, x) == review' = [review EXCEPT ![r] = x]
Leaves(r) == Goes(r, NoReview)

\* proposals approve, proposals reject: the status is read first.
Command(r, p) ==
  /\ At(r) = "idle"
  /\ LET x == [NoReview EXCEPT !.on = p, !.late = p \in touched]
     IN  \/ /\ proposal[p].status = "pending"
            /\ \E to \in {"approved", "rejected"} :
                 Goes(r, [x EXCEPT !.at = "ask", !.to = to])
         \/ /\ proposal[p].status = "approved"
            /\ Goes(r, [x EXCEPT !.at = "apply"])
  /\ UNCHANGED <<vars, edits, proposal, scan, carried, written, touched>>

\* transition reads the status, and raises if it allows no change.
Ask(r) ==
  /\ At(r) = "ask"
  /\ IF <<proposal[On(r)].status, review[r].to>> \in Allowed
       THEN Goes(r, [review[r] EXCEPT !.at = "set"]) ELSE Leaves(r)
  /\ UNCHANGED <<vars, edits, proposal, scan, carried, written, touched>>

\* transition writes it; only the trigger looks at what it is by now.  An
\* approval is followed by the application.
Set(r) ==
  LET p == On(r)
      to == review[r].to
  IN  /\ At(r) = "set"
      /\ IF MayBecome(proposal[p].status, to)
           THEN /\ proposal' = [proposal EXCEPT
                     ![p].status = to, ![p].applied = review[r].version]
                /\ IF to = "approved"
                     THEN Goes(r, [review[r] EXCEPT !.at = "apply", !.to = "none"])
                     ELSE Leaves(r)
           ELSE Leaves(r) /\ UNCHANGED proposal
      /\ UNCHANGED <<vars, edits, scan, carried, written, touched>>

-----------------------------------------------------------------------------
(* apply_proposal.                                                          *)

Pair(p) == proposal[p].suggestion.pair

\* It must be approved.
Load(r) ==
  /\ At(r) = "apply"
  /\ IF proposal[On(r)].status = "approved"
       THEN Goes(r, [review[r] EXCEPT !.at = "verify"]) ELSE Leaves(r)
  /\ UNCHANGED <<vars, edits, proposal, scan, carried, written, touched>>

\* verify_sources_unchanged.  What changed is expired, what is a duplicate is
\* applied as it is.
Verify(r) ==
  LET p == On(r)
      same == proposal[p].seen = <<Fingerprint(Pair(p)[1]), Fingerprint(Pair(p)[2])>>
  IN  /\ At(r) = "verify"
      /\ Goes(r, IF ~same
                   THEN [review[r] EXCEPT !.at = "ask", !.to = "expired"]
                 ELSE IF proposal[p].suggestion.kind = "noop"
                   THEN [review[r] EXCEPT !.at = "ask", !.to = "applied"]
                 ELSE [review[r] EXCEPT !.at = "build"])
      /\ UNCHANGED <<vars, edits, proposal, scan, carried, written, touched>>

\* build_merge_candidate: of the sources that still exist the first gives the
\* subject, all their evidence, the best their confidence.
Build(r) ==
  LET p == On(r)
      left == {m \in {Pair(p)[1], Pair(p)[2]} : Exists(m)}
      first == IF Exists(Pair(p)[1]) THEN Pair(p)[1] ELSE Pair(p)[2]
      best == CHOOSE m \in left : \A n \in left : confidence[m] >= confidence[n]
  IN  /\ At(r) = "build"
      /\ IF left = {} THEN Leaves(r)
         ELSE Goes(r, [review[r] EXCEPT
                !.at = "lookup",
                !.candidate =
                  [subject |-> subject[first],
                   content |-> proposal[p].suggestion.content,
                   sources |-> UNION {Latest(m).sources : m \in left},
                   verified |-> FALSE, confidence |-> confidence[best],
                   proposal |-> "update"]])
      /\ UNCHANGED <<vars, edits, proposal, scan, carried, written, touched>>

\* find_active_by_subject and plan_consolidation, which is given no sources of
\* the memory found.
MakePlan(r) ==
  /\ At(r) = "lookup"
  /\ \E found \in Current(review[r].candidate.subject) :
       Goes(r, [review[r] EXCEPT
              !.at = "planned", !.found = found,
              !.plan = Decide(review[r].candidate, found, {})])
  /\ UNCHANGED <<vars, edits, proposal, scan, carried, written, touched>>

\* Somebody else's write of m, under proposals other than those in own.
Touch(own) ==
  touched' = touched \cup
    {p \in Slots \ own :
       /\ proposal[p].status # "none"
       /\ \E m \in {Pair(p)[1], Pair(p)[2]} :
            status'[m] # status[m] \/ activeVersion'[m] # activeVersion[m]}

MarkApplied_KeepsPlan(r, version) ==
  [review[r] EXCEPT !.at = "ask", !.to = "applied", !.version = version]

MarkApplied(r, version) ==
  [NoReview EXCEPT !.at = "ask", !.on = On(r), !.to = "applied",
                   !.version = version, !.late = review[r].late]

\* The plan is carried out: what apply_plan returns is recorded next.
Carries(r, ids, version) ==
  /\ Goes(r, MarkApplied(r, version))
  /\ carried' = [carried EXCEPT ![On(r)] = @ \cup {review[r].plan}]
  /\ written' = [written EXCEPT ![On(r)] = @ \cup ids]
  /\ UNCHANGED <<edits, proposal, scan>>

\* The proposal's memory is gone, or its plan asks for no write.
ApplyNothing(r) ==
  /\ At(r) = "planned" /\ review[r].plan \in {"noop", "reject"}
  /\ Carries(r, {}, None)
  /\ UNCHANGED <<vars, touched>>

ApplyAdd(r) ==
  LET c == review[r].candidate
  IN  /\ At(r) = "planned" /\ review[r].plan = "add"
      /\ \E m \in Memories : /\ AddRecord(m, c.subject, Request(c))
                             /\ Carries(r, {<<m, 1>>}, <<m, 1>>)
      /\ Touch({On(r)})

\* UPDATE reads the memory again.
Inspect(r) ==
  LET m == review[r].found.memory
      same == Exists(m) /\ Latest(m).content = review[r].candidate.content
  IN  /\ At(r) = "planned" /\ review[r].plan = "update"
      /\ Goes(r, [review[r] EXCEPT !.at = IF same THEN "attach" ELSE "extend"])
      /\ UNCHANGED <<vars, edits, proposal, scan, carried, written, touched>>

ApplyAttach(r) ==
  LET m == review[r].found.memory
  IN  /\ At(r) = "attach"
      /\ AttachSources(m, Request(review[r].candidate))
      /\ Carries(r, {}, <<m, activeVersion[m]>>)
      /\ Touch({On(r)})

ApplyExtend(r) ==
  LET m == review[r].found.memory
      id == <<m, Len(versions[m]) + 1>>
  IN  /\ At(r) = "extend"
      /\ AddVersion(m, Request(review[r].candidate))
      /\ Carries(r, {id}, id)
      /\ Touch({On(r)})

\* The store refuses the write, a statement fails or the operator's process
\* stops: the proposal is left as it is.
Stop(r) ==
  /\ At(r) # "idle"
  /\ Leaves(r)
  /\ UNCHANGED <<vars, edits, proposal, scan, carried, written, touched>>

-----------------------------------------------------------------------------
(* The users of the store.                                                  *)

Stated(r) ==
  [content |-> r.content, from |-> now, sources |-> r.sources,
   verified |-> r.verified, confidence |-> r.confidence]

Edit ==
  \/ \E m \in Memories, i \in Incoming :
       \/ AddRecord(m, i[1], Stated(i[2]))
       \/ i[1] = subject[m] /\ AddVersion(m, Stated(i[2]))
       \/ /\ i[1] = subject[m] /\ AttachSources(m, Stated(i[2]))
          /\ <<versions, confidence>>' # <<versions, confidence>>
       \/ \E n \in Memories :
            i[1] = subject[m] /\ ReplaceActive(m, n, Stated(i[2]))
  \/ \E m \in Memories : DeleteMemory(m) \/ PurgeDeleted({m})
  \/ \E m \in Memories, t \in 1..(MaxTime + 1) : MarkExpired(m, t)

Others ==
  /\ edits < MaxEdits /\ edits' = edits + 1
  /\ Edit
  /\ Touch({})
  /\ UNCHANGED <<proposal, scan, review, carried, written>>

Review(r) ==
  \/ \E p \in Slots : Command(r, p)
  \/ Ask(r) \/ Set(r)
  \/ Load(r) \/ Verify(r) \/ Build(r) \/ MakePlan(r)
  \/ ApplyNothing(r) \/ ApplyAdd(r)
  \/ Inspect(r) \/ ApplyAttach(r) \/ ApplyExtend(r)
  \/ Stop(r)

ProposalsNext ==
  \/ Scan \/ (\E x \in scan : Propose(x)) \/ ScanEnds
  \/ \E r \in Reviewers : Review(r)
  \/ Others

ProposalsSpec == ProposalsInit /\ [][ProposalsNext]_allVars

-----------------------------------------------------------------------------
(* Properties.                                                              *)

\* Without approval nothing is carried out, and a merge is never marked as
\* applied before its plan was (apply_proposal, the trigger), whichever
\* approvals, rejections and applications pass each other.
AuditIsTrue ==
  \A p \in Slots :
    /\ proposal[p].status \in {"pending", "rejected"} => carried[p] = {}
    /\ proposal[p].status = "applied" /\ proposal[p].suggestion.kind = "merge" =>
         carried[p] # {}

\* The sources were active when they were fingerprinted.
OfActive(p) == \A i \in {1, 2} : proposal[p].seen[i].status = "active"

\* However many operators apply a proposal and however often it is retried: as
\* long as its sources were active and nobody else changes them, one version
\* is written at most, and applied_version_ids names one with the approved
\* content.
MergedOnce ==
  \A p \in Slots : OfActive(p) /\ p \notin touched =>
    /\ Cardinality(written[p]) <= 1
    /\ LET v == proposal[p].applied
       IN  v # None =>
             versions[v[1]][v[2]].content = proposal[p].suggestion.content

\* An operator who sets out when a source has already been changed carries
\* nothing out (verify_sources_unchanged): neither over the change, nor
\* bringing back what was deleted.
OldIsNotApplied ==
  [][\A r \in Reviewers :
       review[r].late /\ review'[r] # review[r] => carried' = carried]_allVars

\* "Applying again is idempotent": a proposal that was carried out and whose
\* sources nobody else has changed does not end as expired.
RerunIsIdempotent ==
  \A p \in Slots :
    carried[p] # {} /\ p \notin touched => proposal[p].status # "expired"
=============================================================================
