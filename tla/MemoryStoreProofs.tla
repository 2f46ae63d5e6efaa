------------------------- MODULE MemoryStoreProofs -------------------------
(***************************************************************************)
(* Theorems about MemoryStore for every value of its constants.            *)
(***************************************************************************)
EXTENDS MemoryStore, SequenceTheorems, TLAPS

-----------------------------------------------------------------------------
(* Histories: what the operators that build them return.                    *)

LEMMA RowType ==
  ASSUME NEW r \in Requests
  PROVE  /\ RowOf(r) \in Versions
         /\ RowOf(r).to = Open
         /\ RowOf(r).sources = r.sources
         /\ RowOf(r).verified = r.verified
BY StoreAssumption DEF RowOf, Row, Requests, Versions, Open, Times

LEMMA EndedRow ==
  ASSUME NEW v \in Versions, NEW t \in 1..(MaxTime + 1)
  PROVE  /\ [v EXCEPT !.to = t] \in Versions
         /\ [v EXCEPT !.to = t].to # Open
         /\ [v EXCEPT !.to = t].from = v.from
         /\ [v EXCEPT !.to = t].content = v.content
         /\ [v EXCEPT !.to = t].sources = v.sources
         /\ [v EXCEPT !.to = t].verified = v.verified
<1>1. t \in 0..(MaxTime + 1) /\ t # Open
  BY StoreAssumption DEF Open
<1> QED BY <1>1 DEF Versions

\* Ending windows keeps the length of a history and everything it says but
\* the ends that were not set, and it sets those it was asked to set.
LEMMA SealedHistory ==
  ASSUME NEW h \in Seq(Versions), NEW N, NEW t \in 1..(MaxTime + 1)
  PROVE  /\ Sealed(h, N, t) \in Seq(Versions)
         /\ Len(Sealed(h, N, t)) = Len(h)
         /\ Preserves(Sealed(h, N, t), h)
         /\ \A k \in 1..Len(h) :
              /\ Sealed(h, N, t)[k].to = Open <=> h[k].to = Open /\ k \notin N
              /\ Sealed(h, N, t)[k].from = h[k].from
              /\ Sealed(h, N, t)[k].sources = h[k].sources
              /\ Sealed(h, N, t)[k].verified = h[k].verified
<1> DEFINE g == Sealed(h, N, t)
<1>1. /\ Len(h) \in Nat
      /\ \A k \in 1..Len(h) : h[k] \in Versions
  OBVIOUS
<1>2. ASSUME NEW k \in 1..Len(h)
      PROVE  /\ g[k] \in Versions
             /\ g[k].to = Open <=> h[k].to = Open /\ k \notin N
             /\ h[k].to # Open => g[k].to = h[k].to
             /\ g[k].from = h[k].from
             /\ g[k].content = h[k].content
             /\ g[k].sources = h[k].sources
             /\ g[k].verified = h[k].verified
  <2>1. h[k] \in Versions
    BY <1>1
  <2>2. CASE k \in N /\ h[k].to = Open
    <3>1. Greatest(t, h[k].from + 1) \in 1..(MaxTime + 1)
      BY <2>1, StoreAssumption DEF Greatest, Versions, Times
    <3>2. g[k] = [h[k] EXCEPT !.to = Greatest(t, h[k].from + 1)]
      BY <2>2 DEF Sealed
    <3> QED BY <2>1, <2>2, <3>1, <3>2, EndedRow
  <2>3. CASE ~(k \in N /\ h[k].to = Open)
    BY <2>1, <2>3 DEF Sealed
  <2> QED BY <2>2, <2>3
<1>3. /\ g \in [1..Len(h) -> Versions]
  BY <1>2 DEF Sealed
<1>4. g \in Seq(Versions) /\ Len(g) = Len(h)
  BY <1>1, <1>3
<1> QED BY <1>1, <1>2, <1>4 DEF Preserves

LEMMA PreservesItself ==
  ASSUME NEW h \in Seq(Versions)
  PROVE  Preserves(h, h)
BY DEF Preserves

LEMMA AppendPreserves ==
  ASSUME NEW h \in Seq(Versions), NEW g \in Seq(Versions), Preserves(g, h),
         NEW v \in Versions
  PROVE  Preserves(Append(g, v), h)
BY DEF Preserves

LEMMA AppendHistory ==
  ASSUME NEW h \in Seq(Versions), NEW v \in Versions
  PROVE  /\ Append(h, v) \in Seq(Versions)
         /\ Len(Append(h, v)) = Len(h) + 1
         /\ Append(h, v)[Len(h) + 1] = v
         /\ \A k \in 1..Len(h) : Append(h, v)[k] = h[k]
OBVIOUS

LEMMA EvidencePreserves ==
  ASSUME NEW s, NEW h \in Seq(Versions), NEW n \in 1..Len(h),
         NEW sources \in SUBSET Sources, NEW verified \in BOOLEAN
  PROVE  /\ WithEvidence(h, n, sources, verified) \in Seq(Versions)
         /\ Len(WithEvidence(h, n, sources, verified)) = Len(h)
         /\ Preserves(WithEvidence(h, n, sources, verified), h)
         /\ \A k \in 1..Len(h) :
              WithEvidence(h, n, sources, verified)[k].to = h[k].to
         /\ \A k \in 1..Len(h) :
              k # n => WithEvidence(h, n, sources, verified)[k] = h[k]
         /\ Evidenced(s, h) /\ Supported(s, verified, h[n].sources \cup sources)
              => Evidenced(s, WithEvidence(h, n, sources, verified))
<1> DEFINE w == [h[n] EXCEPT !.sources = @ \cup sources,
                             !.verified = @ \/ verified]
           g == WithEvidence(h, n, sources, verified)
<1>1. h[n] \in Versions
  OBVIOUS
<1>2. /\ w \in Versions
      /\ w.content = h[n].content /\ w.from = h[n].from /\ w.to = h[n].to
      /\ w.sources = h[n].sources \cup sources
      /\ w.verified = (h[n].verified \/ verified)
  BY <1>1 DEF Versions
<1>0. g = [h EXCEPT ![n] = w]
  BY DEF WithEvidence
<1> HIDE DEF w
<1>3. /\ g \in Seq(Versions) /\ Len(g) = Len(h)
      /\ g[n] = w
      /\ \A k \in 1..Len(h) : k # n => g[k] = h[k]
  BY <1>0, <1>2
<1>4. Preserves(g, h)
  <2>1. h[n].verified => w.verified
    BY <1>1, <1>2
  <2>2. h[n].sources \subseteq w.sources
    BY <1>2
  <2> HIDE DEF g
  <2> SUFFICES ASSUME NEW k \in 1..Len(h)
               PROVE  /\ g[k].content = h[k].content
                      /\ g[k].from = h[k].from
                      /\ h[k].to # Open => g[k].to = h[k].to
                      /\ h[k].verified => g[k].verified
                      /\ h[k].sources \subseteq g[k].sources
    BY <1>3 DEF Preserves
  <2>3. CASE k = n
    BY <1>2, <1>3, <2>1, <2>2, <2>3
  <2>4. CASE k # n
    BY <1>3, <2>4
  <2> QED BY <2>3, <2>4
<1>5. ASSUME Evidenced(s, h), Supported(s, verified, h[n].sources \cup sources)
      PROVE  Evidenced(s, g)
  <2> HIDE DEF g
  <2>1. Supported(s, w.verified, w.sources)
    BY <1>2, <1>5 DEF Supported, Evidenced
  <2> QED BY <1>3, <1>5, <2>1 DEF Evidenced
<1> QED BY <1>2, <1>3, <1>4, <1>5

-----------------------------------------------------------------------------
(* The inductive invariant, and what a step does to one memory.             *)

Described == \A m \in Memories : Exists(m) => subject[m] \in Subjects

IInv ==
  TypeOK /\ CurrentIsLastOpen /\ VerifiedHasEvidence /\ OneActive /\ Described

\* The step leaves memory m well-formed and its history preserved.
Kept(m) ==
  /\ versions'[m] \in Seq(Versions)
  /\ Coherent(status'[m], activeVersion'[m], versions'[m])
  /\ Evidenced(subject'[m], versions'[m])
  /\ status'[m] # "purged" => Preserves(versions'[m], versions[m])

LEMMA WellFormed ==
  ASSUME IInv, NEW m \in Memories
  PROVE  /\ versions[m] \in Seq(Versions)
         /\ Coherent(status[m], activeVersion[m], versions[m])
         /\ Evidenced(subject[m], versions[m])
         /\ activeVersion[m] = Len(versions[m])
         /\ Len(versions[m]) \in 0..MaxVersions
BY StoreAssumption DEF IInv, TypeOK, CurrentIsLastOpen, VerifiedHasEvidence,
   Coherent

LEMMA HasCurrentVersion ==
  ASSUME IInv, NEW m \in Memories, Exists(m)
  PROVE  activeVersion[m] \in 1..Len(versions[m])
<1>1. activeVersion[m] = Len(versions[m]) /\ activeVersion[m] > 0
  BY WellFormed DEF Coherent, Exists
<1>2. Len(versions[m]) \in Nat
  BY WellFormed, StoreAssumption
<1> QED BY <1>1, <1>2

LEMMA Untouched ==
  ASSUME IInv, NEW m \in Memories,
         status'[m] = status[m], subject'[m] = subject[m],
         activeVersion'[m] = activeVersion[m],
         versions'[m] = versions[m]
  PROVE  Kept(m)
BY WellFormed, PreservesItself DEF Kept

\* A memory that did not exist and now has its first version.
LEMMA Created ==
  ASSUME IInv, NEW m \in Memories, NEW s \in Subjects, NEW r \in Requests,
         Supported(s, r.verified, r.sources),
         status[m] = "absent", status'[m] = "active", activeVersion'[m] = 1, subject'[m] = s,
         versions'[m] = <<RowOf(r)>>
  PROVE  Kept(m)
<1>1. RowOf(r) \in Versions
  BY RowType
<1>2. Len(versions[m]) = 0
  BY WellFormed, StoreAssumption DEF Coherent
<1>3. Preserves(versions'[m], versions[m])
  BY <1>1, <1>2 DEF Preserves
<1>4. Coherent(status'[m], activeVersion'[m], versions'[m])
  BY <1>1, RowType DEF Coherent
<1>5. Evidenced(s, versions'[m])
  BY <1>1, RowType DEF Evidenced
<1> QED BY <1>1, <1>3, <1>4, <1>5 DEF Kept

\* A memory whose current window is ended as it leaves "active".
LEMMA Left ==
  ASSUME IInv, NEW m \in Memories, NEW t \in 1..(MaxTime + 1), NEW N,
         activeVersion[m] \in N,
         Exists(m),
         status'[m] \in {"superseded", "expired", "deleted"},
         activeVersion'[m] = activeVersion[m],
         subject'[m] = subject[m],
         versions'[m] = Sealed(versions[m], N, t)
  PROVE  Kept(m)
<1> DEFINE h == versions[m]
           g == Sealed(h, N, t)
<1>1. /\ h \in Seq(Versions) /\ Coherent(status[m], activeVersion[m], h)
      /\ Evidenced(subject[m], h) /\ Len(h) \in Nat
  BY WellFormed
<1>2. /\ g \in Seq(Versions) /\ Len(g) = Len(h) /\ Preserves(g, h)
      /\ \A k \in 1..Len(h) :
           /\ g[k].to = Open <=> h[k].to = Open /\ k \notin N
           /\ g[k].sources = h[k].sources
           /\ g[k].verified = h[k].verified
  BY <1>1, SealedHistory
<1> HIDE DEF g
<1>3. Coherent(status'[m], activeVersion'[m], g)
  BY <1>1, <1>2 DEF Coherent, Exists
<1>4. Evidenced(subject[m], g)
  BY <1>1, <1>2 DEF Evidenced
<1> QED BY <1>2, <1>3, <1>4 DEF Kept, g

\* A memory that gets one more version, which becomes the current one.
LEMMA Extended ==
  ASSUME IInv, NEW m \in Memories, NEW r \in Requests, MayExtend(m, r),
         status'[m] = status[m], activeVersion'[m] = Len(versions[m]) + 1,
         subject'[m] = subject[m],
         versions'[m] = Append(Sealed(versions[m], {activeVersion[m]}, r.from),
                               RowOf(r))
  PROVE  Kept(m)
<1> DEFINE h == versions[m]
           g == Sealed(h, {activeVersion[m]}, r.from)
           v == RowOf(r)
<1>1. /\ h \in Seq(Versions) /\ Coherent("active", activeVersion[m], h)
      /\ Evidenced(subject[m], h) /\ Len(h) \in Nat /\ activeVersion[m] = Len(h)
      /\ status[m] = "active"
  BY WellFormed DEF MayExtend, Active
<1>2. r.from \in 1..(MaxTime + 1)
  BY StoreAssumption DEF Requests, Times
<1>3. /\ g \in Seq(Versions) /\ Len(g) = Len(h) /\ Preserves(g, h)
      /\ \A k \in 1..Len(h) :
           /\ g[k].to = Open <=> h[k].to = Open /\ k \notin {activeVersion[m]}
           /\ g[k].sources = h[k].sources
           /\ g[k].verified = h[k].verified
  BY <1>1, <1>2, SealedHistory
<1>4. /\ v \in Versions /\ v.to = Open /\ Supported(subject[m], v.verified, v.sources)
  BY RowType DEF MayExtend
<1> HIDE DEF g, v
<1>5. /\ Append(g, v) \in Seq(Versions)
      /\ Len(Append(g, v)) = Len(h) + 1
      /\ Append(g, v)[Len(h) + 1] = v
      /\ \A k \in 1..Len(h) : Append(g, v)[k] = g[k]
  BY <1>3, <1>4, AppendHistory
<1>6. Preserves(Append(g, v), h)
  BY <1>1, <1>3, <1>4, AppendPreserves
<1>7. \A k \in 1..Len(h) : g[k].to # Open
  BY <1>1, <1>3 DEF Coherent
<1>8. Coherent("active", Len(h) + 1, Append(g, v))
  BY <1>1, <1>4, <1>5, <1>7 DEF Coherent
<1>9. Evidenced(subject[m], Append(g, v))
  BY <1>1, <1>3, <1>4, <1>5 DEF Evidenced
<1> QED BY <1>1, <1>5, <1>6, <1>8, <1>9 DEF Kept, g, v

\* A memory one of whose versions is given more evidence.
LEMMA Supplemented ==
  ASSUME IInv, NEW m \in Memories, NEW n \in 1..Len(versions[m]),
         NEW sources \in SUBSET Sources, NEW verified \in BOOLEAN,
         Supported(subject[m], verified, versions[m][n].sources \cup sources),
         status'[m] = status[m], activeVersion'[m] = activeVersion[m],
         subject'[m] = subject[m],
         versions'[m] = WithEvidence(versions[m], n, sources, verified)
  PROVE  Kept(m)
<1> DEFINE h == versions[m]
           g == WithEvidence(h, n, sources, verified)
<1>1. /\ h \in Seq(Versions) /\ Coherent(status[m], activeVersion[m], h)
      /\ Evidenced(subject[m], h) /\ Len(h) \in Nat
  BY WellFormed
<1>2. /\ g \in Seq(Versions) /\ Len(g) = Len(h) /\ Preserves(g, h)
      /\ \A k \in 1..Len(h) : g[k].to = h[k].to
      /\ \A k \in 1..Len(h) : k # n => g[k] = h[k]
      /\ Evidenced(subject[m], g)
  <2>1. n \in 1..Len(h) /\ Supported(subject[m], verified, h[n].sources \cup sources)
    OBVIOUS
  <2> HIDE DEF h
  <2> QED BY <1>1, <2>1, EvidencePreserves
<1> HIDE DEF g
<1>3. Coherent(status'[m], activeVersion'[m], g)
  BY <1>1, <1>2 DEF Coherent
<1> QED BY <1>2, <1>3 DEF Kept, g

\* A memory whose current window is ended although it stays active.
LEMMA LegacyClosed ==
  ASSUME IInv, NEW m \in Memories, NEW t \in 1..(MaxTime + 1),
         LegacyWrites, status[m] = "active", status'[m] = status[m],
         activeVersion'[m] = activeVersion[m],
         subject'[m] = subject[m],
         versions'[m] = Sealed(versions[m], {activeVersion[m]}, t)
  PROVE  Kept(m)
<1> DEFINE h == versions[m]
           g == Sealed(h, {activeVersion[m]}, t)
<1>1. /\ h \in Seq(Versions) /\ Coherent(status[m], activeVersion[m], h)
      /\ Evidenced(subject[m], h) /\ Len(h) \in Nat
  BY WellFormed
<1>2. /\ g \in Seq(Versions) /\ Len(g) = Len(h) /\ Preserves(g, h)
      /\ \A k \in 1..Len(h) :
           /\ g[k].to = Open <=> h[k].to = Open /\ k \notin {activeVersion[m]}
           /\ g[k].sources = h[k].sources
           /\ g[k].verified = h[k].verified
  BY <1>1, SealedHistory
<1> HIDE DEF g
<1>3. Coherent(status'[m], activeVersion'[m], g)
  BY <1>1, <1>2 DEF Coherent
<1>4. Evidenced(subject[m], g)
  BY <1>1, <1>2 DEF Evidenced
<1> QED BY <1>2, <1>3, <1>4 DEF Kept, g

\* Every step keeps every memory.
LEMMA WriteKeeps ==
  ASSUME IInv, Write
  PROVE  \A x \in Memories : Kept(x)
<1> SUFFICES ASSUME NEW x \in Memories PROVE Kept(x)
  OBVIOUS
<1> USE DEF IInv, TypeOK
<1>1. ASSUME NEW m \in Memories, NEW s \in Subjects, NEW r \in Requests,
             AddRecord(m, s, r)
      PROVE  Kept(x)
  <2>1. CASE x = m
    BY <1>1, <2>1, Created DEF AddRecord
  <2>2. CASE x # m
    BY <1>1, <2>2, Untouched DEF AddRecord
  <2> QED BY <2>1, <2>2
<1>2. ASSUME NEW m \in Memories, NEW r \in Requests, AddVersion(m, r)
      PROVE  Kept(x)
  <2>1. CASE x = m
    BY <1>2, <2>1, Extended DEF AddVersion
  <2>2. CASE x # m
    BY <1>2, <2>2, Untouched DEF AddVersion
  <2> QED BY <2>1, <2>2
<1>3. ASSUME NEW m \in Memories, NEW r \in Requests, AttachSources(m, r)
      PROVE  Kept(x)
  <2>1. CASE x = m
    <3>1. activeVersion[m] \in 1..Len(versions[m])
      BY <1>3, HasCurrentVersion DEF AttachSources, Active, Exists
    <3>2. r.sources \in SUBSET Sources /\ r.verified \in BOOLEAN
      BY DEF Requests
    <3> QED BY <1>3, <2>1, <3>1, <3>2, Supplemented DEF AttachSources
  <2>2. CASE x # m
    BY <1>3, <2>2, Untouched DEF AttachSources
  <2> QED BY <2>1, <2>2
<1>4. ASSUME NEW old \in Memories, NEW new \in Memories,
             NEW r \in Requests, ReplaceActive(old, new, r)
      PROVE  Kept(x)
  <2>1. /\ status[new] = "absent" /\ status[old] = "active" /\ old # new
        /\ Supported(subject[old], r.verified, r.sources)
        /\ r.from \in 1..(MaxTime + 1)
    BY <1>4, StoreAssumption
    DEF ReplaceActive, MayReplace, Active, Requests, Times
  <2>5. subject[old] \in Subjects
    BY <2>1 DEF Described, Exists
  <2>2. CASE x = new
    BY <1>4, <2>1, <2>2, <2>5, Created DEF ReplaceActive
  <2>3. CASE x = old
    <3>1. /\ status'[old] = "superseded"
          /\ activeVersion'[old] = activeVersion[old]
          /\ subject'[old] = subject[old]
          /\ versions'[old] = Sealed(versions[old], {activeVersion[old]}, r.from)
      BY <1>4, <2>1 DEF ReplaceActive
    <3> QED BY <2>1, <2>3, <3>1, Left DEF Exists
  <2>4. CASE x # old /\ x # new
    BY <1>4, <2>4, Untouched DEF ReplaceActive
  <2> QED BY <2>2, <2>3, <2>4
<1>5. ASSUME NEW old \in Memories, NEW new \in Memories, Supersede(old, new)
      PROVE  Kept(x)
  <2>1. CASE x = old
    <3>1. now \in 1..(MaxTime + 1) /\ Exists(old)
      BY <1>5, StoreAssumption DEF Supersede, Active, Exists, Times
    <3> QED BY <1>5, <2>1, <3>1, Left DEF Supersede
  <2>2. CASE x # old
    BY <1>5, <2>2, Untouched DEF Supersede
  <2> QED BY <2>1, <2>2
<1>6. ASSUME NEW m \in Memories, NEW n \in 1..MaxVersions, NEW e \in Sources,
             AddSource(m, n, e)
      PROVE  Kept(x)
  <2>1. CASE x = m
    BY <1>6, <2>1, Supplemented DEF AddSource, Supported
  <2>2. CASE x # m
    BY <1>6, <2>2, Untouched DEF AddSource
  <2> QED BY <2>1, <2>2
<1>7. ASSUME NEW a \in Memories, NEW b \in Memories, NEW type \in RelationTypes,
             AddRelation(a, type, b)
      PROVE  Kept(x)
  BY <1>7, Untouched DEF AddRelation
<1> QED BY <1>1, <1>2, <1>3, <1>4, <1>5, <1>6, <1>7 DEF Write

LEMMA LifecycleKeeps ==
  ASSUME IInv, Lifecycle
  PROVE  \A x \in Memories : Kept(x)
<1> SUFFICES ASSUME NEW x \in Memories PROVE Kept(x)
  OBVIOUS
<1> USE DEF IInv, TypeOK
<1>1. ASSUME NEW m \in Memories, NEW t \in 1..(MaxTime + 1), MarkExpired(m, t)
      PROVE  Kept(x)
  <2>1. CASE x = m
    BY <1>1, <2>1, Left DEF MarkExpired, Active, Exists
  <2>2. CASE x # m
    BY <1>1, <2>2, Untouched DEF MarkExpired
  <2> QED BY <2>1, <2>2
<1>2. ASSUME NEW m \in Memories, NEW t \in 1..(MaxTime + 1), LegacyClose(m, t)
      PROVE  Kept(x)
  <2>1. CASE x = m
    BY <1>2, <2>1, LegacyClosed DEF LegacyClose, Active
  <2>2. CASE x # m
    BY <1>2, <2>2, Untouched DEF LegacyClose
  <2> QED BY <2>1, <2>2
<1>3. ASSUME NEW m \in Memories, DeleteMemory(m)
      PROVE  Kept(x)
  <2>1. CASE x = m
    <3>1. now \in 1..(MaxTime + 1) /\ Exists(m)
      BY <1>3, StoreAssumption DEF DeleteMemory, Times
    <3>2. activeVersion[m] \in 1..Len(versions[m])
      BY <3>1, HasCurrentVersion
    <3> QED BY <1>3, <2>1, <3>1, <3>2, Left DEF DeleteMemory
  <2>2. CASE x # m
    BY <1>3, <2>2, Untouched DEF DeleteMemory
  <2> QED BY <2>1, <2>2
<1>4. ASSUME NEW batch \in SUBSET Memories, PurgeDeleted(batch)
      PROVE  Kept(x)
  <2>1. CASE x \in batch
    <3>1. status'[x] = "purged" /\ activeVersion'[x] = 0 /\ versions'[x] = << >>
      BY <1>4, <2>1 DEF PurgeDeleted
    <3> QED BY <3>1 DEF Kept, Coherent, Evidenced
  <2>2. CASE x \notin batch
    BY <1>4, <2>2, Untouched DEF PurgeDeleted
  <2> QED BY <2>1, <2>2
<1>5. ASSUME NEW batch \in SUBSET Memories, ArchiveExpiredBatch(batch)
      PROVE  Kept(x)
  <2>1. CASE x \in batch /\ Lapsed(x)
    <3>1. /\ status[x] = "active" /\ status'[x] = "expired"
          /\ versions[x][activeVersion[x]].to # Open
          /\ activeVersion'[x] = activeVersion[x] /\ versions'[x] = versions[x]
          /\ subject'[x] = subject[x]
      BY <1>5, <2>1 DEF ArchiveExpiredBatch, Lapsed, Active
    <3>2. Coherent("expired", activeVersion[x], versions[x])
      BY <3>1, WellFormed DEF Coherent
    <3> QED BY <3>1, <3>2, WellFormed, PreservesItself DEF Kept
  <2>2. CASE ~(x \in batch /\ Lapsed(x))
    BY <1>5, <2>2, Untouched DEF ArchiveExpiredBatch
  <2> QED BY <2>1, <2>2
<1> QED BY <1>1, <1>2, <1>3, <1>4, <1>5 DEF Lifecycle

LEMMA NextKeeps ==
  ASSUME IInv, [Next]_vars
  PROVE  \A x \in Memories : Kept(x)
<1>1. CASE Tick \/ UNCHANGED vars
  BY <1>1, Untouched DEF Tick, vars
<1> QED BY <1>1, WriteKeeps, LifecycleKeeps DEF Next

-----------------------------------------------------------------------------
(* The rest of the type invariant.                                          *)

\* The columns of memory_records, and the rest but for the histories
\* themselves, which Kept speaks of.
ColumnsTyped ==
  /\ status \in [Memories -> Statuses]
  /\ subject \in [Memories -> Subjects \cup {None}]
  /\ activeVersion \in [Memories -> 0..MaxVersions]
  /\ confidence \in [Memories -> 0..MaxConfidence]
  /\ now \in Times
LinksTyped ==
  /\ relations \subseteq
       Memories \X (RelationTypes \cup {"supersedes"}) \X Memories
  /\ outbox \subseteq Memories \X (1..MaxVersions)
HistoriesTyped == versions = [m \in Memories |-> versions[m]]

RestTyped == ColumnsTyped /\ LinksTyped /\ HistoriesTyped

LEMMA GreatestType ==
  ASSUME NEW a \in 0..MaxConfidence, NEW b \in 0..MaxConfidence
  PROVE  Greatest(a, b) \in 0..MaxConfidence
BY DEF Greatest

LEMMA WriteTyped ==
  ASSUME IInv, Write
  PROVE  RestTyped'
<1> USE DEF IInv, TypeOK, RestTyped, ColumnsTyped, LinksTyped, HistoriesTyped
<1>1. 1 \in 0..MaxVersions /\ 1 \in 1..MaxVersions
  BY StoreAssumption
<1>2. ASSUME NEW m \in Memories, NEW s \in Subjects, NEW r \in Requests,
             AddRecord(m, s, r)
      PROVE  RestTyped'
  <2>3. ColumnsTyped'
    BY <1>1, <1>2 DEF AddRecord, Requests, Statuses
  <2>4. LinksTyped'
    BY <1>1, <1>2 DEF AddRecord, Requests
  <2>5. HistoriesTyped'
    BY <1>1, <1>2 DEF AddRecord, Requests
  <2> QED BY <2>3, <2>4, <2>5
<1>3. ASSUME NEW m \in Memories, NEW r \in Requests, AddVersion(m, r)
      PROVE  RestTyped'
  <2>1. /\ Len(versions[m]) + 1 \in 0..MaxVersions
        /\ Len(versions[m]) + 1 \in 1..MaxVersions
    BY <1>3, StoreAssumption DEF AddVersion, MayExtend
  <2>2. Greatest(confidence[m], r.confidence) \in 0..MaxConfidence
    BY GreatestType DEF Requests
  <2>3. ColumnsTyped'
    BY <1>3, <2>1, <2>2 DEF AddVersion, Statuses
  <2>4. LinksTyped'
    BY <1>3, <2>1, <2>2 DEF AddVersion
  <2>5. HistoriesTyped'
    BY <1>3, <2>1, <2>2 DEF AddVersion
  <2> QED BY <2>3, <2>4, <2>5
<1>4. ASSUME NEW m \in Memories, NEW r \in Requests, AttachSources(m, r)
      PROVE  RestTyped'
  <2>2. Greatest(confidence[m], r.confidence) \in 0..MaxConfidence
    BY GreatestType DEF Requests
  <2> QED BY <1>4, <2>2 DEF AttachSources, Statuses
<1>5. ASSUME NEW old \in Memories, NEW new \in Memories,
             NEW r \in Requests, ReplaceActive(old, new, r)
      PROVE  RestTyped'
  <2>3. ColumnsTyped'
    BY <1>1, <1>5 DEF ReplaceActive, Requests, Statuses
  <2>4. LinksTyped'
    BY <1>1, <1>5 DEF ReplaceActive, Requests
  <2>5. HistoriesTyped'
    BY <1>1, <1>5 DEF ReplaceActive, Requests
  <2> QED BY <2>3, <2>4, <2>5
<1>6. ASSUME NEW old \in Memories, NEW new \in Memories, Supersede(old, new)
      PROVE  RestTyped'
  <2>3. ColumnsTyped'
    BY <1>6 DEF Supersede, Statuses
  <2>4. LinksTyped'
    BY <1>6 DEF Supersede
  <2>5. HistoriesTyped'
    BY <1>6 DEF Supersede
  <2> QED BY <2>3, <2>4, <2>5
<1>7. ASSUME NEW m \in Memories, NEW n \in 1..MaxVersions, NEW e \in Sources,
             AddSource(m, n, e)
      PROVE  RestTyped'
  BY <1>7 DEF AddSource
<1>8. ASSUME NEW a \in Memories, NEW b \in Memories, NEW type \in RelationTypes,
             AddRelation(a, type, b)
      PROVE  RestTyped'
  BY <1>8 DEF AddRelation
<1> QED BY <1>2, <1>3, <1>4, <1>5, <1>6, <1>7, <1>8 DEF Write

LEMMA LifecycleTyped ==
  ASSUME IInv, Lifecycle
  PROVE  RestTyped'
<1> USE DEF IInv, TypeOK, RestTyped, ColumnsTyped, LinksTyped, HistoriesTyped
<1>1. ASSUME NEW m \in Memories, NEW t \in 1..(MaxTime + 1), MarkExpired(m, t)
      PROVE  RestTyped'
  BY <1>1 DEF MarkExpired, Statuses
<1>2. ASSUME NEW m \in Memories, NEW t \in 1..(MaxTime + 1), LegacyClose(m, t)
      PROVE  RestTyped'
  BY <1>2 DEF LegacyClose, Statuses
<1>3. ASSUME NEW m \in Memories, DeleteMemory(m)
      PROVE  RestTyped'
  BY <1>3 DEF DeleteMemory, Statuses
<1>4. ASSUME NEW batch \in SUBSET Memories, PurgeDeleted(batch)
      PROVE  RestTyped'
  <2>1. 0 \in 0..MaxVersions
    BY StoreAssumption
  <2> QED BY <1>4, <2>1 DEF PurgeDeleted, Statuses
<1>5. ASSUME NEW batch \in SUBSET Memories, ArchiveExpiredBatch(batch)
      PROVE  RestTyped'
  BY <1>5 DEF ArchiveExpiredBatch, Statuses
<1> QED BY <1>1, <1>2, <1>3, <1>4, <1>5 DEF Lifecycle

LEMMA NextTyped ==
  ASSUME IInv, [Next]_vars
  PROVE  RestTyped'
<1>1. CASE Tick
  BY <1>1, StoreAssumption DEF IInv, TypeOK, RestTyped, ColumnsTyped,
       LinksTyped, HistoriesTyped, Tick, Times
<1>2. CASE UNCHANGED vars
  BY <1>2 DEF IInv, TypeOK, RestTyped, ColumnsTyped, LinksTyped,
       HistoriesTyped, vars
<1> QED BY <1>1, <1>2, WriteTyped, LifecycleTyped DEF Next

-----------------------------------------------------------------------------
(* One active memory per subject.                                           *)

LEMMA NextDescribes ==
  ASSUME IInv, [Next]_vars
  PROVE  Described' /\ OneActive'
<1> USE DEF IInv, TypeOK, Described, OneActive, Active, Exists
<1>1. ASSUME NEW m \in Memories, NEW s \in Subjects, NEW r \in Requests,
             AddRecord(m, s, r)
      PROVE  Described' /\ OneActive'
  BY <1>1 DEF AddRecord, SubjectFree
<1>2. ASSUME NEW old \in Memories, NEW new \in Memories,
             NEW r \in Requests, ReplaceActive(old, new, r)
      PROVE  Described' /\ OneActive'
  BY <1>2 DEF ReplaceActive, MayReplace
<1>3. ASSUME /\ subject' = subject
             /\ \A m \in Memories :
                  /\ status'[m] = "active" => status[m] = "active"
                  /\ Exists(m)' => Exists(m)
      PROVE  Described' /\ OneActive'
  BY <1>3
<1>4. CASE Write
  <2>1. ASSUME NEW m \in Memories, NEW r \in Requests,
               AddVersion(m, r) \/ AttachSources(m, r)
        PROVE  Described' /\ OneActive'
    BY <1>3, <2>1 DEF AddVersion, AttachSources
  <2>2. ASSUME NEW old \in Memories, NEW new \in Memories, Supersede(old, new)
        PROVE  Described' /\ OneActive'
    BY <1>3, <2>2 DEF Supersede
  <2>3. ASSUME NEW m \in Memories, NEW n \in 1..MaxVersions, NEW e \in Sources,
               AddSource(m, n, e)
        PROVE  Described' /\ OneActive'
    BY <1>3, <2>3 DEF AddSource
  <2>4. ASSUME NEW a \in Memories, NEW b \in Memories,
               NEW type \in RelationTypes, AddRelation(a, type, b)
        PROVE  Described' /\ OneActive'
    BY <1>3, <2>4 DEF AddRelation
  <2> QED BY <1>1, <1>2, <1>4, <2>1, <2>2, <2>3, <2>4 DEF Write
<1>5. CASE Lifecycle
  <2>1. ASSUME NEW m \in Memories, NEW t \in 1..(MaxTime + 1),
               MarkExpired(m, t) \/ LegacyClose(m, t)
        PROVE  Described' /\ OneActive'
    BY <1>3, <2>1 DEF MarkExpired, LegacyClose
  <2>2. ASSUME NEW m \in Memories, DeleteMemory(m)
        PROVE  Described' /\ OneActive'
    BY <1>3, <2>2 DEF DeleteMemory
  <2>3. ASSUME NEW batch \in SUBSET Memories,
               PurgeDeleted(batch) \/ ArchiveExpiredBatch(batch)
        PROVE  Described' /\ OneActive'
    BY <1>3, <2>3 DEF PurgeDeleted, ArchiveExpiredBatch, Lapsed
  <2> QED BY <1>5, <2>1, <2>2, <2>3 DEF Lifecycle
<1>6. CASE Tick \/ UNCHANGED vars
  BY <1>3, <1>6 DEF Tick, vars
<1> QED BY <1>4, <1>5, <1>6 DEF Next

-----------------------------------------------------------------------------
(* The invariant.                                                           *)

LEMMA InitInvariant == Init => IInv
BY StoreAssumption
DEF Init, IInv, TypeOK, Statuses, Times, CurrentIsLastOpen, Coherent,
    VerifiedHasEvidence, Evidenced, OneActive, Described, Active, Exists

LEMMA NextInvariant == IInv /\ [Next]_vars => IInv'
<1> SUFFICES ASSUME IInv, [Next]_vars PROVE IInv'
  OBVIOUS
<1>1. \A m \in Memories : Kept(m)
  BY NextKeeps
<1>2. RestTyped'
  BY NextTyped
<1>3. TypeOK'
  <2>1. versions' \in [Memories -> Seq(Versions)]
    BY <1>1, <1>2 DEF Kept, RestTyped, HistoriesTyped
  <2> QED BY <1>2, <2>1 DEF RestTyped, ColumnsTyped, LinksTyped, TypeOK
<1>4. CurrentIsLastOpen' /\ VerifiedHasEvidence'
  BY <1>1 DEF Kept, CurrentIsLastOpen, VerifiedHasEvidence
<1> QED BY <1>3, <1>4, NextDescribes DEF IInv

\* Every reachable state is well-typed, coherent and unambiguous.
THEOREM StoreInvariant == Spec => []IInv
BY InitInvariant, NextInvariant, PTL DEF Spec

\* Every row of the store keeps its type.
THEOREM StoreTypeCorrect == Spec => []TypeOK
BY StoreInvariant, PTL DEF IInv

\* No interleaving of writes leaves two current memories for one subject.
THEOREM UniqueCurrentFact == Spec => []OneActive
BY StoreInvariant, PTL DEF IInv

\* Status, current version and validity windows never disagree.
THEOREM StoreCoherent == Spec => []CurrentIsLastOpen
BY StoreInvariant, PTL DEF IInv

\* No version is verified without evidence that can verify it.
THEOREM NothingVerifiedByItself == Spec => []VerifiedHasEvidence
BY StoreInvariant, PTL DEF IInv

\* No step rewrites what a version says, nor a window that has ended.
THEOREM HistoryImmutable == Spec => HistoryOnlyGrows
<1>1. IInv /\ [Next]_vars =>
        [\A m \in Memories :
           status'[m] # "purged" => Preserves(versions'[m], versions[m])]_vars
  BY NextKeeps DEF Kept
<1> QED BY <1>1, StoreInvariant, PTL DEF Spec, HistoryOnlyGrows

-----------------------------------------------------------------------------
(* The outbox and the windows of a history.                                 *)

\* The statuses of a memory whose versions are to have vectors.
Embeddable(m) == Exists(m) /\ status[m] # "deleted"

\* The outbox holds the versions of memory m, or none.
Queued(m) ==
  \A k \in 1..MaxVersions :
    <<m, k>> \in outbox <=> k <= Len(versions[m]) /\ Embeddable(m)

\* Each window of m ends where the next one begins, or just after its own
\* beginning if that is later.
Abuts(history) ==
  \A k \in 1..(Len(history) - 1) :
    history[k].to = Greatest(history[k + 1].from, history[k].from + 1)

InStep(m) == Queued(m) /\ (~LegacyWrites => Abuts(versions[m]))

LEMMA InStepType ==
  ASSUME IInv, NEW m \in Memories
  PROVE  /\ versions[m] \in Seq(Versions) /\ Len(versions[m]) \in 0..MaxVersions
         /\ \A k \in 1..Len(versions[m]) :
              /\ versions[m][k] \in Versions
              /\ versions[m][k].to = Open =>
                   k = Len(versions[m]) /\ status[m] = "active"
         /\ Len(versions[m]) = 0 <=> ~Exists(m)
BY WellFormed, StoreAssumption DEF Coherent, Exists

\* A longer or equal history that keeps what the shorter one says abuts where
\* that one did.
LEMMA AbutsKept ==
  ASSUME NEW h \in Seq(Versions), NEW g \in Seq(Versions),
         Preserves(g, h), Abuts(h),
         \A k \in 1..Len(h) : h[k].to = Open => k = Len(h)
  PROVE  \A k \in 1..(Len(h) - 1) :
           g[k].to = Greatest(g[k + 1].from, g[k].from + 1)
<1> SUFFICES ASSUME NEW k \in 1..(Len(h) - 1)
             PROVE  g[k].to = Greatest(g[k + 1].from, g[k].from + 1)
  OBVIOUS
<1>1. k \in 1..Len(h) /\ k + 1 \in 1..Len(h) /\ k # Len(h)
  OBVIOUS
<1>2. h[k].to # Open
  BY <1>1
<1>3. /\ g[k].to = h[k].to /\ g[k].from = h[k].from
      /\ g[k + 1].from = h[k + 1].from
  BY <1>1, <1>2 DEF Preserves
<1> QED BY <1>3 DEF Abuts

\* A step that keeps the number of versions of m, its rows of the outbox and
\* whether it is to have any.
LEMMA InStepStays ==
  ASSUME IInv, NEW m \in Memories, InStep(m), Kept(m),
         Len(versions'[m]) = Len(versions[m]), status'[m] # "purged",
         Embeddable(m)' <=> Embeddable(m),
         \A k \in 1..MaxVersions : <<m, k>> \in outbox' <=> <<m, k>> \in outbox
  PROVE  InStep(m)'
<1>1. Queued(m)'
  BY DEF InStep, Queued
<1>2. ASSUME ~LegacyWrites PROVE Abuts(versions'[m])
  <2>1. /\ versions[m] \in Seq(Versions) /\ versions'[m] \in Seq(Versions)
        /\ Preserves(versions'[m], versions[m])
    BY InStepType DEF Kept
  <2>2. \A k \in 1..Len(versions[m]) :
          versions[m][k].to = Open => k = Len(versions[m])
    BY InStepType
  <2>3. Abuts(versions[m])
    BY <1>2 DEF InStep
  <2> QED BY <2>1, <2>2, <2>3, AbutsKept DEF Abuts
<1> QED BY <1>1, <1>2 DEF InStep

LEMMA InStepUntouched ==
  ASSUME IInv, NEW m \in Memories, InStep(m), status'[m] = status[m],
         versions'[m] = versions[m],
         \A k \in 1..MaxVersions : <<m, k>> \in outbox' <=> <<m, k>> \in outbox
  PROVE  InStep(m)'
BY DEF InStep, Queued, Embeddable, Exists

LEMMA InStepCreated ==
  ASSUME IInv, NEW m \in Memories, InStep(m), status[m] = "absent",
         status'[m] = "active", Len(versions'[m]) = 1,
         \A k \in 1..MaxVersions :
           <<m, k>> \in outbox' <=> <<m, k>> \in outbox \/ k = 1
  PROVE  InStep(m)'
<1>1. Queued(m)'
  BY DEF InStep, Queued, Embeddable, Exists
<1>2. Abuts(versions'[m])
  BY DEF Abuts
<1> QED BY <1>1, <1>2 DEF InStep

\* Memory m is deleted or purged.
LEMMA InStepGone ==
  ASSUME IInv, NEW m \in Memories, InStep(m), Kept(m),
         status'[m] \in {"deleted", "purged"},
         status'[m] = "purged" => versions'[m] = << >>,
         status'[m] = "deleted" => Len(versions'[m]) = Len(versions[m]),
         \A k \in 1..MaxVersions : <<m, k>> \notin outbox'
  PROVE  InStep(m)'
<1>1. Queued(m)'
  BY DEF Queued, Embeddable, Exists
<1>2. ASSUME ~LegacyWrites PROVE Abuts(versions'[m])
  <2>1. CASE status'[m] = "purged"
    BY <2>1 DEF Abuts
  <2>2. CASE status'[m] = "deleted"
    <3>1. /\ versions[m] \in Seq(Versions) /\ versions'[m] \in Seq(Versions)
          /\ Preserves(versions'[m], versions[m])
      BY <2>2, InStepType DEF Kept
    <3>2. \A k \in 1..Len(versions[m]) :
            versions[m][k].to = Open => k = Len(versions[m])
      BY InStepType
    <3>3. Abuts(versions[m])
      BY <1>2 DEF InStep
    <3> QED BY <2>2, <3>1, <3>2, <3>3, AbutsKept DEF Abuts
  <2> QED BY <2>1, <2>2
<1> QED BY <1>1, <1>2 DEF InStep

\* Ending a window that was open ends it at t, or just after it began.
LEMMA SealedEnd ==
  ASSUME NEW h \in Seq(Versions), NEW N, NEW t \in 1..(MaxTime + 1),
         NEW k \in 1..Len(h), k \in N, h[k].to = Open
  PROVE  Sealed(h, N, t)[k].to = Greatest(t, h[k].from + 1)
<1>1. Sealed(h, N, t)[k] = [h[k] EXCEPT !.to = Greatest(t, h[k].from + 1)]
  BY DEF Sealed
<1>2. h[k] \in Versions
  OBVIOUS
<1> QED BY <1>1, <1>2 DEF Versions

\* Memory m gets one more version.
LEMMA InStepExtended ==
  ASSUME IInv, NEW m \in Memories, InStep(m), Kept(m),
         NEW r \in Requests, MayExtend(m, r),
         status'[m] = status[m],
         versions'[m] = Append(Sealed(versions[m], {activeVersion[m]}, r.from),
                               RowOf(r)),
         \A k \in 1..MaxVersions :
           <<m, k>> \in outbox' <=>
             <<m, k>> \in outbox \/ k = Len(versions[m]) + 1
  PROVE  InStep(m)'
<1> DEFINE h == versions[m]
           n == Len(h)
           g == Sealed(h, {activeVersion[m]}, r.from)
<1>1. /\ h \in Seq(Versions) /\ n \in 0..MaxVersions /\ status[m] = "active"
      /\ activeVersion[m] = n /\ n \in 1..MaxVersions
      /\ \A k \in 1..n : h[k].to = Open => k = n
      /\ \A k \in 1..n : h[k] \in Versions
      /\ ~LegacyWrites => h[n].to = Open
  BY InStepType, WellFormed, StoreAssumption
  DEF MayExtend, Active, Coherent, Exists
<1>2. r.from \in 1..(MaxTime + 1)
  BY StoreAssumption DEF Requests, Times
<1>3. /\ g \in Seq(Versions) /\ Len(g) = n /\ Preserves(g, h)
      /\ \A k \in 1..n : g[k].from = h[k].from
  BY <1>1, <1>2, SealedHistory
<1>4. RowOf(r) \in Versions /\ RowOf(r).from = r.from
  BY RowType DEF RowOf, Row
<1>5. /\ versions'[m] \in Seq(Versions) /\ Len(versions'[m]) = n + 1
      /\ versions'[m][n + 1] = RowOf(r)
      /\ \A k \in 1..n : versions'[m][k] = g[k]
  <2>1. versions'[m] = Append(g, RowOf(r))
    OBVIOUS
  <2> HIDE DEF g, n
  <2>2. /\ Append(g, RowOf(r)) \in Seq(Versions)
        /\ Len(Append(g, RowOf(r))) = Len(g) + 1
        /\ Append(g, RowOf(r))[Len(g) + 1] = RowOf(r)
        /\ \A k \in 1..Len(g) : Append(g, RowOf(r))[k] = g[k]
    BY <1>3, <1>4, AppendHistory
  <2> QED BY <1>3, <2>1, <2>2
<1>6. Queued(m)'
  BY <1>1, <1>5 DEF InStep, Queued, Embeddable, Exists
<1>7. ASSUME ~LegacyWrites, NEW k \in 1..n
      PROVE  versions'[m][k].to =
               Greatest(versions'[m][k + 1].from, versions'[m][k].from + 1)
  <2>1. CASE k = n
    <3>1. g[n].to = Greatest(r.from, h[n].from + 1)
      <4>1. h[n].to = Open /\ n \in {activeVersion[m]} /\ n \in 1..n
        BY <1>1, <1>7
      <4> HIDE DEF h
      <4> QED BY <1>1, <1>2, <4>1, SealedEnd
    <3> QED BY <1>1, <1>3, <1>4, <1>5, <2>1, <3>1
  <2>2. CASE k # n
    <3>1. k \in 1..(n - 1) /\ k + 1 \in 1..n
      BY <1>1, <2>2
    <3>2. Abuts(h)
      BY <1>7 DEF InStep
    <3>3. g[k].to = Greatest(g[k + 1].from, g[k].from + 1)
      <4> HIDE DEF g, h
      <4> QED BY <1>1, <1>3, <3>1, <3>2, AbutsKept DEF n
    <3> QED BY <1>5, <3>1, <3>3
  <2> QED BY <2>1, <2>2
<1>8. ~LegacyWrites => Abuts(versions'[m])
  <2>1. (n + 1) - 1 = n
    BY <1>1
  <2> QED BY <1>5, <1>7, <2>1 DEF Abuts
<1> QED BY <1>6, <1>8 DEF InStep

LEMMA EvidenceLength ==
  ASSUME NEW h \in Seq(Versions), NEW n, NEW sources, NEW verified
  PROVE  Len(WithEvidence(h, n, sources, verified)) = Len(h)
BY DEF WithEvidence

\* Every step keeps the outbox and the windows of every memory in step.
LEMMA WriteInStep ==
  ASSUME IInv, Write, NEW x \in Memories, InStep(x), Kept(x)
  PROVE  InStep(x)'
<1> USE DEF IInv, TypeOK
<1>0. 1 \in 1..MaxVersions
  BY StoreAssumption
<1>1. ASSUME NEW m \in Memories, NEW s \in Subjects, NEW r \in Requests,
             AddRecord(m, s, r)
      PROVE  InStep(x)'
  <2>1. CASE x = m
    BY <1>0, <1>1, <2>1, InStepCreated DEF AddRecord
  <2>2. CASE x # m
    BY <1>1, <2>2, InStepUntouched DEF AddRecord
  <2> QED BY <2>1, <2>2
<1>2. ASSUME NEW m \in Memories, NEW r \in Requests, AddVersion(m, r)
      PROVE  InStep(x)'
  <2>1. CASE x = m
    <3>1. /\ MayExtend(x, r) /\ status'[x] = status[x]
          /\ versions'[x] = Append(Sealed(versions[x], {activeVersion[x]}, r.from),
                                   RowOf(r))
          /\ \A k \in 1..MaxVersions :
               <<x, k>> \in outbox' <=>
                 <<x, k>> \in outbox \/ k = Len(versions[x]) + 1
      BY <1>2, <2>1 DEF AddVersion
    <3> QED BY <3>1, InStepExtended
  <2>2. CASE x # m
    BY <1>2, <2>2, InStepUntouched DEF AddVersion
  <2> QED BY <2>1, <2>2
<1>3. ASSUME NEW m \in Memories, NEW r \in Requests, AttachSources(m, r)
      PROVE  InStep(x)'
  <2>1. CASE x = m
    <3>1. activeVersion[m] \in 1..Len(versions[m])
      BY <1>3, HasCurrentVersion DEF AttachSources, Active, Exists
    <3>2. r.sources \in SUBSET Sources /\ r.verified \in BOOLEAN
      BY DEF Requests
    <3>3. versions'[x] = WithEvidence(versions[x], activeVersion[x],
                                      r.sources, r.verified)
      BY <1>3, <2>1 DEF AttachSources
    <3>4. Len(versions'[x]) = Len(versions[x])
      BY <3>3, EvidenceLength
    <3>5. status' = status /\ outbox' = outbox /\ status[x] = "active"
      BY <1>3, <2>1 DEF AttachSources, Active
    <3> QED BY <3>4, <3>5, InStepStays DEF Embeddable, Exists
  <2>2. CASE x # m
    BY <1>3, <2>2, InStepUntouched DEF AttachSources
  <2> QED BY <2>1, <2>2
<1>4. ASSUME NEW old \in Memories, NEW new \in Memories,
             NEW r \in Requests, ReplaceActive(old, new, r)
      PROVE  InStep(x)'
  <2>1. /\ status[new] = "absent" /\ status[old] = "active" /\ old # new
        /\ r.from \in 1..(MaxTime + 1)
    BY <1>4, StoreAssumption
    DEF ReplaceActive, MayReplace, Active, Requests, Times
  <2>2. CASE x = new
    BY <1>0, <1>4, <2>1, <2>2, InStepCreated DEF ReplaceActive
  <2>3. CASE x = old
    <3>1. versions'[x] = Sealed(versions[x], {activeVersion[x]}, r.from)
      BY <1>4, <2>1, <2>3 DEF ReplaceActive
    <3>2. Len(versions'[x]) = Len(versions[x])
      BY <2>1, <3>1, SealedHistory
    <3>3. /\ status'[x] = "superseded" /\ status[x] = "active"
          /\ \A k \in 1..MaxVersions : <<x, k>> \in outbox' <=> <<x, k>> \in outbox
      BY <1>4, <2>1, <2>3 DEF ReplaceActive
    <3> QED BY <3>2, <3>3, InStepStays DEF Embeddable, Exists
  <2>4. CASE x # old /\ x # new
    BY <1>4, <2>4, InStepUntouched DEF ReplaceActive
  <2> QED BY <2>2, <2>3, <2>4
<1>5. ASSUME NEW old \in Memories, NEW new \in Memories, Supersede(old, new)
      PROVE  InStep(x)'
  <2>1. CASE x = old
    <3>1. /\ versions'[x] = Sealed(versions[x], {activeVersion[x]}, now)
          /\ status'[x] = "superseded" /\ status[x] = "active"
          /\ outbox' = outbox
      BY <1>5, <2>1 DEF Supersede, Active
    <3>2. versions[x] \in Seq(Versions) /\ now \in 1..(MaxTime + 1)
      BY StoreAssumption DEF IInv, TypeOK, Times
    <3>3. Len(versions'[x]) = Len(versions[x])
      BY <3>1, <3>2, SealedHistory
    <3> QED BY <3>1, <3>3, InStepStays DEF Embeddable, Exists
  <2>2. CASE x # old
    BY <1>5, <2>2, InStepUntouched DEF Supersede
  <2> QED BY <2>1, <2>2
<1>6. ASSUME NEW m \in Memories, NEW n \in 1..MaxVersions, NEW e \in Sources,
             AddSource(m, n, e)
      PROVE  InStep(x)'
  <2>1. CASE x = m
    <3>1. /\ n \in 1..Len(versions[x]) /\ Exists(x) /\ status' = status
          /\ versions'[x] = WithEvidence(versions[x], n, {e}, FALSE)
          /\ outbox' = outbox
      BY <1>6, <2>1 DEF AddSource
    <3>2. Len(versions'[x]) = Len(versions[x])
      <4>1. versions[x] \in Seq(Versions)
        BY WellFormed
      <4>2. Len(WithEvidence(versions[x], n, {e}, FALSE)) = Len(versions[x])
        BY <4>1, EvidenceLength
      <4> QED BY <3>1, <4>2
    <3>3. status'[x] # "purged"
      BY <3>1 DEF Exists
    <3>4. CASE Embeddable(x)
      BY <3>1, <3>2, <3>3, <3>4, InStepStays DEF Embeddable, Exists
    <3>5. CASE ~Embeddable(x)
      <4>1. status'[x] = "deleted"
        BY <3>1, <3>5 DEF Embeddable
      <4>2. \A k \in 1..MaxVersions : <<x, k>> \notin outbox'
        BY <3>1, <3>5 DEF InStep, Queued
      <4> QED BY <3>2, <4>1, <4>2, InStepGone
    <3> QED BY <3>4, <3>5
  <2>2. CASE x # m
    BY <1>6, <2>2, InStepUntouched DEF AddSource
  <2> QED BY <2>1, <2>2
<1>7. ASSUME NEW a \in Memories, NEW b \in Memories, NEW type \in RelationTypes,
             AddRelation(a, type, b)
      PROVE  InStep(x)'
  BY <1>7, InStepUntouched DEF AddRelation
<1> QED BY <1>1, <1>2, <1>3, <1>4, <1>5, <1>6, <1>7 DEF Write

LEMMA LifecycleInStep ==
  ASSUME IInv, Lifecycle, NEW x \in Memories, InStep(x), Kept(x)
  PROVE  InStep(x)'
<1> USE DEF IInv, TypeOK
<1>1. ASSUME NEW m \in Memories, NEW t \in 1..(MaxTime + 1),
             MarkExpired(m, t) \/ LegacyClose(m, t)
      PROVE  InStep(x)'
  <2>1. CASE x = m
    <3>1. /\ versions'[x] = Sealed(versions[x], {activeVersion[x]}, t)
          /\ status'[x] \in {"active", "expired"} /\ status[x] = "active"
          /\ outbox' = outbox
      BY <1>1, <2>1 DEF MarkExpired, LegacyClose, Active
    <3>2. Len(versions'[x]) = Len(versions[x])
      BY <3>1, SealedHistory
    <3> QED BY <3>1, <3>2, InStepStays DEF Embeddable, Exists
  <2>2. CASE x # m
    BY <1>1, <2>2, InStepUntouched DEF MarkExpired, LegacyClose
  <2> QED BY <2>1, <2>2
<1>2. ASSUME NEW m \in Memories, DeleteMemory(m)
      PROVE  InStep(x)'
  <2>1. CASE x = m
    <3>1. /\ versions'[x] = Sealed(versions[x], 1..Len(versions[x]), now)
          /\ status'[x] = "deleted"
          /\ \A k \in 1..MaxVersions : <<x, k>> \notin outbox'
      BY <1>2, <2>1 DEF DeleteMemory, QueuedFor
    <3>2. Len(versions'[x]) = Len(versions[x])
      BY <3>1, StoreAssumption, SealedHistory DEF Times
    <3> QED BY <3>1, <3>2, InStepGone
  <2>2. CASE x # m
    BY <1>2, <2>2, InStepUntouched DEF DeleteMemory, QueuedFor
  <2> QED BY <2>1, <2>2
<1>3. ASSUME NEW batch \in SUBSET Memories, PurgeDeleted(batch)
      PROVE  InStep(x)'
  <2>1. CASE x \in batch
    <3>1. /\ versions'[x] = << >> /\ status'[x] = "purged"
          /\ \A k \in 1..MaxVersions : <<x, k>> \notin outbox'
      BY <1>3, <2>1 DEF PurgeDeleted, QueuedFor
    <3> QED BY <3>1, InStepGone
  <2>2. CASE x \notin batch
    BY <1>3, <2>2, InStepUntouched DEF PurgeDeleted, QueuedFor
  <2> QED BY <2>1, <2>2
<1>4. ASSUME NEW batch \in SUBSET Memories, ArchiveExpiredBatch(batch)
      PROVE  InStep(x)'
  <2>1. CASE x \in batch /\ Lapsed(x)
    <3>1. /\ versions' = versions /\ outbox' = outbox
          /\ status'[x] = "expired" /\ status[x] = "active"
      BY <1>4, <2>1 DEF ArchiveExpiredBatch, Lapsed, Active
    <3> QED BY <3>1, InStepStays DEF Embeddable, Exists
  <2>2. CASE ~(x \in batch /\ Lapsed(x))
    BY <1>4, <2>2, InStepUntouched DEF ArchiveExpiredBatch
  <2> QED BY <2>1, <2>2
<1> QED BY <1>1, <1>2, <1>3, <1>4 DEF Lifecycle

AllInStep == \A m \in Memories : InStep(m)

LEMMA InitInStep == Init => AllInStep
BY DEF Init, AllInStep, InStep, Queued, Embeddable, Exists, Abuts

LEMMA NextInStep == IInv /\ AllInStep /\ [Next]_vars => AllInStep'
<1> SUFFICES ASSUME IInv, AllInStep, [Next]_vars, NEW x \in Memories
             PROVE  InStep(x)'
  BY DEF AllInStep
<1>1. InStep(x) /\ Kept(x)
  BY NextKeeps DEF AllInStep
<1>2. CASE Tick \/ UNCHANGED vars
  BY <1>1, <1>2, InStepUntouched DEF Tick, vars
<1> QED BY <1>1, <1>2, WriteInStep, LifecycleInStep DEF Next

LEMMA AlwaysInStep == Spec => []AllInStep
BY InitInStep, NextInStep, StoreInvariant, PTL DEF Spec

LEMMA InStepQueue == IInv /\ AllInStep => OutboxFollowsRecords
<1> SUFFICES ASSUME IInv, AllInStep PROVE OutboxFollowsRecords
  OBVIOUS
<1> DEFINE Q == {row \in Memories \X (1..MaxVersions) :
                   /\ row[2] <= Len(versions[row[1]])
                   /\ Exists(row[1]) /\ status[row[1]] # "deleted"}
<1>1. outbox \subseteq Memories \X (1..MaxVersions)
  BY DEF IInv, TypeOK
<1>2. ASSUME NEW m \in Memories, NEW k \in 1..MaxVersions
      PROVE  <<m, k>> \in outbox <=> <<m, k>> \in Q
  BY DEF AllInStep, InStep, Queued, Embeddable
<1>3. ASSUME NEW row \in Memories \X (1..MaxVersions)
      PROVE  row \in outbox <=> row \in Q
  <2>1. PICK m \in Memories, k \in 1..MaxVersions : row = <<m, k>>
    OBVIOUS
  <2> QED BY <1>2, <2>1
<1>4. Q \subseteq Memories \X (1..MaxVersions)
  OBVIOUS
<1>5. outbox = Q
  <2> HIDE DEF Q
  <2> QED BY <1>1, <1>3, <1>4
<1> QED BY <1>5 DEF OutboxFollowsRecords

\* The outbox holds the versions of the memories that were not deleted, and
\* nothing else: none is forgotten and none is left behind by a purge.
THEOREM OutboxIsComplete == Spec => []OutboxFollowsRecords
BY StoreInvariant, AlwaysInStep, InStepQueue, PTL

\* Two versions dated in order, and a moment at which both are to hold.
LEMMA WindowsOfOne ==
  ASSUME ~LegacyWrites, IInv, AllInStep, NEW m \in Memories, InOrder(m),
         NEW t \in Times, NEW i \in 1..Len(versions[m]),
         NEW k \in 1..Len(versions[m]), i < k,
         ValidAt(versions[m][i], t), ValidAt(versions[m][k], t)
  PROVE  FALSE
<1> DEFINE h == versions[m]
<1>1. /\ Len(h) \in Nat /\ \A l \in 1..Len(h) : h[l] \in Versions
      /\ h[i].to # Open /\ Abuts(h)
  BY InStepType DEF AllInStep, InStep
<1>2. i \in 1..(Len(h) - 1) /\ i + 1 \in 1..Len(h)
  BY <1>1
<1>3. /\ h[i].from \in Nat /\ h[i + 1].from \in Nat /\ h[k].from \in Nat
      /\ t \in Nat
  BY <1>1, <1>2 DEF Versions, Times
<1>4. h[i].from < h[i + 1].from /\ h[i].to = h[i + 1].from
  <2>1. h[i].from < h[i + 1].from
    BY <1>2 DEF InOrder
  <2> QED BY <1>1, <1>2, <1>3, <2>1 DEF Abuts, Greatest
<1>5. h[i + 1].from <= h[k].from
  <2>1. CASE i + 1 = k
    BY <1>3, <2>1
  <2>2. CASE i + 1 < k
    BY <1>2, <1>3, <2>2 DEF InOrder
  <2> QED BY <1>1, <2>1, <2>2
<1> QED BY <1>1, <1>3, <1>4, <1>5 DEF ValidAt

LEMMA InStepWindows ==
  ASSUME ~LegacyWrites, IInv, AllInStep
  PROVE  WindowsDisjoint
<1>1. ASSUME NEW m \in Memories, InOrder(m), NEW t \in Times,
             NEW i \in 1..Len(versions[m]), NEW k \in 1..Len(versions[m]),
             ValidAt(versions[m][i], t), ValidAt(versions[m][k], t)
      PROVE  i = k
  <2>1. ~(i < k)
    BY <1>1, WindowsOfOne
  <2>2. ~(k < i)
    BY <1>1, WindowsOfOne
  <2>3. Len(versions[m]) \in Nat
    BY InStepType
  <2> QED BY <2>1, <2>2, <2>3
<1> QED BY <1>1 DEF WindowsDisjoint

\* Unless a legacy script ends windows on its own, versions that were dated in
\* the order they were written never hold at the same moment.
THEOREM WindowsAreDisjoint == ~LegacyWrites => (Spec => []WindowsDisjoint)
<1>1. ASSUME ~LegacyWrites PROVE Spec => []WindowsDisjoint
  <2>1. IInv /\ AllInStep => WindowsDisjoint
    BY <1>1, InStepWindows
  <2> QED BY <2>1, StoreInvariant, AlwaysInStep, PTL
<1> QED BY <1>1

-----------------------------------------------------------------------------
(* Who replaced a superseded memory.                                        *)

\* m is superseded now, and its heir is recorded beside it.
Succeeded(m) ==
  /\ status[m] = "active"
  /\ \E n \in Memories \ {m} :
       /\ <<n, "supersedes", m>> \in relations'
       /\ status'[n] \notin {"absent", "purged"}

\* replace_active and supersede are the only writes that supersede a memory,
\* and both record the memory that takes its place.
LEMMA NextSupersedes ==
  ASSUME IInv, [Next]_vars, NEW x \in Memories,
         status'[x] = "superseded", status[x] # "superseded"
  PROVE  Succeeded(x)
<1> USE DEF IInv, TypeOK
<1>1. ASSUME NEW old \in Memories, NEW new \in Memories,
             NEW r \in Requests, ReplaceActive(old, new, r)
      PROVE  Succeeded(x)
  <2>1. /\ old # new /\ status[old] = "active"
        /\ <<new, "supersedes", old>> \in relations'
        /\ status' = [status EXCEPT ![old] = "superseded", ![new] = "active"]
    BY <1>1 DEF ReplaceActive, MayReplace, Active
  <2>2. x = old /\ status'[new] = "active"
    BY <2>1
  <2> QED BY <2>1, <2>2 DEF Succeeded
<1>2. ASSUME NEW old \in Memories, NEW new \in Memories, Supersede(old, new)
      PROVE  Succeeded(x)
  <2>1. /\ old # new /\ status[old] = "active"
        /\ status[new] \notin {"absent", "purged"}
        /\ <<new, "supersedes", old>> \in relations'
        /\ status' = [status EXCEPT ![old] = "superseded"]
    BY <1>2 DEF Supersede, Active, Exists
  <2>2. x = old /\ status'[new] = status[new]
    BY <2>1
  <2> QED BY <2>1, <2>2 DEF Succeeded
<1>3. ASSUME NEW m \in Memories, NEW s \in Subjects, NEW r \in Requests,
             AddRecord(m, s, r)
      PROVE  FALSE
  BY <1>3 DEF AddRecord
<1>4. CASE Write
  BY <1>1, <1>2, <1>3, <1>4
  DEF Write, AddVersion, AttachSources, AddSource, AddRelation
<1>5. ASSUME Lifecycle PROVE FALSE
  BY <1>5
  DEF Lifecycle, MarkExpired, LegacyClose, DeleteMemory, PurgeDeleted,
      ArchiveExpiredBatch
<1> QED BY <1>4, <1>5 DEF Next, Tick, vars

\* Only purging takes a relation away, and then one of its ends.
LEMMA NextUnlinks ==
  ASSUME IInv, [Next]_vars, NEW a \in Memories, NEW b \in Memories,
         <<a, "supersedes", b>> \in relations \ relations'
  PROVE  \E x \in {b, a} : status[x] = "deleted" /\ status'[x] = "purged"
<1>1. ASSUME NEW batch \in SUBSET Memories, PurgeDeleted(batch)
      PROVE  \E x \in {b, a} : status[x] = "deleted" /\ status'[x] = "purged"
  <2>1. a \in batch \/ b \in batch
    BY <1>1 DEF PurgeDeleted
  <2>2. \A x \in batch : status[x] = "deleted" /\ status'[x] = "purged"
    BY <1>1 DEF PurgeDeleted
  <2> QED BY <2>1, <2>2
<1>2. ASSUME relations \subseteq relations' PROVE FALSE
  BY <1>2
<1>3. CASE Write
  BY <1>2, <1>3
  DEF Write, AddRecord, AddVersion, AttachSources, ReplaceActive, Supersede,
      AddSource, AddRelation
<1>4. CASE Lifecycle
  BY <1>1, <1>2, <1>4
  DEF Lifecycle, MarkExpired, LegacyClose, DeleteMemory, ArchiveExpiredBatch
<1> QED BY <1>2, <1>3, <1>4 DEF Next, Tick, vars

\* Every replacement is recorded as it is made, and stays on record until one
\* of its ends is purged: a superseded memory leads to its heir.
THEOREM ReplacementsAreTraceable == Spec => ReplacementsAreRecorded
<1>1. IInv /\ [Next]_vars =>
        [\A m \in Memories :
           /\ status'[m] = "superseded" /\ status[m] # "superseded" =>
                /\ Active(m)
                /\ \E n \in Memories \ {m} :
                     /\ <<n, "supersedes", m>> \in relations'
                     /\ status'[n] \notin {"absent", "purged"}
           /\ \A n \in Memories :
                <<n, "supersedes", m>> \in relations \ relations' =>
                  \E x \in {m, n} :
                    status[x] = "deleted" /\ status'[x] = "purged"]_vars
  <2> SUFFICES ASSUME IInv, [Next]_vars, NEW m \in Memories
               PROVE  /\ status'[m] = "superseded" /\ status[m] # "superseded" =>
                           /\ Active(m)
                           /\ \E n \in Memories \ {m} :
                                /\ <<n, "supersedes", m>> \in relations'
                                /\ status'[n] \notin {"absent", "purged"}
                      /\ \A n \in Memories :
                           <<n, "supersedes", m>> \in relations \ relations' =>
                             \E x \in {m, n} :
                               status[x] = "deleted" /\ status'[x] = "purged"
    OBVIOUS
  <2>1. status'[m] = "superseded" /\ status[m] # "superseded" => Succeeded(m)
    BY NextSupersedes
  <2>2. \A n \in Memories :
          <<n, "supersedes", m>> \in relations \ relations' =>
            \E x \in {m, n} : status[x] = "deleted" /\ status'[x] = "purged"
    BY NextUnlinks
  <2> QED BY <2>1, <2>2 DEF Succeeded, Active
<1> QED BY <1>1, StoreInvariant, PTL DEF Spec, ReplacementsAreRecorded

-----------------------------------------------------------------------------
(* Expiry and confidence.                                                   *)

\* Only mark_expired and the archiving job bring a memory to "expired".
LEMMA NextExpires ==
  ASSUME IInv, [Next]_vars, NEW m \in Memories,
         status'[m] = "expired", status[m] # "expired"
  PROVE  Active(m) /\ versions'[m][activeVersion'[m]].to # Open
<1> USE DEF IInv, TypeOK
<1>1. ASSUME NEW t \in 1..(MaxTime + 1), MarkExpired(m, t)
      PROVE  Active(m) /\ versions'[m][activeVersion'[m]].to # Open
  <2>1. /\ status[m] = "active" /\ activeVersion'[m] = activeVersion[m]
        /\ versions'[m] = Sealed(versions[m], {activeVersion[m]}, t)
    BY <1>1 DEF MarkExpired, Active
  <2>2. activeVersion[m] \in 1..Len(versions[m])
    BY <2>1, HasCurrentVersion DEF Exists
  <2>3. versions[m] \in Seq(Versions)
    BY WellFormed
  <2>4. Sealed(versions[m], {activeVersion[m]}, t)[activeVersion[m]].to # Open
    BY <2>2, <2>3, SealedHistory
  <2> QED BY <2>1, <2>4 DEF Active
<1>2. ASSUME NEW batch \in SUBSET Memories, ArchiveExpiredBatch(batch)
      PROVE  Active(m) /\ versions'[m][activeVersion'[m]].to # Open
  <2>1. Lapsed(m) /\ versions' = versions /\ activeVersion' = activeVersion
    BY <1>2 DEF ArchiveExpiredBatch
  <2> QED BY <2>1 DEF Lapsed
<1>3. ASSUME Write PROVE FALSE
  BY <1>3
  DEF Write, AddRecord, AddVersion, AttachSources, ReplaceActive, Supersede,
      AddSource, AddRelation
<1>4. ASSUME NEW x \in Memories, NEW t \in 1..(MaxTime + 1), MarkExpired(x, t)
      PROVE  x = m
  BY <1>4 DEF MarkExpired
<1>5. ASSUME NEW x \in Memories, NEW t \in 1..(MaxTime + 1), LegacyClose(x, t)
      PROVE  FALSE
  BY <1>5 DEF LegacyClose
<1>6. ASSUME NEW x \in Memories, DeleteMemory(x) PROVE FALSE
  BY <1>6 DEF DeleteMemory
<1>7. ASSUME NEW batch \in SUBSET Memories, PurgeDeleted(batch) PROVE FALSE
  BY <1>7 DEF PurgeDeleted
<1>8. CASE Lifecycle
  BY <1>1, <1>2, <1>4, <1>5, <1>6, <1>7, <1>8 DEF Lifecycle
<1> QED BY <1>3, <1>8 DEF Next, Tick, vars

\* What a batch listed as expired is archived only while it still is: nothing
\* that was deleted, replaced or given a new version meanwhile is overwritten.
THEOREM ExpiryIsChecked == Spec => ExpiryIsConditional
<1>1. IInv /\ [Next]_vars =>
        [\A m \in Memories : status'[m] = "expired" /\ status[m] # "expired" =>
           Active(m) /\ versions'[m][activeVersion'[m]].to # Open]_vars
  BY NextExpires
<1> QED BY <1>1, StoreInvariant, PTL DEF Spec, ExpiryIsConditional

LEMMA GreatestIsNoLess ==
  ASSUME NEW a \in 0..MaxConfidence, NEW b \in 0..MaxConfidence
  PROVE  Greatest(a, b) >= a
BY DEF Greatest

LEMMA NextConfident ==
  ASSUME IInv, [Next]_vars, NEW x \in Memories, Exists(x)
  PROVE  confidence'[x] >= confidence[x]
<1> USE DEF IInv, TypeOK
<1>0. confidence[x] \in 0..MaxConfidence
  OBVIOUS
<1>1. ASSUME NEW m \in Memories, NEW s \in Subjects, NEW r \in Requests,
             AddRecord(m, s, r)
      PROVE  confidence'[x] >= confidence[x]
  BY <1>0, <1>1 DEF AddRecord, Exists
<1>2. ASSUME NEW m \in Memories, NEW r \in Requests,
             AddVersion(m, r) \/ AttachSources(m, r)
      PROVE  confidence'[x] >= confidence[x]
  <2>1. confidence' = [confidence EXCEPT ![m] = Greatest(@, r.confidence)]
    BY <1>2 DEF AddVersion, AttachSources
  <2>2. Greatest(confidence[m], r.confidence) >= confidence[m]
    BY GreatestIsNoLess DEF Requests
  <2> QED BY <1>0, <2>1, <2>2
<1>3. ASSUME NEW old \in Memories, NEW new \in Memories,
             NEW r \in Requests, ReplaceActive(old, new, r)
      PROVE  confidence'[x] >= confidence[x]
  BY <1>0, <1>3 DEF ReplaceActive, MayReplace, Exists
<1>4. ASSUME confidence' = confidence PROVE confidence'[x] >= confidence[x]
  BY <1>0, <1>4
<1> QED
  BY <1>1, <1>2, <1>3, <1>4
  DEF Next, Write, Supersede, AddSource, AddRelation, Lifecycle, MarkExpired,
      LegacyClose, DeleteMemory, PurgeDeleted, ArchiveExpiredBatch, Tick, vars

\* However a memory is reworded or supported, its confidence never drops.
THEOREM ConfidenceAccumulates == Spec => ConfidenceNeverDrops
<1>1. IInv /\ [Next]_vars =>
        [\A m \in Memories : Exists(m) => confidence'[m] >= confidence[m]]_vars
  BY NextConfident
<1> QED BY <1>1, StoreInvariant, PTL DEF Spec, ConfidenceNeverDrops

-----------------------------------------------------------------------------
(* The store implements the ledger of current facts.                        *)

\* CurrentFact names the one active memory of a subject, before a step ...
LEMMA FactNow ==
  ASSUME IInv, NEW s \in Subjects
  PROVE  /\ SubjectFree(s) => CurrentFact(s) = None
         /\ \A m \in Memories :
              Active(m) /\ subject[m] = s => CurrentFact(s) = m
         /\ ~SubjectFree(s) => /\ CurrentFact(s) \in Memories
                               /\ Active(CurrentFact(s))
                               /\ subject[CurrentFact(s)] = s
BY DEF IInv, OneActive, CurrentFact, SubjectFree

\* ... and after it.
LEMMA FactNext ==
  ASSUME IInv', NEW s \in Subjects
  PROVE  /\ SubjectFree(s)' => CurrentFact(s)' = None
         /\ \A m \in Memories :
              status'[m] = "active" /\ subject'[m] = s => CurrentFact(s)' = m
         /\ ~SubjectFree(s)' => /\ CurrentFact(s)' \in Memories
                                /\ status'[CurrentFact(s)'] = "active"
                                /\ subject'[CurrentFact(s)'] = s
BY DEF IInv, OneActive, CurrentFact, SubjectFree, Active

\* A step that takes the memories L out of "active" and does no more to the
\* ledger retires their subjects; with L = {} it changes no fact.
LEMMA StepRetires ==
  ASSUME IInv, IInv', NEW L \in SUBSET Memories,
         \A m \in L : status[m] = "active",
         subject' = subject,
         \A m \in Memories :
           status'[m] = "active" <=> status[m] = "active" /\ m \notin L,
         Retired' = Retired \cup L
  PROVE  Facts!Next
<1> DEFINE S == {subject[m] : m \in L}
<1>1. S \in SUBSET Subjects
  BY DEF IInv, Described, Exists
<1>2. \A m \in L : ~SubjectFree(subject[m]) /\ CurrentFact(subject[m]) = m
  BY <1>1, FactNow DEF Active, SubjectFree
<1>3. ASSUME NEW s \in Subjects
      PROVE  CurrentFact(s)' = IF s \in S THEN None ELSE CurrentFact(s)
  <2>1. CASE s \in S
    <3>1. PICK m \in L : subject[m] = s
      BY <2>1
    <3>2. \A n \in Memories : status'[n] = "active" => subject'[n] # s
      BY <3>1 DEF IInv, OneActive, Active
    <3> QED BY <2>1, <3>2, FactNext DEF SubjectFree, Active
  <2>2. CASE s \notin S /\ SubjectFree(s)
    <3>1. SubjectFree(s)'
      BY <2>2 DEF SubjectFree, Active
    <3> QED BY <2>2, <3>1, FactNow, FactNext
  <2>3. CASE s \notin S /\ ~SubjectFree(s)
    <3>1. PICK m \in Memories : status[m] = "active" /\ subject[m] = s
      BY <2>3 DEF SubjectFree, Active
    <3>2. status'[m] = "active" /\ subject'[m] = s
      BY <2>3, <3>1
    <3> QED BY <2>3, <3>1, <3>2, FactNow, FactNext DEF Active
  <2> QED BY <2>1, <2>2, <2>3
<1>4. {[s \in Subjects |-> CurrentFact(s)][x] : x \in S} = L
  BY <1>1, <1>2
<1>5. \A s \in S : CurrentFact(s) # None
  BY <1>2, StoreAssumption
<1>6. Facts!Retire(S)
  BY <1>1, <1>3, <1>4, <1>5 DEF Facts!Retire
<1> QED BY <1>1, <1>6 DEF Facts!Next

LEMMA AbsentIsFresh ==
  ASSUME IInv, NEW m \in Memories, status[m] = "absent"
  PROVE  Facts!Fresh(m)
<1>1. m \notin Retired
  BY DEF Retired
<1>2. ASSUME NEW s \in Subjects PROVE CurrentFact(s) # m
  BY FactNow, StoreAssumption DEF Active
<1> QED BY <1>1, <1>2 DEF Facts!Fresh

\* After "new" was made the active memory of s, and at most the memory that
\* stated s before has left "active", s has the fact "new" and no other
\* subject has changed.
LEMMA StepAsserts ==
  ASSUME IInv, IInv', NEW s \in Subjects, NEW new \in Memories,
         NEW L \in SUBSET Memories,
         \A m \in L : status[m] = "active" /\ subject[m] = s,
         status'[new] = "active", subject'[new] = s, status[new] = "absent",
         \A m \in Memories \ {new} :
           /\ subject'[m] = subject[m]
           /\ status'[m] = "active" <=> status[m] = "active" /\ m \notin L
  PROVE  [x \in Subjects |-> CurrentFact(x)]'
           = [[x \in Subjects |-> CurrentFact(x)] EXCEPT ![s] = new]
<1>1. CurrentFact(s)' = new
  BY FactNext
<1>2. ASSUME NEW x \in Subjects \ {s}
      PROVE  CurrentFact(x)' = CurrentFact(x)
  <2>1. CASE SubjectFree(x)
    <3>1. SubjectFree(x)'
      BY <1>2, <2>1 DEF SubjectFree, Active
    <3> QED BY <1>2, <2>1, <3>1, FactNow, FactNext
  <2>2. CASE ~SubjectFree(x)
    <3>1. PICK m \in Memories : status[m] = "active" /\ subject[m] = x
      BY <2>2 DEF SubjectFree, Active
    <3>2. status'[m] = "active" /\ subject'[m] = x
      BY <1>2, <3>1
    <3> QED BY <1>2, <3>1, <3>2, FactNow, FactNext DEF Active
  <2> QED BY <2>1, <2>2
<1> QED BY <1>1, <1>2

LEMMA RefineInit == Init => Facts!Init
BY DEF Init, Facts!Init, CurrentFact, SubjectFree, Active, Retired

\* What the retired memories are after a step, in terms of status'.
LEMMA RetiredNext ==
  Retired' = {m \in Memories : status'[m] \notin {"absent", "active"}}
BY DEF Retired

LEMMA StepKeepsFacts ==
  ASSUME IInv, IInv', subject' = subject,
         \A m \in Memories :
           /\ status'[m] = "active" <=> status[m] = "active"
           /\ status'[m] = "absent" <=> status[m] = "absent"
  PROVE  Facts!Next
<1>1. Retired' = Retired \cup {}
  BY RetiredNext DEF Retired
<1>2. {} \in SUBSET Memories
  OBVIOUS
<1> QED BY <1>1, <1>2, StepRetires

LEMMA StepRetiresOne ==
  ASSUME IInv, IInv', NEW old \in Memories, status[old] = "active",
         subject' = subject,
         \E st \in {"superseded", "expired", "deleted"} :
           status' = [status EXCEPT ![old] = st]
  PROVE  Facts!Next
<1>1. /\ \A m \in Memories : m # old => status'[m] = status[m]
      /\ status'[old] \in {"superseded", "expired", "deleted"}
  BY DEF IInv, TypeOK
<1>2. Retired' = Retired \cup {old}
  BY <1>1, RetiredNext DEF Retired
<1>3. \A m \in Memories :
        status'[m] = "active" <=> status[m] = "active" /\ m \notin {old}
  BY <1>1
<1>4. /\ {old} \in SUBSET Memories
      /\ \A m \in {old} : status[m] = "active"
  OBVIOUS
<1> QED BY <1>2, <1>3, <1>4, StepRetires

\* A write is a step of the ledger.
LEMMA RefineWrite ==
  ASSUME IInv, IInv', Write
  PROVE  Facts!Next
<1>0. /\ status \in [Memories -> Statuses]
      /\ subject \in [Memories -> Subjects \cup {None}]
  BY DEF IInv, TypeOK
<1>1. ASSUME NEW m \in Memories, NEW s \in Subjects, NEW r \in Requests,
             AddRecord(m, s, r)
      PROVE  Facts!Next
  <2>1. /\ status[m] = "absent" /\ SubjectFree(s)
        /\ status' = [status EXCEPT ![m] = "active"]
        /\ subject' = [subject EXCEPT ![m] = s]
    BY <1>1 DEF AddRecord
  <2>2. [x \in Subjects |-> CurrentFact(x)]'
          = [[x \in Subjects |-> CurrentFact(x)] EXCEPT ![s] = m]
    BY <1>0, <2>1, StepAsserts, {} \in SUBSET Memories
  <2>3. Retired' = Retired
    BY <1>0, <2>1, RetiredNext DEF Retired
  <2>4. CurrentFact(s) = None
    BY <2>1, FactNow
  <2>5. Facts!Establish(s, m)
    BY <2>1, <2>2, <2>3, <2>4, AbsentIsFresh DEF Facts!Establish
  <2> QED BY <2>5 DEF Facts!Next
<1>2. ASSUME NEW old \in Memories, NEW new \in Memories,
             NEW r \in Requests, ReplaceActive(old, new, r)
      PROVE  Facts!Next
  <2> DEFINE s == subject[old]
  <2>1. /\ status[new] = "absent" /\ status[old] = "active" /\ old # new
        /\ status' = [status EXCEPT ![old] = "superseded", ![new] = "active"]
        /\ subject' = [subject EXCEPT ![new] = s]
    BY <1>2 DEF ReplaceActive, MayReplace, Active
  <2>2. s \in Subjects
    BY <2>1 DEF IInv, Described, Exists
  <2>3. CurrentFact(s) = old
    BY <2>1, <2>2, FactNow DEF Active
  <2>4. [x \in Subjects |-> CurrentFact(x)]'
          = [[x \in Subjects |-> CurrentFact(x)] EXCEPT ![s] = new]
    <3>1. /\ {old} \in SUBSET Memories
          /\ \A m \in {old} : status[m] = "active" /\ subject[m] = s
          /\ status'[new] = "active" /\ subject'[new] = s
          /\ \A m \in Memories \ {new} :
               /\ subject'[m] = subject[m]
               /\ status'[m] = "active" <=> status[m] = "active" /\ m \notin {old}
      BY <1>0, <2>1
    <3> HIDE DEF s
    <3> QED BY <2>1, <2>2, <3>1, StepAsserts
  <2>5. Retired' = Retired \cup {old}
    BY <1>0, <2>1, RetiredNext DEF Retired
  <2>6. old # None
    BY StoreAssumption
  <2>7. Facts!Replace(s, new)
    BY <2>1, <2>2, <2>3, <2>4, <2>5, <2>6, AbsentIsFresh DEF Facts!Replace
  <2> QED BY <2>2, <2>7 DEF Facts!Next
<1>3. ASSUME NEW old \in Memories, NEW new \in Memories, Supersede(old, new)
      PROVE  Facts!Next
  BY <1>3, StepRetiresOne DEF Supersede, Active
<1>4. ASSUME subject' = subject, status' = status
      PROVE  Facts!Next
  BY <1>4, StepKeepsFacts
<1> QED
  BY <1>1, <1>2, <1>3, <1>4
  DEF Write, AddVersion, AttachSources, AddSource, AddRelation

\* A lifecycle operation retires facts, or changes none.
LEMMA RefineLifecycle ==
  ASSUME IInv, IInv', Lifecycle
  PROVE  Facts!Next
<1>0. status \in [Memories -> Statuses]
  BY DEF IInv, TypeOK
<1>1. ASSUME NEW m \in Memories, NEW t \in 1..(MaxTime + 1), MarkExpired(m, t)
      PROVE  Facts!Next
  BY <1>1, StepRetiresOne DEF MarkExpired, Active
<1>2. ASSUME NEW m \in Memories, NEW t \in 1..(MaxTime + 1), LegacyClose(m, t)
      PROVE  Facts!Next
  BY <1>2, StepKeepsFacts DEF LegacyClose
<1>3. ASSUME NEW m \in Memories, DeleteMemory(m)
      PROVE  Facts!Next
  <2>1. CASE status[m] = "active"
    BY <1>3, <2>1, StepRetiresOne DEF DeleteMemory
  <2>2. CASE status[m] # "active"
    <3>1. /\ subject' = subject
          /\ \A x \in Memories :
               /\ status'[x] = "active" <=> status[x] = "active"
               /\ status'[x] = "absent" <=> status[x] = "absent"
      BY <1>0, <1>3, <2>2 DEF DeleteMemory, Exists
    <3> QED BY <3>1, StepKeepsFacts
  <2> QED BY <2>1, <2>2
<1>4. ASSUME NEW batch \in SUBSET Memories, PurgeDeleted(batch)
      PROVE  Facts!Next
  BY <1>4, StepKeepsFacts DEF PurgeDeleted
<1>5. ASSUME NEW batch \in SUBSET Memories, ArchiveExpiredBatch(batch)
      PROVE  Facts!Next
  <2> DEFINE L == {m \in batch : Lapsed(m)}
  <2>1. /\ L \in SUBSET Memories
        /\ \A m \in L : status[m] = "active"
        /\ subject' = subject
        /\ \A m \in Memories :
             status'[m] = IF m \in L THEN "expired" ELSE status[m]
    BY <1>5 DEF ArchiveExpiredBatch, Lapsed, Active
  <2> HIDE DEF L
  <2>2. Retired' = Retired \cup L
    BY <2>1, RetiredNext DEF Retired
  <2>3. \A m \in Memories :
          status'[m] = "active" <=> status[m] = "active" /\ m \notin L
    BY <2>1
  <2> QED BY <2>1, <2>2, <2>3, StepRetires
<1> QED BY <1>1, <1>2, <1>3, <1>4, <1>5 DEF Lifecycle

LEMMA RefineNext ==
  IInv /\ IInv' /\ [Next]_vars => [Facts!Next]_(Facts!facts)
<1> SUFFICES ASSUME IInv, IInv', [Next]_vars
             PROVE  Facts!Next
  OBVIOUS
<1>1. CASE Tick \/ UNCHANGED vars
  BY <1>1, StepKeepsFacts DEF Tick, vars
<1> QED BY <1>1, RefineWrite, RefineLifecycle DEF Next

\* The store implements the ledger of current facts: one fact per subject,
\* replaced or retired in one step, and never restored.
THEOREM StoreImplementsFacts == Spec => ImplementsSubjectFacts
BY RefineInit, RefineNext, StoreInvariant, PTL
DEF Spec, ImplementsSubjectFacts, Facts!Spec
=============================================================================
