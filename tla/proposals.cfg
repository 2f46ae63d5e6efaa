SPECIFICATION ProposalsSpec
CONSTANTS
  m1 = m1  m2 = m2  m3 = m3
  s1 = s1  s2 = s2
  c1 = c1  c2 = c2
  p1 = p1  p2 = p2
  r1 = r1  r2 = r2
  None = None
  Memories = {m1, m2, m3}
  Subjects = {s1, s2}
  Episodes = {}
  Contents = {c1, c2}
  Sources = {"user_statement"}
  Confirming <- MCConfirming
  RelationTypes = {}
  MaxTime = 1
  MaxVersions = 3
  MaxConfidence = 0
  LegacyWrites = FALSE
  MaxEdits = 3
  Preferences = {}
  Slots = {p1}
  Reviewers = {r1, r2}
  Incoming <- Restated
SYMMETRY Interchangeable
INVARIANTS ProposalsTypeOK AuditIsTrue MergedOnce
PROPERTIES OldIsNotApplied ImplementsSubjectFacts
CHECK_DEADLOCK FALSE
