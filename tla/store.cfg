SPECIFICATION Spec
CONSTANTS
  m1 = m1  m2 = m2
  s1 = s1
  c1 = c1  c2 = c2
  None = None
  Memories = {m1, m2}
  Subjects = {s1}
  Episodes = {}
  Contents = {c1, c2}
  Sources = {"user_statement"}
  Confirming <- MCConfirming
  RelationTypes = {}
  MaxTime = 2
  MaxVersions = 2
  MaxConfidence = 0
  LegacyWrites = TRUE
SYMMETRY StoreSymmetry
INVARIANTS TypeOK CurrentIsLastOpen VerifiedHasEvidence OutboxFollowsRecords
           OneActive
PROPERTIES HistoryOnlyGrows ReplacementsAreRecorded ExpiryIsConditional
CHECK_DEADLOCK FALSE
