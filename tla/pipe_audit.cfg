SPECIFICATION PipelineSpec
CONSTANTS
  m1 = m1  m2 = m2
  w1 = w1  w2 = w2
  pref = pref
  c1 = c1  c2 = c2
  g1 = g1
  None = None
  Memories = {m1, m2}
  Subjects = {pref}
  Episodes = {}
  Contents = {c1, c2}
  Sources = {"user_statement", "tool_result", "history_event"}
  Confirming <- MCConfirming
  RelationTypes = {}
  MaxTime = 1
  MaxVersions = 3
  MaxConfidence = 0
  LegacyWrites = FALSE
  Sessions = {w1, w2}
  Preferences = {pref}
  Candidates <- PreferenceCandidates
  Ranges = {g1}
  MaxIndex = 2
  LedgerLimit = 1
  Faults = TRUE
SYMMETRY Interchangeable
INVARIANTS PipelineTypeOK NoFalseAudit PreferenceYieldsToUser
PROPERTIES NoSilentOverwrite
CHECK_DEADLOCK FALSE
