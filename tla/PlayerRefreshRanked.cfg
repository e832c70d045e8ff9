SPECIFICATION Spec
CONSTANTS
  r1 = r1
  r2 = r2
  p1 = p1
  p2 = p2
  q1 = q1
  q2 = q2
  m1 = m1
  m2 = m2
  m3 = m3
  m4 = m4
  m5 = m5
  None = None
  Earlier = Earlier
  Requests = {r1, r2}
  Players = {p1, p2}
  Queues = {q1, q2}
  Matches = {m2}
  HasStart = {m2}
  MatchLists <- OneOldMatch
  OldLinks <- OneOldLink
  Unreadable = {}
  Recency <- MCRecency
  Participants <- MCParticipants
SYMMETRY RequestSymmetry
INVARIANTS
  ProfileAndRankedAgree
PROPERTIES
  ProfileIsKept
  FailureTouchesOnlyTheRow
  ReadersSeeWholeRefreshes
