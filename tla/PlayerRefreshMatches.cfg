SPECIFICATION Spec
CONSTANTS
  r1 = r1
  r2 = r2
  p1 = p1
  p2 = p2
  q1 = q1
  q2 = q2
  m1 = m1
  m2 = m2
  m3 = m3
  m4 = m4
  m5 = m5
  None = None
  Earlier = Earlier
  Requests = {r1, r2}
  Players = {p1, p2}
  Queues = {q1}
  Matches = {m1, m2, m3, m4, m5}
  HasStart = {m1, m2, m3, m4, m5}
  MatchLists <- MCLists
  OldLinks <- MCOldLinks
  Unreadable = {m1}
  Recency <- MCRecency
  Participants <- MCParticipants
SYMMETRY RequestSymmetry
INVARIANTS
  TypeOK
  NoForeignKeyViolation
  EveryMatchHasALink
  SuccessMeansComplete
  SummaryAddsUp
  NoDeadlock
