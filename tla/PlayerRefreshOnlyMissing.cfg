SPECIFICATION Spec
CONSTANTS
  r1 = r1
  r2 = r2
  p1 = p1
  p2 = p2
  q1 = q1
  q2 = q2
  m1 = m1
  m2 = m2
  m3 = m3
  m4 = m4
  m5 = m5
  None = None
  Earlier = Earlier
  Requests = {r1, r2}
  Players = {p1, p2}
  Queues = {q1}
  Matches = {m3}
  HasStart = {m3}
  MatchLists <- OneNewMatch
  OldLinks <- NoLinks
  Unreadable = {}
  Recency <- MCRecency
  Participants <- MCParticipants
PROPERTIES
  OnlyMissingIsFetched
