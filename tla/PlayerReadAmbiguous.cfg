SPECIFICATION Spec
CONSTANTS
  r1 = r1
  r2 = r2
  p1 = p1
  p2 = p2
  m1 = m1
  m2 = m2
  m3 = m3
  ahri = ahri
  zed = zed
  None = None
  Earlier = Earlier
  Requests = {r1, r2}
  Players = {p1, p2}
  Queues = {}
  Matches = {}
  Names = {n1, n2, n3}
  Champions = {ahri, zed}
  SoloQ = {}
  OldLinks = {}
  Limits = {1}
  MaxRefreshes = 1
  MaxReads = 2
  Start <- MCStart
  Id <- MCId
  Participants <- MCParticipants
  Played <- MCPlayed
  Alphabet <- MCAlphabet
INVARIANTS
  SearchFindsAtMostOne
