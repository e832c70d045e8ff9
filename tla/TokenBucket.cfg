SPECIFICATION FairSpec
CONSTANTS
  c1 = c1
  c2 = c2
  c3 = c3
  Callers = {c1, c2, c3}
  Rate = 2
  Cost = 3
  Capacity = 6
  MaxCalls = 2
  MaxWindow = 4
INVARIANTS
  TypeOK
  WindowIsBounded
  SleepSuffices
PROPERTIES
  EveryCallerIsServed
