SPECIFICATION AuditFairSpec
CONSTANTS
  w1 = w1
  w2 = w2
  Events = {1, 2, 3, 4}
  NoEvent = NoEvent
  Addressed = {2}
  UpperCased = {2, 3}
  EmptySession = {3}
  Writers <- MCWriters
  NoWriter = NoWriter
  MaxClock = 5
  MaxStepsBack = 1
INVARIANTS AuditTypeOK OneChain BrokenHasCause
PROPERTIES LockIsGranted
