SPECIFICATION AuditSpec
CONSTANTS
  w1 = w1
  w2 = w2
  Events = {1, 2, 3}
  NoEvent = NoEvent
  Addressed = {}
  UpperCased = {}
  EmptySession = {}
  Writers <- MCWriters
  NoWriter = NoWriter
  MaxClock = 4
  MaxStepsBack = 1
INVARIANTS ChainCanGrow
