SPECIFICATION Spec
CONSTANTS
  c1 = c1
  c2 = c2
  d1 = d1
  u1 = u1
  u2 = u2
  u3 = u3
  k1 = k1
  k2 = k2
  s1 = s1
  s2 = s2
  Closings <- MCClosings
  Requests <- MCRequests
  Dates = {d1}
  Commands <- MCCommands
  Actors <- MCActors
  NoActor = NoActor
  Blockers = {b1}
  Keys <- MCKeys
  PastKey = PastKey
  Starts = {6, 18}
  Sessions <- MCSessions
SYMMETRY Symmetry
INVARIANTS ReviewIsSound StepsAreRecorded
PROPERTIES ApprovedIsFinal
