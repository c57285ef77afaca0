SPECIFICATION Spec
CONSTANTS
  r1 = r1
  r2 = r2
  a1 = a1
  a2 = a2
  a3 = a3
  k1 = k1
  k2 = k2
  k3 = k3
  s1 = s1
  s2 = s2
  Runs <- MCRuns
  Bases = {b1}
  NoBasis = NoBasis
  Production <- MCProduction
  Actors <- MCActors
  NoActor = NoActor
  Keys <- MCKeys
  Sessions <- MCSessions
  MaxInputs = 1
  MaxObstacles = 1
SYMMETRY Symmetry
INVARIANTS ApprovalIsSound TrailMatchesRun OneRunPerBasis
PROPERTIES RecordedIsFinal
