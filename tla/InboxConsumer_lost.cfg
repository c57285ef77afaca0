SPECIFICATION Spec
CONSTANTS
  m1 = m1
  mBad = mBad
  c1 = c1
  c2 = c2
  cBad = cBad
  w1 = w1
  w2 = w2
  Messages <- MCMessages
  Copies <- MCCopies
  MessageOf <- MCMessageOf
  Malformed <- MCMalformed
  Workers <- MCWorkers
  Prefetch = 2
  MaxFaults = 2
INVARIANT AcknowledgedMeansHandled
