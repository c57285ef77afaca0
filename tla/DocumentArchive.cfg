SPECIFICATION Spec
CONSTANTS
  Messages = {m1, m2}
  Copies = {m1, m2}
  MessageOf <- MCMessageOf
  Malformed = {}
  Workers = {w1, w2}
  Prefetch = 2
  MaxFaults = 2
  Documents = {d1, d2}
  Infected = {d2}
  Corrupt = Corrupt
  MaxUploads = 2
  None = None
SYMMETRY Symmetry
INVARIANTS StoreIsConsistent
PROPERTIES ArchivedIsFinal ImplementsInbox
CHECK_DEADLOCK FALSE
