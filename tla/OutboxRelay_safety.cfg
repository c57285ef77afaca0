SPECIFICATION Spec
CONSTANTS
  e1 = e1
  e2 = e2
  w1 = w1
  w2 = w2
  Events <- MCEvents
  Routable <- MCRoutable
  Workers <- MCWorkers
  NoWorker = NoWorker
  NoRecord = NoRecord
  BatchLimit = 2
  LeaseTicks = 1
  RetryBase = 1
  RetryCap = 2
  ExponentCap = 1
  Horizon = 3
  ChannelsFail = TRUE
  MaxFaults = 2
SYMMETRY Symmetry
INVARIANTS TypeOK PublishedWasAccepted DuplicateOnlyAfterFault
PROPERTIES PublishedIsFinal ImplementsEventLog
