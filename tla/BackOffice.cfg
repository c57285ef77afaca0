SPECIFICATION MCSpec
CONSTANTS
  r1 = r1
  r2 = r2
  r3 = r3
  u1 = u1
  u2 = u2
  u3 = u3
  k1 = k1
  k2 = k2
  s1 = s1
  s2 = s2
  e1 = e1
  x1 = x1
  x2 = x2
  d1 = d1
  clear = clear
  doc = doc
  c1 = c1
  Digits = 3
  Largest = 7
  Inputs <- MCInputs
  NoRun = NoRun
  NoSource = NoSource
  NoDiscrepancy = NoDiscrepancy
  Runs = {r1, r2, r3}
  Maker <- MCMaker
  Date <- MCDate
  Distributable <- MCDistributable
  Shares <- MCShares
  Sessions = {s1, s2}
  Requests <- MCRequests
  Hours <- MCHours
  Delay = 2
  TopLevel = 2
  MaxEntries = 3
  MaxAcknowledgements = 2
  MaxTime = 3
  Workers = {s1, s2}
  Manifests <- MCManifests
  LandedContents <- MCLandedContents
  RowsOf <- MCRowsOf
  NotCsv = {"sick"}
  Infected = {"sick"}
  BusinessDate <- MCBusinessDate
  Currencies = {"TND"}
  Products = {"p1"}
  WindowStart = 0
  WindowEnd = 6
  NoRow = 0
  ReportSessions = {s1, s2}
  ReportActors = {u1, u2}
  Exports = {x1, x2}
  ReportKeys = {k1, k2}
  ExportContents = {c1}
  Datasets = {d1, clear}
  ClearDatasets = {clear}
  Facts <- MCFacts
  Documents = {doc}
  Nobody = Nobody
  ProductSessions = {s1, s2}
  Catalogue = {"p1", "p2"}
  Complete = {"p1"}
  People = {"u2", "u3"}
  CommandKeys = {1}
  References <- MCReferences
  RequiredKinds = {"REGULATORY_DOCUMENT", "SHARIA_DOCUMENT"}
  Creations <- MCCreations
  Transits <- MCTransits
  Drafts <- MCDrafts
  Publications <- MCPublications
  LastDay = 3
  MaxVersions = 3
  MaxHistory = 6
SYMMETRY MCSymmetry
INVARIANTS AmountsAreKept SharesAreFair LossFollowsCascade AnswersAreExact LedgerIsConsistent AcknowledgedInOrder DiscrepanciesAreFollowed ReplaysAgree IngestionIsConsistent ReportingIsConsistent ProductsAreConsistent TermsAreConsistent
CHECK_DEADLOCK FALSE
