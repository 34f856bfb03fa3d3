SPECIFICATION DemoSpec
CONSTANTS
  c1 = c1
  c2 = c2
  c3 = c3
  p1 = p1
  p2 = p2
  old = old
  new = new
  Calls = {c1, c2, c3}
  Page <- TwoPages
  Pages = {p1, p2}
  Generations = {old, new}
  Generation <- TwoReleases
  Siloed = FALSE
  NoMarker = NoMarker
  TornMarker = TornMarker
  MaxJobs = 2
  Invocations = 2
  Windows = 2
INVARIANTS
  LeasedCacheIsCurrent
  LifetimesDoNotOverlap
  EpochsTilePhases
PROPERTIES
  LeasedCacheIsNotDeleted
  AcquisitionEnds
  ImplementsBackend
  AbortedGenerationEnds
  CallsSettle
CHECK_DEADLOCK FALSE
