SPECIFICATION PlaygroundSpec
CONSTANTS
  \* Two songs in two tabs; the registry keeps one record.
  Outputs = {o1, o2}
  Tabs = {t1, t2}
  MaxRecords = 1
  MaySuspend = FALSE
  None = None
  \* Up to three engines in turn.
  Resources = {r1, r2, r3}
  \* Two transcriptions over two decoder workers.
  Calls = {c1, c2}
  Groups <- ThreeGroups
  Silent = {3}
  NumWorkers = 2
  MaxDecodeFailures = 2
  MayDispose = TRUE
  \* Pages that do not reset the engine under a push with a further pass to run.
  MaxCalls = 3
  MaxPasses = 2
  MaxReadbackFailures = 1
  Budget = 6
  Patient = TRUE
INVARIANTS
  ClosedIsEmpty
  TranscriptIsInOrder
  BuffersHaveOneOwner
  StreamHearsItsAudio
  ShownSongIsKept
PROPERTIES
  NotDisposedInUse
  ForgottenMeansDeleted
CHECK_DEADLOCK FALSE
