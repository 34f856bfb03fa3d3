CONSTANTS
  c1 = c1
  c2 = c2
  Calls = {c1}
  Groups <- Clip
  Silent = {}
  NumWorkers = 2
  MaxFailures = 0
  MayDispose = TRUE
SPECIFICATION FairSpec
PROPERTY TranscriptionEnds
CHECK_DEADLOCK FALSE
