SPECIFICATION Spec
CONSTANTS
  Callers = {c1, c2}
  Workers = {w1, w2}
  Home <- OwnWorker
  Length = 2
  MaxAttempts = 1
  Siloed = TRUE
  MayCorrupt = TRUE
  NoFile = NoFile
INVARIANTS AcquiredIsAuthentic
CHECK_DEADLOCK FALSE
