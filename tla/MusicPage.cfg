SPECIFICATION PageSpec
CONSTANTS
  Callers = {c1, c2}
  Workers = {w1}
  Home <- OneWorker
  Length = 2
  MaxAttempts = 2
  Siloed = FALSE
  MayCorrupt = FALSE
  NoFile = NoFile
  Nobody = Nobody
INVARIANTS VerifiedIsAuthentic ReservationHasOneOwner
PROPERTIES VerifiedIsImmutable AcquisitionSettles ClickIsAnswered
CHECK_DEADLOCK FALSE
