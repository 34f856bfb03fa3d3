CONSTANTS
  MaxOperations = 2
  MaxDisposals = 1
  MaxWorkerErrors = 1
  MaxOutbox = 2
  OperationIds = {1, 2}
  MaxQueue = 1
SPECIFICATION SessionSpec
INVARIANTS
  LeaseFollowsWorker
  CancelHasTarget
  ResolvedWithOwnJob
  ClientKeepsProtocol
  DisposedIsGone
PROPERTIES
  ImplementsMusicService
  StopsEnd
CHECK_DEADLOCK FALSE
