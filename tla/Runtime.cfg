SPECIFICATION RuntimeSpec
CONSTANTS
  \* Three initialize and dispose requests, two jobs, two messages in the inbox.
  OperationIds = {1, 2}
  MaxQueue = 1
  MaxRequests = 3
  MaxJobs = 2
  MaxInbox = 2
  \* Two depth-2 graphs, two failing fences, a device that may not let itself be destroyed.
  Graphs = {1, 2}
  Cooperative = {}
  EpochsOf <- TwoPlans
  MaxFenceFailures = 2
  Conforming = FALSE
INVARIANTS
  BackendAcceptsEveryCall
  InitializationIsAtomic
  DisposedMeansQuiet
  UnpublishedOutputIsOwned
  PublishedOutputSurvives
  LastWord
  ReleasedOnlyAfterDrain
  ReportsAreTrue
PROPERTIES
  StoppedThingsEnd
  SuccessMeansComplete
CHECK_DEADLOCK FALSE
