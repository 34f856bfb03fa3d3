CONSTANTS
  Graphs = {1, 2}
  Cooperative = {1, 2}
  EpochsOf <- TwoPlans
  MaxFenceFailures = 1
  Conforming = TRUE
SPECIFICATION Spec
INVARIANTS
  ReleasedOnlyAfterDrain
CHECK_DEADLOCK FALSE
