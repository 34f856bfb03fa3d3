CONSTANTS
  Graphs = {1, 2, 3}
  Cooperative = {2, 3}
  EpochsOf <- ThreePlans
  MaxFenceFailures = 2
  Conforming = TRUE
SPECIFICATION Spec
INVARIANTS
  ServedInOrder
PROPERTIES
  OwnerSettles
CHECK_DEADLOCK FALSE
