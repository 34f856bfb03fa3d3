SPECIFICATION Spec
CONSTANTS
  Callers = {c1}
  MaxFaults = 1
PROPERTY DisposeTerminates
CHECK_DEADLOCK FALSE
