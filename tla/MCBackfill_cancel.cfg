\* A cancel through the store does not stop the coordinator.
CONSTANTS
  c1 = c1
  c2 = c2
  Coords = {c1, c2}
  N = 2
  Keys <- KeySet
  KeyOf <- TwoKeys
  Concurrency = 1
  FailFast = FALSE
  MaxCrashes = 0
  MaxFaults = 0
SPECIFICATION Spec
PROPERTY CancelStopsNewIterations
CHECK_DEADLOCK FALSE
