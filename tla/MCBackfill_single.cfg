\* One coordinator at a time, three iterations, two permits, a repeated key.
CONSTANTS
  c1 = c1
  Coords = {c1}
  N = 3
  Keys <- KeySet
  KeyOf <- RepeatedKey
  Concurrency = 2
  FailFast = TRUE
  MaxCrashes = 1
  MaxFaults = 1
SPECIFICATION FairSpec
INVARIANTS
  FailFastOvershoot
  CompletedMeansDone
PROPERTIES
  SucceededIsFinal
  CoordinatorEnds
CHECK_DEADLOCK FALSE
