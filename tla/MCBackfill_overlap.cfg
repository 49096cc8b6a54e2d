\* Two coordinators that may work on the backfill at once.
CONSTANTS
  c1 = c1
  c2 = c2
  Coords = {c1, c2}
  N = 2
  Keys <- KeySet
  KeyOf <- TwoKeys
  Concurrency = 1
  FailFast = FALSE
  MaxCrashes = 1
  MaxFaults = 0
SYMMETRY CoordSymmetry
SPECIFICATION Spec
INVARIANTS
  PermitBound
  NoOrphan
CHECK_DEADLOCK FALSE
