\* One write of up to three batches, to a plugin that may do anything an SDK
\* plugin does, at any speed.  A write ends, so the run may stop.
CONSTANTS
  MaxBatches = 3
SPECIFICATION FairSpec
INVARIANTS
  OkIsCommitted
  CommitIsWhole
  CommitOrAbort
  AckedIsWritten
  InStep
PROPERTIES
  KeepsContract
  WriteReturns
CHECK_DEADLOCK FALSE
