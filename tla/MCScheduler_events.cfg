\* A file sensor, a webhook and a completion trigger, fired by several actors.
CONSTANTS
  Configs <- EventTriggers
  CronTimes <- TwoOccurrences
  Every = 1
  StartAt = 0
  PollInterval = 1
  Files = {"a"}
  MaxQueueDepth = 1
  Actors = {"tick", "manual", "notify", "hook"}
  Others = TRUE
  FrontEnds = {"cli"}
  MaxTime = 2
  MaxRuns = 3
  MaxTokens = 1
  MaxFaults = 0
SPECIFICATION Spec
INVARIANTS
  FileOnce
  RefusedFilesStay
  PolicyBound
  QueueBound
CHECK_DEADLOCK FALSE
