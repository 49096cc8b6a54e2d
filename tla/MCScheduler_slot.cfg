\* A cron trigger created on the command line misses occurrences.
CONSTANTS
  Configs <- CronQueue
  CronTimes <- TwoOccurrences
  Every = 1
  StartAt = 0
  PollInterval = 1
  Files = {}
  MaxQueueDepth = 1
  Actors = {"tick"}
  Others = FALSE
  FrontEnds = {"cli"}
  MaxTime = 5
  MaxRuns = 2
  MaxTokens = 0
  MaxFaults = 0
SPECIFICATION Spec
PROPERTY NoMissedSlot
CHECK_DEADLOCK FALSE
