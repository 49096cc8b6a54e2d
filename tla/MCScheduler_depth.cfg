\* A queue is full although every run has completed.
CONSTANTS
  Configs <- WebhookQueue
  CronTimes <- TwoOccurrences
  Every = 1
  StartAt = 0
  PollInterval = 1
  Files = {}
  MaxQueueDepth = 2
  Actors = {"manual"}
  Others = TRUE
  FrontEnds = {"cli"}
  MaxTime = 2
  MaxRuns = 3
  MaxTokens = 1
  MaxFaults = 0
SPECIFICATION Spec
PROPERTY FullMeansFull
CHECK_DEADLOCK FALSE
