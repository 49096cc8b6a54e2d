\* A webhook call makes its own token invalid.
CONSTANTS
  Configs <- WebhookSkip
  CronTimes <- TwoOccurrences
  Every = 1
  StartAt = 0
  PollInterval = 1
  Files = {}
  MaxQueueDepth = 1
  Actors = {"hook"}
  Others = FALSE
  FrontEnds = {"cli"}
  MaxTime = 2
  MaxRuns = 2
  MaxTokens = 2
  MaxFaults = 0
SPECIFICATION Spec
PROPERTY TokenStays
CHECK_DEADLOCK FALSE
