\* A cron trigger rejected and an interval skipped while the pipeline runs.
CONSTANTS
  Configs <- TimeTriggers
  CronTimes <- TwoOccurrences
  Every = 2
  StartAt = 2
  PollInterval = 1
  Files = {}
  MaxQueueDepth = 1
  Actors = {"tick", "update"}
  Others = FALSE
  FrontEnds = {"api"}
  MaxTime = 4
  MaxRuns = 2
  MaxTokens = 0
  MaxFaults = 1
SPECIFICATION FairSpec
PROPERTIES
  NoMissedSlot
  OncePerSlot
  DueFires
CHECK_DEADLOCK FALSE
