---------------------------- MODULE MCScheduler ----------------------------
(* Instances of Scheduler for TLC. *)
EXTENDS Scheduler

\* A cron expression with two occurrences that leave room for ticks in between.
TwoOccurrences == {2, 4}

TimeTriggers  == {<<"cron", "reject">>, <<"interval", "skip">>}
EventTriggers ==
  {<<"file_arrival", "queue">>, <<"webhook", "skip">>, <<"pipeline_completion", "reject">>}
CronQueue     == {<<"cron", "queue">>}
WebhookSkip   == {<<"webhook", "skip">>}
WebhookQueue  == {<<"webhook", "queue">>}
=============================================================================
