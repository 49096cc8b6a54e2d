----------------------------- MODULE Scheduler -----------------------------
(***************************************************************************)
(* One trigger: the scheduler of armillary-scheduler/src/scheduler.rs, its *)
(* rows in store.rs, and the handlers that reach them from the HTTP API    *)
(* (armillary-server/src/api/triggers.rs and webhook.rs) and the command   *)
(* line (armillary-cli/src/trigger.rs).  Triggers share nothing but the    *)
(* dispatcher, whose other runs are the variable `foreign`.                *)
(*                                                                         *)
(* The tick loop and the handlers are actors that run concurrently; every  *)
(* call of the store or of the dispatcher is one atomic step.  A time is a *)
(* number of seconds; 0 stands for "no time".                              *)
(***************************************************************************)
EXTENDS Naturals, FiniteSets

CONSTANTS
  Configs,        \* the triggers considered: pairs of a kind and a run_policy
  CronTimes,      \* occurrences of a cron expression
  Every, StartAt, \* an interval and its anchor, 0 when start_at is not given
  PollInterval,   \* a file sensor's poll_interval
  Files,          \* files that may arrive
  MaxQueueDepth,  \* max_queue_depth
  Actors,         \* "tick" and the handlers that may be active
  Others,         \* whether other runs of the pipeline occur
  FrontEnds,      \* which front ends create the trigger: subset of {"api", "cli"}
  MaxTime,        \* bound: time
  MaxRuns,        \* bound: rows counted as pending
  MaxTokens,      \* bound: webhook tokens
  MaxFaults       \* bound: server faults and failed state writes

Kinds == {"cron", "interval", "file_arrival", "webhook", "pipeline_completion"}

ASSUME SchedulerAssumption ==
  /\ Configs \subseteq Kinds \X {"queue", "skip", "reject"}
  /\ CronTimes \subseteq Nat \ {0}
  /\ Every \in Nat \ {0} /\ StartAt \in Nat /\ PollInterval \in Nat \ {0}
  /\ MaxQueueDepth \in Nat /\ Others \in BOOLEAN
  /\ Actors \subseteq {"tick", "manual", "update", "notify", "hook", "hook2"}
  /\ FrontEnds \subseteq {"api", "cli"}
  /\ MaxTime \in Nat \ {0} /\ MaxRuns \in Nat /\ MaxTokens \in Nat /\ MaxFaults \in Nat

VARIABLES
  now,        \* the clock
  config,     \* the trigger's kind and run_policy
  status,     \* the triggers row: absent, on, off (enabled or not), deleted
  st,         \* the trigger_state row
  counted,    \* trigger_history rows with outcome run_started or queued
  runs,       \* dispatcher: runs of this trigger that have not completed
  foreign,    \* dispatcher: another run of the pipeline is active
  files,      \* files that match the sensor's pattern
  pc,         \* where each actor is
  at,         \* the actor's `now`
  rd,         \* the trigger_state row the actor has read
  out,        \* the outcome of the actor's firing
  batch,      \* new files the actor found
  given,      \* the token a webhook call presents
  faults,
  covered,    \* history: occurrences up to here have been dealt with
  lastRun,    \* history: when the tick last had a run dispatched
  disturbed,  \* history: a state write was lost, by a fault or under an older one
  fired,      \* history: runs dispatched per file
  offered,    \* history: files of firings that reached the dispatcher or were skipped
  tokens,     \* history: webhook tokens generated so far
  accepted    \* history: tokens a webhook call was accepted with

store == <<status, st, counted>>
disp  == <<runs, foreign, files>>
local == <<pc, at, rd, out, batch, given>>
hist  == <<covered, lastRun, disturbed, fired, offered, tokens, accepted>>
vars  == <<config, now, store, disp, local, faults, hist>>

Kind == config[1]
Policy == config[2]

Hooks == Actors \cap {"hook", "hook2"}
Steps == {"idle", "insert", "eval", "fire", "count", "dispatch", "record", "after",
          "audit", "error", "errread", "errwrite", "token", "mint", "get", "read", "write"}
Outcomes == {"none", "run_started", "queued", "skipped", "error", "full", "rejected"}
RowType == [stored : BOOLEAN, next : Nat, eval : Nat, seen : SUBSET Files, token : Nat]
Blank == [stored |-> FALSE, next |-> 0, eval |-> 0, seen |-> {}, token |-> 0]
FirstRow == [Blank EXCEPT !.stored = TRUE]
Exists == status \in {"on", "off"}

TypeOK ==
  /\ config \in Configs
  /\ now \in 1 .. MaxTime
  /\ status \in {"absent", "on", "off", "deleted"}
  /\ st \in RowType
  /\ counted \in Nat /\ runs \in Nat
  /\ foreign \in BOOLEAN
  /\ files \subseteq Files
  /\ pc \in [Actors -> Steps]
  /\ at \in [Actors -> Nat]
  /\ rd \in [Actors -> RowType]
  /\ out \in [Actors -> Outcomes]
  /\ batch \in [Actors -> SUBSET Files]
  /\ given \in [Actors -> Nat]
  /\ faults \in 0 .. MaxFaults
  /\ covered \in Nat /\ lastRun \in Nat /\ tokens \in Nat
  /\ disturbed \in BOOLEAN
  /\ fired \in [Files -> Nat]
  /\ offered \subseteq Files
  /\ accepted \subseteq Nat

Init ==
  /\ config \in Configs
  /\ now = 1
  /\ status = "absent"
  /\ st = Blank
  /\ counted = 0 /\ runs = 0
  /\ foreign = FALSE
  /\ files = {}
  /\ pc = [a \in Actors |-> "idle"]
  /\ at = [a \in Actors |-> 0]
  /\ rd = [a \in Actors |-> Blank]
  /\ out = [a \in Actors |-> "none"]
  /\ batch = [a \in Actors |-> {}]
  /\ given = [a \in Actors |-> 0]
  /\ faults = 0
  /\ covered = 0 /\ lastRun = 0 /\ tokens = 0
  /\ disturbed = FALSE
  /\ fired = [f \in Files |-> 0]
  /\ offered = {}
  /\ accepted = {}

-----------------------------------------------------------------------------
(* Schedules (cron.rs, interval.rs) *)

\* First occurrence strictly after t; 0 when there is none.
NextCron(t) ==
  LET later == {s \in CronTimes : s > t}
  IN  IF later = {} THEN 0 ELSE CHOOSE s \in later : \A u \in later : s <= u

NextInterval(start, after) ==
  IF after < start THEN start
  ELSE start + Every * ((after - start) \div Every + 1)

Anchor(t) == IF StartAt = 0 THEN t ELSE StartAt

ComputeNext(t) ==
  CASE Kind = "cron"     -> NextCron(t)
    [] Kind = "interval" -> NextInterval(Anchor(t), t)
    [] OTHER             -> 0

\* should_fire_cron and should_fire_interval: a stored next_fire_at decides;
\* without one, an occurrence since the last evaluation, or in the last second.
\* An interval looks at the last second only.
ShouldFireMutant(row, t) == \* next_fire_at itself is not due yet
  row.next # 0 /\ t > row.next

ShouldFire(row, t) ==
  IF row.next # 0 THEN t >= row.next
  ELSE LET n == IF Kind = "cron"
                THEN NextCron(IF row.eval # 0 THEN row.eval ELSE t - 1)
                ELSE NextInterval(Anchor(t), t - 1)
       IN  n # 0 /\ t >= n

Larger(x, y) == IF x > y THEN x ELSE y

-----------------------------------------------------------------------------
(* The store (store.rs) *)

\* The row of a deleted trigger is gone, and the foreign key refuses a new one.
Upsert(row) == st' = IF Exists THEN [row EXCEPT !.stored = TRUE] ELSE st

\* A write that replaces a row other than the one its writer has read.
Stale(a) == disturbed' = (disturbed \/ (Exists /\ st # rd[a]))

Goto(a, s) == pc' = [pc EXCEPT ![a] = s]

\* An actor forgets everything when it is done.
Done(a) ==
  /\ pc' = [pc EXCEPT ![a] = "idle"]
  /\ at' = [at EXCEPT ![a] = 0]
  /\ rd' = [rd EXCEPT ![a] = Blank]
  /\ out' = [out EXCEPT ![a] = "none"]
  /\ batch' = [batch EXCEPT ![a] = {}]
  /\ given' = [given EXCEPT ![a] = 0]

-----------------------------------------------------------------------------
(* Creating, changing and deleting the trigger *)

\* create_trigger inserts the trigger and a state row without next_fire_at; the
\* API writes the first next_fire_at in a second call, the command line does not.
Create(k) ==
  /\ status = "absent"
  /\ k \in FrontEnds
  /\ status' = "on"
  /\ st' = FirstRow
  /\ IF k = "api"
     THEN /\ "update" \in Actors
          /\ Goto("update", "insert")
          /\ rd' = [rd EXCEPT !["update"] = FirstRow]
          /\ UNCHANGED covered
     ELSE covered' = now /\ UNCHANGED <<pc, rd>>
  /\ UNCHANGED <<config, now, counted, disp, at, out, batch, given, faults, lastRun, disturbed,
                 fired, offered, tokens, accepted>>

\* The two INSERTs commit one by one: a process that dies in between, the server
\* or the command line, leaves a trigger without a state row.
CreateTorn(k) ==
  /\ status = "absent"
  /\ k \in FrontEnds
  /\ faults < MaxFaults
  /\ faults' = faults + 1
  /\ status' = "on"
  /\ foreign' = (foreign /\ k = "cli")
  /\ UNCHANGED <<config, now, st, counted, runs, files, local, hist>>

CreateState ==
  /\ "update" \in Actors
  /\ pc["update"] = "insert"
  /\ Upsert([Blank EXCEPT !.next = ComputeNext(now)])
  /\ covered' = Larger(covered, now)
  /\ Stale("update")
  /\ Done("update")
  /\ UNCHANGED <<config, now, status, counted, disp, faults, lastRun, fired, offered, tokens,
                 accepted>>

\* PUT: get_trigger, update_trigger and get_state, in one step since a change in
\* between is one before or after; without a state row that is all ...
UpdateRead ==
  /\ "update" \in Actors
  /\ pc["update"] = "idle"
  /\ Exists
  /\ IF st.stored
     THEN rd' = [rd EXCEPT !["update"] = st] /\ Goto("update", "read")
     ELSE UNCHANGED <<rd, pc>>
  /\ status' \in {"on", "off"}
  /\ UNCHANGED <<config, now, st, counted, disp, at, out, batch, given, faults, hist>>

\* ... then the next occurrence from now, whatever was due ...
UpdateCompute ==
  /\ "update" \in Actors
  /\ pc["update"] = "read"
  /\ at' = [at EXCEPT !["update"] = now]
  /\ Goto("update", "write")
  /\ UNCHANGED <<config, now, store, disp, rd, out, batch, given, faults, hist>>

\* ... and the row as it was read, over whatever was written meanwhile.
UpdateWrite ==
  /\ "update" \in Actors
  /\ pc["update"] = "write"
  /\ Upsert([rd["update"] EXCEPT !.next = ComputeNext(at["update"])])
  /\ Stale("update")
  /\ covered' = Larger(covered, at["update"])
  /\ Done("update")
  /\ UNCHANGED <<config, now, status, counted, disp, faults, lastRun, fired, offered, tokens,
                 accepted>>

SetEnabled ==
  /\ Exists
  /\ \E s \in {"on", "off"} : s # status /\ status' = s
  /\ UNCHANGED <<config, now, st, counted, disp, local, faults, hist>>

\* DELETE cascades to the state and history rows.
Delete ==
  /\ Exists
  /\ status' = "deleted"
  /\ st' = Blank
  /\ counted' = 0
  /\ UNCHANGED <<config, now, disp, local, faults, hist>>

-----------------------------------------------------------------------------
(* fire_trigger and apply_run_policy, for any actor *)

FireDecideMutant(a) == \* the pipeline's runs are not looked at
  /\ pc[a] = "fire"
  /\ Goto(a, IF Policy = "queue" THEN "count" ELSE "dispatch")
  /\ out' = [out EXCEPT ![a] = "run_started"]
  /\ UNCHANGED <<config, now, store, disp, at, rd, batch, given, faults, hist>>

FireDecide(a) ==
  /\ pc[a] = "fire"
  /\ LET busy == runs > 0 \/ foreign
         step == IF ~busy THEN <<"dispatch", "run_started">>
                 ELSE CASE Policy = "queue"  -> <<"count", "queued">>
                        [] Policy = "skip"   -> <<"record", "skipped">>
                        [] Policy = "reject" -> <<"record", "rejected">>
     IN  Goto(a, step[1]) /\ out' = [out EXCEPT ![a] = step[2]]
  /\ UNCHANGED <<config, now, store, disp, at, rd, batch, given, faults, hist>>

FireCountMutant(a) == \* the count is read and not compared
  /\ pc[a] = "count"
  /\ Goto(a, "dispatch")
  /\ UNCHANGED <<config, now, store, disp, at, rd, out, batch, given, faults, hist>>

FireCount(a) ==
  /\ pc[a] = "count"
  /\ IF counted >= MaxQueueDepth
     THEN Goto(a, "record") /\ out' = [out EXCEPT ![a] = "full"]
     ELSE Goto(a, "dispatch") /\ UNCHANGED out
  /\ UNCHANGED <<config, now, store, disp, at, rd, batch, given, faults, hist>>

\* dispatch_run is the dispatcher's: it starts or queues a run, or refuses.
FireDispatch(a) ==
  /\ pc[a] = "dispatch"
  /\ Goto(a, "record")
  /\ \/ /\ runs < MaxRuns /\ counted < MaxRuns
        /\ runs' = runs + 1
        /\ fired' = [f \in Files |-> IF f \in batch[a] THEN fired[f] + 1 ELSE fired[f]]
        /\ lastRun' = IF a = "tick" THEN at[a] ELSE lastRun
        /\ UNCHANGED out
     \/ /\ out' = [out EXCEPT ![a] = "error"]
        /\ UNCHANGED <<runs, fired, lastRun>>
  /\ UNCHANGED <<config, now, store, foreign, files, at, rd, batch, given, faults, covered,
                 disturbed, offered, tokens, accepted>>

\* record_firing; QueueFull and RunPolicyRejected are returned as errors.
FireRecordMutant(a) == \* a refused firing goes on like one that was accepted
  /\ pc[a] = "record"
  /\ counted' = IF out[a] \in {"run_started", "queued"} /\ Exists THEN counted + 1 ELSE counted
  /\ Goto(a, "after")
  /\ offered' = IF out[a] \in {"full", "rejected"} THEN offered ELSE offered \cup batch[a]
  /\ UNCHANGED <<config, now, status, st, disp, at, rd, out, batch, given, faults, covered, lastRun,
                 disturbed, fired, tokens, accepted>>

FireRecord(a) ==
  /\ pc[a] = "record"
  /\ counted' = IF out[a] \in {"run_started", "queued"} /\ Exists THEN counted + 1 ELSE counted
  /\ Goto(a, IF out[a] \in {"full", "rejected"} THEN "error" ELSE "after")
  /\ offered' = IF out[a] \in {"full", "rejected"} THEN offered ELSE offered \cup batch[a]
  /\ UNCHANGED <<config, now, status, st, disp, at, rd, out, batch, given, faults, covered, lastRun,
                 disturbed, fired, tokens, accepted>>

-----------------------------------------------------------------------------
(* The tick (tick, evaluate_trigger, evaluate_file_arrival) *)

TickList ==
  /\ "tick" \in Actors
  /\ pc["tick"] = "idle"
  /\ status = "on"
  /\ at' = [at EXCEPT !["tick"] = now]
  /\ Goto("tick", "eval")
  /\ UNCHANGED <<config, now, store, disp, rd, out, batch, given, faults, hist>>

\* Not due: nothing is written.
TickTime ==
  /\ "tick" \in Actors
  /\ pc["tick"] = "eval"
  /\ Kind \in {"cron", "interval"}
  /\ IF ShouldFire(st, at["tick"])
     THEN /\ rd' = [rd EXCEPT !["tick"] = st]
          /\ Goto("tick", "fire")
          /\ UNCHANGED <<at, out, batch, given>>
     ELSE Done("tick")
  /\ UNCHANGED <<config, now, store, disp, faults, hist>>

Throttled(row, t) == row.eval # 0 /\ t < row.eval + PollInterval

\* A file sensor reads its state and the directory; the variable mapping may fail.
TickFiles ==
  /\ "tick" \in Actors
  /\ pc["tick"] = "eval"
  /\ Kind = "file_arrival"
  /\ IF Throttled(st, at["tick"])
     THEN Done("tick")
     ELSE /\ rd' = [rd EXCEPT !["tick"] = st]
          /\ batch' = [batch EXCEPT !["tick"] = files \ st.seen]
          /\ IF files \ st.seen = {} THEN Goto("tick", "after")
             ELSE \E s \in {"fire", "error"} : Goto("tick", s)
          /\ UNCHANGED <<at, out, given>>
  /\ UNCHANGED <<config, now, store, disp, faults, hist>>

\* A webhook or completion trigger is only marked as evaluated.
TickTouch ==
  /\ "tick" \in Actors
  /\ pc["tick"] = "eval"
  /\ Kind \in {"webhook", "pipeline_completion"}
  /\ rd' = [rd EXCEPT !["tick"] = st]
  /\ Goto("tick", "after")
  /\ UNCHANGED <<config, now, store, disp, at, out, batch, given, faults, hist>>

\* The state the tick writes back, from the row it has read.
TickRowMutant == [rd["tick"] EXCEPT !.eval = at["tick"]]   \* neither next nor seen moves on

TickRow ==
  [rd["tick"] EXCEPT !.eval = at["tick"],
                     !.next = IF Kind \in {"cron", "interval"} THEN ComputeNext(at["tick"]) ELSE 0,
                     !.seen = @ \cup batch["tick"]]

\* It is written whatever the outcome of the firing was, skipped or error.
TickAfter ==
  /\ "tick" \in Actors
  /\ pc["tick"] = "after"
  /\ Upsert(TickRow)
  /\ Stale("tick")
  /\ covered' = Larger(covered, at["tick"])
  /\ Done("tick")
  /\ UNCHANGED <<config, now, status, counted, disp, faults, lastRun, fired, offered,
                 tokens, accepted>>

-----------------------------------------------------------------------------
(* record_error: another history row, then the state read again and written *)

ErrorRecord(a) ==
  /\ a \in {"tick", "notify"}
  /\ pc[a] = "error"
  /\ Goto(a, "errread")
  /\ UNCHANGED <<config, now, store, disp, at, rd, out, batch, given, faults, hist>>

ErrorRead(a) ==
  /\ pc[a] = "errread"
  /\ rd' = [rd EXCEPT ![a] = st]
  /\ Goto(a, "errwrite")
  /\ UNCHANGED <<config, now, store, disp, at, out, batch, given, faults, hist>>

\* A row read before the first next_fire_at was written puts "none" back: what
\* occurs after that is looked for as in a trigger made on the command line.
ErrorWrite(a) ==
  /\ pc[a] = "errwrite"
  /\ Upsert([rd[a] EXCEPT !.eval = at[a]])
  /\ Stale(a)
  /\ covered' = IF Kind \in {"cron", "interval"} /\ rd[a].next = 0 THEN 0 ELSE covered
  /\ Done(a)
  /\ UNCHANGED <<config, now, status, counted, disp, faults, lastRun, fired, offered,
                 tokens, accepted>>

\* The write after a firing fails: the run was dispatched, the state has not moved.
TickAfterFails ==
  /\ "tick" \in Actors
  /\ pc["tick"] = "after"
  /\ faults < MaxFaults
  /\ faults' = faults + 1
  /\ disturbed' = TRUE
  /\ Goto("tick", "error")
  /\ UNCHANGED <<config, now, store, disp, at, rd, out, batch, given, covered, lastRun, fired,
                 offered, tokens, accepted>>

\* A handler returns the error to its caller.
ErrorReturn(a) ==
  /\ a \in {"manual"} \cup Hooks
  /\ pc[a] = "error"
  /\ Done(a)
  /\ UNCHANGED <<config, now, store, disp, faults, hist>>

-----------------------------------------------------------------------------
(* manual_fire, notify_run_completed, fire_webhook *)

ManualFire ==
  /\ "manual" \in Actors
  /\ pc["manual"] = "idle"
  /\ status = "on"
  /\ at' = [at EXCEPT !["manual"] = now]
  /\ Goto("manual", "fire")
  /\ UNCHANGED <<config, now, store, disp, rd, out, batch, given, faults, hist>>

ManualAfter ==
  /\ "manual" \in Actors
  /\ pc["manual"] = "after"
  /\ Done("manual")
  /\ UNCHANGED <<config, now, store, disp, faults, hist>>

\* A completed run of the upstream pipeline whose environment and status match.
Notify ==
  /\ "notify" \in Actors
  /\ Kind = "pipeline_completion"
  /\ pc["notify"] = "idle"
  /\ status = "on"
  /\ at' = [at EXCEPT !["notify"] = now]
  /\ Goto("notify", "fire")
  /\ UNCHANGED <<config, now, store, disp, rd, out, batch, given, faults, hist>>

NotifyAfter ==
  /\ "notify" \in Actors
  /\ pc["notify"] = "after"
  /\ Upsert([Blank EXCEPT !.eval = at["notify"]])
  /\ Done("notify")
  /\ UNCHANGED <<config, now, status, counted, disp, faults, hist>>

\* webhook_handler: get_trigger; the caller presents a token that was generated
\* earlier, or 0, which no token equals.
HookCall(a) ==
  /\ a \in Hooks
  /\ Kind = "webhook"
  /\ pc[a] = "idle"
  /\ Exists
  /\ \E t \in 0 .. tokens : given' = [given EXCEPT ![a] = t]
  /\ Goto(a, "token")
  /\ UNCHANGED <<config, now, store, disp, at, rd, out, batch, faults, hist>>

\* ensure_webhook_token and the comparison.
HookToken(a) ==
  /\ pc[a] = "token"
  /\ IF st.token = 0
     THEN /\ rd' = [rd EXCEPT ![a] = st]
          /\ Goto(a, "mint")
          /\ UNCHANGED <<at, out, batch, given, accepted>>
     ELSE IF st.token = given[a]
     THEN /\ accepted' = accepted \cup {given[a]}
          /\ Goto(a, "get")
          /\ UNCHANGED <<at, rd, out, batch, given>>
     ELSE Done(a) /\ UNCHANGED accepted
  /\ UNCHANGED <<config, now, store, disp, faults, covered, lastRun, disturbed, fired, offered,
                 tokens>>

\* The caller cannot know the token that is generated here and is refused.
HookMint(a) ==
  /\ pc[a] = "mint"
  /\ tokens < MaxTokens
  /\ tokens' = tokens + 1
  /\ Upsert([rd[a] EXCEPT !.next = 0, !.token = tokens'])
  /\ Done(a)
  /\ UNCHANGED <<config, now, status, counted, disp, faults, covered, lastRun, disturbed, fired,
                 offered, accepted>>

\* fire_webhook: get_trigger again, the enabled check, the variable mapping.
HookGet(a) ==
  /\ pc[a] = "get"
  /\ \/ status = "on" /\ at' = [at EXCEPT ![a] = now] /\ Goto(a, "fire")
        /\ UNCHANGED <<rd, out, batch, given>>
     \/ Done(a)
  /\ UNCHANGED <<config, now, store, disp, faults, hist>>

HookAfter(a) ==
  /\ a \in Hooks
  /\ pc[a] = "after"
  /\ Upsert([Blank EXCEPT !.eval = at[a]])
  /\ Goto(a, "audit")
  /\ UNCHANGED <<config, now, status, counted, disp, at, rd, out, batch, given, faults, hist>>

\* The audit row repeats the outcome, and counts once more.
HookAudit(a) ==
  /\ pc[a] = "audit"
  /\ counted' = IF out[a] \in {"run_started", "queued"} /\ Exists THEN counted + 1 ELSE counted
  /\ Done(a)
  /\ UNCHANGED <<config, now, status, st, disp, faults, hist>>

\* `armillary trigger fire` writes a queued row and nothing else.
CliFire ==
  /\ "cli" \in FrontEnds
  /\ status = "on"
  /\ counted < MaxRuns
  /\ counted' = counted + 1
  /\ UNCHANGED <<config, now, status, st, disp, local, faults, covered, lastRun, disturbed, fired,
                 offered, tokens, accepted>>

-----------------------------------------------------------------------------
(* Surroundings *)

Clock ==
  /\ now < MaxTime
  /\ now' = now + 1
  /\ UNCHANGED <<config, store, disp, local, faults, hist>>

FileArrives ==
  /\ Kind = "file_arrival"
  /\ \E f \in Files \ files : files' = files \cup {f}
  /\ UNCHANGED <<config, now, store, runs, foreign, local, faults, hist>>

RunCompletes ==
  /\ runs > 0
  /\ runs' = runs - 1
  /\ UNCHANGED <<config, now, store, foreign, files, local, faults, hist>>

ForeignRun ==
  /\ Others
  /\ foreign' = ~foreign
  /\ UNCHANGED <<config, now, store, runs, files, local, faults, hist>>

\* The server dies with its handlers, its loop and its runs; the store stays.
Crash ==
  /\ faults < MaxFaults
  /\ faults' = faults + 1
  /\ pc' = [a \in Actors |-> "idle"]
  /\ at' = [a \in Actors |-> 0]
  /\ rd' = [a \in Actors |-> Blank]
  /\ out' = [a \in Actors |-> "none"]
  /\ batch' = [a \in Actors |-> {}]
  /\ given' = [a \in Actors |-> 0]
  /\ runs' = 0 /\ foreign' = FALSE
  /\ disturbed' = (disturbed \/ \E a \in Actors : pc[a] \in {"record", "after"})
  /\ UNCHANGED <<config, now, store, files, covered, lastRun, fired, offered, tokens, accepted>>

-----------------------------------------------------------------------------
Tick ==
  \/ TickList \/ TickTime \/ TickFiles \/ TickTouch \/ TickAfter

\* What an actor does once it has started, the tick's own steps aside.
Progress(a) ==
  \/ FireDecide(a) \/ FireCount(a) \/ FireDispatch(a) \/ FireRecord(a)
  \/ ErrorRecord(a) \/ ErrorRead(a) \/ ErrorWrite(a) \/ ErrorReturn(a)
  \/ HookToken(a) \/ HookMint(a) \/ HookGet(a) \/ HookAfter(a) \/ HookAudit(a)

Update == CreateState \/ UpdateCompute \/ UpdateWrite

Next ==
  \/ \E k \in FrontEnds : Create(k) \/ CreateTorn(k)
  \/ Update \/ UpdateRead \/ SetEnabled \/ Delete
  \/ Tick \/ TickAfterFails
  \/ \E a \in Actors : Progress(a) \/ HookCall(a)
  \/ ManualFire \/ ManualAfter \/ Notify \/ NotifyAfter
  \/ CliFire
  \/ Clock \/ FileArrives \/ RunCompletes \/ ForeignRun \/ Crash

Spec == Init /\ [][Next]_vars

\* The loop sleeps 15 seconds and ticks again, a handler that has started goes
\* on, and a run that was dispatched completes.
Fairness ==
  /\ WF_vars(Tick) /\ WF_vars(Update)
  /\ \A a \in Actors : WF_vars(Progress(a))
  /\ WF_vars(ManualAfter) /\ WF_vars(NotifyAfter) /\ WF_vars(RunCompletes)

FairSpec == Spec /\ Fairness

-----------------------------------------------------------------------------
(* Properties *)

\* The tick has found the trigger not due.
NotDue ==
  "tick" \in Actors /\ pc["tick"] = "eval" /\ pc'["tick"] = "idle" /\ faults' = faults

\* Occurrences of the schedule; an interval without start_at counts from the
\* last one that was dealt with.
Occurs(t) ==
  CASE Kind = "cron"     -> t \in CronTimes
    [] Kind = "interval" -> LET start == IF StartAt = 0 THEN covered + Every ELSE StartAt
                            IN  t >= start /\ (t - start) % Every = 0
    [] OTHER             -> FALSE

\* The trigger's creation is complete and it has not been deleted.
Settled == Exists /\ covered # 0 /\ ~("update" \in Actors /\ pc["update"] = "insert")

\* A tick that leaves the trigger alone leaves no occurrence behind that came
\* after its creation, its last update and its last firing: downtime, refusals,
\* disabling and enabling, lost writes and rows written over newer ones included.
NoMissedSlot ==
  [][(NotDue /\ Settled)
       => \A t \in covered + 1 .. at["tick"] : ~Occurs(t)]_vars

\* Between two runs that ticks have dispatched the schedule has an occurrence:
\* missed ones are made up for by one run, not by several.  This holds while the
\* trigger exists and no state write is lost.
OncePerSlot ==
  [][("tick" \in Actors /\ pc["tick"] = "dispatch" /\ pc'["tick"] = "record" /\ runs' > runs
        /\ Kind \in {"cron", "interval"} /\ lastRun # 0 /\ Exists /\ ~disturbed)
       => /\ ComputeNext(lastRun) # 0
          /\ ComputeNext(lastRun) <= at["tick"]]_vars

\* A file starts at most one run, as long as no state write is lost and the
\* trigger is not deleted (its state row goes first, its last tick ends later).
FileOnce == ~disturbed /\ Exists => \A f \in Files : fired[f] <= 1

\* A firing that was refused, queue full or rejected, does not use up its files.
RefusedFilesStay == st.seen \subseteq offered

\* The actors that may fire a trigger of this kind.
Firing ==
  CASE Kind = "webhook"             -> Hooks \cup (Actors \cap {"manual"})
    [] Kind = "pipeline_completion" -> Actors \cap {"manual", "notify"}
    [] OTHER                        -> Actors \cap {"manual", "tick"}

\* skip and reject: the check and the dispatch are two calls, so as many runs
\* may be active as there are actors that fire at once, and never more.
PolicyBound ==
  Policy # "queue"
    => runs + Cardinality({a \in Actors : pc[a] = "dispatch"}) <= Cardinality(Firing)

\* queue: while the trigger exists, its runs exceed max_queue_depth only by actors
\* that decided at the same time (its history, and the count with it, is deleted
\* with the trigger, while firings still go on).  A depth of 0 counts as 1: when
\* nothing runs the count is not looked at.
QueueBound ==
  Policy = "queue" /\ Exists => runs < Larger(MaxQueueDepth, 1) + Cardinality(Firing)

\* A time trigger that is due does not stay due: whatever the run policy refuses
\* is tried again.
Due == status = "on" /\ st.next # 0 /\ now >= st.next
DueFires == Due ~> ~Due

-----------------------------------------------------------------------------
(* What the documentation says and the code does not do *)

\* max_queue_depth: "Maximum queued runs when run_policy is Queue"; a firing is
\* refused only when that many runs have not completed.
FullMeansFull ==
  [][\A a \in Actors : (pc[a] = "count" /\ out'[a] = "full") => runs >= MaxQueueDepth]_vars

\* webhook.rs: "a per-trigger bearer token"; the token that one call was accepted
\* with is accepted for the next.
TokenStays ==
  [][\A a \in Hooks : (pc[a] = "token" /\ Exists /\ given[a] \in accepted /\ faults' = faults)
       => pc'[a] \in {"token", "get"}]_vars
=============================================================================
