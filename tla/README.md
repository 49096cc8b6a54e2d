# Armillary in TLA+

Armillary is a local-first data pipeline tool written in Rust: pipelines are
graphs of sources, transforms, tests and sinks, run by DataFusion, started from
the HTTP API, the command line, triggers or backfills. This directory holds TLA+
models of it, the TLC runs that check them, and theorems with proofs that
TLAPS checks. Paths below are relative to `src/crates/` unless they start with
`docs/`, which is `src/docs/`.

1. [The system](#1-the-system)
2. [The models](#2-the-models)
3. [The runs](#3-the-runs)
4. [The proofs](#4-the-proofs)
5. [Where code and documentation disagree](#5-where-code-and-documentation-disagree)
6. [What is not modelled, and the plan](#6-what-is-not-modelled-and-the-plan)

## 1. The system

One process, `armillary-server` (or a command of `armillary-cli`, which opens the
same SQLite file), holds everything. Components talk by function calls, through
the database, and over a few broadcast channels.

| Component | Code | State | Operations |
|---|---|---|---|
| Executor | `armillary-datafusion/src/executor.rs`, `run_store.rs` | `pipeline_runs` rows, local variables of each run | `execute`, `create_run`, `set_running`, `finish_run` |
| Incremental materialization | `armillary-datafusion/src/incremental_coordinator.rs`, `watermark.rs`, `schema_diff.rs`, `armillary-engine/src/materialization.rs` | `incremental_state`: one watermark per sink; schema history | `build_plans`, `load_state`, `save_state`, `incremental reset`, policy validation |
| Run reports | `armillary-datafusion/src/executor.rs`, `test_assertion.rs`, `failure_report.rs`, `armillary-observability/src/openlineage.rs`, `metrics.rs` | test results, reports, counters, events on their way | assertions, reports, emission |
| Run history, SLA, health | `run_store.rs` of `armillary-datafusion` and `armillary-postgres`, `armillary-engine/src/sla.rs`, `armillary-server/src/sla_evaluator.rs`, `api/health.rs` | run rows, newest evaluation, overview cache | read a run, evaluate, overview |
| Backfill | `armillary-datafusion/src/backfill.rs`, `backfill_store.rs`, API and CLI | `backfills`, `backfill_iterations`; per coordinator a semaphore, two flags, tasks | start, resume, cancel, delete, iteration tasks |
| Scheduler | `armillary-scheduler/src/*`, API and CLI | `triggers`, `trigger_state`, `trigger_history`; the dispatcher's active runs | tick, fire, notify, webhook, create, update, enable, delete |
| Variables and ranges | `armillary-engine/src/variables.rs`, `backfill.rs`, `armillary-scheduler/src/variable_mapping.rs` | none | expand, type check, interpolate |
| Pipeline definitions | `armillary-engine/src/dag.rs`, `pipeline.rs`, `node.rs`, `snippet.rs`, `validate.rs` | none | load, migrate, expand snippets, validate, sort |
| Pipeline store | `armillary-engine/src/pipeline_store.rs`, `armillary-postgres/src/pipeline_store.rs` | a JSON file (or a column), a row and version snapshots per pipeline | create, update, delete, restore, import, export |
| Output cache, preview | `armillary-datafusion/src/output_cache.rs`, `preview.rs` | Arrow files and a manifest per pipeline | write, invalidate, read |
| Connectors | `armillary-connectors/src/*` | targets; the pages of a REST fetch | append, truncate, upsert, delete-insert, partition swap; read, push down |
| Snapshots (SCD2) | `armillary-engine/src/snapshot.rs`, `armillary-connectors/src/parquet_snapshot.rs`, `postgres_snapshot.rs`, `snapshot_query.rs` | history rows with validity | merge, history, preview |
| Plugin host, discovery | `armillary-plugin-host/src/*`, `armillary-plugin-sdk/src/lib.rs`, `armillary-connectors/src/plugin_sink.rs` | a session state, a child process; the registry | handshake … shutdown; scan, reload, validate a sink |
| Lineage | `armillary-engine/src/lineage.rs`, `column_lineage.rs`, `armillary-datafusion/src/column_lineage.rs`, both stores, API and CLI | bindings, observations, column edges | refresh, save edges, graph queries, traces |
| Catalog | `armillary-engine/src/catalog.rs`, API and CLI | annotation files | update, scaffold, list, search, validate |
| Environments | `armillary-datafusion/src/environment.rs`, `resolver.rs`, `armillary-postgres/src/environment.rs` | environments with fallbacks, table overrides | create, update, delete, override, resolve |
| Secrets | `armillary-secrets/src/*`, `armillary-server/src/state.rs`, API and CLI | salt, verification token, encrypted rows; the open session, unlock attempts | init, unlock, lock, write, resolve, scrub |
| Server instances | `armillary-server/src/lockfile.rs`, `port.rs`, `shutdown.rs`, `armillary-cli/src/server.rs` | lockfile, process table | launch, shut down, stop, status |
| Event fan-out | `armillary-server/src/ws.rs`, `armillary-cli/src/server.rs`, `armillary-tray/src/lib.rs` | broadcast channel, readers' positions and filters | subscribe, notify, show |
| Metadata transfer | `armillary-cli/src/metadata.rs`, `armillary-postgres/src/bulk.rs` | two backends | init, export, import |
| HTTP routing, frontend, Python runtime, formats, logs | see `PROJECT.json` | none of their own | parsing, computation on data, display |

How they interact:

- An API handler, the CLI, the scheduler's dispatcher and a backfill iteration all
  call `PipelineExecutor::execute`. Nothing keeps two runs of one pipeline apart.
- The executor emits `RunCompleted` on a broadcast channel of 256 events; a
  listener turns it into `notify_completion` of the scheduler, WebSocket clients and
  the tray read the same channel.
- A saved definition invalidates the output cache, which runs fill, and refreshes the
  bindings from which lineage, catalog and SLA evaluation are answered.
- A backfill coordinator runs as a tokio task of the server or inside a CLI
  process; both reach its rows through the same store.
- Every SQLite store is a mutex around one connection: one call is atomic, two are
  not. PostgreSQL stores take a connection of a pool for each statement, and each
  statement commits on its own. Several results are dropped (`let _ = store...`), so
  a write may be lost without anybody noticing.

Which behaviours are hard, and what makes each component correct:

- *Executor and watermarks.* A target commits before its watermark is saved; the
  watermark was loaded before anything was read; runs interleave; a handler may be
  dropped at any `await` when the client goes away; rows arrive late; policy and
  schema are edited between runs. Correct when no row falls behind the filter of the
  next read (at-least-once), a merge target is not stale, a run recorded as a success
  has delivered, and the event agrees with the row.
- *Run reports.* Results, reports, counters, row and events are written at different
  places of a run that may fail, be cancelled or die at each of them. Correct when
  what they say is what happened.
- *Backfill.* Permits are taken by the loop and dropped by tasks ending in any
  order; `fail_fast` is checked before an `await` and used after it; cancel,
  delete and resume act on rows between their check and their write; a crash
  leaves rows behind. Correct when the concurrency limit holds, `fail_fast`
  overshoots by one, a success is never run again, `completed` means complete,
  and coordinators end.
- *Scheduler.* A firing reads state, decides on a run policy, dispatches, records
  and writes state in separate calls, while HTTP handlers fire, update and delete
  the same trigger. Correct when an occurrence is neither missed nor run twice, a
  file starts one run, refused firings are retried, and policies are exceeded by
  concurrent firings only.
- *Pipeline store and cache.* Three writes without a transaction; a manifest read,
  changed and written without a lock; runs caching under a definition that was
  replaced meanwhile. Correct when the newest snapshot is the file, and a preview
  shows nothing of an older source.
- *Plugin host.* Host and child run side by side over two pipes; every receive has a
  timeout, after which the answer may still come and be read in the next phase.
  Correct when a reported success is a whole and committed write, nothing partial is
  committed, no answer is taken for another's, and a plugin that hangs does not hang
  the host.
- *Connectors and snapshots.* A write fails at any of its steps; the server behind a
  paged fetch changes between the pages. Correct when a failure leaves all or none
  (where the target can), an answered write has its strategy's effect, and a history
  answers what the source held at any past time.
- *Lineage and catalog.* Answers are derived from tables that runs and saves rewrite
  row by row. Correct when a quiet pipeline's rows are those of its definition or its
  last run, queries agree with the transitive closure, and annotations survive.
- *Environments, secrets, instances.* Two processes on one file, between two
  statements of a request; a clock against a session; process ids used again. Correct
  when references stay closed, one key encrypts everything, an expired session is not
  used, and one server serves.
- *Definitions and transfer.* Correct when a file loads with the nodes and edges it
  means or is refused, and a copy that is cut off anywhere can be given again.

`PROJECT.json` lists each hazard at its line with the properties that cover it.

## 2. The models

| Module | Models |
|---|---|
| `Backfill` | one backfill, any number of coordinators |
| `Scheduler` | one trigger of each kind, the tick and the handlers around it |
| `Executor` | runs of one pipeline in one environment |
| `Delivery` | what incremental materialization promises; `Executor` implements it |
| `PluginSession` | one write of a sink node through a plugin: host, child and pipes |
| `SinkContract` | what a sink promises of one write; `PluginSession` implements it |
| `PipelineStore`, `PgPipelineStore` | pipelines at rest on SQLite (with the output cache) and on PostgreSQL |
| `SnapshotMerge` | the SCD2 merge in both sinks, with its receipt |
| `RunHistory`, `RunReports` | what is read of runs and concluded from them; what a run tells |
| `Materialization`, `RunVariables` | policies, schemas and marks between runs; variables and date ranges |
| `PipelineLoad` | from a pipeline file and a snippets directory to nodes and edges |
| `SinkWrites`, `RestPages`, `ScanPushdown` | connectors: writes of PostgreSQL and file sinks, the REST source, filters of the PostgreSQL source |
| `Lineage`, `ColumnLineage`, `PlanLineage`, `Catalog` | bindings and graph, column edges and traces, the walk of a query plan, annotations |
| `Environments`, `Secrets`, `Instances`, `EventFanout` | access, processes and events |
| `MetadataTransfer`, `PluginDiscovery` | copying between backends; the plugin registry |
| `MCBackfill`, `MCScheduler`, `MCExecutor`, `MCPluginSession`, `MCPipelineLoad`, `MCPlatform` | instances for TLC |
| `Absent`, `PipelineIds` | a constant each that several modules share: absence, and the ids of pipelines |
| `BackfillProofs`, `SchedulerProofs`, `ExecutorProofs`, `PluginSessionProofs`, `PipelineStoreProofs` (both stores, copies between them), `SnapshotMergeProofs` (snapshots, incremental loads, sinks), `CatalogProofs` (annotations, bindings, column edges and traces), `ServerProofs` (run history, instances, events, secrets, plugin registry) | theorems and proofs |

`MCPlatform` puts the modules without a configuration of their own under one
specification: `part` names the component that runs, its variables change by its
actions, and those of the others keep their initial values. Each claim is made of
the part whose variables it reads. Several parts are one module with other
constants or other actions (`rows` and `columns`, `refresh` and `graph`). Nine modules
of it that theorems are about are extended, so that TLC evaluates their assumptions and
checks their properties under the names that the theorems use; they say `StoreInit`,
`PgNext`, `SnapSpec`, `HistorySpec`, `CatSpec`, `InstSpec`, `FanSpec`, `SecSpec`, `SinkSpec` where other
modules say `Init`, `Next`, `Spec`. The
others are instantiated, each with its own bounds; of `Lineage`, `ColumnLineage`, `Materialization`,
`MetadataTransfer` and `PluginDiscovery`, which theorems are about too, `MCPlatform` evaluates the hypotheses for each instance
(`BindingsDistinct`, `ColumnsAreDistinct`, `LoadsAreTyped`, `CopiedStoresAreSound`, `PluginRootsAreLists`).

One step of a model is one call of a store, a connector or the dispatcher together
with the local computation around it. Anything can happen between two steps.
Program counters (`pc`) name the place between two calls; local variables of the
code that live across a call are variables of the model, and no others. History
variables only record what happened, for the properties; no guard reads them
(`tokens` of `Scheduler` excepted, the number that the next fresh token gets).

**Backfill.** `status` and `rows` are the two tables; a row is addressed by index
and has a key, which may repeat in a list range. A coordinator `c` goes
`create → insert` (start) or `get → list → reset` (resume), then `begin`
(`MarkRunning`), and round the loop `loop → acquire` (`CheckLoop`, `Spawn`: the
flags are checked, then the permit awaited), `drain` (`Decide` joins the handles
and computes the final status) and `finish` (`WriteFinal`). `task[c][i]` is a
spawned iteration; it holds a permit unless it is `"none"`. A task writes
`running`, executes, and writes its result; a failure writes the row first and
sets `had_failure` after (`TaskFail`, `TaskRecordFailure`). Cancel and delete
handlers are two steps, a check and a write (`requests`). `Crash` ends all
coordinators of the server, or one command; `TornInsert` leaves a prefix of the
iteration rows, which are inserted one by one. `CtrlC` sets the flag of a CLI
coordinator. `StoreError` ends a coordinator at a `?`; `TaskPanic` is an ignored
`JoinError`; `WriteRow` may be lost.

**Scheduler.** `status` is the `triggers` row, `st` the `trigger_state` row (next
occurrence, last evaluation, seen files, webhook token), `counted` the history
rows that `count_pending_runs` counts. An actor is the tick loop or a handler;
`rd[a]`, `at[a]`, `out[a]`, `batch[a]` and `given[a]` are the state it read, its
`now`, the outcome, the files it found and the token it was called with. Firing is
`FireDecide → FireCount → FireDispatch → FireRecord`, and what follows differs
(`TickAfter`, `ManualAfter`, `NotifyAfter`, `HookAfter`). A kind and a policy are
fixed per trigger. `create_trigger` inserts a trigger and its state row, whose `next_fire_at` is NULL
(`FirstRow`, `armillary-scheduler/src/store.rs:152`), for the API and for the command line; a process that dies between the two
INSERTs leaves no state row (`CreateTorn`). The API then writes the first occurrence in a call of its own
(`CreateState`), the command line writes none. The dispatcher is modelled from its trait (it accepts, or
fails); `runs` and `foreign` are the runs it reports as active. Cron and interval
arithmetic (`NextCron`, `NextInterval`, `ComputeNext`) is on small integers.

**Executor.** A row `x` of a source has a `version`, the value of its watermark
column; an update raises it; 0 is a row that does not exist yet. `target[t][x]` is
the version that sink `t` holds (merge mode), `seen[t][x]` the newest it was ever
given. A run goes `load` (`LoadState` per sink, then `CreateRun`), `begin`
(`SetRunning`), `node` (one step per node: `ReadSource`, `WriteSink`), `save`
(`SaveState`, after the write of an incremental sink), `finish`, `announce`.
`Ready` is the part of the topological order that matters: all sources come before
any other node. `Filter` is the plan that `build_plans` merges for a source: none
if a sink that shares it has no state, else the least stored string minus the
widest lookback. `Advanced` is the new watermark: the newest of the batch, or the
loaded one when it is empty. Every failure path that execution can take ends in
`Ending` (with a status), `Leave` (an early return: no status, no event) or
`Vanish` (the process or the handler is gone). `WriteUnknown` is a sink that
commits and then reports an error. Transforms and tests pass rows on or fail.

**Delivery** knows sources, what each sink was given, and marks. A mark may move
only to where nothing that the sink lacks lies behind it by the lookback or more.
`Executor!AtLeastOnce` is this specification with `seen` restricted to the
incremental sinks; `version` and `mark` are the same.

**PluginSession.** The host is the blocking thread of `PluginSink::write`: `at` is
where it is (about to call, in one of the receives, in a blocked `write_all`, past an
error, in `drop`), `state` is the session's `State`. The child is the SDK's `run_io`:
`pc` is the frame it reads next, `reply` what it has yet to write, `sink` what its
sink has been through. A frame is its kind; `ConfigureAck` that does not accept is
`Rejected`. `toHost` ends in the unbounded channel that the reader thread fills, so
the plugin never blocks on its stdout. Time is not counted: `NoAnswer` (a timeout, or
`Closed`) may happen whenever nothing has arrived. `RecvOther` is every other way a
receive fails. A session that is configured is aborted, and its wait for `AbortAck`
ends with any frame. `Reap` kills a child that has not exited. `large` says that a
batch does not fit the pipe, so that its write lasts until the plugin reads it.
Plugins built without the SDK, and the contents of frames, are left out. **SinkContract** is the
same write without host, child and pipes: batches are taken one after the other, the sink
is committed as a whole or aborted, for good, and the node gets one answer, `Ok` only after the
commit. It says less than `armillary-plugin-sdk/src/lib.rs:101` ("exactly one of `commit` or
`abort`"): a sink whose `write_batch` failed or whose host is gone gets neither.

**PipelineStore.** `file`, `row` and `versions` are what a pipeline is at rest; an
operation takes the connection's mutex (`lock`) and goes on one write at a time
(`op[h].pc`): create, update, delete, restore and import with its policies. `outputs`
and `manifest` are the cache under a pipeline's name; a save invalidates it in
the same handler after the store has answered, a run of the server or of the
command line fills it, a preview reads it or executes one node again (`ReExecute`).
The command line has a mutex of its own. `Crash` ends every operation between two
writes. `torn` and `mixed` are history: pipelines a crash left half done, names on
which two requests worked at once. **PgPipelineStore** is the same store where it
differs: every statement commits on its own and nothing orders two requests.

**SnapshotMerge.** `target` is a set of versions with validity. The Parquet merge is
one plan followed by a rename; the PostgreSQL merge is its statements (stage, diff,
close, insert, delete) in a transaction that any of them may abort. The receipt is counted by the
planner in one and by the diff query, before the other statements, in the other. A row has a value and
a time stamp, for detection by check or by timestamp; the merge compares typed values. `History` and `ValidAt` are
what a reader of the target finds. The history and preview of the API and the command line are not
modelled: they change nothing, and their statements are never sent (section 5).

**RunHistory** writes what a run writes in the code's order (row, statistics of each
node, report, final row) with a death anywhere, and reads it as each store does: SQLite
in one call, PostgreSQL in two statements. `EvaluateSlas` pages through the newest runs
of a resource's producer; `Overview` counts a window and is cached. **RunReports** runs
a pipeline node by node on nullable rows: assertions are evaluated as SQL does,
with NULLs; the first failing node leaves a report with the first rows of its input;
counters count; events are spawned as tasks (`rrTasks`) that are sent in any order, may be lost, and
end with the process.

**Materialization** validates every combination of a policy's fields (`ValidatePolicy`),
parses lookbacks from their characters (`ParseLookback`, the one place where text is
spelled out, since the two parsers of the code differ in what they accept), and
runs an incremental sink through policies and schemas that are edited in between:
`StartRun` takes the policy and the state, `ReadSource` filters, `Verdict` compares with the recorded
schema as the code stores it (most types become `Utf8`), then `WriteSink`, `SaveState` and
`RecordSchema`; each save may be lost, and `incremental reset` may come at any time.

**RunVariables.** One behaviour expands a date range iteration by iteration; another
carries a variable from its declaration, the pipeline's value, the trigger's mapping or
the request through the type checks to the text of a node, with the code's two passes of
interpolation.

**PipelineLoad.** An identifier is the sequence of its dotted parts and a text a
sequence of tokens, so that renaming a snippet's inner nodes is done as the code does
it, pair after pair. `ldStage` is the stage of loading; each refusal is an
error of its own. `Meaning` and `Flow` say directly what a file with calls means.

**SinkWrites** takes one writer through the steps of each strategy on each kind of
target (PostgreSQL table, CSV or Parquet file, cloud object, partitioned directory), with
a failure or crash at each. A table is a function from row ids, and a transaction works on a copy
of it (`sinkOp.tx`): one INSERT for each row, which adds a row (`InsertNext`), updates those it conflicts
with (`UpdateNext`) or is refused (`RefuseRow`). A file is a sequence of lines, written one by
one; it is gone, there, or a Parquet file without its footer (`torn`). The lines of a CSV file go through a buffer whose flushes end
anywhere: `WriteHalf` leaves the file within a line (`half`), `WriteLine` completes it, and an append to a file that
ends so puts its first row on that line (`Glue`, `Spoiled`). `Partition` is the one under way. **RestPages** fetches
pages by link, cursor or offset while rows come and go, retries, and builds columns. A cursor that is a number counts
as none, and a declared type that the source has no builder for fails the batch (`Fits`; `int32` stands for it).
**ScanPushdown** translates filter
expressions to SQL with three-valued logic and applies them twice: the database to the column as it is stored, the engine
to the values it is given. On a `plain` column both compare alike; the labels of an `enum` are ordered as they were
declared, and another literal is an error; a `json` column has no comparison (`Accepted`).

**Lineage** stores the bindings of a definition after the store has answered
(`job[h]` is the refresh still to do), on PostgreSQL statement by statement, and
computes the graph queries of the API and of the CLI. **ColumnLineage** saves a node's
column edges row by row and answers traces, impact and search. **PlanLineage** builds
a query plan outwards from its tables; `planMap` is the walk's map by column name,
`planFlow` follows the values by position. **Catalog** has each annotation's file and
its one temporary file; an update is read, written and renamed in three steps, between which another may have
written the temporary file, which leaves a mixture, or renamed it, so that the rest of the write lands in the annotation.

**Environments** serves two requests at a time, one statement per step. **Secrets** has
the file (`vault`), initialisation in two statements by two processes, the server's session with a
clock, and a run that resolves node by node and reports a failed node scrubbed.
**Instances** has process ids and ports that are used again; launch, stop and
status look at the lockfile in one step and act in another. **EventFanout** has one sequence of events and
three readers with positions; a reader that falls behind by more than `Capacity` skips.

**MetadataTransfer** copies one record per step and may be cut off and repeated while the source
changes. `xfCmd` has the records still to be written of the stage (`todo`, taken in the order of the listing), what
belongs to the record that was written last (`details`: overrides and versions are listed only then, statistics
came with the run), and, as history, what was listed and what the target was at the beginning. **PluginDiscovery** scans one directory per
step in an arbitrary order; `pdListed` is what the API shows, `pdUsed` and
`pdConnectors` what the process was built with.

## 3. The runs

All runs are of small instances. `CHECK_DEADLOCK` is off in all of them since each
system really stops: time, versions, runs and coordinators are bounded, and what
has ended stays ended.

| Run | Instance | Question and result |
|---|---|---|
| `backfill_single` | 1 coordinator at a time, 3 iterations with a repeated key, 2 permits, `fail_fast`, 1 crash, 1 fault, `FairSpec` | `FailFastOvershoot`, `CompletedMeansDone`, `SucceededIsFinal`, `CoordinatorEnds` hold |
| `backfill_overlap` | 2 coordinators (symmetric), 2 iterations, 1 permit, 1 crash | `PermitBound`, `NoOrphan` hold |
| `backfill_cancel` | 2 coordinators | `CancelStopsNewIterations` is violated |
| `scheduler_time` | cron under reject (occurrences 2 and 4), interval under skip, time to 4, tick and update, 1 fault, `FairSpec` | `NoMissedSlot`, `OncePerSlot`, `DueFires` hold |
| `scheduler_events` | file sensor on a queue of 1, webhook under skip, completion under reject, tick, manual, notify and webhook handlers, other runs | `FileOnce`, `RefusedFilesStay`, `PolicyBound`, `QueueBound` hold |
| `scheduler_slot`, `scheduler_depth`, `scheduler_token` | one trigger each | `NoMissedSlot` (of a trigger created on the command line), `FullMeansFull`, `TokenStays` are violated |
| `executor_runs` | 2 overlapping runs (symmetric) in any mode, 2 incremental sinks on one source (one with `first_run: fail`), 2 rows, lookback and lateness 1, 2 faults: 2.8 million states | `NoRowLost`, `MergedIsCurrent`, `SuccessDelivered`, `ToldIsRecorded`, `AtLeastOnce` hold |
| `plugin_session` | up to 3 batches, small or large, a plugin that may be slow, hang, refuse or die anywhere, `FairSpec`: 4474 states | `OkIsCommitted`, `CommitIsWhole`, `CommitOrAbort`, `AckedIsWritten`, `InStep`, `KeepsContract`, `WriteReturns` hold |
| `executor_full` | a full and an incremental sink on one source | `FullReadsEverything` is violated |
| `platform` | every other component, one at a time (parts below): 1.2 million states | the fifteen properties below hold |

The parts of `platform`, with the property that speaks of each:

| Property | Part | Instance | What holds |
|---|---|---|---|
| `SnapshotMatchesFile`, `CacheFollowsSaves` | `store` | 2 pipelines, 2 names, 2 sources, 2 handlers and a command, 3 requests, crashes | file, row and newest snapshot agree whenever the mutex is free; a preview shows nothing a save has replaced |
| `RowVersionBacked` | `pg` | 4 requests in order of arrival, each free to break off | the version a definition names is in the history |
| `HistoryAnswers`, `ReceiptIsReal` | `snapshot` | 2 keys, 3 row values, 3 merges, both sinks, all policies | the versions answer what the source held at every time; a receipt names the keys opened, closed and gone |
| `FinishedRunsAreComplete` | `runs` | 2 runs of 2 nodes, both stores | no reader sees a success without all its statistics, or a failure without its report |
| `HealthIsReal` | `health` | 2 runs, 3 instants, a page of 2 | fresh means produced in time; an overview counts every run |
| `LineageAnswers` | `refresh`, `graph` | 1 pipeline, 2 handlers; 3 pipelines with five flows | bindings settle; queries agree with the transitive closure |
| | `rows`, `columns`, `plan` | 2 runs; 2 pipelines, 3 spellings of columns, annotations; plans of 5 nodes on 2 tables | a node's edges are those of one save; traces are complete; no column that flows is missing |
| `CatalogAnswers` | `catalog` | 2 resources, 2 handlers, a command, an editor, 3 writes | annotations survive, are found, or are reported |
| `SinksKeepRows` | `sinks` | 2 writes of up to 2 rows on every target and strategy | a write is whole or says so, and what it answers is what it did, but for a row appended to half a line |
| `AccessHolds` | `envs`, `tables` | 3 environments, 2 workers, 3 requests; every chain of 3 | chains stay closed; the nearest environment wins |
| | `resolve` | 2 names in 2 scopes, overlapping values | no letter of a secret in a report |
| | `rest`, `scan` | 5 rows in pages of 2, 2 changes; every filter to nesting 2 on 3 values and NULL, on a plain, an enum and a json column | a fetch is complete unless rows moved to other offsets or its cursors are numbers; pushing down changes nothing on a plain column, and elsewhere never gives an excluded row |
| `SecretsAreSafe` | `secrets`, `resolve` | 2 passwords, time to 3, window 2, limit 2 | no use of an expired session, no more tests than a window allows, one key |
| `OneInstance` | `instances` | 2 process ids, 2 ports, 5 events | one server serves, unless two steps on the lockfile overlapped |
| `EventsArrive` | `client`, `listener`, `tray` | 1 or 2 runs, capacity 3 | each reader that keeps up has seen what it should |
| `DefinitionsHold` | `load` | every file and directory of `MCPipelineLoad`, nesting to 2 | what loads means what it says |
| | `ranges`, `variables` | 16 hours of a small calendar, 4 units; 5 ways to start a run | windows tile; the winning value arrives |
| | `transfer` | 4 environments, 2 pipelines, 2 runs, 2 commands | a copy can be cut off and repeated |
| | `reports`, `overlap` | 4 pipelines of 4 nodes with 8 assertions, 4 inputs, 2 faults; 2 overlapping runs | tests guard, a failure is diagnosed, events and counters agree with the run |
| | `plugins` | 2 roots, 2 plugins, 2 scans, 1 edit | an accepted sink leads to a good plugin or a built-in |
| | `policies`, `incremental` | every policy, lookbacks of up to 4 characters; 3 runs, 2 rows, 2 edits, 1 fault | a policy passes with exactly what it needs; no row is skipped; the schema check refuses what it should |

Bounds, and why they are enough for the cases of interest:

- *Backfill.* Three iterations on two permits is the least where the loop waits for
  a permit while another iteration runs and a third is still to be checked, which
  is what `fail_fast` is about. A repeated key needs two rows. Two coordinators is
  the least overlap, and one permit the tightest limit. One crash and one fault can
  strike at every step; resume after them is unbounded.
- *Scheduler.* Two occurrences leave ticks before, between and after. A queue of
  depth 1 is full after one firing. One file can be offered, refused and offered
  again. `MaxRuns` caps history rows above what each policy admits.
- *Executor.* Two watermark values give a row before, at and after a mark; with
  lookback 1 the filter can exclude a row. Two rows make a batch with an older and
  a newer row; two sinks on one source make marks that differ; two runs overlap in
  every order; two faults allow a loss and a reset, or two losses.
  `Late ≤ Lookback` is what the documentation asks of the user (`docs/incremental-materializations.md`).
- *The parts of `platform`* have the least instance in which their hazards meet: two
  keys, so that one changes while another does not; two actors, so that one acts
  between two steps of the other; three requests (or merges, or runs), so that a history has a
  beginning, a middle and an end; one more element than a limit (page, window, channel,
  nesting); one fault or two, which strike anywhere. Time, ids and data are as few values
  as the comparisons need. Since a part's actions touch only its variables,
  running the parts one at a time loses no interleaving between actors of one component;
  what is lost are interleavings of two components, where section 1 names the calls.
- *PluginSession.* The protocol is one request, one answer; three batches give a first,
  a middle and a last one, each of which can be late, refused or lost.

Fairness is stated where a property needs it, and only of steps that the runtime
really keeps taking. `Backfill!Fairness`: tokio polls every coordinator and every
spawned task, and an execution returns; crashes, cancels, errors and panics are
never forced. `Scheduler!Fairness`: the loop ticks every 15 seconds, a handler that
has started goes on, and a dispatched run completes; creation, updates, calls,
files and faults are never forced. `PluginSession!FairSpec`: the host's thread runs on;
nothing is assumed of the plugin, so `WriteReturns` must hold for one that hangs. Its
second case is the real limit: no timeout covers the write of a large batch that the
plugin does not read. `Executor` has no liveness property: nothing in
the code completes a run that has vanished. The parts of `platform` make safety claims
only and assume no fairness; what is answered late or never there (a lost event, a run
whose process died) is part of what the claims allow.

## 4. The proofs

Proved by TLAPS, for every value of the constants that meets the named assumptions
of the modules:

- `BackfillAssumption`, `ExecutorAssumption`, `SchedulerAssumption`, `BatchesAssumption`: the
  ranges of the parameters (limits and times are naturals, a schedule has positive
  occurrences, lateness is within the lookback);
- `SourceAssumption` (`SnapshotMerge`): a row holds a value, and a time stamp that stands
  for it changes with it;
- `HistoryAssumption` (`RunHistory`): durations are integers;
- `StoreAssumption` (`PipelineStore`): `None` is no handler, name, definition, row, file or
  manifest, and the command line is not one of the server's handlers;
- `CatalogAssumption` (`Catalog`): absence and a file that does not parse are told apart from paths,
  annotations and operations, files are finitely many, and lineage knows resources by numbered
  pipelines;
- `InstancesAssumption`, `PortsAssumption` (`Instances`): no lockfile, a torn one and one that
  names a server are told apart, and ports are numbers;
- `FanoutAssumption` (`EventFanout`): `None` is no run, the capacity and the length of the tray's
  list are naturals;
- `SecretsAssumption` (`Secrets`): `None` is no process and no key, durations and the limit
  are naturals;
- `SinksAssumption` (`SinkWrites`): a load is a sequence of rows, each has a value of the key column or
  none, and none is the heading of a file or a spoiled row.

Six theorems more have hypotheses of this kind in their statement: `Distinct` (`Lineage`) says that
absence is no definition and no job, `ColumnsDistinct` (`ColumnLineage`) that it is no node, no run and no set
of rows, `ChoicesAreTyped` (`Materialization`) that a watermark has one of the
three types, that a lookback parses to a number of seconds or to nothing (`ParseLookback` folds over
characters, where the provers cannot do the induction), and that absence is none of the other values. `RootsAreLists`
(`PluginDiscovery`) says that scan roots are a list that is not empty, `ErrorsDistinct` that absence is none of the errors.
`StoresAreSound` (`MetadataTransfer`) is about the backends a copy begins with: nothing in them refers to what is not there, the
definitions of the source have the names of their rows, none of its environments falls back to itself, and the order of the listing has
all of them.

TLC evaluates each of them in a run. Bounds are constants too, so the theorems hold for any
number of steps, requests, runs or merges.

| Theorem | Statement |
|---|---|
| `BackfillProofs!TypeCorrect` | `Spec => []TypeOK` |
| `BackfillProofs!PermitsRespected` | `Spec => []PermitBound` |
| `BackfillProofs!FailFastStops` | `Spec => []FailFastOvershoot` |
| `BackfillProofs!SuccessKept` | `Spec => SucceededIsFinal` |
| `BackfillProofs!NothingOrphaned` | `Spec => []NoOrphan` |
| `BackfillProofs!CompletedIsDone` | `Spec => []CompletedMeansDone` |
| `SchedulerProofs!SchedulerTypes` | `Spec => []TypeOK` |
| `SchedulerProofs!PolicyHolds` | `Spec => []PolicyBound` |
| `SchedulerProofs!QueueHolds` | `Spec => []QueueBound` |
| `SchedulerProofs!RefusedFilesHold` | `Spec => []RefusedFilesStay` |
| `SchedulerProofs!FileOnceHolds` | `Spec => []FileOnce` |
| `SchedulerProofs!OncePerSlotHolds` | `Spec => OncePerSlot` |
| `SchedulerProofs!NoMissedSlotHolds` | `FrontEnds ⊆ {"api"}` gives `Spec => NoMissedSlot` |
| `ExecutorProofs!ExecutorTypes` | `Spec => []TypeOK` |
| `ExecutorProofs!NothingIsLost` | `SingleSource, Unmixed, InTurn` give `Spec => []NoRowLost` |
| `ExecutorProofs!DeliveredAtLeastOnce` | `SingleSource, InTurn` give `Spec => AtLeastOnce` (refinement of `Delivery`) |
| `ExecutorProofs!NothingBehindTheMark` | the same give `Spec => []Promise!NothingLeftBehind` |
| `ExecutorProofs!SuccessMeansDelivered` | `Spec => []SuccessDelivered` |
| `ExecutorProofs!EventAfterRow` | `Spec => []ToldIsRecorded` |
| `ExecutorProofs!MergedStaysCurrent` | `SingleSource, Unmixed, InTurn` give `Spec => []MergedIsCurrent` |
| `PluginSessionProofs!SessionTypes` | `Spec => []TypeOK` |
| `PluginSessionProofs!DoneIsCommitted` | `Spec => [](OkIsCommitted /\ CommitIsWhole)` |
| `PluginSessionProofs!CommitsAreWhole` | `Spec => []CommitIsWhole` |
| `PluginSessionProofs!AcceptedIsWritten` | `Spec => []AckedIsWritten` |
| `PluginSessionProofs!CommittedOrAborted` | `Spec => []CommitOrAbort` |
| `PluginSessionProofs!AnswersInStep` | `Spec => []InStep` |
| `PluginSessionProofs!SessionKeepsContract` | `Spec => KeepsContract` (refinement of `SinkContract`) |
| `PipelineStoreProofs!SnapshotMatchesFileHolds` | `StoreSpec => []SnapshotMatchesFile` |
| `PipelineStoreProofs!CacheFollowsSavesHolds` | `StoreSpec => []CacheFollowsSaves` |
| `PipelineStoreProofs!RowVersionBackedHolds` | `PgSpec => []RowVersionBacked` |
| `PipelineStoreProofs!TransferAlwaysKeeps` | `StoresAreSound(sources, targets)` gives `TransferSpec(sources, targets) => []TransferKeeps` |
| `SnapshotMergeProofs!HistoryAnswersHold` | `SnapSpec => []HistoryAnswers` |
| `SnapshotMergeProofs!ReceiptIsRealHolds` | `SnapSpec => []ReceiptIsReal` |
| `ServerProofs!FinishedRunsHold` | `HistorySpec => []FinishedRunsAreComplete` |
| `ServerProofs!HealthHolds` | `HistorySpec => []HealthIsReal` |
| `ServerProofs!OneInstanceHolds` | `InstSpec => []OneInstance` |
| `ServerProofs!EventsArriveHolds` | `FanSpec => []EventsArrive` |
| `ServerProofs!SecretsAreSafeHolds` | `SecSpec => []SecretsAreSafe` |
| `ServerProofs!DiscoveryAlwaysHolds` | `RootsAreLists(roots), ErrorsDistinct` give `DiscoverySpec(roots) => []DiscoveryHolds` |
| `CatalogProofs!CatalogAnswersHold` | `CatSpec => []CatalogAnswers` |
| `CatalogProofs!BindingsHold` | `Distinct` gives `LineageSpec => []BindingsSettle` |
| `CatalogProofs!ColumnAnswersHold` | `ColumnsDistinct` gives `ColumnSpec => []ColumnAnswers` |
| `SnapshotMergeProofs!NothingSkippedHolds` | `ChoicesAreTyped` gives `MaterializationSpec => []NothingSkipped` |
| `SnapshotMergeProofs!SchemasAreGuarded` | the same gives `MaterializationSpec => []SchemaIsGuarded` |
| `SnapshotMergeProofs!PoliciesFit` | a policy that `validate_policy` accepts has exactly the fields it needs |
| `SnapshotMergeProofs!SinksKeepRowsHold` | `SinkSpec => []SinksKeepRows` |

**Backfill.** `PermitBound` is inductive together with types: only `Spawn` takes a
permit, and its guard counts them. `FailFastOvershoot` is not: `LateInv` adds where
the loop is when the flag has been set, since after one late iteration the loop
must pass `CheckLoop` again, which stops it. `SucceededIsFinal` needs the most: an
iteration that has succeeded could be run again by any coordinator that still has
it in `todo`, `resetq` or as a task. `RerunInv` therefore ties each active
coordinator's plan and tasks to the rows (`SingleInv`: as long as no two
coordinators were active at once, what it still plans to run has not succeeded),
says that there are no rows before the
record (`FreshInv`), and at which steps a coordinator can have tasks, rows to reset
and iterations to run (`LifeInv`). `NoOrphan` follows from `LifeInv` and `OrphanInv`: as
long as no process died and no write was lost, every pending or running record has an
active coordinator and every running row its task. `CompletedMeansDone` has to explain a
decision by everything that came before it. `DoneInv` says for each coordinator what every
row is, at each place: succeeded, still to do, in flight or failed (`PlanInv`); why it left the loop
(`EndInv`); and that `had_failure` always stands for a failure on record or about
to be (`Noted`), since the final status is computed from failed rows alone.

**Scheduler.** `Places` says which actor can be at which step and what it has read there.
`PolicyBound` counts: a firing that has passed its check has still to be dispatched, so
runs and dispatches together exceed a policy by at most the actors that may fire. `QueueInv` adds that
every active run has its history row or is about to get it. `SeenInv` and `OnceInv` follow
a file: whatever row an actor holds, its files were offered; while no state write is
lost, a file that started a run is marked seen or about to be by the tick that started
it. `OncePerSlot` and `NoMissedSlot` are about arithmetic as well: `NextCron` and `NextInterval`
return the first occurrence after a time, for every schedule (`NextIntervalFact`,
`NextIntervalLeast`, `NextCovers`, from the well-ordering of the naturals). `TimesInv` keeps rows and actors
behind the clock, `SlotInv` says that the row has moved on since the last run or that the
tick is about to write it, and `WatchInv` that the row, and the row that `record_error` has read again and is about to put
back, wait for whatever occurs after the moments that were dealt
with. `NoMissedSlot` needs its hypothesis: the state row of a trigger of the command line has no `next_fire_at`,
and the run `scheduler_slot` shows it missing an occurrence.

**Executor.** `NoRowLost` speaks of the next read, and is not inductive: what a run
in flight will save depends on what it loaded and read earlier. `IInv` says

- `MarkInv` and `PlanInv`: every stored mark, and every mark that a run has loaded,
  is *good*: what its sink lacks is not behind it by the lookback or more, and it is
  not ahead of the sources. (Good marks stay good: rows arrive less than `Late`
  behind the newest, and `Late ≤ Lookback`.)
- `ReadInv`: a run holds no version newer than its source.
- `BatchInv`: once the source of a sink is read, whatever the sink will still lack
  after the batch is not behind any row of the batch by the lookback or more. This
  is where the filter of the source comes in (`FilterFact`): it starts no later than
  the lookback of each sink that shares the source allows.
- `WrittenInv`: a sink whose state is about to be saved has been given its batch.

From these, what `SaveState` writes is a good mark (`AdvancedGood`), for any number
of runs in any order. The theorems assume of the pipeline `SingleSource` (an
incremental sink has one source), `Unmixed` (it shares it with incremental sinks
only) and `InTurn` (stored strings sort as the values do). All three are necessary
in the code as it is: section 5 says what happens without each. `SuccessDelivered`
rests on `EndInv` (sinks come after all sources, and a sink that is done has its
batch) and `ToldIsRecorded` on `RowFirst` (the row is final before the event),
without any assumption on the pipeline. `MergedIsCurrent` adds `CurrentInv`: while no two
runs were active at once, the target is what its sink was given last, and the active run
holds nothing older than that (`Fresh`); `NoRowLost` then says that it is also the newest that the
next read leaves out.

**PluginSession.** None of the properties is inductive: they speak of one end, and
what the other end does next depends on what is in the pipes. `IInv` therefore says,
for each place the host can wait at, where the conversation is (`Asked`: the request
is unread, `Answered`: the answer is being written or has been, with what it means for
the sink), and that nothing is on its way when the host is about to call (`CallInv`).
Once a phase has failed none of this holds any more; what stays true is `PipeInv`:
an unread batch still has room, and an unread `Commit` still finds everything written.
`SinkInv` ties `run_io`'s place to the sink. The refinement of `SinkContract` maps the child's sink and
the node's answer and nothing else, so it asks one thing more, `AnswerInv`: the node has no answer while
the host is at work, and it is at work on a plugin only for a write that has batches. Each
step of the host then answers or stutters, and an `Ok` is one of `DoneIsCommitted`; each step of the child
takes a batch, commits, aborts or stutters. A commit with a batch missing cannot happen because
of `PipeInv`, also after a timeout.

**PipelineStore.** The three writes of a save are no transaction, so `StoreInv` replaces what is
claimed of a pipeline between operations (`Matches`) by how far the holder of the mutex is
(`SavingInv`), and says that there is one holder and that every other pipeline matches
(`MutexInv`, `MatchInv`). What runs outside the mutex must not reach into this: `unlink` of a deleted
pipeline's file comes after the release, and `UnlinkInv` says that no later operation
can be writing a row for it. `CacheFollowsSaves` has no lock to rest on: the cache is
keyed by name. `FollowInv` says of each name on which two requests never met that one
request at most is at work on it, what is cached at each of its steps (`Stage`), and what is
cached when none is (`AtRest`). `AgreeInv` and `HeldInv` say when row and file can
have different names and which ids a request can hold; `RereadInv` that a save
re-reads the name it wrote. The proof needs `StoreInv`: a save whose version number were taken would stop before it
invalidates.

**PgPipelineStore.** There is no mutex, and `DebtInv` is about a debt instead: a row whose version is
not in the history is owed by a request that is still at it. A request ends
by paying, or breaks off and tears the pipeline.

**MetadataTransfer.** `TransferKeeps` speaks of the end of a command, and `Running` of the way there: of each listed record whose
turn is over, the record is in the target or there is a reason why not (`EnvDone`, `PipeDone`); what belongs to
it is in the target or in `details`; the stages before are done. A reason must last: that a fallback is missing holds on
because it is not to be written any more or comes later in the order, that a name is taken because rows are never renamed. The
source may change in between; it only has to keep what was listed (`Follows`). Each write keeps the target closed and grows it
(`Whole`, `Grown`), whatever it is; that a new pipeline overwrites no version and no definition rests on `Closed` and on `Paired`
(only an import leaves a definition without a row). `RefusalExcused` shows that nothing an earlier attempt wrote makes a command fail.

**SnapshotMerge.** Both sinks compute one function of target and batch, `After`: the Parquet
plan at once, the PostgreSQL transaction statement by statement (`SnapInv` says how far
it is). What `After` does to the versions valid at a time is compared with
what one more merge does to the row that the source is taken to have held then (`ExpectedNext`), by cases:
before or after the merge, key staged or missing, and the policy for missing keys. `IsHistory` is
the strengthening: one current version of a key, validities that do not overlap, all in the past. `ReceiptIsReal` compares
what was counted before any change with the versions opened, closed and gone when the merge is about to commit: a key that
is closed has a version that ends now and did not before, and one that a hard delete counts has no version left.

**Materialization.** `NothingSkipped` speaks of the end of a run, and needs to know what a mark
stands for while policies, schemas and rows change. `Covers` says it: a mark that is a value
of the policy's own column is that of some row, and unless a read went by a foreign mark (`mixed`) the target has every row
up to it. `MarkInv` claims this of the stored mark and of the one that a run has loaded, `ReadInv` that a
batch has every row beyond the loaded mark, `WroteInv` that what was read is in the target. A lookback
or a bootstrap only makes the filter weaker (`NewestRow` gives the mark after the run). `SchemaInv`
adds to `SchemaIsGuarded` that the recorded columns, and those written and about to be recorded, are
columns of the target; `DiffIsSound` says what a verdict on a lossy record is worth.

**SinkWrites.** `AllOrNothing`, `AnsweredIsApplied` and the rest compare the target with what it held when the write
began (`sinkBefore`); `SinkInv` says how far the write is. For a table that is `TxInv`: after `n` rows of the
load the transaction holds of every row as many as `EffectTo(n, r)` says (the strategy's effect on
the first `n` rows: a merge leaves the last row of a key, a `delete_insert` none of the old ones), and the counts
add up to `n`. One INSERT takes `EffectTo(n, r)` to `EffectTo(n + 1, r)`; this needs that keys are unique under
the constraint and that the row's id is new (`TableInv`). For a file `LinesInv` says that it is the lines it had before followed by the
planned ones written so far, the first of them spoiled if the file ended within a line, and `HeadInv` that a heading is a first line; for a directory `PartsInv` says of every partition
whether it is old, new or, alone, being swapped. `WritingKeeps` draws the properties from this while a write is
under way, and each step that ends one has a lemma about what it leaves behind.

**RunHistory.** Both theorems rest on what a write may do (`Steady`): a finished run is final,
and runs start when they are written. `HistoryInv` adds that statistics come before a success
and the report before a failure, and that a finished status in the hands of a reader
between its two statements is still true. `HealthInv`: a fresh evaluation rests on a
success that stays, and an overview has counted every run of its window that started before it.

**Instances.** `raced` is history: a launch, stop or status has looked at the lockfile while
another was between its look and its change. Until then `LaunchesAlone` says that a server on its way to the
lockfile is the only one, beside none that is up, no command, and none being stopped, and
`UpIsNamed` that a server that is up is the only one and is named in the lockfile, unless stop has
signalled it and goes on to remove the file. That `Bind` takes the least
free port needs the well-ordering of the naturals (`LeastPort`), and that it differs from the ports in use
that one listener has it at a time.

**EventFanout.** All three readers run together in `FanSpec`. `EventsTell` says what the channel has
of a run: its completion is its last event and is sent once, and a run that has ended without a word has none.
What each reader has is then a function of its place: `ListenerInv` and the tray's list count
the completions before it (`Completed`), `ClientInv` says which events the client has been sent since
its subscription last changed, and `IconInv` that the icon is that of the last event that sets one. A
reader that lagged is exempt, as in the code.

**Secrets.** `KeyInv`: the process that wrote the salt is the only one that can still write
the token, an empty token means that nothing is stored and no session is open, and rows and session have
the key of the token. `GrantInv`: the session's timer is the time that callers were promised, so
`get_store` cannot serve after it. `RateInv`: the queue of the limit is the end of the list of
all tests, and what has been dropped from it is an `AttemptWindow` old (`Pruning`); a test is made only
while the queue is shorter than the limit, so the test `MaxAttempts` before it has been dropped.

**PluginDiscovery.** `RegistryInv` is what every installation keeps, whatever was installed before (`InstallIsSound`,
by cases: a collision, a good or bad copy that shadows a namesake, a new name): the types of a good plugin lead to it, hence no two
provide the same, and as long as no good plugin was displaced by a colliding copy, each type
of the index leads to a good one. What a scan has found is a matter of its place: `Scanned` says that the registry has the names of
the roots before this one and of the directories of this one that are done, each with the last root that has it. It is claimed while
nobody has edited the directories (`Unedited`); the rest of `DiscoveryInv` holds whatever is edited
during a scan. Validation is a fact about the registry that the process was built with, since `pdConnectors` is computed from it.

**Catalog.** Annotations are kept although nothing locks them. `catLoose` gives up a path once two
writers were at work on it or one died in the middle of it; of the others `SoleInv` says that one
operation at most works there, `KeptInv` that the file is what its writers asked for (except while
a scaffold is being filled in), and `PutInv` that an update under way has built what its requester
wants and, before it renames, has it in the temporary file, which holds nothing whole while it is being written. The rest of `CatalogAnswers` is about
states in which nobody works: given the files, that listing, search, detail page, tags and owners,
the validation report and the command line leave nothing out are facts about these computations
(`Documented`, `Agrees`), not about steps.

**Lineage.** Neither a definition and its bindings nor the DELETE and the INSERTs of a refresh are one step.
`LineageInv` counts a pipeline as behind (`lagging`) while any handler is at work on it (`BehindInv`). A handler that met no
other there (`alone`) owns definition and rows: what is stored is what it has inserted so far, and what is left
completes it (`AloneInv`, `LeftInv`), so that its last step may declare the pipeline up to date. Of all others
`SettledInv` says that their bindings are exactly those of the definition, or none if it is gone.

**ColumnLineage.** On PostgreSQL a save is a DELETE and an INSERT per row. A pipeline is given up (`colLoose`)
once two of its runs overlap or one stops inside a save; of the others `SoleRun` says that at most one run is under
way, `LeftOver` that what it has left to insert belongs to its save, and `HalfSaved` that the node has the
rest of it, so that the last step leaves the rows of one save (`RowsOfOneSave`). What a trace answers is a
fact about its levels. `Trace` is a recursive function of the distance; that there is such a function, and that each
level keeps `LevelInv`, goes by the least distance at which it would fail (`LevelsExist`, `TraceLevels`;
`LeastOf` is the well-ordering of the naturals). `LevelInv` knows where every arc came from, and that the arcs
of every key no longer in the queue have been taken; an empty queue then means that nothing is missing
(`TraceFacts`), and that the way down from what was found upstream leads back (`ThereAndBack`).

Operators are covered by lemmas: a bounded set of naturals has a greatest element, a
function on a finite set attains its maximum (so `Newest`, `Least` and `Widest`
denote what their names say), `FilterFact`, `AdvancedType`.

Only model-checked:

- `CoordinatorEnds`, `DueFires`, `WriteReturns`: liveness under fairness is beyond the provers;
- `LineageAnswers`, `AccessHolds`, `DefinitionsHold`: each speaks of several modules. Of `LineageAnswers` the bindings,
  the column edges and their traces are proved (`BindingsHold`, `ColumnAnswersHold`), of `DefinitionsHold` the
  incremental loads, the fields of a policy, the plugin registry and copies (`NothingSkippedHolds`, `SchemasAreGuarded`,
  `PoliciesFit`, `DiscoveryAlwaysHolds`, `TransferAlwaysKeeps`).
  The others compute closures of graphs, expansions, pages or
  folds by recursion (`Lineage`'s queries, `PlanLineage`, `Environments`, `PipelineLoad`, `RestPages`,
  `ScanPushdown`, the texts of lookbacks), where the provers cannot do the induction over data;
  `ReportsAreScrubbed` of `Secrets` is about what a replacement of substrings leaves.

The type invariants of `Backfill`, `Scheduler`, `Executor` and `PluginSession` are theorems, and no run
checks them again.

## 5. Where code and documentation disagree

Each of these is a run that TLC finds violated:

- `backfill_cancel`: cancelling writes `cancelled` to the row, and the coordinator
  goes on, since nobody keeps the flag that would stop it; its final status then
  overwrites the row. (`backfill.rs:208`)
- `scheduler_slot`: a trigger created on the command line has a state row without
  `next_fire_at`; a tick then looks one second back, so occurrences between ticks are missed.
- `scheduler_depth`: `count_pending_runs` counts every run a trigger ever started.
- `scheduler_token`: an accepted webhook call erases its own token.
- `executor_full`: a sink that reads in full is given the filtered rows only, when
  its source also feeds an incremental sink.

Met while modelling, and not kept as runs:

- *Executor.* With two sources a row can be lost: it arrives in the first source
  after its scan, and the second scan reads a newer one, which becomes the mark
  (`NoRowLost` fails without `SingleSource`). Stored watermarks are compared as
  strings, so that of two Int64 marks 9 and 10 the filter starts from `"10"`
  (without `InTurn`). Overlapping runs leave a merge target stale when the older
  run writes last (`MergedIsCurrent` excludes overlap); `docs/snapshots-scd2.md`
  assumes "pipeline-level locking", which is not there. A secret that does not
  resolve, a dropped handler and a crash leave the run `running`. A reset during a
  run is undone by the run's save. The API resets incremental state by the
  pipeline's id and the executor stores it by name.
- *Backfill.* Two coordinators together exceed the backfill's concurrency (each
  has its own semaphore). A resume runs an iteration that is still in flight. Ranges
  with SQL pass validation and fail before a record exists. A concurrency of 0 on
  the command line waits for ever.
- *Scheduler.* Under skip and reject two firings at once start two runs
  (`PolicyBound` states the real bound). A skipped firing marks its files as seen.
  `armillary trigger fire` queues a row that nobody picks up. A deletion during a
  tick lets the tick fire once more.
- *Plugin host.* `docs/plugins/protocol-v1.md` has the host send `Shutdown` after an
  abort and gives `BatchAck` no timeout; the code sends none and waits 60 seconds. The
  wait for `AbortAck` is over with the late answer of the phase before, and `drop`
  kills the child at once, though its comment speaks of waiting briefly: a plugin that
  was slow may never see the `Abort`, and one that has committed is often killed before
  it reads `Shutdown` and counted as crashed. After a late `CommitAck` the node fails
  though the plugin has committed.
- *Pipeline store and cache.* A run caches its outputs when it ends, from the definition it read when it began; a save in
  between has invalidated the cache before that, and previews show outputs of the older source (`api/pipelines.rs:533`;
  `CacheFollowsSaves` excludes it by `mixed`). `restore_version` and an import that overwrites do not
  invalidate the output cache, though `output_cache.rs:17` says that saves do. A preview
  never asks the manifest whether a file is current; a rename leaves the directory of the
  old name, and two names can share one. A PUT with an unknown id writes a file before it
  answers NotFound. On PostgreSQL the loser of a version number keeps its definition
  without a snapshot.
- *Snapshots.* Preview and history are never shown: the stand-in for NULL, `\0NULL` (`snapshot_query.rs:30`, `406`, and in the
  command's own copy, `armillary-cli/src/snapshot.rs:40`), is spliced into the text of the statements (296-320, 505-535),
  and the client refuses a statement with a NUL byte. Were they sent, a preview would still not be what
  `docs/snapshots-scd2.md:175` says: `check_columns: ["*"]` is looked up as a column of that name (152-163), where the merge expands it
  (`postgres_snapshot.rs:99`), and the texts compared are Arrow's on one side and PostgreSQL's `::text` on the other
  (466-477, 515-526), which never agree for timestamps, where the merge compares typed values. So no property here says
  that a preview predicts a merge. `rows_deleted` of a receipt counts keys (`postgres_snapshot.rs:380`), where
  `armillary-engine/src/snapshot.rs:187` says rows: a key that changed before it went missing loses several. Duplicate keys in a batch give several current versions; two Parquet
  writers share one `.tmp`; a preview reads 10,000 rows and counts the rest as gone; an
  empty batch is no change on PostgreSQL and everything gone in Parquet. NULL keys match in
  Parquet only.
- *Runs, SLA, reports.* The executor ignores what its store writes return; the row of a run
  that died stays `running`. The evaluator reads the ten newest runs of any environment
  and the bindings of environment `default`, where the API defaults to `dev`. An
  `accepted_values` with an empty list fails with a count of 0. A failed `warn` test is
  announced as `TestNodePassed`. A test fails its run only for the sinks that come later in an
  order that depends on a hash map. A source without batches is not registered, so a SQL
  transform on it fails, though the comment at `executor.rs:1530` says that empty results
  must be. COMPLETE may be stamped before START, a command line run usually exits before its
  final event is sent, and `parse_fingerprint` maps `db/x.y` and `db.x/y` to one dataset.
  A run that ends over a secret (`executor.rs:468`, `748`) or a dropped handler emits no
  `RunCompleted`: the tray stays busy and completion triggers do not fire.
- *Lineage.* `save_bindings` says "Atomic replace" and is a DELETE and INSERTs that commit
  one by one; a restored version does not refresh bindings, and a change of
  `default_environment` leaves the old ones. What Kahn's sort leaves over is not all in
  cycles. Boundary edges of a source have no upstream node, so no column edge ever crosses
  pipelines without an annotation. A save without edges leaves the old rows. `truncated` is set when the limit is
  reached even if nothing lies beyond.
- *Catalog.* `update_metadata` on a resource that is not in the `dev` catalog writes its
  file and then panics. Describing a resource in the API overwrites its annotation; the
  command refuses. Concurrent PUTs share one `.yaml.tmp`, so that one renames what the other has just truncated, though
  `api/catalog.rs:463` says "atomic file replacement" (`CatalogAnswers` excludes it by `catLoose`). Names that sanitize alike share a
  file.
- *Connectors.* An upsert into a table that the sink created fails, since no unique
  constraint is there. `truncate_insert` without a batch keeps the old rows. `CREATE TABLE`
  is outside the transaction, and an index that cannot be made reports an error after the commit. A crash
  right after a CSV file was made leaves it without a header for good. A write to a CSV file that is cut off leaves half a
  line, since the buffer is flushed wherever it is full (`file_sink.rs:716`); the next append opens the file as it is (708),
  continues that line with its first row and answers Ok. `AnsweredIsApplied` allows this one row to be spoiled and no other. REST fetches stop at
  `max_pages` without a word; a cursor that is a number ends the fetch after one page (`rest_api_source.rs:296`); with
  offsets, rows that move are skipped or repeated (262), though 213 says "Fetch all data from the REST API"; a column declared
  `int32`, `float32`, `int8` or `int16` fails every fetch that has rows, since it is built as text (722-732). A filter is
  pushed down without a look at the type of its column, though `postgres_source.rs:351` speaks of "expressions that cannot
  be safely pushed down": WHERE compares the stored column and SELECT casts it, so that `<` on an enum loses rows that the engine would
  keep, and a json column, or a literal that is no label, fails the query.
- *Environments.* `update_fallback` refuses only self-reference, so two environments can
  fall back to each other; deleting one of them leaves a self-reference. A refused deletion
  has already dropped its overrides. A deleted `dev` is back at the next start. A comment at
  `resolver.rs:409` speaks of the first environment; the code takes the first of the chain
  that has the schema, and nothing outside the tests builds a resolver.
- *Secrets.* A crash between salt and token leaves a store that is "initialized" and cannot be
  opened. The server needs the store unlocked for every run, not only for those with
  references (`state.rs:347`). A run whose session locks meanwhile fails at a later node. Runs
  of the command line do not scrub by value.
- *Instances.* Two launches that overlap can both serve, since each looks for the lockfile before the other has written it
  (`OneInstance` excludes it by `raced`); `server stop` removes the lockfile
  while the server is closing, and a server started meanwhile loses its own. A torn lockfile
  fails every command, and a process id used again makes launch refuse and stop signal a
  stranger.
- *Snippets.* Identifiers are renamed one pair after another, so with a call `s` to a snippet
  that holds nodes `x` and `s.x` references to `x` end at `s.s.x` (`LoadKeepsMeaning` excludes this by
  `Echoes`). A pipeline variable inside a snippet's code is erased, and a legacy
  `write_mode` of a snippet's sink is not migrated. One invalid file in the
  directory refuses every pipeline with a call.
- *Variables and ranges.* Triggers and backfills never check the types of overrides.
  `evaluate_completion` and `validate_mapping_keys` are called by tests only. With units of a
  day or more, a range with times of day loses part of its last day, and one inside a day
  has an empty window. List backfills may repeat a key, and a resume skips all of them.
- *Materialization.* `Restored`: a stored schema turns every type outside a short list into
  `Utf8` (`schema_diff.rs:116`), so an incremental sink with a timestamp column is refused by the
  default policy from its second run on, while a column that really changed from timestamp to
  text passes. `expect("validate_policy guarantees watermark presence under incremental")`
  (`incremental_coordinator.rs:154`) can fail: POST and PUT of a pipeline do not validate.
  Validation accepts lookbacks such as `P1M` that no run can parse. An edited watermark
  column inherits the mark of the old one, and rows are skipped until a reset; these
  are what `mixed` and `valid` in `NothingSkipped` and `SchemaIsGuarded` set apart.
- *Metadata transfer.* An export to a fresh database fails at the first environment that
  falls back to a later one, the default `dev` included (`metadata.rs:150`); an import leaves it
  out silently. `insert_run` drops test results and receipts. "skipping if it already exists"
  (`bulk.rs:137`) overwrites the fallback. An import through the traits gives new ids and drops versions and
  runs. An import "read-only via trait methods" adds default environments to its source.
- *Plugin discovery.* A colliding plugin that shadows a good namesake keeps the namesake's
  entries of the sink index, though `discovery.rs:50` says "Built from `Ok` plugins only";
  validation refuses such a sink, writing does not. The branch for a duplicate name in one
  root cannot be reached. `docs/plugins/discovery.md` says a type that a built-in has is a collision and
  that a reload reaches the next run: the built-in wins silently, and a process keeps the
  registry it started with.

## 6. What is not modelled, and the plan

Not modelled at all: HTTP routing, argument parsing and printing, traits and constructors,
the frontend. They take no decision that the modules of the components do not have.

Left out of the modelled components, as I/O or computation on data without state:

- what SQL, Polars and Python transforms compute, the Python runtime, UDFs and SQL
  preprocessing, file formats, credentials, encryption, logs, traces and histograms;
- in `Backfill` ranges with SQL, which nothing expands, listing and printing; in
  `Scheduler` a PUT that changes kind or policy, errors when reading the store, expression
  parsing, `last_fired_at`, `consecutive_errors`; in `Executor` dry runs and deletes in sources;
  in `PluginSession` the contents of frames and plugins without the SDK;
- in `SnapshotMerge` overlapping writers, duplicate and NULL keys, history and preview of the API and the command line; in
  `SinkWrites` a second writer of the same target, and rows that the buffer of a CSV file has not flushed yet; in
  `ScanPushdown` arrays, ranges and the other types whose comparisons the engine does not share;
- in `RunHistory` the lists of slowest and most failing pipelines; in `Lineage` the
  fingerprint of a configuration and the 90 days of observations; in `ColumnLineage` retention, which nothing calls;
  in `PlanLineage` scalar sub-queries; in `Catalog` file names that collide;
- of the PostgreSQL backend its backfill, trigger, incremental-state and SLA tables, which
  implement the traits that the SQLite models follow, and its connection retries.

`PROJECT.json` says the same of each component. Hazards no run covers, besides those: a
lost `update_iteration` (`backfill.rs:328`), iteration rows inserted one by one
(`backfill_store.rs:129`, where `Backfill` has the torn prefix and no property speaks of it), a row that stays
`running` (`run_store.rs:358`), two sources of one sink (`executor.rs:500`) and marks compared as strings
(`incremental_coordinator.rs:240`); section 5 describes what they lead to.

Left to prove: the composition of `PluginSession` with `Executor`'s `WriteSink` and
`WriteUnknown` through `SinkContract`.
