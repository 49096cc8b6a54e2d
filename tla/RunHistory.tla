----------------------------- MODULE RunHistory ----------------------------
(***************************************************************************)
(* The run store and what is derived from it: the rows an executor writes  *)
(* while a run goes on, readers of one or two runs (a PostgreSQL reader    *)
(* takes the row and the node statistics in two statements), the freshness *)
(* evaluator that searches the newest runs of a resource's producer for a  *)
(* success, and the health overview with its cache.                        *)
(*                                                                         *)
(* The statements of a run succeed: the executor ignores their results.    *)
(* Runs of one pipeline may overlap.                                       *)
(***************************************************************************)
EXTENDS Absent, Integers, Sequences, FiniteSets

CONSTANTS
  MaxRuns,     \* bound: the runs started
  PipelineNodes,       \* the nodes of the pipeline
  EndOfTime,   \* bound: the last instant
  ScanLimit,   \* the newest runs the evaluator looks at
  MaxAge,      \* freshness: breached beyond this age
  WarnAt,      \* freshness: warned beyond this age
  OverviewWindow,      \* the overview's window
  CacheTtl     \* how long an overview is served again

(* Durations are whole numbers of instants. *)
ASSUME HistoryAssumption ==
  MaxAge \in Int /\ WarnAt \in Int /\ OverviewWindow \in Int /\ CacheTtl \in Int

VARIABLES
  backend,     \* "sqlite" or "postgres"
  runRow,      \* run -> its row, for the runs started
  nodeStats,   \* run -> the nodes with statistics
  reports,     \* the runs with a failure report
  alive,       \* the runs a process is executing
  reading,     \* a reader between its two statements
  answer,      \* what the last reader got: [status, nodes, report]
  sla,         \* the newest evaluation of the resource
  overview,    \* the cached overview
  now          \* wall-clock time

historyVars ==
  <<backend, runRow, nodeStats, reports, alive, reading, answer, sla, overview, now>>

Runs == 1..Len(runRow)
Statuses == {"pending", "running", "success", "failed", "cancelled"}
Finished == {"success", "failed", "cancelled"}

NewRun == [status |-> "pending", start |-> None, end |-> None]

HistoryInit ==
  /\ backend \in {"sqlite", "postgres"}
  /\ runRow = <<>> /\ nodeStats = <<>> /\ reports = {} /\ alive = {}
  /\ reading = None /\ answer = None
  /\ sla = None /\ overview = None
  /\ now = 0

-----------------------------------------------------------------------------
(* The executor's writes, in the order of a run. *)
rowVars == <<runRow, nodeStats, reports, alive>>
readerVars == <<reading, answer, sla, overview>>

CreateRun ==
  /\ Len(runRow) < MaxRuns
  /\ runRow' = Append(runRow, NewRun)
  /\ nodeStats' = Append(nodeStats, {})
  /\ alive' = alive \cup {Len(runRow) + 1}
  /\ UNCHANGED <<backend, reports, readerVars, now>>

SetRunning(r) ==
  /\ r \in alive /\ runRow[r].status = "pending"
  /\ runRow' = [runRow EXCEPT ![r].status = "running", ![r].start = now]
  /\ UNCHANGED <<backend, nodeStats, reports, alive, readerVars, now>>

Executing(r) == r \in alive /\ runRow[r].status = "running"

SaveNodeStats(r, node) ==
  /\ Executing(r)
  /\ node \notin nodeStats[r] /\ r \notin reports
  /\ nodeStats' = [nodeStats EXCEPT ![r] = @ \cup {node}]
  /\ UNCHANGED <<backend, runRow, reports, alive, readerVars, now>>

(* A failed node's statistics come first, then its report. *)
SaveFailureReport(r) ==
  /\ Executing(r) /\ r \notin reports
  /\ nodeStats[r] # {}
  /\ reports' = reports \cup {r}
  /\ UNCHANGED <<backend, runRow, nodeStats, alive, readerVars, now>>

(* The status follows from what was executed: a failed node, a            *)
(* cancellation seen between two nodes, or all nodes.                     *)
OutcomeMutant(r) ==   \* a run is finished before its last statistics are stored
  IF r \in reports THEN "failed" ELSE IF nodeStats[r] # {} THEN "success" ELSE "cancelled"

Outcome(r) ==
  IF r \in reports THEN "failed" ELSE IF nodeStats[r] = PipelineNodes THEN "success" ELSE "cancelled"

FinishRun(r) ==
  /\ Executing(r)
  /\ runRow' = [runRow EXCEPT ![r].status = Outcome(r), ![r].end = now]
  /\ alive' = alive \ {r}
  /\ UNCHANGED <<backend, nodeStats, reports, readerVars, now>>

(* The process ends: nothing repairs the row of a run it was executing. *)
Die(r) ==
  /\ r \in alive
  /\ alive' = alive \ {r}
  /\ UNCHANGED <<backend, runRow, nodeStats, reports, readerVars, now>>

-----------------------------------------------------------------------------
(* Readers. *)
Show(r, status) == [status |-> status, nodes |-> nodeStats[r], report |-> r \in reports]

(* SQLite reads the row and the statistics under the connection's mutex. *)
GetRun(r) ==
  /\ backend = "sqlite"
  /\ answer' = Show(r, runRow[r].status)
  /\ UNCHANGED <<backend, rowVars, reading, sla, overview, now>>

(* PostgreSQL reads the row ... *)
GetRow(r) ==
  /\ backend = "postgres" /\ reading = None
  /\ reading' = [run |-> r, status |-> runRow[r].status]
  /\ UNCHANGED <<backend, rowVars, answer, sla, overview, now>>

(* ... and then the statistics. *)
LoadNodeStats ==
  /\ reading # None
  /\ answer' = Show(reading.run, reading.status)
  /\ reading' = None
  /\ UNCHANGED <<backend, rowVars, sla, overview, now>>

-----------------------------------------------------------------------------
(* The runs of a pipeline, newest start first, those never started last. *)
Newer(a, b) ==
  \/ runRow[a].start # None /\ runRow[b].start = None
  \/ runRow[a].start # None /\ runRow[b].start # None /\ runRow[a].start > runRow[b].start

(* A page of them; runs that started together may come in any order. *)
ListRuns(limit) ==
  {page \in SUBSET Runs :
     /\ Cardinality(page) = (IF Len(runRow) < limit THEN Len(runRow) ELSE limit)
     /\ \A a \in page, b \in Runs \ page : ~Newer(b, a)}

SuccessesMutant(page) ==   \* any finished run counts as a success
  {r \in page : runRow[r].status \in Finished}

Successes(page) == {r \in page : runRow[r].status = "success"}

LastSuccess(page) ==
  {r \in Successes(page) : \A other \in Successes(page) : ~Newer(other, r)}

Age(r) == now - runRow[r].end

Freshness(r) ==
  IF Age(r) > MaxAge THEN "breach" ELSE IF Age(r) > WarnAt THEN "warning" ELSE "ok"

(* One tick. A resource whose producer the catalog does not name, or whose *)
(* producer has no success on the page, is unknown.                        *)
EvaluateSlas ==
  /\ \E page \in ListRuns(ScanLimit), produced \in BOOLEAN :
       IF produced /\ LastSuccess(page) # {}
       THEN \E r \in LastSuccess(page) : sla' = [status |-> Freshness(r), at |-> now]
       ELSE sla' = [status |-> "unknown", at |-> now]
  /\ UNCHANGED <<backend, rowVars, reading, answer, overview, now>>

-----------------------------------------------------------------------------
(* The health overview. *)
Since(t) == {r \in Runs : IF runRow[r].start = None THEN runRow[r].status \in {"pending", "running"}
                          ELSE runRow[r].start >= t}

Count(runs) == [s \in Statuses |-> Cardinality({r \in runs : runRow[r].status = s})]

(* A pipeline is noted for its first failure after a success. *)
FirstFailure(runs) ==
  \E s, f \in runs : runRow[s].status = "success" /\ runRow[f].status = "failed" /\ ~Newer(s, f)

Breaches == IF sla # None /\ sla.status = "breach" THEN {"resource"} ELSE {}

Compute ==
  [at |-> now, counts |-> Count(Since(now - OverviewWindow)),
   notable |-> FirstFailure(Since(now - OverviewWindow)), breaches |-> Breaches]

Served == overview # None /\ now - overview.at < CacheTtl

Overview ==
  /\ ~Served
  /\ overview' = Compute
  /\ UNCHANGED <<backend, rowVars, reading, answer, sla, now>>

Tick ==
  /\ now < EndOfTime
  /\ now' = now + 1
  /\ UNCHANGED <<backend, rowVars, readerVars>>

Write ==
  \/ CreateRun
  \/ \E r \in Runs :
       \/ SetRunning(r) \/ SaveFailureReport(r) \/ FinishRun(r) \/ Die(r)
       \/ \E node \in PipelineNodes : SaveNodeStats(r, node)

Read == LoadNodeStats \/ \E r \in Runs : GetRun(r) \/ GetRow(r)

Assess == EvaluateSlas \/ Overview \/ Tick

HistoryNext == Write \/ Read \/ Assess

HistorySpec == HistoryInit /\ [][HistoryNext]_historyVars

-----------------------------------------------------------------------------
(* A reader of a run, through either store, never sees a run that          *)
(* succeeded without the statistics of every node, nor a failed one        *)
(* without its report: the row is written last and read first.             *)
FinishedRunsAreComplete ==
  answer # None =>
    /\ answer.status = "success" => answer.nodes = PipelineNodes
    /\ answer.status = "failed" => answer.nodes # {} /\ answer.report

(* A resource is called fresh only if a run of its producer succeeded      *)
(* within the allowed age before the evaluation, whatever failed, was      *)
(* cancelled, died or is running since.                                    *)
FreshMeansProduced ==
  sla # None /\ sla.status \in {"ok", "warning"} =>
    \E r \in Runs : /\ runRow[r].status = "success"
                    /\ runRow[r].end <= sla.at /\ sla.at - runRow[r].end <= MaxAge

(* An overview that is still served counts every run of the window that    *)
(* started before its time to live.                                        *)
Counted(view) == view.counts["pending"] + view.counts["running"] + view.counts["success"]
                   + view.counts["failed"] + view.counts["cancelled"]

OverviewCounts ==
  Served =>
    Counted(overview) >=
      Cardinality({r \in Since(now - OverviewWindow) : runRow[r].start # None /\ runRow[r].start <= now - CacheTtl})

(* What the evaluator and the overview tell about the runs is real.        *)
HealthIsReal == FreshMeansProduced /\ OverviewCounts
=============================================================================
