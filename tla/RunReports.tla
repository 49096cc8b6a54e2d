----------------------------- MODULE RunReports ----------------------------
(***************************************************************************)
(* What a run tells the world: the results of its test nodes, the report   *)
(* of the node that failed, its row, the Prometheus counters and the       *)
(* OpenLineage events. The events are sent by tasks of their own, in any   *)
(* order; they are dropped when the process ends. The executor ignores a   *)
(* write of the run store that fails.                                      *)
(*                                                                         *)
(* Runs of one process may overlap. A row of data is one nullable value; a *)
(* transform keeps the rows that have one.                                 *)
(***************************************************************************)
EXTENDS Integers, Sequences, FiniteSets, SequencesExt

CONSTANTS
  Pipelines,   \* [order, kind, up, test, fp]: fp names what a source or sink reaches
  SourceData,  \* what a source may return: sequences of batches
  SampleLimit, \* the rows of input in a failure report
  MaxRuns,     \* bound: the runs started
  MaxFaults,   \* bound: lost writes and events, failing connectors, deaths
  None         \* NULL, or nothing

VARIABLES
  rrRuns,      \* the runs, oldest first
  rrTasks,     \* events spawned and not yet sent
  rrReceived,  \* events the lineage service got
  rrCounters,  \* the process's counters
  rrFaults     \* faults so far

reportVars == <<rrRuns, rrTasks, rrReceived, rrCounters, rrFaults>>

Zero == [started |-> 0, completed |-> 0, failed |-> 0, runsCompleted |-> 0, runsFailed |-> 0]

(* The row is stored by create_run; the rest is what the executor holds.   *)
NewRun(p) ==
  [pipe |-> p, at |-> 1, cancel |-> FALSE, outputs |-> <<>>, stats |-> <<>>, results |-> <<>>,
   outcome |-> None, told |-> FALSE, live |-> TRUE,
   row |-> "pending", keptResults |-> <<>>, report |-> None, lost |-> {}]

Init ==
  /\ rrRuns = <<>> /\ rrTasks = {} /\ rrReceived = {}
  /\ rrCounters = Zero /\ rrFaults = 0

-----------------------------------------------------------------------------
(* Assertions: each compiles to a query that returns the violating rows.   *)
Rows(batches) == FlattenSeq(batches)

Occurrences(rows, v) == Cardinality({i \in DOMAIN rows : rows[i] = v})

DuplicatesMutant(rows) ==   \* HAVING COUNT(*) > 2
  SetToSeq({v \in Range(rows) : Occurrences(rows, v) > 2})

Duplicates(rows) == SetToSeq({v \in Range(rows) : Occurrences(rows, v) > 1})

(* NULL NOT IN (...), NOT (NULL > 1) and the like select no row, and       *)
(* neither does NOT IN over a list that holds a NULL.                      *)
Outside(rows, values) ==
  SelectSeq(rows, LAMBDA v : v # None /\ v \notin values /\ None \notin values)

(* A query that does not compile has no answer. *)
Compiles(a) == a.kind # "sql" /\ (a.kind = "accepted_values" => a.values # {})

Violating(a, rows) ==
  CASE a.kind = "not_null" -> SelectSeq(rows, LAMBDA v : v = None)
    [] a.kind \in {"unique", "no_duplicates"} -> Duplicates(rows)
    [] a.kind \in {"accepted_values", "expression_true"} -> Outside(rows, a.values)
    [] a.kind = "row_count" -> IF Len(rows) \in a.values THEN <<>> ELSE <<Len(rows)>>

LimitBatches(rows, limit) == SubSeq(rows, 1, IF Len(rows) < limit THEN Len(rows) ELSE limit)

Verdict(a, rows, limit) ==
  IF ~Compiles(a) THEN [passed |-> FALSE, count |-> 0, shown |-> <<>>]
  ELSE LET bad == Violating(a, rows)
       IN [passed |-> bad = <<>>, count |-> Len(bad), shown |-> LimitBatches(bad, limit)]

ExecuteTest(n, config, rows) ==
  LET verdicts == [i \in DOMAIN config.assertions |->
                     Verdict(config.assertions[i], rows, config.limit)]
  IN [node |-> n, severity |-> config.severity, verdicts |-> verdicts,
      passed |-> \A i \in DOMAIN verdicts : verdicts[i].passed]

-----------------------------------------------------------------------------
(* Nodes. *)
Kind(run, n) == run.pipe.kind[n]
NodesOf(run, kind) == {n \in DOMAIN run.pipe.kind : Kind(run, n) = kind}
Done(run) == DOMAIN run.outputs

(* What the upstream nodes left, in the order of the edges. *)
GatherUpstream(run, n) ==
  FlattenSeq([i \in DOMAIN run.pipe.up[n] |-> run.outputs[run.pipe.up[n][i]]])

Input(run, n) == Rows(GatherUpstream(run, n))

Ok(batches, result) == [batches |-> batches, error |-> FALSE, fault |-> FALSE, result |-> result]
Err(fault, result) == [batches |-> <<>>, error |-> TRUE, fault |-> fault, result |-> result]

(* A test without a batch fails whatever its severity, and leaves no       *)
(* result; a failed assertion is an error only at severity error.          *)
TestOutcomes(run, n) ==
  IF GatherUpstream(run, n) = <<>> THEN {Err(FALSE, None)}
  ELSE LET result == ExecuteTest(n, run.pipe.test[n], Input(run, n))
       IN IF ~result.passed /\ result.severity = "error" THEN {Err(FALSE, result)}
          ELSE {Ok(<<>>, result)}

(* A transform returns at least one batch, be it empty. Its query does not *)
(* find the table of an upstream node that left no batch.                  *)
TransformOutcomes(run, n) ==
  IF GatherUpstream(run, n) = <<>> THEN {Err(FALSE, None)}
  ELSE {Ok(<<SelectSeq(Input(run, n), LAMBDA v : v # None)>>, None), Err(TRUE, None)}

(* What executing a node may lead to. *)
Outcomes(run, n) ==
  CASE Kind(run, n) = "source" -> {Ok(d, None) : d \in SourceData} \cup {Err(TRUE, None)}
    [] Kind(run, n) = "transform" -> TransformOutcomes(run, n)
    [] Kind(run, n) = "sink" -> {Ok(GatherUpstream(run, n), None), Err(TRUE, None)}
    [] Kind(run, n) = "test" -> TestOutcomes(run, n)

NodeStats(run, n, outcome) ==
  [node |-> n, in |-> Len(Input(run, n)), out |-> Len(Rows(outcome.batches)), error |-> outcome.error]

SampleInputRowsMutant(run, n) ==   \* counts the rows it sampled
  LET sample == LimitBatches(Input(run, n), SampleLimit)
  IN [node |-> n, sample |-> sample, total |-> Len(sample)]

SampleInputRows(run, n) ==
  [node |-> n, sample |-> LimitBatches(Input(run, n), SampleLimit), total |-> Len(Input(run, n))]

-----------------------------------------------------------------------------
(* Events. A resource is [scheme, rest], rest a sequence of path steps     *)
(* and separators.                                                         *)
Before(s) == SubSeq(s, 1, SelectInSeq(s, LAMBDA c : c = "/") - 1)
After(s) == SubSeq(s, SelectInSeq(s, LAMBDA c : c = "/") + 1, Len(s))

ParseFingerprint(fp) ==
  IF fp.scheme = None THEN [scheme |-> None, authority |-> <<"default">>, name |-> fp.rest]
  ELSE IF fp.scheme = "file" THEN [scheme |-> "file", authority |-> <<>>, name |-> fp.rest]
  ELSE IF "/" \notin Range(fp.rest) THEN [scheme |-> fp.scheme, authority |-> fp.rest, name |-> <<>>]
  ELSE [scheme |-> fp.scheme, authority |-> Before(fp.rest),
        name |-> IF fp.scheme = "s3" THEN After(fp.rest)
                 ELSE [i \in DOMAIN After(fp.rest) |->
                         IF After(fp.rest)[i] = "/" THEN "." ELSE After(fp.rest)[i]]]

(* The number of fields of the first batch. *)
SchemaFields(batches) == IF batches = <<>> THEN 0 ELSE 1

Dataset(fp, schema) == [id |-> ParseFingerprint(fp), schema |-> schema]

CollectInputs(run) ==
  {Dataset(run.pipe.fp[n], IF n \in Done(run) THEN SchemaFields(run.outputs[n]) ELSE None) :
     n \in NodesOf(run, "source")}

(* A sink's schema is that of the first upstream node that ran. *)
SinkSchema(run, n) ==
  LET ran == SelectSeq(run.pipe.up[n], LAMBDA u : u \in Done(run))
  IN IF ran = <<>> THEN None ELSE SchemaFields(run.outputs[Head(ran)])

CollectOutputs(run) ==
  {Dataset(run.pipe.fp[n], SinkSchema(run, n)) : n \in NodesOf(run, "sink")}

Event(r, type, inputs, outputs) == [run |-> r, type |-> type, inputs |-> inputs, outputs |-> outputs]

EmitStart(r) == Event(r, "START", {}, {})
EmitAbort(r) == Event(r, "ABORT", {}, {})
EmitComplete(r) == Event(r, "COMPLETE", CollectInputs(rrRuns[r]), CollectOutputs(rrRuns[r]))
EmitFail(r) == Event(r, "FAIL", CollectInputs(rrRuns[r]), CollectOutputs(rrRuns[r]))

-----------------------------------------------------------------------------
(* The executor. *)
Executing(r) == rrRuns[r].outcome = None
Failing(run) == run.stats # <<>> /\ Last(run.stats).error
Node(run) == run.pipe.order[run.at]
AtNode(r) ==
  Executing(r) /\ ~Failing(rrRuns[r]) /\ rrRuns[r].at <= Len(rrRuns[r].pipe.order)

(* The writes of a step that are lost. *)
Lose(writes) == {l \in SUBSET writes : rrFaults + Cardinality(l) <= MaxFaults}

Begin(p) ==
  /\ Len(rrRuns) < MaxRuns
  /\ \E lost \in Lose({"running"}) :
       /\ rrRuns' = Append(rrRuns, [NewRun(p) EXCEPT !.lost = lost, !.row = IF lost = {} THEN "running" ELSE @])
       /\ rrFaults' = rrFaults + Cardinality(lost)
  /\ rrTasks' = rrTasks \cup {EmitStart(Len(rrRuns) + 1)}
  /\ UNCHANGED <<rrReceived, rrCounters>>

Cancel(r) ==
  /\ Executing(r) /\ ~rrRuns[r].cancel
  /\ rrRuns' = [rrRuns EXCEPT ![r].cancel = TRUE]
  /\ UNCHANGED <<rrTasks, rrReceived, rrCounters, rrFaults>>

(* The secret of a source or sink does not resolve: the executor returns   *)
(* at once, and nothing after NodeStarted happens.                         *)
SecretMissing(r) ==
  /\ AtNode(r) /\ ~rrRuns[r].cancel
  /\ Kind(rrRuns[r], Node(rrRuns[r])) \in {"source", "sink"}
  /\ rrFaults < MaxFaults
  /\ rrRuns' = [rrRuns EXCEPT ![r].outcome = "secret", ![r].told = TRUE]
  /\ rrCounters' = [rrCounters EXCEPT !.started = @ + 1]
  /\ rrFaults' = rrFaults + 1
  /\ UNCHANGED <<rrTasks, rrReceived>>

WithResult(run, outcome) ==
  IF outcome.result = None THEN run.results ELSE Append(run.results, outcome.result)

(* The node completed. *)
Completed(run, n, outcome) ==
  [run EXCEPT !.outputs = [m \in Done(run) \cup {n} |-> IF m = n THEN outcome.batches ELSE run.outputs[m]],
              !.stats = Append(@, NodeStats(run, n, outcome)),
              !.results = WithResult(run, outcome),
              !.at = @ + 1]

(* The node failed: its report is stored. *)
Failed(run, n, outcome, lost) ==
  [run EXCEPT !.stats = Append(@, NodeStats(run, n, outcome)),
              !.results = WithResult(run, outcome),
              !.report = IF "report" \in lost THEN @ ELSE SampleInputRows(run, n),
              !.lost = @ \cup lost]

RunNode(r) ==
  /\ AtNode(r) /\ ~rrRuns[r].cancel
  /\ LET run == rrRuns[r]
         n == Node(run)
     IN \E outcome \in Outcomes(run, n) :
        \E lost \in Lose(IF outcome.error THEN {"report"} ELSE {}) :
          /\ rrFaults' = rrFaults + Cardinality(lost) + (IF outcome.fault THEN 1 ELSE 0)
          /\ rrFaults' <= MaxFaults
          /\ rrRuns' = [rrRuns EXCEPT ![r] =
               IF outcome.error THEN Failed(run, n, outcome, lost) ELSE Completed(run, n, outcome)]
          /\ rrCounters' = [rrCounters EXCEPT !.started = @ + 1,
                                              !.completed = @ + (IF outcome.error THEN 0 ELSE 1),
                                              !.failed = @ + (IF outcome.error THEN 1 ELSE 0)]
  /\ UNCHANGED <<rrTasks, rrReceived>>

(* How the loop ends. A flag raised after the last node is not read. *)
Ending(run) ==
  IF Failing(run) THEN "failed"
  ELSE IF run.at > Len(run.pipe.order) THEN "success"
  ELSE IF run.cancel THEN "cancelled" ELSE None

(* A cancelled run does not store the test results it has. *)
FinishWritesMutant(run) ==   \* a failed run does not store them either
  {"finish"} \cup (IF Ending(run) = "success" /\ run.results # <<>> THEN {"results"} ELSE {})

FinishWrites(run) ==
  {"finish"} \cup
  (IF Ending(run) \in {"success", "failed"} /\ run.results # <<>> THEN {"results"} ELSE {})

Finish(r) ==
  /\ Executing(r) /\ Ending(rrRuns[r]) # None
  /\ LET run == rrRuns[r]
     IN \E lost \in Lose(FinishWrites(run)) :
          LET done == FinishWrites(run) \ lost
          IN /\ rrRuns' = [rrRuns EXCEPT
                  ![r].outcome = Ending(run),
                  ![r].row = IF "finish" \in done THEN Ending(run) ELSE @,
                  ![r].keptResults = IF "results" \in done THEN run.results ELSE @,
                  ![r].lost = @ \cup lost]
             /\ rrFaults' = rrFaults + Cardinality(lost)
  /\ UNCHANGED <<rrTasks, rrReceived, rrCounters>>

(* Then the counters, and the event. Cancelled runs are not counted. *)
Tell(r) ==
  /\ ~Executing(r) /\ ~rrRuns[r].told
  /\ LET outcome == rrRuns[r].outcome
     IN /\ rrCounters' = [rrCounters EXCEPT !.runsCompleted = @ + (IF outcome = "success" THEN 1 ELSE 0),
                                            !.runsFailed = @ + (IF outcome = "failed" THEN 1 ELSE 0)]
        /\ rrTasks' = rrTasks \cup
             {CASE outcome = "success" -> EmitComplete(r)
                [] outcome = "failed" -> EmitFail(r)
                [] outcome = "cancelled" -> EmitAbort(r)}
  /\ rrRuns' = [rrRuns EXCEPT ![r].told = TRUE]
  /\ UNCHANGED <<rrReceived, rrFaults>>

(* A task posts its event; a refusal or an error is only logged. *)
Send(event) ==
  /\ rrTasks' = rrTasks \ {event}
  /\ \/ rrReceived' = rrReceived \cup {event} /\ UNCHANGED rrFaults
     \/ rrFaults < MaxFaults /\ rrFaults' = rrFaults + 1 /\ UNCHANGED rrReceived
  /\ UNCHANGED <<rrRuns, rrCounters>>

(* The process ends: a command's as soon as its run has, a server's at any *)
(* time. Its tasks and counters go with it.                                *)
Exit ==
  /\ \E r \in DOMAIN rrRuns : rrRuns[r].live
  /\ LET cut == {r \in DOMAIN rrRuns : ~rrRuns[r].told}
     IN /\ rrFaults' = rrFaults + (IF cut = {} THEN 0 ELSE 1)
        /\ rrFaults' <= MaxFaults
        /\ rrRuns' = [r \in DOMAIN rrRuns |->
             [rrRuns[r] EXCEPT !.live = FALSE, !.told = TRUE, !.outcome = IF r \in cut THEN "died" ELSE @]]
  /\ rrTasks' = {} /\ rrCounters' = Zero
  /\ UNCHANGED rrReceived

Next ==
  \/ \E p \in Pipelines : Begin(p)
  \/ \E r \in DOMAIN rrRuns : Cancel(r) \/ SecretMissing(r) \/ RunNode(r) \/ Finish(r) \/ Tell(r)
  \/ \E event \in rrTasks : Send(event)
  \/ Exit

-----------------------------------------------------------------------------
(* What an assertion asks of the data. *)
Holds(a, rows) ==
  CASE a.kind = "not_null" -> \A i \in DOMAIN rows : rows[i] # None
    [] a.kind \in {"unique", "no_duplicates"} ->
         \A i, j \in DOMAIN rows : rows[i] = rows[j] => i = j
    [] a.kind \in {"accepted_values", "expression_true"} ->
         /\ Compiles(a)
         /\ None \in a.values \/ Range(rows) \subseteq a.values \cup {None}
    [] a.kind = "row_count" -> Len(rows) \in a.values
    [] OTHER -> FALSE

AllHold(run, n) ==
  \A i \in DOMAIN run.pipe.test[n].assertions : Holds(run.pipe.test[n].assertions[i], Input(run, n))

(* A successful run ran every node, each on all that its upstream nodes    *)
(* left, and every test of severity error held on its whole input; the     *)
(* stored results of a run that succeeded or failed are those of every     *)
(* test that was given a batch, say what the data says, and show a row     *)
(* that a failed assertion found.                                          *)
TestsGuard(run) ==
  /\ run.outcome = "success" =>
       /\ Done(run) = DOMAIN run.pipe.kind
       /\ \A n \in NodesOf(run, "test") : run.pipe.test[n].severity = "error" => AllHold(run, n)
  /\ \A i \in DOMAIN run.keptResults :
       LET result == run.keptResults[i]
       IN /\ result.passed <=> AllHold(run, result.node)
          /\ \A v \in Range(result.verdicts) : ~v.passed => v.count = 0 \/ v.shown # <<>>
  /\ run.row \in {"success", "failed"} /\ "results" \notin run.lost =>
       {run.keptResults[i].node : i \in DOMAIN run.keptResults} =
         {n \in NodesOf(run, "test") :
            /\ \E i \in DOMAIN run.stats : run.stats[i].node = n
            /\ GatherUpstream(run, n) # <<>>}

(* The report of a failed run is of the node that failed, and shows the    *)
(* first rows it was given out of all of them; nothing after that node     *)
(* ran, and no other run has a report.                                     *)
FailureIsDiagnosed(run) ==
  /\ run.row = "failed" =>
       /\ Failing(run)
       /\ "report" \notin run.lost => run.report # None
  /\ run.report # None =>
       LET bad == Last(run.stats)
       IN /\ bad.error /\ run.report.node = bad.node
          /\ bad.node \notin Done(run)
          /\ run.report.total = bad.in
          /\ run.report.sample \o SubSeq(Input(run, bad.node), SampleLimit + 1, bad.in) =
               Input(run, bad.node)

EventsOf(r, events) == {e \in events : e.run = r /\ e.type # "START"}

(* A run has at most one final event, of the type of its row unless that   *)
(* write was lost. A COMPLETE lists each resource read and written, with   *)
(* the schema of the rows; what a FAIL lists without one was not written.  *)
EventsAgree(r) ==
  LET run == rrRuns[r]
      final == EventsOf(r, rrTasks \cup rrReceived)
      type == [success |-> "COMPLETE", failed |-> "FAIL", cancelled |-> "ABORT"]
  IN /\ Cardinality(final) <= 1
     /\ \A e \in final :
          /\ "finish" \in run.lost \/ (run.row \in DOMAIN type /\ e.type = type[run.row])
          /\ e.type = "COMPLETE" =>
               /\ \A d \in e.inputs \cup e.outputs : d.schema # None
               /\ {d.id : d \in e.inputs} = {ParseFingerprint(run.pipe.fp[n]) : n \in NodesOf(run, "source")}
               /\ Cardinality({d.id : d \in e.outputs}) =
                    Cardinality({run.pipe.fp[n] : n \in NodesOf(run, "sink")})
          /\ e.type = "FAIL" =>
               \A n \in NodesOf(run, "sink") :
                 (\E d \in e.outputs : d.id = ParseFingerprint(run.pipe.fp[n]) /\ d.schema = None) =>
                   n \notin Done(run)

With(outcome) ==
  Cardinality({r \in DOMAIN rrRuns : rrRuns[r].live /\ rrRuns[r].told /\ rrRuns[r].outcome = outcome})

(* The counters of a process account for its runs: a node that was started *)
(* completed or failed, unless the secret of it was missing.               *)
CountersBalance ==
  /\ rrCounters.started = rrCounters.completed + rrCounters.failed + With("secret")
  /\ rrCounters.runsCompleted = With("success")
  /\ rrCounters.runsFailed = With("failed")

(* What a run reports agrees with what it did (executor.rs,                *)
(* test_assertion.rs, failure_report.rs, openlineage.rs, metrics.rs).      *)
ReportsAgree ==
  /\ \A r \in DOMAIN rrRuns :
       TestsGuard(rrRuns[r]) /\ FailureIsDiagnosed(rrRuns[r]) /\ EventsAgree(r)
  /\ CountersBalance
=============================================================================
