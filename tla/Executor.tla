----------------------------- MODULE Executor ------------------------------
(***************************************************************************)
(* Runs of one pipeline in one environment: PipelineExecutor::execute of   *)
(* armillary-datafusion/src/executor.rs with the pre-pass of               *)
(* incremental_coordinator.rs, the watermarks of watermark.rs and the      *)
(* pipeline_runs and incremental_state tables of run_store.rs.             *)
(*                                                                         *)
(* Nothing keeps two runs of a pipeline apart, so runs interleave at every *)
(* call of a store or a connector; a run may also vanish at any of them,   *)
(* when the process dies or the HTTP client goes away and the handler is   *)
(* dropped (armillary-server/src/api/pipelines.rs).  Transforms and tests  *)
(* pass rows on unchanged, or fail; rows are told apart by key and by the  *)
(* value of their watermark column.                                        *)
(***************************************************************************)
EXTENDS Integers, FiniteSets

CONSTANTS
  Runs,         \* calls of PipelineExecutor::execute
  Sources,      \* source nodes
  Sinks,        \* sink nodes
  Incremental,  \* sinks with read_mode incremental, the others read in full
  From,         \* From[t]: the sources upstream of sink t
  Rows,         \* the rows that sources may hold, by key
  SourceOf,     \* SourceOf[x]: the source that row x belongs to
  Lookback,     \* Lookback[t]: the lookback of an incremental sink
  FailsFirst,   \* incremental sinks with first_run: fail
  Shown,        \* Shown[m]: where the stored string of m stands among strings
  Late,         \* how much older than the newest row a row may arrive
  MaxMark,      \* bound: watermark values
  MaxFaults     \* bound: lost writes, vanished runs and resets

ASSUME ExecutorAssumption ==
  /\ IsFiniteSet(Sinks)
  /\ MaxMark \in Nat /\ Late \in Nat /\ MaxFaults \in Nat
  /\ Incremental \subseteq Sinks /\ FailsFirst \subseteq Incremental
  /\ From \in [Sinks -> SUBSET Sources] /\ \A t \in Sinks : From[t] # {}
  /\ SourceOf \in [Rows -> Sources]
  /\ Lookback \in [Incremental -> Nat] /\ \A t \in Incremental : Late <= Lookback[t]
  /\ Shown \in [1..MaxMark -> Nat]
  /\ \A m, n \in 1..MaxMark : Shown[m] = Shown[n] => m = n
  /\ Sources \cap Sinks = {}

VARIABLES
  version,  \* the watermark of each row in its source, 0 if there is none
  target,   \* target[t][x]: the version of x that sink t holds under merge
  mark,     \* incremental_state: the stored watermark of each sink, 0 if none
  status,   \* pipeline_runs: the status column
  run,      \* the local state of each run
  told,     \* the status in the RunCompleted event of each run, or "none"
  faults,
  seen,     \* history: the newest version of x that sink t was ever given
  overlap   \* history: two runs were active at the same time

sinkVars == <<target, seen>>
vars == <<version, target, mark, status, run, told, faults, seen, overlap>>

Marks == 0..MaxMark
Nodes == Sources \cup Sinks
Ends == {"success", "failed", "cancelled"}

Modes == {"plain", "bootstrap", "refresh"}  \* bootstrap_incremental, full_refresh

RunType ==
  [pc       : {"idle", "load", "begin", "node", "save", "finish", "announce", "done", "gone"},
   mode     : Modes,
   plan     : [Incremental -> Marks],  \* the states that build_plans loaded
   todo     : SUBSET Nodes,          \* sinks to load, then nodes to execute
   written  : SUBSET Incremental,    \* the sink whose state is to be saved
   read     : [Rows -> Marks],       \* outputs of the sources, 0 for no row
   verdict  : Ends]

TypeOK ==
  /\ version \in [Rows -> Marks]
  /\ target \in [Sinks -> [Rows -> Marks]] /\ seen \in [Sinks -> [Rows -> Marks]]
  /\ mark \in [Incremental -> Marks]
  /\ status \in [Runs -> {"none", "pending", "running"} \cup Ends]
  /\ run \in [Runs -> RunType]
  /\ told \in [Runs -> {"none"} \cup Ends]
  /\ faults \in 0..MaxFaults /\ overlap \in BOOLEAN

NewRun ==
  [pc |-> "idle", mode |-> "plain",
   plan |-> [t \in Incremental |-> 0], todo |-> {}, written |-> {},
   read |-> [x \in Rows |-> 0], verdict |-> "success"]

Init ==
  /\ version = [x \in Rows |-> 0]
  /\ target = [t \in Sinks |-> [x \in Rows |-> 0]] /\ seen = target
  /\ mark = [t \in Incremental |-> 0]
  /\ status = [r \in Runs |-> "none"]
  /\ run = [r \in Runs |-> NewRun]
  /\ told = [r \in Runs |-> "none"]
  /\ faults = 0 /\ overlap = FALSE

Active(r) == run[r].pc \notin {"idle", "done", "gone"}
Feed == [t \in Sinks |-> {x \in Rows : SourceOf[x] \in From[t]}]
Newest(S, f) == CHOOSE m \in {f[x] : x \in S} : \A x \in S : f[x] <= m
Newer(m, n) == IF m < n THEN n ELSE m

\* A write whose error is only logged or dropped may be lost.
MayBeLost(written, lost) ==
  \/ written /\ UNCHANGED faults
  \/ lost /\ faults < MaxFaults /\ faults' = faults + 1

-----------------------------------------------------------------------------
(* The pre-pass: build_plans *)

\* The value a source's filter starts from: the least stored string of the
\* sinks that share the source, and nothing as soon as one of them has none.
Least(S, m) == CHOOSE v \in {m[t] : t \in S} : \A t \in S : Shown[v] <= Shown[m[t]]
WidestMutant(S) == 0  \* the lookback is not applied
Widest(S) == CHOOSE n \in {Lookback[t] : t \in S} : \A t \in S : Lookback[t] <= n

\* Rows strictly after this value pass; every version is after 0.
FilterMutant(s, m) == \* a sink without state does not count
  LET S == {t \in Incremental : s \in From[t] /\ m[t] # 0}
  IN  IF S = {} THEN 0 ELSE Least(S, m) - Widest(S)

Filter(s, m) ==
  LET S == {t \in Incremental : s \in From[t]}
  IN  IF S = {} \/ \E t \in S : m[t] = 0 THEN 0 ELSE Least(S, m) - Widest(S)

Start(r, mode) ==
  /\ run[r].pc = "idle"
  /\ run' = [run EXCEPT ![r] = [NewRun EXCEPT !.pc = "load", !.mode = mode,
                                              !.todo = Incremental]]
  /\ overlap' = (overlap \/ \E q \in Runs : Active(q))
  /\ UNCHANGED <<version, sinkVars, mark, status, told, faults>>

\* execute returns, or vanishes, and with it go its local variables.
Leave(r, how) == run' = [run EXCEPT ![r] = [NewRun EXCEPT !.pc = how]]

LoadState(r) ==
  /\ run[r].pc = "load"
  /\ \E t \in run[r].todo :
       IF mark[t] = 0 /\ t \in FailsFirst /\ run[r].mode = "plain"
       THEN Leave(r, "done")
       ELSE run' = [run EXCEPT ![r].plan[t] = mark[t], ![r].todo = @ \ {t}]
  /\ UNCHANGED <<version, sinkVars, mark, status, told, faults, overlap>>

\* An invalid plan or a store that fails: execute returns before there is a row.
Refuse(r) ==
  /\ run[r].pc = "load"
  /\ Leave(r, "done")
  /\ UNCHANGED <<version, sinkVars, mark, status, told, faults, overlap>>

CreateRun(r) ==
  /\ run[r].pc = "load" /\ run[r].todo = {}
  /\ status' = [status EXCEPT ![r] = "pending"]
  /\ run' = [run EXCEPT ![r].pc = "begin"]
  /\ UNCHANGED <<version, sinkVars, mark, told, faults, overlap>>

SetRunning(r) ==
  /\ run[r].pc = "begin"
  /\ run' = [run EXCEPT ![r].pc = "node", ![r].todo = Nodes]
  /\ MayBeLost(status' = [status EXCEPT ![r] = "running"], UNCHANGED status)
  /\ UNCHANGED <<version, sinkVars, mark, told, overlap>>

-----------------------------------------------------------------------------
(* The nodes: topological_sort queues all sources before any other node     *)

Ready(r) ==
  LET todo == run[r].todo
  IN  IF todo \cap Sources # {} THEN todo \cap Sources ELSE todo

\* What is still needed of the run's local variables after its last node.
Ending(r, verdict) ==
  run' = [run EXCEPT ![r] = [NewRun EXCEPT !.pc = "finish", !.verdict = verdict]]

\* The cancel flag, which the backfill coordinator may set at any time, is read
\* before each node and not after the last one.
StopIfCancelled(r) ==
  /\ run[r].pc = "node" /\ run[r].todo # {}
  /\ Ending(r, "cancelled")
  /\ UNCHANGED <<version, sinkVars, mark, status, told, faults, overlap>>

\* One scan of the source, behind the filter of the sinks that share it; a full
\* refresh has no filter.
ReadSource(r, s) ==
  LET after == IF run[r].mode = "refresh" THEN 0 ELSE Filter(s, run[r].plan)
  IN  /\ run[r].pc = "node" /\ s \in Ready(r)
      /\ run' = [run EXCEPT
           ![r].todo = @ \ {s},
           ![r].read = [x \in Rows |->
              IF SourceOf[x] = s
              THEN IF version[x] > after THEN version[x] ELSE 0
              ELSE @[x]]]
      /\ UNCHANGED <<version, sinkVars, mark, status, told, faults, overlap>>

\* A source, a transform, a test, a schema change or a sink write fails.
NodeFailsMutant(r) == \* a write that fails is logged, and the state saved
  /\ run[r].pc = "node" /\ run[r].todo # {}
  /\ \E t \in Ready(r) \cap Incremental :
       run' = [run EXCEPT ![r].pc = "save", ![r].written = {t}, ![r].todo = @ \ {t}]
  /\ UNCHANGED <<version, sinkVars, mark, status, told, faults, overlap>>

NodeFails(r) ==
  /\ run[r].pc = "node" /\ run[r].todo # {}
  /\ Ending(r, "failed")
  /\ UNCHANGED <<version, sinkVars, mark, status, told, faults, overlap>>

\* A secret that does not resolve makes execute return at once.
SecretMissing(r) ==
  /\ run[r].pc = "node" /\ run[r].todo # {}
  /\ Leave(r, "done")
  /\ UNCHANGED <<version, sinkVars, mark, status, told, faults, overlap>>

Batch(r, t) == {x \in Feed[t] : run[r].read[x] > 0}

Give(r, t) ==
  /\ run[r].pc = "node" /\ t \in Ready(r) \cap Sinks
  /\ target' = [target EXCEPT ![t] = [x \in Rows |->
                   IF x \in Batch(r, t) THEN run[r].read[x] ELSE @[x]]]
  /\ seen' = [seen EXCEPT ![t] = [x \in Rows |->
                   IF x \in Batch(r, t) THEN Newer(run[r].read[x], @[x]) ELSE @[x]]]
  /\ UNCHANGED <<version, mark, status, told, faults, overlap>>

WriteSink(r, t) ==
  /\ Give(r, t)
  /\ run' = [run EXCEPT ![r].todo = @ \ {t},
                        ![r].pc = IF t \in Incremental THEN "save" ELSE "node",
                        ![r].written = {t} \cap Incremental]

\* The target has committed, but the sink reports an error: a lost answer.
WriteUnknown(r, t) ==
  /\ Give(r, t)
  /\ Ending(r, "failed")

\* The newest watermark of the batch, or the loaded one if the batch is empty;
\* there is nothing to save on a first run without rows.
Advanced(r, t) ==
  IF Batch(r, t) = {} THEN run[r].plan[t] ELSE Newest(Batch(r, t), run[r].read)

SaveState(r) ==
  \E t \in run[r].written :
    /\ run[r].pc = "save"
    /\ run' = [run EXCEPT ![r].pc = "node", ![r].written = {}]
    /\ IF Advanced(r, t) = 0
       THEN UNCHANGED <<mark, faults>>
       ELSE MayBeLost(mark' = [mark EXCEPT ![t] = Advanced(r, t)], UNCHANGED mark)
    /\ UNCHANGED <<version, sinkVars, status, told, overlap>>

-----------------------------------------------------------------------------
(* The end of a run *)

CompleteMutant(r) == \* a node whose upstream has no rows ends the run
  /\ run[r].pc = "node" /\ run[r].todo \subseteq Sinks
  /\ run' = [run EXCEPT ![r] = [NewRun EXCEPT !.pc = "finish", !.read = run[r].read]]
  /\ UNCHANGED <<version, sinkVars, mark, status, told, faults, overlap>>

Complete(r) ==
  /\ run[r].pc = "node" /\ run[r].todo = {}
  /\ run' = [run EXCEPT ![r] = [NewRun EXCEPT !.pc = "finish", !.read = run[r].read]]
  /\ UNCHANGED <<version, sinkVars, mark, status, told, faults, overlap>>

Finish(r) ==
  /\ run[r].pc = "finish"
  /\ run' = [run EXCEPT ![r].pc = "announce"]
  /\ MayBeLost(status' = [status EXCEPT ![r] = run[r].verdict], UNCHANGED status)
  /\ UNCHANGED <<version, sinkVars, mark, told, overlap>>

AnnounceMutant(r) == \* the event is sent before finish_run
  /\ run[r].pc \in {"finish", "announce"}
  /\ told' = [told EXCEPT ![r] = run[r].verdict]
  /\ IF run[r].pc = "announce" THEN Leave(r, "done") ELSE UNCHANGED run
  /\ UNCHANGED <<version, sinkVars, mark, status, faults, overlap>>

Announce(r) ==
  /\ run[r].pc = "announce"
  /\ told' = [told EXCEPT ![r] = run[r].verdict]
  /\ Leave(r, "done")
  /\ UNCHANGED <<version, sinkVars, mark, status, faults, overlap>>

Vanish(r) ==
  /\ Active(r) /\ faults < MaxFaults
  /\ Leave(r, "gone")
  /\ faults' = faults + 1
  /\ UNCHANGED <<version, sinkVars, mark, status, told, overlap>>

-----------------------------------------------------------------------------
(* Around the runs *)

\* `armillary incremental reset`.
Reset(t) ==
  /\ mark[t] # 0 /\ faults < MaxFaults
  /\ mark' = [mark EXCEPT ![t] = 0]
  /\ faults' = faults + 1
  /\ UNCHANGED <<version, sinkVars, status, run, told, overlap>>

\* A row appears in its source or is updated, less than Late behind the newest.
Arrive(x, m) ==
  /\ m > version[x]
  /\ \A y \in Rows : m > version[y] - Late
  /\ version' = [version EXCEPT ![x] = m]
  /\ UNCHANGED <<sinkVars, mark, status, run, told, faults, overlap>>

RunStep(r) ==
  \/ LoadState(r) \/ Refuse(r) \/ CreateRun(r) \/ SetRunning(r)
  \/ StopIfCancelled(r) \/ NodeFails(r) \/ SecretMissing(r)
  \/ \E s \in Sources : ReadSource(r, s)
  \/ \E t \in Sinks : WriteSink(r, t) \/ WriteUnknown(r, t)
  \/ SaveState(r) \/ Complete(r) \/ Finish(r) \/ Announce(r)

Next ==
  \/ \E r \in Runs : (\E mode \in Modes : Start(r, mode)) \/ RunStep(r) \/ Vanish(r)
  \/ \E t \in Incremental : Reset(t)
  \/ \E x \in Rows, m \in Marks : Arrive(x, m)

Spec == Init /\ [][Next]_vars

-----------------------------------------------------------------------------
(* Properties *)

Promise == INSTANCE Delivery WITH
  Sinks <- Incremental,
  seen <- [t \in Incremental |-> seen[t]]

\* Incremental sinks get every row at least once: each step of any number of
\* runs, crashes, lost writes and resets is one that Delivery allows.
AtLeastOnce == Promise!Spec

\* Whatever a sink has not been given in its newest version, the next run will
\* read: neither the filter of its own state nor that of the sinks it shares a
\* source with is past it.
NoRowLost ==
  \A t \in Sinks : \A x \in Feed[t] :
    version[x] > seen[t][x] => version[x] > Filter(SourceOf[x], mark)

\* The target of a merge is never stale behind the filter, as long as runs do
\* not overlap (when they do, the older of two may write last).
MergedIsCurrent ==
  ~overlap =>
    \A t \in Sinks : \A x \in Feed[t] :
      version[x] > target[t][x] => version[x] > Filter(SourceOf[x], mark)

\* A run is recorded as a success only if every sink has all it has read.
SuccessDelivered ==
  \A r \in Runs : (status[r] = "success" /\ run[r].pc = "announce") =>
    \A t \in Sinks : \A x \in Feed[t] : run[r].read[x] <= seen[t][x]

\* Who hears RunCompleted finds the same status in the run's row, unless a write
\* was lost: the event never comes first.
ToldIsRecorded ==
  faults = 0 => \A r \in Runs : told[r] # "none" => told[r] = status[r]

-----------------------------------------------------------------------------
(* What the documentation says and the code does not do *)

\* ReadMode::Full: "Read everything upstream every run."  The source of a full
\* sink is read without a filter, whoever else reads it.
FullReadsEverything ==
  [][\A r \in Runs, t \in Sinks \ Incremental : \A s \in From[t] :
       (s \in run[r].todo \ run'[r].todo /\ run'[r].pc = "node") =>
         \A x \in Rows : SourceOf[x] = s => run'[r].read[x] = version[x]]_vars
=============================================================================
