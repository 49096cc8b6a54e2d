------------------------------ MODULE Lineage -------------------------------
(***************************************************************************)
(* Cross-pipeline lineage: the resource bindings kept beside the pipeline  *)
(* definitions, the observations of runs, and the graph queries answered   *)
(* from both.                                                              *)
(*                                                                         *)
(* A create, an update and the end of a run over the API store the         *)
(* bindings of the definition they hold after the pipeline store has       *)
(* answered; a deletion removes them; a restored version leaves them.  The *)
(* table is rewritten with a DELETE and an INSERT per binding, without a   *)
(* transaction: SQLite holds a mutex meanwhile, PostgreSQL nothing.        *)
(***************************************************************************)
EXTENDS Absent, Integers, Sequences, FiniteSets, SequencesExt, Relation

CONSTANTS
  Pipelines,
  Definitions,   \* [env, reads, writes]: one source, one sink
  Handlers,      \* API requests and runs in progress
  MaxChanges,    \* bound: requests served
  Gone           \* a deleted pipeline: its id is not used again

VARIABLES
  store,         \* "sqlite" or "postgres"
  def,           \* pipeline -> its definition
  bindings,      \* the table pipeline_resource_bindings
  observations,  \* the table lineage_observations, without the run ids
  job,           \* handler -> the refresh it still has to do
  changes,       \* requests served
  lagging        \* ghost: pipelines whose bindings no refresh has settled

(* None is no definition yet, no job and no resource.                       *)
lineageVars == <<store, def, bindings, observations, job, changes, lagging>>

Exists(p) == def[p] \in Definitions
Idle(h) == job[h] = None
Busy(p) == {h \in Handlers : ~Idle(h) /\ job[h].pipe = p}

Binding(p, node, dir, d, fp) ==
  [pipe |-> p, node |-> node, dir |-> dir, fp |-> fp, env |-> d.env]

(* Connectors without a fingerprint take no part. *)
Bindings(p, d) ==
  (IF d.reads = None THEN {} ELSE {Binding(p, "in", "source", d, d.reads)})
  \cup (IF d.writes = None THEN {} ELSE {Binding(p, "out", "sink", d, d.writes)})

Init ==
  /\ store \in {"sqlite", "postgres"}
  /\ def = [p \in Pipelines |-> None]
  /\ bindings = {} /\ observations = {}
  /\ job = [h \in Handlers |-> None]
  /\ changes = 0
  /\ lagging = {}

-----------------------------------------------------------------------------
(* A request takes a pipeline; another one at work on it loses its claim   *)
(* to have the last word.                                                  *)
Take(h, p, d, step) ==
  /\ Idle(h) /\ changes < MaxChanges
  /\ changes' = changes + 1
  /\ lagging' = lagging \cup {p}
  /\ job' = [g \in Handlers |->
       IF g = h THEN [pipe |-> p, def |-> d, step |-> step, left |-> Bindings(p, d),
                      alone |-> Busy(p) = {}]
       ELSE IF g \in Busy(p) THEN [job[g] EXCEPT !.alone = FALSE] ELSE job[g]]

Done(h) ==
  /\ job' = [job EXCEPT ![h] = None]
  /\ lagging' = IF job[h].alone THEN lagging \ {job[h].pipe} ELSE lagging

(* create_pipeline and update_pipeline, up to the refresh. *)
PutPipeline(h, p, d) ==
  /\ def[p] # Gone
  /\ Take(h, p, d, "clear")
  /\ def' = [def EXCEPT ![p] = d]
  /\ UNCHANGED <<store, bindings, observations>>

(* run_pipeline reads the record once, at its start. *)
StartRun(h, p) ==
  /\ Exists(p)
  /\ Take(h, p, def[p], "run")
  /\ UNCHANGED <<store, def, bindings, observations>>

(* A node that completed is observed in the run's environment. *)
RecordObservation(h) ==
  /\ ~Idle(h) /\ job[h].step = "run"
  /\ \E b \in job[h].left \ observations : observations' = observations \cup {b}
  /\ UNCHANGED <<store, def, bindings, job, changes, lagging>>

(* The run succeeded: its bindings are refreshed, from the record it read. *)
EndRun(h) ==
  /\ ~Idle(h) /\ job[h].step = "run" /\ job[h].left \subseteq observations
  /\ job' = [job EXCEPT ![h].step = "clear"]
  /\ UNCHANGED <<store, def, bindings, observations, changes, lagging>>

(* It failed: nothing is refreshed. *)
FailRun(h) ==
  /\ ~Idle(h) /\ job[h].step = "run"
  /\ job' = [job EXCEPT ![h] = None]
  /\ UNCHANGED <<store, def, bindings, observations, changes, lagging>>

RestoreVersion(p, d) ==
  /\ Exists(p) /\ changes < MaxChanges
  /\ def' = [def EXCEPT ![p] = d]
  /\ changes' = changes + 1
  /\ lagging' = lagging \cup {p}
  /\ job' = [g \in Handlers |-> IF g \in Busy(p) THEN [job[g] EXCEPT !.alone = FALSE] ELSE job[g]]
  /\ UNCHANGED <<store, bindings, observations>>

DeletePipeline(h, p) ==
  /\ Exists(p)
  /\ Take(h, p, def[p], "delete")
  /\ def' = [def EXCEPT ![p] = Gone]
  /\ UNCHANGED <<store, bindings, observations>>

DeleteBindings(h) ==
  /\ ~Idle(h) /\ job[h].step = "delete"
  /\ bindings' = {b \in bindings : b.pipe # job[h].pipe}
  /\ Done(h)
  /\ UNCHANGED <<store, def, observations, changes>>

-----------------------------------------------------------------------------
(* save_bindings. *)
ClearedMutant(p, d) ==   \* the old rows of the pipeline stay
  bindings

Cleared(p, d) == {b \in bindings : ~(b.pipe = p /\ b.env = d.env)}

(* SQLite: the whole replacement under the connection's mutex. *)
SaveBindings(h) ==
  /\ store = "sqlite" /\ ~Idle(h) /\ job[h].step = "clear"
  /\ bindings' = Cleared(job[h].pipe, job[h].def) \cup job[h].left
  /\ Done(h)
  /\ UNCHANGED <<store, def, observations, changes>>

(* PostgreSQL: the DELETE ... *)
ClearBindings(h) ==
  /\ store = "postgres" /\ ~Idle(h) /\ job[h].step = "clear"
  /\ bindings' = Cleared(job[h].pipe, job[h].def)
  /\ job' = [job EXCEPT ![h].step = "insert"]
  /\ UNCHANGED <<store, def, observations, changes, lagging>>

Conflicts(b) ==
  \E c \in bindings : c.pipe = b.pipe /\ c.node = b.node /\ c.env = b.env

(* ... and an INSERT per binding; one that meets a row of another saver    *)
(* fails and ends the save.                                                *)
InsertBinding(h) ==
  /\ ~Idle(h) /\ job[h].step = "insert"
  /\ \E b \in job[h].left :
       \/ /\ ~Conflicts(b)
          /\ bindings' = bindings \cup {b}
          /\ job' = [job EXCEPT ![h].left = @ \ {b}]
          /\ UNCHANGED lagging
       \/ /\ Conflicts(b)
          /\ Done(h)
          /\ UNCHANGED bindings
  /\ UNCHANGED <<store, def, observations, changes>>

EndSave(h) ==
  /\ ~Idle(h) /\ job[h].step = "insert" /\ job[h].left = {}
  /\ Done(h)
  /\ UNCHANGED <<store, def, bindings, observations, changes>>

(* The process dies, in SQLite perhaps between two statements. *)
Die ==
  /\ \E h \in Handlers : ~Idle(h)
  /\ job' = [h \in Handlers |-> None]
  /\ \/ UNCHANGED bindings
     \/ /\ store = "sqlite"
        /\ \E h \in Handlers : ~Idle(h) /\ job[h].step = "clear" /\
             \E part \in SUBSET job[h].left :
               bindings' = Cleared(job[h].pipe, job[h].def) \cup part
  /\ UNCHANGED <<store, def, observations, changes, lagging>>

Serve(h, p) ==
  \/ \E d \in Definitions : PutPipeline(h, p, d)
  \/ StartRun(h, p) \/ DeletePipeline(h, p)

Continue(h) ==
  \/ RecordObservation(h) \/ EndRun(h) \/ FailRun(h) \/ DeleteBindings(h)
  \/ SaveBindings(h) \/ ClearBindings(h) \/ InsertBinding(h) \/ EndSave(h)

(* Definitions put and their bindings saved, nothing else. *)
Save ==
  \E h \in Handlers :
    \/ SaveBindings(h)
    \/ \E p \in Pipelines, d \in Definitions : PutPipeline(h, p, d)

Next ==
  \/ \E h \in Handlers : Continue(h) \/ \E p \in Pipelines : Serve(h, p)
  \/ \E p \in Pipelines, d \in Definitions : RestoreVersion(p, d)
  \/ Die

(* The jobs there are, and what keeps them apart from having none.          *)
AllBindings == UNION {Bindings(p, d) : p \in Pipelines, d \in Definitions}

Jobs ==
  [pipe : Pipelines, def : Definitions, step : {"run", "clear", "insert", "delete"},
   left : SUBSET AllBindings, alone : BOOLEAN]

Distinct ==
  /\ None # Gone /\ None \notin Definitions /\ Gone \notin Definitions
  /\ None \notin Jobs

LineageSpec == Init /\ [][Next]_lineageVars

-----------------------------------------------------------------------------
(* The graph of one environment. *)
Bound(env) == {b \in bindings : b.env = env}

(* Edges go from the sinks of a resource to its sources. *)
Edges(bs) ==
  {[up |-> e[1].pipe, down |-> e[2].pipe, upNode |-> e[1].node, downNode |-> e[2].node] :
     e \in {x \in bs \X bs : /\ x[1].dir = "sink" /\ x[2].dir = "source"
                             /\ x[1].fp = x[2].fp}}

(* Observed edges count where no static edge joins the same two nodes. *)
Graph(env) == Edges(Bound(env)) \cup Edges({o \in observations : o.env = env})

Ids(edges) == {e.up : e \in edges} \cup {e.down : e \in edges}
UpstreamOf(edges, p) == {e.up : e \in {x \in edges : x.down = p}}
DownstreamOf(edges, p) == {e.down : e \in {x \in edges : x.up = p}}

(* Breadth-first, until nothing is added; p itself only on a cycle. *)
AllUpstream(edges, p) ==
  LET found[n \in 0..Cardinality(Pipelines)] ==
        IF n = 0 THEN UpstreamOf(edges, p)
        ELSE found[n - 1] \cup UNION {UpstreamOf(edges, q) : q \in found[n - 1]}
  IN found[Cardinality(Pipelines)]

AllDownstream(edges, p) ==
  LET found[n \in 0..Cardinality(Pipelines)] ==
        IF n = 0 THEN DownstreamOf(edges, p)
        ELSE found[n - 1] \cup UNION {DownstreamOf(edges, q) : q \in found[n - 1]}
  IN found[Cardinality(Pipelines)]

(* Kahn's algorithm: a pipeline whose upstream pipelines have all been     *)
(* taken joins the queue; pipelines freed together join in some order.     *)
Freed(edges, order, p) ==
  {q \in DownstreamOf(edges, p) : UpstreamOf(edges, q) \subseteq ToSet(order)}

Kahn(edges) ==
  LET step[n \in 0..Cardinality(Pipelines)] ==
        IF n = 0
        THEN [order |-> <<>>, queue |-> SetToSeq({p \in Ids(edges) : UpstreamOf(edges, p) = {}})]
        ELSE LET s == step[n - 1]
                 order == Append(s.order, Head(s.queue))
             IN IF s.queue = <<>> THEN s
                ELSE [order |-> order,
                      queue |-> Tail(s.queue) \o SetToSeq(Freed(edges, order, Head(s.queue)))]
  IN step[Cardinality(Pipelines)].order

TopologicalSort(edges) ==
  [ok |-> Len(Kahn(edges)) = Cardinality(Ids(edges)), order |-> Kahn(edges)]

(* What Kahn's algorithm leaves, in components: a component starts at any  *)
(* pipeline not seen yet and takes what is downstream of it.               *)
Leftover(edges) == Ids(edges) \ ToSet(Kahn(edges))

Within(edges, left) == {e \in edges : e.up \in left /\ e.down \in left}

DetectCycles(edges) ==
  LET inside == Within(edges, Leftover(edges))
      walk[left \in SUBSET Leftover(edges)] ==
        IF left = {} THEN {}
        ELSE LET p == CHOOSE q \in left : TRUE
                 component == left \cap ({p} \cup AllDownstream(Within(inside, left), p))
             IN {component} \cup walk[left \ component]
  IN walk[Leftover(edges)]

DanglingSources(bs) ==
  {b \in bs : b.dir = "source" /\ ~\E s \in bs : s.dir = "sink" /\ s.fp = b.fp}

OrphanedSinks(bs) ==
  {b \in bs : b.dir = "sink" /\ ~\E s \in bs : s.dir = "source" /\ s.fp = b.fp}

(* The catalog's view: the resources bound, each with those who write and  *)
(* read it, observations filling in for nodes without a binding.           *)
Supplement(env) ==
  {o \in observations : /\ o.env = env
                        /\ ~\E b \in Bound(env) : b.pipe = o.pipe /\ b.node = o.node}

Discovered(env) ==
  LET bs == Bound(env) \cup Supplement(env)
  IN [fp \in {b.fp : b \in bs} |->
        [producers |-> {b.pipe : b \in {x \in bs : x.fp = fp /\ x.dir = "sink"}},
         consumers |-> {b.pipe : b \in {x \in bs : x.fp = fp /\ x.dir = "source"}}]]

(* The API's answers about one environment. *)
LineageGraph(env) == [pipelines |-> Ids(Graph(env)), edges |-> Graph(env), bindings |-> Bound(env)]

Upstream(env, p) ==
  [direct |-> UpstreamOf(Graph(env), p), transitive |-> AllUpstream(Graph(env), p)]

Downstream(env, p) ==
  [direct |-> DownstreamOf(Graph(env), p), transitive |-> AllDownstream(Graph(env), p)]

Impact(env, p) == AllDownstream(Graph(env), p)

Cycles(env) == DetectCycles(Graph(env))

Orphans(env) == DanglingSources(Bound(env)) \cup OrphanedSinks(Bound(env))

(* The command line's: no observations, and pipelines that exist only. *)
CliGraph(env) == Edges(Bound(env))

CliUpstream(env, p) == IF Exists(p) THEN AllUpstream(CliGraph(env), p) ELSE {}

CliDownstream(env, p) == IF Exists(p) THEN AllDownstream(CliGraph(env), p) ELSE {}

CliImpact(env, p) ==
  [q \in CliDownstream(env, p) |->
     IF q \in DownstreamOf(CliGraph(env), p) THEN "direct" ELSE "transitive"]

CliCycles(env) == DetectCycles(CliGraph(env))

CliOrphans(env) == DanglingSources(Bound(env)) \cup OrphanedSinks(Bound(env))

-----------------------------------------------------------------------------
(* Where the last change to a pipeline was an API request or a run that    *)
(* overlapped no other one on that pipeline, ended, and was not followed   *)
(* by a restored version, its bindings are those of its definition, and a  *)
(* deleted pipeline has none.                                              *)
BindingsSettle ==
  \A p \in Pipelines \ lagging :
    {b \in bindings : b.pipe = p /\ (Exists(p) => b.env = def[p].env)} =
      IF Exists(p) THEN Bindings(p, def[p]) ELSE {}

Feeds(edges) ==
  TransitiveClosure([p, q \in Pipelines |-> q \in DownstreamOf(edges, p)], Pipelines)

(* Every pipeline that feeds itself is in one reported component, and none *)
(* is reported where none does.                                            *)
CyclesReported(components, looped) ==
  /\ looped \subseteq UNION components
  /\ looped = {} => components = {}
  /\ \A c, d \in components : c # d => c \cap d = {}

(* The answers about one environment, against the transitive closure of    *)
(* the edges: who is upstream or downstream of whom, that an order exists  *)
(* just when no pipeline feeds itself and then goes forward, that cycles   *)
(* are reported, that exactly the bindings without a partner dangle, and   *)
(* that the command line says nothing the API would not.                   *)
GraphAnswers(env) ==
  LET feeds == Feeds(Graph(env))
      shown == Feeds(CliGraph(env))
      sorted == TopologicalSort(Graph(env))
      looped == {p \in Pipelines : feeds[p, p]}
  IN /\ \A p \in Pipelines :
          /\ Upstream(env, p).transitive = {q \in Pipelines : feeds[q, p]}
          /\ Downstream(env, p).transitive = {q \in Pipelines : feeds[p, q]}
          /\ \A q \in Downstream(env, p).direct : p \in Upstream(env, q).direct
          /\ DOMAIN CliImpact(env, p) \subseteq Impact(env, p)
          /\ CliUpstream(env, p) \subseteq {q \in Pipelines : shown[q, p]}
          /\ \A q \in DOMAIN CliImpact(env, p) :
               CliImpact(env, p)[q] = "transitive" =>
                 \E r \in DOMAIN CliImpact(env, p) : shown[r, q] /\ r # q
     /\ sorted.ok <=> looped = {}
     /\ \A i, j \in DOMAIN sorted.order : feeds[sorted.order[i], sorted.order[j]] => i < j
     /\ CyclesReported(Cycles(env), looped)
     /\ CyclesReported(CliCycles(env), {p \in Pipelines : shown[p, p]})
     /\ \A b \in LineageGraph(env).bindings :
          b \in Orphans(env) <=>
            IF b.dir = "source" THEN UpstreamOf(CliGraph(env), b.pipe) = {}
            ELSE DownstreamOf(CliGraph(env), b.pipe) = {}
     /\ CliOrphans(env) = Orphans(env)
     /\ Supplement(env) = {} =>
          \A fp \in DOMAIN Discovered(env) : \A p \in Discovered(env)[fp].producers :
            Discovered(env)[fp].consumers \subseteq Downstream(env, p).direct

Envs == {d.env : d \in Definitions}

LineageAnswers == BindingsSettle /\ \A env \in Envs : GraphAnswers(env)
=============================================================================
