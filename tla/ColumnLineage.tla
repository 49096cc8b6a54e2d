--------------------------- MODULE ColumnLineage ---------------------------
(***************************************************************************)
(* Column-level lineage: the edges a run stores for each node it executed, *)
(* and the traces the API and the command line answer from them.           *)
(*                                                                         *)
(* A pipeline is a source "in", a transform "fn" and a sink "out".  Each   *)
(* save replaces the rows of the node it is about, row by row and outside  *)
(* a transaction: under the connection's mutex in SQLite, open to other    *)
(* runs in PostgreSQL.                                                     *)
(***************************************************************************)
EXTENDS Absent, Integers

CONSTANTS
  Runs,          \* the runs, which identify the rows they wrote
  Reads, Writes, \* pipeline -> the resource its source reads, its sink writes
  Fold,          \* column spelling -> canonical name
  Inputs,        \* the sets of columns a source may yield
  EdgeNotes      \* the sets of edges [up, down] a transform may be annotated with

VARIABLES
  colStore,      \* "sqlite" or "postgres"
  colRows,       \* the table column_lineage_edges
  colRun,        \* run -> what it still has to save
  colSaved,      \* ghost: pipeline and node -> the rows of its last save
  colLoose       \* ghost: the pipelines two runs have worked on at once

columnVars == <<colStore, colRows, colRun, colSaved, colLoose>>

Pipes == DOMAIN Reads
Columns == DOMAIN Fold
Nodes == {"in", "fn", "out"}
Unknown == "__unknown__"

ColumnInit ==
  /\ colStore \in {"sqlite", "postgres"}
  /\ colRows = {}
  /\ colRun = [r \in Runs |-> None]
  /\ colSaved = [x \in Pipes \X Nodes |-> {}]
  /\ colLoose = {}

-----------------------------------------------------------------------------
(* The edges of one node. *)
Edge(node, from, up, down, kind, conf) ==
  [node |-> node, col |-> down, downRes |-> None, from |-> from, upCol |-> up,
   upRes |-> None, kind |-> kind, conf |-> conf]

SourceBoundary(p, cols) ==
  {[Edge("in", None, c, c, "direct", "exact") EXCEPT !.upRes = Reads[p]] : c \in cols}

SinkBoundary(p, cols) ==
  {[Edge("out", "fn", c, c, "direct", "exact") EXCEPT !.downRes = Writes[p]] : c \in cols}

(* A passthrough, as the walk of the logical plan reports it. *)
Exact(cols) == {Edge("fn", "in", c, c, "direct", "exact") : c \in cols}

Opaque(ins, outs) ==
  {Edge("fn", "in", e[1], e[2], "opaque", "opaque") : e \in ins \X outs}

(* Annotated columns that no input has keep an edge, from no node. *)
AnnotatedEdges(cols, annotations) ==
  {Edge("fn", IF a.up \in cols THEN "in" ELSE None, a.up, a.down, "derived", "annotation") :
     a \in annotations}

(* An annotation outranks what the engine would derive. *)
Derived(mode, cols, annotations) ==
  IF annotations # {} THEN AnnotatedEdges(cols, annotations)
  ELSE IF mode = "sql" THEN Exact(cols) ELSE Opaque(cols, cols)

Boundary(fp, edges) == IF fp = None THEN {} ELSE edges

EdgesOf(run, node) ==
  CASE node = "in" -> Boundary(Reads[run.pipe], SourceBoundary(run.pipe, run.cols))
    [] node = "fn" -> Derived(run.mode, run.cols, run.notes)
    [] node = "out" -> Boundary(Writes[run.pipe], SinkBoundary(run.pipe, run.cols))

-----------------------------------------------------------------------------
(* The nodes save their edges as they complete. *)
Underway(r) == colRun[r] # None /\ colRun[r].node # None
Over(r) == colRun' = [colRun EXCEPT ![r].node = None, ![r].left = None]
Peers(r, p) == {q \in Runs \ {r} : Underway(q) /\ colRun[q].pipe = p}
Following(node) == IF node = "in" THEN "fn" ELSE IF node = "fn" THEN "out" ELSE None

StartColumnRun(r, p, cols, mode, notes) ==
  /\ colRun[r] = None
  /\ colRun' = [colRun EXCEPT ![r] = [pipe |-> p, cols |-> cols, mode |-> mode, notes |-> notes,
                                      node |-> "in", left |-> None]]
  /\ colLoose' = IF Peers(r, p) # {} THEN colLoose \cup {p} ELSE colLoose
  /\ UNCHANGED <<colStore, colRows, colSaved>>

RowsOf(p, node) == {x \in colRows : x.pipe = p /\ x.node = node}

(* The rows of a save: its edges, marked with the pipeline and the run. *)
Marked(r, run) ==
  {[x \in DOMAIN e \cup {"pipe", "run"} |->
      IF x = "pipe" THEN run.pipe ELSE IF x = "run" THEN r ELSE e[x]] :
     e \in EdgesOf(run, run.node)}

Saving(r) == Marked(r, colRun[r])

ReplacedMutant(p, node, rows) ==   \* the earlier rows of the node stay
  {}

(* A save without edges names no node and deletes nothing. *)
Replaced(p, node, rows) == IF rows = {} THEN {} ELSE RowsOf(p, node)

Advance(r) ==
  /\ colRun' = [colRun EXCEPT ![r].node = Following(@), ![r].left = None]
  /\ colSaved' = [colSaved EXCEPT ![<<colRun[r].pipe, colRun[r].node>>] =
       IF Saving(r) = {} THEN @ ELSE Saving(r)]

(* SQLite: the whole replacement under the mutex. *)
SaveEdges(r) ==
  /\ colStore = "sqlite" /\ Underway(r)
  /\ colRows' = (colRows \ Replaced(colRun[r].pipe, colRun[r].node, Saving(r))) \cup Saving(r)
  /\ Advance(r)
  /\ UNCHANGED <<colStore, colLoose>>

(* PostgreSQL: the DELETE, then the rows one by one. *)
DeleteEdges(r) ==
  /\ colStore = "postgres" /\ Underway(r) /\ colRun[r].left = None
  /\ colRows' = colRows \ Replaced(colRun[r].pipe, colRun[r].node, Saving(r))
  /\ colRun' = [colRun EXCEPT ![r].left = Saving(r)]
  /\ UNCHANGED <<colStore, colSaved, colLoose>>

InsertEdge(r) ==
  /\ Underway(r) /\ colRun[r].left # None /\ colRun[r].left # {}
  /\ \E x \in colRun[r].left :
       /\ colRows' = colRows \cup {x}
       /\ colRun' = [colRun EXCEPT ![r].left = @ \ {x}]
  /\ UNCHANGED <<colStore, colSaved, colLoose>>

EndEdges(r) ==
  /\ Underway(r) /\ colRun[r].left = {}
  /\ Advance(r)
  /\ UNCHANGED <<colStore, colRows, colLoose>>

(* The run fails, ... *)
Fail(r) ==
  /\ Underway(r)
  /\ colLoose' = IF colRun[r].left = None THEN colLoose ELSE colLoose \cup {colRun[r].pipe}
  /\ Over(r)
  /\ UNCHANGED <<colStore, colRows, colSaved>>

(* ... or the process dies between two statements of a save. *)
DieInSave(r) ==
  /\ colStore = "sqlite" /\ Underway(r)
  /\ \E part \in SUBSET Saving(r) :
       colRows' = (colRows \ Replaced(colRun[r].pipe, colRun[r].node, Saving(r))) \cup part
  /\ colLoose' = colLoose \cup {colRun[r].pipe}
  /\ Over(r)
  /\ UNCHANGED <<colStore, colSaved>>

Begin(r) ==
  \E p \in Pipes, cols \in Inputs, mode \in {"sql", "python"}, notes \in EdgeNotes :
    StartColumnRun(r, p, cols, mode, notes)

(* Runs one after the other, on SQLite. *)
Sequence ==
  \E r \in Runs : (\A q \in Runs \ {r} : ~Underway(q)) /\ (Begin(r) \/ SaveEdges(r) \/ Fail(r))

ColumnNext ==
  \E r \in Runs :
    \/ Begin(r) \/ SaveEdges(r) \/ DeleteEdges(r) \/ InsertEdge(r) \/ EndEdges(r)
    \/ Fail(r) \/ DieInSave(r)

ColumnSpec == ColumnInit /\ [][ColumnNext]_columnVars

(* Absence is no node, no run and nothing that a save has left to insert.  *)
AtNode == [pipe : Pipes, cols : Inputs, mode : {"sql", "python"}, notes : EdgeNotes, node : Nodes]

EdgeRows == UNION {Marked(r, run) : r \in Runs, run \in AtNode}

ColumnRuns ==
  [pipe : Pipes, cols : Inputs, mode : {"sql", "python"}, notes : EdgeNotes,
   node : Nodes \cup {None}, left : (SUBSET EdgeRows) \cup {None}]

ColumnsDistinct ==
  /\ None \notin Nodes /\ None \notin ColumnRuns
  /\ \A r \in Runs, run \in AtNode : \A left \in SUBSET Marked(r, run) : left # None

-----------------------------------------------------------------------------
(* The graph: rows as arcs between column keys, and arcs from a sink's     *)
(* column to the same column of a source that reads the resource.  Only    *)
(* rows that name a node on the resource's side count as a boundary.       *)
Key(p, node, col) == [pipe |-> p, node |-> IF node = None THEN Unknown ELSE node, col |-> col]
DownKey(x) == Key(x.pipe, x.node, x.col)
UpKey(x) == Key(x.pipe, x.from, x.upCol)

SinkColumns == {x \in colRows : x.downRes # None}
SourceColumns == {x \in colRows : x.upRes # None /\ x.from # None}

CrossArcs ==
  {[up |-> DownKey(e[1]), down |-> Key(e[2].pipe, e[2].from, e[1].col),
    kind |-> "direct", conf |-> "exact"] :
     e \in {x \in SinkColumns \X SourceColumns :
              /\ x[1].downRes = x[2].upRes /\ Fold[x[1].col] = Fold[x[2].upCol]
              /\ <<x[1].pipe, x[1].node>> # <<x[2].pipe, x[2].from>>}}

Arcs ==
  {[up |-> UpKey(x), down |-> DownKey(x), kind |-> x.kind, conf |-> x.conf] : x \in colRows}
  \cup CrossArcs

Keys(arcs) == {a.up : a \in arcs} \cup {a.down : a \in arcs}

ResolveByFingerprint(fp, col) ==
  {DownKey(x) : x \in {y \in colRows : y.downRes = fp /\ Fold[y.col] = Fold[col]}}
  \cup {UpKey(x) : x \in {y \in colRows : y.upRes = fp /\ Fold[y.upCol] = Fold[col]}}

(* An empty filter lets everything through. *)
Follows(opts, a) ==
  /\ opts.kinds = {} \/ a.kind \in opts.kinds
  /\ opts.confs = {} \/ a.conf \in opts.confs

Near(way, a) == IF way = "up" THEN a.down ELSE a.up
Far(way, a) == IF way = "up" THEN a.up ELSE a.down

(* Breadth-first: the keys at each distance, and the arcs seen from those  *)
(* nearer than the limit.  A key taken from the queue at the limit marks   *)
(* the trace as truncated.                                                 *)
Trace(arcs, start, way, opts) ==
  LET allowed == {a \in arcs : Follows(opts, a)}
      Leaving(keys) == {a \in allowed : Near(way, a) \in keys}
      queue[n \in 0..opts.depth] ==
        IF n = 0 THEN [at |-> {start}, visited |-> {start}, edges |-> {}]
        ELSE LET q == queue[n - 1]
                 seen == {Far(way, a) : a \in Leaving(q.at)}
             IN [at |-> seen \ q.visited, visited |-> q.visited \cup seen,
                 edges |-> q.edges \cup {[arc |-> a, depth |-> n] : a \in Leaving(q.at)}]
      end == queue[opts.depth]
  IN [edges |-> end.edges, truncated |-> end.at # {}]

(* The traces of every key of a boundary column, put together. *)
Merged(traces) ==
  [edges |-> UNION {t.edges : t \in traces}, truncated |-> \E t \in traces : t.truncated]

ColumnUpstream(fp, col, opts) ==
  Merged({Trace(Arcs, k, "up", opts) : k \in ResolveByFingerprint(fp, col)})

ColumnDownstream(fp, col, opts) ==
  Merged({Trace(Arcs, k, "down", opts) : k \in ResolveByFingerprint(fp, col)})

ColumnImpact(fp, col, opts) ==
  {e.arc.down.pipe : e \in ColumnDownstream(fp, col, opts).edges}

ColumnSearch(col) == {k \in Keys(Arcs) : Fold[k.col] = Fold[col]}

(* The command line: one trace for either way, impact without filters. *)
CliTrace(fp, col, way, opts) ==
  Merged({Trace(Arcs, k, way, opts) : k \in ResolveByFingerprint(fp, col)})

CliColumnImpact(fp, col, opts) ==
  LET found == CliTrace(fp, col, "down", [opts EXCEPT !.kinds = {}, !.confs = {}]).edges
  IN [p \in {e.arc.down.pipe : e \in found} |->
        {[key |-> e.arc.down, direct |-> e.depth = 1] : e \in {x \in found : x.arc.down.pipe = p}}]

-----------------------------------------------------------------------------
(* Where no two runs of a pipeline overlapped and none stopped inside a    *)
(* save, each node has the rows of the last save that had any, unmixed.    *)
RowsOfOneSave ==
  \A p \in Pipes \ colLoose, node \in Nodes :
    (\A r \in Runs : Underway(r) => colRun[r].pipe # p \/ colRun[r].node # node \/ colRun[r].left = None)
      => RowsOf(p, node) = colSaved[<<p, node>>]

Options ==
  {[depth |-> n, kinds |-> {}, confs |-> {}] : n \in 0..4}
  \cup {[depth |-> 4, kinds |-> {"direct"}, confs |-> {}],
        [depth |-> 4, kinds |-> {}, confs |-> {"exact", "annotation"}]}

(* A trace leads from its start arc by arc, and one that is not marked as  *)
(* truncated is closed: no arc the filters let through leaves it.  It is   *)
(* marked only where it got as far as the limit.  And what lies upstream   *)
(* of a column has that column downstream.                                 *)
TracesAreComplete(opts) ==
  LET arcs == Arcs
      keys == Keys(arcs)
      trace == [x \in keys \X {"up", "down"} |-> Trace(arcs, x[1], x[2], opts)]
      Found(k, way) == {Far(way, e.arc) : e \in trace[<<k, way>>].edges}
  IN \A k \in keys :
       /\ \A way \in {"up", "down"} :
            LET t == trace[<<k, way>>]
                reached == Found(k, way) \cup {k}
            IN /\ ~t.truncated =>
                    \A a \in arcs : Follows(opts, a) /\ Near(way, a) \in reached =>
                      \E e \in t.edges : e.arc = a
               /\ t.truncated => opts.depth = 0 \/ \E e \in t.edges : e.depth = opts.depth
               /\ \A e \in t.edges :
                    /\ Follows(opts, e.arc)
                    /\ IF e.depth = 1 THEN Near(way, e.arc) = k
                       ELSE \E f \in t.edges :
                              f.depth = e.depth - 1 /\ Far(way, f.arc) = Near(way, e.arc)
       /\ ~trace[<<k, "up">>].truncated => \A l \in Found(k, "up") :
            ~trace[<<l, "down">>].truncated => k \in Found(l, "down")

(* What is asked by resource and column: the command line and the API give *)
(* one answer, and the search finds what a resource resolves to.           *)
Written == {Writes[p] : p \in Pipes} \ {None}

AnswersAgree(opts) ==
  \A fp \in Written, col \in Columns :
    /\ DOMAIN CliColumnImpact(fp, col, opts) = ColumnImpact(fp, col, [opts EXCEPT !.kinds = {}, !.confs = {}])
    /\ CliTrace(fp, col, "up", opts) = ColumnUpstream(fp, col, opts)

SearchFinds == \A fp \in Written, col \in Columns : ResolveByFingerprint(fp, col) \subseteq ColumnSearch(col)

(* The questions are asked while no run is under way. *)
ColumnAnswers ==
  /\ RowsOfOneSave
  /\ (\A r \in Runs : ~Underway(r)) =>
       SearchFinds /\ \A opts \in Options : TracesAreComplete(opts) /\ AnswersAgree(opts)
=============================================================================
