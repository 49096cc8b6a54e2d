---------------------------- MODULE PlanLineage -----------------------------
(***************************************************************************)
(* The walk of a SQL transform's logical plan that derives its column      *)
(* lineage: which upstream columns each output column comes from, and how. *)
(*                                                                         *)
(* The walk is bottom-up, so a behaviour builds a query from its tables    *)
(* outwards and applies the clause of each plan node as it is put on top:  *)
(* FROM, WHERE, GROUP BY, window functions, SELECT, then DISTINCT, ORDER   *)
(* BY or LIMIT, a UNION, or a sub-query's alias.  The walk keeps a map by  *)
(* column NAME; beside it the model follows the values by POSITION.        *)
(* Scalar sub-queries are left out.                                        *)
(***************************************************************************)
EXTENDS Integers, Sequences, FiniteSets

CONSTANTS
  Tables,    \* table, an upstream node -> the sequence of its columns
  MaxNodes,  \* bound: plan nodes
  None       \* no qualifier, no upstream node

VARIABLES
  planStage,   \* which clause the query has reached
  planNodes,   \* plan nodes so far
  planFields,  \* the schema: a sequence of [q, name]
  planMap,     \* the walk's result: name -> set of references [table, col, kind]
  planFlow,    \* ghost, by position: the columns whose values flow in
  planGates    \* ghost: the columns that predicates looked at

planVars == <<planStage, planNodes, planFields, planMap, planFlow, planGates>>

(* A name is a sequence: a column, a qualified one, or an expression's.    *)
Field(q, name) == [q |-> q, name |-> name]
Ref(table, col, kind) == [table |-> table, col |-> col, kind |-> kind]
Qualified(f) == IF f.q = None THEN f.name ELSE <<f.q>> \o f.name

Scan(t) == [i \in DOMAIN Tables[t] |-> Field(t, <<Tables[t][i]>>)]

WalkScan(t) ==
  [n \in {<<Tables[t][i]>> : i \in DOMAIN Tables[t]} |-> {Ref(t, n[1], "direct")}]

Init ==
  /\ planStage = "from" /\ planNodes = 1
  /\ \E t \in DOMAIN Tables :
       /\ planFields = Scan(t) /\ planMap = WalkScan(t)
       /\ planFlow = [i \in DOMAIN Tables[t] |-> {<<t, Tables[t][i]>>}]
  /\ planGates = {}

-----------------------------------------------------------------------------
(* The unqualified name first, the qualified one next. *)
ResolveColumn(map, f) ==
  IF f.name \in DOMAIN map THEN f.name ELSE Qualified(f)

Upstream(map, f) ==
  IF ResolveColumn(map, f) \in DOMAIN map THEN map[ResolveColumn(map, f)] ELSE {}

AsKind(refs, kind) == {[r EXCEPT !.kind = kind] : r \in refs}

(* An expression is a form over fields: a bare column, a cast of one, or a *)
(* computation.  A passthrough keeps the kind below it.                    *)
ClassifyExpr(e) == IF e.form = "column" THEN "direct" ELSE IF e.form = "cast" THEN "cast" ELSE "derived"

Missing(map, f, kind) ==
  IF ResolveColumn(map, f) \in DOMAIN map THEN {} ELSE {Ref(f.q, f.name, kind)}

ExprRefs(map, e) ==
  UNION {(IF ClassifyExpr(e) = "direct" THEN Upstream(map, f)
          ELSE AsKind(Upstream(map, f), ClassifyExpr(e))) \cup Missing(map, f, ClassifyExpr(e)) :
           f \in e.of}

(* The output names of a projection differ from each other. *)
WalkProjection(map, names, exprs) ==
  [n \in {names[i] : i \in DOMAIN names} |->
     ExprRefs(map, exprs[CHOOSE i \in DOMAIN names : names[i] = n])]

WalkFilter(map, f) ==
  [n \in DOMAIN map |-> map[n] \cup AsKind(Upstream(map, f), "filter")]

JoinKind(n, keys) == IF n \in keys THEN "join_key" ELSE "join_passthrough"

WalkJoin(left, right, keys) ==
  [n \in DOMAIN left \cup DOMAIN right |->
     AsKind((IF n \in DOMAIN left THEN left[n] ELSE {})
            \cup (IF n \in DOMAIN right THEN right[n] ELSE {}), JoinKind(n, keys))]

Sum(f) == <<"sum">> \o Qualified(f)

WalkAggregate(map, key, arg) ==
  [n \in {Qualified(key), Sum(arg)} |->
     IF n = Qualified(key) THEN AsKind(Upstream(map, key), "group_by")
     ELSE AsKind(Upstream(map, arg), "aggregate_input")]

Over(f, g) == <<"over">> \o Qualified(f) \o Qualified(g)

WindowKind(f, partition) == IF f = partition THEN "window_partition" ELSE "window_input"

WalkWindow(map, arg, partition) ==
  [n \in DOMAIN map \cup {Over(arg, partition)} |->
     IF n \in DOMAIN map THEN map[n]
     ELSE UNION {AsKind(Upstream(map, f), WindowKind(f, partition)) : f \in {arg, partition}}]

WalkUnionMutant(map, fields, other, otherFields) ==   \* the second input is looked up by name
  [n \in {fields[i].name : i \in DOMAIN fields} |->
     map[n] \cup (IF n \in DOMAIN other THEN other[n] ELSE {})]

(* Columns merge by position under the first input's names. *)
WalkUnion(map, fields, other, otherFields) ==
  [n \in {fields[i].name : i \in DOMAIN fields} |->
     UNION {map[fields[i].name] \cup other[otherFields[i].name] :
              i \in {j \in DOMAIN fields : fields[j].name = n}}]

-----------------------------------------------------------------------------
(* Where the values come from, by position. *)
Values(f) == UNION {planFlow[i] : i \in {j \in DOMAIN planFields : planFields[j] = f}}
Present == {planFields[i] : i \in DOMAIN planFields}

Grow(stage, fields, map, flow) ==
  /\ planNodes < MaxNodes /\ planNodes' = planNodes + 1
  /\ planStage' = stage /\ planFields' = fields /\ planMap' = map /\ planFlow' = flow

Join(t) ==
  /\ planStage = "from" /\ \A f \in Present : f.q # t
  /\ \E l \in Present, r \in {Scan(t)[i] : i \in DOMAIN Scan(t)} :
       Grow("from", planFields \o Scan(t), WalkJoin(planMap, WalkScan(t), {l.name, r.name}),
            planFlow \o [i \in DOMAIN Tables[t] |-> {<<t, Tables[t][i]>>}])
  /\ UNCHANGED planGates

Where ==
  /\ planStage \in {"from", "grouped"}
  /\ \E f \in Present :
       /\ Grow(IF planStage = "from" THEN "where" ELSE "having", planFields,
               WalkFilter(planMap, f), planFlow)
       /\ planGates' = planGates \cup Values(f)

GroupBy ==
  /\ planStage \in {"from", "where"}
  /\ \E key, arg \in Present :
       Grow("grouped", <<key, Field(None, Sum(arg))>>, WalkAggregate(planMap, key, arg),
            <<Values(key), Values(arg)>>)
  /\ UNCHANGED planGates

Window ==
  /\ planStage # "windowed" /\ planStage # "selected"
  /\ \E arg, partition \in Present :
       Grow("windowed", Append(planFields, Field(None, Over(arg, partition))),
            WalkWindow(planMap, arg, partition),
            Append(planFlow, Values(arg) \cup Values(partition)))
  /\ UNCHANGED planGates

(* SELECT f AS x, g + h AS y. *)
Exprs(f, g, h, form) == <<[form |-> "column", of |-> {f}], [form |-> form, of |-> {g, h}]>>

Select ==
  /\ planStage # "selected"
  /\ \E f, g, h \in Present, names \in {<<<<"a">>, <<"b">>>>, <<<<"b">>, <<"a">>>>},
        form \in {"cast", "calc"} :
       /\ form = "cast" => g = h
       /\ Grow("selected", <<Field(None, names[1]), Field(None, names[2])>>,
               WalkProjection(planMap, names, Exprs(f, g, h, form)),
               <<Values(f), Values(g) \cup Values(h)>>)
  /\ UNCHANGED planGates

(* UNION ALL with SELECT a, b of a table that has two columns. *)
UnionAll(t) ==
  /\ planStage = "selected" /\ Len(planFields) = Len(Tables[t])
  /\ Grow("selected", planFields, WalkUnion(planMap, planFields, WalkScan(t), Scan(t)),
          [i \in DOMAIN planFlow |-> planFlow[i] \cup {<<t, Tables[t][i]>>}])
  /\ UNCHANGED planGates

(* A sub-query under an alias is the FROM of another query; DISTINCT, sort *)
(* and limit pass the map through in the same way.                         *)
Alias ==
  /\ planStage = "selected"
  /\ Grow("from", [i \in DOMAIN planFields |-> [planFields[i] EXCEPT !.q = "s"]], planMap, planFlow)
  /\ UNCHANGED planGates

PassThrough ==
  /\ planStage = "selected"
  /\ Grow("selected", planFields, planMap, planFlow)
  /\ UNCHANGED planGates

Next ==
  \/ \E t \in DOMAIN Tables : Join(t) \/ UnionAll(t)
  \/ Where \/ GroupBy \/ Window \/ Select \/ Alias \/ PassThrough

-----------------------------------------------------------------------------
(* The node's lineage: references to tables that are upstream nodes.       *)
DeriveColumnLineage ==
  UNION {{[down |-> n, up |-> r.col, kind |-> r.kind,
           node |-> IF r.table \in DOMAIN Tables THEN r.table ELSE None] : r \in planMap[n]} :
           n \in DOMAIN planMap}

(* Every upstream column whose values flow into an output column has an    *)
(* edge to it, by whatever route of joins, aggregates, renamed sub-queries *)
(* and unions, and so has every column a WHERE or HAVING looked at; and    *)
(* every edge comes from a column of an upstream node.                     *)
WalkIsSound ==
  planStage = "selected" =>
    /\ \A i \in DOMAIN planFields : \A v \in planFlow[i] :
         \E e \in DeriveColumnLineage :
           e.down = planFields[i].name /\ e.node = v[1] /\ e.up = v[2]
    /\ \A v \in planGates : \E e \in DeriveColumnLineage : e.node = v[1] /\ e.up = v[2]
    /\ \A e \in DeriveColumnLineage : e.node # None
=============================================================================
