----------------------------- MODULE ScanPushdown ---------------------------
(***************************************************************************)
(* The PostgreSQL source: a query's filters are translated to SQL as far   *)
(* as they go, PostgreSQL applies those to the column as it is stored, and *)
(* the engine applies every filter again to the rows it gets, in which the *)
(* column is cast to a type of its own.  A row is the value of its column. *)
(***************************************************************************)
EXTENDS Integers, FiniteSets, Sequences

CONSTANTS Vals, \* values of the column
          None  \* NULL, and no translation

VARIABLES
  scanColumn, \* "plain", "enum" or "json"
  scanMode,   \* "table" or "query"
  scanFilter, \* the filters of the query, a conjunction of expressions
  scanLimit,  \* the limit of the scan, or None
  scanAnswer  \* how the query ended, and the rows it gave

scanVars == <<scanColumn, scanMode, scanFilter, scanLimit, scanAnswer>>

Cmp(op, v) == [op |-> op, v |-> v]
Unary(op, e) == [op |-> op, e |-> e]
Binary(op, l, r) == [op |-> op, l |-> l, r |-> r]

(* "call" stands for an expression without a translation. *)
Atoms == [op : {"=", "<", "distinct", "call"}, v : Vals \cup {None}] \cup [op : {"is null"}, v : {None}]
Compound(es) ==
  [op : {"not", "is true"}, e : es] \cup [op : {"and", "or"}, l : es, r : es]
Nested == [op : {"not", "is true"}, e : Compound(Atoms)]

Init ==
  /\ scanColumn \in {"plain", "enum", "json"}
  /\ scanMode \in {"table", "query"}
  /\ scanFilter \in {{}} \cup {{e} : e \in Atoms \cup Compound(Atoms) \cup Nested} \cup
       {{[op |-> "<", v |-> 2], e} : e \in Atoms}
  /\ scanLimit \in IF scanFilter = {} THEN {None, 1} ELSE {None}
  /\ scanAnswer = [end |-> "none", rows |-> {}]

-----------------------------------------------------------------------------
(* Three-valued logic: TRUE, FALSE and None. *)
Truth(b) == IF b THEN "t" ELSE "f"
Not(a) == CASE a = "t" -> "f" [] a = "f" -> "t" [] OTHER -> "u"
And(a, b) == IF "f" \in {a, b} THEN "f" ELSE IF "u" \in {a, b} THEN "u" ELSE "t"
Or(a, b) == Not(And(Not(a), Not(b)))

(* The engine orders the values it gets.  PostgreSQL orders the labels of an  *)
(* enum as they were declared, here the other way round; so it may a text     *)
(* under its collation.                                                       *)
Stored == IF scanColumn = "enum" THEN "declared" ELSE "by value"
Less(x, y, order) == IF order = "declared" THEN y < x ELSE x < y

(* What an expression says of a value x, under an order of the values. *)
RECURSIVE Holds(_, _, _)
Holds(e, x, order) ==
  CASE e.op = "is null" -> Truth(x = None)
    [] e.op = "distinct" -> Truth(x # e.v)
    [] e.op \in {"=", "<", "call"} /\ (x = None \/ e.v = None) -> "u"
    [] e.op = "=" -> Truth(x = e.v)
    [] e.op = "<" -> Truth(Less(x, e.v, order))
    [] e.op = "call" -> Truth(x + e.v = 1)
    [] e.op = "not" -> Not(Holds(e.e, x, order))
    [] e.op = "is true" -> Truth(Holds(e.e, x, order) = "t")
    [] e.op = "and" -> And(Holds(e.l, x, order), Holds(e.r, x, order))
    [] OTHER -> Or(Holds(e.l, x, order), Holds(e.r, x, order))

(* It refuses to compare a json value, and an enum with what is no label.     *)
Labels == IF scanColumn = "enum" THEN Vals \ {2} ELSE Vals
Comparable(v) == scanColumn # "json" /\ v \in Labels \cup {None}

RECURSIVE Accepted(_)
Accepted(e) ==
  CASE e.op \in {"=", "<", "distinct"} -> Comparable(e.v)
    [] e.op \in {"not", "is true"} -> Accepted(e.e)
    [] e.op \in {"and", "or"} -> Accepted(e.l) /\ Accepted(e.r)
    [] OTHER -> TRUE

(* The expression PostgreSQL is asked to apply: all of it, or nothing. *)
RECURSIVE ExprToSqlMutant(_)
ExprToSqlMutant(e) ==  \* of a conjunction or a disjunction, the side that translates
  CASE e.op = "call" -> None
    [] e.op \in {"not", "is true"} ->
         LET s == ExprToSqlMutant(e.e) IN IF s = None THEN None ELSE Unary(e.op, s)
    [] e.op \in {"and", "or"} ->
         LET l == ExprToSqlMutant(e.l)
             r == ExprToSqlMutant(e.r) IN
         IF l = None THEN r ELSE IF r = None THEN l ELSE Binary(e.op, l, r)
    [] OTHER -> e

RECURSIVE ExprToSql(_)
ExprToSql(e) ==
  CASE e.op = "call" -> None
    [] e.op \in {"not", "is true"} ->
         LET s == ExprToSql(e.e) IN IF s = None THEN None ELSE Unary(e.op, s)
    [] e.op \in {"and", "or"} ->
         LET l == ExprToSql(e.l)
             r == ExprToSql(e.r) IN
         IF l = None \/ r = None THEN None ELSE Binary(e.op, l, r)
    [] OTHER -> e

Pushed(e) == scanMode = "table" /\ ExprToSql(e) # None

(* Filters that are not supported are not handed to the scan. *)
BuildQuery == {ExprToSql(e) : e \in {f \in scanFilter : Pushed(f)}}

Rows == Labels \cup {None}
Satisfy(rows, filters, order) == {x \in rows : \A e \in filters : Holds(e, x, order) = "t"}

Limited(rows, limit) ==
  IF limit = None THEN {rows} ELSE {s \in SUBSET rows : Cardinality(s) = limit}

Scan ==
  /\ scanAnswer.end = "none"
  /\ IF \A e \in BuildQuery : Accepted(e)
     THEN \E fetched \in Limited(Satisfy(Rows, BuildQuery, Stored), scanLimit) :
            scanAnswer' = [end |-> "ok", rows |-> Satisfy(fetched, scanFilter, "by value")]
     ELSE scanAnswer' = [end |-> "failed", rows |-> {}]
  /\ UNCHANGED <<scanColumn, scanMode, scanFilter, scanLimit>>

Next == Scan

-----------------------------------------------------------------------------
(* A query gives the rows that satisfy its filters, or as many of them as the *)
(* limit says.                                                                *)
Answers ==
  /\ scanAnswer.end = "ok"
  /\ IF scanLimit = None THEN scanAnswer.rows = Satisfy(Rows, scanFilter, "by value")
     ELSE scanAnswer.rows \subseteq Rows /\ Cardinality(scanAnswer.rows) = scanLimit

(* Pushing filters and limits to PostgreSQL never changes what a query gives, *)
(* where the column is compared in both as it is stored, and nowhere if none  *)
(* is pushed.  Elsewhere a query may fail or lose rows; it gives none that a  *)
(* filter excludes.                                                           *)
PushdownIsSound ==
  /\ scanAnswer.rows \subseteq Satisfy(Rows, scanFilter, "by value")
  /\ scanAnswer.end # "none" /\ (scanColumn = "plain" \/ BuildQuery = {}) => Answers
=============================================================================
