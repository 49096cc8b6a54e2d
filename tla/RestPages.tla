------------------------------ MODULE RestPages -----------------------------
(***************************************************************************)
(* The REST source: all pages of a resource are fetched, with retries,     *)
(* while the server's rows change, and become one table whose types are    *)
(* inferred.  The server is external: it orders rows by id, and a cursor   *)
(* or a next link stands for the last id of its page.                      *)
(***************************************************************************)
EXTENDS Integers, FiniteSets, SequencesExt

CONSTANTS Ids,        \* ids of rows, naturals
          ValOf,      \* the value of each row: None, or [kind, n]
          Limit,      \* rows in a page
          MaxRetries,
          MaxChanges, \* bound on the changes of the server's rows during the fetch
          None

VARIABLES
  restCfg,    \* paging, most pages, how the server writes cursors, the declared type
  restServer, \* ids of the rows the server has
  restFetch,  \* the fetch: requests and rows so far
  restAlways, \* ids the server had during the whole fetch
  restOnce,   \* ids it had at some moment of it
  restShifts, \* did rows move to another offset?
  restChanges

restVars == <<restCfg, restServer, restFetch, restAlways, restOnce, restShifts, restChanges>>

Init ==
  /\ restCfg \in [paging : {"none", "offset", "cursor", "link"}, maxPages : {2, 4},
                  cursor : {"string", "number"}, type : {None, "float", "int32"}]
  /\ restCfg.paging # "cursor" => restCfg.cursor = "string"
  /\ restServer \in {Ids \ {i} : i \in Ids} \cup {{}}
  /\ restFetch = [step |-> "request", offset |-> 0, cursor |-> None, pages |-> 0, attempt |-> 0,
                  rows |-> <<>>, vals |-> <<>>, capped |-> FALSE]
  /\ restAlways = restServer /\ restOnce = restServer
  /\ restShifts = FALSE /\ restChanges = 0

-----------------------------------------------------------------------------
Sorted(ids) == SetToSortSeq(ids, LAMBDA a, b : a < b)

(* What the server answers now. *)
Page ==
  LET all == Sorted(restServer)
      rest == IF restFetch.cursor = None THEN all
              ELSE SelectSeq(all, LAMBDA i : i > restFetch.cursor)
      from == IF restCfg.paging = "offset" THEN restFetch.offset ELSE 0
      to == IF from + Limit < Len(rest) THEN from + Limit ELSE Len(rest) IN
  IF restCfg.paging = "none" THEN all ELSE SubSeq(rest, from + 1, to)

NextLink(page) ==
  IF page # <<>> /\ (\E i \in restServer : i > page[Len(page)]) THEN page[Len(page)] ELSE None

(* A cursor that is not a JSON string counts as none. *)
NextCursor(page) ==
  IF restCfg.paging \in {"cursor", "link"} /\ restCfg.cursor = "string" THEN NextLink(page) ELSE None

MoreMutant(page, fetch) ==  \* a full page counts as the last one
  CASE restCfg.paging = "none" -> FALSE
    [] restCfg.paging = "offset" -> Len(page) > Limit
    [] OTHER -> fetch.cursor # None

More(page, fetch) ==
  CASE restCfg.paging = "none" -> FALSE
    [] restCfg.paging = "offset" -> Len(page) >= Limit
    [] OTHER -> fetch.cursor # None

AddPage(page) ==
  LET f == [restFetch EXCEPT !.rows = @ \o page, !.pages = @ + 1, !.attempt = 0,
                             !.offset = @ + Len(page), !.cursor = NextCursor(page)]
      capped == f.pages >= restCfg.maxPages IN
  IF More(page, f)
  THEN [f EXCEPT !.step = IF capped THEN "build" ELSE "request", !.capped = capped]
  ELSE [f EXCEPT !.step = "build"]

At(step) == restFetch.step = step
Same == UNCHANGED <<restCfg, restServer, restAlways, restOnce, restShifts, restChanges>>

FetchPage == At("request") /\ restFetch' = AddPage(Page) /\ Same

(* 429, a server error, a timeout or a refused connection. *)
Retry ==
  /\ At("request")
  /\ restFetch' = IF restFetch.attempt < MaxRetries THEN [restFetch EXCEPT !.attempt = @ + 1]
                  ELSE [restFetch EXCEPT !.step = "failed", !.rows = <<>>]
  /\ Same

(* Another status, or a body that does not parse: every page fetched is dropped. *)
Reject ==
  At("request") /\ restFetch' = [restFetch EXCEPT !.step = "failed", !.rows = <<>>] /\ Same

-----------------------------------------------------------------------------
(* The type of a column is that of its first value; other values are coerced. *)
InferSchema(rows) ==
  IF restCfg.type # None THEN restCfg.type
  ELSE LET vals == SelectSeq(rows, LAMBDA i : ValOf[i] # None) IN
       IF vals = <<>> THEN "utf8" ELSE ValOf[vals[1]].kind

BuildColumn(v, type) ==
  IF v = None \/ type = "utf8" \/ (type = "float" /\ v.kind = "int") \/ v.kind = type THEN v
  ELSE IF type = "int" /\ v.kind = "float" THEN [kind |-> "int", n |-> (v.n \div 10) * 10]
  ELSE None

(* A declared type other than the four that are inferred is read as text, *)
(* which then does not fit the column.                                    *)
Fits(rows, type) == rows = <<>> \/ type \in {"bool", "int", "float", "utf8"}

BuildTable ==
  /\ At("build")
  /\ LET rows == restFetch.rows
         type == InferSchema(rows) IN
     restFetch' = IF Fits(rows, type)
       THEN [restFetch EXCEPT !.step = "done",
               !.vals = [j \in 1..Len(rows) |-> BuildColumn(ValOf[rows[j]], type)]]
       ELSE [restFetch EXCEPT !.step = "failed", !.rows = <<>>]
  /\ Same

(* The server's rows change between two requests. *)
Change(i) ==
  /\ At("request") /\ restChanges < MaxChanges
  /\ restServer' = IF i \in restServer THEN restServer \ {i} ELSE restServer \cup {i}
  /\ restAlways' = restAlways \ {i}
  /\ restOnce' = restOnce \cup {i}
  /\ restShifts' = (restShifts \/ i \in restServer \/ \E k \in restServer : k > i)
  /\ restChanges' = restChanges + 1
  /\ UNCHANGED <<restCfg, restFetch>>

Next == FetchPage \/ Retry \/ Reject \/ BuildTable \/ \E i \in Ids : Change(i)

-----------------------------------------------------------------------------
Copies(i) == Cardinality({j \in 1..Len(restFetch.rows) : restFetch.rows[j] = i})
Followable == restCfg.paging # "cursor" \/ restCfg.cursor = "string"
Kinds == {ValOf[i].kind : i \in {k \in restOnce : ValOf[k] # None}}

(* A fetch that ends within its page limit has each row the server had all along *)
(* exactly once, though rows came and went between the requests; with offsets,   *)
(* as long as no row moved.  No row is invented, whatever the limit.             *)
FetchIsComplete ==
  At("done") =>
    /\ \A j \in 1..Len(restFetch.rows) : restFetch.rows[j] \in restOnce
    /\ ~restFetch.capped /\ Followable /\ (restCfg.paging = "offset" => ~restShifts) =>
         \A i \in restAlways : Copies(i) = 1
    /\ restCfg.paging # "offset" => \A i \in Ids : Copies(i) <= 1

(* A column whose values have one type, or the declared one, arrives unchanged. *)
ValuesArrive ==
  At("done") /\ (IF restCfg.type = None THEN Cardinality(Kinds) <= 1 ELSE Kinds \subseteq {"int", "float"}) =>
    \A j \in 1..Len(restFetch.rows) : restFetch.vals[j] = ValOf[restFetch.rows[j]]

(* What the source gives is complete and unchanged.                              *)
SourceIsComplete == FetchIsComplete /\ ValuesArrive
=============================================================================
