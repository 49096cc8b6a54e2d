-------------------------- MODULE PgPipelineStore --------------------------
(***************************************************************************)
(* The PostgreSQL pipeline store: the definition is a column of the row,   *)
(* there is no mutex, and every statement of a request commits on its own, *)
(* on a connection of the pool.  A definition is told apart by the request *)
(* that wrote it.                                                          *)
(***************************************************************************)
EXTENDS PipelineIds, Integers, FiniteSets, FiniteSetsExt

CONSTANT PgRequests   \* 1..n

VARIABLES
  pgRow,      \* pgRow[p]: name and definition (its version and its writer)
  pgVersions, \* pgVersions[p]: snapshots, keyed by version number
  pgOp,       \* pgOp[r]: the statement a request is at
  pgTorn      \* ghost: pipelines a request left half done

pgVars == <<pgRow, pgVersions, pgOp, pgTorn>>

Waiting == [pc |-> "new", id |-> None, name |-> None, n |-> 0]
Done == [Waiting EXCEPT !.pc = "done"]

PgInit ==
  /\ pgRow = [p \in Pipelines |-> None] /\ pgVersions = [p \in Pipelines |-> {}]
  /\ pgOp = [r \in PgRequests |-> Waiting]
  /\ pgTorn = {}

NameTaken(name, p) == \E q \in Pipelines \ {p} : pgRow[q] # None /\ pgRow[q].name = name
Newest(p) == Max({v.n : v \in pgVersions[p]} \cup {0})
At(r, pc) == pgOp[r].pc = pc

(* PgRequests are numbered as they come in. *)
Arrives(r) == At(r, "new") /\ \A q \in PgRequests : q < r => ~At(q, "new")

Becomes(r, o) == pgOp' = [pgOp EXCEPT ![r] = o]

(* A pipeline id is the one of a request: nobody else knows it before the   *)
(* row is there.                                                            *)
Unused(p) == pgRow[p] = None /\ pgVersions[p] = {} /\ p \notin pgTorn
             /\ \A r \in PgRequests : pgOp[r].id # p

(* create: SELECT by name, then INSERT INTO pipelines.                      *)
BeginCreate(r, p, name) ==
  /\ Arrives(r) /\ Unused(p)
  /\ Becomes(r, IF NameTaken(name, p) THEN Done
                ELSE [pc |-> "insertRow", id |-> p, name |-> name, n |-> 1])
  /\ UNCHANGED <<pgRow, pgVersions, pgTorn>>

(* The unique index on the name decides a race of two requests.             *)
PgInsertRow(r) ==
  /\ At(r, "insertRow")
  /\ LET o == pgOp[r] IN
     IF NameTaken(o.name, o.id)
     THEN Becomes(r, Done) /\ UNCHANGED pgRow
     ELSE /\ pgRow' = [pgRow EXCEPT ![o.id] = [name |-> o.name, n |-> o.n, by |-> r]]
          /\ Becomes(r, [o EXCEPT !.pc = "insertVersion"])
  /\ UNCHANGED <<pgVersions, pgTorn>>

(* update: SELECT for a name conflict, SELECT MAX(version).  The two reads  *)
(* are one step: what is stale later is stale already.                      *)
BeginUpdate(r, p, name) ==
  /\ Arrives(r) /\ pgRow[p] # None /\ Newest(p) < MaxVersion
  /\ Becomes(r, IF NameTaken(name, p) THEN Done
                ELSE [pc |-> "updateRow", id |-> p, name |-> name,
                      n |-> IF Newest(p) > 0 THEN Newest(p) + 1 ELSE 2])
  /\ UNCHANGED <<pgRow, pgVersions, pgTorn>>

(* UPDATE pipelines SET name, definition; no row affected is NotFound.      *)
PgUpdateRow(r) ==
  /\ At(r, "updateRow")
  /\ LET o == pgOp[r] IN
     IF pgRow[o.id] = None \/ NameTaken(o.name, o.id)
     THEN Becomes(r, Done) /\ UNCHANGED pgRow
     ELSE /\ pgRow' = [pgRow EXCEPT ![o.id] = [name |-> o.name, n |-> o.n, by |-> r]]
          /\ Becomes(r, [o EXCEPT !.pc = "insertVersion"])
  /\ UNCHANGED <<pgVersions, pgTorn>>

(* INSERT INTO pipeline_versions: the number may be taken by now, and the   *)
(* request fails with its definition in place.                              *)
PgInsertVersionMutant(r) == \* one snapshot per pipeline: the key lacks the version
  /\ At(r, "insertVersion")
  /\ LET o == pgOp[r] IN
     pgVersions' = [pgVersions EXCEPT ![o.id] =
       IF @ # {} THEN @ ELSE @ \cup {[n |-> o.n, by |-> r]}]
  /\ Becomes(r, Done)
  /\ UNCHANGED <<pgRow, pgTorn>>
PgInsertVersion(r) ==
  /\ At(r, "insertVersion")
  /\ LET o == pgOp[r] IN
     pgVersions' = [pgVersions EXCEPT ![o.id] =
       IF \E v \in @ : v.n = o.n THEN @ ELSE @ \cup {[n |-> o.n, by |-> r]}]
  /\ Becomes(r, Done)
  /\ UNCHANGED <<pgRow, pgTorn>>

(* delete: the snapshots, then the row.                                     *)
BeginDelete(r, p) ==
  /\ Arrives(r) /\ pgRow[p] # None
  /\ pgVersions' = [pgVersions EXCEPT ![p] = {}]
  /\ Becomes(r, [Waiting EXCEPT !.pc = "deleteRow", !.id = p])
  /\ UNCHANGED <<pgRow, pgTorn>>

DeleteRow(r) ==
  /\ At(r, "deleteRow")
  /\ pgRow' = [pgRow EXCEPT ![pgOp[r].id] = None]
  /\ Becomes(r, Done)
  /\ UNCHANGED <<pgVersions, pgTorn>>

(* A statement fails for good, or the process ends: the rest is not done.   *)
BreakOff(r) ==
  /\ pgOp[r].pc \in {"insertRow", "updateRow", "insertVersion", "deleteRow"}
  /\ pgTorn' = pgTorn \cup {pgOp[r].id}
  /\ Becomes(r, Done)
  /\ UNCHANGED <<pgRow, pgVersions>>

PgNext ==
  \E r \in PgRequests :
    \/ \E p \in Pipelines : \/ \E name \in Names : BeginCreate(r, p, name) \/ BeginUpdate(r, p, name)
                            \/ BeginDelete(r, p)
    \/ PgInsertRow(r) \/ PgUpdateRow(r) \/ PgInsertVersion(r) \/ DeleteRow(r) \/ BreakOff(r)

PgSpec == PgInit /\ [][PgNext]_pgVars

-----------------------------------------------------------------------------
(* Once the requests on a pipeline have ended, none of them broken off, the *)
(* version its definition names is in the history, however their statements *)
(* were interleaved.  (Which of two racing saves that snapshot holds is not *)
(* promised: the loser of the number keeps the definition.)                 *)
RowVersionBacked ==
  \A p \in Pipelines \ pgTorn :
    pgRow[p] # None /\ (\A r \in PgRequests : pgOp[r].id # p)
      => \E v \in pgVersions[p] : v.n = pgRow[p].n
=============================================================================
