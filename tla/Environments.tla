---------------------------- MODULE Environments ----------------------------
(***************************************************************************)
(* Environments, their fallbacks and table overrides: the SQLite and the   *)
(* PostgreSQL environment stores, the handlers and commands that call      *)
(* them, and the table lookup along a fallback chain.  A store runs one    *)
(* statement at a time: a mutex orders the threads of a server, nothing    *)
(* orders the server and a command on one SQLite file, or two connections  *)
(* to PostgreSQL.                                                          *)
(***************************************************************************)
EXTENDS Integers, Sequences, SequencesExt

CONSTANTS
  Names,        \* environment names; "prod" and "dev" are among them
  Workers,      \* processes or connections using the store
  MaxChanges,   \* bound: requests
  None, Gone

VARIABLES
  envRows,      \* name -> its fallback, or Gone
  envTables,    \* names with an override of the table
  envOp,        \* worker -> the request it is serving
  envCount,     \* requests so far
  envSpliced,   \* no finished delete changed a chain it should have kept
  catalogs      \* the resolver: chain, schemas and tables of each environment

envVars == <<envRows, envTables, envOp, envCount, envSpliced, catalogs>>

Exists(rows, e) == rows[e] # Gone

(* SqliteEnvironmentStore.fallback_chain: the first repetition is an error. *)
RECURSIVE ChainFrom(_, _, _)
ChainFrom(rows, e, chain) ==
  IF Contains(chain, e) \/ ~Exists(rows, e) THEN Gone
  ELSE IF rows[e] = None THEN Append(chain, e) ELSE ChainFrom(rows, rows[e], Append(chain, e))

Chain(rows, e) == ChainFrom(rows, e, <<>>)

(* The foreign keys, which the bundled SQLite enforces as PostgreSQL does. *)
Backed(rows, tables) ==
  /\ \A e \in Names : Exists(rows, e) /\ rows[e] # None => Exists(rows, rows[e])
  /\ \A e \in tables : Exists(rows, e)

-----------------------------------------------------------------------------
Idle == [kind |-> "idle"]

Begin(w, request) ==
  /\ envOp[w] = Idle
  /\ envCount < MaxChanges
  /\ envCount' = envCount + 1
  /\ envOp' = [envOp EXCEPT ![w] = request]
  /\ UNCHANGED <<envRows, envTables, envSpliced, catalogs>>

Reply(w) ==
  /\ envOp' = [envOp EXCEPT ![w] = Idle]
  /\ UNCHANGED <<envRows, envTables, envCount, envSpliced, catalogs>>

Continue(w, op) ==
  /\ envOp' = [envOp EXCEPT ![w] = op]
  /\ UNCHANGED <<envRows, envTables, envCount, envSpliced, catalogs>>

(* A statement commits or a foreign key refuses it; the others see it in between their own. *)
StatementMutant(w, rows, tables, op) ==
  /\ envRows' = rows /\ envTables' = tables
  /\ envOp' = [v \in Workers |-> IF v = w THEN op
               ELSE IF envOp[v].kind = "delete" THEN [envOp[v] EXCEPT !.alone = FALSE] ELSE envOp[v]]
  /\ UNCHANGED <<envCount, catalogs>>       \* no foreign keys

Statement(w, rows, tables, op) ==
  /\ IF Backed(rows, tables)
     THEN /\ envRows' = rows /\ envTables' = tables
          /\ envOp' = [v \in Workers |-> IF v = w THEN op
               ELSE IF envOp[v].kind = "delete" THEN [envOp[v] EXCEPT !.alone = FALSE] ELSE envOp[v]]
     ELSE /\ UNCHANGED <<envRows, envTables>>
          /\ envOp' = [envOp EXCEPT ![w] = Idle]
  /\ UNCHANGED <<envCount, catalogs>>

-----------------------------------------------------------------------------
(* ensure_defaults, run whenever a process opens the store: prod is never   *)
(* missing, dev comes back if it was deleted.                              *)
Open(w) ==
  /\ envOp[w] = Idle /\ envCount < MaxChanges
  /\ envCount' = envCount + 1
  /\ envRows' = [envRows EXCEPT !["dev"] = IF @ = Gone THEN "prod" ELSE @]
  /\ envOp' = [v \in Workers |->
       IF envOp[v].kind = "delete" THEN [envOp[v] EXCEPT !.alone = FALSE] ELSE envOp[v]]
  /\ UNCHANGED <<envTables, envSpliced, catalogs>>

(* A request begins with what it reads first; one this refuses has no effect. *)
Create(w) ==
  \E e \in Names, fb \in {f \in Names : Exists(envRows, f)} \cup {None} :
    Begin(w, [kind |-> "create", name |-> e, fallback |-> fb])

CreateStep(w) ==
  LET op == envOp[w] IN
  /\ op.kind = "create"
  /\ IF Exists(envRows, op.name) THEN Reply(w)
     ELSE /\ Statement(w, [envRows EXCEPT ![op.name] = op.fallback], envTables, Idle)
          /\ UNCHANGED envSpliced

(* update_environment reads the row, then update_fallback checks and writes. *)
UpdateFallback(w) ==
  \E e \in Names, fb \in Names \cup {None} :
    /\ Exists(envRows, e)
    /\ Begin(w, [kind |-> "update", name |-> e, fallback |-> fb, at |-> "check"])

RefusedMutant(e, fb) == fb = e

Refused(e, fb) == (e = "prod" /\ fb # None) \/ fb = e

UpdateStep(w) ==
  LET op == envOp[w] IN
  /\ op.kind = "update"
  /\ \/ /\ op.at = "check"
        /\ IF Refused(op.name, op.fallback) \/
                (op.fallback # None /\ ~Exists(envRows, op.fallback))
           THEN Reply(w) ELSE Continue(w, [op EXCEPT !.at = "write"])
     \/ /\ op.at = "write"
        /\ IF ~Exists(envRows, op.name) THEN Reply(w)
           ELSE /\ Statement(w, [envRows EXCEPT ![op.name] = op.fallback], envTables, Idle)
                /\ UNCHANGED envSpliced

(* delete: four statements without a transaction.                          *)
Delete(w) ==
  \E e \in Names \ {"prod"} :
    /\ Exists(envRows, e)
    /\ Begin(w, [kind |-> "delete", name |-> e, at |-> "repoint", fallback |-> envRows[e],
                 alone |-> TRUE, before |-> envRows])

RepointMutant(rows, e, fb) ==
  [c \in Names |-> IF rows[c] = e THEN None ELSE rows[c]]         \* not the fallback of the deleted

Repoint(rows, e, fb) == [c \in Names |-> IF rows[c] = e THEN fb ELSE rows[c]]

SplicedChain(before, after, gone, e) ==
  Exists(after, e) /\ Chain(before, e) # Gone =>
    Chain(after, e) = SelectSeq(Chain(before, e), LAMBDA x : x # gone)

DeleteStep(w) ==
  LET op == envOp[w] IN
  /\ op.kind = "delete"
  /\ \/ /\ op.at = "repoint"
        /\ Statement(w, Repoint(envRows, op.name, op.fallback), envTables,
                     [op EXCEPT !.at = "tables"])
        /\ UNCHANGED envSpliced
     \/ /\ op.at = "tables"
        /\ Statement(w, envRows, envTables \ {op.name}, [op EXCEPT !.at = "row"])
        /\ UNCHANGED envSpliced
     \/ /\ op.at = "row"
        /\ LET rows == [envRows EXCEPT ![op.name] = Gone]
               tables == envTables \ {op.name}
           IN /\ Statement(w, rows, tables, Idle)
              /\ envSpliced' = (envSpliced /\
                   (op.alone /\ Backed(rows, tables) =>
                      \A e \in Names : SplicedChain(op.before, rows, op.name, e)))

(* create_table_override and delete_table_override: the handler looks the   *)
(* environment up before it writes.                                        *)
Override(w) ==
  \E e \in Names, on \in BOOLEAN :
    /\ Exists(envRows, e)
    /\ Begin(w, [kind |-> "override", name |-> e, on |-> on])

OverrideStep(w) ==
  LET op == envOp[w] IN
  /\ op.kind = "override"
  /\ Statement(w, envRows, IF op.on THEN envTables \cup {op.name} ELSE envTables \ {op.name}, Idle)
  /\ UNCHANGED envSpliced

-----------------------------------------------------------------------------
(* EnvironmentResolver: built for a chain; an environment has schema        *)
(* "public" from the start and another one once a table is registered in   *)
(* it.  A table is known by the environment it was registered in.          *)
Schemas == {"public", "other"}

EmptyCatalog == [s \in Schemas |-> IF s = "public" THEN {} ELSE Gone]

Tables(cats, e, s) == IF cats[e][s] = Gone THEN {} ELSE cats[e][s]

(* MergedCatalog.schema: the environments of the chain that have the schema. *)
SchemaChain(res, s) == SelectSeq(res.chain, LAMBDA e : res.cats[e][s] # Gone)

(* FallbackSchemaProvider.table: the first hit along the chain.            *)
LookupMutant(res, s, t) ==
  LET hits == SelectSeq(SchemaChain(res, s), LAMBDA e : t \in res.cats[e][s])
  IN IF hits = <<>> THEN None ELSE Last(hits)

Lookup(res, s, t) ==
  LET hits == SelectSeq(SchemaChain(res, s), LAMBDA e : t \in res.cats[e][s])
  IN IF hits = <<>> THEN None ELSE Head(hits)

NewResolver(rows, e) ==
  IF Chain(rows, e) = Gone THEN None
  ELSE [chain |-> Chain(rows, e), cats |-> [x \in Names |-> EmptyCatalog]]

(* The resolver keeps the chain it was built with.                         *)
BuildResolver ==
  \E e \in Names :
    /\ catalogs = None /\ NewResolver(envRows, e) # None
    /\ catalogs' = NewResolver(envRows, e)
    /\ UNCHANGED <<envRows, envTables, envOp, envCount, envSpliced>>

RegisterIn(e, s) ==
  catalogs' = [catalogs EXCEPT !.cats[e][s] = Tables(catalogs.cats, e, s) \cup {"t"}]

(* register_table names the environment; the merged schema takes the first. *)
RegisterTable ==
  /\ catalogs # None
  /\ \E s \in Schemas :
       \/ \E e \in ToSet(catalogs.chain) : RegisterIn(e, s)
       \/ SchemaChain(catalogs, s) # <<>> /\ RegisterIn(Head(SchemaChain(catalogs, s)), s)
  /\ UNCHANGED <<envRows, envTables, envOp, envCount, envSpliced>>

DeregisterTable ==
  /\ catalogs # None
  /\ \E s \in Schemas :
       /\ SchemaChain(catalogs, s) # <<>>
       /\ catalogs' = [catalogs EXCEPT !.cats[Head(SchemaChain(catalogs, s))][s] = @ \ {"t"}]
  /\ UNCHANGED <<envRows, envTables, envOp, envCount, envSpliced>>

-----------------------------------------------------------------------------
Init ==
  /\ envRows = [e \in Names |-> CASE e = "prod" -> None [] e = "dev" -> "prod" [] OTHER -> Gone]
  /\ envTables = {}
  /\ envOp = [w \in Workers |-> Idle]
  /\ envCount = 0 /\ envSpliced = TRUE /\ catalogs = None

Requests ==
  \E w \in Workers :
    \/ Open(w) \/ Create(w) \/ UpdateFallback(w) \/ Delete(w) \/ Override(w)
    \/ CreateStep(w) \/ UpdateStep(w) \/ DeleteStep(w) \/ OverrideStep(w)

Resolving == BuildResolver \/ RegisterTable \/ DeregisterTable

-----------------------------------------------------------------------------
(* However requests interleave, prod is there and falls back to nothing,    *)
(* nobody falls back to (or overrides tables of) an environment that was   *)
(* deleted meanwhile, and a deletion nothing interfered with takes the     *)
(* environment out of every chain and leaves the rest of each as it was.   *)
ChainsHold == envRows["prod"] = None /\ Backed(envRows, envTables) /\ envSpliced

(* A lookup answers with the table of the environment nearest to the active *)
(* one that has it, also for schemas only some of the chain have.          *)
NearestWins ==
  catalogs # None => \A s \in Schemas :
    LET found == Lookup(catalogs, s, "t")
        having == {i \in DOMAIN catalogs.chain : "t" \in Tables(catalogs.cats, catalogs.chain[i], s)}
    IN IF having = {} THEN found = None
       ELSE \E i \in having : found = catalogs.chain[i] /\ \A j \in having : i <= j
=============================================================================
