----------------------------- MODULE MCPlatform ----------------------------
(***************************************************************************)
(* The services around the executor, scheduler and backfills, one          *)
(* component at a time: `part' names the component a behaviour runs, and   *)
(* the variables of the others keep their initial values.                  *)
(*                                                                         *)
(* The components theorems are about are extended, so that their           *)
(* assumptions are evaluated and their properties stand here under their   *)
(* own names; the others are instantiated, each with its bounds.           *)
(***************************************************************************)
EXTENDS PipelineStore, PgPipelineStore, SnapshotMerge, RunHistory, Catalog, Instances, EventFanout,
  Secrets, SinkWrites, TLC

VARIABLE part

SnapshotRows == {[val |-> 0, stamp |-> 0], [val |-> 1, stamp |-> 1], [val |-> 0, stamp |-> 2]}

(* The runs that are assessed have one node, and time passes.              *)
Health == INSTANCE RunHistory WITH PipelineNodes <- {"a"}, EndOfTime <- 2

VARIABLES store, def, bindings, observations, job, changes, lagging

Flow(env, reads, writes) == [env |-> env, reads |-> reads, writes |-> writes]

Refresh == INSTANCE Lineage WITH
  Pipelines <- {1}, Handlers <- {"h1", "h2"}, MaxChanges <- 3,
  Definitions <- {Flow("dev", "x", "y"), Flow("dev", None, "x"), Flow("prod", "x", "y")}

Graph == INSTANCE Lineage WITH
  Pipelines <- {1, 2, 3}, Handlers <- {"h1"}, MaxChanges <- 3,
  Definitions <- {Flow("dev", "x", "y"), Flow("dev", "y", "x"), Flow("dev", "y", "z"),
                  Flow("dev", "z", "x"), Flow("dev", "y", None)}

(* What the theorem about bindings assumes.                                *)
ASSUME BindingsDistinct == Refresh!Distinct /\ Graph!Distinct

VARIABLES colStore, colRows, colRun, colSaved, colLoose

Fold == [c \in {"a", "A", "b"} |-> IF c = "A" THEN "a" ELSE c]

ColumnRows == INSTANCE ColumnLineage WITH
  Runs <- {1, 2},
  Reads <- [p \in {"p"} |-> "x"], Writes <- [p \in {"p"} |-> "y"],
  Inputs <- {{}, {"a"}, {"A"}}, EdgeNotes <- {{}}

Columns == INSTANCE ColumnLineage WITH
  Runs <- {1, 2},
  Reads <- [p \in {"p", "q"} |-> IF p = "p" THEN None ELSE "x"],
  Writes <- [p \in {"p", "q"} |-> "x"],
  Inputs <- {{"a", "b"}, {"A"}},
  EdgeNotes <- {{}, {[up |-> "a", down |-> "b"]}}

(* What the theorem about column edges assumes.                            *)
ASSUME ColumnsAreDistinct == ColumnRows!ColumnsDistinct /\ Columns!ColumnsDistinct

VARIABLES planStage, planNodes, planFields, planMap, planFlow, planGates

Plan == INSTANCE PlanLineage WITH
  Tables <- [t \in {"t", "u"} |-> IF t = "t" THEN <<"a", "b">> ELSE <<"b", "c">>],
  MaxNodes <- 5

Binding(pipe, dir, fp) == [pipe |-> pipe, node |-> dir, dir |-> dir, fp |-> fp]
Body(name, team, contact, tags, cols) ==
  [name |-> name, team |-> team, contact |-> contact, tags |-> tags, cols |-> cols]

(* Two resources with a file each; what lineage may know of them, and what *)
(* an annotation may say.                                                  *)
CatalogFiles == [r \in {"r1", "r2"} |-> IF r = "r1" THEN "f1" ELSE "f2"]
CatalogBindings == {{}, {Binding(1, "sink", "r1"), Binding(2, "sink", "r1")}, {Binding(1, "source", "r2")}}
CatalogObserved == {Binding(2, "sink", "r1")}
CatalogSchemas == [r \in {"r1", "r2"} |-> IF r = "r1" THEN {"k"} ELSE {}]
CatalogRuns == [p \in {1, 2} |-> IF p = 1 THEN None ELSE 5]
CatalogBodies == {Body("n", None, "@", None, {"c"}), Body(None, "t", None, {"x"}, None)}
CatalogEdits == {Body(None, "u", None, {}, {}) @@ [fp |-> "r1", sla |-> "s"]}

Rec(key, val) == [k |-> key, v |-> val]

LoadsOfSinks ==
  {None} \cup
  {[rows |-> r, wide |-> FALSE] :
     r \in {<<>>, <<Rec("1", 0)>>, <<Rec("1", 1), Rec("2", 0)>>, <<Rec(None, 0), Rec("2", 1)>>,
            <<Rec("1", 0), Rec("1", 1)>>}} \cup
  {[rows |-> <<Rec("2", 0)>>, wide |-> TRUE]}

VARIABLES restCfg, restServer, restFetch, restAlways, restOnce, restShifts, restChanges

Num(kind, n) == [kind |-> kind, n |-> n]

Rest == INSTANCE RestPages WITH
  Ids <- 1..5, Limit <- 2, MaxRetries <- 1, MaxChanges <- 2,
  ValOf <- <<None, Num("int", 10), Num("float", 15), Num("int", 20), Num("utf8", 1)>>

VARIABLES scanColumn, scanMode, scanFilter, scanLimit, scanAnswer

Pushdown == INSTANCE ScanPushdown WITH Vals <- 0..2

VARIABLES envRows, envTables, envOp, envCount, envSpliced, catalogs

Envs == INSTANCE Environments WITH
  Names <- {"prod", "dev", "qa"}, Workers <- {"w1", "w2"}, MaxChanges <- 3

Lookups == INSTANCE Environments WITH
  Names <- {"prod", "dev", "qa"}, Workers <- {"w1"}, MaxChanges <- 1

(* One secret and two passwords; two secrets, scopes and nodes.            *)
SecretValues == {<<"a">>}

Resolving == INSTANCE Secrets WITH
  SecretNames <- {"n", "m"}, Scopes <- {"", "dev"}, SecretTexts <- {<<"a">>, <<"a", "b">>},
  Passwords <- {"p"},
  Configs <- {<< <<"x", "n", "x">>, <<"m", "x", "n">> >>},
  AutoLock <- 1, AttemptWindow <- 1, MaxAttempts <- 1, MaxNow <- 1

(* A client that may ask for a run that exists, or for another.            *)
Socket == INSTANCE EventFanout WITH FanRuns <- {1}

VARIABLES ldInput, ldStage, ldPipe, ldError

Load == INSTANCE MCPipelineLoad WITH MaxDepth <- 2

VARIABLES rngCfg, rngStage, rngCursor, rngOut, varCfg, varStage, overrides, varText

Variables == INSTANCE RunVariables WITH
  Times <- 0..15, Granularities <- {"hour", "day", "week", "month"}, HoursPerDay <- 2,
  DaysPerWeek <- 2, MonthStarts <- {0, 6, 10, 18},
  Kinds <- {"api", "cli", "file", "webhook", "backfill"},
  Declarations <- {None, [type |-> "string", default |-> None],
                   [type |-> "string", default |-> [type |-> "string", text |-> <<"d">>]],
                   [type |-> "integer", default |-> None]},
  Values <- {[type |-> "string", text |-> <<"a">>], [type |-> "string", text |-> <<"env", "v">>],
             [type |-> "integer", text |-> <<"1">>]},
  EnvText <- <<"e", "v">>

OneRange == {[start |-> 0, end |-> 1, unit |-> "hour"]}
OneRun == {[kind |-> "api", decl |-> None, expr |-> None, base |-> Variables!NoValue,
            event |-> [type |-> "string", text |-> <<>>]]}

VARIABLES xfSource, xfTarget, xfCmd

Copy == INSTANCE MetadataTransfer WITH
  EnvOrder <- <<"alpha", "beta", "dev", "prod">>, PipeOrder <- <<"p2", "p1">>,
  RunOrder <- <<"r2", "r1">>, FreshIds <- {"n1", "n2", "n3", "n4"}, MaxCommands <- 2

NoPairs == [x \in {} |-> None]
Emptied == Copy!Backend(NoPairs, {}, NoPairs, NoPairs, NoPairs, NoPairs, {})
Def(name) == [name |-> name, body |-> "saved"]

InUse(envs, tables) ==
  Copy!WithDefaults(Copy!Backend(envs, tables,
    [p1 |-> "a", p2 |-> "b"], [p1 |-> Def("a"), p2 |-> Def("b")], [v \in {<<"p1", 1>>} |-> "saved"],
    [r1 |-> [status |-> "running", tests |-> None], r2 |-> [status |-> "success", tests |-> "all"]],
    {<<"r2", "sink">>}))

TransferSources ==
  {InUse(NoPairs, {<<"dev", "t">>}), InUse([alpha |-> "beta", beta |-> "prod"], {<<"alpha", "t">>})}

(* A fresh backend, one with its defaults, one where another pipeline has   *)
(* a source's name, one with an edited copy.                               *)
TransferTargets ==
  LET own == Copy!WithDefaults(Emptied) IN
  {Emptied, own,
   [own EXCEPT !.rows = [p9 |-> "a"], !.defs = [p9 |-> Def("a")]],
   [own EXCEPT !.rows = [p1 |-> "a"], !.defs = [p1 |-> [name |-> "a", body |-> "local"]],
               !.versions = [v \in {<<"p1", 2>>} |-> "local"]]}

(* What the theorem about copies assumes.                                  *)
ASSUME CopiedStoresAreSound == Copy!StoresAreSound(TransferSources, TransferTargets)

VARIABLES pdRoots, pdScan, pdReg, pdListed, pdUsed, pdConnectors, pdEdits

Manifest(parses, name, sinks, caps) == [parses |-> parses, name |-> name, sinks |-> sinks, caps |-> caps]
Good(name) == {Manifest(TRUE, name, {"x"}, {}), Manifest(TRUE, name, {"y", "stdout"}, {"merge"})}

Plugins == INSTANCE PluginDiscovery WITH
  Manifests <- {Manifest(TRUE, "b", {"x"}, {"merge"}), Manifest(FALSE, "b", {"x"}, {}), Manifest(TRUE, "b", {}, {})},
  Builtins <- {"stdout"}, Types <- {"x", "y", "stdout"}, Strategies <- {"append", "merge"},
  MaxScans <- 2, MaxEdits <- 1

(* Each root may hold plugin a and plugin b; one of a's is misnamed.        *)
PluginRoots ==
  LET dirs == {Plugins!Nothing} \cup [{"a"} -> Good("a") \cup {Manifest(TRUE, "z", {"x"}, {})}]
                \cup [{"a", "b"} -> Good("a") \cup Good("b")]
      later == {Plugins!Nothing} \cup [{"a"} -> Good("a")]
  IN {<<r, s>> : r \in dirs, s \in later}

(* What the theorem about discovery assumes.                               *)
ASSUME PluginRootsAreLists == Plugins!RootsAreLists(PluginRoots) /\ Plugins!ErrorsDistinct

VARIABLES mzPolicy, mzSource, mzStore, mzTarget, mzRun, mzUsed

Mark(column, type) == [column |-> column, type |-> type]
By(detection, updatedAt) == [detection |-> detection, checks |-> FALSE, updatedAt |-> updatedAt]
Pt0s == <<"P", "T", "0", "S">>

Checked == INSTANCE Materialization WITH
  PolicyChoices <- {}, Schemas <- {}, MaxRuns <- 0, MaxRows <- 0, MaxEdits <- 0, MaxFaults <- 0

(* Every combination of a policy's fields, and every short lookback.        *)
DeclaredPolicies ==
  {Checked!Policy(r, s, w, k, b, "fail", "fail", l, d) :
     r \in {"full", "incremental"},
     s \in {"append", "merge", "delete_insert", "insert_overwrite", "snapshot"},
     w \in {None, Mark("", "int64"), Mark("id", "int64"), Mark("at", "timestamp")},
     k \in {None, "empty", "set"}, b \in BOOLEAN, l \in {Pt0s, <<"P", "1", "D">>},
     d \in {None, By("check", ""), [By("check", "") EXCEPT !.checks = TRUE],
            By("timestamp", ""), By("timestamp", "at")}}
  \cup
  {Checked!Policy("incremental", "append", Mark("at", "timestamp"), None, FALSE, "fail", "fail", l, None) :
     l \in UNION {[1..n -> {"P", "T", "1", "D", "H", "M", "W"}] : n \in 0..4} \cup
          {Checked!Documented(d, h, m, s) : d \in {0, 1, 12}, h \in {0, 1, 12}, m \in {0, 1, 12}, s \in {0, 1, 12}}}

SinceRun(mark, onChange, firstRun, lookback) ==
  Checked!Policy("incremental", "append", mark, None, FALSE, onChange, firstRun, lookback, None)
Column(c, t) == [x \in {c} |-> t]
Ids == Column("id", "Int64")

LoadPolicies ==
  {SinceRun(Mark("id", "int64"), "append_new_columns", "full", Pt0s),
   SinceRun(Mark("at", "int64"), "ignore", "full", Pt0s),
   SinceRun(Mark("at", "timestamp"), "sync_all_columns", "fail", <<"P", "T", "2", "S">>),
   SinceRun(Mark("at", "timestamp"), "fail", "full", <<"P", "1", "M">>),
   SinceRun(None, "fail", "full", Pt0s),
   Checked!Policy("full", "append", None, None, FALSE, "fail", "full", Pt0s, None)}

LoadSchemas == {Ids, Ids @@ Column("at", "Int64"), Ids @@ Column("at", "Timestamp"), Column("id", "Utf8")}

Loads == INSTANCE Materialization WITH
  PolicyChoices <- LoadPolicies, Schemas <- LoadSchemas,
  MaxRuns <- 3, MaxRows <- 2, MaxEdits <- 2, MaxFaults <- 1

(* What the theorems about loads assume.                                   *)
ASSUME LoadsAreTyped == Loads!ChoicesAreTyped

VARIABLES rrRuns, rrTasks, rrReceived, rrCounters, rrFaults

Asserts(kind, values) == [kind |-> kind, values |-> values]
TestOf(severity, assertions) == [severity |-> severity, assertions |-> assertions, limit |-> 1]
Reach(scheme, rest) == [scheme |-> scheme, rest |-> rest]
Two(order, test) ==
  [order |-> order,
   kind |-> [s |-> "source", c |-> "transform", k |-> "sink", t |-> "test"],
   up |-> [s |-> <<>>, c |-> <<"s">>, k |-> <<"c">>, t |-> <<"c">>],
   test |-> [t |-> test],
   fp |-> [s |-> Reach("file", <<"a">>), k |-> Reach("postgres", <<"h", "/", "d", "/", "t">>)]]
Joined(test) ==
  [order |-> <<"s", "u", "t", "k">>,
   kind |-> [s |-> "source", u |-> "source", k |-> "sink", t |-> "test"],
   up |-> [s |-> <<>>, u |-> <<>>, k |-> <<"s", "u">>, t |-> <<"u", "s">>],
   test |-> [t |-> test],
   fp |-> [s |-> Reach("s3", <<"b", "/", "a">>), u |-> Reach("file", <<"b", "/", "a">>),
           k |-> Reach("s3", <<"b">>)]]

Reports == INSTANCE RunReports WITH
  Pipelines <- {Two(<<"s", "c", "t", "k">>, TestOf("error", <<Asserts("unique", {}), Asserts("row_count", {1, 2})>>)),
                Two(<<"s", "c", "k", "t">>, TestOf("warn", <<Asserts("accepted_values", {1}), Asserts("sql", {})>>)),
                Joined(TestOf("error", <<Asserts("not_null", {}), Asserts("no_duplicates", {})>>)),
                Joined(TestOf("warn", <<Asserts("expression_true", {2}), Asserts("accepted_values", {})>>))},
  SourceData <- {<<>>, <<<<None>>>>, <<<<1, None>>>>, <<<<2>>, <<2>>>>},
  SampleLimit <- 2, MaxRuns <- 1, MaxFaults <- 2

Overlap == INSTANCE RunReports WITH
  Pipelines <- {[order |-> <<"s", "k">>, kind |-> [s |-> "source", k |-> "sink"],
                 up |-> [s |-> <<>>, k |-> <<"s">>], test |-> <<>>,
                 fp |-> [s |-> Reach(None, <<"a">>), k |-> Reach("file", <<"a">>)]]},
  SourceData <- {<<<<1>>>>}, SampleLimit <- 1, MaxRuns <- 2, MaxFaults <- 1

-----------------------------------------------------------------------------
Parts == {"store", "pg", "snapshot", "runs", "health", "refresh", "graph", "rows", "columns", "plan",
          "catalog", "sinks", "rest", "scan", "envs", "tables", "secrets", "resolve", "instances", "client",
          "listener", "tray", "load", "ranges", "variables", "transfer", "plugins", "policies", "incremental", "reports", "overlap"}

(* What a component chooses initially is fixed where another one runs. *)
Elsewhere ==
  /\ part = "snapshot" \/
       snapCfg = [sink |-> "parquet", detection |-> "check", deletes |-> "ignore"]
  /\ part = "runs" \/ backend = "sqlite"
  /\ part = "refresh" \/ store = "sqlite"
  /\ part = "rows" \/ colStore = "sqlite"
  /\ part = "plan" \/ planFields = Plan!Scan("t")
  /\ part = "catalog" \/ catBinds = {}
  /\ part = "sinks" \/
       sinkCfg = [sink |-> "csv", strategy |-> "append", cloud |-> FALSE, append |-> FALSE]
  /\ part = "rest" \/
       /\ restCfg = [paging |-> "none", maxPages |-> 2, cursor |-> "string", type |-> None]
       /\ restServer = {}
  /\ part = "scan" \/
       (scanColumn = "plain" /\ scanMode = "table" /\ scanFilter = {} /\ scanLimit = None)

Init ==
  /\ part \in Parts
  /\ Elsewhere
  /\ StoreInit /\ PgInit /\ SnapInit /\ HistoryInit
  /\ IF part = "graph" THEN Graph!Init ELSE Refresh!Init
  /\ IF part = "columns" THEN Columns!ColumnInit ELSE ColumnRows!ColumnInit
  /\ Plan!Init /\ CatInit /\ SinkInit
  /\ Rest!Init /\ Pushdown!Init
  /\ Envs!Init
  /\ IF part = "resolve" THEN Resolving!SecInit ELSE SecInit
  /\ InstInit
  /\ FanInit
  /\ Load!Init(IF part = "load" THEN Load!LoadInputs ELSE {Load!Plain})
  /\ Variables!Init(IF part = "ranges" THEN Variables!Ranges ELSE OneRange,
               IF part = "variables" THEN Variables!Configurations ELSE OneRun)
  /\ Copy!TransferInit(IF part = "transfer" THEN TransferSources ELSE {Emptied},
               IF part = "transfer" THEN TransferTargets ELSE {Emptied})
  /\ Plugins!DiscoveryInit(IF part = "plugins" THEN PluginRoots ELSE {<<Plugins!Nothing>>})
  /\ Loads!Init(IF part = "policies" THEN DeclaredPolicies ELSE
                IF part = "incremental" THEN LoadPolicies ELSE {None},
                {Ids @@ Column("at", "Timestamp")})
  /\ Reports!Init

lineageVars == <<store, def, bindings, observations, job, changes, lagging>>
columnVars == <<colStore, colRows, colRun, colSaved, colLoose>>
planVars == <<planStage, planNodes, planFields, planMap, planFlow, planGates>>
restVars == <<restCfg, restServer, restFetch, restAlways, restOnce, restShifts, restChanges>>
scanVars == <<scanColumn, scanMode, scanFilter, scanLimit, scanAnswer>>
envVars == <<envRows, envTables, envOp, envCount, envSpliced, catalogs>>
ldVars == <<ldInput, ldStage, ldPipe, ldError>>
runVars == <<rngCfg, rngStage, rngCursor, rngOut, varCfg, varStage, overrides, varText>>
xfVars == <<xfSource, xfTarget, xfCmd>>
pdVars == <<pdRoots, pdScan, pdReg, pdListed, pdUsed, pdConnectors, pdEdits>>
mzVars == <<mzPolicy, mzSource, mzStore, mzTarget, mzRun, mzUsed>>
rrVars == <<rrRuns, rrTasks, rrReceived, rrCounters, rrFaults>>

Keep(still, v) == IF still THEN UNCHANGED v ELSE TRUE

Others(p) ==
  /\ UNCHANGED part
  /\ Keep(p # "store", storeVars)
  /\ Keep(p # "pg", pgVars)
  /\ Keep(p # "snapshot", snapVars)
  /\ Keep(p \notin {"runs", "health"}, historyVars)
  /\ Keep(p \notin {"refresh", "graph"}, lineageVars)
  /\ Keep(p \notin {"rows", "columns"}, columnVars)
  /\ Keep(p # "plan", planVars)
  /\ Keep(p # "catalog", catVars)
  /\ Keep(p # "sinks", sinkVars)
  /\ Keep(p # "rest", restVars)
  /\ Keep(p # "scan", scanVars)
  /\ Keep(p \notin {"envs", "tables"}, envVars)
  /\ Keep(p \notin {"secrets", "resolve"}, secVars)
  /\ Keep(p # "instances", instVars)
  /\ Keep(p \notin {"client", "listener", "tray"}, fanVars)
  /\ Keep(p # "load", ldVars)
  /\ Keep(p \notin {"ranges", "variables"}, runVars)
  /\ Keep(p # "transfer", xfVars)
  /\ Keep(p # "plugins", pdVars)
  /\ Keep(p # "incremental", mzVars)
  /\ Keep(p \notin {"reports", "overlap"}, rrVars)

Next ==
  \/ part = "store" /\ StoreNext /\ Others("store")
  \/ part = "pg" /\ PgNext /\ Others("pg")
  \/ part = "snapshot" /\ SnapNext /\ Others("snapshot")
  \/ part = "runs" /\ (Write \/ Read) /\ Others("runs")
  \/ part = "health" /\ (Health!Write \/ Health!Assess) /\ Others("health")
  \/ part = "refresh" /\ Refresh!Next /\ Others("refresh")
  \/ part = "graph" /\ Graph!Save /\ Others("graph")
  \/ part = "rows" /\ ColumnRows!ColumnNext /\ Others("rows")
  \/ part = "columns" /\ Columns!Sequence /\ Others("columns")
  \/ part = "plan" /\ Plan!Next /\ Others("plan")
  \/ part = "catalog" /\ CatNext /\ Others("catalog")
  \/ part = "sinks" /\ SinkNext /\ Others("sinks")
  \/ part = "rest" /\ Rest!Next /\ Others("rest")
  \/ part = "scan" /\ Pushdown!Next /\ Others("scan")
  \/ part = "envs" /\ Envs!Requests /\ Others("envs")
  \/ part = "tables" /\ (Lookups!Requests \/ Lookups!Resolving) /\ Others("tables")
  \/ part = "secrets" /\ Session /\ Others("secrets")
  \/ part = "resolve" /\ (Resolving!Session \/ Resolving!SecretRun) /\ Others("resolve")
  \/ part = "instances" /\ InstNext /\ Others("instances")
  \/ part = "client" /\ Socket!Client /\ Others("client")
  \/ part = "listener" /\ Listener /\ Others("listener")
  \/ part = "tray" /\ Tray /\ Others("tray")
  \/ part = "load" /\ Load!Next /\ Others("load")
  \/ part = "ranges" /\ Variables!Expanding /\ Others("ranges")
  \/ part = "variables" /\ Variables!Starting /\ Others("variables")
  \/ part = "transfer" /\ Copy!Transfer /\ Others("transfer")
  \/ part = "plugins" /\ Plugins!DiscoveryNext /\ Others("plugins")
  \/ part = "incremental" /\ Loads!Next /\ Others("incremental")
  \/ part = "reports" /\ Reports!Next /\ Others("reports")
  \/ part = "overlap" /\ Overlap!Next /\ Others("overlap")

vars == <<part, storeVars, pgVars, snapVars, historyVars, lineageVars, columnVars, planVars,
          catVars, sinkVars, restVars, scanVars, envVars, secVars, instVars, fanVars, ldVars, runVars, xfVars, pdVars, mzVars, rrVars>>

Spec == Init /\ [][Next]_vars

-----------------------------------------------------------------------------
(* Each claim of an instance is about the part that can change what it reads. *)
In(parts, claim) == part \in parts => claim

LineageAnswers ==
  /\ In({"graph"}, Graph!LineageAnswers)
  /\ In({"refresh"}, Refresh!LineageAnswers)
  /\ In({"columns"}, Columns!ColumnAnswers)
  /\ In({"rows"}, ColumnRows!RowsOfOneSave)
  /\ In({"plan"}, Plan!WalkIsSound)
AccessHolds ==
  /\ In({"envs", "tables"}, Envs!ChainsHold /\ Envs!NearestWins)
  /\ In({"rest"}, Rest!SourceIsComplete)
  /\ In({"scan"}, Pushdown!PushdownIsSound)
  /\ In({"resolve"}, Resolving!ReportsAreScrubbed)
DefinitionsHold ==
  /\ In({"load"}, Load!LoadKeepsMeaning)
  /\ In({"ranges"}, Variables!RangesTile)
  /\ In({"variables"}, Variables!VariablesArrive)
  /\ In({"transfer"}, Copy!TransferKeeps)
  /\ In({"plugins"}, Plugins!DiscoveryHolds)
  /\ In({"policies"}, Checked!PolicyIsSound)
  /\ In({"incremental"}, Loads!NothingSkipped /\ Loads!SchemaIsGuarded)
  /\ In({"reports"}, Reports!ReportsAgree)
  /\ In({"overlap"}, Overlap!ReportsAgree)
=============================================================================
