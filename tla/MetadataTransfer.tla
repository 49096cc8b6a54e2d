---------------------------- MODULE MetadataTransfer --------------------------
(***************************************************************************)
(* Copying the metadata of one backend into another: export to PostgreSQL, *)
(* import into SQLite and import through the storage traits.  Records are  *)
(* written one by one, each committed on its own; a command may be cut off *)
(* at any point and given again, and the source stays in use meanwhile.    *)
(* Environments, pipelines and runs are listed when their stage begins,    *)
(* overrides and versions when their turn comes.                           *)
(***************************************************************************)
EXTENDS Absent, Integers, Functions

CONSTANTS
  EnvOrder, PipeOrder, RunOrder,   \* the orders records are listed in
  FreshIds,                        \* ids a store gives to new pipelines (bound)
  MaxCommands

VARIABLES
  xfSource, xfTarget,
  xfCmd         \* [kind, stage, todo, details, count, listed, before]

xfVars == <<xfSource, xfTarget, xfCmd>>

Kinds == {"export", "sqlite", "traits"}
Stages == {"envs", "pipes", "runs"}

(* A backend: environments with their fallbacks, table overrides <<e, t>>,  *)
(* names of pipelines, their definitions [name, body], versions            *)
(* <<id, n>> -> body, runs -> [status, tests], node statistics <<run, n>>. *)
Backend(envs, overrides, rows, defs, versions, runs, stats) ==
  [envs |-> envs, overrides |-> overrides, rows |-> rows, defs |-> defs,
   versions |-> versions, runs |-> runs, stats |-> stats]

Put(f, x, y) == [z \in DOMAIN f \cup {x} |-> IF z = x THEN y ELSE f[z]]
PutNew(f, x, y) == IF x \in DOMAIN f THEN f ELSE Put(f, x, y)

(* ensure_defaults                                                         *)
WithDefaults(s) == [s EXCEPT !.envs = PutNew(PutNew(@, "prod", None), "dev", "prod")]

Item(op, key, value) == [op |-> op, key |-> key, value |-> value]

-----------------------------------------------------------------------------
(* What a stage lists, and the order it goes through.                      *)
Listing(stage, s) ==
  IF stage = "envs" THEN DOMAIN s.envs ELSE IF stage = "pipes" THEN DOMAIN s.rows ELSE DOMAIN s.runs

Order(stage) == IF stage = "envs" THEN EnvOrder ELSE IF stage = "pipes" THEN PipeOrder ELSE RunOrder

Before(order, x, y) == \E i, j \in DOMAIN order : i < j /\ order[i] = x /\ order[j] = y

RecordOf(stage, s, key) ==
  IF stage = "envs" THEN Item("env", key, s.envs[key])
  ELSE IF stage = "pipes" THEN Item("pipe", key, s.defs[key])
  ELSE Item("run", key, s.runs[key])

(* What belongs to a record: a run was listed with its statistics.         *)
Details(kind, stage, listed, now, key) ==
  IF stage = "envs" THEN {Item("override", o, None) : o \in {x \in now.overrides : x[1] = key}}
  ELSE IF stage = "pipes" THEN
    {Item("version", v, now.versions[v]) : v \in {x \in DOMAIN now.versions : x[1] = key /\ kind # "traits"}}
  ELSE {Item("stat", x, None) : x \in {y \in listed.stats : y[1] = key}}

-----------------------------------------------------------------------------
(* Writing one record.  The new backend, where it is not refused: the      *)
(* foreign keys and unique names hold in both backends, and OR IGNORE does *)
(* not hide a foreign key.                                                 *)
CanFallBack(t, e, fallback) == fallback = None \/ fallback \in DOMAIN t.envs

Refused(kind, t, item) ==
  \/ item.op = "env" /\ kind = "export" /\ ~CanFallBack(t, item.key, item.value) /\ item.value # item.key
  \/ item.op = "pipe" /\ kind = "export" /\ item.key \notin DOMAIN t.rows /\ item.value.name \in Range(t.rows)
  \/ item.op = "version" /\ item.key[1] \notin DOMAIN t.rows

(* insert_environment overwrites the fallback; an import changes it only   *)
(* as update_fallback allows, and every refusal is ignored.                *)
PutEnv(kind, t, e, fallback) ==
  IF kind = "export" THEN [t EXCEPT !.envs = Put(@, e, fallback)]
  ELSE IF ~CanFallBack(t, e, fallback) THEN t
  ELSE IF e \notin DOMAIN t.envs THEN [t EXCEPT !.envs = Put(@, e, fallback)]
  ELSE IF kind = "traits" \/ fallback = e \/ (e = "prod" /\ fallback # None) THEN t
  ELSE [t EXCEPT !.envs = Put(@, e, fallback)]

PutOverride(t, o) == IF o[1] \in DOMAIN t.envs THEN [t EXCEPT !.overrides = @ \cup {o}] ELSE t

AddPipe(t, p, def) == [t EXCEPT !.rows = Put(@, p, def.name), !.defs = Put(@, p, def)]

(* insert_pipeline skips an id that exists.                                *)
InsertPipelineMutant(t, p, def) == AddPipe(t, p, def)        \* overwrites

InsertPipeline(t, p, def) == IF p \in DOMAIN t.rows THEN t ELSE AddPipe(t, p, def)

(* import_record writes the file whether or not the row is inserted.       *)
ImportRecord(t, p, def) ==
  IF p \in DOMAIN t.rows \/ def.name \in Range(t.rows) THEN [t EXCEPT !.defs = Put(@, p, def)]
  ELSE AddPipe(t, p, def)

(* PipelineStorage::create under a new id, with its first version.         *)
CreateUnderNewId(t, def) ==
  IF def.name \in Range(t.rows) THEN t
  ELSE LET id == CHOOSE x \in FreshIds : x \notin DOMAIN t.rows
       IN [AddPipe(t, id, def) EXCEPT !.versions = Put(@, <<id, 1>>, def.body)]

PutVersion(t, v, body) == [t EXCEPT !.versions = PutNew(@, v, body)]

(* The export leaves the test results behind.                              *)
ImportRun(t, r, run) == [t EXCEPT !.runs = PutNew(@, r, run)]
InsertRun(t, r, run) == ImportRun(t, r, [run EXCEPT !.tests = None])

InsertNodeStats(t, stat) == [t EXCEPT !.stats = @ \cup {stat}]

Applied(kind, t, item) ==
  CASE item.op = "env" -> PutEnv(kind, t, item.key, item.value)
    [] item.op = "override" -> PutOverride(t, item.key)
    [] item.op = "pipe" /\ kind = "export" -> InsertPipeline(t, item.key, item.value)
    [] item.op = "pipe" /\ kind = "sqlite" -> ImportRecord(t, item.key, item.value)
    [] item.op = "pipe" /\ kind = "traits" -> CreateUnderNewId(t, item.value)
    [] item.op = "version" -> PutVersion(t, item.key, item.value)
    [] item.op = "run" /\ kind = "export" -> InsertRun(t, item.key, item.value)
    [] item.op = "run" /\ kind = "sqlite" -> ImportRun(t, item.key, item.value)
    [] item.op = "stat" -> InsertNodeStats(t, item.key)

-----------------------------------------------------------------------------
Active == xfCmd.stage \in Stages

(* Opening an environment store adds its defaults: to the source always,   *)
(* to the target of an import too; an export makes sure of the tables only.*)
Opened(kind, t) == IF kind = "export" THEN t ELSE WithDefaults(t)

Begin(kind) ==
  /\ ~Active /\ xfCmd.count < MaxCommands
  /\ xfSource' = WithDefaults(xfSource)
  /\ xfTarget' = Opened(kind, xfTarget)
  /\ xfCmd' = [kind |-> kind, stage |-> "envs", todo |-> Listing("envs", xfSource'), details |-> {},
               count |-> xfCmd.count + 1, listed |-> [x \in Stages |-> xfSource'], before |-> xfTarget']

(* A command that fails stops at what it could not write.                  *)
Fail(item) ==
  /\ Refused(xfCmd.kind, xfTarget, item)
  /\ xfCmd' = [xfCmd EXCEPT !.stage = "failed", !.details = {item}]
  /\ UNCHANGED <<xfSource, xfTarget>>

Write(item) ==
  /\ ~Refused(xfCmd.kind, xfTarget, item)
  /\ xfTarget' = Applied(xfCmd.kind, xfTarget, item)
  /\ UNCHANGED xfSource

IsNext(key) ==
  /\ Active /\ xfCmd.details = {} /\ key \in xfCmd.todo
  /\ \A other \in xfCmd.todo : ~Before(Order(xfCmd.stage), other, key)

WriteRecord(key) ==
  LET listed == xfCmd.listed[xfCmd.stage]
      item == RecordOf(xfCmd.stage, listed, key)
  IN /\ IsNext(key)
     /\ item.op = "pipe" /\ xfCmd.kind = "traits" => FreshIds \ DOMAIN xfTarget.rows # {}
     /\ \/ Fail(item)
        \/ /\ Write(item)
           /\ xfCmd' = [xfCmd EXCEPT !.todo = @ \ {key},
                          !.details = Details(xfCmd.kind, xfCmd.stage, listed, xfSource, key)]

WriteDetail(item) ==
  /\ Active /\ item \in xfCmd.details
  /\ \/ Fail(item)
     \/ Write(item) /\ xfCmd' = [xfCmd EXCEPT !.details = @ \ {item}]

EndStage ==
  /\ Active /\ xfCmd.todo = {} /\ xfCmd.details = {}
  /\ LET stage == IF xfCmd.stage = "envs" THEN "pipes"
                  ELSE IF xfCmd.stage = "pipes" /\ xfCmd.kind # "traits" THEN "runs" ELSE "done"
     IN xfCmd' = IF stage = "done" THEN [xfCmd EXCEPT !.stage = stage]
                 ELSE [xfCmd EXCEPT !.stage = stage, !.todo = Listing(stage, xfSource), !.listed[stage] = xfSource]
  /\ UNCHANGED <<xfSource, xfTarget>>

(* The process or the connection dies between two records.                 *)
Interrupt ==
  /\ Active
  /\ xfCmd' = [xfCmd EXCEPT !.stage = "interrupted"]
  /\ UNCHANGED <<xfSource, xfTarget>>

(* Meanwhile the source is used: a run ends, a pipeline is saved and renamed.*)
EndRun(r) ==
  /\ r \in DOMAIN xfSource.runs /\ xfSource.runs[r].status = "running"
  /\ xfSource' = [xfSource EXCEPT !.runs[r].status = "success", !.stats = @ \cup {<<r, "sink">>}]
  /\ UNCHANGED <<xfTarget, xfCmd>>

SaveAs(p, name) ==
  /\ p \in DOMAIN xfSource.rows /\ name \notin Range(xfSource.rows)
  /\ <<p, 2>> \notin DOMAIN xfSource.versions
  /\ xfSource' = [AddPipe(xfSource, p, [name |-> name, body |-> "edited"]) EXCEPT
                    !.versions = Put(@, <<p, 2>>, "edited")]
  /\ UNCHANGED <<xfTarget, xfCmd>>

TransferInit(sources, targets) ==
  /\ xfSource \in sources /\ xfTarget \in targets
  /\ xfCmd = [kind |-> None, stage |-> "idle", todo |-> {}, details |-> {}, count |-> 0,
              listed |-> [x \in Stages |-> xfSource], before |-> xfTarget]

Transfer ==
  \/ \E kind \in Kinds : xfCmd.kind \in {None, kind} /\ Begin(kind)
  \/ \E key \in xfCmd.todo : WriteRecord(key)
  \/ \E item \in xfCmd.details : WriteDetail(item)
  \/ EndStage \/ Interrupt
  \/ \E r \in Range(RunOrder) : EndRun(r)
  \/ \E p \in Range(PipeOrder) : SaveAs(p, "renamed")

TransferSpec(sources, targets) == TransferInit(sources, targets) /\ [][Transfer]_xfVars

-----------------------------------------------------------------------------
(* At every moment, and so wherever a command is cut off: nothing in the    *)
(* target refers to what is not there.                                     *)
Closed(t) ==
  /\ \A o \in t.overrides : o[1] \in DOMAIN t.envs
  /\ \A e \in DOMAIN t.envs : t.envs[e] = None \/ t.envs[e] \in DOMAIN t.envs
  /\ \A v \in DOMAIN t.versions : v[1] \in DOMAIN t.rows
  /\ \A x \in t.stats : x[1] \in DOMAIN t.runs
  /\ DOMAIN t.rows \subseteq DOMAIN t.defs

Kept(before, after) == \A x \in DOMAIN before : x \in DOMAIN after /\ after[x] = before[x]

(* What the target had stays; only an import replaces definitions.         *)
Preserved(before, after) ==
  /\ Kept(before.rows, after.rows) /\ Kept(before.versions, after.versions)
  /\ Kept(before.runs, after.runs)
  /\ before.stats \subseteq after.stats /\ before.overrides \subseteq after.overrides
  /\ DOMAIN before.envs \subseteq DOMAIN after.envs
  /\ xfCmd.kind # "sqlite" => Kept(before.defs, after.defs)

NameInUse(p, name) == \E q \in DOMAIN xfTarget.rows : q # p /\ xfTarget.rows[q] = name

(* What a command that reports success has copied: every record that was    *)
(* listed, under its own id, whatever earlier attempts left behind; only an *)
(* import leaves out an environment listed before its fallback.            *)
Copied(listed) ==
  /\ \A e \in DOMAIN listed.envs.envs :
       \/ e \in DOMAIN xfTarget.envs /\
            (xfCmd.kind = "traits" \/ xfTarget.envs[e] = listed.envs.envs[e])
       \/ xfCmd.kind # "export" /\ (Before(EnvOrder, e, listed.envs.envs[e]) \/
            listed.envs.envs[e] \notin DOMAIN xfTarget.envs \/ e = "prod")
  /\ \A o \in listed.envs.overrides : o[1] \in DOMAIN xfTarget.envs =>
       o \in xfTarget.overrides \/ xfCmd.kind # "export"
  /\ \A p \in DOMAIN listed.pipes.rows :
       LET name == listed.pipes.rows[p] IN
       IF xfCmd.kind = "traits" THEN name \in Range(xfTarget.rows)
       ELSE \/ p \in DOMAIN xfTarget.rows
            \/ xfCmd.kind = "sqlite" /\ NameInUse(p, name)
  /\ xfCmd.kind # "traits" =>
       /\ DOMAIN listed.pipes.versions \subseteq DOMAIN xfTarget.versions
       /\ DOMAIN listed.runs.runs \subseteq DOMAIN xfTarget.runs
       /\ listed.runs.stats \subseteq xfTarget.stats

(* A command fails only over a name another pipeline has in the target or   *)
(* (export) an environment whose fallback is not there yet.                *)
Excused(item) ==
  \/ item.op = "pipe" /\ NameInUse(item.key, item.value.name)
  \/ item.op = "env" /\ xfCmd.kind = "export" /\ item.value \notin DOMAIN xfTarget.envs
  \/ item.op = "version" /\ NameInUse(item.key[1], xfTarget.defs[item.key[1]].name)

(* What theorems assume of the stores a copy begins with: nothing refers   *)
(* to what is not there, a definition has the name of its row, no          *)
(* environment falls back on itself, and the listing has all of them.      *)
SoundSource(s) ==
  /\ Closed(s) /\ \A p \in DOMAIN s.rows : s.rows[p] = s.defs[p].name
  /\ \A e \in DOMAIN s.envs : s.envs[e] # e
  /\ DOMAIN s.envs \cup {"prod", "dev"} \subseteq Range(EnvOrder)

StoresAreSound(sources, targets) ==
  /\ None \notin Kinds \cup {"prod"} /\ DOMAIN EnvOrder \subseteq Int
  /\ \A s \in sources : SoundSource(s) /\ s = Backend(s.envs, s.overrides, s.rows, s.defs, s.versions, s.runs, s.stats)
  /\ \A t \in targets : /\ Closed(t) /\ DOMAIN t.defs = DOMAIN t.rows
                         /\ t = Backend(t.envs, t.overrides, t.rows, t.defs, t.versions, t.runs, t.stats)

(* A copy cut off anywhere leaves a consistent target that kept what it had,*)
(* success means that all that was listed is there, and giving the command *)
(* again never fails over what an earlier attempt wrote.                   *)
TransferKeeps ==
  /\ Closed(xfTarget)
  /\ Preserved(xfCmd.before, xfTarget)
  /\ xfCmd.stage = "done" => Copied(xfCmd.listed)
  /\ xfCmd.stage = "failed" => \A item \in xfCmd.details : Excused(item)
=============================================================================
