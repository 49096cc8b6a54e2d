---------------------------- MODULE Materialization ---------------------------
(***************************************************************************)
(* The materialization policy of a sink: how it is validated, and what a   *)
(* sequence of runs makes of it while the policy is edited, the columns of *)
(* the source change, stores lose writes and state is reset.  A row is its *)
(* number; every watermark column grows with it.                           *)
(***************************************************************************)
EXTENDS Absent, Integers, Sequences, FiniteSets, SequencesExt, FiniteSetsExt, Functions

CONSTANTS
  PolicyChoices, Schemas,   \* what an edit may choose
  MaxRuns, MaxRows, MaxEdits, MaxFaults

VARIABLES
  mzPolicy,
  mzSource,    \* [schema, rows]
  mzStore,     \* [mark, recorded]: incremental_state and the latest schema
  mzTarget,    \* [columns, rows, mixed]
  mzRun, mzUsed

mzVars == <<mzPolicy, mzSource, mzStore, mzTarget, mzRun, mzUsed>>

Policy(read, strategy, watermark, keys, partition, onChange, firstRun, lookback, snapshot) ==
  [read |-> read, strategy |-> strategy, watermark |-> watermark, keys |-> keys,
   partition |-> partition, onChange |-> onChange, firstRun |-> firstRun,
   lookback |-> lookback, snapshot |-> snapshot]

Watermark(column, type) == [column |-> column, type |-> type]
Snapshot(detection, checks, updatedAt) ==
  [detection |-> detection, checks |-> checks, updatedAt |-> updatedAt]

-----------------------------------------------------------------------------
(* Durations, as sequences of one-letter words.                            *)
Digits == [d \in {"0", "1", "2"} |-> CASE d = "0" -> 0 [] d = "1" -> 1 [] d = "2" -> 2]
Scale == [u \in {"D", "H", "M", "S"} |->
            CASE u = "D" -> 86400 [] u = "H" -> 3600 [] u = "M" -> 60 [] u = "S" -> 1]

(* is_iso8601_duration: what the policy check accepts.                     *)
IsDuration(text) ==
  /\ Len(text) >= 3 /\ text[1] = "P"
  /\ \E i \in 2..Len(text) : text[i] \in DOMAIN Digits
  /\ \A i \in 2..Len(text) : text[i] \in DOMAIN Digits \cup DOMAIN Scale \cup {"Y", "W", "T"}
  /\ Cardinality({i \in 2..Len(text) : text[i] = "T"}) <= 1

(* parse_lookback: what a run accepts, letter by letter.                   *)
Scan(s, c) ==
  IF c = "T" THEN [s EXCEPT !.ok = @ /\ ~s.time /\ ~s.open, !.time = TRUE]
  ELSE IF c \in DOMAIN Digits THEN [s EXCEPT !.number = 10 * @ + Digits[c], !.open = TRUE]
  ELSE IF s.open /\ c \in (IF s.time THEN {"H", "M", "S"} ELSE {"D"})
       THEN [s EXCEPT !.seconds = @ + s.number * Scale[c], !.number = 0, !.open = FALSE, !.unit = TRUE]
  ELSE [s EXCEPT !.ok = FALSE]

ParseLookback(text) ==
  IF text = <<>> \/ text[1] # "P" THEN None
  ELSE LET s == FoldLeft(Scan, [ok |-> TRUE, time |-> FALSE, open |-> FALSE, unit |-> FALSE,
                                number |-> 0, seconds |-> 0], Tail(text))
       IN IF s.ok /\ ~s.open /\ s.unit THEN s.seconds ELSE None

-----------------------------------------------------------------------------
(* validate_policy: the set of complaints.                                 *)
NoLookback == <<"P", "T", "0", "S">>

WatermarkErrors(p) ==
  IF p.read = "full" THEN {e \in {"watermark forbidden"} : p.watermark # None}
  ELSE IF p.watermark = None THEN {"watermark missing"}
  ELSE {e \in {"column empty"} : p.watermark.column = ""}

KeyErrors(p) ==
  IF p.strategy \in {"merge", "delete_insert", "snapshot"}
  THEN {e \in {"keys required"} : p.keys \in {None, "empty"}}
  ELSE {e \in {"keys forbidden"} : p.keys # None}

PartitionErrors(p) ==
  {e \in {"partition required"} : p.strategy = "insert_overwrite" /\ ~p.partition} \cup
  {e \in {"partition forbidden"} : p.strategy # "insert_overwrite" /\ p.partition}

LookbackErrors(p) ==
  IF p.lookback = NoLookback THEN {}
  ELSE {e \in {"lookback invalid"} : ~IsDuration(p.lookback)} \cup
       {e \in {"lookback unsupported"} :
          p.read = "full" \/ (IF p.watermark = None THEN TRUE ELSE p.watermark.type # "timestamp")}

DetectionErrors(p) ==
  IF p.snapshot.detection = "check"
  THEN {e \in {"check columns required"} : ~p.snapshot.checks} \cup
       {e \in {"check with incremental"} : p.read = "incremental"}
  ELSE IF p.snapshot.updatedAt = "" THEN {"updated_at required"}
  ELSE {e \in {"two columns"} : p.read = "incremental" /\
          (IF p.watermark = None THEN FALSE ELSE p.watermark.column # p.snapshot.updatedAt)}

SnapshotErrors(p) ==
  IF p.strategy # "snapshot" THEN {e \in {"snapshot forbidden"} : p.snapshot # None}
  ELSE IF p.snapshot = None THEN {"snapshot required"} ELSE DetectionErrors(p)

ValidatePolicyMutant(p) == \* an unneeded watermark is no error
  (WatermarkErrors(p) \ {"watermark forbidden"}) \cup KeyErrors(p) \cup PartitionErrors(p)
  \cup LookbackErrors(p) \cup SnapshotErrors(p)

ValidatePolicy(p) ==
  WatermarkErrors(p) \cup KeyErrors(p) \cup PartitionErrors(p)
  \cup LookbackErrors(p) \cup SnapshotErrors(p)

-----------------------------------------------------------------------------
(* Watermarks: of the source's column, and stored as text.                 *)
TypeMatches(columnType, type) ==
  CASE type = "timestamp" -> columnType \in {"Timestamp", "Date32"}
    [] type = "int64" -> columnType \in {"Int32", "Int64"}
    [] type = "string" -> columnType = "Utf8"

Value(row, column) == IF column = "id" THEN row ELSE 10 + row

(* stored_to_scalar: the text of another type does not parse, except that  *)
(* every text is a string.                                                 *)
ToScalar(type, mark, lookback) ==
  IF type = "string" THEN mark.value
  ELSE IF mark.type # type THEN None
  ELSE IF type = "timestamp" THEN mark.value - lookback ELSE mark.value

(* array_max casts whatever it finds: a timestamp becomes a large number, a *)
(* number an early time, and a text (here never a number) becomes NULL.    *)
Cast(columnType, type, value) ==
  IF type = "string" \/ TypeMatches(columnType, type) THEN value
  ELSE IF columnType = "Utf8" THEN None
  ELSE IF type = "int64" THEN 1000 * value ELSE value \div 1000

(* fold_max_watermark, then scalar_to_stored.                              *)
Newest(rows, schema, w) ==
  IF rows = {} \/ w.column \notin DOMAIN schema THEN None
  ELSE Cast(schema[w.column], w.type, Max({Value(r, w.column) : r \in rows}))

-----------------------------------------------------------------------------
(* Schemas: the stored form keeps the types of a short list and turns the  *)
(* others into Utf8.                                                       *)
Listed == {"Int32", "Int64", "Utf8", "Date32"}
Restored(schema) == [c \in DOMAIN schema |-> IF schema[c] \in Listed THEN schema[c] ELSE "Utf8"]

SchemaDiff(prev, current) ==
  [added |-> DOMAIN current \ DOMAIN prev, removed |-> DOMAIN prev \ DOMAIN current,
   changed |-> {c \in DOMAIN prev \cap DOMAIN current : prev[c] # current[c]}]

ApplyPolicyMutant(diff, onChange) ==                 \* new types pass with new columns
  IF diff = SchemaDiff(<<>>, <<>>) THEN "proceed"
  ELSE IF onChange = "fail" THEN "abort"
  ELSE IF onChange = "ignore" THEN "proceed"
  ELSE IF diff.added # {} \/ onChange = "sync_all_columns" THEN "alter"
  ELSE IF diff.changed # {} THEN "abort" ELSE "proceed"

ApplyPolicy(diff, onChange) ==
  IF diff = SchemaDiff(<<>>, <<>>) THEN "proceed"
  ELSE IF onChange = "fail" THEN "abort"
  ELSE IF onChange = "ignore" THEN "proceed"
  ELSE IF diff.changed # {} THEN "abort"
  ELSE IF diff.added # {} \/ onChange = "sync_all_columns" THEN "alter" ELSE "proceed"

-----------------------------------------------------------------------------
(* A save through the API takes any policy; an import refuses a bad one.   *)
SavePolicy(p, by) ==
  /\ mzUsed.edits < MaxEdits /\ (by = "import" => ValidatePolicy(p) = {})
  /\ mzPolicy' = p
  /\ mzUsed' = [mzUsed EXCEPT !.edits = @ + 1]
  /\ UNCHANGED <<mzSource, mzStore, mzTarget, mzRun>>

ChangeSource(schema) ==
  /\ mzUsed.edits < MaxEdits /\ schema # mzSource.schema
  /\ mzSource' = [mzSource EXCEPT !.schema = schema]
  /\ mzUsed' = [mzUsed EXCEPT !.edits = @ + 1]
  /\ UNCHANGED <<mzPolicy, mzStore, mzTarget, mzRun>>

AddRow ==
  /\ mzSource.rows < MaxRows
  /\ mzSource' = [mzSource EXCEPT !.rows = @ + 1]
  /\ UNCHANGED <<mzPolicy, mzStore, mzTarget, mzRun, mzUsed>>

(* incremental reset: the state goes, the recorded schema stays.           *)
Reset ==
  /\ mzUsed.edits < MaxEdits /\ mzStore.mark # None
  /\ mzStore' = [mzStore EXCEPT !.mark = None]
  /\ mzUsed' = [mzUsed EXCEPT !.edits = @ + 1]
  /\ UNCHANGED <<mzPolicy, mzSource, mzTarget, mzRun>>

-----------------------------------------------------------------------------
(* A run: the plan, the read, the write, and what is stored after it.      *)
Idle(result, why) ==
  [stage |-> "idle", result |-> result, why |-> why, policy |-> None, refresh |-> FALSE,
   mark |-> None, schema |-> <<>>, batch |-> {}, upTo |-> 0, valid |-> TRUE]

Ended(result, why) ==
  [Idle(result, why) EXCEPT !.schema = mzRun.schema, !.upTo = mzRun.upTo, !.valid = mzRun.valid]

IsIncremental(p) == p.read = "incremental"

PlanError(p, refresh, bootstrap) ==
  IF ~IsIncremental(p) THEN None
  ELSE IF p.watermark = None THEN "panic"
  ELSE IF ParseLookback(p.lookback) = None THEN "lookback"
  ELSE IF mzStore.mark = None /\ ~refresh /\ p.firstRun = "fail" /\ ~bootstrap THEN "bootstrap"
  ELSE None

StartRun(refresh, bootstrap) ==
  /\ mzRun.stage = "idle" /\ mzUsed.runs < MaxRuns
  /\ mzUsed' = [mzUsed EXCEPT !.runs = @ + 1]
  /\ LET why == PlanError(mzPolicy, refresh, bootstrap)
         valid == ValidatePolicy(mzPolicy) = {}
     IN mzRun' = IF why # None THEN [Idle("failed", why) EXCEPT !.valid = valid]
                 ELSE [Idle(None, None) EXCEPT !.stage = "read", !.policy = mzPolicy, !.valid = valid,
                                               !.refresh = refresh, !.mark = mzStore.mark]
  /\ UNCHANGED <<mzPolicy, mzSource, mzStore, mzTarget>>

Filters == IsIncremental(mzRun.policy) /\ ~mzRun.refresh

ReadError ==
  LET w == mzRun.policy.watermark IN
  IF ~Filters THEN None
  ELSE IF w.column \notin DOMAIN mzSource.schema THEN "no column"
  ELSE IF ~TypeMatches(mzSource.schema[w.column], w.type) THEN "type"
  ELSE IF mzRun.mark = None THEN None
  ELSE IF ToScalar(w.type, mzRun.mark, 0) = None THEN "stored value" ELSE None

Passed ==
  LET w == mzRun.policy.watermark
  IN IF ~Filters \/ mzRun.mark = None THEN 1..mzSource.rows
     ELSE {r \in 1..mzSource.rows : Value(r, w.column) > ToScalar(w.type, mzRun.mark, ParseLookback(mzRun.policy.lookback))}

ReadSource ==
  /\ mzRun.stage = "read"
  /\ mzRun' = IF ReadError # None THEN Ended("failed", ReadError)
              ELSE [mzRun EXCEPT !.stage = "write", !.batch = Passed, !.schema = mzSource.schema,
                                 !.upTo = mzSource.rows]
  /\ UNCHANGED <<mzPolicy, mzSource, mzStore, mzTarget, mzUsed>>

(* execute_sink into PostgreSQL: the diff decides, then the sink writes and *)
(* may add the columns its target lacks; without them it refuses the rows. *)
Verdict ==
  IF ~IsIncremental(mzRun.policy) \/ mzRun.batch = {} \/ mzStore.recorded = None THEN "proceed"
  ELSE ApplyPolicy(SchemaDiff(Restored(mzStore.recorded), mzRun.schema), mzRun.policy.onChange)

Columns ==
  IF mzTarget.columns = None THEN DOMAIN mzRun.schema
  ELSE IF Verdict = "alter" THEN mzTarget.columns \cup DOMAIN mzRun.schema
  ELSE mzTarget.columns

(* The run reads by a mark that is not a value of its watermark column.    *)
Foreign ==
  /\ Filters /\ mzRun.mark # None
  /\ ~mzRun.mark.own \/ mzRun.policy.watermark # Watermark(mzRun.mark.column, mzRun.mark.type)

Written ==
  [columns |-> IF mzRun.batch = {} THEN mzTarget.columns ELSE Columns,
   rows |-> mzTarget.rows \cup mzRun.batch,
   mixed |-> (IF mzRun.batch = 1..mzRun.upTo THEN FALSE ELSE mzTarget.mixed \/ Foreign)]

WriteSink ==
  /\ mzRun.stage = "write"
  /\ IF Verdict = "abort" THEN mzRun' = Ended("failed", "schema") /\ UNCHANGED mzTarget
     ELSE IF mzRun.batch # {} /\ ~(DOMAIN mzRun.schema \subseteq Columns)
     THEN mzRun' = Ended("failed", "column") /\ UNCHANGED mzTarget
     ELSE /\ mzTarget' = Written
          /\ mzRun' = IF IsIncremental(mzRun.policy) THEN [mzRun EXCEPT !.stage = "state"]
                      ELSE Ended("success", None)
  /\ UNCHANGED <<mzPolicy, mzSource, mzStore, mzUsed>>

(* The sink fails, or the process dies between two steps.                  *)
Stop ==
  /\ mzRun.stage # "idle" /\ mzUsed.faults < MaxFaults
  /\ mzRun' = Ended("failed", "stopped")
  /\ mzUsed' = [mzUsed EXCEPT !.faults = @ + 1]
  /\ UNCHANGED <<mzPolicy, mzSource, mzStore, mzTarget>>

(* A write of a store that fails is logged and no more.                    *)
Stored(store, lost) ==
  /\ mzUsed.faults + lost <= MaxFaults
  /\ mzStore' = IF lost = 1 THEN mzStore ELSE store
  /\ mzUsed' = [mzUsed EXCEPT !.faults = @ + lost]

(* The newest value of the batch, else the old text under the new column;  *)
(* own records whether it is a value of that column.                       *)
Advanced ==
  LET w == mzRun.policy.watermark
      newest == Newest(mzRun.batch, mzRun.schema, w)
      mark(value, own) == [column |-> w.column, type |-> w.type, value |-> value, own |-> own]
  IN IF newest # None THEN mark(newest, TypeMatches(mzRun.schema[w.column], w.type))
     ELSE IF mzRun.mark = None THEN mzStore.mark
     ELSE mark(mzRun.mark.value, mzRun.mark.own /\ w = Watermark(mzRun.mark.column, mzRun.mark.type))

SaveState(lost) ==
  /\ mzRun.stage = "state"
  /\ Stored([mzStore EXCEPT !.mark = Advanced], lost)
  /\ mzRun' = [mzRun EXCEPT !.stage = "schema"]
  /\ UNCHANGED <<mzPolicy, mzSource, mzTarget>>

RecordSchema(lost) ==
  /\ mzRun.stage = "schema"
  /\ Stored([mzStore EXCEPT !.recorded = IF mzRun.batch = {} THEN @ ELSE mzRun.schema], lost)
  /\ mzRun' = Ended("success", None)
  /\ UNCHANGED <<mzPolicy, mzSource, mzTarget>>

Init(policies, schemas) ==
  /\ mzPolicy \in policies
  /\ mzSource \in [schema : schemas, rows : {1}]
  /\ mzStore = [mark |-> None, recorded |-> None]
  /\ mzTarget = [columns |-> None, rows |-> {}, mixed |-> FALSE]
  /\ mzRun = Idle(None, None)
  /\ mzUsed = [runs |-> 0, edits |-> 0, faults |-> 0]

Next ==
  \/ \E p \in PolicyChoices, by \in {"api", "import"} : SavePolicy(p, by)
  \/ \E s \in Schemas : ChangeSource(s)
  \/ AddRow \/ Reset
  \/ \E refresh, bootstrap \in BOOLEAN : StartRun(refresh, bootstrap)
  \/ ReadSource \/ WriteSink \/ Stop
  \/ \E lost \in {0, 1} : SaveState(lost) \/ RecordSchema(lost)

MaterializationSpec == Init(PolicyChoices, Schemas) /\ [][Next]_mzVars

(* What an edit can choose: a watermark has one of three types, a lookback that *)
(* parses is a number of seconds, a schema gives columns types.            *)
AllColumns == UNION {DOMAIN s : s \in Schemas}

ChoicesAreTyped ==
  /\ \A p \in PolicyChoices :
       /\ p.watermark # None =>
            /\ p.watermark = Watermark(p.watermark.column, p.watermark.type)
            /\ p.watermark.type \in {"timestamp", "int64", "string"}
       /\ ParseLookback(p.lookback) \in Nat \cup {None}
  /\ \A s \in Schemas : s = [c \in DOMAIN s |-> s[c]]
  /\ None \notin Schemas /\ \A cs \in SUBSET AllColumns : cs # None
  /\ None \notin {"panic", "lookback", "bootstrap", "schema"}

-----------------------------------------------------------------------------
(* The fields a policy must have, and may have beside them; read_mode and   *)
(* write_strategy are chosen freely.                                       *)
Needs(p) ==
  {f \in {"watermark"} : p.read = "incremental"} \cup
  {f \in {"keys"} : p.strategy \in {"merge", "delete_insert", "snapshot"}} \cup
  {f \in {"partition"} : p.strategy = "insert_overwrite"} \cup
  {f \in {"snapshot"} : p.strategy = "snapshot"}

Fields(p) ==
  {f \in {"watermark"} : p.watermark # None} \cup {f \in {"keys"} : p.keys # None} \cup
  {f \in {"partition"} : p.partition} \cup {f \in {"snapshot"} : p.snapshot # None}

Documented(days, hours, minutes, seconds) ==
  LET word(n, u) == CASE n = 0 -> <<>> [] n = 1 -> <<"1", u>> [] n = 2 -> <<"2", u>>
                      [] n = 12 -> <<"1", "2", u>>
      time == word(hours, "H") \o word(minutes, "M") \o word(seconds, "S")
  IN <<"P">> \o word(days, "D") \o (IF time = <<>> THEN <<>> ELSE <<"T">> \o time)

FieldsFit(p) ==
  ValidatePolicy(p) = {} =>
    /\ Fields(p) = Needs(p)
    /\ p.lookback # NoLookback => p.watermark.type = "timestamp"
    /\ (IsIncremental(p) /\ p.strategy = "snapshot") => p.snapshot.updatedAt = p.watermark.column

(* A policy passes only with exactly the fields its mode and strategy need; *)
(* every lookback a run can parse passes, and one in the documented form is *)
(* read as the sum of its units.                                           *)
PolicyIsSound ==
  /\ FieldsFit(mzPolicy)
  /\ ParseLookback(mzPolicy.lookback) # None => IsDuration(mzPolicy.lookback)
  /\ \A d, h, m, s \in {0, 1, 12} :
       (d + h + m + s > 0 /\ mzPolicy.lookback = Documented(d, h, m, s)) =>
         ParseLookback(mzPolicy.lookback) = 86400 * d + 3600 * h + 60 * m + s

(* A successful run leaves every row that the source had when it was read   *)
(* in the target, whatever failed, was reset or was edited before it, as   *)
(* long as none since the last complete read went by a mark that was not   *)
(* a value of its own watermark column.                                    *)
NothingSkipped ==
  mzRun.stage = "idle" /\ mzRun.result = "success" /\ ~mzTarget.mixed =>
    1..mzRun.upTo \subseteq mzTarget.rows

Lossy(schema) == \E c \in DOMAIN schema : schema[c] \notin Listed

(* A run is refused over its columns only if they differ from those last    *)
(* recorded, or have a type the record does not keep; rows whose listed    *)
(* types changed are written only under ignore; no recorded column is      *)
(* missing in the target; and a run panics only under a policy that the    *)
(* validation would have refused.                                          *)
SchemaIsGuarded ==
  /\ mzRun.why = "schema" => mzRun.schema # mzStore.recorded \/ Lossy(mzRun.schema)
  /\ mzRun.why = "panic" => ~mzRun.valid
  /\ mzStore.recorded # None => DOMAIN mzStore.recorded \subseteq mzTarget.columns
  /\ (mzRun.stage = "state" /\ mzRun.batch # {} /\ mzStore.recorded # None /\ mzRun.policy.onChange # "ignore") =>
       /\ \A c \in DOMAIN mzStore.recorded \cap DOMAIN mzRun.schema :
            mzStore.recorded[c] = mzRun.schema[c] \/ mzStore.recorded[c] \notin Listed
       /\ mzRun.policy.onChange = "fail" => DOMAIN mzStore.recorded = DOMAIN mzRun.schema
=============================================================================
