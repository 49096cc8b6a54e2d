---------------------------- MODULE RunVariables ----------------------------
(***************************************************************************)
(* The variables of a run: where the overrides come from (a request, the   *)
(* event a trigger fired on, an iteration of a backfill's date range), and *)
(* how they and the defaults end up in a node's text.  Time is counted in  *)
(* hours of a small calendar; a text is a sequence of tokens.              *)
(***************************************************************************)
EXTENDS Integers, Sequences, FiniteSets, SequencesExt, FiniteSetsExt

CONSTANTS
  Times, Granularities,
  HoursPerDay, DaysPerWeek,
  MonthStarts,        \* midnights; one lies after every end of a range
  Kinds,              \* who starts the run: api, cli, file, webhook, backfill
  Declarations,       \* of variable v: None or [type, default]
  Values, EnvText,    \* override values; the text of an environment variable
  None

VARIABLES
  rngCfg,             \* [start, end, unit]
  rngStage, rngCursor,
  rngOut,             \* the iterations so far
  varCfg,             \* [kind, decl, base, expr, event] of a run
  varStage,
  overrides,          \* name -> value
  varText             \* the node's text after interpolation

rngVars == <<rngCfg, rngStage, rngCursor, rngOut>>
runVarVars == <<varCfg, varStage, overrides, varText>>

-----------------------------------------------------------------------------
Midnight(t) == t - (t % HoursPerDay)

Advance(t, unit) ==
  CASE unit = "hour" -> t + 1
    [] unit = "day" -> t + HoursPerDay
    [] unit = "week" -> t + DaysPerWeek * HoursPerDay
    [] unit = "month" -> Min({m \in MonthStarts : m > t})

(* format_dt: only hours keep the time of day.                             *)
FormatDt(t, unit) == IF unit = "hour" THEN t ELSE Midnight(t)

(* expand_date_range                                                       *)
BeginRange ==
  /\ rngStage = "new"
  /\ rngStage' = IF rngCfg.start >= rngCfg.end THEN "empty" ELSE "expanding"
  /\ UNCHANGED <<rngCfg, rngCursor, rngOut>>

ClampedMutant(next) == next                 \* the last window runs past the end

Clamped(next) == IF next > rngCfg.end THEN rngCfg.end ELSE next

StepRange ==
  /\ rngStage = "expanding" /\ rngCursor < rngCfg.end
  /\ LET next == Advance(rngCursor, rngCfg.unit)
         from == FormatDt(rngCursor, rngCfg.unit)
     IN /\ rngOut' = Append(rngOut, [index |-> Len(rngOut), key |-> from, start |-> from,
                                     end |-> FormatDt(Clamped(next), rngCfg.unit)])
        /\ rngCursor' = next
  /\ UNCHANGED <<rngCfg, rngStage>>

EndRange ==
  /\ rngStage = "expanding" /\ rngCursor >= rngCfg.end
  /\ rngStage' = "done"
  /\ UNCHANGED <<rngCfg, rngCursor, rngOut>>

-----------------------------------------------------------------------------
NoValue == [n \in {} |-> None]

Some(name, value) == [n \in {name} |-> value]

(* evaluate_file_arrival, evaluate_webhook and apply_date_mapping: the      *)
(* expressions a mapping may use, and their values for the event.          *)
Evaluated(kind, event) ==
  CASE kind = "file" -> [e \in {"path", "count"} |->
                           IF e = "count" THEN [type |-> "integer", text |-> <<>>] ELSE event]
    [] kind = "webhook" -> [e \in {"body", "body.absent"} |->
                           IF e = "body" THEN event ELSE [type |-> "null", text |-> <<>>]]
    [] kind = "backfill" -> [e \in {"start"} |-> [event EXCEPT !.type = "string"]]
    [] OTHER -> NoValue

MatchesType(value, type) == value.type = type

(* validate_overrides: values for undeclared names pass.                   *)
Compatible(decl, given) == decl # None /\ "v" \in DOMAIN given => MatchesType(given["v"], decl.type)

Layered(below, above) ==
  [n \in DOMAIN below \cup DOMAIN above |-> IF n \in DOMAIN above THEN above[n] ELSE below[n]]

(* merge_variables, and the coordinator's insert of iteration variables.   *)
MergeVariablesMutant(base, mapped) == Layered(mapped, base)

MergeVariables(base, mapped) == Layered(base, mapped)

(* A request is checked against the declared types; a trigger's mapping is  *)
(* evaluated when it fires, and an unknown expression fires nothing; a     *)
(* backfill is refused when it is created.                                 *)
StartRun ==
  /\ varStage = "new"
  /\ IF varCfg.kind \in {"api", "cli"}
     THEN IF Compatible(varCfg.decl, varCfg.base)
          THEN varStage' = "started" /\ overrides' = varCfg.base
          ELSE varStage' = "refused" /\ UNCHANGED overrides
     ELSE LET values == Evaluated(varCfg.kind, varCfg.event) IN
          IF varCfg.expr = None THEN varStage' = "started" /\ overrides' = varCfg.base
          ELSE IF varCfg.expr \in DOMAIN values
          THEN /\ varStage' = "started"
               /\ overrides' = MergeVariables(varCfg.base, Some("v", values[varCfg.expr]))
          ELSE varStage' = "refused" /\ UNCHANGED overrides
  /\ UNCHANGED <<varCfg, varText>>

(* ResolvedVariables::resolve                                              *)
Builtin == Some("run_date", [type |-> "string", text |-> <<"today">>])

Defaults == IF varCfg.decl = None \/ varCfg.decl.default = None THEN NoValue
            ELSE Some("v", varCfg.decl.default)

Resolve == Layered(Layered(Builtin, Defaults), overrides)

(* interpolate: environment references first, then variables, each pass    *)
(* over the text the previous one left.                                    *)
ReplaceEnv(text) ==
  FlattenSeq([i \in DOMAIN text |-> IF text[i] = "env" THEN EnvText ELSE <<text[i]>>])

ReplaceVars(text, values) ==
  FlattenSeq([i \in DOMAIN text |->
    IF text[i] \notin {"v", "run_date"} THEN <<text[i]>>
    ELSE IF text[i] \in DOMAIN values THEN values[text[i]].text ELSE <<>>])

InterpolatedMutant(text, values) == ReplaceEnv(ReplaceVars(text, values))   \* the other order

Interpolated(text, values) == ReplaceVars(ReplaceEnv(text), values)

Template == <<"v", "env", "run_date">>

Interpolate ==
  /\ varStage = "started"
  /\ varStage' = "done"
  /\ varText' = Interpolated(Template, Resolve)
  /\ UNCHANGED <<varCfg, overrides>>

-----------------------------------------------------------------------------
Configurations ==
  [kind : Kinds, decl : Declarations, expr : {None, "path", "count", "body", "body.absent", "start"},
   base : {NoValue} \cup {Some(n, x) : n \in {"v", "run_date"}, x \in Values}, event : Values]

Init(ranges, runs) ==
  /\ rngCfg \in ranges
  /\ rngStage = "new" /\ rngCursor = rngCfg.start /\ rngOut = <<>>
  /\ varCfg \in runs
  /\ varStage = "new" /\ overrides = NoValue /\ varText = <<>>

Ranges == [start : Times, end : Times, unit : Granularities]

Expanding == (BeginRange \/ StepRange \/ EndRange) /\ UNCHANGED runVarVars

Starting == (StartRun \/ Interpolate) /\ UNCHANGED rngVars

-----------------------------------------------------------------------------
(* The iterations of a date range are numbered and keyed without repetition, *)
(* their windows follow each other without a gap or an overlap, and they   *)
(* cover the range: exactly, if it is given in whole days (or by hours).   *)
RangesTile ==
  /\ \A i \in DOMAIN rngOut : rngOut[i].index = i - 1
  /\ \A i, j \in DOMAIN rngOut : i < j =>
       rngOut[i].key # rngOut[j].key /\ (j = i + 1 => rngOut[i].end = rngOut[j].start)
  /\ rngStage = "done" =>
       /\ rngOut[1].start = FormatDt(rngCfg.start, rngCfg.unit)
       /\ Last(rngOut).end = FormatDt(rngCfg.end, rngCfg.unit)
       /\ (\A t \in {rngCfg.start, rngCfg.end} : FormatDt(t, rngCfg.unit) = t) =>
            /\ rngOut[1].start = rngCfg.start /\ Last(rngOut).end = rngCfg.end
            /\ \A i \in DOMAIN rngOut : rngOut[i].start < rngOut[i].end

(* A node reads of every variable the most specific value somebody gave it   *)
(* (event, override, default, built-in), verbatim even when the value looks *)
(* like a reference; a request never runs with a value of another type.    *)
Given(name) ==
  LET values == Evaluated(varCfg.kind, varCfg.event) IN
  CASE name = "v" /\ varCfg.expr \in DOMAIN values -> values[varCfg.expr].text
    [] name \in DOMAIN varCfg.base /\ ~(name = "v" /\ varCfg.expr \in DOMAIN values) ->
         varCfg.base[name].text
    [] name = "v" /\ name \notin DOMAIN varCfg.base /\ varCfg.expr \notin DOMAIN values ->
         IF varCfg.decl = None \/ varCfg.decl.default = None THEN <<>> ELSE varCfg.decl.default.text
    [] OTHER -> <<"today">>

VariablesArrive ==
  varStage = "done" =>
    /\ varText = Given("v") \o
         FlattenSeq([i \in DOMAIN EnvText |->
           IF EnvText[i] = "v" THEN Given("v") ELSE <<EnvText[i]>>]) \o Given("run_date")
    /\ varCfg.kind \in {"api", "cli"} /\ varCfg.decl # None /\ "v" \in DOMAIN varCfg.base =>
         varCfg.base["v"].type = varCfg.decl.type
=============================================================================
