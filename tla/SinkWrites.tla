----------------------------- MODULE SinkWrites -----------------------------
(***************************************************************************)
(* The sinks of the connectors crate: what the writes of successive runs,  *)
(* one after the other, leave in one PostgreSQL table, one file, one cloud *)
(* object or one directory of Hive partitions, when a write may fail or    *)
(* its process may die at every step.  The snapshot strategy has a module  *)
(* of its own (SnapshotMerge).                                             *)
(***************************************************************************)
EXTENDS Absent, Integers, Sequences, FiniteSets, SequencesExt

CONSTANTS SinkKeys,      \* values of the key column, which also names the partition
          SinkLoads,     \* what a run hands to the sink: [rows, wide], or None for no record batch
          MaxSinkWrites, \* bound on the number of writes
          Gone           \* a partition that is not there

VARIABLES
  sinkCfg,     \* the sink's configuration
  sinkTarget,  \* rows of the table or file, whether it is there and ends within a line,
               \* partitions, extra column
  sinkOp,      \* the write in progress
  sinkBefore,  \* the target when the last write began
  sinkReply,   \* how the last write ended
  sinkWrites

sinkVars == <<sinkCfg, sinkTarget, sinkOp, sinkBefore, sinkReply, sinkWrites>>

Heading == [k |-> "head", v |-> "head"]
Spoiled == [k |-> "spoiled", v |-> "spoiled"]   \* half a line, and another after it

(* Rows are keyed rows, and none is the heading of a file or a spoiled one. *)
LoadRows == UNION {ToSet(load.rows) : load \in SinkLoads \ {None}}
ASSUME SinksAssumption ==
  /\ \A load \in SinkLoads \ {None} : load.rows \in Seq(LoadRows) /\ load.wide \in BOOLEAN
  /\ \A r \in LoadRows : r.k \in SinkKeys \cup {None}
  /\ Heading \notin LoadRows /\ Spoiled \notin LoadRows
NoParts == [p \in SinkKeys |-> Gone]
NoWrite == [step |-> "idle"]

Postgres == [sink : {"postgres"}, strategy : {"append", "merge", "truncate_insert", "delete_insert", "insert_overwrite"},
             keyed : BOOLEAN, evolve : BOOLEAN]
File == [sink : {"csv", "parquet"}, strategy : {"append", "merge", "truncate_insert", "insert_overwrite"},
         cloud : BOOLEAN, append : BOOLEAN]
IsFile == sinkCfg.sink # "postgres"
Hive == IsFile /\ sinkCfg.strategy = "insert_overwrite"

(* A table is a function from row ids, a file a sequence; there is none, or *)
(* it is there, or it is a Parquet file without its footer ("torn").       *)
(* A table that the sink creates itself has no unique constraint.          *)
SinkInit ==
  /\ sinkCfg \in Postgres \cup File
  /\ \E file \in IF ~IsFile THEN {IF sinkCfg.keyed THEN "there" ELSE "gone"}
                 ELSE IF Hive /\ ~sinkCfg.cloud THEN {"gone", "there"} ELSE {"gone"} :
       sinkTarget = [rows |-> <<>>, file |-> file, half |-> FALSE, parts |-> NoParts, stale |-> {}, wide |-> FALSE]
  /\ sinkOp = NoWrite
  /\ sinkBefore = sinkTarget
  /\ sinkReply = [end |-> "none"]
  /\ sinkWrites = 0

-----------------------------------------------------------------------------
(* Which strategies a sink takes. *)
PgWriteFromPolicy(c) == c.strategy # "insert_overwrite"

CheckStrategySupported(c) ==
  \/ c.strategy = "append"
  \/ c.sink = "parquet" /\ c.strategy \in {"truncate_insert", "insert_overwrite"}

ValidateConfig(c) ==
  IF c.sink = "postgres" THEN PgWriteFromPolicy(c)
  ELSE CheckStrategySupported(c) /\ ~(c.cloud /\ c.append)

AppendMode(c) == c.append /\ c.strategy # "truncate_insert"

KeysIn(rows) == {rows[i].k : i \in DOMAIN rows} \ {None}
PartitionRows(rows, p) == SelectSeq(rows, LAMBDA r : r.k = p)

(* The end of a write: what it counted, and why it stopped. *)
Reply(end, ins, upd, del) == [end |-> end, load |-> sinkOp.load, ins |-> ins, upd |-> upd, del |-> del]
EndWrite(end) == sinkReply' = Reply(end, 0, 0, 0) /\ sinkOp' = NoWrite

Answer(load, end) ==
  sinkReply' = [end |-> end, load |-> load, ins |-> 0, upd |-> 0, del |-> 0] /\ UNCHANGED sinkOp
Proceed(load, step) ==
  sinkOp' = [step |-> step, load |-> load, tx |-> sinkTarget, lines |-> <<>>, ins |-> 0, upd |-> 0, del |-> 0, pos |-> 0,
             todo |-> KeysIn(load.rows)]
  /\ sinkReply' = [end |-> "none"]

PgWrite(load) ==
  IF load = None THEN Answer(load, "ok")
  ELSE IF ~PgWriteFromPolicy(sinkCfg) THEN Answer(load, "refused")
  ELSE Proceed(load, "connect")

HasNull(rows) == \E i \in 1..Len(rows) : rows[i].k = None

HiveWrite(load) ==
  IF load = None THEN Answer(load, "ok")
  ELSE IF HasNull(load.rows) THEN Answer(load, "refused")
  ELSE IF load.rows = <<>> THEN Answer(load, "ok")
  ELSE IF ~sinkCfg.cloud /\ sinkTarget.file # "gone" THEN Answer(load, "refused")
  ELSE Proceed(load, "stage")

CloudWrite(load) ==
  IF AppendMode(sinkCfg) THEN Answer(load, "refused") ELSE Proceed(load, "put")

LocalWrite(load) ==
  IF sinkCfg.sink = "parquet" /\ AppendMode(sinkCfg) /\ sinkTarget.file # "gone"
  THEN Answer(load, "refused")
  ELSE Proceed(load, "open")

FileWrite(load) ==
  IF ~CheckStrategySupported(sinkCfg) THEN Answer(load, "refused")
  ELSE IF Hive THEN HiveWrite(load)
  ELSE IF load = None THEN Answer(load, "ok")
  ELSE IF sinkCfg.cloud THEN CloudWrite(load)
  ELSE LocalWrite(load)

StartWrite ==
  /\ sinkOp.step = "idle" /\ sinkWrites < MaxSinkWrites
  /\ sinkWrites' = sinkWrites + 1
  /\ sinkBefore' = sinkTarget
  /\ \E load \in SinkLoads : IF IsFile THEN FileWrite(load) ELSE PgWrite(load)
  /\ UNCHANGED <<sinkCfg, sinkTarget>>

SinkAt(step) == sinkOp.step = step
SinkQuiet == UNCHANGED <<sinkCfg, sinkBefore, sinkWrites>>

-----------------------------------------------------------------------------
(* PostgreSQL: the table is created outside the transaction, the rest of   *)
(* the write works on the transaction's copy of it.                        *)
CreateTable ==
  /\ SinkAt("connect")
  /\ sinkTarget' = IF sinkTarget.file = "gone"
                   THEN [sinkTarget EXCEPT !.file = "there", !.wide = sinkOp.load.wide] ELSE sinkTarget
  /\ sinkOp' = [sinkOp EXCEPT !.step = "begin"]
  /\ UNCHANGED sinkReply /\ SinkQuiet

AddColumns ==
  /\ SinkAt("begin")
  /\ sinkOp' = [sinkOp EXCEPT !.step = "clear",
       !.tx = [sinkTarget EXCEPT !.wide = @ \/ (sinkCfg.evolve /\ sinkOp.load.wide)]]
  /\ UNCHANGED <<sinkTarget, sinkReply>> /\ SinkQuiet

Kept(rows) ==
  CASE sinkCfg.strategy = "truncate_insert" -> <<>>
    [] sinkCfg.strategy = "delete_insert" ->
         Restrict(rows, {i \in DOMAIN rows : rows[i].k \notin KeysIn(sinkOp.load.rows)})
    [] OTHER -> rows

Removed == Cardinality(DOMAIN sinkOp.tx.rows) - Cardinality(DOMAIN Kept(sinkOp.tx.rows))

ClearRowsMutant ==  \* the rows are removed outside the transaction
  /\ SinkAt("clear")
  /\ sinkOp' = [sinkOp EXCEPT !.step = "insert", !.tx.rows = Kept(@), !.del = Removed]
  /\ sinkTarget' = [sinkTarget EXCEPT !.rows = Kept(sinkOp.tx.rows)]
  /\ UNCHANGED sinkReply /\ SinkQuiet

ClearRows ==
  /\ SinkAt("clear")
  /\ sinkOp' = [sinkOp EXCEPT !.step = "insert", !.tx.rows = Kept(@), !.del = Removed]
  /\ UNCHANGED <<sinkTarget, sinkReply>> /\ SinkQuiet

(* One INSERT for each row; it fails for want of a column, on the constraint, *)
(* or for want of one.                                                     *)
Merging == sinkCfg.strategy = "merge"
NextRow == sinkOp.load.rows[sinkOp.pos + 1]
RowId == <<sinkWrites, sinkOp.pos + 1>>
Conflicts == {i \in DOMAIN sinkOp.tx.rows : NextRow.k # None /\ sinkOp.tx.rows[i].k = NextRow.k}
HasColumns == sinkOp.load.wide => sinkOp.tx.wide

Inserting == SinkAt("insert") /\ sinkOp.pos < Len(sinkOp.load.rows)
Refuses == ~HasColumns \/ (Merging /\ ~sinkCfg.keyed) \/ (~Merging /\ sinkCfg.keyed /\ Conflicts # {})

UpdateNext ==
  /\ Inserting /\ ~Refuses /\ Merging /\ Conflicts # {}
  /\ sinkOp' = [sinkOp EXCEPT !.pos = @ + 1, !.upd = @ + 1,
       !.tx.rows = [i \in DOMAIN @ |-> IF i \in Conflicts THEN NextRow ELSE @[i]]]
  /\ UNCHANGED <<sinkTarget, sinkReply>> /\ SinkQuiet

InsertNext ==
  /\ Inserting /\ ~Refuses /\ ~(Merging /\ Conflicts # {})
  /\ sinkOp' = [sinkOp EXCEPT !.pos = @ + 1, !.ins = @ + 1,
       !.tx.rows = [i \in DOMAIN @ \cup {RowId} |-> IF i = RowId THEN NextRow ELSE @[i]]]
  /\ UNCHANGED <<sinkTarget, sinkReply>> /\ SinkQuiet

RefuseRow ==
  /\ Inserting /\ Refuses
  /\ EndWrite("failed") /\ UNCHANGED sinkTarget /\ SinkQuiet

Committing == SinkAt("insert") /\ sinkOp.pos = Len(sinkOp.load.rows)
CommitRows ==
  /\ Committing
  /\ sinkTarget' = sinkOp.tx
  /\ sinkOp' = [sinkOp EXCEPT !.step = "index"]
  /\ UNCHANGED sinkReply /\ SinkQuiet

CreateIndexes ==
  /\ SinkAt("index")
  /\ sinkReply' = Reply("ok", sinkOp.ins, sinkOp.upd, sinkOp.del) /\ sinkOp' = NoWrite
  /\ UNCHANGED sinkTarget /\ SinkQuiet

(* An error of the server or the connection; one at the commit hides its outcome. *)
PgFails ==
  /\ sinkOp.step \in {"connect", "begin", "clear", "insert", "index"}
  /\ EndWrite("failed")
  /\ \/ UNCHANGED sinkTarget
     \/ Committing /\ sinkTarget' = sinkOp.tx
  /\ SinkQuiet

-----------------------------------------------------------------------------
(* Files: a cloud object is replaced whole, a local file is written in place. *)
Lines(rows) == IF sinkCfg.sink = "csv" THEN <<Heading>> \o rows ELSE rows
RowsCounted == IF sinkCfg.strategy = "append" THEN Len(sinkOp.load.rows) ELSE 0

PutObject ==
  /\ SinkAt("put")
  /\ \/ /\ sinkTarget' = [sinkTarget EXCEPT !.rows = Lines(sinkOp.load.rows), !.file = "there"]
        /\ sinkReply' = Reply("ok", RowsCounted, 0, 0) /\ sinkOp' = NoWrite
     \/ UNCHANGED sinkTarget /\ EndWrite("failed")
  /\ SinkQuiet

Appending == AppendMode(sinkCfg) /\ sinkTarget.file # "gone"

(* What follows half a line is on that line.                               *)
Glue(half, rows) == IF half /\ rows # <<>> THEN <<Spoiled>> \o Tail(rows) ELSE rows

OpenFile ==
  /\ SinkAt("open")
  /\ sinkTarget' = [sinkTarget EXCEPT
       !.rows = IF Appending THEN @ ELSE <<>>,
       !.half = Appending /\ @,
       !.file = IF sinkCfg.sink = "parquet" THEN "torn" ELSE "there"]
  /\ sinkOp' = [sinkOp EXCEPT !.step = "lines",
       !.lines = IF Appending THEN Glue(sinkTarget.half, sinkOp.load.rows) ELSE Lines(sinkOp.load.rows)]
  /\ UNCHANGED sinkReply /\ SinkQuiet

(* The buffer is flushed when it is full, which may be within a line.      *)
WriteHalf ==
  /\ SinkAt("lines") /\ sinkOp.pos < Len(sinkOp.lines)
  /\ sinkCfg.sink = "csv" /\ ~sinkTarget.half
  /\ sinkTarget' = [sinkTarget EXCEPT !.half = TRUE]
  /\ UNCHANGED <<sinkOp, sinkReply>> /\ SinkQuiet

WriteLine ==
  /\ SinkAt("lines") /\ sinkOp.pos < Len(sinkOp.lines)
  /\ sinkOp' = [sinkOp EXCEPT !.pos = @ + 1]
  /\ sinkTarget' = IF sinkCfg.sink = "parquet" THEN sinkTarget
                   ELSE [sinkTarget EXCEPT !.rows = Append(@, sinkOp.lines[sinkOp.pos + 1]), !.half = FALSE]
  /\ UNCHANGED sinkReply /\ SinkQuiet

CloseFile ==
  /\ SinkAt("lines") /\ sinkOp.pos = Len(sinkOp.lines)
  /\ sinkTarget' = IF sinkCfg.sink = "parquet"
                   THEN [sinkTarget EXCEPT !.rows = sinkOp.lines, !.file = "there"] ELSE sinkTarget
  /\ sinkReply' = Reply("ok", RowsCounted, 0, 0) /\ sinkOp' = NoWrite
  /\ SinkQuiet

FileFails == sinkOp.step \in {"open", "lines"} /\ EndWrite("failed") /\ UNCHANGED sinkTarget /\ SinkQuiet

-----------------------------------------------------------------------------
(* Hive partitions, in order: each is staged (locally), removed, put in place. *)
Partition == CHOOSE p \in sinkOp.todo : TRUE

StagePartition ==
  /\ SinkAt("stage") /\ sinkOp.todo # {} /\ ~sinkCfg.cloud
  /\ sinkTarget' = [sinkTarget EXCEPT !.stale = @ \cup {Partition}]
  /\ sinkOp' = [sinkOp EXCEPT !.step = "remove"]
  /\ UNCHANGED sinkReply /\ SinkQuiet

RemovePartition ==
  /\ SinkAt("remove") \/ (SinkAt("stage") /\ sinkCfg.cloud /\ sinkOp.todo # {})
  /\ sinkTarget' = [sinkTarget EXCEPT !.parts[Partition] = Gone]
  /\ sinkOp' = [sinkOp EXCEPT !.step = "swap"]
  /\ UNCHANGED sinkReply /\ SinkQuiet

SwapPartition ==
  /\ SinkAt("swap")
  /\ sinkTarget' = [sinkTarget EXCEPT
       !.parts[Partition] = PartitionRows(sinkOp.load.rows, Partition),
       !.stale = @ \ {Partition}]
  /\ sinkOp' = [sinkOp EXCEPT !.step = "stage", !.todo = @ \ {Partition}]
  /\ UNCHANGED sinkReply /\ SinkQuiet

HiveDone ==
  /\ SinkAt("stage") /\ sinkOp.todo = {}
  /\ sinkReply' = Reply("ok", Len(sinkOp.load.rows), 0, 0) /\ sinkOp' = NoWrite
  /\ UNCHANGED sinkTarget /\ SinkQuiet

(* An error while staging removes the staging directory, a later one leaves it. *)
HiveFails ==
  /\ sinkOp.step \in {"stage", "remove", "swap"} /\ sinkOp.todo # {}
  /\ \/ UNCHANGED sinkTarget
     \/ SinkAt("stage") /\ sinkTarget' = [sinkTarget EXCEPT !.stale = @ \ {Partition}]
  /\ EndWrite("failed") /\ SinkQuiet

(* The process dies: a transaction is rolled back, files stay as they are. *)
SinkCrash == sinkOp.step # "idle" /\ EndWrite("crashed") /\ UNCHANGED sinkTarget /\ SinkQuiet

SinkNext ==
  \/ StartWrite
  \/ CreateTable \/ AddColumns \/ ClearRows \/ UpdateNext \/ InsertNext \/ RefuseRow
  \/ CommitRows \/ CreateIndexes \/ PgFails
  \/ PutObject \/ OpenFile \/ WriteHalf \/ WriteLine \/ CloseFile \/ FileFails
  \/ StagePartition \/ RemovePartition \/ SwapPartition \/ HiveDone \/ HiveFails
  \/ SinkCrash

SinkSpec == SinkInit /\ [][SinkNext]_sinkVars

-----------------------------------------------------------------------------
CountOf(rows, r) == Cardinality({i \in DOMAIN rows : rows[i] = r})
LastOfKey(rows, r) == \E i \in 1..Len(rows) : rows[i] = r /\ \A j \in i+1..Len(rows) : rows[j].k # r.k

(* How often a row is in the target after a strategy has been applied. *)
Effect(before, rows, r) ==
  LET old == CountOf(before, r)
      new == CountOf(rows, r)
      hit == r.k \in KeysIn(rows) IN
  CASE sinkCfg.strategy = "truncate_insert" -> new
    [] sinkCfg.strategy = "delete_insert" -> (IF hit THEN 0 ELSE old) + new
    [] sinkCfg.strategy = "merge" -> IF hit THEN (IF LastOfKey(rows, r) THEN 1 ELSE 0) ELSE old + new
    [] OTHER -> old + new

AllRows(load) == Range(sinkTarget.rows) \cup Range(sinkBefore.rows) \cup Range(load.rows)

Replaces == IsFile /\ ~AppendMode(sinkCfg)
Applied(load) ==
  \A r \in AllRows(load) \ {Heading} :
    CountOf(sinkTarget.rows, r) =
      IF Replaces THEN CountOf(load.rows, r) ELSE Effect(sinkBefore.rows, load.rows, r)

SameRows == sinkTarget.rows = sinkBefore.rows
CurrentLoad == IF sinkOp.step = "idle" THEN sinkReply.load ELSE sinkOp.load

(* Whoever reads a PostgreSQL table or a cloud object at any moment, whatever write failed, *)
(* finds all rows of a write or none of them; an error does not say which.                  *)
AllOrNothing ==
  (~IsFile \/ (sinkCfg.cloud /\ ~Hive)) /\ (sinkOp.step # "idle" \/ sinkReply.end # "none") =>
    SameRows \/ (CurrentLoad # None /\ Applied(CurrentLoad))

(* What lands of a load when a write before it died within a line: its first row is    *)
(* spoiled with that line.                                                             *)
Spoils == IsFile /\ AppendMode(sinkCfg) /\ sinkBefore.file # "gone" /\ sinkBefore.half
Landed(load) == [rows |-> Glue(Spoils, load.rows), wide |-> load.wide]

(* A write that answers has had the effect of its strategy, but for one row appended   *)
(* to half a line, and its receipt counts it.                                          *)
AnsweredIsApplied ==
  sinkReply.end = "ok" /\ sinkReply.load # None =>
    /\ IF Hive
       THEN \A p \in SinkKeys : sinkTarget.parts[p] =
              IF p \in KeysIn(sinkReply.load.rows) THEN PartitionRows(sinkReply.load.rows, p)
              ELSE sinkBefore.parts[p]
       ELSE Applied(Landed(sinkReply.load))
    /\ ~IsFile => Cardinality(DOMAIN sinkTarget.rows) =
         Cardinality(DOMAIN sinkBefore.rows) + sinkReply.ins - sinkReply.del
    /\ ~IsFile => sinkReply.ins + sinkReply.upd = Len(sinkReply.load.rows)

(* Refused and empty writes touch nothing; an accepted configuration is refused only for *)
(* what it meets: rows without a partition, or a file in its place.                      *)
RefusedTouchesNothing ==
  sinkReply.end # "none" /\ (sinkReply.end = "refused" \/ sinkReply.load = None) =>
    /\ sinkTarget = sinkBefore
    /\ sinkReply.end = "refused" /\ ValidateConfig(sinkCfg) =>
         HasNull(sinkReply.load.rows) \/ sinkBefore.file # "gone"

(* A failed or interrupted partition swap spoils one partition at most, and that is missing, *)
(* never a mixture; the others hold their old or their new rows.                             *)
PartitionsAreWhole ==
  Hive /\ (sinkOp.step # "idle" \/ sinkReply.end \notin {"none", "refused"}) /\ CurrentLoad # None =>
    LET whole(p) == sinkTarget.parts[p] \in {sinkBefore.parts[p], PartitionRows(CurrentLoad.rows, p)} IN
    /\ \A p \in SinkKeys : whole(p) \/ (p \in KeysIn(CurrentLoad.rows) /\ sinkTarget.parts[p] = Gone)
    /\ \A p, q \in SinkKeys : whole(p) \/ whole(q) \/ p = q

(* An append to a CSV file loses none of its lines, whatever fails, and a file *)
(* that had its header has it once.                                            *)
CsvKeepsLines ==
  sinkCfg.sink = "csv" /\ sinkReply.end # "refused" =>
    /\ AppendMode(sinkCfg) => IsPrefix(sinkBefore.rows, sinkTarget.rows)
    /\ sinkReply.end = "ok" /\ sinkReply.load # None /\ (sinkBefore.file = "gone" \/ Heading \in ToSet(sinkBefore.rows)) =>
         {i \in 1..Len(sinkTarget.rows) : sinkTarget.rows[i] = Heading} = {1}

SinksKeepRows ==
  AllOrNothing /\ AnsweredIsApplied /\ RefusedTouchesNothing /\ PartitionsAreWhole /\ CsvKeepsLines
=============================================================================
