--------------------------- MODULE SnapshotMerge ---------------------------
(***************************************************************************)
(* The snapshot write strategy (slowly changing dimension, type 2): the    *)
(* merge of a staged batch into a target of versions, as the Parquet sink  *)
(* does it (plan in memory, temporary file, rename) and as the PostgreSQL  *)
(* sink does it (stage, diff, close, insert, delete in one transaction),   *)
(* the receipt of a merge, and the versions read back as of any time.      *)
(*                                                                         *)
(* Runs of one sink do not overlap, and a batch holds each unique key at   *)
(* most once, never NULL.                                                  *)
(***************************************************************************)
EXTENDS Absent, Integers, Sequences, FiniteSets

CONSTANTS
  UniqueKeys,        \* unique keys
  SourceRows,        \* what a source row may hold: records [val, stamp]
  MaxMerges    \* bound: the merges started

(* A source's rows are rows and hold values, and when an update time stands *)
(* for the row it changes with the row.                                     *)
ASSUME SourceAssumption ==
  /\ MaxMerges \in Nat
  /\ None \notin Int /\ None \notin SourceRows
  /\ \A r \in SourceRows : r.val # None
  /\ \A r, s \in SourceRows : r.stamp = s.stamp => r.val = s.val

VARIABLES
  snapCfg,     \* the sink and its policy
  target,      \* the versions stored: a set of records
  txn,         \* the merge in progress
  merges,      \* ghost: the committed merges, oldest first
  clock        \* the time of the merge, one tick per attempt

snapVars == <<snapCfg, target, txn, merges, clock>>

Batches == [UniqueKeys -> SourceRows \cup {None}]
Staged(batch) == {k \in UniqueKeys : batch[k] # None}

(* The policy block of a snapshot sink: the columns listed, which may be   *)
(* all of them, or the update time tell a changed row.                     *)
Policies == [sink : {"parquet", "postgresql"},
             detection : {"check", "timestamp"},
             deletes : {"ignore", "invalidate", "delete"}]

(* What the merge compares: the tracked columns, or the update time. *)
Signal(row) == IF snapCfg.detection = "timestamp" THEN row.stamp ELSE row.val

Version(k, row, from) ==
  [key |-> k, val |-> row.val, stamp |-> row.stamp, from |-> from, to |-> None, current |-> TRUE]

Current(t) == {v \in t : v.current}
CurrentKeys(t) == {v.key : v \in Current(t)}

-----------------------------------------------------------------------------
(* Parquet: the planner over the current versions and the staged rows. *)
Unchanged(t, batch) ==
  {k \in Staged(batch) : \E v \in Current(t) : v.key = k /\ Signal(v) = Signal(batch[k])}
GoneKeys(t, batch) == CurrentKeys(t) \ Staged(batch)
Changed(t, batch) == (Staged(batch) \cap CurrentKeys(t)) \ Unchanged(t, batch)
New(t, batch) == Staged(batch) \ CurrentKeys(t)

Close(v, at) == [v EXCEPT !.to = at, !.current = FALSE]

HistoryKeptMutant(t, batch) ==   \* a changed key's older versions are left out
  {v \in t : /\ ~v.current /\ v.key \notin Changed(t, batch)
             /\ (snapCfg.deletes = "delete" => v.key \notin GoneKeys(t, batch))}

HistoryKept(t, batch) ==
  {v \in t : ~v.current /\ (snapCfg.deletes = "delete" => v.key \notin GoneKeys(t, batch))}

CurrentKept(t, batch) ==
  {v \in Current(t) :
     \/ v.key \in Unchanged(t, batch)
     \/ v.key \in GoneKeys(t, batch) /\ snapCfg.deletes = "ignore"}

Closed(t, batch, at) ==
  {Close(v, at) : v \in {u \in Current(t) :
     \/ u.key \in Changed(t, batch)
     \/ u.key \in GoneKeys(t, batch) /\ snapCfg.deletes = "invalidate"}}

Opened(t, batch, at) ==
  {Version(k, batch[k], at) : k \in New(t, batch) \cup Changed(t, batch)}

Merged(t, batch, at) ==
  HistoryKept(t, batch) \cup CurrentKept(t, batch) \cup Closed(t, batch, at) \cup Opened(t, batch, at)

-----------------------------------------------------------------------------
(* The counts of a receipt, each as the set of the keys counted. *)
ReceiptMutant(new, changed, gone) ==   \* versions closed for missing keys are not counted
  [inserted |-> new \cup changed, updated |-> changed,
   deleted |-> IF snapCfg.deletes = "delete" THEN gone ELSE {}]

Receipt(new, changed, gone) ==
  [inserted |-> new \cup changed,
   updated |-> changed \cup (IF snapCfg.deletes = "invalidate" THEN gone ELSE {}),
   deleted |-> IF snapCfg.deletes = "delete" THEN gone ELSE {}]

NoReceipt == Receipt({}, {}, {})

NoTxn == [pc |-> "idle"]

SnapInit ==
  /\ snapCfg \in Policies
  /\ target = {}
  /\ txn = NoTxn
  /\ merges = <<>>
  /\ clock = 1

Begin(pc, batch, rows, receipt) ==
  /\ txn' = [pc |-> pc, batch |-> batch, at |-> clock, rows |-> rows,
             changed |-> {}, gone |-> {}, receipt |-> receipt]
  /\ clock' = clock + 1
  /\ UNCHANGED <<snapCfg, target, merges>>

Ready == txn.pc = "idle" /\ clock <= MaxMerges

(* A write without batches over a target that was never written. *)
NothingToDo ==
  /\ Ready
  /\ merges = <<>> \/ snapCfg.sink = "postgresql"
  /\ clock' = clock + 1
  /\ UNCHANGED <<snapCfg, target, txn, merges>>

(* Parquet writes the merged versions to the temporary file ... *)
WriteParquet(batch) ==
  /\ Ready /\ snapCfg.sink = "parquet"
  /\ Staged(batch) # {} \/ merges # <<>>
  /\ Begin("rename", batch, Merged(target, batch, clock),
           Receipt(New(target, batch), Changed(target, batch), GoneKeys(target, batch)))

Commit ==
  /\ target' = txn.rows
  /\ merges' = Append(merges, [at |-> txn.at, batch |-> txn.batch])
  /\ txn' = NoTxn
  /\ UNCHANGED <<snapCfg, clock>>

(* ... and renames it over the target. *)
Rename == txn.pc = "rename" /\ Commit

(* PostgreSQL: the batch goes to a temporary table of the transaction. *)
Stage(batch) ==
  /\ Ready /\ snapCfg.sink = "postgresql"
  /\ Begin("diff", batch, target, NoReceipt)

Step(from, to, rows) ==
  /\ txn.pc = from
  /\ txn' = [txn EXCEPT !.pc = to, !.rows = rows]
  /\ UNCHANGED <<snapCfg, target, merges, clock>>

Id(v) == <<v.key, v.from>>     \* the surrogate key

Matches(v, batch) == batch[v.key] # None
Differs(v, batch) == Matches(v, batch) /\ Signal(v) # Signal(batch[v.key])

ChangedIds == {Id(v) : v \in {u \in Current(txn.rows) : Differs(u, txn.batch)}}
GoneIds == {Id(v) : v \in {u \in Current(txn.rows) : ~Matches(u, txn.batch)}}

KeysOf(ids) == {id[1] : id \in ids}

(* One query counts what the statements after it will do. *)
Diff ==
  /\ txn.pc = "diff"
  /\ txn' = [txn EXCEPT !.pc = "close", !.changed = ChangedIds, !.gone = GoneIds,
                        !.receipt = Receipt(New(txn.rows, txn.batch), KeysOf(ChangedIds), KeysOf(GoneIds))]
  /\ UNCHANGED <<snapCfg, target, merges, clock>>

ToClose == txn.changed \cup (IF snapCfg.deletes = "invalidate" THEN txn.gone ELSE {})

CloseVersions ==
  Step("close", "insert",
       {IF Id(v) \in ToClose THEN Close(v, txn.at) ELSE v : v \in txn.rows})

(* A staged row is inserted unless a current version equals it: the rows *)
(* closed before it no longer count.                                     *)
InsertNewVersions ==
  Step("insert", "delete",
       txn.rows \cup {Version(k, txn.batch[k], txn.at) :
         k \in {s \in Staged(txn.batch) :
                  \A v \in Current(txn.rows) : v.key = s => Differs(v, txn.batch)}})

(* The keys of the gone versions, and every version of those keys. *)
HardDelete ==
  Step("delete", "commit",
       IF snapCfg.deletes = "delete"
       THEN {v \in txn.rows : v.key \notin {u.key : u \in {w \in txn.rows : Id(w) \in txn.gone}}}
       ELSE txn.rows)

CommitTransaction == txn.pc = "commit" /\ Commit

(* A statement fails or the process ends: the target keeps its versions. *)
Abort ==
  /\ txn.pc # "idle"
  /\ txn' = NoTxn
  /\ UNCHANGED <<snapCfg, target, merges, clock>>

SnapNext ==
  \/ NothingToDo
  \/ \E batch \in Batches : WriteParquet(batch) \/ Stage(batch)
  \/ Rename
  \/ Diff \/ CloseVersions \/ InsertNewVersions \/ HardDelete \/ CommitTransaction
  \/ Abort

SnapSpec == SnapInit /\ [][SnapNext]_snapVars

-----------------------------------------------------------------------------
(* The history of a key, as a reader of the target finds it: its versions, *)
(* and those valid at a time.                                              *)
History(k) == {v \in target : v.key = k}
ValidAt(v, t) == v.from <= t /\ (v.to = None \/ t < v.to)

-----------------------------------------------------------------------------
(* What the source held of a key as of time t, under the policy: the last  *)
(* committed merge up to t says, a missing key keeps its last row under    *)
(* `ignore', has none under `invalidate', and is forgotten for all earlier *)
(* times once it went missing under `delete'.                              *)
Upto(t) == {n \in 1..Len(merges) : merges[n].at <= t}
LastOf(S) == CHOOSE n \in S : \A m \in S : m <= n

Held(k, t) == {n \in Upto(t) : merges[n].batch[k] # None}

Forgotten(k, n) ==
  /\ snapCfg.deletes = "delete"
  /\ \E m \in n..Len(merges) : merges[m].batch[k] = None

Expected(k, t) ==
  IF Held(k, t) = {} THEN None
  ELSE LET n == LastOf(Held(k, t))
       IN IF snapCfg.deletes # "ignore" /\ (n # LastOf(Upto(t)) \/ Forgotten(k, n))
          THEN None
          ELSE merges[n].batch[k].val

(* Whatever merges ran, in whichever sink and under whichever policy, and  *)
(* whatever was aborted between them: at every past time a key has at most *)
(* one valid version, and its value is the one the source held then; the   *)
(* current versions are the valid ones of now.                             *)
HistoryAnswers ==
  \A k \in UniqueKeys, t \in 1..MaxMerges :
    LET valid == {v \in History(k) : ValidAt(v, t)}
    IN IF Expected(k, t) = None THEN valid = {}
       ELSE Cardinality(valid) = 1 /\ \A v \in valid : v.val = Expected(k, t)

(* The receipt of a merge about to commit is real, though PostgreSQL takes *)
(* its counts before the statements run: they name the keys with a version *)
(* opened, with a version closed, and with no version left.                *)
Ending == txn.pc \in {"rename", "commit"}

ReceiptIsReal ==
  Ending =>
    /\ txn.receipt.inserted = {v.key : v \in {u \in txn.rows : u.from = txn.at}}
    /\ txn.receipt.updated = {v.key : v \in {u \in txn.rows : u.to = txn.at}}
    /\ txn.receipt.deleted = {v.key : v \in target} \ {v.key : v \in txn.rows}
=============================================================================
