------------------------- MODULE SnapshotMergeProofs ------------------------
(***************************************************************************)
(* Proofs that the snapshot strategy keeps the history it promises, and    *)
(* that a receipt names what the merge has done, for any keys, rows and    *)
(* number of merges, in both sinks and under every policy.                 *)
(*                                                                         *)
(* The two sinks compute one function of target and batch, After: the      *)
(* Parquet planner at once (PlansAfter), the PostgreSQL transaction        *)
(* statement by statement (TxnInv says how far it is).  What After does to *)
(* the versions valid at a time is compared with what one more merge does  *)
(* to the row the source is taken to have held then (ExpectedNext), case   *)
(* by case: before or after the merge, key staged or missing, and what the *)
(* policy does with missing keys.                                          *)
(*                                                                         *)
(* And proofs about the policies of sinks and the loads under them: no row *)
(* is skipped, since every mark that is a value of its column is that of a *)
(* row up to which the target has them all (MarkInv), and schemas are      *)
(* guarded, since what is recorded has been written (SchemaInv).           *)
(*                                                                         *)
(* And that the other strategies keep the rows they promise, whatever      *)
(* fails: a transaction has done to the table what the rows inserted so    *)
(* far ask for, counted row by row (TxInv), a file holds what it held and  *)
(* the lines written so far (LinesInv), and of the partitions those done   *)
(* are new, and the others old but for the one under way (PartsInv).       *)
(***************************************************************************)
EXTENDS SnapshotMerge, Materialization, SinkWrites, FiniteSetTheorems, WellFoundedInduction, TLAPS

-----------------------------------------------------------------------------
(* The versions stored, all older than `now'. *)
Versions ==
  [key : UniqueKeys, val : {r.val : r \in SourceRows}, stamp : {r.stamp : r \in SourceRows}, from : Int,
   to : Int \cup {None}, current : BOOLEAN]

IsVersion(v, now) ==
  /\ v \in Versions
  /\ v.from < now
  /\ v.current <=> v.to = None
  /\ v.to # None => v.to < now
  /\ \E r \in SourceRows : r.val = v.val /\ r.stamp = v.stamp

OneCurrent(T) == \A u, v \in Current(T) : u.key = v.key => u = v
UniqueIds(T) == \A u, v \in T : u.key = v.key /\ u.from = v.from => u = v

(* Under `delete', a key that is not current is not there at all. *)
NoneLeft(T) == snapCfg.deletes = "delete" => \A v \in T : v.key \in CurrentKeys(T)

IsHistory(T, now) ==
  (\A v \in T : IsVersion(v, now)) /\ OneCurrent(T) /\ UniqueIds(T) /\ NoneLeft(T)

-----------------------------------------------------------------------------
(* The merge of a batch, as both sinks do it. *)
Closes(v, batch) ==
  /\ v.current
  /\ IF batch[v.key] # None THEN Signal(v) # Signal(batch[v.key]) ELSE snapCfg.deletes = "invalidate"

Turn(v, batch, at) == IF Closes(v, batch) THEN Close(v, at) ELSE v
Turned(T, batch, at) == {Turn(v, batch, at) : v \in T}

Opens(T, batch) ==
  {k \in Staged(batch) : \A v \in Current(T) : v.key = k => Signal(v) # Signal(batch[k])}
Fresh(T, batch, at) == {Version(k, batch[k], at) : k \in Opens(T, batch)}

Drops(k, batch) == snapCfg.deletes = "delete" /\ batch[k] = None

After(T, batch, at) ==
  {v \in Turned(T, batch, at) : ~Drops(v.key, batch)} \cup Fresh(T, batch, at)

LEMMA TurnKeeps ==
  ASSUME NEW v \in Versions, NEW batch \in Batches, NEW at \in Int
  PROVE  /\ Turn(v, batch, at) \in Versions
         /\ Turn(v, batch, at).key = v.key
         /\ Turn(v, batch, at).val = v.val
         /\ Turn(v, batch, at).stamp = v.stamp
         /\ Turn(v, batch, at).from = v.from
         /\ Closes(v, batch) => /\ Turn(v, batch, at).to = at
                                /\ ~Turn(v, batch, at).current
         /\ ~Closes(v, batch) => Turn(v, batch, at) = v
BY DEF Turn, Close, Versions

LEMMA FreshIs ==
  ASSUME NEW T, NEW batch \in Batches, NEW at \in Int
  PROVE  \A k \in Opens(T, batch) :
           /\ k \in UniqueKeys /\ batch[k] \in SourceRows
           /\ Version(k, batch[k], at).key = k
           /\ Version(k, batch[k], at).val = batch[k].val
           /\ Version(k, batch[k], at).stamp = batch[k].stamp
           /\ Version(k, batch[k], at).from = at
           /\ Version(k, batch[k], at).to = None
           /\ Version(k, batch[k], at).current
BY DEF Version, Opens, Staged, Batches

LEMMA AfterStored ==
  ASSUME NEW T, NEW batch \in Batches, NEW at \in Int, NEW now \in Int,
         at < now, IsHistory(T, at)
  PROVE  IsHistory(After(T, batch, at), now)
<1> DEFINE A == After(T, batch, at)
<1>0. \A v \in T : IsVersion(v, at) /\ v \in Versions
  BY DEF IsHistory, IsVersion
<1>1. ASSUME NEW v \in T PROVE IsVersion(Turn(v, batch, at), now)
  <2>1. v \in Versions /\ IsVersion(v, at)
    BY <1>0
  <2>2. CASE ~Closes(v, batch)
    <3>1. Turn(v, batch, at) = v
      BY <2>1, <2>2, TurnKeeps
    <3> QED BY <2>1, <3>1 DEF IsVersion, Versions
  <2>3. CASE Closes(v, batch)
    <3> DEFINE w == Turn(v, batch, at)
    <3>1. /\ w \in Versions /\ w.val = v.val /\ w.stamp = v.stamp /\ w.from = v.from
          /\ w.to = at /\ w.current = FALSE
      BY <2>1, <2>3, TurnKeeps
    <3>2. at # None
      BY SourceAssumption
    <3>3. v.from < now /\ \E r \in SourceRows : r.val = v.val /\ r.stamp = v.stamp
      BY <2>1 DEF IsVersion, Versions
    <3> SUFFICES IsVersion(w, now)
      OBVIOUS
    <3> HIDE DEF w
    <3> QED BY <3>1, <3>2, <3>3 DEF IsVersion
  <2> QED BY <2>2, <2>3
<1>2. ASSUME NEW k \in Opens(T, batch) PROVE IsVersion(Version(k, batch[k], at), now)
  <2>1. k \in UniqueKeys /\ batch[k] \in SourceRows
    BY DEF Opens, Staged, Batches
  <2> QED BY <2>1 DEF Version, IsVersion, Versions
<1>3. \A v \in A : IsVersion(v, now)
  BY <1>1, <1>2 DEF After, Turned, Fresh
<1>4. \A w \in A : \/ \E v \in T : w = Turn(v, batch, at) /\ ~Drops(v.key, batch)
                  \/ \E k \in Opens(T, batch) : w = Version(k, batch[k], at)
  <2>1. \A v \in T : Turn(v, batch, at).key = v.key
    BY <1>0, TurnKeeps
  <2> QED BY <2>1 DEF After, Turned, Fresh
<1>5. \A k \in Opens(T, batch) :
        /\ Version(k, batch[k], at).key = k /\ Version(k, batch[k], at).from = at
        /\ Version(k, batch[k], at).current
  BY DEF Version
<1>6. OneCurrent(A)
  <2> SUFFICES ASSUME NEW u \in A, NEW w \in A, u.current, w.current, u.key = w.key PROVE u = w
    BY DEF OneCurrent, Current
  <2>1. ASSUME NEW x \in T, x.current, Turn(x, batch, at).current,
               NEW k \in Opens(T, batch), x.key = k
        PROVE  FALSE
    <3>1. ~Closes(x, batch)
      BY <1>0, <2>1, TurnKeeps
    <3> QED BY <2>1, <3>1 DEF Opens, Staged, Closes, Current
  <2>2. \A x \in T : Turn(x, batch, at).current => x.current /\ Turn(x, batch, at) = x
    <3> SUFFICES ASSUME NEW x \in T, Turn(x, batch, at).current
                 PROVE  x.current /\ Turn(x, batch, at) = x
      OBVIOUS
    <3>1. ~Closes(x, batch)
      BY <1>0, TurnKeeps
    <3> QED BY <1>0, <3>1, TurnKeeps
  <2>3. ASSUME NEW x \in T, NEW y \in T, u = Turn(x, batch, at), w = Turn(y, batch, at)
        PROVE  u = w
    BY <2>2, <2>3 DEF IsHistory, OneCurrent, Current
  <2>4. ASSUME NEW k \in Opens(T, batch), NEW l \in Opens(T, batch),
               u = Version(k, batch[k], at), w = Version(l, batch[l], at)
        PROVE  u = w
    BY <2>4, <1>5
  <2>5. ASSUME NEW x \in T, NEW k \in Opens(T, batch)
        PROVE  /\ ~(u = Turn(x, batch, at) /\ w = Version(k, batch[k], at))
               /\ ~(w = Turn(x, batch, at) /\ u = Version(k, batch[k], at))
    BY <1>0, <2>1, <2>2, <1>5
  <2> QED BY <1>4, <2>3, <2>4, <2>5
<1>7. UniqueIds(A)
  <2> SUFFICES ASSUME NEW u \in A, NEW w \in A, u.key = w.key, u.from = w.from PROVE u = w
    BY DEF UniqueIds
  <2>1. \A x \in T : /\ Turn(x, batch, at).key = x.key /\ Turn(x, batch, at).from = x.from
                     /\ x.from < at /\ x.from \in Int
    BY <1>0, TurnKeeps DEF IsVersion, Versions
  <2>3. ASSUME NEW x \in T, NEW y \in T, u = Turn(x, batch, at), w = Turn(y, batch, at)
        PROVE  u = w
    BY <2>1, <2>3 DEF IsHistory, UniqueIds
  <2> QED BY <1>4, <1>5, <2>1, <2>3
<1>8. NoneLeft(A)
  <2> SUFFICES ASSUME snapCfg.deletes = "delete", NEW w \in A PROVE \E u \in A : u.current /\ u.key = w.key
    BY DEF NoneLeft, CurrentKeys, Current
  <2>1. CASE \E k \in Opens(T, batch) : w = Version(k, batch[k], at)
    BY <2>1, <1>5
  <2>2. ASSUME NEW x \in T, w = Turn(x, batch, at), ~Drops(x.key, batch)
        PROVE  \E u \in A : u.current /\ u.key = w.key
    <3>1. PICK c \in T : c.current /\ c.key = x.key
      BY DEF IsHistory, NoneLeft, CurrentKeys, Current
    <3>2. w.key = x.key /\ x.key \in UniqueKeys /\ batch[x.key] # None
      <4>1. Turn(x, batch, at).key = x.key /\ x.key \in UniqueKeys
        BY <1>0, TurnKeeps DEF Versions
      <4> QED BY <2>2, <4>1 DEF Drops
    <3>3. CASE Closes(c, batch)
      <4>1. x.key \in Opens(T, batch)
        BY <3>1, <3>2, <3>3 DEF Opens, Staged, Closes, IsHistory, OneCurrent, Current
      <4>2. Version(x.key, batch[x.key], at) \in A
        BY <4>1 DEF After, Fresh
      <4> QED BY <1>5, <3>2, <4>1, <4>2
    <3>4. CASE ~Closes(c, batch)
      <4>1. Turn(c, batch, at) = c
        BY <3>4 DEF Turn
      <4>2. c \in A
        BY <2>2, <3>1, <4>1 DEF After, Turned
      <4> QED BY <3>1, <3>2, <4>2
    <3> QED BY <3>3, <3>4
  <2> QED BY <1>4, <2>1, <2>2
<1> QED BY <1>3, <1>6, <1>7, <1>8 DEF IsHistory

-----------------------------------------------------------------------------
(* The planner's sets, in terms of the merge. *)
LEMMA OpensAre ==
  ASSUME NEW T, NEW batch \in Batches, OneCurrent(T)
  PROVE  Opens(T, batch) = New(T, batch) \cup Changed(T, batch)
BY DEF Opens, New, Changed, Unchanged, CurrentKeys, OneCurrent, Current

(* The Parquet planner computes After. *)
LEMMA PlansAfter ==
  ASSUME snapCfg \in Policies, NEW T, NEW batch \in Batches, NEW at \in Int,
         IsHistory(T, at)
  PROVE  Merged(T, batch, at) = After(T, batch, at)
<1>0. /\ \A v \in T : v \in Versions
      /\ OneCurrent(T) /\ NoneLeft(T)
      /\ snapCfg.deletes \in {"ignore", "invalidate", "delete"}
  BY DEF IsHistory, IsVersion, Policies
<1>a. \A v \in T : v.key \in UniqueKeys /\ v.current \in BOOLEAN
  BY <1>0 DEF Versions
<1>1. \A v \in T : v.current => (v.key \in Unchanged(T, batch)
                                   <=> batch[v.key] # None /\ Signal(v) = Signal(batch[v.key]))
  BY <1>0, <1>a DEF Unchanged, OneCurrent, Current, Staged
<1>2. \A v \in T : v.current => (v.key \in GoneKeys(T, batch) <=> batch[v.key] = None)
  BY <1>a DEF GoneKeys, CurrentKeys, Current, Staged
<1>3. \A v \in T : v.current => (v.key \in Changed(T, batch)
                                   <=> batch[v.key] # None /\ Signal(v) # Signal(batch[v.key]))
  BY <1>1, <1>a DEF Changed, CurrentKeys, Current, Staged
<1>4. ASSUME NEW v \in T
      PROVE  Closes(v, batch) <=> /\ v \in Current(T)
                                  /\ \/ v.key \in Changed(T, batch)
                                     \/ v.key \in GoneKeys(T, batch) /\ snapCfg.deletes = "invalidate"
  BY <1>0, <1>2, <1>3, <1>a DEF Closes, Current
<1>5. ASSUME NEW v \in T
      PROVE  (~Closes(v, batch) /\ ~Drops(v.key, batch))
               <=> v \in HistoryKept(T, batch) \cup CurrentKept(T, batch)
  <2>1. CASE v.current
    BY <1>0, <1>1, <1>2, <2>1 DEF HistoryKept, CurrentKept, Current, Closes, Drops
  <2>2. CASE ~v.current
    <3>1. v \in HistoryKept(T, batch)
            <=> (snapCfg.deletes = "delete" => v.key \notin GoneKeys(T, batch))
      BY <2>2 DEF HistoryKept
    <3>2. v \notin CurrentKept(T, batch) /\ ~Closes(v, batch)
      BY <2>2 DEF CurrentKept, Current, Closes
    <3>3. snapCfg.deletes = "delete" => (v.key \in GoneKeys(T, batch) <=> batch[v.key] = None)
      BY <1>0, <1>a DEF NoneLeft, GoneKeys, Staged
    <3> QED BY <3>1, <3>2, <3>3 DEF Drops
  <2> QED BY <2>1, <2>2, <1>a
<1>6. \A v \in T : Closes(v, batch) => ~Drops(v.key, batch)
  BY DEF Closes, Drops
<1>7. \A v \in T : Turn(v, batch, at).key = v.key
  BY <1>0, TurnKeeps
<1>8. {v \in Turned(T, batch, at) : ~Drops(v.key, batch)}
        = HistoryKept(T, batch) \cup CurrentKept(T, batch) \cup Closed(T, batch, at)
  <2> DEFINE L == {v \in Turned(T, batch, at) : ~Drops(v.key, batch)}
             R == HistoryKept(T, batch) \cup CurrentKept(T, batch) \cup Closed(T, batch, at)
  <2>1. ASSUME NEW w \in L PROVE w \in R
    <3>1. PICK v \in T : w = Turn(v, batch, at) /\ ~Drops(v.key, batch)
      BY <1>7 DEF Turned
    <3>2. CASE Closes(v, batch)
      <4>1. w = Close(v, at)
        BY <3>1, <3>2 DEF Turn
      <4> QED BY <1>4, <3>2, <4>1 DEF Closed
    <3>3. CASE ~Closes(v, batch)
      BY <1>5, <3>1, <3>3 DEF Turn
    <3> QED BY <3>2, <3>3
  <2>2. ASSUME NEW w \in HistoryKept(T, batch) \cup CurrentKept(T, batch) PROVE w \in L
    <3>1. w \in T
      BY DEF HistoryKept, CurrentKept, Current
    <3>2. ~Closes(w, batch) /\ ~Drops(w.key, batch)
      BY <1>5, <3>1
    <3>3. Turn(w, batch, at) = w
      BY <3>2 DEF Turn
    <3> QED BY <3>1, <3>2, <3>3 DEF Turned
  <2>3. ASSUME NEW w \in Closed(T, batch, at) PROVE w \in L
    <3>1. PICK v \in T : w = Close(v, at) /\ Closes(v, batch)
      BY <1>4 DEF Closed, Current
    <3>2. Turn(v, batch, at) = w
      BY <3>1 DEF Turn
    <3> QED BY <1>6, <1>7, <3>1, <3>2 DEF Turned
  <2> QED BY <2>1, <2>2, <2>3
<1>9. Fresh(T, batch, at) = Opened(T, batch, at)
  BY <1>0, OpensAre DEF Fresh, Opened
<1> QED BY <1>8, <1>9 DEF Merged, After

-----------------------------------------------------------------------------
(* The statements of the PostgreSQL transaction, over a target T. *)
DiffersIds(T, batch) == {Id(v) : v \in {u \in Current(T) : Differs(u, batch)}}
MissingIds(T, batch) == {Id(v) : v \in {u \in Current(T) : ~Matches(u, batch)}}

ClosingIds(T, batch) ==
  DiffersIds(T, batch) \cup (IF snapCfg.deletes = "invalidate" THEN MissingIds(T, batch) ELSE {})

LEMMA CloseStatement ==
  ASSUME NEW T, NEW batch \in Batches, NEW at \in Int, IsHistory(T, at)
  PROVE  {IF Id(v) \in ClosingIds(T, batch) THEN Close(v, at) ELSE v : v \in T}
           = Turned(T, batch, at)
<1>1. \A u, v \in T : Id(u) = Id(v) => u = v
  BY DEF IsHistory, UniqueIds, Id
<1>2. ASSUME NEW v \in T PROVE Id(v) \in ClosingIds(T, batch) <=> Closes(v, batch)
  <2>1. Id(v) \in DiffersIds(T, batch) <=> v.current /\ Differs(v, batch)
    BY <1>1 DEF DiffersIds, Current
  <2>2. Id(v) \in MissingIds(T, batch) <=> v.current /\ ~Matches(v, batch)
    BY <1>1 DEF MissingIds, Current
  <2> QED BY <2>1, <2>2 DEF ClosingIds, Closes, Differs, Matches
<1>3. \A v \in T : (IF Id(v) \in ClosingIds(T, batch) THEN Close(v, at) ELSE v) = Turn(v, batch, at)
  BY <1>2 DEF Turn
<1> QED BY <1>3 DEF Turned

LEMMA InsertStatement ==
  ASSUME NEW T, NEW batch \in Batches, NEW at \in Int, IsHistory(T, at)
  PROVE  {s \in Staged(batch) :
            \A v \in Current(Turned(T, batch, at)) : v.key = s => Differs(v, batch)}
           = Opens(T, batch)
<1>0. \A v \in T : v \in Versions
  BY DEF IsHistory, IsVersion
<1>1. Current(Turned(T, batch, at)) = {v \in Current(T) : ~Closes(v, batch)}
  <2>1. ASSUME NEW v \in T, Closes(v, batch) PROVE ~Turn(v, batch, at).current
    BY <1>0, <2>1, TurnKeeps
  <2>2. ASSUME NEW v \in T, ~Closes(v, batch) PROVE Turn(v, batch, at) = v
    BY <2>2 DEF Turn
  <2> QED BY <2>1, <2>2 DEF Current, Turned
<1> QED BY <1>1 DEF Opens, Closes, Current, Differs, Matches, Staged

Undeleted(rows, gone) ==
  {v \in rows : v.key \notin {u.key : u \in {w \in rows : Id(w) \in gone}}}

LEMMA DeleteStatement ==
  ASSUME NEW T, NEW batch \in Batches, NEW at \in Int, IsHistory(T, at),
         snapCfg.deletes = "delete",
         NEW R, R = Turned(T, batch, at) \cup Fresh(T, batch, at)
  PROVE  Undeleted(R, MissingIds(T, batch)) = After(T, batch, at)
<1> DEFINE D == {u.key : u \in {w \in R : Id(w) \in MissingIds(T, batch)}}
<1>0. /\ \A v \in T : v \in Versions
      /\ NoneLeft(T)
  BY DEF IsHistory, IsVersion
<1>1. \A w : \A v : Id(w) = Id(v) <=> w.key = v.key /\ w.from = v.from
  BY DEF Id
<1>2. ASSUME NEW k \in D PROVE batch[k] = None
  <2>1. PICK w \in R, c \in Current(T) : w.key = k /\ Id(w) = Id(c) /\ ~Matches(c, batch)
    BY DEF MissingIds
  <2> QED BY <1>1, <2>1 DEF Matches
<1>3. ASSUME NEW x \in T, batch[x.key] = None PROVE x.key \in D
  <2>1. PICK c \in T : c.current /\ c.key = x.key
    BY <1>0 DEF NoneLeft, CurrentKeys, Current
  <2>2. Turn(c, batch, at) \in R
    BY DEF Turned
  <2>3. Turn(c, batch, at).key = c.key /\ Turn(c, batch, at).from = c.from
    BY <1>0, TurnKeeps
  <2>4. Id(Turn(c, batch, at)) \in MissingIds(T, batch)
    BY <1>1, <1>3, <2>1, <2>3 DEF MissingIds, Current, Matches, Id
  <2> QED BY <2>1, <2>2, <2>3, <2>4
<1>4. \A v \in Fresh(T, batch, at) : batch[v.key] # None
  BY FreshIs DEF Fresh, Opens, Staged
<1>5. \A v \in Turned(T, batch, at) : \E x \in T : x.key = v.key
  BY <1>0, TurnKeeps DEF Turned
<1>6. \A v \in R : v.key \in D <=> batch[v.key] = None
  BY <1>2, <1>3, <1>4, <1>5
<1> HIDE DEF D
<1>7. {v \in R : v.key \notin D} = After(T, batch, at)
  BY <1>4, <1>6 DEF After, Drops
<1> QED BY <1>7 DEF D, Undeleted

-----------------------------------------------------------------------------
(* What one more merge does to the row the source is taken to have held.   *)
Merges == [at : Int, batch : Batches]

HasLast(S) == \E n \in S : \A m \in S : m <= n

(* The merges are dated in order, before `now', and `LastOf' means the last. *)
InOrder(now) ==
  /\ merges \in Seq(Merges)
  /\ \A n \in 1..Len(merges) : merges[n].at < now
  /\ \A k \in UniqueKeys, t \in Int : Held(k, t) = {} \/ HasLast(Held(k, t))

LEMMA LastIs ==
  ASSUME NEW S, S \subseteq Int, HasLast(S)
  PROVE  LastOf(S) \in S /\ \A m \in S : m <= LastOf(S)
BY DEF HasLast, LastOf

LEMMA LastIsNew ==
  ASSUME NEW S, S \subseteq Int, NEW n \in S, \A m \in S : m <= n
  PROVE  LastOf(S) = n
<1>1. HasLast(S)
  BY DEF HasLast
<1>2. LastOf(S) \in S /\ n <= LastOf(S)
  BY <1>1, LastIs
<1>3. LastOf(S) <= n /\ LastOf(S) \in Int /\ n \in Int
  BY <1>2
<1> QED BY <1>2, <1>3

(* The row of key k at time t, once the merge of `batch' at `at' is done. *)
AfterMerge(k, t, batch, at) ==
  IF t < at THEN IF Drops(k, batch) THEN None ELSE Expected(k, t)
  ELSE IF batch[k] # None THEN batch[k].val
       ELSE IF snapCfg.deletes = "ignore" THEN Expected(k, t) ELSE None

LEMMA ExpectedNext ==
  ASSUME NEW batch \in Batches, NEW at \in Int, InOrder(at), UNCHANGED snapCfg,
         merges' = Append(merges, [at |-> at, batch |-> batch]),
         NEW k \in UniqueKeys, NEW t \in Int
  PROVE  /\ Expected(k, t)' = AfterMerge(k, t, batch, at)
         /\ Held(k, t)' = {} \/ HasLast(Held(k, t)')
<1>0. PICK N \in Nat : N = Len(merges) /\ merges \in Seq(Merges)
  BY DEF InOrder
<1>1. /\ Len(merges') = N + 1
      /\ \A n \in 1..N : merges'[n] = merges[n]
      /\ merges'[N + 1] = [at |-> at, batch |-> batch]
  BY <1>0 DEF Merges
<1>2. \A n \in 1..N : merges[n].at \in Int /\ merges[n].at < at
  <2>1. \A n \in 1..N : merges[n] \in Merges
    BY <1>0
  <2> QED BY <1>0, <2>1 DEF Merges, InOrder
<1>3. /\ Held(k, t) \subseteq Int /\ Upto(t) \subseteq 1..N /\ Held(k, t) \subseteq Upto(t)
      /\ Held(k, t) = {} \/ HasLast(Held(k, t))
  BY <1>0 DEF Held, Upto, InOrder
<1>4. CASE t < at
  <2>1. Upto(t)' = Upto(t)
    BY <1>0, <1>1, <1>2, <1>4 DEF Upto
  <2>2. Held(k, t)' = Held(k, t)
    BY <1>1, <1>3, <2>1 DEF Held
  <2>3. \A n \in Held(k, t) : Forgotten(k, n)' <=> Forgotten(k, n) \/ Drops(k, batch)
    <3> SUFFICES ASSUME NEW n \in Held(k, t)
                 PROVE  Forgotten(k, n)' <=> Forgotten(k, n) \/ Drops(k, batch)
      OBVIOUS
    <3>1. n \in 1..N
      BY <1>3
    <3>2. \A m : m \in n..(N + 1) <=> m \in n..N \/ m = N + 1
      BY <1>0, <3>1
    <3>3. \A m \in n..N : merges'[m] = merges[m]
      BY <1>0, <1>1, <3>1
    <3>4. merges'[N + 1].batch = batch
      BY <1>1
    <3>5. (\E m \in n..(N + 1) : merges'[m].batch[k] = None)
            <=> (\E m \in n..N : merges[m].batch[k] = None) \/ batch[k] = None
      BY <3>2, <3>3, <3>4
    <3>6. Forgotten(k, n) <=> /\ snapCfg.deletes = "delete"
                             /\ \E m \in n..N : merges[m].batch[k] = None
      BY <1>0 DEF Forgotten
    <3>7. Forgotten(k, n)' <=> /\ snapCfg.deletes = "delete"
                              /\ \E m \in n..(N + 1) : merges'[m].batch[k] = None
      BY <1>1 DEF Forgotten
    <3> QED BY <3>5, <3>6, <3>7 DEF Drops
  <2>4. CASE Held(k, t) = {}
    BY <1>4, <2>2, <2>4 DEF Expected, AfterMerge
  <2>5. CASE Held(k, t) # {}
    <3>0. PICK n : n = LastOf(Held(k, t))
      OBVIOUS
    <3>1. n \in Held(k, t) /\ n \in 1..N
      BY <1>3, <2>5, <3>0, LastIs
    <3>2. merges'[n].batch[k] = merges[n].batch[k]
      BY <1>1, <3>1
    <3>3. LastOf(Held(k, t))' = n /\ LastOf(Upto(t))' = LastOf(Upto(t))
      BY <2>1, <2>2, <3>0 DEF LastOf
    <3>4. Expected(k, t) = IF snapCfg.deletes # "ignore" /\ (n # LastOf(Upto(t)) \/ Forgotten(k, n))
                           THEN None ELSE merges[n].batch[k].val
      BY <2>5, <3>0 DEF Expected
    <3>5. Expected(k, t)' =
            IF snapCfg.deletes # "ignore" /\ (n # LastOf(Upto(t)) \/ Forgotten(k, n)')
            THEN None ELSE merges[n].batch[k].val
      BY <2>2, <2>5, <3>2, <3>3 DEF Expected
    <3>6. Drops(k, batch) => snapCfg.deletes # "ignore"
      BY DEF Drops
    <3> QED BY <1>3, <1>4, <2>2, <2>3, <3>1, <3>4, <3>5, <3>6 DEF AfterMerge
  <2> QED BY <2>4, <2>5
<1>5. CASE ~(t < at)
  <2>1. Upto(t) = 1..N /\ Upto(t)' = 1..(N + 1)
    BY <1>0, <1>1, <1>2, <1>5 DEF Upto
  <2>2. LastOf(Upto(t))' = N + 1
    <3>1. LastOf(1..(N + 1)) = N + 1
      BY <1>0, LastIsNew
    <3> QED BY <2>1, <3>1 DEF LastOf
  <2>3. CASE batch[k] # None
    <3>1. Held(k, t)' = Held(k, t) \cup {N + 1}
      BY <1>0, <1>1, <2>1, <2>3 DEF Held
    <3>2. \A m \in Held(k, t) \cup {N + 1} : m <= N + 1 /\ m \in Int
      BY <1>0, <1>3
    <3>3. LastOf(Held(k, t) \cup {N + 1}) = N + 1 /\ HasLast(Held(k, t) \cup {N + 1})
      BY <3>2, LastIsNew DEF HasLast
    <3>4. ~(\E m \in (N + 1)..(N + 1) : merges'[m].batch[k] = None)
      BY <1>0, <1>1, <2>3
    <3>5. ~Forgotten(k, N + 1)'
      BY <1>0, <1>1, <3>4 DEF Forgotten
    <3>6. LastOf(Held(k, t))' = N + 1
      BY <3>1, <3>3 DEF LastOf
    <3>7. Expected(k, t)' = merges'[N + 1].batch[k].val
      BY <2>2, <3>1, <3>5, <3>6 DEF Expected
    <3> QED BY <1>1, <1>5, <2>3, <3>1, <3>3, <3>7 DEF AfterMerge
  <2>4. CASE batch[k] = None
    <3>1. Held(k, t)' = Held(k, t)
      BY <1>0, <1>1, <2>1, <2>4 DEF Held
    <3>2. CASE Held(k, t) = {}
      BY <1>5, <2>4, <3>1, <3>2 DEF Expected, AfterMerge
    <3>3. CASE Held(k, t) # {}
      <4>0. PICK n : n = LastOf(Held(k, t))
        OBVIOUS
      <4>1. n \in Held(k, t) /\ n \in 1..N
        BY <1>3, <3>3, <4>0, LastIs
      <4>a. n # N + 1
        BY <4>1
      <4>b. LastOf(Held(k, t))' = n
        BY <3>1, <4>0 DEF LastOf
      <4>2. LastOf(Held(k, t))' = n /\ n # N + 1
        BY <4>a, <4>b
      <4>3. merges'[n].batch[k] = merges[n].batch[k]
        BY <1>1, <4>1
      <4>4. Expected(k, t)' = IF snapCfg.deletes # "ignore" THEN None ELSE merges[n].batch[k].val
        BY <2>2, <3>1, <3>3, <4>2, <4>3 DEF Expected
      <4>5. snapCfg.deletes = "ignore" => Expected(k, t) = merges[n].batch[k].val
        BY <3>3, <4>0 DEF Expected
      <4> QED BY <1>3, <1>5, <2>4, <3>1, <4>4, <4>5 DEF AfterMerge
    <3> QED BY <3>2, <3>3
  <2> QED BY <2>3, <2>4
<1> QED BY <1>4, <1>5

-----------------------------------------------------------------------------
(* The versions of T of key k valid at t are the one version of value e, or *)
(* none when e is None.                                                    *)
IsValid(v, k, t) == v.key = k /\ ValidAt(v, t)

Shows(T, k, t, e) ==
  /\ \A v \in T : IsValid(v, k, t) => e # None /\ v.val = e
  /\ \A u, v \in T : IsValid(u, k, t) /\ IsValid(v, k, t) => u = v
  /\ e # None => \E v \in T : IsValid(v, k, t)

LEMMA AfterShows ==
  ASSUME snapCfg \in Policies, NEW T, NEW batch \in Batches, NEW at \in Int,
         IsHistory(T, at), NEW k \in UniqueKeys, NEW t \in Int, Shows(T, k, t, Expected(k, t))
  PROVE  Shows(After(T, batch, at), k, t, AfterMerge(k, t, batch, at))
<1> DEFINE A == After(T, batch, at)
           e == Expected(k, t)
           f == AfterMerge(k, t, batch, at)
<1>0. /\ \A v \in T : v \in Versions /\ IsVersion(v, at)
      /\ OneCurrent(T) /\ NoneLeft(T)
      /\ snapCfg.deletes \in {"ignore", "invalidate", "delete"}
      /\ None \notin Int
  BY SourceAssumption DEF IsHistory, IsVersion, Policies
<1>1. \A v \in T : /\ Turn(v, batch, at).key = v.key
                   /\ Turn(v, batch, at).val = v.val
                   /\ Turn(v, batch, at).from = v.from
                   /\ Closes(v, batch) => Turn(v, batch, at).to = at
                   /\ ~Closes(v, batch) => Turn(v, batch, at) = v
  BY <1>0, TurnKeeps
<1>2. \A w \in A : w.key = k =>
        \/ \E v \in T : v.key = k /\ w = Turn(v, batch, at) /\ ~Drops(k, batch)
        \/ k \in Opens(T, batch) /\ w = Version(k, batch[k], at)
  BY <1>1, FreshIs DEF After, Turned, Fresh
<1>3. \A v \in T : v.key = k /\ ~Drops(k, batch) => Turn(v, batch, at) \in A
  BY <1>1 DEF After, Turned
<1>4. \A v \in T : /\ v.from \in Int /\ v.from < at /\ v.current \in BOOLEAN
                   /\ v.current <=> v.to = None
                   /\ v.to # None => v.to \in Int /\ v.to < at
  BY <1>0 DEF IsVersion, Versions
<1>5. \A v \in T : Closes(v, batch) => v.current
  BY DEF Closes
<1>6. CASE Drops(k, batch)
  <2>1. f = None
    BY <1>6 DEF AfterMerge, Drops
  <2>2. \A w \in A : w.key # k
    BY <1>2, <1>6 DEF Drops, Opens, Staged
  <2> QED BY <2>1, <2>2 DEF Shows, IsValid
<1>7. CASE ~Drops(k, batch) /\ t < at
  <2>1. f = e
    BY <1>7 DEF AfterMerge
  <2>2. \A v \in T : v.key = k =>
          (IsValid(Turn(v, batch, at), k, t) <=> IsValid(v, k, t))
    <3> SUFFICES ASSUME NEW v \in T, v.key = k
                 PROVE  IsValid(Turn(v, batch, at), k, t) <=> IsValid(v, k, t)
      OBVIOUS
    <3>1. CASE Closes(v, batch)
      BY <1>0, <1>1, <1>4, <1>5, <1>7, <3>1 DEF IsValid, ValidAt
    <3>2. CASE ~Closes(v, batch)
      BY <1>1, <3>2
    <3> QED BY <3>1, <3>2
  <2>3. k \in Opens(T, batch) => ~IsValid(Version(k, batch[k], at), k, t)
    BY <1>7, FreshIs DEF IsValid, ValidAt
  <2>4. \A w \in A : IsValid(w, k, t) =>
          \E v \in T : v.key = k /\ w = Turn(v, batch, at) /\ IsValid(v, k, t)
    BY <1>2, <2>2, <2>3 DEF IsValid
  <2>5. \A w \in A : IsValid(w, k, t) => e # None /\ w.val = e
    BY <1>1, <2>4 DEF Shows
  <2>6. \A u, w \in A : IsValid(u, k, t) /\ IsValid(w, k, t) => u = w
    BY <2>4 DEF Shows
  <2>7. e # None => \E w \in A : IsValid(w, k, t)
    <3> SUFFICES ASSUME e # None PROVE \E w \in A : IsValid(w, k, t)
      OBVIOUS
    <3>1. PICK v \in T : IsValid(v, k, t)
      BY DEF Shows
    <3> QED BY <1>3, <1>7, <2>2, <3>1 DEF IsValid
  <2> HIDE DEF f, e, A
  <2>8. Shows(A, k, t, f)
    BY <2>1, <2>5, <2>6, <2>7 DEF Shows
  <2> QED BY <2>8 DEF f, A
<1>8. CASE ~Drops(k, batch) /\ ~(t < at)
  <2>1. \A v \in T : v.key = k => (IsValid(v, k, t) <=> v.current)
    BY <1>0, <1>4, <1>8 DEF IsValid, ValidAt
  <2>2. \A v \in T : v.key = k => (IsValid(Turn(v, batch, at), k, t)
                                   <=> v.current /\ ~Closes(v, batch))
    <3> SUFFICES ASSUME NEW v \in T, v.key = k
                 PROVE  IsValid(Turn(v, batch, at), k, t) <=> v.current /\ ~Closes(v, batch)
      OBVIOUS
    <3>1. CASE Closes(v, batch)
      BY <1>0, <1>1, <1>8, <3>1 DEF IsValid, ValidAt
    <3>2. CASE ~Closes(v, batch)
      BY <1>1, <2>1, <3>2
    <3> QED BY <3>1, <3>2
  <2>3. CASE batch[k] # None
    <3>1. f = batch[k].val /\ f # None
      BY <1>8, <2>3, SourceAssumption DEF AfterMerge, Batches
    <3>2. k \in Opens(T, batch) =>
            /\ Version(k, batch[k], at) \in A
            /\ IsValid(Version(k, batch[k], at), k, t)
            /\ Version(k, batch[k], at).val = f
      BY <1>8, <3>1, FreshIs DEF IsValid, ValidAt, After, Fresh
    <3>3. \A c \in T : c.key = k /\ c.current =>
            /\ Closes(c, batch) <=> k \in Opens(T, batch)
            /\ ~Closes(c, batch) => c.val = f
      <4> SUFFICES ASSUME NEW c \in T, c.key = k, c.current
                   PROVE  /\ Closes(c, batch) <=> k \in Opens(T, batch)
                          /\ ~Closes(c, batch) => c.val = f
        OBVIOUS
      <4>1. Closes(c, batch) <=> Signal(c) # Signal(batch[k])
        BY <2>3 DEF Closes
      <4>2. k \in Opens(T, batch) <=> Signal(c) # Signal(batch[k])
        BY <1>0, <2>3 DEF Opens, Staged, OneCurrent, Current
      <4>3. PICK r \in SourceRows : r.val = c.val /\ r.stamp = c.stamp
        BY <1>0 DEF IsVersion
      <4>4. batch[k] \in SourceRows
        BY <2>3 DEF Batches
      <4>5. Signal(c) = Signal(batch[k]) => c.val = batch[k].val
        BY <4>3, <4>4, SourceAssumption DEF Signal
      <4> QED BY <3>1, <4>1, <4>2, <4>5
    <3>4. (\A c \in T : ~(c.key = k /\ c.current)) => k \in Opens(T, batch)
      BY <2>3 DEF Opens, Staged, Current
    <3>5. \A w \in A : IsValid(w, k, t) =>
            \/ \E v \in T : /\ v.key = k /\ v.current /\ ~Closes(v, batch) /\ w = v
            \/ k \in Opens(T, batch) /\ w = Version(k, batch[k], at)
      BY <1>1, <1>2, <2>2 DEF IsValid
    <3>6. \A u, v \in T : u.key = k /\ v.key = k /\ u.current /\ v.current => u = v
      BY <1>0 DEF OneCurrent, Current
    <3>7. \A w \in A : IsValid(w, k, t) => w.val = f
      BY <3>2, <3>3, <3>5
    <3>8. \A u, w \in A : IsValid(u, k, t) /\ IsValid(w, k, t) => u = w
      BY <3>3, <3>5, <3>6
    <3>9. \E w \in A : IsValid(w, k, t)
      BY <1>1, <1>3, <1>8, <2>2, <3>2, <3>3, <3>4
    <3> HIDE DEF f, e, A
    <3>10. Shows(A, k, t, f)
      BY <3>1, <3>7, <3>8, <3>9 DEF Shows
    <3> QED BY <3>10 DEF f, A
  <2>4. CASE batch[k] = None
    <3>1. k \notin Opens(T, batch)
      BY <2>4 DEF Opens, Staged
    <3>2. CASE snapCfg.deletes = "ignore"
      <4>1. f = e
        BY <1>8, <2>4, <3>2 DEF AfterMerge
      <4>2. \A v \in T : v.key = k => ~Closes(v, batch)
        BY <2>4, <3>2 DEF Closes
      <4>3. \A w : w.key = k => (w \in A <=> w \in T)
        BY <1>1, <1>2, <1>3, <1>8, <3>1, <4>2
      <4> HIDE DEF f, A
      <4>4. Shows(A, k, t, e)
        BY <4>3 DEF Shows, IsValid
      <4> QED BY <4>1, <4>4 DEF f, A
    <3>3. CASE snapCfg.deletes # "ignore"
      <4>1. f = None
        BY <1>8, <2>4, <3>3 DEF AfterMerge
      <4>2. snapCfg.deletes = "invalidate"
        BY <1>0, <1>8, <2>4, <3>3 DEF Drops
      <4>3. \A v \in T : v.key = k /\ v.current => Closes(v, batch)
        BY <2>4, <4>2 DEF Closes
      <4>4. \A w \in A : ~IsValid(w, k, t)
        BY <1>2, <2>2, <3>1, <4>3 DEF IsValid
      <4> QED BY <4>1, <4>4 DEF Shows
    <3> QED BY <3>2, <3>3
  <2> QED BY <2>3, <2>4
<1> QED BY <1>6, <1>7, <1>8

-----------------------------------------------------------------------------
(* The inductive invariant: how far the merge in progress is, over the     *)
(* target it started from and will find when it commits; what the target   *)
(* holds; and that it shows what the source held at every time.            *)
Counted(T, batch) == Receipt(New(T, batch), Changed(T, batch), GoneKeys(T, batch))

Working(o, now) ==
  /\ o = [pc |-> o.pc, batch |-> o.batch, at |-> o.at, rows |-> o.rows, changed |-> o.changed,
          gone |-> o.gone, receipt |-> o.receipt]
  /\ o.batch \in Batches /\ o.at \in Int /\ o.at < now
  /\ IsHistory(target, o.at) /\ InOrder(o.at)
  /\ o.pc \in {"rename", "diff", "close", "insert", "delete", "commit"}
  /\ o.pc # "rename" => snapCfg.sink = "postgresql"
  /\ o.pc \in {"diff", "close"} => o.rows = target
  /\ o.pc = "insert" => o.rows = Turned(target, o.batch, o.at)
  /\ o.pc = "delete" => o.rows = Turned(target, o.batch, o.at) \cup Fresh(target, o.batch, o.at)
  /\ o.pc \in {"rename", "commit"} => o.rows = After(target, o.batch, o.at)
  /\ o.pc \in {"close", "insert", "delete", "commit"} =>
       o.changed = DiffersIds(target, o.batch) /\ o.gone = MissingIds(target, o.batch)
  /\ o.pc # "diff" => o.receipt = Counted(target, o.batch)

ShowsHistory == \A k \in UniqueKeys, t \in Int : Shows(target, k, t, Expected(k, t))

SnapInv ==
  /\ snapCfg \in Policies /\ clock \in Int
  /\ txn = NoTxn \/ Working(txn, clock)
  /\ IsHistory(target, clock) /\ InOrder(clock)
  /\ ShowsHistory

(* The operators of the merge read the policy, and nothing else that moves. *)
LEMMA SameMerge ==
  ASSUME UNCHANGED snapCfg, NEW T, NEW batch, NEW at
  PROVE  /\ IsHistory(T, at)' <=> IsHistory(T, at)
         /\ Turned(T, batch, at)' = Turned(T, batch, at)
         /\ Fresh(T, batch, at)' = Fresh(T, batch, at)
         /\ After(T, batch, at)' = After(T, batch, at)
         /\ DiffersIds(T, batch)' = DiffersIds(T, batch)
         /\ MissingIds(T, batch)' = MissingIds(T, batch)
         /\ Counted(T, batch)' = Counted(T, batch)
<1>1. \A r : Signal(r)' = Signal(r)
  BY DEF Signal
<1>2. \A v : Closes(v, batch)' <=> Closes(v, batch)
  BY <1>1 DEF Closes
<1>3. \A v : Turn(v, batch, at)' = Turn(v, batch, at)
  BY <1>2 DEF Turn
<1>4. Turned(T, batch, at)' = Turned(T, batch, at)
  BY <1>3 DEF Turned
<1>5. Opens(T, batch)' = Opens(T, batch)
  BY <1>1 DEF Opens
<1>6. Fresh(T, batch, at)' = Fresh(T, batch, at)
  BY <1>5 DEF Fresh
<1>7. \A k : Drops(k, batch)' <=> Drops(k, batch)
  BY DEF Drops
<1>8. After(T, batch, at)' = After(T, batch, at)
  BY <1>4, <1>6, <1>7 DEF After
<1>9. \A u : Differs(u, batch)' <=> Differs(u, batch)
  BY <1>1 DEF Differs
<1>10. DiffersIds(T, batch)' = DiffersIds(T, batch)
  BY <1>9 DEF DiffersIds
<1>11. IsHistory(T, at)' <=> IsHistory(T, at)
  BY DEF IsHistory, NoneLeft
<1>12. \A X, Y, Z : Receipt(X, Y, Z)' = Receipt(X, Y, Z)
  BY DEF Receipt
<1>13. Changed(T, batch)' = Changed(T, batch)
  BY <1>1 DEF Changed, Unchanged
<1>14. Counted(T, batch)' = Counted(T, batch)
  BY <1>12, <1>13 DEF Counted, New, GoneKeys, Staged, CurrentKeys, Current
<1> QED BY <1>4, <1>6, <1>8, <1>10, <1>11, <1>14 DEF MissingIds

LEMMA SameHistory ==
  ASSUME UNCHANGED <<snapCfg, merges>>
  PROVE  /\ \A now : InOrder(now)' <=> InOrder(now)
         /\ \A k, t : Expected(k, t)' = Expected(k, t)
<1>1. \A t : Upto(t)' = Upto(t)
  BY DEF Upto
<1>2. \A k, t : Held(k, t)' = Held(k, t)
  BY <1>1 DEF Held
<1>3. \A k, n : Forgotten(k, n)' <=> Forgotten(k, n)
  BY DEF Forgotten
<1>4. \A k, t : Expected(k, t)' = Expected(k, t)
  BY <1>1, <1>2, <1>3 DEF Expected
<1> QED BY <1>2, <1>4 DEF InOrder

LEMMA Later ==
  ASSUME NEW a \in Int, NEW b \in Int, a <= b, NEW T
  PROVE  (IsHistory(T, a) => IsHistory(T, b)) /\ (InOrder(a) => InOrder(b))
<1>1. ASSUME NEW v, IsVersion(v, a) PROVE IsVersion(v, b)
  BY <1>1 DEF IsVersion, Versions
<1>2. ASSUME NEW n \in 1..Len(merges), merges \in Seq(Merges), merges[n].at < a
      PROVE  merges[n].at < b
  <2>1. merges[n] \in Merges
    BY <1>2
  <2> QED BY <1>2, <2>1 DEF Merges
<1> QED BY <1>1, <1>2 DEF IsHistory, InOrder

LEMMA SameWorking ==
  ASSUME UNCHANGED <<snapCfg, target, merges>>, NEW o, NEW now, Working(o, now)
  PROVE  Working(o, now)'
<1>1. PICK T, b, a : T = target /\ b = o.batch /\ a = o.at
  OBVIOUS
<1>2. /\ IsHistory(T, a)' <=> IsHistory(T, a)
      /\ Turned(T, b, a)' = Turned(T, b, a)
      /\ Fresh(T, b, a)' = Fresh(T, b, a)
      /\ After(T, b, a)' = After(T, b, a)
      /\ DiffersIds(T, b)' = DiffersIds(T, b)
      /\ MissingIds(T, b)' = MissingIds(T, b)
      /\ Counted(T, b)' = Counted(T, b)
  BY SameMerge
<1>3. InOrder(a)' <=> InOrder(a)
  BY SameHistory
<1>4. T = target'
  BY <1>1
<1> QED BY <1>1, <1>2, <1>3, <1>4 DEF Working

(* A step that leaves the target alone. *)
LEMMA Unmoved ==
  ASSUME SnapInv, UNCHANGED <<snapCfg, target, merges>>, clock' \in Int, clock <= clock',
         (txn = NoTxn \/ Working(txn, clock))'
  PROVE  SnapInv'
<1>1. PICK T, now, then : T = target /\ now = clock /\ then = clock'
  OBVIOUS
<1>2. now \in Int /\ then \in Int /\ now <= then /\ IsHistory(T, now) /\ InOrder(now)
  BY <1>1 DEF SnapInv
<1>3. IsHistory(T, then) /\ InOrder(then)
  BY <1>2, Later
<1>4. IsHistory(T, then)' /\ InOrder(then)'
  BY <1>3, SameMerge, SameHistory
<1>5. ShowsHistory'
  BY SameHistory DEF SnapInv, ShowsHistory, Shows, IsValid, ValidAt
<1>6. IsHistory(target, clock)' /\ InOrder(clock)'
  BY <1>1, <1>4
<1> QED BY <1>5, <1>6 DEF SnapInv

LEMMA ReadyInv ==
  ASSUME SnapInv, NEW pc, NEW batch \in Batches, NEW rows, NEW receipt, txn = NoTxn,
         Begin(pc, batch, rows, receipt),
         \/ pc = "rename" /\ rows = After(target, batch, clock) /\ receipt = Counted(target, batch)
         \/ pc = "diff" /\ rows = target /\ snapCfg.sink = "postgresql"
  PROVE  SnapInv'
<1>1. PICK e : e = [pc |-> pc, batch |-> batch, at |-> clock, rows |-> rows,
                    changed |-> {}, gone |-> {}, receipt |-> receipt]
  OBVIOUS
<1>2. /\ txn' = e /\ clock' = clock + 1 /\ UNCHANGED <<snapCfg, target, merges>>
      /\ clock \in Int
  BY <1>1 DEF Begin, SnapInv
<1>3. /\ e = [pc |-> e.pc, batch |-> e.batch, at |-> e.at, rows |-> e.rows, changed |-> e.changed,
              gone |-> e.gone, receipt |-> e.receipt]
      /\ e.pc = pc /\ e.batch = batch /\ e.at = clock /\ e.rows = rows /\ e.receipt = receipt
  BY <1>1
<1>4. PICK then : then = clock'
  OBVIOUS
<1>5. Working(e, then)
  BY <1>2, <1>3, <1>4 DEF Working, SnapInv
<1>6. Working(e, then)'
  BY <1>2, <1>5, SameWorking
<1>7. Working(txn, clock)'
  BY <1>2, <1>4, <1>6 DEF Working
<1> QED BY <1>2, <1>7, Unmoved

(* A statement of the transaction. *)
LEMMA StatementInv ==
  ASSUME SnapInv, UNCHANGED <<snapCfg, target, merges, clock>>, NEW e, Working(e, clock), txn' = e
  PROVE  SnapInv'
<1>1. PICK now : now = clock
  OBVIOUS
<1>2. Working(e, now)'
  BY <1>1, SameWorking
<1>3. Working(txn, clock)'
  BY <1>1, <1>2 DEF Working
<1>4. clock' \in Int /\ clock <= clock'
  BY DEF SnapInv
<1> QED BY <1>3, <1>4, Unmoved

LEMMA WorkingIs ==
  ASSUME SnapInv, txn.pc # "idle"
  PROVE  Working(txn, clock)
BY DEF SnapInv, NoTxn

LEMMA KeysOfIds ==
  ASSUME NEW S
  PROVE  KeysOf({Id(v) : v \in S}) = {v.key : v \in S}
<1>1. \A v : Id(v)[1] = v.key
  BY DEF Id
<1>2. ASSUME NEW x \in KeysOf({Id(v) : v \in S}) PROVE x \in {v.key : v \in S}
  <2>1. PICK id \in {Id(v) : v \in S} : x = id[1]
    BY DEF KeysOf
  <2>2. PICK v \in S : id = Id(v)
    OBVIOUS
  <2> QED BY <1>1, <2>1, <2>2
<1>3. ASSUME NEW x \in {v.key : v \in S} PROVE x \in KeysOf({Id(v) : v \in S})
  <2>1. PICK v \in S : x = v.key
    OBVIOUS
  <2> QED BY <1>1, <2>1 DEF KeysOf
<1> QED BY <1>2, <1>3

(* The ids the query returns are those of the keys the planner classifies. *)
LEMMA KeysCounted ==
  ASSUME NEW T, NEW at, NEW b \in Batches, IsHistory(T, at)
  PROVE  /\ KeysOf(DiffersIds(T, b)) = Changed(T, b)
         /\ KeysOf(MissingIds(T, b)) = GoneKeys(T, b)
<1>1. \A v \in T : v \in Versions /\ v.key \in UniqueKeys
  BY DEF IsHistory, IsVersion, Versions
<1>2. \A u, v \in T : u.current /\ v.current /\ u.key = v.key => u = v
  BY DEF IsHistory, OneCurrent, Current
<1>3. KeysOf(DiffersIds(T, b)) = Changed(T, b)
  <2>1. \A v \in T : v.current => (v.key \in Changed(T, b) <=> Differs(v, b))
    BY <1>1, <1>2 DEF Changed, Unchanged, CurrentKeys, Current, Staged, Differs, Matches
  <2>2. \A k \in Changed(T, b) : \E v \in T : v.current /\ v.key = k
    BY DEF Changed, CurrentKeys, Current
  <2>3. KeysOf(DiffersIds(T, b)) = {v.key : v \in {u \in Current(T) : Differs(u, b)}}
    BY KeysOfIds DEF DiffersIds
  <2> QED BY <2>1, <2>2, <2>3 DEF Current
<1>4. KeysOf(MissingIds(T, b)) = GoneKeys(T, b)
  <2>1. KeysOf(MissingIds(T, b)) = {v.key : v \in {u \in Current(T) : ~Matches(u, b)}}
    BY KeysOfIds DEF MissingIds
  <2> QED BY <1>1, <2>1 DEF GoneKeys, CurrentKeys, Current, Staged, Matches
<1> QED BY <1>3, <1>4

LEMMA DiffInv ==
  ASSUME SnapInv, Diff
  PROVE  SnapInv'
<1>1. PICK o, r, e :
        /\ o = txn
        /\ r = Receipt(New(txn.rows, txn.batch), KeysOf(ChangedIds), KeysOf(GoneIds))
        /\ e = [o EXCEPT !.pc = "close", !.changed = ChangedIds, !.gone = GoneIds, !.receipt = r]
  OBVIOUS
<1>2. Working(o, clock) /\ o.pc = "diff"
  BY <1>1, WorkingIs DEF Diff
<1>3. /\ o = [pc |-> o.pc, batch |-> o.batch, at |-> o.at, rows |-> o.rows, changed |-> o.changed,
              gone |-> o.gone, receipt |-> o.receipt]
      /\ o.rows = target /\ o.batch \in Batches /\ IsHistory(target, o.at)
  BY <1>2 DEF Working
<1>4. ChangedIds = DiffersIds(target, o.batch) /\ GoneIds = MissingIds(target, o.batch)
  BY <1>1, <1>3 DEF ChangedIds, GoneIds, DiffersIds, MissingIds
<1>5. e = [pc |-> "close", batch |-> o.batch, at |-> o.at, rows |-> o.rows,
           changed |-> ChangedIds, gone |-> GoneIds, receipt |-> r]
  BY <1>1, <1>3
<1>6. r = Counted(target, o.batch)
  BY <1>1, <1>3, <1>4, KeysCounted DEF Counted
<1>7. Working(e, clock)
  BY <1>2, <1>3, <1>4, <1>5, <1>6 DEF Working
<1>8. txn' = e /\ UNCHANGED <<snapCfg, target, merges, clock>>
  BY <1>1 DEF Diff
<1> QED BY <1>7, <1>8, StatementInv

(* One of the three statements that change the rows. *)
LEMMA StepIs ==
  ASSUME SnapInv, NEW from, NEW to, NEW rows, Step(from, to, rows), from # "idle"
  PROVE  \E o, e :
           /\ o = txn /\ Working(o, clock) /\ o.pc = from /\ txn' = e
           /\ e = [pc |-> to, batch |-> o.batch, at |-> o.at, rows |-> rows, changed |-> o.changed,
                   gone |-> o.gone, receipt |-> o.receipt]
           /\ UNCHANGED <<snapCfg, target, merges, clock>>
<1>1. PICK o, e : o = txn /\ e = [o EXCEPT !.pc = to, !.rows = rows]
  OBVIOUS
<1>2. Working(o, clock) /\ o.pc = from
  BY <1>1, WorkingIs DEF Step
<1>3. o = [pc |-> o.pc, batch |-> o.batch, at |-> o.at, rows |-> o.rows, changed |-> o.changed,
           gone |-> o.gone, receipt |-> o.receipt]
  BY <1>2 DEF Working
<1>4. e = [pc |-> to, batch |-> o.batch, at |-> o.at, rows |-> rows, changed |-> o.changed,
           gone |-> o.gone, receipt |-> o.receipt]
  BY <1>1, <1>3
<1> QED BY <1>1, <1>2, <1>4 DEF Step

LEMMA CloseInv ==
  ASSUME SnapInv, CloseVersions
  PROVE  SnapInv'
<1> DEFINE R == {IF Id(v) \in ToClose THEN Close(v, txn.at) ELSE v : v \in txn.rows}
<1>1. Step("close", "insert", R)
  BY DEF CloseVersions
<1> HIDE DEF R
<1>2. PICK o, e :
        /\ o = txn /\ Working(o, clock) /\ o.pc = "close" /\ txn' = e
        /\ e = [pc |-> "insert", batch |-> o.batch, at |-> o.at, rows |-> R, changed |-> o.changed,
                gone |-> o.gone, receipt |-> o.receipt]
        /\ UNCHANGED <<snapCfg, target, merges, clock>>
  BY <1>1, StepIs
<1>3. /\ o.rows = target /\ o.batch \in Batches /\ o.at \in Int /\ IsHistory(target, o.at)
      /\ o.changed = DiffersIds(target, o.batch) /\ o.gone = MissingIds(target, o.batch)
  BY <1>2 DEF Working
<1>4. ToClose = ClosingIds(target, o.batch)
  BY <1>2, <1>3 DEF ToClose, ClosingIds
<1>5. R = {IF Id(v) \in ClosingIds(target, o.batch) THEN Close(v, o.at) ELSE v : v \in target}
  BY <1>2, <1>3, <1>4 DEF R
<1>6. R = Turned(target, o.batch, o.at)
  BY <1>3, <1>5, CloseStatement
<1>7. Working(e, clock)
  BY <1>2, <1>6 DEF Working
<1> QED BY <1>2, <1>7, StatementInv

LEMMA InsertInv ==
  ASSUME SnapInv, InsertNewVersions
  PROVE  SnapInv'
<1> DEFINE N == {Version(k, txn.batch[k], txn.at) :
                   k \in {s \in Staged(txn.batch) :
                            \A v \in Current(txn.rows) : v.key = s => Differs(v, txn.batch)}}
           R == txn.rows \cup N
<1>1. Step("insert", "delete", R)
  BY DEF InsertNewVersions
<1> HIDE DEF R
<1>2. PICK o, e :
        /\ o = txn /\ Working(o, clock) /\ o.pc = "insert" /\ txn' = e
        /\ e = [pc |-> "delete", batch |-> o.batch, at |-> o.at, rows |-> R, changed |-> o.changed,
                gone |-> o.gone, receipt |-> o.receipt]
        /\ UNCHANGED <<snapCfg, target, merges, clock>>
  BY <1>1, StepIs
<1>3. /\ o.rows = Turned(target, o.batch, o.at)
      /\ o.batch \in Batches /\ o.at \in Int /\ IsHistory(target, o.at)
      /\ o.changed = DiffersIds(target, o.batch) /\ o.gone = MissingIds(target, o.batch)
  BY <1>2 DEF Working
<1>4. {s \in Staged(o.batch) : \A v \in Current(o.rows) : v.key = s => Differs(v, o.batch)}
        = Opens(target, o.batch)
  BY <1>3, InsertStatement
<1>5. N = Fresh(target, o.batch, o.at)
  BY <1>2, <1>4 DEF Fresh
<1>6. R = Turned(target, o.batch, o.at) \cup Fresh(target, o.batch, o.at)
  BY <1>2, <1>3, <1>5 DEF R
<1>7. Working(e, clock)
  BY <1>2, <1>6 DEF Working
<1> QED BY <1>2, <1>7, StatementInv

LEMMA DeleteInv ==
  ASSUME SnapInv, HardDelete
  PROVE  SnapInv'
<1> DEFINE R == IF snapCfg.deletes = "delete" THEN Undeleted(txn.rows, txn.gone) ELSE txn.rows
<1>1. Step("delete", "commit", R)
  BY DEF HardDelete, Undeleted
<1> HIDE DEF R
<1>2. PICK o, e :
        /\ o = txn /\ Working(o, clock) /\ o.pc = "delete" /\ txn' = e
        /\ e = [pc |-> "commit", batch |-> o.batch, at |-> o.at, rows |-> R, changed |-> o.changed,
                gone |-> o.gone, receipt |-> o.receipt]
        /\ UNCHANGED <<snapCfg, target, merges, clock>>
  BY <1>1, StepIs
<1>3. /\ o.rows = Turned(target, o.batch, o.at) \cup Fresh(target, o.batch, o.at)
      /\ o.batch \in Batches /\ o.at \in Int /\ IsHistory(target, o.at)
      /\ o.changed = DiffersIds(target, o.batch) /\ o.gone = MissingIds(target, o.batch)
  BY <1>2 DEF Working
<1>4. R = After(target, o.batch, o.at)
  <2>1. CASE snapCfg.deletes = "delete"
    <3>1. Undeleted(o.rows, MissingIds(target, o.batch)) = After(target, o.batch, o.at)
      BY <1>3, <2>1, DeleteStatement
    <3> QED BY <1>2, <1>3, <2>1, <3>1 DEF R
  <2>2. CASE snapCfg.deletes # "delete"
    <3>1. After(target, o.batch, o.at) = o.rows
      BY <1>3, <2>2 DEF After, Drops
    <3> QED BY <1>2, <2>2, <3>1 DEF R
  <2> QED BY <2>1, <2>2
<1>5. Working(e, clock)
  BY <1>2, <1>4 DEF Working
<1> QED BY <1>2, <1>5, StatementInv

LEMMA CommitInv ==
  ASSUME SnapInv, Commit, txn.pc \in {"rename", "commit"}
  PROVE  SnapInv'
<1>1. PICK T, now, b, a : T = target /\ now = clock /\ b = txn.batch /\ a = txn.at
  OBVIOUS
<1>2. Working(txn, clock)
  BY WorkingIs
<1>3. /\ b \in Batches /\ a \in Int /\ now \in Int /\ a < now
      /\ IsHistory(T, a) /\ InOrder(a)
      /\ txn.rows = After(T, b, a)
      /\ snapCfg \in Policies
  BY <1>1, <1>2 DEF Working, SnapInv
<1>4. PICK X : X = After(T, b, a)
  OBVIOUS
<1>5. /\ target' = X /\ merges' = Append(merges, [at |-> a, batch |-> b])
      /\ txn' = NoTxn /\ UNCHANGED <<snapCfg, clock>>
  BY <1>1, <1>3, <1>4 DEF Commit
<1>6. IsHistory(X, now)
  BY <1>3, <1>4, AfterStored
<1>7. IsHistory(target, clock)'
  <2>1. IsHistory(X, now)'
    BY <1>5, <1>6, SameMerge
  <2> QED BY <1>1, <1>5, <2>1
<1>8. \A k \in UniqueKeys, t \in Int :
        /\ Expected(k, t)' = AfterMerge(k, t, b, a)
        /\ Held(k, t)' = {} \/ HasLast(Held(k, t)')
  BY <1>3, <1>5, ExpectedNext
<1>9. InOrder(clock)'
  <2>1. merges' \in Seq(Merges)
    BY <1>3, <1>5 DEF InOrder, Merges
  <2>2. \A n \in 1..Len(merges) : merges[n].at < now
    <3> SUFFICES ASSUME NEW n \in 1..Len(merges) PROVE merges[n].at < now
      OBVIOUS
    <3>1. merges \in Seq(Merges) /\ merges[n].at < a
      BY <1>3 DEF InOrder
    <3>2. merges[n] \in Merges
      BY <3>1
    <3>3. merges[n].at \in Int
      BY <3>2 DEF Merges
    <3> QED BY <1>3, <3>1, <3>3
  <2>3. \A n \in 1..Len(merges') : merges'[n].at < now
    BY <1>3, <1>5, <2>2 DEF InOrder
  <2> QED BY <1>1, <1>5, <1>8, <2>1, <2>3 DEF InOrder, HasLast
<1>10. ShowsHistory'
  <2> SUFFICES ASSUME NEW k \in UniqueKeys, NEW t \in Int
               PROVE  Shows(target, k, t, Expected(k, t))'
    BY DEF ShowsHistory
  <2>1. Shows(T, k, t, Expected(k, t))
    BY <1>1 DEF SnapInv, ShowsHistory
  <2>2. Shows(X, k, t, AfterMerge(k, t, b, a))
    BY <1>3, <1>4, <2>1, AfterShows
  <2> QED BY <1>5, <1>8, <2>2 DEF Shows, IsValid, ValidAt
<1> QED BY <1>5, <1>7, <1>9, <1>10 DEF SnapInv

LEMMA SnapInvInit ==
  ASSUME SnapInit
  PROVE  SnapInv
<1>1. IsHistory(target, clock)
  BY DEF SnapInit, IsHistory, OneCurrent, UniqueIds, NoneLeft, Current
<1>2. \A k, t : Held(k, t) = {}
  BY DEF SnapInit, Held, Upto
<1>3. InOrder(clock)
  BY <1>2 DEF SnapInit, InOrder
<1>4. ShowsHistory
  BY <1>2 DEF SnapInit, ShowsHistory, Shows, Expected
<1> QED BY <1>1, <1>3, <1>4 DEF SnapInit, SnapInv

LEMMA SnapInvNext ==
  ASSUME SnapInv, [SnapNext]_snapVars
  PROVE  SnapInv'
<1>1. CASE NothingToDo
  <2>1. /\ txn' = NoTxn /\ UNCHANGED <<snapCfg, target, merges>>
        /\ clock' \in Int /\ clock <= clock'
    BY <1>1 DEF NothingToDo, Ready, SnapInv, Working
  <2> QED BY <2>1, Unmoved
<1>2. ASSUME NEW batch \in Batches, WriteParquet(batch) PROVE SnapInv'
  <2>1. Merged(target, batch, clock) = After(target, batch, clock)
    BY PlansAfter DEF SnapInv
  <2>2. txn = NoTxn
    BY <1>2 DEF WriteParquet, Ready, SnapInv, Working
  <2> QED BY <1>2, <2>1, <2>2, ReadyInv DEF WriteParquet, Counted
<1>3. ASSUME NEW batch \in Batches, Stage(batch) PROVE SnapInv'
  <2>1. txn = NoTxn
    BY <1>3 DEF Stage, Ready, SnapInv, Working
  <2> QED BY <1>3, <2>1, ReadyInv DEF Stage
<1>4. CASE Rename
  BY <1>4, CommitInv DEF Rename
<1>5. CASE Diff
  BY <1>5, DiffInv
<1>6. CASE CloseVersions
  BY <1>6, CloseInv
<1>7. CASE InsertNewVersions
  BY <1>7, InsertInv
<1>8. CASE HardDelete
  BY <1>8, DeleteInv
<1>9. CASE CommitTransaction
  BY <1>9, CommitInv DEF CommitTransaction
<1>10. CASE Abort
  <2>1. /\ txn' = NoTxn /\ UNCHANGED <<snapCfg, target, merges>>
        /\ clock' \in Int /\ clock <= clock'
    BY <1>10 DEF Abort, SnapInv
  <2> QED BY <2>1, Unmoved
<1>11. CASE UNCHANGED snapVars
  <2>1. CASE txn = NoTxn
    <3>1. txn' = NoTxn /\ UNCHANGED <<snapCfg, target, merges>> /\ clock' \in Int /\ clock <= clock'
      BY <1>11, <2>1 DEF snapVars, SnapInv
    <3> QED BY <3>1, Unmoved
  <2>2. CASE Working(txn, clock)
    <3>1. PICK o : o = txn
      OBVIOUS
    <3>2. Working(o, clock) /\ txn' = o /\ UNCHANGED <<snapCfg, target, merges, clock>>
      BY <1>11, <2>2, <3>1 DEF snapVars
    <3> QED BY <3>2, StatementInv
  <2> QED BY <2>1, <2>2 DEF SnapInv
<1> QED BY <1>1, <1>2, <1>3, <1>4, <1>5, <1>6, <1>7, <1>8, <1>9, <1>10, <1>11 DEF SnapNext

LEMMA SnapInvHolds == SnapSpec => []SnapInv
<1>1. SnapInit => SnapInv
  BY SnapInvInit
<1>2. SnapInv /\ [SnapNext]_snapVars => SnapInv'
  BY SnapInvNext
<1> QED BY <1>1, <1>2, PTL DEF SnapSpec

(* At every past time the history of a key shows what the source held then: *)
(* in both sinks, under every policy, whatever was aborted in between.      *)
THEOREM HistoryAnswersHold == SnapSpec => []HistoryAnswers
<1>1. SnapInv => HistoryAnswers
  <2> SUFFICES ASSUME SnapInv, NEW k \in UniqueKeys, NEW t \in 1..MaxMerges,
                      NEW S, S = {v \in History(k) : ValidAt(v, t)}
               PROVE  IF Expected(k, t) = None THEN S = {}
                      ELSE Cardinality(S) = 1 /\ \A v \in S : v.val = Expected(k, t)
    BY DEF HistoryAnswers
  <2>1. Shows(target, k, t, Expected(k, t))
    BY SourceAssumption DEF SnapInv, ShowsHistory
  <2>2. S = {v \in target : IsValid(v, k, t)}
    BY DEF History, IsValid
  <2>3. CASE Expected(k, t) = None
    BY <2>1, <2>2, <2>3 DEF Shows
  <2>4. CASE Expected(k, t) # None
    <3>1. PICK v \in target : IsValid(v, k, t)
      BY <2>1, <2>4 DEF Shows
    <3>2. S = {v}
      BY <2>1, <2>2, <3>1 DEF Shows
    <3>3. Cardinality(S) = 1
      BY <3>2, FS_Singleton
    <3> QED BY <2>1, <2>2, <2>4, <3>3 DEF Shows
  <2> QED BY <2>3, <2>4
<1> QED BY <1>1, SnapInvHolds, PTL

(* The receipt of a merge about to commit names the keys with a version     *)
(* opened, with a version closed, and with none left.                       *)
THEOREM ReceiptIsRealHolds == SnapSpec => []ReceiptIsReal
<1>1. SnapInv => ReceiptIsReal
  <2> SUFFICES ASSUME SnapInv, Ending,
                      NEW o, o = txn, NEW T, T = target, NEW b, b = o.batch, NEW a, a = o.at
               PROVE  /\ o.receipt.inserted = {v.key : v \in {u \in o.rows : u.from = a}}
                      /\ o.receipt.updated = {v.key : v \in {u \in o.rows : u.to = a}}
                      /\ o.receipt.deleted = {v.key : v \in T} \ {v.key : v \in o.rows}
    BY DEF ReceiptIsReal
  <2>1. Working(o, clock)
    BY WorkingIs DEF Ending
  <2>2. /\ b \in Batches /\ a \in Int /\ IsHistory(T, a) /\ o.rows = After(T, b, a)
        /\ o.receipt = Counted(T, b) /\ snapCfg.deletes \in {"ignore", "invalidate", "delete"}
    BY <2>1 DEF Working, Ending, SnapInv, Policies
  <2>3. \A v \in T : /\ v \in Versions /\ v.key \in UniqueKeys
                     /\ v.from < a /\ v.from \in Int /\ v.to # a
    <3>1. \A v \in T : v \in Versions /\ v.from < a /\ (v.to # None => v.to < a)
      BY <2>2 DEF IsHistory, IsVersion
    <3>2. a # None
      BY <2>2, SourceAssumption
    <3> QED BY <2>2, <3>1, <3>2 DEF Versions
  <2>4. \A u, v \in T : u.current /\ v.current /\ u.key = v.key => u = v
    BY <2>2 DEF IsHistory, OneCurrent, Current
  <2>5. \A v \in T : /\ Turn(v, b, a).key = v.key /\ Turn(v, b, a).from = v.from
                     /\ Turn(v, b, a).to = a <=> Closes(v, b)
    BY <2>2, <2>3, TurnKeeps
  <2>6. \A k \in Opens(T, b) : /\ Version(k, b[k], a).key = k /\ Version(k, b[k], a).from = a
                               /\ Version(k, b[k], a).to # a
    <3>1. a # None
      BY <2>2, SourceAssumption
    <3> QED BY <2>2, <3>1, FreshIs
  <2>7. {v.key : v \in {u \in After(T, b, a) : u.from = a}} = Opens(T, b)
    <3>1. \A w \in Turned(T, b, a) : w.from # a
      BY <2>2, <2>3, <2>5 DEF Turned
    <3>2. {u \in After(T, b, a) : u.from = a} = Fresh(T, b, a)
      <4>1. \A w \in Fresh(T, b, a) : w.from = a
        BY <2>6 DEF Fresh
      <4> QED BY <3>1, <4>1 DEF After
    <3>3. {v.key : v \in Fresh(T, b, a)} = Opens(T, b)
      BY <2>6 DEF Fresh
    <3> QED BY <3>2, <3>3
  <2>8. Opens(T, b) = New(T, b) \cup Changed(T, b)
    BY <2>2, OpensAre DEF IsHistory
  <2> DEFINE U == {v.key : v \in {u \in After(T, b, a) : u.to = a}}
  <2>9. U = o.receipt.updated
    <3>1. U = {v.key : v \in {u \in T : Closes(u, b)}}
      <4>1. ASSUME NEW k \in U PROVE \E v \in T : Closes(v, b) /\ v.key = k
        <5>1. PICK w \in After(T, b, a) : w.to = a /\ w.key = k
          OBVIOUS
        <5>2. w \notin Fresh(T, b, a)
          BY <2>6, <5>1 DEF Fresh
        <5>3. PICK v \in T : w = Turn(v, b, a)
          BY <5>2 DEF After, Turned
        <5> QED BY <2>5, <5>1, <5>3
      <4>2. ASSUME NEW v \in T, Closes(v, b) PROVE v.key \in U
        <5>1. ~Drops(v.key, b)
          BY <4>2 DEF Closes, Drops
        <5>2. Turn(v, b, a) \in After(T, b, a)
          BY <2>5, <5>1 DEF After, Turned
        <5> QED BY <2>5, <4>2, <5>2
      <4> QED BY <4>1, <4>2
    <3>2. \A v \in T : v.current =>
            /\ v.key \in Changed(T, b) <=> b[v.key] # None /\ Signal(v) # Signal(b[v.key])
            /\ v.key \in GoneKeys(T, b) <=> b[v.key] = None
      BY <2>3, <2>4 DEF Changed, Unchanged, GoneKeys, CurrentKeys, Current, Staged
    <3>3. \A k \in Changed(T, b) \cup GoneKeys(T, b) : \E v \in T : v.current /\ v.key = k
      BY DEF Changed, GoneKeys, CurrentKeys, Current
    <3>4. o.receipt.updated =
            Changed(T, b) \cup (IF snapCfg.deletes = "invalidate" THEN GoneKeys(T, b) ELSE {})
      BY <2>2 DEF Counted, Receipt
    <3> QED BY <3>1, <3>2, <3>3, <3>4 DEF Closes
  <2> DEFINE L == {v.key : v \in T} \ {v.key : v \in After(T, b, a)}
  <2>10. L = o.receipt.deleted
    <3>1. \A v \in T : v.key \in L <=> Drops(v.key, b)
      <4>1. ASSUME NEW v \in T, ~Drops(v.key, b) PROVE v.key \notin L
        <5>1. Turn(v, b, a) \in After(T, b, a) /\ Turn(v, b, a).key = v.key
          BY <2>5, <4>1 DEF After, Turned
        <5> QED BY <5>1
      <4>2. ASSUME NEW v \in T, Drops(v.key, b) PROVE v.key \in L
        <5> SUFFICES ASSUME NEW w \in After(T, b, a), w.key = v.key PROVE FALSE
          OBVIOUS
        <5>1. CASE w \in Fresh(T, b, a)
          BY <2>6, <4>2, <5>1 DEF Fresh, Opens, Staged, Drops
        <5>2. CASE w \notin Fresh(T, b, a)
          BY <2>5, <4>2, <5>2 DEF After, Turned
        <5> QED BY <5>1, <5>2
      <4> QED BY <4>1, <4>2
    <3>2. CASE snapCfg.deletes = "delete"
      <4>1. \A v \in T : v.key \in CurrentKeys(T)
        BY <2>2, <3>2 DEF IsHistory, NoneLeft
      <4>2. L = CurrentKeys(T) \ Staged(b)
        BY <2>3, <3>1, <3>2, <4>1 DEF Drops, Staged, CurrentKeys, Current
      <4> QED BY <2>2, <3>2, <4>2 DEF Counted, Receipt, GoneKeys
    <3>3. CASE snapCfg.deletes # "delete"
      <4>1. L = {}
        BY <3>1, <3>3 DEF Drops
      <4> QED BY <2>2, <3>3, <4>1 DEF Counted, Receipt
    <3> QED BY <3>2, <3>3
  <2>11. o.receipt.inserted = New(T, b) \cup Changed(T, b)
    BY <2>2 DEF Counted, Receipt
  <2> QED BY <2>2, <2>7, <2>8, <2>9, <2>10, <2>11
<1> QED BY <1>1, SnapInvHolds, PTL

-----------------------------------------------------------------------------
(* Incremental loads *)

(* The record of the run, and of what it works on, by their fields.        *)
Shapes ==
  /\ mzSource = [schema |-> mzSource.schema, rows |-> mzSource.rows]
  /\ mzStore = [mark |-> mzStore.mark, recorded |-> mzStore.recorded]
  /\ mzTarget = [columns |-> mzTarget.columns, rows |-> mzTarget.rows, mixed |-> mzTarget.mixed]
  /\ mzRun = [stage |-> mzRun.stage, result |-> mzRun.result, why |-> mzRun.why,
              policy |-> mzRun.policy, refresh |-> mzRun.refresh, mark |-> mzRun.mark,
              schema |-> mzRun.schema, batch |-> mzRun.batch, upTo |-> mzRun.upTo,
              valid |-> mzRun.valid]

Active == {"read", "write", "state", "schema"}
AfterRead == {"write", "state", "schema"}

LoadTypes ==
  /\ Shapes
  /\ mzPolicy \in PolicyChoices
  /\ mzSource.schema \in Schemas /\ mzSource.rows \in Nat
  /\ mzStore.recorded \in Schemas \cup {None}
  /\ mzTarget.columns \in (SUBSET AllColumns) \cup {None}
  /\ mzTarget.mixed \in BOOLEAN
  /\ mzRun.stage \in Active \cup {"idle"}
  /\ mzRun.upTo \in Nat /\ mzRun.upTo <= mzSource.rows
  /\ mzRun.batch \subseteq 1..mzRun.upTo
  /\ mzRun.stage \in AfterRead => mzRun.schema \in Schemas
  /\ mzRun.stage \in Active =>
       /\ mzRun.policy \in PolicyChoices /\ mzRun.why = None
       /\ IsIncremental(mzRun.policy) =>
            mzRun.policy.watermark # None /\ ParseLookback(mzRun.policy.lookback) \in Nat
  /\ mzRun.stage \in {"state", "schema"} => IsIncremental(mzRun.policy)

(* A mark that is a value of its column is that of a row the source had;   *)
(* where no read since the last complete one went by another, the target   *)
(* has every row up to it.                                                 *)
Covers(mark, top, held) ==
  mark # None /\ mark.own =>
    \E k \in 1..top : /\ mark.value = Value(k, mark.column)
                      /\ ~held.mixed => 1..k \subseteq held.rows

Top == IF mzRun.stage \in AfterRead THEN mzRun.upTo ELSE mzSource.rows

MarkInv ==
  /\ Covers(mzStore.mark, Top, mzTarget)
  /\ mzRun.stage \in {"read", "write", "state"} =>
       Covers(mzRun.mark, Top, mzTarget) /\ mzStore.mark \in {None, mzRun.mark}

(* A read that does not go by a foreign mark takes every row beyond its own. *)
Beyond(mark, top, batch) ==
  /\ mark # None /\ mark.own
  /\ \A r \in 1..top : Value(r, mark.column) > mark.value => r \in batch

ReadInv ==
  mzRun.stage = "write" =>
    mzRun.batch = 1..mzRun.upTo \/ Foreign \/ Beyond(mzRun.mark, mzRun.upTo, mzRun.batch)

HasWritten == mzRun.stage \in {"state", "schema"} \/ (mzRun.stage = "idle" /\ mzRun.result = "success")

WroteInv == HasWritten /\ ~mzTarget.mixed => 1..mzRun.upTo \subseteq mzTarget.rows

LoadInv == LoadTypes /\ MarkInv /\ ReadInv /\ WroteInv

LEMMA ValueGrows ==
  ASSUME NEW c, NEW i \in Nat, NEW j \in Nat
  PROVE  Value(i, c) \in Nat /\ (i <= j <=> Value(i, c) <= Value(j, c))
BY DEF Value

LEMMA LeastOf ==
  ASSUME NEW S, S \subseteq Nat, S # {}
  PROVE  \E m \in S : \A n \in S : m <= n
<1>1. PICK m \in S : \A n \in S : ~ (<<n, m>> \in OpToRel(<, Nat))
  BY NatLessThanWellFounded, WFMin, Zenon
<1>2. \A n \in S : ~ (n < m)
  BY <1>1 DEF OpToRel
<1> QED BY <1>2

(* A batch has a newest row. *)
LEMMA NewestRow ==
  ASSUME NEW top \in Nat, NEW batch \in SUBSET (1..top), batch # {}, NEW c
  PROVE  \E k \in batch : Max({Value(r, c) : r \in batch}) = Value(k, c)
<1> DEFINE back == {n \in Nat : top - n \in batch}
<1>1. back # {}
  <2>1. PICK r \in batch : r \in 1..top
    OBVIOUS
  <2>2. top - r \in Nat /\ top - (top - r) = r
    BY <2>1
  <2> QED BY <2>1, <2>2
<1>2. PICK n \in back : \A m \in back : n <= m
  BY <1>1, LeastOf
<1> DEFINE k == top - n
<1>4. k \in batch /\ k \in Nat
  OBVIOUS
<1>5. \A r \in batch : r <= k
  <2> SUFFICES ASSUME NEW r \in batch PROVE r <= k
    OBVIOUS
  <2>1. r \in 1..top /\ top - r \in Nat /\ top - (top - r) = r
    OBVIOUS
  <2>2. top - r \in back
    BY <2>1
  <2> QED BY <1>2, <2>1, <2>2
<1> DEFINE S == {Value(r, c) : r \in batch}
<1>6. Value(k, c) \in S /\ \A y \in S : Value(k, c) >= y
  BY <1>4, <1>5, ValueGrows
<1>7. \A x \in S : (\A y \in S : x >= y) => x = Value(k, c)
  <2>1. S \subseteq Nat
    BY ValueGrows
  <2> QED BY <1>6, <2>1
<1> HIDE DEF S, k
<1>8. Max(S) = Value(k, c)
  BY <1>6, <1>7 DEF Max
<1> QED BY <1>4, <1>8 DEF S, k

LEMMA CoversOn ==
  ASSUME NEW m, NEW t \in Nat, NEW u \in Nat, t <= u, NEW old, NEW new, Covers(m, t, old),
         ~new.mixed => (~old.mixed /\ old.rows \subseteq new.rows) \/ 1..t \subseteq new.rows
  PROVE  Covers(m, u, new)
<1> SUFFICES ASSUME m # None, m.own PROVE Covers(m, u, new)
  BY DEF Covers
<1>1. PICK k \in 1..t : m.value = Value(k, m.column) /\ (~old.mixed => 1..k \subseteq old.rows)
  BY DEF Covers
<1>2. k \in 1..u /\ 1..k \subseteq 1..t
  OBVIOUS
<1>3. ~new.mixed => 1..k \subseteq new.rows
  BY <1>1, <1>2
<1> QED BY <1>1, <1>2, <1>3 DEF Covers

LEMMA EndedFields ==
  ASSUME NEW result, NEW why, NEW ended, ended = Ended(result, why)
  PROVE  /\ ended = [stage |-> ended.stage, result |-> ended.result, why |-> ended.why,
                     policy |-> ended.policy, refresh |-> ended.refresh, mark |-> ended.mark,
                     schema |-> ended.schema, batch |-> ended.batch, upTo |-> ended.upTo,
                     valid |-> ended.valid]
         /\ ended.stage = "idle" /\ ended.result = result /\ ended.why = why /\ ended.batch = {}
         /\ ended.schema = mzRun.schema /\ ended.upTo = mzRun.upTo /\ ended.valid = mzRun.valid
<1>1. PICK s, u, v : s = mzRun.schema /\ u = mzRun.upTo /\ v = mzRun.valid
  OBVIOUS
<1>2. ended = [Idle(result, why) EXCEPT !.schema = s, !.upTo = u, !.valid = v]
  BY <1>1 DEF Ended
<1>3. ended = [stage |-> "idle", result |-> result, why |-> why, policy |-> None, refresh |-> FALSE,
               mark |-> None, schema |-> s, batch |-> {}, upTo |-> u, valid |-> v]
  BY <1>2 DEF Idle
<1> QED BY <1>1, <1>3

-----------------------------------------------------------------------------
LEMMA InitLoads == ChoicesAreTyped /\ Init(PolicyChoices, Schemas) => LoadInv
BY DEF Init, Idle, LoadInv, LoadTypes, Shapes, Active, AfterRead, MarkInv, Covers, ReadInv, WroteInv, HasWritten

(* A run that ends leaves its marks behind. *)
LEMMA EndsKeep ==
  ASSUME LoadInv, NEW result, NEW why, mzRun' = Ended(result, why),
         mzPolicy' = mzPolicy, mzSource' = mzSource, LoadTypes',
         Covers(mzStore'.mark, mzSource.rows, mzTarget'),
         result = "success" /\ ~mzTarget'.mixed => 1..mzRun.upTo \subseteq mzTarget'.rows
  PROVE  LoadInv'
<1>1. mzRun'.stage = "idle" /\ mzRun'.result = result /\ mzRun'.upTo = mzRun.upTo
  BY EndedFields
<1>2. MarkInv'
  BY <1>1 DEF MarkInv, Top, AfterRead
<1>3. ReadInv'
  BY <1>1 DEF ReadInv
<1>4. WroteInv'
  BY <1>1 DEF WroteInv, HasWritten
<1> QED BY <1>2, <1>3, <1>4 DEF LoadInv

LEMMA EndTypes ==
  ASSUME LoadInv, NEW result, NEW why, mzRun' = Ended(result, why), UNCHANGED <<mzPolicy, mzSource>>,
         mzStore' = [mark |-> mzStore'.mark, recorded |-> mzStore'.recorded],
         mzStore'.recorded \in Schemas \cup {None},
         mzTarget' = [columns |-> mzTarget'.columns, rows |-> mzTarget'.rows, mixed |-> mzTarget'.mixed],
         mzTarget'.columns \in (SUBSET AllColumns) \cup {None}, mzTarget'.mixed \in BOOLEAN
  PROVE  LoadTypes'
<1>1. /\ mzRun'.stage = "idle" /\ mzRun'.upTo = mzRun.upTo /\ mzRun'.batch = {}
      /\ mzRun' = [stage |-> mzRun'.stage, result |-> mzRun'.result, why |-> mzRun'.why,
                   policy |-> mzRun'.policy, refresh |-> mzRun'.refresh, mark |-> mzRun'.mark,
                   schema |-> mzRun'.schema, batch |-> mzRun'.batch, upTo |-> mzRun'.upTo,
                   valid |-> mzRun'.valid]
  BY EndedFields
<1> QED BY <1>1 DEF LoadInv, LoadTypes, Shapes, Active, AfterRead

LEMMA TopBounds == LoadInv => Top \in Nat /\ Top <= mzSource.rows
BY DEF LoadInv, LoadTypes, Top

LEMMA EditSteps ==
  ASSUME ChoicesAreTyped, LoadInv,
         \/ \E p \in PolicyChoices, by \in {"api", "import"} : SavePolicy(p, by)
         \/ \E s \in Schemas : ChangeSource(s)
         \/ AddRow \/ Reset
  PROVE  LoadInv'
<1>1. /\ mzRun' = mzRun /\ mzTarget' = mzTarget
      /\ mzPolicy' \in PolicyChoices
      /\ mzSource' = [schema |-> mzSource'.schema, rows |-> mzSource'.rows]
      /\ mzSource'.schema \in Schemas /\ mzSource'.rows \in Nat /\ mzSource.rows <= mzSource'.rows
      /\ mzStore' = [mark |-> mzStore'.mark, recorded |-> mzStore'.recorded]
      /\ mzStore'.mark \in {None, mzStore.mark} /\ mzStore'.recorded = mzStore.recorded
  BY DEF SavePolicy, ChangeSource, AddRow, Reset, LoadInv, LoadTypes, Shapes
<1>2. LoadTypes'
  BY <1>1 DEF LoadInv, LoadTypes, Shapes, Active, AfterRead
<1>3. Top' \in Nat /\ Top <= Top' /\ Top \in Nat
  BY <1>1, TopBounds DEF Top, LoadInv, LoadTypes
<1>4. \A m : Covers(m, Top, mzTarget) => Covers(m, Top', mzTarget')
  BY <1>1, <1>3, CoversOn
<1>5. MarkInv'
  <2>1. Covers(mzStore'.mark, Top', mzTarget')
    <3>1. CASE mzStore'.mark = None
      BY <3>1 DEF Covers
    <3>2. CASE mzStore'.mark = mzStore.mark
      BY <3>2, <1>4 DEF LoadInv, MarkInv
    <3> QED BY <1>1, <3>1, <3>2
  <2>2. mzRun.stage \in {"read", "write", "state"} =>
          Covers(mzRun.mark, Top', mzTarget') /\ mzStore'.mark \in {None, mzRun.mark}
    BY <1>1, <1>4 DEF LoadInv, MarkInv
  <2> QED BY <1>1, <2>1, <2>2 DEF MarkInv
<1>6. ReadInv' /\ WroteInv'
  BY <1>1 DEF LoadInv, ReadInv, WroteInv, HasWritten, Foreign, Filters
<1> QED BY <1>2, <1>5, <1>6 DEF LoadInv

LEMMA StartRunStep ==
  ASSUME ChoicesAreTyped, LoadInv, NEW refresh \in BOOLEAN, NEW bootstrap \in BOOLEAN,
         StartRun(refresh, bootstrap)
  PROVE  LoadInv'
<1> DEFINE why == PlanError(mzPolicy, refresh, bootstrap)
           valid == ValidatePolicy(mzPolicy) = {}
<1>1. /\ mzRun.stage = "idle" /\ UNCHANGED <<mzPolicy, mzSource, mzStore, mzTarget>>
      /\ mzRun' = IF why # None THEN [Idle("failed", why) EXCEPT !.valid = valid]
                  ELSE [Idle(None, None) EXCEPT !.stage = "read", !.policy = mzPolicy, !.valid = valid,
                                                !.refresh = refresh, !.mark = mzStore.mark]
  BY DEF StartRun
<1>2. /\ mzRun' = [stage |-> mzRun'.stage, result |-> mzRun'.result, why |-> mzRun'.why,
                   policy |-> mzRun'.policy, refresh |-> mzRun'.refresh, mark |-> mzRun'.mark,
                   schema |-> mzRun'.schema, batch |-> mzRun'.batch, upTo |-> mzRun'.upTo,
                   valid |-> mzRun'.valid]
      /\ mzRun'.upTo = 0 /\ mzRun'.batch = {}
      /\ why # None => mzRun'.stage = "idle" /\ mzRun'.result = "failed"
      /\ why = None => /\ mzRun'.stage = "read" /\ mzRun'.policy = mzPolicy /\ mzRun'.why = None
                       /\ mzRun'.mark = mzStore.mark
  <2> HIDE DEF why, valid
  <2> QED BY <1>1 DEF Idle
<1>3. why = None /\ IsIncremental(mzPolicy) =>
        mzPolicy.watermark # None /\ ParseLookback(mzPolicy.lookback) \in Nat
  BY DEF PlanError, ChoicesAreTyped, LoadInv, LoadTypes
<1> HIDE DEF why, valid
<1>4. LoadTypes'
  BY <1>1, <1>2, <1>3 DEF LoadInv, LoadTypes, Shapes, Active, AfterRead
<1>5. Top = mzSource.rows /\ Top' = mzSource.rows
  BY <1>1, <1>2 DEF Top, AfterRead
<1>6. MarkInv'
  BY <1>1, <1>2, <1>5 DEF LoadInv, MarkInv
<1>7. ReadInv' /\ WroteInv'
  BY <1>2 DEF ReadInv, WroteInv, HasWritten
<1> QED BY <1>4, <1>6, <1>7 DEF LoadInv

(* Ended otherwise than in success, with what is stored unchanged. *)
LEMMA FailsKeep ==
  ASSUME LoadInv, NEW why, mzRun' = Ended("failed", why),
         UNCHANGED <<mzPolicy, mzSource, mzStore, mzTarget>>
  PROVE  LoadInv'
<1>1. LoadTypes'
  BY EndTypes DEF LoadInv, LoadTypes, Shapes
<1>2. Covers(mzStore'.mark, mzSource.rows, mzTarget')
  BY TopBounds, CoversOn DEF LoadInv, MarkInv, LoadTypes
<1>3. "failed" # "success"
  OBVIOUS
<1> QED BY <1>1, <1>2, <1>3, EndsKeep

(* What goes by an own mark of its watermark column takes what lies beyond. *)
LEMMA PassedIsEnough ==
  ASSUME ChoicesAreTyped, LoadInv, mzRun.stage = "read"
  PROVE  /\ Passed \subseteq 1..mzSource.rows
         /\ Passed = 1..mzSource.rows \/ Foreign \/ Beyond(mzRun.mark, mzSource.rows, Passed)
<1> DEFINE w == mzRun.policy.watermark
           back == ParseLookback(mzRun.policy.lookback)
<1>1. CASE ~Filters \/ mzRun.mark = None
  BY <1>1 DEF Passed
<1>2. CASE Filters /\ mzRun.mark # None
  <2>1. Passed = {r \in 1..mzSource.rows : Value(r, w.column) > ToScalar(w.type, mzRun.mark, back)}
    BY <1>2 DEF Passed
  <2>2. ASSUME ~Foreign PROVE Beyond(mzRun.mark, mzSource.rows, Passed)
    <3>1. mzRun.mark.own /\ w = Watermark(mzRun.mark.column, mzRun.mark.type)
      BY <1>2, <2>2 DEF Foreign
    <3>2. w.column = mzRun.mark.column /\ w.type = mzRun.mark.type
      BY <3>1 DEF Watermark
    <3>3. w.type \in {"timestamp", "int64", "string"} /\ back \in Nat
      BY <1>2 DEF Filters, LoadInv, LoadTypes, Active, ChoicesAreTyped
    <3>4. PICK k \in 1..mzSource.rows : mzRun.mark.value = Value(k, mzRun.mark.column)
      BY <1>2, <3>1 DEF LoadInv, MarkInv, Top, AfterRead, Covers
    <3>5. mzRun.mark.value \in Nat
      BY <3>4, ValueGrows
    <3>6. /\ ToScalar(w.type, mzRun.mark, back) \in Int
          /\ ToScalar(w.type, mzRun.mark, back) <= mzRun.mark.value
      <4> HIDE DEF back
      <4> QED BY <3>2, <3>3, <3>5 DEF ToScalar
    <3>7. \A r \in 1..mzSource.rows : Value(r, mzRun.mark.column) > mzRun.mark.value => r \in Passed
      <4> SUFFICES ASSUME NEW r \in 1..mzSource.rows, Value(r, w.column) > mzRun.mark.value
                   PROVE  Value(r, w.column) > ToScalar(w.type, mzRun.mark, back)
        BY <2>1, <3>2
      <4>1. Value(r, w.column) \in Nat
        BY ValueGrows
      <4> QED BY <3>5, <3>6, <4>1
    <3> QED BY <1>2, <3>1, <3>7 DEF Beyond
  <2> QED BY <2>1, <2>2
<1> QED BY <1>1, <1>2

LEMMA ReadSourceStep ==
  ASSUME ChoicesAreTyped, LoadInv, ReadSource
  PROVE  LoadInv'
<1>1. /\ mzRun.stage = "read" /\ UNCHANGED <<mzPolicy, mzSource, mzStore, mzTarget>>
  BY DEF ReadSource
<1>2. CASE ReadError # None
  <2>1. mzRun' = Ended("failed", ReadError)
    BY <1>2 DEF ReadSource
  <2> QED BY <1>1, <2>1, FailsKeep
<1>3. CASE ReadError = None
  <2>1. mzRun' = [mzRun EXCEPT !.stage = "write", !.batch = Passed, !.schema = mzSource.schema,
                               !.upTo = mzSource.rows]
    BY <1>3 DEF ReadSource
  <2>2. /\ mzRun' = [stage |-> mzRun'.stage, result |-> mzRun'.result, why |-> mzRun'.why,
                     policy |-> mzRun'.policy, refresh |-> mzRun'.refresh, mark |-> mzRun'.mark,
                     schema |-> mzRun'.schema, batch |-> mzRun'.batch, upTo |-> mzRun'.upTo,
                     valid |-> mzRun'.valid]
        /\ mzRun'.stage = "write" /\ mzRun'.batch = Passed /\ mzRun'.schema = mzSource.schema
        /\ mzRun'.upTo = mzSource.rows /\ mzRun'.policy = mzRun.policy /\ mzRun'.mark = mzRun.mark
        /\ mzRun'.refresh = mzRun.refresh /\ mzRun'.why = mzRun.why
    BY <2>1 DEF LoadInv, LoadTypes, Shapes
  <2>3. LoadTypes'
    BY <1>1, <2>2, PassedIsEnough DEF LoadInv, LoadTypes, Shapes, Active, AfterRead
  <2>4. Top = mzSource.rows /\ Top' = mzSource.rows
    BY <1>1, <2>2 DEF Top, AfterRead
  <2>5. MarkInv'
    BY <1>1, <2>2, <2>4 DEF LoadInv, MarkInv
  <2>6. Foreign' = Foreign
    BY <2>2 DEF Foreign, Filters
  <2>7. ReadInv'
    BY <1>1, <2>2, <2>6, PassedIsEnough DEF ReadInv
  <2>8. WroteInv'
    BY <2>2 DEF WroteInv, HasWritten
  <2> QED BY <2>3, <2>5, <2>7, <2>8 DEF LoadInv
<1> QED BY <1>2, <1>3

(* A write leaves the target with every row up to its own mark ... *)
LEMMA WrittenCovers ==
  ASSUME ChoicesAreTyped, LoadInv, mzRun.stage = "write", mzTarget' = Written
  PROVE  /\ \A m : Covers(m, mzRun.upTo, mzTarget) => Covers(m, mzRun.upTo, mzTarget')
         /\ ~mzTarget'.mixed => 1..mzRun.upTo \subseteq mzTarget'.rows
<1>1. /\ mzTarget'.rows = mzTarget.rows \cup mzRun.batch
      /\ mzTarget'.mixed = IF mzRun.batch = 1..mzRun.upTo THEN FALSE ELSE mzTarget.mixed \/ Foreign
  BY DEF Written
<1>2. mzRun.upTo \in Nat
  BY DEF LoadInv, LoadTypes
<1>3. mzRun.batch # 1..mzRun.upTo /\ ~mzTarget'.mixed => ~mzTarget.mixed /\ ~Foreign
  BY <1>1
<1>4. \A m : Covers(m, mzRun.upTo, mzTarget) => Covers(m, mzRun.upTo, mzTarget')
  <2>1. ~mzTarget'.mixed => (~mzTarget.mixed /\ mzTarget.rows \subseteq mzTarget'.rows)
                              \/ 1..mzRun.upTo \subseteq mzTarget'.rows
    BY <1>1, <1>3
  <2> QED BY <1>2, <2>1, CoversOn
<1>5. ASSUME ~mzTarget'.mixed, mzRun.batch # 1..mzRun.upTo
      PROVE  1..mzRun.upTo \subseteq mzTarget'.rows
  <2>1. Beyond(mzRun.mark, mzRun.upTo, mzRun.batch) /\ Covers(mzRun.mark, mzRun.upTo, mzTarget)
    BY <1>3, <1>5 DEF LoadInv, ReadInv, MarkInv, Top, AfterRead
  <2>2. PICK k \in 1..mzRun.upTo : /\ mzRun.mark.value = Value(k, mzRun.mark.column)
                                   /\ 1..k \subseteq mzTarget.rows
    BY <1>3, <1>5, <2>1 DEF Beyond, Covers
  <2>3. ASSUME NEW r \in 1..mzRun.upTo PROVE r \in mzTarget'.rows
    <3>1. CASE r <= k
      BY <1>1, <1>2, <2>2, <3>1
    <3>2. CASE ~(r <= k)
      <4>1. Value(r, mzRun.mark.column) > mzRun.mark.value
        BY <1>2, <2>2, <3>2, ValueGrows
      <4> QED BY <1>1, <2>1, <4>1 DEF Beyond
    <3> QED BY <3>1, <3>2
  <2> QED BY <2>3
<1> QED BY <1>1, <1>4, <1>5

LEMMA WriteSinkStep ==
  ASSUME ChoicesAreTyped, LoadInv, WriteSink
  PROVE  LoadInv'
<1>1. mzRun.stage = "write" /\ UNCHANGED <<mzPolicy, mzSource, mzStore>>
  BY DEF WriteSink
<1>2. ASSUME NEW why, mzRun' = Ended("failed", why), mzTarget' = mzTarget PROVE LoadInv'
  BY <1>1, <1>2, FailsKeep
<1>3. CASE mzTarget' = Written
  <2>1. /\ mzTarget' = [columns |-> mzTarget'.columns, rows |-> mzTarget'.rows, mixed |-> mzTarget'.mixed]
        /\ mzTarget'.mixed \in BOOLEAN
        /\ mzTarget'.columns \in {mzTarget.columns, Columns}
    BY <1>3 DEF Written, Foreign, LoadInv, LoadTypes
  <2>2. mzTarget'.columns \in (SUBSET AllColumns) \cup {None}
    <3>1. DOMAIN mzRun.schema \subseteq AllColumns
      BY <1>1 DEF LoadInv, LoadTypes, AfterRead, AllColumns
    <3> QED BY <2>1, <3>1 DEF Columns, LoadInv, LoadTypes
  <2>3. /\ \A m : Covers(m, mzRun.upTo, mzTarget) => Covers(m, mzRun.upTo, mzTarget')
        /\ ~mzTarget'.mixed => 1..mzRun.upTo \subseteq mzTarget'.rows
    BY <1>1, <1>3, WrittenCovers
  <2>4. /\ Covers(mzStore.mark, mzRun.upTo, mzTarget') /\ Covers(mzRun.mark, mzRun.upTo, mzTarget')
        /\ mzStore.mark \in {None, mzRun.mark}
    BY <1>1, <2>3 DEF LoadInv, MarkInv, Top, AfterRead
  <2>5. CASE mzRun' = Ended("success", None)
    <3>1. LoadTypes'
      BY <1>1, <2>1, <2>2, <2>5, EndTypes DEF LoadInv, LoadTypes, Shapes
    <3>2. Covers(mzStore'.mark, mzSource.rows, mzTarget')
      <4>1. mzRun.upTo \in Nat /\ mzSource.rows \in Nat /\ mzRun.upTo <= mzSource.rows
        BY DEF LoadInv, LoadTypes
      <4>2. ~mzTarget'.mixed => ~mzTarget'.mixed /\ mzTarget'.rows \subseteq mzTarget'.rows
        OBVIOUS
      <4> QED BY <1>1, <2>4, <4>1, <4>2, CoversOn
    <3> QED BY <1>1, <2>3, <2>5, <3>1, <3>2, EndsKeep
  <2>6. CASE IsIncremental(mzRun.policy) /\ mzRun' = [mzRun EXCEPT !.stage = "state"]
    <3>1. /\ mzRun' = [stage |-> mzRun'.stage, result |-> mzRun'.result, why |-> mzRun'.why,
                       policy |-> mzRun'.policy, refresh |-> mzRun'.refresh, mark |-> mzRun'.mark,
                       schema |-> mzRun'.schema, batch |-> mzRun'.batch, upTo |-> mzRun'.upTo,
                       valid |-> mzRun'.valid]
          /\ mzRun'.stage = "state" /\ mzRun'.batch = mzRun.batch /\ mzRun'.schema = mzRun.schema
          /\ mzRun'.upTo = mzRun.upTo /\ mzRun'.policy = mzRun.policy /\ mzRun'.mark = mzRun.mark
          /\ mzRun'.why = mzRun.why
      BY <2>6 DEF LoadInv, LoadTypes, Shapes
    <3>2. LoadTypes'
      BY <1>1, <2>1, <2>2, <2>6, <3>1 DEF LoadInv, LoadTypes, Shapes, Active, AfterRead
    <3>3. MarkInv'
      BY <1>1, <2>4, <3>1 DEF MarkInv, Top, AfterRead
    <3>4. ReadInv' /\ WroteInv'
      BY <2>3, <3>1 DEF ReadInv, WroteInv
    <3> QED BY <3>2, <3>3, <3>4 DEF LoadInv
  <2> QED BY <1>2, <1>3, <2>5, <2>6 DEF WriteSink
<1> QED BY <1>2, <1>3 DEF WriteSink

LEMMA StopStep ==
  ASSUME LoadInv, Stop
  PROVE  LoadInv'
<1>1. mzRun' = Ended("failed", "stopped") /\ UNCHANGED <<mzPolicy, mzSource, mzStore, mzTarget>>
  BY DEF Stop
<1> QED BY <1>1, FailsKeep

(* ... which is the mark that is stored. *)
LEMMA AdvancedCovers ==
  ASSUME ChoicesAreTyped, LoadInv, mzRun.stage = "state"
  PROVE  Covers(Advanced, mzRun.upTo, mzTarget)
<1> DEFINE w == mzRun.policy.watermark
           newest == Newest(mzRun.batch, mzRun.schema, w)
<1>1. /\ mzRun.upTo \in Nat /\ mzRun.batch \in SUBSET (1..mzRun.upTo)
      /\ w.type \in {"timestamp", "int64", "string"}
      /\ ~mzTarget.mixed => 1..mzRun.upTo \subseteq mzTarget.rows
      /\ Covers(mzStore.mark, mzRun.upTo, mzTarget) /\ Covers(mzRun.mark, mzRun.upTo, mzTarget)
      /\ mzStore.mark \in {None, mzRun.mark}
  BY DEF LoadInv, LoadTypes, Active, ChoicesAreTyped, WroteInv, HasWritten, MarkInv, Top, AfterRead
<1>2. CASE newest # None
  <2>1. Advanced = [column |-> w.column, type |-> w.type, value |-> newest,
                    own |-> TypeMatches(mzRun.schema[w.column], w.type)]
    BY <1>2 DEF Advanced
  <2>2. ASSUME TypeMatches(mzRun.schema[w.column], w.type)
        PROVE  \E k \in mzRun.batch : newest = Value(k, w.column)
    <3>1. mzRun.batch # {} /\ newest = Max({Value(r, w.column) : r \in mzRun.batch})
      BY <1>2, <2>2 DEF Newest, Cast
    <3> QED BY <1>1, <3>1, NewestRow
  <2>3. Advanced.own => \E k \in mzRun.batch : Advanced.value = Value(k, Advanced.column)
    <3> HIDE DEF newest, w
    <3> QED BY <2>1, <2>2
  <2>4. \A k \in mzRun.batch : k \in 1..mzRun.upTo /\ (~mzTarget.mixed => 1..k \subseteq mzTarget.rows)
    BY <1>1
  <2> QED BY <2>3, <2>4 DEF Covers
<1>3. CASE newest = None /\ mzRun.mark = None
  BY <1>1, <1>3 DEF Advanced
<1>4. CASE newest = None /\ mzRun.mark # None
  <2> DEFINE kept == mzRun.mark.own /\ w = Watermark(mzRun.mark.column, mzRun.mark.type)
  <2>1. Advanced = [column |-> w.column, type |-> w.type, value |-> mzRun.mark.value, own |-> kept]
    BY <1>4 DEF Advanced
  <2>2. kept => w.column = mzRun.mark.column /\ mzRun.mark.own
    BY DEF Watermark
  <2>3. Advanced.own => /\ Advanced.value = mzRun.mark.value /\ Advanced.column = mzRun.mark.column
                        /\ mzRun.mark.own
    <3> HIDE DEF kept, w
    <3> QED BY <2>1, <2>2
  <2> QED BY <1>1, <1>4, <2>3 DEF Covers
<1> QED BY <1>2, <1>3, <1>4

LEMMA SaveStateStep ==
  ASSUME ChoicesAreTyped, LoadInv, NEW lost \in {0, 1}, SaveState(lost)
  PROVE  LoadInv'
<1>1. /\ mzRun.stage = "state" /\ UNCHANGED <<mzPolicy, mzSource, mzTarget>>
      /\ mzStore' \in {mzStore, [mzStore EXCEPT !.mark = Advanced]}
      /\ mzRun' = [mzRun EXCEPT !.stage = "schema"]
  BY DEF SaveState, Stored
<1>2. /\ mzStore' = [mark |-> mzStore'.mark, recorded |-> mzStore'.recorded]
      /\ mzStore'.mark \in {mzStore.mark, Advanced} /\ mzStore'.recorded = mzStore.recorded
  BY <1>1 DEF LoadInv, LoadTypes, Shapes
<1>3. /\ mzRun' = [stage |-> mzRun'.stage, result |-> mzRun'.result, why |-> mzRun'.why,
                   policy |-> mzRun'.policy, refresh |-> mzRun'.refresh, mark |-> mzRun'.mark,
                   schema |-> mzRun'.schema, batch |-> mzRun'.batch, upTo |-> mzRun'.upTo,
                   valid |-> mzRun'.valid]
      /\ mzRun'.stage = "schema" /\ mzRun'.batch = mzRun.batch /\ mzRun'.schema = mzRun.schema
      /\ mzRun'.upTo = mzRun.upTo /\ mzRun'.policy = mzRun.policy /\ mzRun'.mark = mzRun.mark
      /\ mzRun'.why = mzRun.why
  BY <1>1 DEF LoadInv, LoadTypes, Shapes
<1>4. LoadTypes'
  BY <1>1, <1>2, <1>3 DEF LoadInv, LoadTypes, Shapes, Active, AfterRead
<1>5. Covers(mzStore'.mark, mzRun.upTo, mzTarget)
  BY <1>1, <1>2, AdvancedCovers DEF LoadInv, MarkInv, Top, AfterRead
<1>6. MarkInv'
  BY <1>1, <1>3, <1>5 DEF MarkInv, Top, AfterRead
<1>7. ReadInv' /\ WroteInv'
  BY <1>1, <1>3 DEF LoadInv, ReadInv, WroteInv, HasWritten
<1> QED BY <1>4, <1>6, <1>7 DEF LoadInv

LEMMA RecordSchemaStep ==
  ASSUME ChoicesAreTyped, LoadInv, NEW lost \in {0, 1}, RecordSchema(lost)
  PROVE  LoadInv'
<1>1. /\ mzRun.stage = "schema" /\ UNCHANGED <<mzPolicy, mzSource, mzTarget>>
      /\ mzStore' \in {mzStore, [mzStore EXCEPT !.recorded = IF mzRun.batch = {} THEN @ ELSE mzRun.schema]}
      /\ mzRun' = Ended("success", None)
  BY DEF RecordSchema, Stored
<1>2. /\ mzStore' = [mark |-> mzStore'.mark, recorded |-> mzStore'.recorded]
      /\ mzStore'.mark = mzStore.mark /\ mzStore'.recorded \in Schemas \cup {None}
  BY <1>1 DEF LoadInv, LoadTypes, Shapes, AfterRead
<1>3. LoadTypes'
  BY <1>1, <1>2, EndTypes DEF LoadInv, LoadTypes, Shapes
<1>4. Covers(mzStore'.mark, mzSource.rows, mzTarget')
  BY <1>1, <1>2, TopBounds, CoversOn DEF LoadInv, MarkInv, LoadTypes
<1>5. ~mzTarget'.mixed => 1..mzRun.upTo \subseteq mzTarget'.rows
  BY <1>1 DEF LoadInv, WroteInv, HasWritten
<1> QED BY <1>1, <1>3, <1>4, <1>5, EndsKeep

LEMMA LoadInvHolds == ChoicesAreTyped => (MaterializationSpec => []LoadInv)
<1> SUFFICES ASSUME ChoicesAreTyped PROVE MaterializationSpec => []LoadInv
  OBVIOUS
<1>1. Init(PolicyChoices, Schemas) => LoadInv
  BY InitLoads
<1>2. LoadInv /\ [Next]_mzVars => LoadInv'
  <2> SUFFICES ASSUME LoadInv, [Next]_mzVars PROVE LoadInv'
    OBVIOUS
  <2>1. CASE UNCHANGED mzVars
    BY <2>1 DEF mzVars, LoadInv, LoadTypes, Shapes, MarkInv, Top, ReadInv, Foreign, Filters, WroteInv, HasWritten
  <2>2. CASE Next
    BY <2>2, EditSteps, StartRunStep, ReadSourceStep, WriteSinkStep, StopStep, SaveStateStep,
      RecordSchemaStep DEF Next
  <2> QED BY <2>1, <2>2
<1> QED BY <1>1, <1>2, PTL DEF MaterializationSpec

-----------------------------------------------------------------------------
(* Schemas: what is recorded is in the target, and so is what has been     *)
(* written and is about to be recorded.                                    *)
Within(schema) == mzTarget.columns # None /\ DOMAIN schema \subseteq mzTarget.columns

SchemaInv ==
  /\ mzStore.recorded # None => Within(mzStore.recorded)
  /\ mzRun.stage \in {"state", "schema"} /\ mzRun.batch # {} => Within(mzRun.schema)
  /\ SchemaIsGuarded

(* The diff against what was recorded. *)
LEMMA NoDiff == SchemaDiff(<<>>, <<>>) = [added |-> {}, removed |-> {}, changed |-> {}]
BY DEF SchemaDiff

LEMMA DiffIsSound ==
  ASSUME NEW old, NEW new, NEW onChange, old = [c \in DOMAIN old |-> old[c]]
  PROVE  /\ ApplyPolicy(SchemaDiff(Restored(old), new), onChange) = "abort" => old # new \/ Lossy(new)
         /\ ApplyPolicy(SchemaDiff(Restored(old), new), onChange) # "abort" /\ onChange # "ignore" =>
              /\ \A c \in DOMAIN old \cap DOMAIN new : old[c] = new[c] \/ old[c] \notin Listed
              /\ onChange = "fail" => DOMAIN old = DOMAIN new
<1> DEFINE diff == SchemaDiff(Restored(old), new)
<1>1. /\ DOMAIN Restored(old) = DOMAIN old
      /\ \A c \in DOMAIN old : Restored(old)[c] = IF old[c] \in Listed THEN old[c] ELSE "Utf8"
  BY DEF Restored
<1>2. diff = [added |-> DOMAIN new \ DOMAIN old, removed |-> DOMAIN old \ DOMAIN new,
              changed |-> {c \in DOMAIN old \cap DOMAIN new : Restored(old)[c] # new[c]}]
  BY <1>1 DEF SchemaDiff
<1>3. ASSUME old = new, ~Lossy(new) PROVE ApplyPolicy(diff, onChange) # "abort"
  <2>1. \A c \in DOMAIN old : Restored(old)[c] = new[c]
    BY <1>1, <1>3 DEF Lossy
  <2>2. diff = SchemaDiff(<<>>, <<>>)
    BY <1>2, <1>3, <2>1, NoDiff
  <2> QED BY <2>2 DEF ApplyPolicy
<1>4. ASSUME ApplyPolicy(diff, onChange) # "abort", onChange # "ignore"
      PROVE  diff.changed = {} /\ (onChange = "fail" => diff.added = {} /\ diff.removed = {})
  <2>1. CASE diff = SchemaDiff(<<>>, <<>>)
    BY <2>1, NoDiff
  <2>2. CASE diff # SchemaDiff(<<>>, <<>>)
    <3> HIDE DEF diff
    <3> QED BY <1>4, <2>2 DEF ApplyPolicy
  <2> QED BY <2>1, <2>2
<1>5. ASSUME diff.changed = {} PROVE \A c \in DOMAIN old \cap DOMAIN new : old[c] = new[c] \/ old[c] \notin Listed
  BY <1>1, <1>2, <1>5
<1>6. diff.added = {} /\ diff.removed = {} => DOMAIN old = DOMAIN new
  BY <1>2
<1> QED BY <1>3, <1>4, <1>5, <1>6

LEMMA InitSchemas == ChoicesAreTyped /\ Init(PolicyChoices, Schemas) => SchemaInv
BY DEF Init, Idle, SchemaInv, SchemaIsGuarded, ChoicesAreTyped

LEMMA EndsGuarded ==
  ASSUME LoadInv, NEW result, NEW why, mzRun' = Ended(result, why),
         why # "panic",
         why = "schema" => mzRun.schema # mzStore'.recorded \/ Lossy(mzRun.schema),
         mzStore'.recorded # None => Within(mzStore.recorded)'
  PROVE  SchemaInv'
<1>1. /\ mzRun'.stage = "idle" /\ mzRun'.why = why /\ mzRun'.schema = mzRun.schema
  BY EndedFields
<1>2. SchemaIsGuarded'
  BY <1>1 DEF SchemaIsGuarded, Within
<1> QED BY <1>1, <1>2 DEF SchemaInv

LEMMA SchemaStep ==
  ASSUME ChoicesAreTyped, LoadInv, LoadInv', SchemaInv, [Next]_mzVars
  PROVE  SchemaInv'
<1>0. None \notin {"panic", "lookback", "bootstrap", "schema"}
  BY DEF ChoicesAreTyped
<1>1. ASSUME mzRun' = mzRun, mzTarget' = mzTarget, mzStore'.recorded = mzStore.recorded
      PROVE  SchemaInv'
  BY <1>1 DEF SchemaInv, SchemaIsGuarded, Within
<1>2. CASE UNCHANGED mzVars
  BY <1>1, <1>2 DEF mzVars
<1>3. ASSUME \/ \E p \in PolicyChoices, by \in {"api", "import"} : SavePolicy(p, by)
             \/ \E s \in Schemas : ChangeSource(s)
             \/ AddRow \/ Reset
      PROVE  SchemaInv'
  BY <1>1, <1>3 DEF SavePolicy, ChangeSource, AddRow, Reset, LoadInv, LoadTypes, Shapes
<1>4. ASSUME NEW refresh \in BOOLEAN, NEW bootstrap \in BOOLEAN, StartRun(refresh, bootstrap)
      PROVE  SchemaInv'
  <2> DEFINE why == PlanError(mzPolicy, refresh, bootstrap)
             valid == ValidatePolicy(mzPolicy) = {}
  <2>1. /\ mzTarget' = mzTarget /\ mzStore' = mzStore
        /\ mzRun' = IF why # None THEN [Idle("failed", why) EXCEPT !.valid = valid]
                    ELSE [Idle(None, None) EXCEPT !.stage = "read", !.policy = mzPolicy, !.valid = valid,
                                                  !.refresh = refresh, !.mark = mzStore.mark]
    BY <1>4 DEF StartRun
  <2>2. why = "panic" => ~valid
    BY <1>0 DEF PlanError, IsIncremental, ValidatePolicy, WatermarkErrors
  <2>3. why # "schema" /\ None # "schema" /\ None # "panic"
    BY <1>0 DEF PlanError
  <2>4. /\ mzRun'.stage \in {"idle", "read"} /\ mzRun'.why = why /\ mzRun'.valid = valid
    <3> HIDE DEF why, valid
    <3> QED BY <2>1 DEF Idle
  <2> HIDE DEF why, valid
  <2>5. SchemaIsGuarded'
    BY <2>1, <2>2, <2>3, <2>4 DEF SchemaInv, SchemaIsGuarded
  <2> QED BY <2>1, <2>4, <2>5 DEF SchemaInv, Within
<1>5. CASE ReadSource
  <2>1. UNCHANGED <<mzStore, mzTarget>>
    BY <1>5 DEF ReadSource
  <2>2. CASE ReadError # None
    <3>1. mzRun' = Ended("failed", ReadError) /\ ReadError \notin {"schema", "panic"}
      BY <1>5, <2>2 DEF ReadSource, ReadError
    <3>2. mzStore'.recorded # None => Within(mzStore.recorded)'
      BY <2>1 DEF SchemaInv, Within
    <3> QED BY <3>1, <3>2, EndsGuarded
  <2>3. CASE ReadError = None
    <3>1. mzRun' = [mzRun EXCEPT !.stage = "write", !.batch = Passed, !.schema = mzSource.schema,
                                 !.upTo = mzSource.rows] /\ mzRun.stage = "read"
      BY <1>5, <2>3 DEF ReadSource
    <3>2. mzRun'.stage = "write" /\ mzRun'.why = mzRun.why /\ mzRun.why = None
      BY <3>1 DEF LoadInv, LoadTypes, Shapes, Active
    <3>3. SchemaIsGuarded'
      BY <1>0, <2>1, <3>2 DEF SchemaInv, SchemaIsGuarded
    <3> QED BY <2>1, <3>2, <3>3 DEF SchemaInv, Within
  <2> QED BY <2>2, <2>3
<1>6. CASE WriteSink
  <2>1. mzRun.stage = "write" /\ mzStore' = mzStore /\ mzRun.schema \in Schemas /\ mzRun.why = None
    BY <1>6 DEF WriteSink, LoadInv, LoadTypes, AfterRead, Active
  <2>2. mzStore.recorded # None => mzStore.recorded = [c \in DOMAIN mzStore.recorded |-> mzStore.recorded[c]]
    BY DEF LoadInv, LoadTypes, ChoicesAreTyped
  <2>3. ASSUME NEW why, mzRun' = Ended("failed", why), mzTarget' = mzTarget, why \in {"schema", "column"},
               why = "schema" => Verdict = "abort"
        PROVE  SchemaInv'
    <3>1. why = "schema" => mzRun.schema # mzStore'.recorded \/ Lossy(mzRun.schema)
      BY <2>1, <2>2, <2>3, DiffIsSound DEF Verdict
    <3>2. mzStore'.recorded # None => Within(mzStore.recorded)'
      BY <2>1, <2>3 DEF SchemaInv, Within
    <3> QED BY <2>3, <3>1, <3>2, EndsGuarded
  <2>4. ASSUME mzTarget' = Written, Verdict # "abort", mzRun.batch = {} \/ DOMAIN mzRun.schema \subseteq Columns
        PROVE  /\ mzStore'.recorded # None => Within(mzStore.recorded)'
               /\ mzRun.batch # {} => mzTarget'.columns # None /\ DOMAIN mzRun.schema \subseteq mzTarget'.columns
    <3>1. mzTarget'.columns = IF mzRun.batch = {} THEN mzTarget.columns ELSE Columns
      BY <2>4 DEF Written
    <3>2. DOMAIN mzRun.schema \subseteq AllColumns
      BY <2>1 DEF AllColumns
    <3>3. Columns \in SUBSET AllColumns
      BY <3>2 DEF Columns, LoadInv, LoadTypes
    <3>4. Columns # None
      BY <3>3 DEF ChoicesAreTyped
    <3>5. mzTarget.columns # None => mzTarget.columns \subseteq Columns
      BY DEF Columns
    <3> QED BY <2>1, <2>4, <3>1, <3>4, <3>5 DEF SchemaInv, Within
  <2>5. CASE mzTarget' = Written /\ mzRun' = Ended("success", None)
    BY <1>0, <1>6, <2>3, <2>4, <2>5, EndsGuarded DEF WriteSink
  <2>6. CASE /\ mzTarget' = Written /\ Verdict # "abort"
             /\ mzRun.batch = {} \/ DOMAIN mzRun.schema \subseteq Columns
             /\ IsIncremental(mzRun.policy) /\ mzRun' = [mzRun EXCEPT !.stage = "state"]
    <3>1. /\ mzRun'.stage = "state" /\ mzRun'.batch = mzRun.batch /\ mzRun'.schema = mzRun.schema
          /\ mzRun'.policy = mzRun.policy /\ mzRun'.why = mzRun.why
      BY <2>6 DEF LoadInv, LoadTypes, Shapes
    <3>2. /\ mzStore'.recorded # None => Within(mzStore.recorded)'
          /\ mzRun'.batch # {} => Within(mzRun.schema)'
      BY <2>4, <2>6, <3>1 DEF Within
    <3>3. mzRun.batch # {} /\ mzStore.recorded # None /\ mzRun.policy.onChange # "ignore" =>
            /\ \A c \in DOMAIN mzStore.recorded \cap DOMAIN mzRun.schema :
                 mzStore.recorded[c] = mzRun.schema[c] \/ mzStore.recorded[c] \notin Listed
            /\ mzRun.policy.onChange = "fail" => DOMAIN mzStore.recorded = DOMAIN mzRun.schema
      BY <2>2, <2>6, DiffIsSound DEF Verdict
    <3>4. SchemaIsGuarded'
      BY <1>0, <2>1, <3>1, <3>2, <3>3 DEF SchemaIsGuarded, Within
    <3> QED BY <3>2, <3>4 DEF SchemaInv
  <2> QED BY <1>6, <2>1, <2>3, <2>5, <2>6 DEF WriteSink
<1>7. CASE Stop
  <2>1. mzRun' = Ended("failed", "stopped") /\ UNCHANGED <<mzStore, mzTarget>>
    BY <1>7 DEF Stop
  <2>2. mzStore'.recorded # None => Within(mzStore.recorded)'
    BY <2>1 DEF SchemaInv, Within
  <2> QED BY <2>1, <2>2, EndsGuarded
<1>8. ASSUME NEW lost \in {0, 1}, SaveState(lost) PROVE SchemaInv'
  <2>1. /\ mzRun.stage = "state" /\ mzTarget' = mzTarget /\ mzStore'.recorded = mzStore.recorded
        /\ mzRun'.stage = "schema" /\ mzRun'.batch = mzRun.batch /\ mzRun'.schema = mzRun.schema
        /\ mzRun'.why = mzRun.why /\ mzRun.why = None
    BY <1>8 DEF SaveState, Stored, LoadInv, LoadTypes, Shapes, Active
  <2>2. SchemaIsGuarded'
    BY <1>0, <2>1 DEF SchemaInv, SchemaIsGuarded
  <2> QED BY <2>1, <2>2 DEF SchemaInv, Within
<1>9. ASSUME NEW lost \in {0, 1}, RecordSchema(lost) PROVE SchemaInv'
  <2>1. /\ mzRun.stage = "schema" /\ mzTarget' = mzTarget /\ mzRun' = Ended("success", None)
        /\ mzStore'.recorded = mzStore.recorded
             \/ (mzRun.batch # {} /\ mzStore'.recorded = mzRun.schema)
    BY <1>9 DEF RecordSchema, Stored, LoadInv, LoadTypes, Shapes
  <2>2. mzStore'.recorded # None => Within(mzStore.recorded)'
    BY <2>1 DEF SchemaInv, Within
  <2> QED BY <1>0, <2>1, <2>2, EndsGuarded
<1> QED BY <1>2, <1>3, <1>4, <1>5, <1>6, <1>7, <1>8, <1>9 DEF Next

(* A successful run leaves every row the source had in the target, for any *)
(* policies, schemas, runs, edits and faults, unless a mark that is no     *)
(* value of its watermark column has been gone by since the last complete  *)
(* read.                                                                   *)
THEOREM NothingSkippedHolds == ChoicesAreTyped => (MaterializationSpec => []NothingSkipped)
<1> SUFFICES ASSUME ChoicesAreTyped PROVE MaterializationSpec => []NothingSkipped
  OBVIOUS
<1>1. LoadInv => NothingSkipped
  BY DEF LoadInv, WroteInv, HasWritten, NothingSkipped
<1> QED BY <1>1, LoadInvHolds, PTL

(* A run is refused over its columns only where they differ from those     *)
(* recorded or the record cannot keep them, changed types are written only *)
(* under ignore, no recorded column is missing in the target, and only a   *)
(* policy the validation refuses makes a run panic, for any policies,      *)
(* schemas, runs, edits and faults.                                        *)
THEOREM SchemasAreGuarded == ChoicesAreTyped => (MaterializationSpec => []SchemaIsGuarded)
<1> SUFFICES ASSUME ChoicesAreTyped PROVE MaterializationSpec => []SchemaIsGuarded
  OBVIOUS
<1>1. Init(PolicyChoices, Schemas) => SchemaInv
  BY InitSchemas
<1>2. LoadInv /\ LoadInv' /\ SchemaInv /\ [Next]_mzVars => SchemaInv'
  BY SchemaStep
<1>3. SchemaInv => SchemaIsGuarded
  BY DEF SchemaInv
<1> QED BY <1>1, <1>2, <1>3, LoadInvHolds, PTL DEF MaterializationSpec

(* validate_policy accepts a policy, whatever it is, only with exactly the  *)
(* fields that its read mode and write strategy need, a lookback only over *)
(* timestamps, and one column for both watermark and change detection.     *)
THEOREM PoliciesFit ==
  ASSUME NEW p, p.read \in {"full", "incremental"}
  PROVE  FieldsFit(p)
<1> SUFFICES ASSUME ValidatePolicy(p) = {}
             PROVE  /\ Fields(p) = Needs(p)
                    /\ p.lookback # NoLookback => p.watermark.type = "timestamp"
                    /\ (IsIncremental(p) /\ p.strategy = "snapshot") =>
                         p.snapshot.updatedAt = p.watermark.column
  BY DEF FieldsFit
<1>1. /\ WatermarkErrors(p) = {} /\ KeyErrors(p) = {} /\ PartitionErrors(p) = {}
      /\ LookbackErrors(p) = {} /\ SnapshotErrors(p) = {}
  BY DEF ValidatePolicy
<1>2. p.watermark # None <=> p.read = "incremental"
  BY <1>1 DEF WatermarkErrors
<1>3. p.keys # None <=> p.strategy \in {"merge", "delete_insert", "snapshot"}
  BY <1>1 DEF KeyErrors
<1>4. p.partition <=> p.strategy = "insert_overwrite"
  BY <1>1 DEF PartitionErrors
<1>5. p.snapshot # None <=> p.strategy = "snapshot"
  BY <1>1 DEF SnapshotErrors
<1>6. Fields(p) = Needs(p)
  BY <1>2, <1>3, <1>4, <1>5 DEF Fields, Needs
<1>7. p.lookback # NoLookback => p.watermark.type = "timestamp"
  BY <1>1, <1>2 DEF LookbackErrors
<1>8. (IsIncremental(p) /\ p.strategy = "snapshot") => p.snapshot.updatedAt = p.watermark.column
  BY <1>1, <1>2, <1>5 DEF SnapshotErrors, DetectionErrors, IsIncremental
<1> QED BY <1>6, <1>7, <1>8

-----------------------------------------------------------------------------
(* Sinks under the other strategies.  Counting rows.                       *)
LEMMA CountType ==
  ASSUME NEW rows, IsFiniteSet(DOMAIN rows), NEW x
  PROVE  CountOf(rows, x) \in Nat
<1>1. {i \in DOMAIN rows : rows[i] = x} \in SUBSET DOMAIN rows
  OBVIOUS
<1>2. IsFiniteSet({i \in DOMAIN rows : rows[i] = x})
  BY <1>1, FS_Subset
<1> QED
  BY <1>2, FS_CardinalityType DEF CountOf

(* A row under a new id counts once more.                                  *)
LEMMA CountAdd ==
  ASSUME NEW f, NEW id, NEW x, IsFiniteSet(DOMAIN f), id \notin DOMAIN f,
         NEW g, DOMAIN g = DOMAIN f \cup {id}, \A i \in DOMAIN f : g[i] = f[i]
  PROVE  /\ x = g[id] => CountOf(g, x) = CountOf(f, x) + 1
         /\ x # g[id] => CountOf(g, x) = CountOf(f, x)
         /\ IsFiniteSet(DOMAIN g)
         /\ Cardinality(DOMAIN g) = Cardinality(DOMAIN f) + 1
<1> DEFINE OldIds == {i \in DOMAIN f : f[i] = x}
           NewIds == {i \in DOMAIN g : g[i] = x}
<1>1. DOMAIN g = DOMAIN f \cup {id}
  OBVIOUS
<1>2. IsFiniteSet(OldIds) /\ id \notin OldIds
  <2>1. OldIds \in SUBSET DOMAIN f
    OBVIOUS
  <2> QED BY <2>1, FS_Subset
<1>3. CASE x = g[id]
  <2>1. NewIds = OldIds \cup {id}
    BY <1>1, <1>3
  <2>2. Cardinality(NewIds) = Cardinality(OldIds) + 1
    BY <2>1, <1>2, FS_AddElement
  <2> QED BY <1>1, <1>3, <2>2, FS_AddElement DEF CountOf
<1>4. CASE x # g[id]
  <2>1. NewIds = OldIds
    BY <1>1, <1>4
  <2>2. CountOf(f, x) \in Nat
    BY CountType
  <2>3. CountOf(g, x) = CountOf(f, x)
    BY <2>1 DEF CountOf
  <2> QED BY <1>1, <1>4, <2>3, <2>2, FS_AddElement
<1> QED BY <1>3, <1>4

(* Lines added at the end of a file.                                       *)
LEMMA CountPrepend ==
  ASSUME NEW S, NEW s \in Seq(S), NEW t \in Seq(S), NEW x
  PROVE  CountOf(s \o t, x) = CountOf(s, x) + CountOf(t, x)
<1> DEFINE n == Len(s)
           A == {i \in DOMAIN s : s[i] = x}
           B == {i \in DOMAIN t : t[i] = x}
           C == {i \in (n + 1)..(n + Len(t)) : t[i - n] = x}
           Shift == [i \in B |-> i + n]
<1>1. n \in Nat /\ Len(t) \in Nat /\ DOMAIN s = 1..n /\ DOMAIN t = 1..Len(t)
  OBVIOUS
<1>2. /\ DOMAIN (s \o t) = 1..(n + Len(t))
      /\ \A i \in 1..(n + Len(t)) : (s \o t)[i] = IF i <= n THEN s[i] ELSE t[i - n]
  OBVIOUS
<1>3. {i \in DOMAIN (s \o t) : (s \o t)[i] = x} = A \cup C
  BY <1>1, <1>2
<1>4. A \cap C = {}
  BY <1>1
<1>5. IsFiniteSet(A) /\ IsFiniteSet(B)
  <2>1. A \in SUBSET (1..n) /\ B \in SUBSET (1..Len(t))
    BY <1>1
  <2>2. IsFiniteSet(1..n) /\ IsFiniteSet(1..Len(t))
    BY <1>1, FS_Interval
  <2> QED BY <2>1, <2>2, FS_Subset
<1>6. Shift \in Bijection(B, C)
  <2>1. Shift \in [B -> C]
    BY <1>1
  <2>2. \A i, j \in B : Shift[i] = Shift[j] => i = j
    BY <1>1
  <2>3. \A c \in C : \E i \in B : Shift[i] = c
    <3> TAKE c \in C
    <3>1. c - n \in B /\ Shift[c - n] = c
      BY <1>1
    <3> QED BY <3>1
  <2> QED BY <2>1, <2>2, <2>3 DEF Bijection, Injection, Surjection, IsInjective
<1>7. IsFiniteSet(C) /\ Cardinality(C) = Cardinality(B)
  BY <1>5, <1>6, FS_Bijection DEF ExistsBijection
<1>8. Cardinality(A \cup C) = Cardinality(A) + Cardinality(B)
  <2>1. Cardinality(A \cup C) = Cardinality(A) + Cardinality(C) - Cardinality(A \cap C)
    BY <1>5, <1>7, FS_Union
  <2>2. Cardinality(A \cap C) = 0
    BY <1>4, FS_EmptySet
  <2>3. Cardinality(A) \in Nat /\ Cardinality(C) \in Nat
    BY <1>5, <1>7, FS_CardinalityType
  <2> HIDE DEF A, B, C
  <2> QED BY <1>7, <2>1, <2>2, <2>3
<1> QED BY <1>3, <1>8 DEF CountOf

-----------------------------------------------------------------------------
(* The inductive invariant.  A target, the step a configuration allows, and *)
(* what an operation holds.                                                *)
FileRows == LoadRows \cup {Heading, Spoiled}
RowsFit(rows, c) ==
  IF c.sink # "postgres" THEN rows \in Seq(FileRows)
  ELSE IsFiniteSet(DOMAIN rows) /\ \A id \in DOMAIN rows : id[1] \in Nat /\ id[2] \in Nat

IsTarget(t, c) ==
  /\ t = [rows |-> t.rows, file |-> t.file, half |-> t.half, parts |-> t.parts, stale |-> t.stale, wide |-> t.wide]
  /\ t.parts = [p \in SinkKeys |-> t.parts[p]]
  /\ RowsFit(t.rows, c)
  /\ c.sink # "postgres" /\ t.file = "gone" => t.rows = <<>>

PgSteps == {"connect", "begin", "clear", "insert", "index"}
FileSteps == {"open", "lines"}
HiveSteps == {"stage", "remove", "swap"}

Fits(step) ==
  \/ step \in PgSteps /\ ~IsFile /\ PgWriteFromPolicy(sinkCfg)
  \/ IsFile /\ CheckStrategySupported(sinkCfg) /\
       \/ step \in HiveSteps /\ Hive
       \/ step = "put" /\ ~Hive /\ sinkCfg.cloud /\ ~AppendMode(sinkCfg)
       \/ step \in FileSteps /\ ~Hive /\ ~sinkCfg.cloud
            /\ (sinkCfg.sink = "parquet" /\ AppendMode(sinkCfg) => sinkBefore.file = "gone")

Busy == sinkOp.step # "idle"
SinkTypes ==
  /\ sinkCfg \in Postgres \cup File
  /\ sinkWrites \in Nat
  /\ IsTarget(sinkTarget, sinkCfg) /\ IsTarget(sinkBefore, sinkCfg)
  /\ IF Busy
     THEN /\ sinkOp = [step |-> sinkOp.step, load |-> sinkOp.load, tx |-> sinkOp.tx, lines |-> sinkOp.lines,
                       ins |-> sinkOp.ins, upd |-> sinkOp.upd, del |-> sinkOp.del, pos |-> sinkOp.pos,
                       todo |-> sinkOp.todo]
          /\ Fits(sinkOp.step) /\ sinkOp.load \in SinkLoads \ {None} /\ IsTarget(sinkOp.tx, sinkCfg)
          /\ sinkOp.pos \in Nat /\ sinkOp.ins \in Nat /\ sinkOp.upd \in Nat /\ sinkOp.del \in Int
          /\ sinkReply = [end |-> "none"]
     ELSE /\ sinkOp = NoWrite
          /\ \/ sinkReply = [end |-> "none"] /\ sinkTarget = sinkBefore
             \/ /\ sinkReply = [end |-> sinkReply.end, load |-> sinkReply.load, ins |-> sinkReply.ins,
                                upd |-> sinkReply.upd, del |-> sinkReply.del]
                /\ sinkReply.end \in {"ok", "refused", "failed", "crashed"}
                /\ sinkReply.load \in SinkLoads

(* No two rows of a table with a constraint have the same key; its ids name *)
(* the write, and the row of it, that they are from.                       *)
Unique(rows) ==
  \A i, j \in DOMAIN rows : rows[i].k # None /\ rows[i].k = rows[j].k => i = j
Older(rows, write, pos) ==
  \A id \in DOMAIN rows : id[1] < write \/ (id[1] = write /\ id[2] <= pos)

TableInv ==
  ~IsFile =>
    /\ sinkCfg.keyed => Unique(sinkTarget.rows)
    /\ \A id \in DOMAIN sinkTarget.rows : id[1] <= sinkWrites
    /\ sinkOp.step \in {"connect", "begin", "clear", "insert"} =>
         Older(sinkTarget.rows, sinkWrites, 0)

(* The heading of a file is its first line.                                *)
HeadFirst(rows) == \A i \in DOMAIN rows : rows[i] = Heading => i = 1
HeadInv == IsFile => HeadFirst(sinkTarget.rows) /\ HeadFirst(sinkBefore.rows)

(* What the first n rows of the load have done to a table.                 *)
NewTo(n, r) == Cardinality({i \in 1..n : sinkOp.load.rows[i] = r})
HitTo(n, r) == r.k # None /\ \E i \in 1..n : sinkOp.load.rows[i].k = r.k
LastTo(n, r) == \E i \in 1..n : sinkOp.load.rows[i] = r /\ \A j \in i+1..n : sinkOp.load.rows[j].k # r.k

EffectTo(n, r) ==
  LET old == CountOf(sinkBefore.rows, r) IN
  CASE sinkCfg.strategy = "truncate_insert" -> NewTo(n, r)
    [] sinkCfg.strategy = "delete_insert" ->
         (IF r.k \in KeysIn(sinkOp.load.rows) THEN 0 ELSE old) + NewTo(n, r)
    [] sinkCfg.strategy = "merge" -> IF HitTo(n, r) THEN (IF LastTo(n, r) THEN 1 ELSE 0) ELSE old + NewTo(n, r)
    [] OTHER -> old + NewTo(n, r)

EffectInv(rows, n) ==
  /\ \A r : CountOf(rows, r) = EffectTo(n, r)
  /\ Cardinality(DOMAIN rows) = Cardinality(DOMAIN sinkBefore.rows) + sinkOp.ins - sinkOp.del
  /\ sinkOp.ins + sinkOp.upd = n

(* PostgreSQL: nothing of the transaction is seen before it commits.       *)
TxInv ==
  /\ sinkOp.step \in {"connect", "begin", "clear", "insert"} => sinkTarget.rows = sinkBefore.rows
  /\ sinkOp.step \in {"connect", "begin", "clear"} => sinkOp.pos = 0 /\ sinkOp.ins = 0 /\ sinkOp.upd = 0
  /\ sinkOp.step = "clear" => sinkOp.tx.rows = sinkBefore.rows
  /\ sinkOp.step = "insert" =>
       /\ sinkOp.pos <= Len(sinkOp.load.rows)
       /\ EffectInv(sinkOp.tx.rows, sinkOp.pos)
       /\ sinkCfg.keyed => Unique(sinkOp.tx.rows)
       /\ Older(sinkOp.tx.rows, sinkWrites, sinkOp.pos)
  /\ sinkOp.step = "index" => EffectInv(sinkTarget.rows, Len(sinkOp.load.rows))

(* A file: the lines written so far follow what it held or held nothing.   *)
Extends == AppendMode(sinkCfg) /\ sinkBefore.file # "gone"
Base == IF Extends THEN sinkBefore.rows ELSE <<>>
Landing == Glue(Spoils, sinkOp.load.rows)
Planned == IF Extends THEN Landing ELSE Lines(sinkOp.load.rows)

LinesInv ==
  /\ sinkOp.step \in {"put", "open"} => sinkTarget = sinkBefore /\ sinkOp.pos = 0
  /\ sinkOp.step = "lines" =>
       /\ sinkOp.lines = Planned /\ sinkOp.pos <= Len(Planned) /\ sinkTarget.file # "gone"
       /\ IF sinkCfg.sink = "parquet" THEN Base = <<>> /\ sinkTarget.rows = <<>>
          ELSE /\ Len(sinkTarget.rows) = Len(Base) + sinkOp.pos
               /\ \A i \in 1..Len(sinkTarget.rows) :
                    sinkTarget.rows[i] = IF i <= Len(Base) THEN Base[i] ELSE Planned[i - Len(Base)]

(* Partitions: what is still to do is as it was, except for the one under way.*)
PartsInv ==
  sinkOp.step \in HiveSteps =>
    /\ sinkOp.todo \subseteq KeysIn(sinkOp.load.rows)
    /\ sinkOp.step # "stage" => sinkOp.todo # {}
    /\ \A p \in SinkKeys :
         sinkTarget.parts[p] =
           IF p \in KeysIn(sinkOp.load.rows) \ sinkOp.todo THEN PartitionRows(sinkOp.load.rows, p)
           ELSE IF sinkOp.step = "swap" /\ p = Partition THEN Gone ELSE sinkBefore.parts[p]

WritesInv == Busy => TxInv /\ LinesInv /\ PartsInv
SinkInv == SinkTypes /\ TableInv /\ HeadInv /\ WritesInv /\ (~Busy => SinksKeepRows)

-----------------------------------------------------------------------------
(* What a load holds.                                                      *)
LEMMA LoadFacts ==
  ASSUME NEW load \in SinkLoads \ {None}
  PROVE  /\ load.rows \in Seq(LoadRows) /\ load.rows \in Seq(FileRows)
         /\ DOMAIN load.rows = 1..Len(load.rows) /\ Len(load.rows) \in Nat
         /\ \A i \in 1..Len(load.rows) : load.rows[i] # Heading
         /\ KeysIn(load.rows) \subseteq SinkKeys
<1>1. load.rows \in Seq(LoadRows) /\ \A r \in LoadRows : r.k \in SinkKeys \cup {None}
  BY SinksAssumption DEF SinksAssumption
<1>2. load.rows \in Seq(FileRows)
  BY <1>1 DEF FileRows
<1>3. \A i \in 1..Len(load.rows) : load.rows[i] \in LoadRows
  BY <1>1
<1>4. Heading \notin LoadRows
  BY SinksAssumption DEF SinksAssumption
<1> QED BY <1>1, <1>2, <1>3, <1>4 DEF KeysIn

LEMMA GlueFacts ==
  ASSUME NEW load \in SinkLoads \ {None}
  PROVE  /\ Glue(Spoils, load.rows) \in Seq(FileRows)
         /\ \A i \in 1..Len(Glue(Spoils, load.rows)) : Glue(Spoils, load.rows)[i] # Heading
         /\ Landed(load).rows = Glue(Spoils, load.rows)
         /\ ~Spoils => Landed(load).rows = load.rows
<1> DEFINE rows == load.rows
<1>1. rows \in Seq(FileRows) /\ \A i \in 1..Len(rows) : rows[i] # Heading
  BY LoadFacts
<1>2. Spoiled \in FileRows /\ Spoiled # Heading
  BY DEF FileRows, Spoiled, Heading
<1>3. CASE Spoils /\ rows # <<>>
  <2>1. PICK t : t = Tail(rows)
    OBVIOUS
  <2>2. Glue(Spoils, rows) = <<Spoiled>> \o t
    BY <1>3, <2>1 DEF Glue
  <2>3. /\ t \in Seq(FileRows) /\ Len(rows) \in Nat /\ Len(rows) > 0 /\ Len(t) = Len(rows) - 1
        /\ \A i \in 1..Len(t) : t[i] = rows[i + 1]
    BY <1>1, <1>3, <2>1
  <2>4. <<Spoiled>> \in Seq(FileRows) /\ Len(<<Spoiled>>) = 1 /\ <<Spoiled>>[1] = Spoiled
    BY <1>2
  <2>5. /\ <<Spoiled>> \o t \in Seq(FileRows) /\ Len(<<Spoiled>> \o t) = 1 + Len(t)
        /\ \A i \in 1..(1 + Len(t)) : (<<Spoiled>> \o t)[i] = IF i <= 1 THEN Spoiled ELSE t[i - 1]
    BY <2>3, <2>4
  <2>6. ASSUME NEW i \in 1..(1 + Len(t)) PROVE (<<Spoiled>> \o t)[i] # Heading
    <3>1. CASE i = 1
      BY <1>2, <2>5, <3>1
    <3>2. CASE i # 1
      <4>1. i - 1 \in 1..Len(t) /\ i \in 1..Len(rows)
        BY <2>3, <3>2
      <4>2. (<<Spoiled>> \o t)[i] = t[i - 1] /\ t[i - 1] = rows[i]
        BY <2>3, <2>5, <3>2, <4>1
      <4> QED BY <1>1, <4>1, <4>2
    <3> QED BY <3>1, <3>2
  <2> QED BY <1>3, <2>2, <2>5, <2>6 DEF Landed
<1>4. CASE ~(Spoils /\ rows # <<>>)
  BY <1>1, <1>4 DEF Glue, Landed
<1> QED BY <1>3, <1>4

LEMMA LinesFacts ==
  ASSUME NEW load \in SinkLoads \ {None}
  PROVE  /\ Lines(load.rows) \in Seq(FileRows)
         /\ \A i \in 1..Len(Lines(load.rows)) : Lines(load.rows)[i] = Heading => i = 1
         /\ sinkCfg.sink = "csv" => Len(Lines(load.rows)) > 0 /\ Lines(load.rows)[1] = Heading
         /\ \A r : r # Heading => CountOf(Lines(load.rows), r) = CountOf(load.rows, r)
<1> DEFINE rows == load.rows
<1>1. rows \in Seq(FileRows) /\ \A i \in 1..Len(rows) : rows[i] # Heading
  BY LoadFacts
<1>2. CASE sinkCfg.sink = "csv"
  <2>1. Lines(rows) = <<Heading>> \o rows /\ <<Heading>> \in Seq(FileRows)
    BY <1>2 DEF Lines, FileRows
  <2>2. /\ Lines(rows) \in Seq(FileRows) /\ Len(Lines(rows)) = 1 + Len(rows)
        /\ \A i \in 1..(1 + Len(rows)) : Lines(rows)[i] = IF i <= 1 THEN Heading ELSE rows[i - 1]
    BY <1>1, <2>1
  <2>3. \A i \in 1..Len(Lines(rows)) : Lines(rows)[i] = Heading => i = 1
    <3> TAKE i \in 1..Len(Lines(rows))
    <3> HAVE Lines(rows)[i] = Heading
    <3>1. i > 1 => i - 1 \in 1..Len(rows) /\ Lines(rows)[i] = rows[i - 1]
      BY <1>1, <2>2
    <3> QED BY <1>1, <2>2, <3>1
  <2>4. ASSUME NEW r, r # Heading
        PROVE  CountOf(Lines(rows), r) = CountOf(rows, r)
    <3>1. CountOf(Lines(rows), r) = CountOf(<<Heading>>, r) + CountOf(rows, r)
      BY <1>1, <2>1, CountPrepend
    <3>2. {i \in DOMAIN <<Heading>> : <<Heading>>[i] = r} = {}
      <4>1. DOMAIN <<Heading>> = {1} /\ <<Heading>>[1] = Heading
        OBVIOUS
      <4> QED BY <2>4, <4>1
    <3>3. CountOf(<<Heading>>, r) = 0
      BY <3>2, FS_EmptySet DEF CountOf
    <3>4. IsFiniteSet(DOMAIN rows)
      BY <1>1, FS_Interval
    <3>5. CountOf(rows, r) \in Nat
      BY <3>4, CountType
    <3> QED BY <3>1, <3>3, <3>5
  <2> QED BY <2>2, <2>3, <2>4
<1>3. CASE sinkCfg.sink # "csv"
  BY <1>1, <1>3 DEF Lines
<1> QED BY <1>2, <1>3

(* Once all rows of the load are in, the strategy has had its effect.      *)
LEMMA EffectIsApplied ==
  ASSUME SinkTypes, Busy, NEW r
  PROVE  EffectTo(Len(sinkOp.load.rows), r) = Effect(sinkBefore.rows, sinkOp.load.rows, r)
<1> DEFINE rows == sinkOp.load.rows
<1>1. DOMAIN rows = 1..Len(rows)
  BY LoadFacts DEF SinkTypes
<1>2. NewTo(Len(rows), r) = CountOf(rows, r)
  BY <1>1 DEF NewTo, CountOf
<1>3. HitTo(Len(rows), r) <=> r.k \in KeysIn(rows)
  BY <1>1 DEF HitTo, KeysIn
<1>4. LastTo(Len(rows), r) <=> LastOfKey(rows, r)
  BY DEF LastTo, LastOfKey
<1> QED BY <1>2, <1>3, <1>4 DEF EffectTo, Effect

(* While a write is under way, what its target holds is as promised.       *)
LEMMA WritingKeeps ==
  ASSUME SinkInv, Busy
  PROVE  SinksKeepRows
<1>1. sinkReply = [end |-> "none"] /\ CurrentLoad = sinkOp.load /\ sinkOp.load \in SinkLoads \ {None} /\ sinkOp.load # None
  BY DEF SinkInv, SinkTypes, Busy, CurrentLoad
<1>2. sinkReply.end = "none"
  BY <1>1
<1>3. AnsweredIsApplied /\ RefusedTouchesNothing
  BY <1>2 DEF AnsweredIsApplied, RefusedTouchesNothing
<1>4. Fits(sinkOp.step) /\ TxInv /\ LinesInv /\ PartsInv
  BY DEF SinkInv, SinkTypes, WritesInv
<1>5. AllOrNothing
  <2>1. CASE sinkOp.step = "index"
    <3>1. ~IsFile
      BY <1>4, <2>1 DEF Fits, HiveSteps, FileSteps
    <3>2. EffectInv(sinkTarget.rows, Len(sinkOp.load.rows))
      BY <1>4, <2>1 DEF TxInv
    <3>3. \A r : CountOf(sinkTarget.rows, r) = Effect(sinkBefore.rows, sinkOp.load.rows, r)
      BY <3>2, EffectIsApplied DEF SinkInv, EffectInv
    <3>4. Applied(sinkOp.load)
      BY <3>1, <3>3 DEF Applied, Replaces
    <3> QED BY <1>1, <3>4 DEF AllOrNothing
  <2>2. CASE sinkOp.step \in {"connect", "begin", "clear", "insert"}
    BY <1>4, <2>2 DEF TxInv, AllOrNothing, SameRows
  <2>3. CASE sinkOp.step \in {"put", "open"}
    BY <1>4, <2>3 DEF LinesInv, AllOrNothing, SameRows
  <2>4. CASE sinkOp.step \in HiveSteps \cup {"lines"}
    BY <1>4, <2>4 DEF Fits, AllOrNothing, HiveSteps, FileSteps, PgSteps
  <2> QED BY <1>4, <2>1, <2>2, <2>3, <2>4 DEF Fits, PgSteps, FileSteps
<1>6. PartitionsAreWhole
  <2> SUFFICES ASSUME Hive
               PROVE  LET whole(p) == sinkTarget.parts[p] \in
                            {sinkBefore.parts[p], PartitionRows(sinkOp.load.rows, p)}
                      IN /\ \A p \in SinkKeys : whole(p) \/ (p \in KeysIn(sinkOp.load.rows) /\ sinkTarget.parts[p] = Gone)
                         /\ \A p, q \in SinkKeys : whole(p) \/ whole(q) \/ p = q
    BY <1>1 DEF PartitionsAreWhole
  <2>1. sinkOp.step \in HiveSteps
    BY <1>4 DEF Fits, Hive, PgSteps
  <2>2. sinkOp.step = "swap" => Partition \in KeysIn(sinkOp.load.rows)
    BY <1>4, <2>1 DEF PartsInv, Partition
  <2>3. \A p \in SinkKeys :
          sinkTarget.parts[p] \in {sinkBefore.parts[p], PartitionRows(sinkOp.load.rows, p)}
            \/ (sinkOp.step = "swap" /\ p = Partition /\ sinkTarget.parts[p] = Gone)
    BY <1>4, <2>1 DEF PartsInv
  <2> QED BY <2>2, <2>3
<1>7. CsvKeepsLines
  <2> SUFFICES ASSUME sinkCfg.sink = "csv", AppendMode(sinkCfg)
               PROVE  IsPrefix(sinkBefore.rows, sinkTarget.rows)
    BY <1>2 DEF CsvKeepsLines
  <2>1. sinkBefore.rows \in Seq(FileRows) /\ sinkTarget.rows \in Seq(FileRows)
    BY DEF SinkInv, SinkTypes, IsTarget, RowsFit, IsFile
  <2>2. ASSUME NEW s \in Seq(FileRows) PROVE IsPrefix(s, s)
    BY DEF IsPrefix
  <2>3. sinkOp.step \in {"open", "lines"} \cup HiveSteps
    BY <1>4 DEF Fits, IsFile, PgSteps, FileSteps
  <2>4. CASE sinkOp.step = "open"
    BY <1>4, <2>1, <2>2, <2>4 DEF LinesInv
  <2>5. CASE sinkOp.step = "lines"
    <3>1. sinkBefore.rows = Base
      <4>1. sinkBefore.file = "gone" => sinkBefore.rows = <<>>
        BY DEF SinkInv, SinkTypes, IsTarget
      <4> QED BY <4>1 DEF Base, Extends
    <3>2. /\ Len(sinkTarget.rows) = Len(Base) + sinkOp.pos /\ sinkOp.pos \in Nat
          /\ \A i \in 1..Len(sinkTarget.rows) : i <= Len(Base) => sinkTarget.rows[i] = Base[i]
      BY <1>4, <2>5 DEF LinesInv, SinkInv, SinkTypes
    <3> HIDE DEF Base
    <3>3. Base \in Seq(FileRows) /\ Len(Base) \in Nat /\ Len(Base) <= Len(sinkTarget.rows)
      BY <2>1, <3>1, <3>2
    <3>4. SubSeq(Base, 1, Len(Base)) = SubSeq(sinkTarget.rows, 1, Len(Base))
      BY <2>1, <3>2, <3>3
    <3> QED BY <3>1, <3>3, <3>4 DEF IsPrefix
  <2>6. ~(sinkOp.step \in HiveSteps)
    BY <1>4 DEF Fits, CheckStrategySupported, Hive, PgSteps, FileSteps, HiveSteps
  <2> QED BY <2>3, <2>4, <2>5, <2>6
<1> QED BY <1>3, <1>5, <1>6, <1>7 DEF SinksKeepRows

-----------------------------------------------------------------------------
LEMMA InitSink == SinkInit => SinkInv
<1> SUFFICES ASSUME SinkInit PROVE SinkInv
  OBVIOUS
<1>1. /\ sinkOp = NoWrite /\ sinkReply = [end |-> "none"] /\ sinkBefore = sinkTarget
      /\ sinkCfg \in Postgres \cup File /\ sinkWrites = 0
  BY DEF SinkInit
<1>2. PICK file : sinkTarget = [rows |-> <<>>, file |-> file, half |-> FALSE, parts |-> NoParts, stale |-> {}, wide |-> FALSE]
  BY DEF SinkInit
<1>3. DOMAIN sinkTarget.rows = {} /\ sinkTarget.rows = <<>>
  BY <1>2
<1>4. IsTarget(sinkTarget, sinkCfg)
  <2>1. RowsFit(sinkTarget.rows, sinkCfg)
    BY <1>3, FS_EmptySet DEF RowsFit
  <2> QED BY <1>2, <2>1 DEF IsTarget, NoParts
<1>5. SinkTypes
  BY <1>1, <1>4 DEF SinkTypes, Busy, NoWrite
<1>6. TableInv /\ HeadInv
  BY <1>1, <1>3 DEF TableInv, HeadInv, Unique, Older, HeadFirst, NoWrite
<1>7. ~Busy /\ sinkReply.end = "none" /\ sinkOp.step = "idle"
  BY <1>1 DEF Busy, NoWrite
<1>8. SinksKeepRows
  <2>1. sinkBefore.rows = <<>> /\ sinkTarget.rows = <<>> /\ IsPrefix(<<>>, <<>>)
    BY <1>1, <1>3 DEF IsPrefix
  <2> QED BY <1>1, <1>7, <2>1
        DEF SinksKeepRows, AllOrNothing, AnsweredIsApplied, RefusedTouchesNothing, PartitionsAreWhole, CsvKeepsLines
<1> QED BY <1>5, <1>6, <1>7, <1>8 DEF SinkInv, WritesInv

(* How a write ends without an answer.                                     *)
LEMMA FailedWrite ==
  ASSUME SinkInv, Busy, NEW end \in {"failed", "crashed"}, EndWrite(end), SinkQuiet,
         IsTarget(sinkTarget, sinkCfg)', (TableInv /\ HeadInv)', (AllOrNothing /\ PartitionsAreWhole)',
         sinkCfg.sink = "csv" => sinkTarget'.rows = sinkTarget.rows
  PROVE  SinkInv'
<1>1. /\ sinkOp' = NoWrite /\ UNCHANGED <<sinkCfg, sinkBefore, sinkWrites>>
      /\ sinkReply' = [end |-> end, load |-> sinkOp.load, ins |-> 0, upd |-> 0, del |-> 0]
  BY DEF EndWrite, Reply, SinkQuiet
<1>2. SinkTypes
  BY DEF SinkInv
<1>3. sinkOp.load \in SinkLoads \ {None}
  BY <1>2 DEF SinkTypes
<1>4. ~Busy'
  BY <1>1 DEF Busy, NoWrite
<1>5. SinkTypes'
  BY <1>1, <1>2, <1>3, <1>4 DEF SinkTypes
<1>6. (AnsweredIsApplied /\ RefusedTouchesNothing)'
  BY <1>1, <1>3 DEF AnsweredIsApplied, RefusedTouchesNothing
<1>7. CsvKeepsLines'
  <2>1. CsvKeepsLines /\ sinkReply.end = "none"
    BY <1>2, WritingKeeps DEF SinksKeepRows, SinkTypes
  <2> QED BY <1>1, <2>1 DEF CsvKeepsLines
<1> QED BY <1>4, <1>5, <1>6, <1>7 DEF SinkInv, WritesInv, SinksKeepRows

(* In particular one that leaves the target alone.                         *)
LEMMA InterruptedWrite ==
  ASSUME SinkInv, Busy, NEW end \in {"failed", "crashed"}, EndWrite(end), SinkQuiet,
         UNCHANGED sinkTarget
  PROVE  SinkInv'
<1>1. /\ sinkOp' = NoWrite /\ UNCHANGED <<sinkCfg, sinkBefore, sinkWrites>>
      /\ sinkReply' = [end |-> end, load |-> sinkOp.load, ins |-> 0, upd |-> 0, del |-> 0]
  BY DEF EndWrite, Reply, SinkQuiet
<1>2. SinkTypes /\ TableInv /\ HeadInv /\ SinksKeepRows
  BY WritingKeeps DEF SinkInv
<1>3. IsTarget(sinkTarget, sinkCfg)'
  BY <1>1, <1>2 DEF SinkTypes
<1>4. (TableInv /\ HeadInv)'
  BY <1>1, <1>2 DEF TableInv, HeadInv, IsFile, NoWrite, Unique, HeadFirst
<1>5. CurrentLoad' = CurrentLoad /\ CurrentLoad = sinkOp.load
  BY <1>1 DEF CurrentLoad, NoWrite, Busy
<1>6. AllOrNothing'
  <2> QED BY <1>1, <1>2, <1>5
        DEF SinksKeepRows, AllOrNothing, SameRows, IsFile, Hive, Busy, Applied, AllRows, Replaces, Effect
<1>7. PartitionsAreWhole'
  BY <1>1, <1>2, <1>5 DEF SinksKeepRows, PartitionsAreWhole, Hive, IsFile, Busy
<1> QED BY <1>1, <1>3, <1>4, <1>6, <1>7, FailedWrite

-----------------------------------------------------------------------------
(* PostgreSQL, up to the rows.                                             *)
LEMMA CreateTableStep == ASSUME SinkInv, CreateTable PROVE SinkInv'
<1>1. /\ sinkOp.step = "connect" /\ sinkOp' = [sinkOp EXCEPT !.step = "begin"]
      /\ UNCHANGED <<sinkReply, sinkCfg, sinkBefore, sinkWrites>>
  BY DEF CreateTable, SinkAt, SinkQuiet
<1>2. SinkTypes /\ Busy /\ TableInv /\ HeadInv /\ TxInv
  BY <1>1 DEF SinkInv, Busy, WritesInv
<1>3. ~IsFile /\ Fits("begin")
  BY <1>1, <1>2 DEF SinkTypes, Fits, FileSteps, HiveSteps, PgSteps
<1>4. /\ sinkTarget'.rows = sinkTarget.rows
      /\ IsTarget(sinkTarget', sinkCfg)
  BY <1>2 DEF CreateTable, SinkTypes, IsTarget
<1>5. /\ sinkOp'.step = "begin" /\ Busy'
      /\ sinkOp'.pos = sinkOp.pos /\ sinkOp'.ins = sinkOp.ins /\ sinkOp'.upd = sinkOp.upd
  BY <1>1, <1>2 DEF SinkTypes, Busy
<1>6. SinkTypes'
  BY <1>1, <1>2, <1>3, <1>4, <1>5 DEF SinkTypes, Fits, IsFile, PgSteps
<1>7. TableInv' /\ HeadInv'
  BY <1>1, <1>2, <1>3, <1>4, <1>5 DEF TableInv, HeadInv, IsFile, Unique, Older
<1>8. TxInv'
  BY <1>1, <1>2, <1>4, <1>5 DEF TxInv
<1>9. LinesInv' /\ PartsInv'
  BY <1>5 DEF LinesInv, PartsInv, HiveSteps
<1> QED BY <1>5, <1>6, <1>7, <1>8, <1>9 DEF SinkInv, WritesInv

LEMMA AddColumnsStep == ASSUME SinkInv, AddColumns PROVE SinkInv'
<1> DEFINE copy == [sinkTarget EXCEPT !.wide = @ \/ (sinkCfg.evolve /\ sinkOp.load.wide)]
<1>1. /\ sinkOp.step = "begin" /\ sinkOp' = [sinkOp EXCEPT !.step = "clear", !.tx = copy]
      /\ UNCHANGED <<sinkTarget, sinkReply, sinkCfg, sinkBefore, sinkWrites>>
  BY DEF AddColumns, SinkAt, SinkQuiet
<1>2. SinkTypes /\ Busy /\ TableInv /\ HeadInv /\ TxInv
  BY <1>1 DEF SinkInv, Busy, WritesInv
<1>3. ~IsFile /\ Fits("clear")
  BY <1>1, <1>2 DEF SinkTypes, Fits, FileSteps, HiveSteps, PgSteps
<1>4. copy.rows = sinkTarget.rows /\ IsTarget(copy, sinkCfg)
  BY <1>2 DEF SinkTypes, IsTarget
<1> HIDE DEF copy
<1>5. /\ sinkOp'.step = "clear" /\ Busy' /\ sinkOp'.tx = copy
      /\ sinkOp'.pos = sinkOp.pos /\ sinkOp'.ins = sinkOp.ins /\ sinkOp'.upd = sinkOp.upd
  BY <1>1, <1>2 DEF SinkTypes, Busy
<1>6. SinkTypes'
  BY <1>1, <1>2, <1>3, <1>4, <1>5 DEF SinkTypes, Fits, IsFile, PgSteps
<1>7. TableInv' /\ HeadInv'
  BY <1>1, <1>2, <1>3, <1>5 DEF TableInv, HeadInv, IsFile, Unique, Older
<1>8. TxInv'
  BY <1>1, <1>2, <1>4, <1>5 DEF TxInv
<1>9. LinesInv' /\ PartsInv'
  BY <1>5 DEF LinesInv, PartsInv, HiveSteps
<1> QED BY <1>5, <1>6, <1>7, <1>8, <1>9 DEF SinkInv, WritesInv

(* What is kept of a table before the rows of the load come in.            *)
LEMMA KeptRows ==
  ASSUME NEW rows, IsFiniteSet(DOMAIN rows)
  PROVE  /\ IsFiniteSet(DOMAIN Kept(rows)) /\ DOMAIN Kept(rows) \subseteq DOMAIN rows
         /\ \A i \in DOMAIN Kept(rows) : Kept(rows)[i] = rows[i]
         /\ \A r : CountOf(Kept(rows), r) =
              IF sinkCfg.strategy = "truncate_insert" THEN 0
              ELSE IF sinkCfg.strategy = "delete_insert" /\ r.k \in KeysIn(sinkOp.load.rows) THEN 0
              ELSE CountOf(rows, r)
<1>1. CASE sinkCfg.strategy = "truncate_insert"
  <2>1. Kept(rows) = <<>> /\ DOMAIN Kept(rows) = {}
    BY <1>1 DEF Kept
  <2>2. \A r : {i \in DOMAIN Kept(rows) : Kept(rows)[i] = r} = {}
    BY <2>1
  <2>3. \A r : CountOf(Kept(rows), r) = 0
    BY <2>2, FS_EmptySet DEF CountOf
  <2> QED BY <1>1, <2>1, <2>3, FS_EmptySet
<1>2. CASE sinkCfg.strategy = "delete_insert"
  <2> DEFINE keep == {i \in DOMAIN rows : rows[i].k \notin KeysIn(sinkOp.load.rows)}
  <2>1. Kept(rows) = [i \in keep |-> rows[i]]
    BY <1>2 DEF Kept, Restrict
  <2>2. keep \in SUBSET DOMAIN rows /\ IsFiniteSet(keep) /\ DOMAIN Kept(rows) = keep
    <3>1. keep \in SUBSET DOMAIN rows
      OBVIOUS
    <3> QED BY <2>1, <3>1, FS_Subset
  <2>3. ASSUME NEW r, r.k \in KeysIn(sinkOp.load.rows)
        PROVE  CountOf(Kept(rows), r) = 0
    <3>1. {i \in DOMAIN Kept(rows) : Kept(rows)[i] = r} = {}
      BY <2>1, <2>2, <2>3
    <3> QED BY <3>1, FS_EmptySet DEF CountOf
  <2>4. ASSUME NEW r, r.k \notin KeysIn(sinkOp.load.rows)
        PROVE  CountOf(Kept(rows), r) = CountOf(rows, r)
    <3>1. {i \in DOMAIN Kept(rows) : Kept(rows)[i] = r} = {i \in DOMAIN rows : rows[i] = r}
      BY <2>1, <2>2, <2>4
    <3> QED BY <3>1 DEF CountOf
  <2> QED BY <1>2, <2>1, <2>2, <2>3, <2>4
<1>3. CASE sinkCfg.strategy \notin {"truncate_insert", "delete_insert"}
  BY <1>3 DEF Kept
<1> QED BY <1>1, <1>2, <1>3

LEMMA ClearRowsStep == ASSUME SinkInv, ClearRows PROVE SinkInv'
<1> DEFINE kept == Kept(sinkOp.tx.rows)
<1>1. /\ sinkOp.step = "clear"
      /\ sinkOp' = [sinkOp EXCEPT !.step = "insert", !.tx.rows = kept, !.del = Removed]
      /\ UNCHANGED <<sinkTarget, sinkReply, sinkCfg, sinkBefore, sinkWrites>>
  BY DEF ClearRows, SinkAt, SinkQuiet
<1>2. SinkTypes /\ Busy /\ TableInv /\ HeadInv /\ TxInv
  BY <1>1 DEF SinkInv, Busy, WritesInv
<1>3. ~IsFile /\ Fits("insert")
  BY <1>1, <1>2 DEF SinkTypes, Fits, FileSteps, HiveSteps, PgSteps
<1>4. sinkOp.tx.rows = sinkBefore.rows /\ sinkTarget.rows = sinkBefore.rows
      /\ sinkOp.pos = 0 /\ sinkOp.ins = 0 /\ sinkOp.upd = 0
  BY <1>1, <1>2 DEF TxInv
<1>5. IsFiniteSet(DOMAIN sinkBefore.rows)
  BY <1>2, <1>3 DEF SinkTypes, IsTarget, RowsFit, IsFile
<1>6. /\ IsFiniteSet(DOMAIN kept) /\ DOMAIN kept \subseteq DOMAIN sinkBefore.rows
      /\ \A i \in DOMAIN kept : kept[i] = sinkBefore.rows[i]
  BY <1>4, <1>5, KeptRows
<1>7. IsTarget([sinkOp.tx EXCEPT !.rows = kept], sinkCfg)
  <2>1. RowsFit(kept, sinkCfg)
    BY <1>2, <1>3, <1>4, <1>6 DEF SinkTypes, IsTarget, RowsFit, IsFile
  <2> QED BY <1>2, <1>3, <2>1 DEF SinkTypes, IsTarget, IsFile
<1>8. Removed \in Int /\ Cardinality(DOMAIN kept) = Cardinality(DOMAIN sinkBefore.rows) - Removed
  BY <1>4, <1>5, <1>6, FS_CardinalityType DEF Removed
<1>9. \A r : CountOf(kept, r) = EffectTo(0, r)
  <2> TAKE r
  <2>1. CountOf(sinkBefore.rows, r) \in Nat
    BY <1>5, CountType
  <2>2. {i \in 1..0 : sinkOp.load.rows[i] = r} = {} /\ ~HitTo(0, r)
    BY DEF HitTo
  <2>3. NewTo(0, r) = 0
    BY <2>2, FS_EmptySet DEF NewTo
  <2>4. sinkCfg.strategy \in {"append", "merge", "truncate_insert", "delete_insert"}
    BY <1>2, <1>3 DEF SinkTypes, Fits, PgWriteFromPolicy, IsFile, PgSteps, FileSteps, HiveSteps, Postgres, File
  <2>5. CountOf(kept, r) =
          IF sinkCfg.strategy = "truncate_insert" THEN 0
          ELSE IF sinkCfg.strategy = "delete_insert" /\ r.k \in KeysIn(sinkOp.load.rows) THEN 0
          ELSE CountOf(sinkBefore.rows, r)
    BY <1>4, <1>5, KeptRows
  <2> HIDE DEF kept
  <2> QED BY <2>1, <2>2, <2>3, <2>4, <2>5 DEF EffectTo
<1> HIDE DEF kept
<1>10. /\ sinkOp'.step = "insert" /\ Busy' /\ sinkOp'.tx = [sinkOp.tx EXCEPT !.rows = kept]
       /\ sinkOp'.pos = 0 /\ sinkOp'.ins = 0 /\ sinkOp'.upd = 0 /\ sinkOp'.del = Removed
       /\ sinkOp'.load = sinkOp.load
  BY <1>1, <1>2, <1>4 DEF SinkTypes, Busy
<1>11. sinkOp'.tx.rows = kept
  BY <1>2, <1>10 DEF SinkTypes, IsTarget
<1>12. SinkTypes'
  BY <1>1, <1>2, <1>3, <1>7, <1>8, <1>10 DEF SinkTypes, Fits, IsFile, PgSteps
<1>13. TableInv' /\ HeadInv'
  BY <1>1, <1>2, <1>3, <1>10 DEF TableInv, HeadInv, IsFile, Unique, Older
<1>14. TxInv'
  <2>1. EffectInv(sinkOp.tx.rows, sinkOp.pos)'
    <3>1. \A r : EffectTo(0, r)' = EffectTo(0, r)
      BY <1>1, <1>10 DEF EffectTo, NewTo, HitTo, LastTo
    <3>2. Cardinality(DOMAIN sinkBefore.rows) \in Nat
      BY <1>5, FS_CardinalityType
    <3>3. \A r : CountOf(kept, r) = EffectTo(0, r)'
      BY <1>9, <3>1
    <3>4. Cardinality(DOMAIN kept) = Cardinality(DOMAIN sinkBefore'.rows) + sinkOp'.ins - sinkOp'.del
      BY <1>1, <1>8, <1>10, <3>2
    <3>5. sinkOp'.tx.rows = kept /\ sinkOp'.pos = 0 /\ sinkOp'.ins + sinkOp'.upd = 0
      BY <1>10, <1>11
    <3> QED BY <3>3, <3>4, <3>5 DEF EffectInv
  <2>2. sinkCfg.keyed => Unique(kept)
    BY <1>2, <1>3, <1>4, <1>6 DEF TableInv, Unique
  <2>3. Older(kept, sinkWrites, 0)
    BY <1>1, <1>2, <1>3, <1>4, <1>6 DEF TableInv, Older
  <2>4. 0 <= Len(sinkOp.load.rows)
    BY <1>2, LoadFacts DEF SinkTypes
  <2> QED BY <1>1, <1>4, <1>10, <1>11, <2>1, <2>2, <2>3, <2>4 DEF TxInv, Unique, Older
<1>15. LinesInv' /\ PartsInv'
  BY <1>10 DEF LinesInv, PartsInv, HiveSteps
<1> QED BY <1>10, <1>12, <1>13, <1>14, <1>15 DEF SinkInv, WritesInv

-----------------------------------------------------------------------------
(* What one more row of the load does.                                     *)
LEMMA OneMore ==
  ASSUME NEW n \in Nat, NEW r
  PROVE  /\ NewTo(n, r) \in Nat
         /\ NewTo(n + 1, r) = NewTo(n, r) + (IF sinkOp.load.rows[n + 1] = r THEN 1 ELSE 0)
         /\ HitTo(n + 1, r) <=> HitTo(n, r) \/ (r.k # None /\ sinkOp.load.rows[n + 1].k = r.k)
         /\ LastTo(n + 1, r) <=> sinkOp.load.rows[n + 1] = r \/
                                 (LastTo(n, r) /\ sinkOp.load.rows[n + 1].k # r.k)
<1> DEFINE rows == sinkOp.load.rows
           OldIds == {i \in 1..n : rows[i] = r}
           NewIds == {i \in 1..(n + 1) : rows[i] = r}
<1>1. IsFiniteSet(OldIds) /\ n + 1 \notin OldIds
  <2>1. OldIds \in SUBSET (1..n) /\ IsFiniteSet(1..n)
    BY FS_Interval
  <2>2. n + 1 \notin OldIds
    OBVIOUS
  <2> QED BY <2>1, <2>2, FS_Subset
<1>2. Cardinality(OldIds) \in Nat
  BY <1>1, FS_CardinalityType
<1>3. CASE rows[n + 1] = r
  <2>1. NewIds = OldIds \cup {n + 1}
    BY <1>3
  <2>2. Cardinality(NewIds) = Cardinality(OldIds) + 1
    BY <1>1, <2>1, FS_AddElement
  <2>3. LastTo(n + 1, r)
    <3>1. n + 1 \in 1..(n + 1) /\ (n + 1) + 1..(n + 1) = {}
      OBVIOUS
    <3> QED BY <1>3, <3>1 DEF LastTo
  <2>4. HitTo(n + 1, r) <=> HitTo(n, r) \/ (r.k # None /\ rows[n + 1].k = r.k)
    BY DEF HitTo
  <2> QED BY <1>2, <1>3, <2>2, <2>3, <2>4 DEF NewTo
<1>4. CASE rows[n + 1] # r
  <2>1. NewIds = OldIds
    BY <1>4
  <2>2. LastTo(n + 1, r) => LastTo(n, r) /\ rows[n + 1].k # r.k
    <3> SUFFICES ASSUME NEW i \in 1..(n + 1), rows[i] = r, \A j \in i+1..(n + 1) : rows[j].k # r.k
                 PROVE  LastTo(n, r) /\ rows[n + 1].k # r.k
      BY DEF LastTo
    <3>1. i \in 1..n /\ n + 1 \in i+1..(n + 1)
      BY <1>4
    <3>2. \A j \in i+1..n : j \in i+1..(n + 1)
      OBVIOUS
    <3> QED BY <3>1, <3>2 DEF LastTo
  <2>3. LastTo(n, r) /\ rows[n + 1].k # r.k => LastTo(n + 1, r)
    <3> SUFFICES ASSUME NEW i \in 1..n, rows[i] = r, \A j \in i+1..n : rows[j].k # r.k,
                        rows[n + 1].k # r.k
                 PROVE  LastTo(n + 1, r)
      BY DEF LastTo
    <3>1. i \in 1..(n + 1) /\ \A j \in i+1..(n + 1) : j = n + 1 \/ j \in i+1..n
      OBVIOUS
    <3> QED BY <3>1 DEF LastTo
  <2>4. HitTo(n + 1, r) <=> HitTo(n, r) \/ (r.k # None /\ rows[n + 1].k = r.k)
    BY DEF HitTo
  <2>5. NewTo(n + 1, r) = NewTo(n, r)
    BY <2>1 DEF NewTo
  <2> QED BY <1>2, <1>4, <2>2, <2>3, <2>4, <2>5 DEF NewTo
<1> QED BY <1>3, <1>4

(* A row of the load takes the place of the one with its key, ...          *)
LEMMA UpdatedRow ==
  ASSUME SinkTypes, Busy, sinkOp.step = "insert", TxInv, ~IsFile, NEW g,
         sinkOp.pos < Len(sinkOp.load.rows), Merging, sinkCfg.keyed, Conflicts # {},
         g = [i \in DOMAIN sinkOp.tx.rows |-> IF i \in Conflicts THEN NextRow ELSE sinkOp.tx.rows[i]]
  PROVE  /\ \A r : CountOf(g, r) = EffectTo(sinkOp.pos + 1, r)
         /\ Unique(g) /\ DOMAIN g = DOMAIN sinkOp.tx.rows
<1> DEFINE f == sinkOp.tx.rows
           n == sinkOp.pos
           new == NextRow
<1>1. n \in Nat /\ new = sinkOp.load.rows[n + 1]
  BY DEF SinkTypes, NextRow
<1>2. Unique(f) /\ \A r : CountOf(f, r) = EffectTo(n, r)
  BY DEF TxInv, EffectInv
<1>3. PICK at \in DOMAIN f : new.k # None /\ f[at].k = new.k
  BY DEF Conflicts
<1>4. Conflicts = {at}
  BY <1>2, <1>3 DEF Conflicts, Unique
<1>5. DOMAIN g = DOMAIN f /\ \A i \in DOMAIN f : g[i] = IF i = at THEN new ELSE f[i]
  BY <1>4
<1>6. Unique(g)
  <2> SUFFICES ASSUME NEW i \in DOMAIN f, NEW j \in DOMAIN f, g[i].k # None, g[i].k = g[j].k
               PROVE  i = j
    BY <1>5 DEF Unique
  <2>1. g[i].k = f[i].k /\ g[j].k = f[j].k
    BY <1>3, <1>5
  <2> QED BY <1>2, <2>1 DEF Unique
<1>7. ASSUME NEW r, r.k = new.k PROVE CountOf(g, r) = EffectTo(n + 1, r)
  <2>1. HitTo(n + 1, r) /\ (LastTo(n + 1, r) <=> r = new)
    BY <1>1, <1>3, <1>7, OneMore
  <2>2. \A i \in DOMAIN f : i # at => f[i] # r
    BY <1>2, <1>3, <1>7 DEF Unique
  <2>3. {i \in DOMAIN g : g[i] = r} = IF r = new THEN {at} ELSE {}
    BY <1>5, <2>2
  <2>4. CountOf(g, r) = IF r = new THEN 1 ELSE 0
    BY <2>3, FS_EmptySet, FS_Singleton DEF CountOf
  <2> QED BY <2>1, <2>4 DEF EffectTo, Merging
<1>8. ASSUME NEW r, r.k # new.k PROVE CountOf(g, r) = EffectTo(n + 1, r)
  <2>1. {i \in DOMAIN g : g[i] = r} = {i \in DOMAIN f : f[i] = r}
    BY <1>3, <1>5, <1>8
  <2>2. CountOf(g, r) = EffectTo(n, r)
    BY <1>2, <2>1 DEF CountOf
  <2>3. /\ HitTo(n + 1, r) <=> HitTo(n, r)
        /\ LastTo(n + 1, r) <=> LastTo(n, r)
        /\ NewTo(n + 1, r) = NewTo(n, r)
    <3>1. new # r /\ NewTo(n, r) \in Nat
      BY <1>1, <1>8, OneMore
    <3>2. /\ HitTo(n + 1, r) <=> HitTo(n, r) \/ (r.k # None /\ new.k = r.k)
          /\ LastTo(n + 1, r) <=> new = r \/ (LastTo(n, r) /\ new.k # r.k)
          /\ NewTo(n + 1, r) = NewTo(n, r) + (IF new = r THEN 1 ELSE 0)
      BY <1>1, OneMore
    <3> HIDE DEF new, n
    <3> QED BY <1>8, <3>1, <3>2
  <2> QED BY <2>2, <2>3 DEF EffectTo, Merging
<1> QED BY <1>5, <1>6, <1>7, <1>8

(* ... or comes in under its own id.                                       *)
InsertsNext(g) ==
  g = [i \in DOMAIN sinkOp.tx.rows \cup {RowId} |-> IF i = RowId THEN NextRow ELSE sinkOp.tx.rows[i]]

LEMMA InsertedRow ==
  ASSUME SinkTypes, Busy, sinkOp.step = "insert", TxInv, ~IsFile, NEW g,
         sinkOp.pos < Len(sinkOp.load.rows), ~Refuses, ~(Merging /\ Conflicts # {}),
         InsertsNext(g)
  PROVE  /\ \A r : CountOf(g, r) = EffectTo(sinkOp.pos + 1, r)
         /\ sinkCfg.keyed => Unique(g)
         /\ IsFiniteSet(DOMAIN g) /\ DOMAIN g = DOMAIN sinkOp.tx.rows \cup {RowId}
         /\ Cardinality(DOMAIN g) = Cardinality(DOMAIN sinkOp.tx.rows) + 1
<1> DEFINE f == sinkOp.tx.rows
           n == sinkOp.pos
           new == NextRow
<1>1. n \in Nat /\ new = sinkOp.load.rows[n + 1]
  BY DEF SinkTypes, NextRow
<1>2. (sinkCfg.keyed => Unique(f)) /\ \A r : CountOf(f, r) = EffectTo(n, r)
  BY DEF TxInv, EffectInv
<1>3. IsFiniteSet(DOMAIN f) /\ IsFiniteSet(DOMAIN sinkBefore.rows)
  BY DEF SinkTypes, IsTarget, RowsFit, IsFile
<1>4. RowId \notin DOMAIN f
  <2>1. \A id \in DOMAIN f : id[1] < sinkWrites \/ (id[1] = sinkWrites /\ id[2] <= n)
    BY DEF TxInv, Older
  <2>2. RowId[1] = sinkWrites /\ RowId[2] = n + 1 /\ sinkWrites \in Nat
    BY DEF RowId, SinkTypes
  <2> QED BY <1>1, <2>1, <2>2
<1>5. DOMAIN g = DOMAIN f \cup {RowId} /\ g[RowId] = new /\ \A i \in DOMAIN f : g[i] = f[i]
  BY <1>4 DEF InsertsNext
<1>6. ASSUME NEW r
      PROVE  /\ CountOf(g, r) = CountOf(f, r) + (IF r = new THEN 1 ELSE 0)
             /\ IsFiniteSet(DOMAIN g) /\ Cardinality(DOMAIN g) = Cardinality(DOMAIN f) + 1
  <2> DEFINE id == RowId
  <2>1. /\ IsFiniteSet(DOMAIN f) /\ id \notin DOMAIN f
        /\ DOMAIN g = DOMAIN f \cup {id} /\ g[id] = new /\ \A i \in DOMAIN f : g[i] = f[i]
    BY <1>3, <1>4, <1>5
  <2> HIDE DEF f, new, id
  <2>2. Cardinality(DOMAIN f) \in Nat /\ CountOf(f, r) \in Nat
    BY <2>1, FS_CardinalityType, CountType
  <2>3. CountOf(g, r) = CountOf(f, r) + (IF r = g[id] THEN 1 ELSE 0)
    <3>1. r = g[id] => CountOf(g, r) = CountOf(f, r) + 1
      BY <2>1, CountAdd
    <3>2. ASSUME r # g[id] PROVE CountOf(g, r) = CountOf(f, r)
      <4>1. {i \in DOMAIN g : g[i] = r} = {i \in DOMAIN f : f[i] = r}
        BY <2>1, <3>2
      <4> QED BY <4>1 DEF CountOf
    <3> QED BY <2>2, <3>1, <3>2
  <2>4. Cardinality(DOMAIN g) = Cardinality(DOMAIN f) + 1
    BY <2>1, CountAdd
  <2>5. IsFiniteSet(DOMAIN g)
    BY <2>1, FS_AddElement
  <2> QED BY <2>1, <2>3, <2>4, <2>5
<1>7. sinkCfg.keyed => (\A i \in DOMAIN f : ~(new.k # None /\ f[i].k = new.k))
  BY DEF Refuses, Conflicts
<1>8. sinkCfg.keyed => Unique(g)
  <2> SUFFICES ASSUME sinkCfg.keyed, NEW i \in DOMAIN g, NEW j \in DOMAIN g, g[i].k # None, g[i].k = g[j].k
               PROVE  i = j
    BY DEF Unique
  <2>1. CASE i \in DOMAIN f /\ j \in DOMAIN f
    BY <1>2, <1>5, <2>1 DEF Unique
  <2>2. CASE i = RowId \/ j = RowId
    BY <1>5, <1>7, <2>2
  <2> QED BY <1>5, <2>1, <2>2
<1>9. ASSUME NEW r, ~Merging PROVE CountOf(g, r) = EffectTo(n + 1, r)
  <2>1. /\ NewTo(n + 1, r) = NewTo(n, r) + (IF r = new THEN 1 ELSE 0)
        /\ NewTo(n, r) \in Nat /\ CountOf(sinkBefore.rows, r) \in Nat
    <3>1. NewTo(n + 1, r) = NewTo(n, r) + (IF new = r THEN 1 ELSE 0) /\ NewTo(n, r) \in Nat
      BY <1>1, OneMore
    <3>2. CountOf(sinkBefore.rows, r) \in Nat
      BY <1>3, CountType
    <3> HIDE DEF new, n
    <3> QED BY <3>1, <3>2
  <2>2. CountOf(g, r) = EffectTo(n, r) + (IF r = new THEN 1 ELSE 0)
    BY <1>2, <1>6
  <2> DEFINE left == IF sinkCfg.strategy = "truncate_insert" THEN 0
                     ELSE IF sinkCfg.strategy = "delete_insert" /\ r.k \in KeysIn(sinkOp.load.rows) THEN 0
                     ELSE CountOf(sinkBefore.rows, r)
  <2>3. EffectTo(n, r) = left + NewTo(n, r)
    BY <1>9, <2>1 DEF EffectTo, Merging
  <2>4. EffectTo(n + 1, r) = left + NewTo(n + 1, r)
    BY <1>9, <2>1 DEF EffectTo, Merging
  <2>5. left \in Nat
    BY <2>1
  <2> HIDE DEF left, new, n
  <2>6. left + NewTo(n + 1, r) = left + NewTo(n, r) + (IF r = new THEN 1 ELSE 0)
    BY <2>1, <2>5
  <2> QED BY <2>2, <2>3, <2>4, <2>6
<1>10. ASSUME NEW r, Merging PROVE CountOf(g, r) = EffectTo(n + 1, r)
  <2>1. sinkCfg.keyed
    BY <1>10 DEF Refuses
  <2>2. /\ NewTo(n + 1, r) = NewTo(n, r) + (IF r = new THEN 1 ELSE 0)
        /\ NewTo(n, r) \in Nat /\ CountOf(sinkBefore.rows, r) \in Nat
        /\ HitTo(n + 1, r) <=> HitTo(n, r) \/ (r.k # None /\ new.k = r.k)
        /\ LastTo(n + 1, r) <=> new = r \/ (LastTo(n, r) /\ new.k # r.k)
    <3>1. NewTo(n + 1, r) = NewTo(n, r) + (IF new = r THEN 1 ELSE 0) /\ NewTo(n, r) \in Nat
      BY <1>1, OneMore
    <3>2. CountOf(sinkBefore.rows, r) \in Nat
      BY <1>3, CountType
    <3>3. /\ HitTo(n + 1, r) <=> HitTo(n, r) \/ (r.k # None /\ new.k = r.k)
          /\ LastTo(n + 1, r) <=> new = r \/ (LastTo(n, r) /\ new.k # r.k)
      BY <1>1, OneMore
    <3> HIDE DEF new, n
    <3> QED BY <3>1, <3>2, <3>3
  <2>3. CountOf(g, r) = EffectTo(n, r) + (IF r = new THEN 1 ELSE 0)
    BY <1>2, <1>6
  <2>4. EffectTo(n, r) = (IF HitTo(n, r) THEN (IF LastTo(n, r) THEN 1 ELSE 0) ELSE CountOf(sinkBefore.rows, r) + NewTo(n, r))
        /\ EffectTo(n + 1, r) =
             (IF HitTo(n + 1, r) THEN (IF LastTo(n + 1, r) THEN 1 ELSE 0) ELSE CountOf(sinkBefore.rows, r) + NewTo(n + 1, r))
    BY <1>10 DEF EffectTo, Merging
  <2>5. CASE r.k # None /\ new.k = r.k
    <3>1. {i \in DOMAIN f : f[i] = r} = {}
      BY <1>7, <2>1, <2>5
    <3>2. CountOf(f, r) = 0
      BY <3>1, FS_EmptySet DEF CountOf
    <3> QED BY <1>6, <2>2, <2>4, <2>5, <3>2
  <2>6. CASE new.k # r.k
    <3>1. new # r
      BY <2>6
    <3> HIDE DEF new, n, f
    <3> QED BY <2>2, <2>3, <2>4, <2>6, <3>1
  <2>7. CASE r.k = None
    <3>1. ~HitTo(n, r) /\ ~HitTo(n + 1, r)
      BY <2>7 DEF HitTo
    <3> QED BY <2>2, <2>3, <2>4, <3>1
  <2> QED BY <2>5, <2>6, <2>7
<1> QED BY <1>5, <1>6, <1>8, <1>9, <1>10

LEMMA NextRowKeeps ==
  ASSUME SinkInv, Inserting, SinkQuiet, UNCHANGED <<sinkTarget, sinkReply>>, NEW g, NEW ins \in Nat, NEW upd \in Nat,
         sinkOp' = [sinkOp EXCEPT !.pos = @ + 1, !.ins = ins, !.upd = upd, !.tx.rows = g],
         ins + upd = sinkOp.pos + 1,
         \A r : CountOf(g, r) = EffectTo(sinkOp.pos + 1, r),
         sinkCfg.keyed => Unique(g),
         IsFiniteSet(DOMAIN g), DOMAIN g \subseteq DOMAIN sinkOp.tx.rows \cup {RowId},
         Cardinality(DOMAIN g) = Cardinality(DOMAIN sinkBefore.rows) + ins - sinkOp.del
  PROVE  SinkInv'
<1>1. /\ sinkOp.step = "insert" /\ sinkOp.pos < Len(sinkOp.load.rows)
      /\ UNCHANGED <<sinkTarget, sinkReply, sinkCfg, sinkBefore, sinkWrites>>
  BY DEF Inserting, SinkAt, SinkQuiet
<1>2. SinkTypes /\ Busy /\ TableInv /\ HeadInv /\ TxInv
  BY <1>1 DEF SinkInv, Busy, WritesInv
<1>3. ~IsFile /\ Fits("insert")
  BY <1>1, <1>2 DEF SinkTypes, Fits, FileSteps, HiveSteps, PgSteps
<1>4. /\ sinkOp'.step = "insert" /\ Busy' /\ sinkOp'.tx = [sinkOp.tx EXCEPT !.rows = g]
      /\ sinkOp'.pos = sinkOp.pos + 1 /\ sinkOp'.ins = ins /\ sinkOp'.upd = upd
      /\ sinkOp'.del = sinkOp.del /\ sinkOp'.load = sinkOp.load
      /\ sinkOp' = [step |-> "insert", load |-> sinkOp.load, tx |-> sinkOp'.tx, lines |-> sinkOp.lines,
                    ins |-> ins, upd |-> upd, del |-> sinkOp.del, pos |-> sinkOp.pos + 1, todo |-> sinkOp.todo]
  BY <1>1, <1>2 DEF SinkTypes, Busy
<1>5. sinkOp'.tx.rows = g
  BY <1>2, <1>4 DEF SinkTypes, IsTarget
<1>6. sinkOp.pos \in Nat /\ sinkWrites \in Nat /\ sinkOp.load \in SinkLoads \ {None}
  BY <1>2 DEF SinkTypes
<1>7. \A id \in DOMAIN g : /\ id[1] \in Nat /\ id[2] \in Nat
                           /\ id[1] < sinkWrites \/ (id[1] = sinkWrites /\ id[2] <= sinkOp.pos + 1)
  <2> TAKE id \in DOMAIN g
  <2>1. CASE id \in DOMAIN sinkOp.tx.rows
    <3>1. id[1] \in Nat /\ id[2] \in Nat
      BY <1>2, <1>3, <2>1 DEF SinkTypes, IsTarget, RowsFit, IsFile
    <3>2. id[1] < sinkWrites \/ (id[1] = sinkWrites /\ id[2] <= sinkOp.pos)
      BY <1>1, <1>2, <2>1 DEF TxInv, Older
    <3> QED BY <1>6, <3>1, <3>2
  <2>2. CASE id = RowId
    BY <1>6, <2>2 DEF RowId
  <2> QED BY <2>1, <2>2
<1>8. IsTarget(sinkOp'.tx, sinkCfg)
  <2>1. RowsFit(g, sinkCfg)
    BY <1>3, <1>7 DEF RowsFit, IsFile
  <2> QED BY <1>2, <1>3, <1>4, <1>5, <2>1 DEF SinkTypes, IsTarget, IsFile
<1>9. SinkTypes'
  BY <1>1, <1>2, <1>3, <1>4, <1>6, <1>8 DEF SinkTypes, Fits, IsFile, PgSteps
<1>10. TableInv' /\ HeadInv'
  BY <1>1, <1>2, <1>3, <1>4 DEF TableInv, HeadInv, IsFile, Unique, Older
<1>11. TxInv'
  <2>1. EffectInv(sinkOp.tx.rows, sinkOp.pos)'
    <3>1. \A r : EffectTo(sinkOp.pos, r)' = EffectTo(sinkOp.pos + 1, r)
      BY <1>1, <1>4 DEF EffectTo, NewTo, HitTo, LastTo
    <3> QED BY <1>1, <1>4, <1>5, <3>1 DEF EffectInv
  <2>2. sinkOp.pos + 1 <= Len(sinkOp.load.rows)
    BY <1>1, <1>6, LoadFacts
  <2>3. Older(g, sinkWrites, sinkOp.pos + 1)
    BY <1>7 DEF Older
  <2> QED BY <1>1, <1>2, <1>4, <1>5, <2>1, <2>2, <2>3 DEF TxInv, Unique, Older
<1>12. LinesInv' /\ PartsInv'
  BY <1>4 DEF LinesInv, PartsInv, HiveSteps
<1> QED BY <1>4, <1>9, <1>10, <1>11, <1>12 DEF SinkInv, WritesInv

LEMMA InsertNextStep == ASSUME SinkInv, InsertNext PROVE SinkInv'
<1> DEFINE g == [i \in DOMAIN sinkOp.tx.rows \cup {RowId} |-> IF i = RowId THEN NextRow ELSE sinkOp.tx.rows[i]]
<1>1. /\ Inserting /\ ~Refuses /\ ~(Merging /\ Conflicts # {}) /\ sinkOp.step = "insert"
      /\ sinkOp' = [sinkOp EXCEPT !.pos = @ + 1, !.ins = @ + 1, !.tx.rows = g]
      /\ UNCHANGED <<sinkTarget, sinkReply>> /\ SinkQuiet
  BY DEF InsertNext, Inserting, SinkAt
<1>2. SinkTypes /\ Busy /\ TxInv
  BY <1>1 DEF SinkInv, Busy, WritesInv
<1>3. ~IsFile /\ sinkOp.pos < Len(sinkOp.load.rows)
  BY <1>1, <1>2 DEF SinkTypes, Fits, FileSteps, HiveSteps, PgSteps, Inserting
<1>4. InsertsNext(g)
  BY DEF InsertsNext
<1> HIDE DEF g
<1>5. /\ \A r : CountOf(g, r) = EffectTo(sinkOp.pos + 1, r)
      /\ sinkCfg.keyed => Unique(g)
      /\ IsFiniteSet(DOMAIN g) /\ DOMAIN g = DOMAIN sinkOp.tx.rows \cup {RowId}
      /\ Cardinality(DOMAIN g) = Cardinality(DOMAIN sinkOp.tx.rows) + 1
  BY <1>1, <1>2, <1>3, <1>4, InsertedRow
<1>6. /\ sinkOp.ins \in Nat /\ sinkOp.upd \in Nat /\ sinkOp.del \in Int /\ sinkOp.pos \in Nat
      /\ Cardinality(DOMAIN sinkOp.tx.rows) = Cardinality(DOMAIN sinkBefore.rows) + sinkOp.ins - sinkOp.del
      /\ sinkOp.ins + sinkOp.upd = sinkOp.pos
  BY <1>1, <1>2 DEF SinkTypes, TxInv, EffectInv
<1>7. Cardinality(DOMAIN sinkBefore.rows) \in Nat
  BY <1>2, <1>3, FS_CardinalityType DEF SinkTypes, IsTarget, RowsFit, IsFile
<1> DEFINE ins == sinkOp.ins + 1
           upd == sinkOp.upd
<1>8. /\ ins \in Nat /\ upd \in Nat /\ ins + upd = sinkOp.pos + 1
      /\ Cardinality(DOMAIN g) = Cardinality(DOMAIN sinkBefore.rows) + ins - sinkOp.del
  BY <1>5, <1>6, <1>7
<1>9. sinkOp' = [sinkOp EXCEPT !.pos = @ + 1, !.ins = ins, !.upd = upd, !.tx.rows = g]
  BY <1>1, <1>2 DEF SinkTypes
<1> HIDE DEF ins, upd
<1> QED BY <1>1, <1>5, <1>8, <1>9, NextRowKeeps

LEMMA UpdateNextStep == ASSUME SinkInv, UpdateNext PROVE SinkInv'
<1> DEFINE g == [i \in DOMAIN sinkOp.tx.rows |-> IF i \in Conflicts THEN NextRow ELSE sinkOp.tx.rows[i]]
<1>1. /\ Inserting /\ ~Refuses /\ Merging /\ Conflicts # {} /\ sinkOp.step = "insert"
      /\ sinkOp' = [sinkOp EXCEPT !.pos = @ + 1, !.upd = @ + 1, !.tx.rows = g]
      /\ UNCHANGED <<sinkTarget, sinkReply>> /\ SinkQuiet
  BY DEF UpdateNext, Inserting, SinkAt
<1>2. SinkTypes /\ Busy /\ TxInv
  BY <1>1 DEF SinkInv, Busy, WritesInv
<1>3. ~IsFile /\ sinkOp.pos < Len(sinkOp.load.rows) /\ sinkCfg.keyed
  BY <1>1, <1>2 DEF SinkTypes, Fits, FileSteps, HiveSteps, PgSteps, Inserting, Refuses
<1>4. /\ \A r : CountOf(g, r) = EffectTo(sinkOp.pos + 1, r)
      /\ Unique(g) /\ DOMAIN g = DOMAIN sinkOp.tx.rows
  BY <1>1, <1>2, <1>3, UpdatedRow
<1> HIDE DEF g
<1>5. IsFiniteSet(DOMAIN g)
  BY <1>2, <1>3, <1>4 DEF SinkTypes, IsTarget, RowsFit, IsFile
<1>6. /\ sinkOp.ins \in Nat /\ sinkOp.upd \in Nat /\ sinkOp.del \in Int /\ sinkOp.pos \in Nat
      /\ Cardinality(DOMAIN sinkOp.tx.rows) = Cardinality(DOMAIN sinkBefore.rows) + sinkOp.ins - sinkOp.del
      /\ sinkOp.ins + sinkOp.upd = sinkOp.pos
  BY <1>1, <1>2 DEF SinkTypes, TxInv, EffectInv
<1> DEFINE ins == sinkOp.ins
           upd == sinkOp.upd + 1
<1>7. /\ ins \in Nat /\ upd \in Nat /\ ins + upd = sinkOp.pos + 1
      /\ Cardinality(DOMAIN g) = Cardinality(DOMAIN sinkBefore.rows) + ins - sinkOp.del
  BY <1>4, <1>6
<1>8. sinkOp' = [sinkOp EXCEPT !.pos = @ + 1, !.ins = ins, !.upd = upd, !.tx.rows = g]
  BY <1>1, <1>2 DEF SinkTypes
<1> HIDE DEF ins, upd
<1> QED BY <1>1, <1>4, <1>5, <1>7, <1>8, NextRowKeeps

LEMMA RefuseRowStep == ASSUME SinkInv, RefuseRow PROVE SinkInv'
<1>1. Busy
  BY DEF RefuseRow, Inserting, SinkAt, Busy
<1> QED BY <1>1, InterruptedWrite DEF RefuseRow

-----------------------------------------------------------------------------
(* PostgreSQL, from the commit on.                                         *)
LEMMA CommittedRows ==
  ASSUME SinkInv, Committing
  PROVE  /\ Busy /\ ~IsFile /\ SinkTypes /\ IsTarget(sinkOp.tx, sinkCfg)
         /\ EffectInv(sinkOp.tx.rows, Len(sinkOp.load.rows))
         /\ sinkCfg.keyed => Unique(sinkOp.tx.rows)
         /\ \A id \in DOMAIN sinkOp.tx.rows : id[1] <= sinkWrites
         /\ \A r : CountOf(sinkOp.tx.rows, r) = Effect(sinkBefore.rows, sinkOp.load.rows, r)
<1>1. sinkOp.step = "insert" /\ sinkOp.pos = Len(sinkOp.load.rows)
  BY DEF Committing, SinkAt
<1>2. SinkTypes /\ Busy /\ TxInv
  BY <1>1 DEF SinkInv, Busy, WritesInv
<1>3. ~IsFile
  BY <1>1, <1>2 DEF SinkTypes, Fits, FileSteps, HiveSteps, PgSteps
<1>4. IsTarget(sinkOp.tx, sinkCfg) /\ sinkWrites \in Nat
  BY <1>2 DEF SinkTypes
<1>5. /\ EffectInv(sinkOp.tx.rows, Len(sinkOp.load.rows))
      /\ sinkCfg.keyed => Unique(sinkOp.tx.rows)
      /\ Older(sinkOp.tx.rows, sinkWrites, sinkOp.pos)
  BY <1>1, <1>2 DEF TxInv
<1>6. \A id \in DOMAIN sinkOp.tx.rows : id[1] <= sinkWrites
  <2> TAKE id \in DOMAIN sinkOp.tx.rows
  <2>1. id[1] \in Nat
    BY <1>3, <1>4 DEF IsTarget, RowsFit, IsFile
  <2> QED BY <1>4, <1>5, <2>1 DEF Older
<1>7. \A r : CountOf(sinkOp.tx.rows, r) = Effect(sinkBefore.rows, sinkOp.load.rows, r)
  BY <1>2, <1>5, EffectIsApplied DEF EffectInv
<1> QED BY <1>2, <1>3, <1>4, <1>5, <1>6, <1>7

LEMMA CommitRowsStep == ASSUME SinkInv, CommitRows PROVE SinkInv'
<1>1. /\ Committing /\ sinkTarget' = sinkOp.tx /\ sinkOp' = [sinkOp EXCEPT !.step = "index"]
      /\ UNCHANGED <<sinkReply, sinkCfg, sinkBefore, sinkWrites>>
  BY DEF CommitRows, SinkQuiet
<1>2. /\ Busy /\ ~IsFile /\ SinkTypes /\ IsTarget(sinkOp.tx, sinkCfg)
      /\ EffectInv(sinkOp.tx.rows, Len(sinkOp.load.rows))
      /\ sinkCfg.keyed => Unique(sinkOp.tx.rows)
      /\ \A id \in DOMAIN sinkOp.tx.rows : id[1] <= sinkWrites
  BY <1>1, CommittedRows
<1>3. Fits("index")
  BY <1>2 DEF SinkTypes, Fits, FileSteps, HiveSteps, PgSteps
<1>4. /\ sinkOp'.step = "index" /\ Busy' /\ sinkOp'.load = sinkOp.load
      /\ sinkOp'.ins = sinkOp.ins /\ sinkOp'.upd = sinkOp.upd /\ sinkOp'.del = sinkOp.del
  BY <1>1, <1>2 DEF SinkTypes, Busy
<1>5. SinkTypes'
  BY <1>1, <1>2, <1>3, <1>4 DEF SinkTypes, Fits, IsFile, PgSteps
<1>6. TableInv' /\ HeadInv'
  BY <1>1, <1>2, <1>4 DEF TableInv, HeadInv, IsFile, Unique
<1>7. TxInv'
  <2>1. \A r : EffectTo(Len(sinkOp.load.rows), r)' = EffectTo(Len(sinkOp.load.rows), r)
    BY <1>1, <1>4 DEF EffectTo, NewTo, HitTo, LastTo
  <2>2. EffectInv(sinkTarget.rows, Len(sinkOp.load.rows))'
    BY <1>1, <1>2, <1>4, <2>1 DEF EffectInv, CountOf
  <2> QED BY <1>4, <2>2 DEF TxInv
<1>8. LinesInv' /\ PartsInv'
  BY <1>4 DEF LinesInv, PartsInv, HiveSteps
<1> QED BY <1>4, <1>5, <1>6, <1>7, <1>8 DEF SinkInv, WritesInv

(* How a write ends with an answer.                                        *)
LEMMA AnsweredWrite ==
  ASSUME SinkInv, Busy, NEW ins, NEW upd, NEW del, sinkReply' = Reply("ok", ins, upd, del),
         sinkOp' = NoWrite, SinkQuiet, IsTarget(sinkTarget, sinkCfg)', (TableInv /\ HeadInv)',
         (AllOrNothing /\ AnsweredIsApplied /\ PartitionsAreWhole /\ CsvKeepsLines)'
  PROVE  SinkInv'
<1>1. /\ UNCHANGED <<sinkCfg, sinkBefore, sinkWrites>>
      /\ sinkReply' = [end |-> "ok", load |-> sinkOp.load, ins |-> ins, upd |-> upd, del |-> del]
  BY DEF Reply, SinkQuiet
<1>2. SinkTypes
  BY DEF SinkInv
<1>3. sinkOp.load \in SinkLoads \ {None}
  BY <1>2 DEF SinkTypes
<1>4. ~Busy'
  BY DEF Busy, NoWrite
<1>5. SinkTypes'
  BY <1>1, <1>2, <1>3, <1>4 DEF SinkTypes
<1>6. RefusedTouchesNothing'
  BY <1>1, <1>3 DEF RefusedTouchesNothing
<1> QED BY <1>4, <1>5, <1>6 DEF SinkInv, WritesInv, SinksKeepRows

LEMMA CreateIndexesStep == ASSUME SinkInv, CreateIndexes PROVE SinkInv'
<1>1. /\ sinkOp.step = "index" /\ sinkReply' = Reply("ok", sinkOp.ins, sinkOp.upd, sinkOp.del) /\ sinkOp' = NoWrite
      /\ sinkTarget' = sinkTarget /\ SinkQuiet
  BY DEF CreateIndexes, SinkAt
<1>2. UNCHANGED <<sinkCfg, sinkBefore, sinkWrites>>
  BY <1>1 DEF SinkQuiet
<1>3. SinkTypes /\ Busy /\ TableInv /\ HeadInv /\ TxInv
  BY <1>1 DEF SinkInv, Busy, WritesInv
<1>4. ~IsFile
  BY <1>1, <1>3 DEF SinkTypes, Fits, FileSteps, HiveSteps, PgSteps
<1>5. EffectInv(sinkTarget.rows, Len(sinkOp.load.rows)) /\ sinkOp.load \in SinkLoads \ {None}
  BY <1>1, <1>3 DEF TxInv, SinkTypes
<1>6. /\ sinkReply'.end = "ok" /\ sinkReply'.load = sinkOp.load
      /\ sinkReply'.ins = sinkOp.ins /\ sinkReply'.upd = sinkOp.upd /\ sinkReply'.del = sinkOp.del
  BY <1>1 DEF Reply
<1>7. \A r : CountOf(sinkTarget'.rows, r) = Effect(sinkBefore.rows, sinkOp.load.rows, r)
  BY <1>1, <1>3, <1>5, EffectIsApplied DEF EffectInv
<1>8. PICK load \in SinkLoads \ {None} : load = sinkOp.load
  BY <1>5
<1>9. Applied(load)'
  BY <1>8, <1>1, <1>2, <1>4, <1>7 DEF Applied, Replaces, IsFile, Effect
<1>10. AllOrNothing' /\ AnsweredIsApplied'
  <2>1. CurrentLoad' = load /\ load # None
    BY <1>8, <1>1, <1>5, <1>6 DEF CurrentLoad, NoWrite
  <2>2. AllOrNothing'
    BY <1>9, <2>1 DEF AllOrNothing
  <2>3. ~Spoils' /\ Landed(load).rows' = load.rows
    BY <1>2, <1>4 DEF Spoils, IsFile, Landed, Glue
  <2>4. Applied(Landed(load))'
    BY <1>9, <2>3 DEF Applied, AllRows
  <2> QED BY <1>8, <1>1, <1>2, <1>4, <1>5, <1>6, <2>2, <2>4 DEF AnsweredIsApplied, EffectInv, IsFile, Hive
<1>11. PartitionsAreWhole' /\ CsvKeepsLines'
  BY <1>2, <1>4 DEF PartitionsAreWhole, CsvKeepsLines, Hive, IsFile
<1>12. IsTarget(sinkTarget, sinkCfg)' /\ TableInv' /\ HeadInv'
  BY <1>1, <1>2, <1>3, <1>4 DEF SinkTypes, TableInv, HeadInv, IsFile, NoWrite, Unique
<1> QED BY <1>1, <1>3, <1>10, <1>11, <1>12, AnsweredWrite DEF SinkInv

LEMMA PgFailsStep == ASSUME SinkInv, PgFails PROVE SinkInv'
<1>1. EndWrite("failed") /\ SinkQuiet /\ Busy
  BY DEF PgFails, Busy
<1>2. CASE UNCHANGED sinkTarget
  BY <1>1, <1>2, InterruptedWrite
<1>3. CASE Committing /\ sinkTarget' = sinkOp.tx
  <2>1. /\ ~IsFile /\ SinkTypes /\ IsTarget(sinkOp.tx, sinkCfg)
        /\ sinkCfg.keyed => Unique(sinkOp.tx.rows)
        /\ \A id \in DOMAIN sinkOp.tx.rows : id[1] <= sinkWrites
        /\ \A r : CountOf(sinkOp.tx.rows, r) = Effect(sinkBefore.rows, sinkOp.load.rows, r)
    BY <1>3, CommittedRows
  <2>2. /\ sinkOp' = NoWrite /\ UNCHANGED <<sinkCfg, sinkBefore, sinkWrites>>
        /\ sinkReply'.end = "failed" /\ sinkReply'.load = sinkOp.load
    BY <1>1 DEF EndWrite, Reply, SinkQuiet
  <2>3. (TableInv /\ HeadInv)' /\ IsTarget(sinkTarget, sinkCfg)'
    BY <1>3, <2>1, <2>2 DEF TableInv, HeadInv, IsFile, NoWrite, Unique
  <2>4. AllOrNothing'
    <3>1. PICK load \in SinkLoads \ {None} : load = sinkOp.load
      BY <1>1, <2>1 DEF SinkTypes
    <3>2. CurrentLoad' = load /\ load # None
      BY <2>2, <3>1 DEF CurrentLoad, NoWrite
    <3>3. Applied(load)'
      BY <1>3, <2>1, <2>2, <3>1 DEF Applied, Replaces, IsFile, Effect
    <3> QED BY <3>2, <3>3 DEF AllOrNothing
  <2>5. PartitionsAreWhole' /\ sinkCfg.sink # "csv"
    BY <2>1, <2>2 DEF PartitionsAreWhole, Hive, IsFile
  <2> QED BY <1>1, <2>3, <2>4, <2>5, FailedWrite
<1> QED BY <1>2, <1>3 DEF PgFails

-----------------------------------------------------------------------------
(* Files.                                                                  *)
LEMMA PlannedFacts ==
  ASSUME SinkTypes, HeadInv, Busy, IsFile
  PROVE  /\ Planned \in Seq(FileRows) /\ Base \in Seq(FileRows)
         /\ \A i \in 1..Len(Planned) : Planned[i] = Heading => i = 1 /\ Base = <<>>
         /\ Extends => Base = sinkBefore.rows /\ Planned = Landing
         /\ ~Extends => Base = <<>> /\ Planned = Lines(sinkOp.load.rows)
<1>1. sinkOp.load \in SinkLoads \ {None} /\ sinkBefore.rows \in Seq(FileRows)
  BY DEF SinkTypes, IsTarget, RowsFit, IsFile
<1>2. /\ Landing \in Seq(FileRows)
      /\ \A i \in 1..Len(Landing) : Landing[i] # Heading
  BY <1>1, GlueFacts DEF Landing
<1>3. /\ Lines(sinkOp.load.rows) \in Seq(FileRows)
      /\ \A i \in 1..Len(Lines(sinkOp.load.rows)) : Lines(sinkOp.load.rows)[i] = Heading => i = 1
  BY <1>1, LinesFacts
<1>4. CASE Extends
  BY <1>1, <1>2, <1>4 DEF Planned, Base
<1>5. CASE ~Extends
  BY <1>3, <1>5 DEF Planned, Base
<1> QED BY <1>4, <1>5

LEMMA OpenFileStep == ASSUME SinkInv, OpenFile PROVE SinkInv'
<1>1. /\ sinkOp.step = "open" /\ UNCHANGED <<sinkReply, sinkCfg, sinkBefore, sinkWrites>>
      /\ sinkTarget' = [sinkTarget EXCEPT !.rows = IF Appending THEN @ ELSE <<>>, !.half = Appending /\ @,
                          !.file = IF sinkCfg.sink = "parquet" THEN "torn" ELSE "there"]
      /\ sinkOp' = [sinkOp EXCEPT !.step = "lines",
                      !.lines = IF Appending THEN Glue(sinkTarget.half, sinkOp.load.rows) ELSE Lines(sinkOp.load.rows)]
  BY DEF OpenFile, SinkAt, SinkQuiet
<1>2. SinkTypes /\ Busy /\ HeadInv /\ LinesInv
  BY <1>1 DEF SinkInv, Busy, WritesInv
<1>3. /\ IsFile /\ CheckStrategySupported(sinkCfg) /\ ~Hive /\ ~sinkCfg.cloud
      /\ sinkCfg.sink = "parquet" /\ AppendMode(sinkCfg) => sinkBefore.file = "gone"
  BY <1>1, <1>2 DEF SinkTypes, Fits, FileSteps, HiveSteps, PgSteps
<1>4. sinkTarget = sinkBefore /\ sinkOp.pos = 0
  BY <1>1, <1>2 DEF LinesInv
<1>5. Appending <=> Extends
  BY <1>4 DEF Appending, Extends
<1>6. /\ sinkOp'.step = "lines" /\ Busy' /\ sinkOp'.load = sinkOp.load /\ sinkOp'.pos = 0 /\ sinkOp'.lines = Planned
  <2>1. Extends => Glue(sinkTarget.half, sinkOp.load.rows) = Landing
    BY <1>3, <1>4 DEF Landing, Extends, Spoils, Glue
  <2> QED BY <1>1, <1>2, <1>4, <1>5, <2>1 DEF SinkTypes, Busy, Planned
<1>7. sinkTarget'.rows = Base /\ sinkTarget'.file # "gone"
  BY <1>1, <1>2, <1>4, <1>5 DEF Base, SinkTypes, IsTarget
<1>8. Planned \in Seq(FileRows) /\ Base \in Seq(FileRows) /\ HeadFirst(Base)
  <2>1. HeadFirst(sinkBefore.rows) /\ HeadFirst(<<>>)
    BY <1>2, <1>3 DEF HeadInv, HeadFirst
  <2> QED BY <1>2, <1>3, <2>1, PlannedFacts DEF Base
<1>9. Base' = Base /\ Planned' = Planned
  BY <1>1, <1>6 DEF Base, Planned, Landing, Spoils, IsFile, Extends, Lines
<1>10. SinkTypes'
  <2>1. IsTarget(sinkTarget', sinkCfg)
    BY <1>1, <1>2, <1>3, <1>7, <1>8 DEF SinkTypes, IsTarget, RowsFit, IsFile
  <2>2. Fits("lines")
    BY <1>3 DEF Fits, FileSteps
  <2> QED BY <1>1, <1>2, <1>6, <2>1, <2>2 DEF SinkTypes, Fits, IsFile, Hive
<1>11. TableInv' /\ HeadInv'
  BY <1>1, <1>2, <1>3, <1>7, <1>8 DEF TableInv, HeadInv, IsFile, HeadFirst
<1>12. LinesInv'
  <2>1. sinkCfg.sink = "parquet" => Base = <<>>
    BY <1>3 DEF Base, Extends
  <2>2. Len(Base) \in Nat /\ Len(Planned) \in Nat
    BY <1>8
  <2>3. LinesInv' <=> /\ Planned = Planned /\ 0 <= Len(Planned) /\ sinkTarget'.file # "gone"
                      /\ IF sinkCfg.sink = "parquet" THEN Base = <<>> /\ Base = <<>>
                         ELSE /\ Len(Base) = Len(Base) + 0
                              /\ \A i \in 1..Len(Base) : Base[i] = IF i <= Len(Base) THEN Base[i] ELSE Planned[i - Len(Base)]
    BY <1>1, <1>6, <1>7, <1>9 DEF LinesInv
  <2> QED BY <1>7, <2>1, <2>2, <2>3
<1>13. TxInv' /\ PartsInv'
  BY <1>6 DEF TxInv, PartsInv, HiveSteps
<1> QED BY <1>6, <1>10, <1>11, <1>12, <1>13 DEF SinkInv, WritesInv

LEMMA WriteHalfStep == ASSUME SinkInv, WriteHalf PROVE SinkInv'
<1>1. /\ sinkOp.step = "lines" /\ UNCHANGED <<sinkOp, sinkReply, sinkCfg, sinkBefore, sinkWrites>>
      /\ sinkTarget' = [sinkTarget EXCEPT !.half = TRUE]
  BY DEF WriteHalf, SinkAt, SinkQuiet
<1>2. SinkTypes /\ Busy /\ TableInv /\ HeadInv /\ LinesInv
  BY <1>1 DEF SinkInv, Busy, WritesInv
<1>3. /\ sinkTarget'.rows = sinkTarget.rows /\ sinkTarget'.file = sinkTarget.file
      /\ IsTarget(sinkTarget', sinkCfg)
  BY <1>1, <1>2 DEF SinkTypes, IsTarget
<1>4. Busy' /\ SinkTypes'
  BY <1>1, <1>2, <1>3 DEF SinkTypes, Busy, Fits, IsFile, Hive
<1>5. TableInv' /\ HeadInv'
  BY <1>1, <1>2, <1>3 DEF TableInv, HeadInv, IsFile, Unique, Older, HeadFirst
<1>6. LinesInv'
  <2>1. Base' = Base /\ Planned' = Planned
    BY <1>1 DEF Base, Planned, Landing, Spoils, IsFile, Extends, Lines
  <2> QED BY <1>1, <1>2, <1>3, <2>1 DEF LinesInv
<1>7. TxInv' /\ PartsInv'
  BY <1>1 DEF TxInv, PartsInv, HiveSteps
<1> QED BY <1>4, <1>5, <1>6, <1>7 DEF SinkInv, WritesInv

LEMMA WriteLineStep == ASSUME SinkInv, WriteLine PROVE SinkInv'
<1>1. /\ sinkOp.step = "lines" /\ sinkOp.pos < Len(sinkOp.lines) /\ UNCHANGED <<sinkReply, sinkCfg, sinkBefore, sinkWrites>>
      /\ sinkOp' = [sinkOp EXCEPT !.pos = @ + 1]
      /\ sinkTarget' = IF sinkCfg.sink = "parquet" THEN sinkTarget
                       ELSE [sinkTarget EXCEPT !.rows = Append(@, sinkOp.lines[sinkOp.pos + 1]), !.half = FALSE]
  BY DEF WriteLine, SinkAt, SinkQuiet
<1>2. SinkTypes /\ Busy /\ HeadInv /\ LinesInv
  BY <1>1 DEF SinkInv, Busy, WritesInv
<1>3. IsFile /\ Fits("lines")
  BY <1>1, <1>2 DEF SinkTypes, Fits, FileSteps, HiveSteps, PgSteps
<1>4. sinkOp.lines = Planned /\ sinkOp.pos \in Nat
  BY <1>1, <1>2 DEF LinesInv, SinkTypes
<1>5. /\ Planned \in Seq(FileRows) /\ Base \in Seq(FileRows)
      /\ \A i \in 1..Len(Planned) : Planned[i] = Heading => i = 1 /\ Base = <<>>
  BY <1>2, <1>3, PlannedFacts
<1>6. /\ sinkOp'.step = "lines" /\ Busy' /\ sinkOp'.load = sinkOp.load /\ sinkOp'.pos = sinkOp.pos + 1
      /\ sinkOp'.lines = sinkOp.lines
  BY <1>1, <1>2 DEF SinkTypes, Busy
<1>7. Base' = Base /\ Planned' = Planned
  BY <1>1, <1>6 DEF Base, Planned, Landing, Spoils, IsFile, Extends, Lines
<1>8. sinkOp.pos + 1 \in 1..Len(Planned)
  BY <1>1, <1>4, <1>5
<1>9. TxInv' /\ PartsInv'
  BY <1>6 DEF TxInv, PartsInv, HiveSteps
<1>10. CASE sinkCfg.sink = "parquet"
  <2>1. sinkTarget' = sinkTarget
    BY <1>1, <1>10
  <2>2. SinkTypes'
    BY <1>1, <1>2, <1>3, <1>4, <1>6, <2>1 DEF SinkTypes, Fits, IsFile, Hive
  <2>3. TableInv' /\ HeadInv'
    BY <1>1, <1>2, <1>3, <2>1 DEF TableInv, HeadInv, IsFile
  <2>4. LinesInv'
    BY <1>1, <1>2, <1>4, <1>6, <1>7, <1>8, <1>10, <2>1 DEF LinesInv
  <2> QED BY <1>6, <1>9, <2>2, <2>3, <2>4 DEF SinkInv, WritesInv
<1>11. CASE sinkCfg.sink # "parquet"
  <2> DEFINE line == Planned[sinkOp.pos + 1]
             rows == sinkTarget.rows
  <2>1. /\ Len(rows) = Len(Base) + sinkOp.pos
        /\ \A i \in 1..Len(rows) : rows[i] = IF i <= Len(Base) THEN Base[i] ELSE Planned[i - Len(Base)]
    BY <1>1, <1>2, <1>11 DEF LinesInv
  <2>2. rows \in Seq(FileRows) /\ line \in FileRows /\ Len(Base) \in Nat
    BY <1>2, <1>3, <1>5, <1>8 DEF SinkTypes, IsTarget, RowsFit, IsFile
  <2>3. sinkTarget' = [sinkTarget EXCEPT !.rows = Append(rows, line), !.half = FALSE] /\ sinkTarget'.rows = Append(rows, line)
    BY <1>1, <1>2, <1>4, <1>11 DEF SinkTypes, IsTarget
  <2>4. /\ sinkTarget'.rows \in Seq(FileRows) /\ Len(sinkTarget'.rows) = Len(Base) + sinkOp.pos + 1
        /\ DOMAIN sinkTarget'.rows = 1..(Len(Base) + sinkOp.pos + 1)
        /\ \A i \in 1..(Len(Base) + sinkOp.pos) : sinkTarget'.rows[i] = rows[i]
        /\ sinkTarget'.rows[Len(Base) + sinkOp.pos + 1] = line
    BY <1>4, <2>1, <2>2, <2>3
  <2>5. SinkTypes'
    <3>1. IsTarget(sinkTarget', sinkCfg)
      <4>1. RowsFit(sinkTarget'.rows, sinkCfg) /\ sinkTarget'.file = sinkTarget.file /\ sinkTarget'.parts = sinkTarget.parts
        BY <1>2, <1>3, <2>3, <2>4 DEF RowsFit, IsFile, SinkTypes, IsTarget
      <4>2. sinkTarget.file # "gone"
        BY <1>1, <1>2 DEF LinesInv
      <4> QED BY <1>2, <1>3, <2>3, <4>1, <4>2 DEF SinkTypes, IsTarget, IsFile
    <3> QED BY <1>1, <1>2, <1>3, <1>4, <1>6, <3>1 DEF SinkTypes, Fits, IsFile, Hive
  <2>6. TableInv' /\ HeadInv'
    <3>1. HeadFirst(rows) /\ HeadFirst(sinkBefore.rows)
      BY <1>2, <1>3 DEF HeadInv
    <3>2. line = Heading => Len(Base) + sinkOp.pos + 1 = 1
      BY <1>4, <1>5, <1>8
    <3>3. HeadFirst(sinkTarget'.rows)
      <4> SUFFICES ASSUME NEW i \in 1..(Len(Base) + sinkOp.pos + 1), sinkTarget'.rows[i] = Heading
                   PROVE  i = 1
        BY <2>4 DEF HeadFirst
      <4>1. CASE i \in 1..(Len(Base) + sinkOp.pos)
        <5>1. rows[i] = Heading /\ i \in DOMAIN rows
          BY <1>4, <2>1, <2>2, <2>4, <4>1
        <5> HIDE DEF rows
        <5> QED BY <3>1, <5>1 DEF HeadFirst
      <4>2. CASE i = Len(Base) + sinkOp.pos + 1
        BY <2>4, <3>2, <4>2
      <4> QED BY <1>4, <2>2, <4>1, <4>2
    <3> QED BY <1>1, <1>3, <3>1, <3>3 DEF TableInv, HeadInv, IsFile
  <2>7. LinesInv'
    <3>1. \A i \in 1..(Len(Base) + sinkOp.pos + 1) :
            sinkTarget'.rows[i] = IF i <= Len(Base) THEN Base[i] ELSE Planned[i - Len(Base)]
      <4> TAKE i \in 1..(Len(Base) + sinkOp.pos + 1)
      <4>1. CASE i \in 1..(Len(Base) + sinkOp.pos)
        BY <2>1, <2>4, <4>1
      <4>2. CASE i = Len(Base) + sinkOp.pos + 1
        <5>1. ~(i <= Len(Base)) /\ i - Len(Base) = sinkOp.pos + 1
          BY <1>4, <2>2, <4>2
        <5> QED BY <2>4, <4>2, <5>1
      <4> QED BY <1>4, <2>2, <4>1, <4>2
    <3>2. sinkOp.pos + 1 <= Len(Planned) /\ Len(sinkTarget'.rows) = Len(Base) + (sinkOp.pos + 1)
      BY <1>4, <1>8, <2>2, <2>4
    <3>3. sinkTarget'.file # "gone"
      BY <1>1, <1>2, <2>3 DEF LinesInv, SinkTypes, IsTarget
    <3>4. sinkOp'.lines = Planned' /\ sinkCfg'.sink # "parquet"
      BY <1>1, <1>4, <1>6, <1>7, <1>11
    <3>5. LinesInv' <=> /\ sinkOp.pos + 1 <= Len(Planned)
                        /\ Len(sinkTarget'.rows) = Len(Base) + (sinkOp.pos + 1)
                        /\ \A i \in 1..Len(sinkTarget'.rows) :
                             sinkTarget'.rows[i] = IF i <= Len(Base) THEN Base[i] ELSE Planned[i - Len(Base)]
      BY <1>6, <1>7, <3>3, <3>4 DEF LinesInv
    <3>6. Len(sinkTarget'.rows) = Len(Base) + sinkOp.pos + 1
      BY <2>4
    <3> QED BY <3>1, <3>2, <3>5, <3>6
  <2> QED BY <1>6, <1>9, <2>5, <2>6, <2>7 DEF SinkInv, WritesInv
<1> QED BY <1>10, <1>11

LEMMA FileFailsStep == ASSUME SinkInv, FileFails PROVE SinkInv'
<1>1. Busy
  BY DEF FileFails, Busy
<1> QED BY <1>1, InterruptedWrite DEF FileFails

(* A file that has been written has what its strategy asks for.            *)
LEMMA WrittenFile ==
  ASSUME SinkTypes, HeadInv, Busy, IsFile, ~Hive, CheckStrategySupported(sinkCfg), NEW r, r # Heading
  PROVE  CountOf(Base \o Planned, r) =
           IF Replaces THEN CountOf(Landing, r) ELSE Effect(sinkBefore.rows, Landing, r)
<1> DEFINE rows == sinkOp.load.rows
<1>1. /\ sinkOp.load \in SinkLoads \ {None} /\ sinkBefore.rows \in Seq(FileRows)
      /\ sinkBefore.file = "gone" => sinkBefore.rows = <<>>
  BY DEF SinkTypes, IsTarget, RowsFit, IsFile
<1>2. /\ Planned \in Seq(FileRows) /\ Base \in Seq(FileRows)
      /\ Extends => Base = sinkBefore.rows /\ Planned = Landing
      /\ ~Extends => Base = <<>> /\ Planned = Lines(rows)
  BY PlannedFacts
<1>3. CountOf(Base \o Planned, r) = CountOf(Base, r) + CountOf(Planned, r)
  BY <1>2, CountPrepend
<1>4. CountOf(Lines(rows), r) = CountOf(rows, r)
  BY <1>1, LinesFacts
<1>5. CountOf(<<>>, r) = 0
  <2>1. {i \in DOMAIN <<>> : <<>>[i] = r} = {}
    OBVIOUS
  <2> QED BY <2>1, FS_EmptySet DEF CountOf
<1>6. CountOf(rows, r) \in Nat
  <2>1. IsFiniteSet(DOMAIN rows)
    <3>1. DOMAIN rows = 1..Len(rows) /\ Len(rows) \in Nat
      BY <1>1, LoadFacts
    <3> QED BY <3>1, FS_Interval
  <2> QED BY <2>1, CountType
<1>7. CASE Replaces
  <2>1. ~Extends /\ Landing = rows
    BY <1>7 DEF Replaces, Extends, Landing, Spoils, Glue
  <2> QED BY <1>2, <1>3, <1>4, <1>5, <1>6, <1>7, <2>1
<1>8. CASE ~Replaces
  <2>1. AppendMode(sinkCfg) /\ sinkCfg.strategy = "append"
    BY <1>8 DEF Replaces, AppendMode, CheckStrategySupported, Hive
  <2>2. Effect(sinkBefore.rows, Landing, r) = CountOf(sinkBefore.rows, r) + CountOf(Landing, r)
    BY <2>1 DEF Effect
  <2>3. Base = sinkBefore.rows
    BY <1>1, <1>2, <2>1 DEF Extends
  <2>4. CountOf(Planned, r) = CountOf(Landing, r)
    <3>1. ~Extends => Landing = rows
      BY DEF Extends, Landing, Spoils, Glue
    <3> QED BY <1>2, <1>4, <3>1
  <2> QED BY <1>3, <1>8, <2>2, <2>3, <2>4
<1> QED BY <1>7, <1>8

LEMMA CloseFileStep == ASSUME SinkInv, CloseFile PROVE SinkInv'
<1>1. /\ sinkOp.step = "lines" /\ sinkOp.pos = Len(sinkOp.lines) /\ sinkOp' = NoWrite
      /\ sinkReply' = Reply("ok", RowsCounted, 0, 0) /\ SinkQuiet
      /\ sinkTarget' = IF sinkCfg.sink = "parquet" THEN [sinkTarget EXCEPT !.rows = sinkOp.lines, !.file = "there"]
                       ELSE sinkTarget
  BY DEF CloseFile, SinkAt
<1>2. UNCHANGED <<sinkCfg, sinkBefore, sinkWrites>> /\ sinkReply'.end = "ok" /\ sinkReply'.load = sinkOp.load
  BY <1>1 DEF SinkQuiet, Reply
<1>3. SinkTypes /\ Busy /\ HeadInv /\ LinesInv /\ SinksKeepRows
  BY <1>1, WritingKeeps DEF SinkInv, Busy, WritesInv
<1>4. IsFile /\ CheckStrategySupported(sinkCfg) /\ ~Hive /\ ~sinkCfg.cloud
  BY <1>1, <1>3 DEF SinkTypes, Fits, FileSteps, HiveSteps, PgSteps
<1>5. /\ Planned \in Seq(FileRows) /\ Base \in Seq(FileRows)
      /\ \A i \in 1..Len(Planned) : Planned[i] = Heading => i = 1 /\ Base = <<>>
      /\ Extends => Base = sinkBefore.rows /\ Planned = Landing
      /\ ~Extends => Base = <<>> /\ Planned = Lines(sinkOp.load.rows)
  BY <1>3, <1>4, PlannedFacts
<1>6. sinkOp.lines = Planned /\ sinkOp.pos = Len(Planned) /\ sinkTarget.file # "gone"
  BY <1>1, <1>3 DEF LinesInv
<1>7. PICK load \in SinkLoads \ {None} : load = sinkOp.load
  BY <1>3 DEF SinkTypes
<1>8. /\ sinkTarget'.rows = Base \o Planned /\ sinkTarget'.rows \in Seq(FileRows)
      /\ sinkCfg.sink # "parquet" => sinkTarget' = sinkTarget
  <2>1. CASE sinkCfg.sink = "parquet"
    <3>1. Base = <<>> /\ sinkTarget'.rows = Planned
      BY <1>1, <1>3, <1>6, <2>1 DEF LinesInv, SinkTypes, IsTarget
    <3>2. <<>> \o Planned = Planned
      BY <1>5
    <3> QED BY <1>5, <2>1, <3>1, <3>2
  <2>2. CASE sinkCfg.sink # "parquet"
    <3>1. sinkTarget' = sinkTarget /\ sinkTarget.rows \in Seq(FileRows)
      BY <1>1, <1>3, <1>4, <2>2 DEF SinkTypes, IsTarget, RowsFit, IsFile
    <3>2. /\ Len(sinkTarget.rows) = Len(Base) + Len(Planned)
          /\ \A i \in 1..Len(sinkTarget.rows) :
               sinkTarget.rows[i] = IF i <= Len(Base) THEN Base[i] ELSE Planned[i - Len(Base)]
      BY <1>1, <1>3, <1>6, <2>2 DEF LinesInv
    <3>3. sinkTarget.rows = Base \o Planned
      <4> DEFINE new == Base \o Planned
                 old == sinkTarget.rows
      <4>1. /\ new \in Seq(FileRows) /\ Len(new) = Len(Base) + Len(Planned)
            /\ \A i \in 1..(Len(Base) + Len(Planned)) : new[i] = IF i <= Len(Base) THEN Base[i] ELSE Planned[i - Len(Base)]
        BY <1>5
      <4>2. old \in Seq(FileRows) /\ Len(old) = Len(new) /\ \A i \in 1..Len(old) : old[i] = new[i]
        BY <3>1, <3>2, <4>1
      <4> HIDE DEF old, new
      <4>3. old = new
        BY <4>1, <4>2
      <4> QED BY <4>3 DEF old, new
    <3> QED BY <3>1, <3>3
  <2> QED BY <2>1, <2>2
<1>9. IsTarget(sinkTarget', sinkCfg)
  <2>1. RowsFit(sinkTarget'.rows, sinkCfg)
    BY <1>4, <1>8 DEF RowsFit, IsFile
  <2> QED BY <1>1, <1>3, <1>4, <1>6, <2>1 DEF SinkTypes, IsTarget
<1>10. HeadFirst(sinkTarget'.rows)
  <2>1. CASE sinkCfg.sink = "parquet"
    <3>1. Base = <<>> /\ sinkTarget'.rows = Planned
      BY <1>1, <1>3, <1>6, <2>1 DEF LinesInv, SinkTypes, IsTarget
    <3> QED BY <1>5, <3>1 DEF HeadFirst
  <2>2. CASE sinkCfg.sink # "parquet"
    BY <1>3, <1>4, <1>8, <2>2 DEF HeadInv
  <2> QED BY <2>1, <2>2
<1>11. TableInv' /\ HeadInv'
  BY <1>2, <1>3, <1>4, <1>10 DEF TableInv, HeadInv, IsFile, HeadFirst
<1>12. Applied(Landed(load))'
  <2>1. PICK rows : rows = Landed(load).rows
    OBVIOUS
  <2>2. Landing = rows
    BY <1>7, <2>1, GlueFacts DEF Landing
  <2>3. \A r : r # Heading => CountOf(Base \o Planned, r) =
                 IF Replaces THEN CountOf(rows, r) ELSE Effect(sinkBefore.rows, rows, r)
    BY <1>3, <1>4, <2>2, WrittenFile
  <2>4. /\ Replaces' = Replaces /\ \A r : Effect(sinkBefore.rows, rows, r)' = Effect(sinkBefore.rows, rows, r)
        /\ Landed(load)'.rows = rows
    BY <1>2, <2>1 DEF Replaces, IsFile, Effect, Landed, Spoils
  <2>5. \A r : r # Heading => CountOf(sinkTarget'.rows, r) =
                 IF Replaces' THEN CountOf(rows, r) ELSE Effect(sinkBefore.rows, rows, r)'
    BY <1>8, <2>3, <2>4
  <2> QED BY <2>4, <2>5 DEF Applied
<1>13. AnsweredIsApplied' /\ AllOrNothing' /\ PartitionsAreWhole'
  <2>1. ~Hive' /\ IsFile' /\ ~sinkCfg'.cloud
    BY <1>2, <1>4 DEF Hive, IsFile
  <2> QED BY <1>2, <1>7, <1>12, <2>1 DEF AnsweredIsApplied, AllOrNothing, PartitionsAreWhole
<1>14. CsvKeepsLines'
  <2> SUFFICES ASSUME sinkCfg.sink = "csv" PROVE CsvKeepsLines'
    BY <1>2 DEF CsvKeepsLines
  <2>1. sinkTarget' = sinkTarget /\ sinkReply.end = "none"
    BY <1>3, <1>8 DEF SinkTypes
  <2>2. AppendMode(sinkCfg) => IsPrefix(sinkBefore.rows, sinkTarget'.rows)
    BY <1>3, <2>1 DEF SinksKeepRows, CsvKeepsLines
  <2>3. ASSUME sinkBefore.file = "gone" \/ Heading \in ToSet(sinkBefore.rows)
        PROVE  {i \in 1..Len(sinkTarget'.rows) : sinkTarget'.rows[i] = Heading} = {1}
    <3> DEFINE rows == sinkTarget'.rows
    <3>1. Len(rows) > 0 /\ rows[1] = Heading
      <4>1. CASE Extends
        <5>1. PICK i \in DOMAIN sinkBefore.rows : sinkBefore.rows[i] = Heading
          BY <2>3, <4>1 DEF Extends, ToSet
        <5>2. sinkBefore.rows \in Seq(FileRows)
          BY <1>3, <1>4 DEF SinkTypes, IsTarget, RowsFit, IsFile
        <5>3. i = 1 /\ Len(Base) > 0 /\ Base[1] = Heading
          BY <1>3, <1>4, <1>5, <4>1, <5>1, <5>2 DEF HeadInv, HeadFirst
        <5> QED BY <1>5, <1>8, <5>3
      <4>2. CASE ~Extends
        <5>1. Base = <<>> /\ Len(Planned) > 0 /\ Planned[1] = Heading
          BY <1>5, <1>7, <4>2, LinesFacts
        <5> QED BY <1>5, <1>8, <5>1
      <4> QED BY <4>1, <4>2
    <3>2. DOMAIN rows = 1..Len(rows) /\ Len(rows) \in Nat
      BY <1>8
    <3>3. \A i \in 1..Len(rows) : rows[i] = Heading => i = 1
      BY <1>10, <3>2 DEF HeadFirst
    <3> HIDE DEF rows
    <3> QED BY <3>1, <3>2, <3>3 DEF rows
  <2> QED BY <1>2, <2>2, <2>3 DEF CsvKeepsLines
<1> QED BY <1>1, <1>2, <1>3, <1>9, <1>11, <1>13, <1>14, AnsweredWrite DEF SinkInv

LEMMA PutObjectStep == ASSUME SinkInv, PutObject PROVE SinkInv'
<1>1. sinkOp.step = "put" /\ SinkQuiet /\ Busy
  BY DEF PutObject, SinkAt, Busy
<1>2. CASE UNCHANGED sinkTarget /\ EndWrite("failed")
  BY <1>1, <1>2, InterruptedWrite
<1>3. CASE /\ sinkTarget' = [sinkTarget EXCEPT !.rows = Lines(sinkOp.load.rows), !.file = "there"]
           /\ sinkReply' = Reply("ok", RowsCounted, 0, 0) /\ sinkOp' = NoWrite
  <2>1. UNCHANGED <<sinkCfg, sinkBefore, sinkWrites>> /\ sinkReply'.end = "ok" /\ sinkReply'.load = sinkOp.load
    BY <1>1, <1>3 DEF SinkQuiet, Reply
  <2>2. SinkTypes /\ HeadInv
    BY DEF SinkInv
  <2>3. IsFile /\ ~Hive /\ ~AppendMode(sinkCfg)
    BY <1>1, <2>2 DEF SinkTypes, Fits, FileSteps, HiveSteps, PgSteps
  <2>4. PICK load \in SinkLoads \ {None} : load = sinkOp.load
    BY <1>1, <2>2 DEF SinkTypes
  <2>5. sinkTarget'.rows = Lines(load.rows) /\ sinkTarget'.file = "there"
    BY <1>3, <2>2, <2>4 DEF SinkTypes, IsTarget
  <2>6. /\ Lines(load.rows) \in Seq(FileRows)
        /\ \A i \in 1..Len(Lines(load.rows)) : Lines(load.rows)[i] = Heading => i = 1
        /\ sinkCfg.sink = "csv" => Len(Lines(load.rows)) > 0 /\ Lines(load.rows)[1] = Heading
        /\ \A r : r # Heading => CountOf(Lines(load.rows), r) = CountOf(load.rows, r)
    BY LinesFacts
  <2>7. PICK rows : rows = Lines(load.rows)
    OBVIOUS
  <2>8. IsTarget(sinkTarget', sinkCfg)
    BY <1>3, <2>2, <2>3, <2>5, <2>6, <2>4 DEF SinkTypes, IsTarget, RowsFit, IsFile
  <2>9. TableInv' /\ HeadInv'
    BY <2>1, <2>2, <2>3, <2>5, <2>6 DEF TableInv, HeadInv, IsFile, HeadFirst
  <2>10. Applied(load)'
    BY <2>1, <2>3, <2>5, <2>6 DEF Applied, Replaces, IsFile
  <2>11. AnsweredIsApplied' /\ AllOrNothing' /\ PartitionsAreWhole'
    <3>1. ~Hive' /\ IsFile'
      BY <2>1, <2>3 DEF Hive, IsFile
    <3>2. CurrentLoad' = load
      BY <1>3, <2>1, <2>4 DEF CurrentLoad, NoWrite
    <3>3. Landed(load)'.rows = load.rows
      BY <2>1, <2>3 DEF Landed, Spoils, Glue
    <3>4. Applied(Landed(load))'
      BY <2>10, <3>3 DEF Applied, AllRows
    <3> QED BY <2>1, <2>4, <2>10, <3>1, <3>2, <3>4 DEF AnsweredIsApplied, AllOrNothing, PartitionsAreWhole
  <2>12. CsvKeepsLines'
    <3>1. sinkCfg.sink = "csv" => {i \in 1..Len(rows) : rows[i] = Heading} = {1}
      BY <2>6, <2>7
    <3> QED BY <2>1, <2>3, <2>5, <2>7, <3>1 DEF CsvKeepsLines, AppendMode
  <2> QED BY <1>1, <1>3, <2>1, <2>8, <2>9, <2>11, <2>12, AnsweredWrite
<1> QED BY <1>2, <1>3 DEF PutObject

-----------------------------------------------------------------------------
(* Partitions.                                                             *)
LEMMA PartitionFacts ==
  ASSUME SinkInv, sinkOp.step \in HiveSteps
  PROVE  /\ SinkTypes /\ Busy /\ TableInv /\ HeadInv /\ PartsInv /\ IsFile /\ Hive /\ CheckStrategySupported(sinkCfg)
         /\ sinkCfg.sink = "parquet"
         /\ sinkOp.load \in SinkLoads \ {None} /\ KeysIn(sinkOp.load.rows) \subseteq SinkKeys
         /\ sinkOp.todo # {} => Partition \in sinkOp.todo /\ Partition \in SinkKeys
<1>1. SinkTypes /\ Busy /\ TableInv /\ HeadInv /\ PartsInv
  BY DEF SinkInv, Busy, WritesInv, HiveSteps
<1>2. IsFile /\ Hive /\ CheckStrategySupported(sinkCfg) /\ sinkOp.load \in SinkLoads \ {None}
  BY <1>1 DEF SinkTypes, Fits, FileSteps, HiveSteps, PgSteps
<1>3. KeysIn(sinkOp.load.rows) \subseteq SinkKeys
  BY <1>2, LoadFacts
<1>4. sinkOp.todo # {} => Partition \in sinkOp.todo
  BY DEF Partition
<1>5. sinkOp.todo \subseteq KeysIn(sinkOp.load.rows)
  BY <1>1 DEF PartsInv
<1>6. sinkCfg.sink = "parquet"
  BY <1>2 DEF Hive, CheckStrategySupported
<1> QED BY <1>1, <1>2, <1>3, <1>4, <1>5, <1>6

(* A step from one partition to the next, or within one.                   *)
PartsAt(parts, step, todo) ==
  /\ parts = [p \in SinkKeys |-> parts[p]]
  /\ todo \subseteq sinkOp.todo /\ (step # "stage" => todo # {})
  /\ \A p \in SinkKeys :
       parts[p] = IF p \in KeysIn(sinkOp.load.rows) \ todo THEN PartitionRows(sinkOp.load.rows, p)
                  ELSE IF step = "swap" /\ p = (CHOOSE q \in todo : TRUE) THEN Gone ELSE sinkBefore.parts[p]
PartsBecome(parts, stale, step, todo) ==
  /\ sinkTarget' = [sinkTarget EXCEPT !.parts = parts, !.stale = stale]
  /\ sinkOp' = [sinkOp EXCEPT !.step = step, !.todo = todo]
  /\ UNCHANGED sinkReply /\ SinkQuiet

LEMMA PartitionStep ==
  ASSUME SinkInv, sinkOp.step \in HiveSteps, NEW step \in HiveSteps, NEW todo, NEW parts, NEW stale,
         PartsAt(parts, step, todo), PartsBecome(parts, stale, step, todo)
  PROVE  SinkInv'
<1>1. /\ SinkTypes /\ TableInv /\ HeadInv /\ PartsInv /\ IsFile /\ Hive /\ CheckStrategySupported(sinkCfg) /\ Busy
      /\ UNCHANGED <<sinkReply, sinkCfg, sinkBefore, sinkWrites>>
  BY PartitionFacts DEF SinkQuiet, PartsBecome
<1>2. /\ sinkOp'.step = step /\ sinkOp'.load = sinkOp.load /\ sinkOp'.todo = todo /\ Busy'
  BY <1>1 DEF SinkTypes, Busy, HiveSteps, PartsBecome
<1>3. sinkTarget'.parts = parts /\ sinkTarget'.rows = sinkTarget.rows /\ IsTarget(sinkTarget', sinkCfg)
  BY <1>1 DEF SinkTypes, IsTarget, PartsBecome, PartsAt
<1>4. SinkTypes'
  <2>1. Fits(step)
    BY <1>1 DEF Fits
  <2>2. Fits(sinkOp.step)'
    BY <1>1, <1>2, <2>1 DEF Fits, IsFile, Hive
  <2>3. sinkOp' = [sinkOp EXCEPT !.step = step, !.todo = todo]
    BY DEF PartsBecome
  <2> QED BY <1>1, <1>2, <1>3, <2>2, <2>3 DEF SinkTypes
<1>5. TableInv' /\ HeadInv'
  BY <1>1, <1>3 DEF TableInv, HeadInv, IsFile
<1>6. TxInv' /\ LinesInv'
  BY <1>2 DEF TxInv, LinesInv, HiveSteps
<1>7. PartsInv'
  <2>1. todo \subseteq KeysIn(sinkOp.load.rows)
    BY <1>1 DEF PartsInv, PartsAt
  <2>2. Partition' = CHOOSE q \in todo : TRUE
    BY <1>2 DEF Partition
  <2> QED BY <1>1, <1>2, <1>3, <2>1, <2>2 DEF PartsInv, PartsAt
<1> QED BY <1>2, <1>4, <1>5, <1>6, <1>7 DEF SinkInv, WritesInv

LEMMA StagePartitionStep == ASSUME SinkInv, StagePartition PROVE SinkInv'
<1> DEFINE stale == sinkTarget.stale \cup {Partition}
<1>1. /\ sinkOp.step = "stage" /\ sinkOp.todo # {} /\ sinkTarget' = [sinkTarget EXCEPT !.stale = stale]
      /\ sinkOp' = [sinkOp EXCEPT !.step = "remove"] /\ UNCHANGED sinkReply /\ SinkQuiet
  BY DEF StagePartition, SinkAt
<1>2. sinkOp.step \in HiveSteps /\ "remove" \in HiveSteps
  BY <1>1 DEF HiveSteps
<1>3. SinkTypes /\ Busy /\ PartsInv
  BY <1>2, PartitionFacts
<1> HIDE DEF stale
<1>4. /\ sinkTarget' = [sinkTarget EXCEPT !.parts = sinkTarget.parts, !.stale = stale]
      /\ sinkTarget.parts = [p \in SinkKeys |-> sinkTarget.parts[p]]
      /\ sinkOp' = [sinkOp EXCEPT !.step = "remove", !.todo = sinkOp.todo]
  BY <1>1, <1>3 DEF SinkTypes, IsTarget
<1>5. \A p \in SinkKeys : sinkTarget.parts[p] =
           IF p \in KeysIn(sinkOp.load.rows) \ sinkOp.todo THEN PartitionRows(sinkOp.load.rows, p)
           ELSE sinkBefore.parts[p]
  BY <1>1, <1>2, <1>3 DEF PartsInv
<1>6. PartsAt(sinkTarget.parts, "remove", sinkOp.todo) /\ PartsBecome(sinkTarget.parts, stale, "remove", sinkOp.todo)
  BY <1>1, <1>4, <1>5 DEF PartsAt, PartsBecome
<1> QED BY <1>2, <1>6, PartitionStep

LEMMA RemovePartitionStep == ASSUME SinkInv, RemovePartition PROVE SinkInv'
<1> DEFINE parts == [sinkTarget.parts EXCEPT ![Partition] = Gone]
<1>1. /\ sinkOp.step = "remove" \/ (sinkOp.step = "stage" /\ sinkOp.todo # {})
      /\ sinkTarget' = [sinkTarget EXCEPT !.parts = parts]
      /\ sinkOp' = [sinkOp EXCEPT !.step = "swap"] /\ UNCHANGED sinkReply /\ SinkQuiet
  BY DEF RemovePartition, SinkAt
<1>2. sinkOp.step \in HiveSteps /\ "swap" \in HiveSteps
  BY <1>1 DEF HiveSteps
<1>3. SinkTypes /\ Busy /\ PartsInv
  BY <1>2, PartitionFacts
<1>4. sinkOp.todo # {} /\ Partition \in sinkOp.todo /\ Partition \in SinkKeys
  BY <1>1, <1>2, <1>3, PartitionFacts DEF PartsInv
<1>5. sinkTarget.parts = [p \in SinkKeys |-> sinkTarget.parts[p]]
  BY <1>3 DEF SinkTypes, IsTarget
<1>6. /\ parts = [p \in SinkKeys |-> parts[p]]
      /\ \A p \in SinkKeys : parts[p] = IF p = Partition THEN Gone ELSE sinkTarget.parts[p]
  BY <1>4, <1>5
<1> HIDE DEF parts
<1>7. /\ sinkTarget' = [sinkTarget EXCEPT !.parts = parts, !.stale = sinkTarget.stale]
      /\ sinkOp' = [sinkOp EXCEPT !.step = "swap", !.todo = sinkOp.todo]
  BY <1>1, <1>3 DEF SinkTypes, IsTarget
<1>8. \A p \in SinkKeys : parts[p] =
           IF p \in KeysIn(sinkOp.load.rows) \ sinkOp.todo THEN PartitionRows(sinkOp.load.rows, p)
           ELSE IF p = (CHOOSE q \in sinkOp.todo : TRUE) THEN Gone ELSE sinkBefore.parts[p]
  BY <1>1, <1>2, <1>3, <1>4, <1>6 DEF PartsInv, Partition
<1>9. PartsAt(parts, "swap", sinkOp.todo) /\ PartsBecome(parts, sinkTarget.stale, "swap", sinkOp.todo)
  BY <1>1, <1>4, <1>6, <1>7, <1>8 DEF PartsAt, PartsBecome
<1> QED BY <1>2, <1>9, PartitionStep

LEMMA SwapPartitionStep == ASSUME SinkInv, SwapPartition PROVE SinkInv'
<1> DEFINE parts == [sinkTarget.parts EXCEPT ![Partition] = PartitionRows(sinkOp.load.rows, Partition)]
           stale == sinkTarget.stale \ {Partition}
           todo == sinkOp.todo \ {Partition}
<1>1. /\ sinkOp.step = "swap" /\ sinkTarget' = [sinkTarget EXCEPT !.parts = parts, !.stale = stale]
      /\ sinkOp' = [sinkOp EXCEPT !.step = "stage", !.todo = todo] /\ UNCHANGED sinkReply /\ SinkQuiet
  BY DEF SwapPartition, SinkAt
<1>2. sinkOp.step \in HiveSteps /\ "stage" \in HiveSteps
  BY <1>1 DEF HiveSteps
<1>3. SinkTypes /\ Busy /\ PartsInv
  BY <1>2, PartitionFacts
<1>4. sinkOp.todo # {} /\ Partition \in sinkOp.todo /\ Partition \in SinkKeys /\ Partition \in KeysIn(sinkOp.load.rows)
  BY <1>1, <1>2, <1>3, PartitionFacts DEF PartsInv
<1>5. sinkTarget.parts = [p \in SinkKeys |-> sinkTarget.parts[p]]
  BY <1>3 DEF SinkTypes, IsTarget
<1>6. /\ parts = [p \in SinkKeys |-> parts[p]]
      /\ \A p \in SinkKeys : parts[p] =
           IF p = Partition THEN PartitionRows(sinkOp.load.rows, p) ELSE sinkTarget.parts[p]
  BY <1>4, <1>5
<1>7. \A p \in SinkKeys : parts[p] =
           IF p \in KeysIn(sinkOp.load.rows) \ todo THEN PartitionRows(sinkOp.load.rows, p)
           ELSE sinkBefore.parts[p]
  BY <1>1, <1>2, <1>3, <1>4, <1>6 DEF PartsInv
<1>8. todo \in SUBSET sinkOp.todo
  OBVIOUS
<1> HIDE DEF parts, stale, todo
<1>9. PartsAt(parts, "stage", todo) /\ PartsBecome(parts, stale, "stage", todo)
  BY <1>1, <1>6, <1>7, <1>8 DEF PartsAt, PartsBecome
<1> QED BY <1>2, <1>9, PartitionStep

LEMMA HiveDoneStep == ASSUME SinkInv, HiveDone PROVE SinkInv'
<1>1. /\ sinkOp.step = "stage" /\ sinkOp.todo = {} /\ sinkTarget' = sinkTarget /\ sinkOp' = NoWrite
      /\ sinkReply' = Reply("ok", Len(sinkOp.load.rows), 0, 0) /\ SinkQuiet
  BY DEF HiveDone, SinkAt
<1>2. UNCHANGED <<sinkCfg, sinkBefore, sinkWrites>> /\ sinkReply'.end = "ok" /\ sinkReply'.load = sinkOp.load
  BY <1>1 DEF SinkQuiet, Reply
<1>3. sinkOp.step \in HiveSteps
  BY <1>1 DEF HiveSteps
<1>4. /\ SinkTypes /\ Busy /\ TableInv /\ HeadInv /\ PartsInv /\ IsFile /\ Hive /\ sinkCfg.sink = "parquet"
      /\ sinkOp.load \in SinkLoads \ {None}
  BY <1>3, PartitionFacts
<1>5. \A p \in SinkKeys : sinkTarget.parts[p] =
        IF p \in KeysIn(sinkOp.load.rows) THEN PartitionRows(sinkOp.load.rows, p) ELSE sinkBefore.parts[p]
  BY <1>1, <1>3, <1>4 DEF PartsInv
<1>6. Hive' /\ IsFile' /\ sinkCfg'.sink = "parquet"
  BY <1>2, <1>4 DEF Hive, IsFile
<1>7. AnsweredIsApplied' /\ PartitionsAreWhole'
  <2>1. CurrentLoad' = sinkOp.load
    BY <1>1, <1>2 DEF CurrentLoad, NoWrite
  <2> QED BY <1>1, <1>2, <1>5, <1>6, <2>1 DEF AnsweredIsApplied, PartitionsAreWhole
<1>8. AllOrNothing' /\ CsvKeepsLines'
  BY <1>6 DEF AllOrNothing, CsvKeepsLines
<1>9. IsTarget(sinkTarget, sinkCfg)' /\ TableInv' /\ HeadInv'
  BY <1>1, <1>2, <1>4, <1>6 DEF SinkTypes, TableInv, HeadInv, IsFile
<1> QED BY <1>1, <1>4, <1>7, <1>8, <1>9, AnsweredWrite

LEMMA HiveFailsStep == ASSUME SinkInv, HiveFails PROVE SinkInv'
<1>1. sinkOp.step \in HiveSteps /\ Busy /\ EndWrite("failed") /\ SinkQuiet
  BY DEF HiveFails, HiveSteps, Busy
<1>2. CASE UNCHANGED sinkTarget
  BY <1>1, <1>2, InterruptedWrite
<1>3. CASE sinkTarget' = [sinkTarget EXCEPT !.stale = @ \ {Partition}]
  <2>1. UNCHANGED <<sinkCfg, sinkBefore, sinkWrites>> /\ sinkOp' = NoWrite /\ sinkReply'.load = sinkOp.load
    BY <1>1 DEF SinkQuiet, EndWrite, Reply
  <2>2. SinkTypes /\ TableInv /\ HeadInv /\ IsFile /\ Hive /\ sinkCfg.sink = "parquet"
        /\ PartitionsAreWhole /\ sinkOp.load \in SinkLoads \ {None}
    BY <1>1, PartitionFacts, WritingKeeps DEF SinksKeepRows
  <2>3. /\ sinkTarget'.rows = sinkTarget.rows /\ sinkTarget'.parts = sinkTarget.parts
        /\ IsTarget(sinkTarget', sinkCfg)
    BY <1>3, <2>2 DEF SinkTypes, IsTarget
  <2>4. TableInv' /\ HeadInv' /\ AllOrNothing' /\ IsTarget(sinkTarget, sinkCfg)'
    BY <2>1, <2>2, <2>3 DEF TableInv, HeadInv, AllOrNothing, IsFile, Hive
  <2>5. PartitionsAreWhole'
    <3>1. CurrentLoad = sinkOp.load /\ CurrentLoad' = sinkOp.load
      BY <1>1, <2>1 DEF CurrentLoad, NoWrite, Busy
    <3> QED BY <1>1, <2>1, <2>2, <2>3, <3>1 DEF PartitionsAreWhole, Hive, IsFile, Busy
  <2> QED BY <1>1, <2>2, <2>4, <2>5, FailedWrite
<1> QED BY <1>2, <1>3 DEF HiveFails

LEMMA SinkCrashStep == ASSUME SinkInv, SinkCrash PROVE SinkInv'
<1>1. Busy
  BY DEF SinkCrash, Busy
<1> QED BY <1>1, InterruptedWrite DEF SinkCrash

-----------------------------------------------------------------------------
(* How a write begins.                                                     *)
AnsweredAtOnce(load, end) ==
  /\ end \in {"ok", "refused"}
  /\ end = "ok" => load = None \/ (Hive /\ CheckStrategySupported(sinkCfg) /\ load.rows = <<>>)
  /\ end = "refused" /\ ValidateConfig(sinkCfg) => HasNull(load.rows) \/ sinkTarget.file # "gone"
Begins(load, step) ==
  /\ load # None
  /\ \/ step = "connect" /\ ~IsFile /\ PgWriteFromPolicy(sinkCfg)
     \/ IsFile /\ CheckStrategySupported(sinkCfg) /\
          \/ step = "stage" /\ Hive
          \/ step = "put" /\ ~Hive /\ sinkCfg.cloud /\ ~AppendMode(sinkCfg)
          \/ step = "open" /\ ~Hive /\ ~sinkCfg.cloud
               /\ (sinkCfg.sink = "parquet" /\ AppendMode(sinkCfg) => sinkTarget.file = "gone")

LEMMA StartedWrite ==
  ASSUME NEW load \in SinkLoads, IF IsFile THEN FileWrite(load) ELSE PgWrite(load)
  PROVE  \/ \E end : AnsweredAtOnce(load, end) /\ Answer(load, end)
         \/ \E step : Begins(load, step) /\ Proceed(load, step)
<1>1. CASE ~IsFile
  BY <1>1 DEF PgWrite, AnsweredAtOnce, Begins, ValidateConfig, IsFile
<1>2. CASE IsFile /\ ~CheckStrategySupported(sinkCfg)
  BY <1>2 DEF FileWrite, AnsweredAtOnce, ValidateConfig, IsFile
<1>3. CASE IsFile /\ CheckStrategySupported(sinkCfg) /\ Hive
  BY <1>3 DEF FileWrite, HiveWrite, AnsweredAtOnce, Begins
<1>4. CASE IsFile /\ CheckStrategySupported(sinkCfg) /\ ~Hive
  <2>1. CASE load = None
    BY <1>4, <2>1 DEF FileWrite, AnsweredAtOnce
  <2>2. CASE load # None /\ sinkCfg.cloud
    <3>1. CASE AppendMode(sinkCfg)
      <4>1. ~ValidateConfig(sinkCfg)
        BY <1>4, <2>2, <3>1 DEF ValidateConfig, AppendMode, IsFile
      <4> QED BY <1>4, <2>2, <3>1, <4>1 DEF FileWrite, CloudWrite, AnsweredAtOnce
    <3>2. CASE ~AppendMode(sinkCfg)
      BY <1>4, <2>2, <3>2 DEF FileWrite, CloudWrite, Begins
    <3> QED BY <3>1, <3>2
  <2>3. CASE load # None /\ ~sinkCfg.cloud
    BY <1>4, <2>3 DEF FileWrite, LocalWrite, AnsweredAtOnce, Begins
  <2> QED BY <2>1, <2>2, <2>3
<1> QED BY <1>1, <1>2, <1>3, <1>4

LEMMA StartWriteStep == ASSUME SinkInv, StartWrite PROVE SinkInv'
<1>1. /\ sinkOp.step = "idle" /\ sinkWrites' = sinkWrites + 1 /\ sinkBefore' = sinkTarget
      /\ UNCHANGED <<sinkCfg, sinkTarget>>
  BY DEF StartWrite
<1>2. PICK load \in SinkLoads : IF IsFile THEN FileWrite(load) ELSE PgWrite(load)
  BY DEF StartWrite
<1>3. SinkTypes /\ TableInv /\ HeadInv /\ ~Busy /\ sinkOp = NoWrite /\ sinkWrites \in Nat
  BY <1>1 DEF SinkInv, SinkTypes, Busy
<1>4. HeadInv' /\ IsTarget(sinkTarget, sinkCfg)' /\ IsTarget(sinkBefore, sinkCfg)'
  BY <1>1, <1>3 DEF HeadInv, IsFile, SinkTypes, HeadFirst
<1>5. TableInv'
  <2> SUFFICES ASSUME ~IsFile
               PROVE  /\ sinkCfg.keyed => Unique(sinkTarget.rows)
                      /\ \A id \in DOMAIN sinkTarget.rows : id[1] <= sinkWrites + 1
                      /\ Older(sinkTarget.rows, sinkWrites + 1, 0)
    BY <1>1 DEF TableInv, IsFile, Unique, Older
  <2>1. \A id \in DOMAIN sinkTarget.rows : id[1] \in Nat /\ id[1] <= sinkWrites
    BY <1>3 DEF TableInv, SinkTypes, IsTarget, RowsFit, IsFile
  <2>2. \A id \in DOMAIN sinkTarget.rows : id[1] <= sinkWrites + 1 /\ id[1] < sinkWrites + 1
    BY <1>3, <2>1
  <2> QED BY <1>3, <2>2 DEF TableInv, Older
<1>6. ASSUME NEW end, AnsweredAtOnce(load, end), Answer(load, end)
      PROVE  SinkInv'
  <2>1. /\ sinkReply' = [end |-> end, load |-> load, ins |-> 0, upd |-> 0, del |-> 0]
        /\ sinkOp' = NoWrite /\ ~Busy' /\ end \in {"ok", "refused"}
    BY <1>3, <1>6 DEF Answer, AnsweredAtOnce, Busy, NoWrite
  <2>2. SinkTypes'
    BY <1>1, <1>3, <1>4, <2>1 DEF SinkTypes
  <2>3. AllOrNothing'
    BY <1>1 DEF AllOrNothing, SameRows
  <2>4. PartitionsAreWhole'
    BY <1>1 DEF PartitionsAreWhole
  <2>5. RefusedTouchesNothing'
    BY <1>1, <1>6, <2>1 DEF RefusedTouchesNothing, AnsweredAtOnce, ValidateConfig
  <2>6. AnsweredIsApplied'
    <3> SUFFICES ASSUME end = "ok", load # None PROVE AnsweredIsApplied'
      BY <2>1 DEF AnsweredIsApplied
    <3>1. Hive /\ IsFile /\ load.rows = <<>>
      BY <1>6 DEF AnsweredAtOnce, Hive
    <3>2. KeysIn(load.rows) = {}
      BY <3>1 DEF KeysIn
    <3> QED BY <1>1, <2>1, <3>1, <3>2 DEF AnsweredIsApplied, Hive, IsFile
  <2>7. CsvKeepsLines'
    <3> SUFFICES ASSUME sinkCfg.sink = "csv", end = "ok" PROVE CsvKeepsLines'
      BY <1>1, <2>1 DEF CsvKeepsLines
    <3>1. load = None
      BY <1>6 DEF AnsweredAtOnce, CheckStrategySupported, Hive
    <3>2. sinkTarget.rows \in Seq(FileRows)
      BY <1>3 DEF SinkTypes, IsTarget, RowsFit
    <3>3. IsPrefix(sinkTarget.rows, sinkTarget.rows)
      BY <3>2 DEF IsPrefix
    <3> QED BY <1>1, <2>1, <3>1, <3>3 DEF CsvKeepsLines
  <2> QED BY <1>4, <1>5, <2>1, <2>2, <2>3, <2>4, <2>5, <2>6, <2>7 DEF SinkInv, WritesInv, SinksKeepRows
<1>7. ASSUME NEW step, Begins(load, step), Proceed(load, step)
      PROVE  SinkInv'
  <2>1. /\ sinkOp' = [step |-> step, load |-> load, tx |-> sinkTarget, lines |-> <<>>, ins |-> 0, upd |-> 0, del |-> 0,
                      pos |-> 0, todo |-> KeysIn(load.rows)]
        /\ sinkReply' = [end |-> "none"]
    BY <1>7 DEF Proceed
  <2>2. step \in {"connect", "stage", "put", "open"} /\ load # None
    BY <1>7 DEF Begins
  <2>3. Fits(step)'
    BY <1>1, <1>7 DEF Begins, Fits, IsFile, Hive, PgSteps, FileSteps, HiveSteps
  <2>4. sinkOp'.step = step /\ Busy' /\ sinkOp'.load = load /\ sinkOp'.pos = 0 /\ sinkOp'.todo = KeysIn(load.rows)
        /\ sinkOp'.ins = 0 /\ sinkOp'.upd = 0
    BY <2>1, <2>2 DEF Busy
  <2>5. SinkTypes'
    <3>1. Fits(sinkOp.step)'
      BY <2>3, <2>4 DEF Fits
    <3>2. sinkCfg' \in Postgres \cup File /\ sinkWrites' \in Nat
      BY <1>1, <1>3 DEF SinkTypes
    <3>3. IsTarget(sinkOp.tx, sinkCfg)'
      BY <1>1, <1>4, <2>1
    <3> QED BY <1>4, <2>1, <2>2, <2>4, <3>1, <3>2, <3>3 DEF SinkTypes
  <2>6. TxInv' /\ LinesInv'
    BY <1>1, <2>2, <2>4 DEF TxInv, LinesInv
  <2>7. PartsInv'
    BY <1>1, <2>2, <2>4 DEF PartsInv, HiveSteps
  <2> QED BY <1>4, <1>5, <2>4, <2>5, <2>6, <2>7 DEF SinkInv, WritesInv
<1> QED BY <1>2, <1>6, <1>7, StartedWrite

-----------------------------------------------------------------------------
LEMMA SinkInvHolds == SinkSpec => []SinkInv
<1>1. SinkInit => SinkInv
  BY InitSink
<1>2. SinkInv /\ [SinkNext]_sinkVars => SinkInv'
  <2> SUFFICES ASSUME SinkInv, [SinkNext]_sinkVars PROVE SinkInv'
    OBVIOUS
  <2>1. CASE UNCHANGED sinkVars
    <3>1. UNCHANGED <<sinkCfg, sinkTarget, sinkOp, sinkBefore, sinkReply, sinkWrites>>
      BY <2>1 DEF sinkVars
    <3>2. SinkTypes' <=> SinkTypes
      BY <3>1 DEF SinkTypes, Busy, Fits, IsFile, Hive
    <3>3. (TableInv' <=> TableInv) /\ (HeadInv' <=> HeadInv) /\ (Busy' <=> Busy)
      BY <3>1 DEF TableInv, HeadInv, Busy, IsFile, Unique, Older
    <3>4. TxInv' <=> TxInv
      <4>1. \A n, r : EffectTo(n, r)' = EffectTo(n, r)
        BY <3>1 DEF EffectTo, NewTo, HitTo, LastTo
      <4> QED BY <3>1, <4>1 DEF TxInv, EffectInv, Unique, Older
    <3>5. (LinesInv' <=> LinesInv) /\ (PartsInv' <=> PartsInv)
      BY <3>1 DEF LinesInv, PartsInv, Base, Planned, Landing, Spoils, IsFile, Extends, Lines, Partition
    <3>6. SinksKeepRows' <=> SinksKeepRows
      <4>1. AllOrNothing' <=> AllOrNothing
        BY <3>1 DEF AllOrNothing, SameRows, Applied, AllRows, Replaces, Effect, CurrentLoad, IsFile, Hive
      <4>2. AnsweredIsApplied' <=> AnsweredIsApplied
        BY <3>1 DEF AnsweredIsApplied, Landed, Spoils, Applied, AllRows, Replaces, Effect, IsFile, Hive
      <4>3. (RefusedTouchesNothing' <=> RefusedTouchesNothing) /\ (CsvKeepsLines' <=> CsvKeepsLines)
        BY <3>1 DEF RefusedTouchesNothing, CsvKeepsLines
      <4>4. PartitionsAreWhole' <=> PartitionsAreWhole
        BY <3>1 DEF PartitionsAreWhole, CurrentLoad, IsFile, Hive
      <4> QED BY <4>1, <4>2, <4>3, <4>4 DEF SinksKeepRows
    <3> QED BY <3>2, <3>3, <3>4, <3>5, <3>6 DEF SinkInv, WritesInv
  <2>2. CASE SinkNext
    BY <2>2, StartWriteStep, CreateTableStep, AddColumnsStep, ClearRowsStep, UpdateNextStep, InsertNextStep,
       RefuseRowStep, CommitRowsStep, CreateIndexesStep, PgFailsStep, PutObjectStep, OpenFileStep, WriteHalfStep, WriteLineStep,
       CloseFileStep, FileFailsStep, StagePartitionStep, RemovePartitionStep, SwapPartitionStep, HiveDoneStep,
       HiveFailsStep, SinkCrashStep DEF SinkNext
  <2> QED BY <2>1, <2>2
<1> QED BY <1>1, <1>2, PTL DEF SinkSpec

(* Whatever the sinks write, and whatever of it fails: a PostgreSQL table and a cloud object hold all of *)
(* a write or none of it, an answered write has had the effect of its strategy on every row but one      *)
(* appended to half a line, a refused one none, a partition is old, new or missing, and a CSV file loses *)
(* no whole line.                                                                                        *)
THEOREM SinksKeepRowsHold == SinkSpec => []SinksKeepRows
<1>1. SinkInv => SinksKeepRows
  BY WritingKeeps DEF SinkInv
<1> QED BY <1>1, SinkInvHolds, PTL
=============================================================================
