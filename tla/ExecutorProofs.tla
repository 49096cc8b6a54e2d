--------------------------- MODULE ExecutorProofs ---------------------------
(***************************************************************************)
(* Theorems about Executor for every pipeline with finitely many sinks,    *)
(* any number of runs, rows and watermarks, with their proofs: types; no   *)
(* row is lost, by the invariant IInv; the refinement of Delivery; what a  *)
(* recorded success and an event mean; what merged targets hold.           *)
(***************************************************************************)
EXTENDS Executor, FiniteSetTheorems, TLAPS

-----------------------------------------------------------------------------
(* The operators: the newest row of a batch, the filter of a source *)

\* Naturals are well-founded, so a set of them has a least element ...
LEMMA LeastNatural ==
  ASSUME NEW T, T \subseteq Nat, T # {}
  PROVE  \E m \in T : \A n \in T : m <= n
<1>1. PICK m \in T : \A n \in T : ~ (<<n, m>> \in OpToRel(<, Nat))
  BY NatLessThanWellFounded, WFMin, Zenon
<1>2. \A n \in T : ~ (n < m)
  BY <1>1 DEF OpToRel
<1>3. QED
  BY <1>2

\* ... and one that is bounded has a greatest.
LEMMA GreatestNatural ==
  ASSUME NEW K \in Nat, NEW T, T \subseteq 0..K, T # {}
  PROVE  \E m \in T : \A n \in T : n <= m
<1> DEFINE U == {K - n : n \in T}
<1>1. U \subseteq Nat /\ U # {}
  <2>1. \A n \in T : n \in Nat /\ n <= K /\ K - n \in Nat
    OBVIOUS
  <2>2. U \subseteq Nat
    BY <2>1
  <2>3. U # {}
    OBVIOUS
  <2>4. QED
    BY <2>2, <2>3
<1>2. PICK u \in U : \A n \in U : u <= n
  BY <1>1, LeastNatural
<1>3. PICK m \in T : u = K - m
  OBVIOUS
<1>4. ASSUME NEW n \in T PROVE n <= m
  <2>1. K - n \in U
    OBVIOUS
  <2>2. K - m <= K - n
    BY <1>2, <1>3, <2>1
  <2>3. QED
    BY <2>2
<1>5. QED
  BY <1>4

\* A function on a finite set has a greatest value: a smallest subset on which
\* it gets as high as on all of the set has one element.
LEMMA GreatestOfFinite ==
  ASSUME NEW S, IsFiniteSet(S), S # {}, NEW f, \A x \in S : f[x] \in Nat
  PROVE  \E m \in S : \A x \in S : f[x] <= f[m]
<1> DEFINE High(U) == U # {} /\ \A x \in S : \E m \in U : f[x] <= f[m]
           F == {U \in SUBSET S : High(U)}
<1>1. F \subseteq FiniteSubsetsOf(S)
  BY FS_Subset DEF FiniteSubsetsOf
<1>2. S \in F
  OBVIOUS
<1>3. PICK U \in F : \A V \in F : ~ (<<V, U>> \in StrictSubsetOrdering(S))
  <2>1. F # {}
    BY <1>2
  <2>2. QED
    BY <1>1, <2>1, FS_StrictSubsetOrderingWellFounded, WFMin, Zenon
<1>4. U \in SUBSET S /\ High(U)
  BY <1>3
<1>5. PICK m \in U : TRUE
  BY <1>4
<1>6. ASSUME NEW k \in U, k # m PROVE FALSE
  <2>1. PICK low \in U, high \in U : low # high /\ f[low] <= f[high]
    BY <1>4, <1>5, <1>6
  <2>2. U \ {low} \in F
    <3>1. \A x \in S : \E j \in U \ {low} : f[x] <= f[j]
      BY <1>4, <2>1
    <3>2. QED
      BY <1>4, <2>1, <3>1
  <2>3. <<U \ {low}, U>> \in StrictSubsetOrdering(S)
    BY <1>4, <2>1 DEF StrictSubsetOrdering
  <2>4. QED
    BY <1>3, <2>2, <2>3
<1>7. QED
  BY <1>4, <1>5, <1>6

\* A batch that is not empty has a newest row, and its watermark is one of it.
LEMMA NewestFact ==
  ASSUME NEW S \in SUBSET Rows, S # {}, NEW f \in [Rows -> Marks]
  PROVE  \E y \in S : Newest(S, f) = f[y]
<1> DEFINE T == {f[x] : x \in S}
<1>1. T \subseteq 0..MaxMark /\ T # {}
  BY DEF Marks
<1>2. \E m \in T : \A n \in T : n <= m
  BY <1>1, GreatestNatural, ExecutorAssumption
<1>3. \E m \in T : \A x \in S : f[x] <= m
  BY <1>2
<1>4. Newest(S, f) \in T
  BY <1>3 DEF Newest
<1>5. QED
  BY <1>4

-----------------------------------------------------------------------------
(* What the theorems assume of a pipeline, next to ExecutorAssumption *)

\* Each incremental sink is fed by one source.
SingleSource == \A t \in Incremental : \E s \in Sources : From[t] = {s}

\* No full sink shares a source with an incremental one.
Unmixed == \A t \in Sinks \ Incremental, u \in Incremental : From[t] \cap From[u] = {}

\* Stored strings are in the order of the watermarks they stand for.
InTurn == \A m, n \in 1..MaxMark : m < n => Shown[m] < Shown[n]

LEMMA LeastOf ==
  ASSUME NEW S, NEW m, NEW w \in S, \A u \in S : Shown[m[w]] <= Shown[m[u]]
  PROVE  /\ Least(S, m) \in {m[u] : u \in S}
         /\ \A u \in S : Shown[Least(S, m)] <= Shown[m[u]]
<1>1. \E v \in {m[u] : u \in S} : \A u \in S : Shown[v] <= Shown[m[u]]
  OBVIOUS
<1>2. QED
  BY <1>1, Zenon DEF Least

\* The filter of a source starts no later than the lookback of any incremental
\* sink that it feeds allows, when their marks are m.
LEMMA FilterFact ==
  ASSUME InTurn, NEW m \in [Incremental -> Marks],
         NEW t \in Incremental, NEW s \in From[t]
  PROVE  \/ Filter(s, m) = 0
         \/ Filter(s, m) \in Int /\ Filter(s, m) <= m[t] - Lookback[t]
<1> DEFINE S == {u \in Incremental : s \in From[u]}
<1> USE ExecutorAssumption
<1>1. CASE \E u \in S : m[u] = 0
  BY <1>1 DEF Filter
<1>2. CASE \A u \in S : m[u] # 0
  <2>1. t \in S /\ S \subseteq Incremental
    OBVIOUS
  <2>2. \A u \in S : m[u] \in 1..MaxMark
    BY <1>2, <2>1 DEF Marks
  <2>3. Least(S, m) \in 1..MaxMark /\ Least(S, m) <= m[t]
    <3> DEFINE T == {Shown[m[u]] : u \in S}
    <3>1. T \subseteq Nat /\ T # {}
      BY <2>1, <2>2
    <3>2. PICK n \in T : \A k \in T : n <= k
      BY <3>1, LeastNatural
    <3>3. PICK w \in S : n = Shown[m[w]]
      OBVIOUS
    <3>4. m[w] \in {m[u] : u \in S} /\ \A u \in S : Shown[m[w]] <= Shown[m[u]]
      BY <3>2, <3>3
    <3>5. /\ Least(S, m) \in {m[u] : u \in S}
          /\ \A u \in S : Shown[Least(S, m)] <= Shown[m[u]]
      BY <3>4, LeastOf
    <3>6. Least(S, m) \in 1..MaxMark
      <4>1. PICK u \in S : Least(S, m) = m[u]
        BY <3>5, Zenon
      <4>2. m[u] \in 1..MaxMark
        BY <2>2, <4>1, Zenon
      <4>3. QED
        BY <4>1, <4>2, Zenon
    <3>7. Shown[Least(S, m)] <= Shown[m[t]] /\ m[t] \in 1..MaxMark
      BY <2>1, <2>2, <3>5
    <3>8. ~ (m[t] < Least(S, m))
      BY <3>6, <3>7, InTurn DEF InTurn
    <3>9. QED
      BY <3>6, <3>7, <3>8
  <2>4. Widest(S) \in Nat /\ Lookback[t] <= Widest(S)
    <3>1. IsFiniteSet(S)
      BY <2>1, FS_Subset
    <3>2. \A u \in S : Lookback[u] \in Nat
      BY <2>1
    <3>3. \E w \in S : \A u \in S : Lookback[u] <= Lookback[w]
      BY <2>1, <3>1, <3>2, GreatestOfFinite
    <3>4. /\ Widest(S) \in {Lookback[u] : u \in S}
          /\ \A u \in S : Lookback[u] <= Widest(S)
      BY <3>3 DEF Widest
    <3>5. QED
      BY <2>1, <3>2, <3>4
  <2>5. Filter(s, m) = Least(S, m) - Widest(S)
    BY <1>2, <2>1 DEF Filter
  <2>6. m[t] \in Nat /\ Lookback[t] \in Nat
    BY <2>1, <2>2
  <2>7. QED
    BY <2>3, <2>4, <2>5, <2>6
<1>3. QED
  BY <1>1, <1>2

-----------------------------------------------------------------------------
(* Type correctness *)

LEMMA NewRunType == NewRun \in RunType
BY ExecutorAssumption DEF NewRun, RunType, Modes, Marks, Ends

LEMMA TypeInit == Init => TypeOK
<1> SUFFICES ASSUME Init PROVE TypeOK
  OBVIOUS
<1>1. 0 \in Marks /\ 0 \in 0..MaxFaults
  BY ExecutorAssumption DEF Marks
<1>2. QED
  BY <1>1, NewRunType DEF Init, TypeOK

\* A step that replaces the record of one run by another of the type.
LEMMA RunTyped ==
  ASSUME TypeOK, NEW r \in Runs, NEW new \in RunType, run' = [run EXCEPT ![r] = new]
  PROVE  run' \in [Runs -> RunType]
BY DEF TypeOK

LEMMA LeaveTyped ==
  ASSUME TypeOK, NEW r \in Runs, NEW how \in {"done", "gone"}, Leave(r, how)
  PROVE  run' \in [Runs -> RunType]
<1>1. [NewRun EXCEPT !.pc = how] \in RunType
  BY NewRunType DEF RunType
<1>2. QED
  BY <1>1, RunTyped DEF Leave

LEMMA EndingTyped ==
  ASSUME TypeOK, NEW r \in Runs, NEW verdict \in Ends, Ending(r, verdict)
  PROVE  run' \in [Runs -> RunType]
<1>1. [NewRun EXCEPT !.pc = "finish", !.verdict = verdict] \in RunType
  BY NewRunType DEF RunType
<1>2. QED
  BY <1>1, RunTyped DEF Ending

LEMMA GiveTyped ==
  ASSUME TypeOK, NEW r \in Runs, NEW t \in Sinks, Give(r, t)
  PROVE  target' \in [Sinks -> [Rows -> Marks]] /\ seen' \in [Sinks -> [Rows -> Marks]]
<1>1. run[r].read \in [Rows -> Marks]
  BY DEF TypeOK, RunType
<1>2. \A x \in Rows : Newer(run[r].read[x], seen[t][x]) \in Marks
  BY <1>1 DEF TypeOK, Newer
<1>3. [x \in Rows |-> IF x \in Batch(r, t) THEN run[r].read[x] ELSE target[t][x]]
        \in [Rows -> Marks]
  BY <1>1 DEF TypeOK
<1>4. [x \in Rows |-> IF x \in Batch(r, t) THEN Newer(run[r].read[x], seen[t][x])
                                           ELSE seen[t][x]] \in [Rows -> Marks]
  BY <1>1, <1>2 DEF TypeOK
<1>5. QED
  BY <1>3, <1>4 DEF TypeOK, Give

\* What a run saves is a watermark.
LEMMA AdvancedType ==
  ASSUME TypeOK, NEW r \in Runs, NEW t \in Incremental
  PROVE  \/ Batch(r, t) = {} /\ Advanced(r, t) = run[r].plan[t]
         \/ \E y \in Batch(r, t) : Advanced(r, t) = run[r].read[y]
<1>1. run[r].read \in [Rows -> Marks] /\ Batch(r, t) \in SUBSET Rows
  BY ExecutorAssumption DEF TypeOK, RunType, Batch, Feed
<1>2. CASE Batch(r, t) = {}
  BY <1>2 DEF Advanced
<1>3. CASE Batch(r, t) # {}
  BY <1>1, <1>3, NewestFact DEF Advanced
<1>4. QED
  BY <1>2, <1>3

LEMMA TypeStep == TypeOK /\ [Next]_vars => TypeOK'
<1> SUFFICES ASSUME TypeOK, [Next]_vars PROVE TypeOK'
  OBVIOUS
<1> USE DEF sinkVars
<1>0. MaxFaults \in Nat /\ MaxMark \in Nat /\ Incremental \subseteq Sinks
  BY ExecutorAssumption
<1>typed. \A r \in Runs : run[r] \in RunType
  BY DEF TypeOK
<1>1. ASSUME NEW r \in Runs, NEW mode \in Modes, Start(r, mode) PROVE TypeOK'
  <2>1. [NewRun EXCEPT !.pc = "load", !.mode = mode, !.todo = Incremental] \in RunType
    BY <1>0, NewRunType DEF RunType, Nodes
  <2>2. QED
    BY <1>1, <2>1, RunTyped DEF TypeOK, Start
<1>2. ASSUME NEW r \in Runs, LoadState(r) PROVE TypeOK'
  <2>1. PICK t \in run[r].todo :
          IF mark[t] = 0 /\ t \in FailsFirst /\ run[r].mode = "plain"
          THEN Leave(r, "done")
          ELSE run' = [run EXCEPT ![r].plan[t] = mark[t], ![r].todo = @ \ {t}]
    BY <1>2 DEF LoadState
  <2>2. run' \in [Runs -> RunType]
    <3>1. CASE Leave(r, "done")
      BY <3>1, LeaveTyped
    <3>2. CASE run' = [run EXCEPT ![r].plan[t] = mark[t], ![r].todo = @ \ {t}]
      <4>1. [run[r] EXCEPT !.plan[t] = mark[t], !.todo = @ \ {t}] \in RunType
        BY <1>typed DEF TypeOK, RunType
      <4>2. run' = [run EXCEPT ![r] = [run[r] EXCEPT !.plan[t] = mark[t], !.todo = @ \ {t}]]
        BY <3>2, <1>typed DEF TypeOK, RunType
      <4>3. QED
        BY <4>1, <4>2, RunTyped
    <3>3. QED
      BY <2>1, <3>1, <3>2
  <2>3. QED
    BY <1>2, <2>2 DEF TypeOK, LoadState
<1>3. ASSUME NEW r \in Runs, Refuse(r) \/ SecretMissing(r) PROVE TypeOK'
  BY <1>3, LeaveTyped DEF TypeOK, Refuse, SecretMissing
<1>4. ASSUME NEW r \in Runs, CreateRun(r) PROVE TypeOK'
  <2>1. run' \in [Runs -> RunType]
    <3>1. [run[r] EXCEPT !.pc = "begin"] \in RunType
      BY <1>typed DEF RunType
    <3>2. QED
      BY <1>4, <3>1, RunTyped DEF TypeOK, CreateRun
  <2>2. QED
    BY <1>4, <2>1 DEF TypeOK, CreateRun
<1>5. ASSUME NEW r \in Runs, SetRunning(r) PROVE TypeOK'
  <2>1. run' \in [Runs -> RunType]
    <3> DEFINE new == [run[r] EXCEPT !.pc = "node", !.todo = Nodes]
    <3>1. new \in RunType
      BY <1>typed DEF RunType
    <3>2. run' = [run EXCEPT ![r] = new]
      BY <1>5 DEF TypeOK, SetRunning
    <3>3. QED
      BY <3>1, <3>2, RunTyped
  <2>2. faults' \in 0..MaxFaults /\ status' \in [Runs -> {"none", "pending", "running"} \cup Ends]
    BY <1>0, <1>5 DEF TypeOK, SetRunning, MayBeLost
  <2>3. QED
    BY <1>5, <2>1, <2>2 DEF TypeOK, SetRunning
<1>6. ASSUME NEW r \in Runs, StopIfCancelled(r) \/ NodeFails(r) PROVE TypeOK'
  BY <1>6, EndingTyped DEF TypeOK, StopIfCancelled, NodeFails, Ends
<1>7. ASSUME NEW r \in Runs, NEW s \in Sources, ReadSource(r, s) PROVE TypeOK'
  <2>1. run' \in [Runs -> RunType]
    <3>1. 0 \in Marks
      BY <1>0 DEF Marks
    <3>2. PICK after : run' = [run EXCEPT
           ![r].todo = @ \ {s},
           ![r].read = [x \in Rows |->
              IF SourceOf[x] = s
              THEN IF version[x] > after THEN version[x] ELSE 0
              ELSE @[x]]]
      BY <1>7 DEF ReadSource
    <3> DEFINE read == [x \in Rows |-> IF SourceOf[x] = s
                          THEN IF version[x] > after THEN version[x] ELSE 0
                          ELSE run[r].read[x]]
               new == [run[r] EXCEPT !.todo = @ \ {s}, !.read = read]
    <3>3. read \in [Rows -> Marks]
      BY <3>1 DEF TypeOK, RunType
    <3>4. new \in RunType
      <4> HIDE DEF read
      <4>1. QED
        BY <1>typed, <3>3 DEF RunType
    <3>5. run' = [run EXCEPT ![r] = new]
      BY <3>2 DEF TypeOK, RunType
    <3>6. QED
      BY <3>4, <3>5, RunTyped
  <2>2. QED
    BY <1>7, <2>1 DEF TypeOK, ReadSource
<1>8. ASSUME NEW r \in Runs, NEW t \in Sinks, WriteSink(r, t) PROVE TypeOK'
  <2>1. run' \in [Runs -> RunType]
    <3> DEFINE new == [run[r] EXCEPT !.todo = @ \ {t},
                        !.pc = IF t \in Incremental THEN "save" ELSE "node",
                        !.written = {t} \cap Incremental]
    <3>1. new \in RunType
      <4>1. run[r] \in RunType /\ {t} \cap Incremental \in SUBSET Incremental
        BY DEF TypeOK
      <4>2. run[r].todo \ {t} \in SUBSET Nodes
        BY <4>1 DEF RunType
      <4>3. (IF t \in Incremental THEN "save" ELSE "node") \in {"save", "node"}
        OBVIOUS
      <4>4. QED
        BY <4>1, <4>2, <4>3 DEF RunType
    <3>2. run' = [run EXCEPT ![r] = new]
      BY <1>8 DEF TypeOK, WriteSink
    <3>3. QED
      BY <3>1, <3>2, RunTyped
  <2>2. QED
    BY <1>8, <2>1, GiveTyped DEF TypeOK, WriteSink, Give
<1>9. ASSUME NEW r \in Runs, NEW t \in Sinks, WriteUnknown(r, t) PROVE TypeOK'
  <2>1. run' \in [Runs -> RunType]
    BY <1>9, EndingTyped DEF WriteUnknown, Ends
  <2>2. QED
    BY <1>9, <2>1, GiveTyped DEF TypeOK, WriteUnknown, Give
<1>10. ASSUME NEW r \in Runs, SaveState(r) PROVE TypeOK'
  <2>1. PICK t \in run[r].written :
          IF Advanced(r, t) = 0
          THEN UNCHANGED <<mark, faults>>
          ELSE MayBeLost(mark' = [mark EXCEPT ![t] = Advanced(r, t)], UNCHANGED mark)
    BY <1>10 DEF SaveState
  <2>2. t \in Incremental
    BY DEF TypeOK, RunType
  <2>3. Advanced(r, t) \in Marks
    <3>1. run[r].plan \in [Incremental -> Marks] /\ run[r].read \in [Rows -> Marks]
      BY DEF TypeOK, RunType
    <3>2. Batch(r, t) \subseteq Rows
      BY <1>0, <2>2 DEF Batch, Feed
    <3>3. QED
      BY <2>2, <3>1, <3>2, AdvancedType
  <2>4. mark' \in [Incremental -> Marks] /\ faults' \in 0..MaxFaults
    BY <1>0, <2>1, <2>3 DEF TypeOK, MayBeLost
  <2>5. run' \in [Runs -> RunType]
    <3> DEFINE new == [run[r] EXCEPT !.pc = "node", !.written = {}]
    <3>1. new \in RunType
      BY <1>typed DEF RunType
    <3>2. run' = [run EXCEPT ![r] = new]
      BY <1>10 DEF TypeOK, SaveState
    <3>3. QED
      BY <3>1, <3>2, RunTyped
  <2>6. QED
    BY <1>10, <2>4, <2>5 DEF TypeOK, SaveState
<1>11. ASSUME NEW r \in Runs, Complete(r) PROVE TypeOK'
  <2>1. [NewRun EXCEPT !.pc = "finish", !.read = run[r].read] \in RunType
    BY NewRunType DEF TypeOK, RunType
  <2>2. QED
    BY <1>11, <2>1, RunTyped DEF TypeOK, Complete
<1>12. ASSUME NEW r \in Runs, Finish(r) PROVE TypeOK'
  <2>1. run' \in [Runs -> RunType]
    <3>1. [run[r] EXCEPT !.pc = "announce"] \in RunType
      BY <1>typed DEF RunType
    <3>2. QED
      BY <1>12, <3>1, RunTyped DEF TypeOK, Finish
  <2>2. run[r].verdict \in Ends
    BY DEF TypeOK, RunType
  <2>3. faults' \in 0..MaxFaults /\ status' \in [Runs -> {"none", "pending", "running"} \cup Ends]
    BY <1>0, <1>12, <2>2 DEF TypeOK, Finish, MayBeLost
  <2>4. QED
    BY <1>12, <2>1, <2>3 DEF TypeOK, Finish
<1>13. ASSUME NEW r \in Runs, Announce(r) PROVE TypeOK'
  <2>1. run[r].verdict \in Ends
    BY DEF TypeOK, RunType
  <2>2. QED
    BY <1>13, <2>1, LeaveTyped DEF TypeOK, Announce
<1>14. ASSUME NEW r \in Runs, Vanish(r) PROVE TypeOK'
  <2>1. faults' \in 0..MaxFaults
    BY <1>0, <1>14 DEF TypeOK, Vanish
  <2>2. QED
    BY <1>14, <2>1, LeaveTyped DEF TypeOK, Vanish
<1>15. ASSUME NEW t \in Incremental, Reset(t) PROVE TypeOK'
  <2>1. faults' \in 0..MaxFaults /\ 0 \in Marks
    BY <1>0, <1>15 DEF TypeOK, Reset, Marks
  <2>2. QED
    BY <1>15, <2>1 DEF TypeOK, Reset
<1>16. ASSUME NEW x \in Rows, NEW m \in Marks, Arrive(x, m) PROVE TypeOK'
  BY <1>16 DEF TypeOK, Arrive
<1>17. ASSUME UNCHANGED vars PROVE TypeOK'
  BY <1>17 DEF TypeOK, vars
<1>18. QED
  BY <1>1, <1>2, <1>3, <1>4, <1>5, <1>6, <1>7, <1>8, <1>9, <1>10, <1>11, <1>12,
     <1>13, <1>14, <1>15, <1>16, <1>17 DEF Next, RunStep

\* Every column of a store, every local variable of a run and every event takes
\* only values that the code knows, whatever the pipeline and the number of runs.
THEOREM ExecutorTypes == Spec => []TypeOK
BY TypeInit, TypeStep, PTL DEF Spec

-----------------------------------------------------------------------------
(* No row is lost.  NoRowLost speaks of the next read; that no run moves a  *)
(* mark past what its sink lacks rests on what each run in flight holds.    *)

\* m may be the mark of sink t: what t lacks is not behind m by the lookback
\* or more, and m is not ahead of the sources.
GoodMark(t, m) ==
  /\ \A x \in Feed[t] : version[x] > seen[t][x] => version[x] > m - Lookback[t]
  /\ m = 0 \/ \E x \in Rows : m <= version[x]

\* The marks that a run has loaded are still good, though others may have moved
\* the stored ones since.
PlanInv(r) == \A t \in Incremental : GoodMark(t, run[r].plan[t])

\* A run holds what the sources had, now or earlier.
ReadInv(r) == \A x \in Rows : run[r].read[x] <= version[x]

\* Once the source of a sink is read, whatever the sink will still lack after
\* the batch is not behind any row of the batch by the lookback or more.
BatchInv(r) ==
  run[r].pc \in {"node", "save"} =>
    \A t \in Incremental : From[t] \cap run[r].todo = {} =>
      \A x \in Feed[t] :
        (version[x] > seen[t][x] /\ version[x] > run[r].read[x]) =>
          \A y \in Batch(r, t) : version[x] > run[r].read[y] - Lookback[t]

\* A sink whose state is about to be saved has been given its batch.
WrittenInv(r) ==
  run[r].pc = "save" =>
    \A t \in run[r].written :
      /\ From[t] \cap run[r].todo = {}
      /\ \A x \in Feed[t] : run[r].read[x] <= seen[t][x]

RunInv(r) == PlanInv(r) /\ ReadInv(r) /\ BatchInv(r) /\ WrittenInv(r)
MarkInv == \A t \in Incremental : GoodMark(t, mark[t])

IInv == TypeOK /\ MarkInv /\ \A r \in Runs : RunInv(r)

LEMMA IInvInit == Init => IInv
<1> SUFFICES ASSUME Init PROVE IInv
  OBVIOUS
<1>1. TypeOK
  BY TypeInit
<1>2. \A t \in Incremental : GoodMark(t, 0)
  <2>1. \A t \in Incremental : Feed[t] \subseteq Rows /\ Lookback[t] \in Nat
    BY ExecutorAssumption DEF Feed
  <2>2. \A t \in Incremental : \A x \in Feed[t] : ~ (version[x] > seen[t][x])
    BY <2>1, ExecutorAssumption DEF Init
  <2>3. QED
    BY <2>2 DEF GoodMark
<1>3. ASSUME NEW r \in Runs PROVE RunInv(r)
  <2>1. run[r] = NewRun /\ version = [x \in Rows |-> 0]
    BY DEF Init
  <2>2. PlanInv(r)
    BY <1>2, <2>1 DEF PlanInv, NewRun
  <2>3. ReadInv(r) /\ BatchInv(r) /\ WrittenInv(r)
    BY <2>1 DEF ReadInv, BatchInv, WrittenInv, NewRun
  <2>4. QED
    BY <2>2, <2>3 DEF RunInv
<1>4. MarkInv
  BY <1>2 DEF Init, MarkInv
<1>5. QED
  BY <1>1, <1>3, <1>4 DEF IInv

\* The types that the proofs below need, of the constants and of a state.
LEMMA Constants ==
  /\ Marks \subseteq Nat /\ Incremental \subseteq Sinks
  /\ \A t \in Incremental : Lookback[t] \in Nat
  /\ \A t \in Sinks : Feed[t] \in SUBSET Rows
<1>1. Marks \subseteq Nat
  BY ExecutorAssumption DEF Marks
<1>2. ASSUME NEW t \in Sinks PROVE Feed[t] \in SUBSET Rows
  BY DEF Feed
<1>3. QED
  BY <1>1, <1>2, ExecutorAssumption

LEMMA Typed ==
  ASSUME TypeOK
  PROVE  /\ \A x \in Rows : version[x] \in Nat
         /\ \A t \in Sinks, x \in Rows : seen[t][x] \in Nat
         /\ \A t \in Incremental : mark[t] \in Nat
         /\ \A r \in Runs, x \in Rows : run[r].read[x] \in Nat
         /\ \A r \in Runs, t \in Incremental : run[r].plan[t] \in Nat
         /\ \A r \in Runs : run[r].written \in SUBSET Incremental
<1> USE Constants
<1>1. \A x \in Rows : version[x] \in Nat
  BY DEF TypeOK
<1>2. \A t \in Sinks, x \in Rows : seen[t][x] \in Nat
  BY DEF TypeOK
<1>3. \A t \in Incremental : mark[t] \in Nat
  BY DEF TypeOK
<1>4. \A r \in Runs : run[r] \in RunType
  BY DEF TypeOK
<1>5. ASSUME NEW r \in Runs
      PROVE  /\ \A x \in Rows : run[r].read[x] \in Nat
             /\ \A t \in Incremental : run[r].plan[t] \in Nat
             /\ run[r].written \in SUBSET Incremental
  BY <1>4 DEF RunType
<1>6. QED
  BY <1>1, <1>2, <1>3, <1>5

\* No mark at all is a good mark.
LEMMA NoMark ==
  ASSUME TypeOK, NEW t \in Incremental
  PROVE  GoodMark(t, 0)
BY Typed, Constants DEF GoodMark

\* Marks stay good while the sources and what the sinks were given stay.
LEMMA GoodKept ==
  ASSUME version' = version, seen' = seen
  PROVE  \A t, m : GoodMark(t, m) => GoodMark(t, m)'
BY DEF GoodMark, Feed

\* So does everything about a run that does not move.
LEMMA RunKept ==
  ASSUME NEW q \in Runs, RunInv(q), run'[q] = run[q], version' = version, seen' = seen
  PROVE  RunInv(q)'
<1>1. PlanInv(q)'
  BY GoodKept DEF RunInv, PlanInv
<1>2. ReadInv(q)'
  BY DEF RunInv, ReadInv
<1>3. BatchInv(q)'
  BY DEF RunInv, BatchInv, Batch, Feed
<1>4. WrittenInv(q)'
  BY DEF RunInv, WrittenInv, Feed
<1>5. QED
  BY <1>1, <1>2, <1>3, <1>4 DEF RunInv

\* A step of run r alone keeps the invariant when it keeps the part on r, and
\* leaves good marks.
LEMMA OneRun ==
  ASSUME IInv, TypeOK', NEW r \in Runs, \A q \in Runs \ {r} : run'[q] = run[q],
         version' = version, seen' = seen, RunInv(r)', MarkInv'
  PROVE  IInv'
<1>1. ASSUME NEW q \in Runs PROVE RunInv(q)'
  BY RunKept DEF IInv
<1>2. QED
  BY <1>1 DEF IInv

LEMMA MarkKept ==
  ASSUME MarkInv, version' = version, seen' = seen, mark' = mark
  PROVE  MarkInv'
BY GoodKept DEF MarkInv

\* A run outside of its nodes, without a plan, is only bound by what it read.
LEMMA QuietRun ==
  ASSUME TypeOK', NEW r \in Runs, run'[r].pc \notin {"node", "save"},
         \A t \in Incremental : run'[r].plan[t] = 0,
         ReadInv(r)'
  PROVE  RunInv(r)'
<1>1. PlanInv(r)'
  <2>1. \A t \in Incremental : GoodMark(t, 0)'
    <3>1. \A x \in Rows : version'[x] \in Nat
      BY Constants DEF TypeOK
    <3>2. \A t \in Sinks, x \in Rows : seen'[t][x] \in Nat
      <4>1. seen' \in [Sinks -> [Rows -> Marks]]
        BY DEF TypeOK
      <4>2. QED
        BY <4>1, Constants
    <3>3. QED
      BY <3>1, <3>2, Constants DEF GoodMark, Feed
  <2>2. QED
    BY <2>1 DEF PlanInv
<1>2. BatchInv(r)' /\ WrittenInv(r)'
  BY DEF BatchInv, WrittenInv
<1>3. QED
  BY <1>1, <1>2 DEF RunInv

\* execute returns, vanishes, or ends its nodes early.
LEMMA LeftRun ==
  ASSUME IInv, TypeOK', NEW r \in Runs, NEW new,
         new.pc \notin {"node", "save"}, new.plan = NewRun.plan, new.read = NewRun.read,
         run' = [run EXCEPT ![r] = new],
         version' = version, seen' = seen, mark' = mark
  PROVE  IInv'
<1>1. run'[r] = new /\ \A q \in Runs \ {r} : run'[q] = run[q]
  BY DEF IInv, TypeOK
<1>2. ReadInv(r)'
  <2>1. \A x \in Rows : run'[r].read[x] = 0 /\ version[x] \in Nat
    BY <1>1, Typed DEF IInv, NewRun
  <2>2. QED
    BY <2>1 DEF ReadInv
<1>3. RunInv(r)'
  BY <1>1, <1>2, QuietRun DEF NewRun
<1>4. QED
  BY <1>1, <1>3, OneRun, MarkKept DEF IInv

LEMMA LeaveKeeps ==
  ASSUME IInv, TypeOK', NEW r \in Runs, NEW how \in {"done", "gone"}, Leave(r, how),
         version' = version, seen' = seen, mark' = mark
  PROVE  IInv'
<1> DEFINE new == [NewRun EXCEPT !.pc = how]
<1>1. new.pc = how /\ new.plan = NewRun.plan /\ new.read = NewRun.read
  BY DEF NewRun
<1>2. QED
  BY <1>1, LeftRun DEF Leave

LEMMA EndingKeeps ==
  ASSUME IInv, TypeOK', NEW r \in Runs, NEW verdict, Ending(r, verdict),
         version' = version, seen' = seen, mark' = mark
  PROVE  IInv'
<1> DEFINE new == [NewRun EXCEPT !.pc = "finish", !.verdict = verdict]
<1>1. new.pc = "finish" /\ new.plan = NewRun.plan /\ new.read = NewRun.read
  BY DEF NewRun
<1>2. QED
  BY <1>1, LeftRun DEF Ending

-----------------------------------------------------------------------------
(* The steps that matter *)

\* A mark that a run loads, creates its row under, or starts its nodes with is
\* still good, and what it has read is still what it had read.
LEMMA SameReads ==
  ASSUME IInv, TypeOK', NEW r \in Runs, \A q \in Runs \ {r} : run'[q] = run[q],
         version' = version, seen' = seen, MarkInv',
         run'[r].plan = run[r].plan, run'[r].read = run[r].read,
         BatchInv(r)', run'[r].pc # "save"
  PROVE  IInv'
<1>1. PlanInv(r)'
  BY GoodKept DEF IInv, RunInv, PlanInv
<1>2. ReadInv(r)'
  BY DEF IInv, RunInv, ReadInv
<1>3. WrittenInv(r)'
  BY DEF WrittenInv
<1>4. QED
  BY <1>1, <1>2, <1>3, OneRun DEF RunInv

\* The sources are read from a point that no sink lacks a row before.
LEMMA ReadSourceKeeps ==
  ASSUME SingleSource, InTurn, IInv, TypeOK', NEW r \in Runs, NEW s \in Sources,
         ReadSource(r, s)
  PROVE  IInv'
<1> DEFINE after == IF run[r].mode = "refresh" THEN 0 ELSE Filter(s, run[r].plan)
           read == [x \in Rows |-> IF SourceOf[x] = s
                      THEN IF version[x] > after THEN version[x] ELSE 0
                      ELSE run[r].read[x]]
           new == [run[r] EXCEPT !.todo = @ \ {s}, !.read = read]
<1>1. TypeOK /\ RunInv(r) /\ MarkInv
  BY DEF IInv
<1>2. /\ run[r].pc = "node" /\ s \in run[r].todo
      /\ run' = [run EXCEPT ![r] = new]
      /\ version' = version /\ seen' = seen /\ mark' = mark
  BY <1>1 DEF ReadSource, Ready, TypeOK, RunType, sinkVars
<1>3. /\ run'[r] = new /\ \A q \in Runs \ {r} : run'[q] = run[q]
      /\ new.pc = "node" /\ new.plan = run[r].plan /\ new.read = read
      /\ new.todo = run[r].todo \ {s}
  <2>1. run[r] \in RunType
    BY <1>1 DEF TypeOK
  <2>2. /\ new.pc = run[r].pc /\ new.plan = run[r].plan /\ new.read = read
        /\ new.todo = run[r].todo \ {s}
    <3> HIDE DEF read
    <3>1. QED
      BY <2>1 DEF RunType
  <2>3. run'[r] = new /\ \A q \in Runs \ {r} : run'[q] = run[q]
    <3> HIDE DEF new
    <3>1. QED
      BY <1>1, <1>2 DEF TypeOK
  <2>4. QED
    BY <1>2, <2>2, <2>3
<1>4. PlanInv(r)'
  BY <1>1, <1>2, <1>3, GoodKept DEF RunInv, PlanInv
<1>5. ReadInv(r)'
  <2>1. \A x \in Rows : read[x] <= version[x]
    BY <1>1, Typed DEF RunInv, ReadInv
  <2>2. QED
    BY <1>2, <1>3, <2>1 DEF ReadInv
<1>6. WrittenInv(r)'
  BY <1>3 DEF WrittenInv
<1>7. BatchInv(r)'
  <2> SUFFICES ASSUME NEW t \in Incremental, From[t] \cap new.todo = {},
                      NEW x \in Feed[t], version[x] > seen[t][x], version[x] > read[x],
                      NEW y \in Rows, y \in Feed[t], read[y] > 0
               PROVE  version[x] > read[y] - Lookback[t]
    <3>1. \A t \in Incremental : Feed[t] \subseteq Rows
      BY Constants
    <3>2. \A t \in Incremental : \A y \in Batch(r, t)' : y \in Feed[t] /\ read[y] > 0
      BY <1>3 DEF Batch, Feed
    <3>3. /\ version' = version /\ seen' = seen /\ run'[r].todo = new.todo
          /\ run'[r].read = read
      BY <1>2, <1>3
    <3>4. QED
      <4> HIDE DEF new, read
      <4>1. QED
        BY <3>1, <3>2, <3>3 DEF BatchInv, Feed
  <2>1. PICK a \in Sources : From[t] = {a}
    BY DEF SingleSource
  <2>2. x \in Rows /\ SourceOf[x] = a /\ SourceOf[y] = a /\ t \in Sinks
    BY <2>1, Constants DEF Feed
  <2>3. /\ version[x] \in Nat /\ seen[t][x] \in Nat /\ Lookback[t] \in Nat
        /\ run[r].plan \in [Incremental -> Marks] /\ run[r].plan[t] \in Nat
    BY <1>1, <2>2, Typed, Constants DEF TypeOK, RunType
  <2>4. CASE a = s
    <3>1. ~ (version[x] > after)
      BY <2>2, <2>3, <2>4
    <3>2. version[x] > run[r].plan[t] - Lookback[t]
      BY <1>1 DEF RunInv, PlanInv, GoodMark
    <3>3. \/ Filter(s, run[r].plan) = 0
          \/ /\ Filter(s, run[r].plan) \in Int
             /\ Filter(s, run[r].plan) <= run[r].plan[t] - Lookback[t]
      BY <2>1, <2>3, <2>4, FilterFact
    <3>4. QED
      BY <2>3, <3>1, <3>2, <3>3
  <2>5. CASE a # s
    <3>1. From[t] \cap run[r].todo = {}
      BY <1>3, <2>1, <2>5
    <3>2. read[x] = run[r].read[x] /\ read[y] = run[r].read[y]
      BY <2>2, <2>5
    <3>3. y \in Batch(r, t)
      BY <3>2 DEF Batch
    <3>4. QED
      BY <1>1, <1>2, <3>1, <3>2, <3>3 DEF RunInv, BatchInv
  <2>6. QED
    BY <2>4, <2>5
<1>8. QED
  BY <1>1, <1>2, <1>3, <1>4, <1>5, <1>6, <1>7, OneRun, MarkKept DEF RunInv

\* What a sink is given is never forgotten.
LEMMA GiveFact ==
  ASSUME TypeOK, NEW r \in Runs, NEW t \in Sinks, Give(r, t)
  PROVE  /\ version' = version /\ mark' = mark
         /\ \A u \in Sinks, x \in Rows : seen[u][x] <= seen'[u][x]
         /\ \A x \in Feed[t] : run[r].read[x] <= seen'[t][x]
<1>1. /\ version' = version /\ mark' = mark
      /\ seen' = [seen EXCEPT ![t] = [x \in Rows |->
           IF x \in Batch(r, t) THEN Newer(run[r].read[x], seen[t][x]) ELSE seen[t][x]]]
  BY DEF Give, TypeOK
<1>2. /\ \A u \in Sinks, x \in Rows : seen[u][x] \in Nat
      /\ \A x \in Rows : run[r].read[x] \in Nat
      /\ Feed[t] \subseteq Rows
  BY Typed, Constants
<1>3. ASSUME NEW u \in Sinks, NEW x \in Rows
      PROVE  /\ seen[u][x] <= seen'[u][x] /\ seen'[u][x] \in Nat
             /\ u = t /\ x \in Batch(r, t) => run[r].read[x] <= seen'[u][x]
  <2>1. CASE u = t
    <3>1. seen'[t][x] = IF x \in Batch(r, t) THEN Newer(run[r].read[x], seen[t][x])
                                             ELSE seen[t][x]
      BY <1>1 DEF TypeOK
    <3>2. QED
      BY <1>2, <2>1, <3>1 DEF Newer
  <2>2. CASE u # t
    <3>1. seen'[u] = seen[u]
      BY <1>1, <2>2 DEF TypeOK
    <3>2. QED
      BY <1>2, <2>2, <3>1
  <2>3. QED
    BY <2>1, <2>2
<1>4. ASSUME NEW x \in Feed[t] PROVE run[r].read[x] <= seen'[t][x]
  <2>1. CASE x \in Batch(r, t)
    <3>1. x \in Rows
      BY <1>2
    <3>2. QED
      BY <1>3, <2>1, <3>1
  <2>2. CASE x \notin Batch(r, t)
    <3>1. run[r].read[x] = 0
      BY <1>2, <2>2 DEF Batch
    <3>2. QED
      BY <1>2, <1>3, <3>1
  <2>3. QED
    BY <2>1, <2>2
<1>5. QED
  BY <1>1, <1>3, <1>4

\* Giving a sink more leaves the marks good, and what other runs hold as it was.
LEMMA MoreSeen ==
  ASSUME IInv, TypeOK', version' = version,
         \A u \in Sinks, x \in Rows : seen[u][x] <= seen'[u][x]
  PROVE  /\ \A t \in Incremental, m \in Nat : GoodMark(t, m) => GoodMark(t, m)'
         /\ \A q \in Runs : run'[q] = run[q] => RunInv(q)'
<1>1. TypeOK /\ \A q \in Runs : RunInv(q)
  BY DEF IInv
<1>2. /\ \A x \in Rows : version[x] \in Nat
      /\ \A u \in Sinks, x \in Rows : seen[u][x] \in Nat
      /\ \A q \in Runs, x \in Rows : run[q].read[x] \in Nat
      /\ \A q \in Runs, t \in Incremental : run[q].plan[t] \in Nat
      /\ \A q \in Runs : run[q].written \in SUBSET Incremental
      /\ Incremental \subseteq Sinks /\ \A t \in Sinks : Feed[t] \in SUBSET Rows
  BY <1>1, Typed, Constants
<1>3. \A u \in Sinks, x \in Rows : seen'[u][x] \in Nat
  BY Constants DEF TypeOK
<1>4. ASSUME NEW t \in Incremental, NEW x \in Feed[t], version'[x] > seen'[t][x]
      PROVE  version[x] > seen[t][x]
  BY <1>2, <1>3, <1>4
<1>5. ASSUME NEW t \in Incremental, NEW m \in Nat, GoodMark(t, m) PROVE GoodMark(t, m)'
  BY <1>4, <1>5 DEF GoodMark, Feed
<1>6. ASSUME NEW q \in Runs, run'[q] = run[q] PROVE RunInv(q)'
  <2>1. PlanInv(q)'
    BY <1>1, <1>2, <1>5, <1>6 DEF RunInv, PlanInv
  <2>2. ReadInv(q)'
    BY <1>1, <1>6 DEF RunInv, ReadInv
  <2>3. BatchInv(q)'
    BY <1>1, <1>4, <1>6 DEF RunInv, BatchInv, Batch, Feed
  <2>4. WrittenInv(q)'
    <3>1. ASSUME NEW t \in Incremental, NEW x \in Feed[t], run[q].read[x] <= seen[t][x]
          PROVE  run[q].read[x] <= seen'[t][x]
      BY <1>2, <1>3, <3>1
    <3>2. QED
      BY <1>1, <1>2, <1>6, <3>1 DEF RunInv, WrittenInv, Feed
  <2>5. QED
    BY <2>1, <2>2, <2>3, <2>4 DEF RunInv
<1>7. QED
  BY <1>5, <1>6

LEMMA WriteSinkKeeps ==
  ASSUME IInv, TypeOK', NEW r \in Runs, NEW t \in Sinks, WriteSink(r, t)
  PROVE  IInv'
<1> DEFINE new == [run[r] EXCEPT !.todo = @ \ {t},
                     !.pc = IF t \in Incremental THEN "save" ELSE "node",
                     !.written = {t} \cap Incremental]
<1>1. TypeOK /\ RunInv(r) /\ MarkInv /\ Give(r, t)
  BY DEF IInv, WriteSink
<1>2. /\ version' = version /\ mark' = mark
      /\ \A u \in Sinks, x \in Rows : seen[u][x] <= seen'[u][x]
      /\ \A x \in Feed[t] : run[r].read[x] <= seen'[t][x]
  BY <1>1, GiveFact
<1>3. /\ \A u \in Incremental, m \in Nat : GoodMark(u, m) => GoodMark(u, m)'
      /\ \A q \in Runs : run'[q] = run[q] => RunInv(q)'
  BY <1>2, MoreSeen
<1>4. run[r].pc = "node" /\ run[r].todo \cap Sources = {}
  BY <1>1, ExecutorAssumption DEF Give, Ready
<1>5. /\ run'[r].plan = run[r].plan /\ run'[r].read = run[r].read
      /\ run'[r].todo = run[r].todo \ {t} /\ run'[r].written = {t} \cap Incremental
      /\ \A q \in Runs \ {r} : run'[q] = run[q]
  <2>1. run[r] \in RunType /\ run' = [run EXCEPT ![r] = new]
    BY <1>1 DEF TypeOK, WriteSink
  <2>2. /\ new.plan = run[r].plan /\ new.read = run[r].read
        /\ new.todo = run[r].todo \ {t} /\ new.written = {t} \cap Incremental
    <3> DEFINE pc == IF t \in Incremental THEN "save" ELSE "node"
    <3> HIDE DEF pc
    <3>1. LET made == [run[r] EXCEPT !.todo = @ \ {t}, !.pc = pc,
                                     !.written = {t} \cap Incremental]
          IN  /\ made.plan = run[r].plan /\ made.read = run[r].read
              /\ made.todo = run[r].todo \ {t} /\ made.written = {t} \cap Incremental
      BY <2>1 DEF RunType
    <3>2. QED
      BY <3>1 DEF pc
  <2>3. run'[r] = new /\ \A q \in Runs \ {r} : run'[q] = run[q]
    <3> HIDE DEF new
    <3>1. QED
      BY <1>1, <2>1 DEF TypeOK
  <2>4. QED
    BY <2>2, <2>3
<1>6. PlanInv(r)'
  BY <1>1, <1>3, <1>5, Typed DEF RunInv, PlanInv
<1>7. ReadInv(r)'
  BY <1>1, <1>2, <1>5 DEF RunInv, ReadInv
<1>8. BatchInv(r)'
  <2>1. \A u \in Incremental : From[u] \cap run[r].todo = {}
    BY <1>4, ExecutorAssumption
  <2>2. ASSUME NEW u \in Incremental, NEW x \in Feed[u], version[x] > seen'[u][x]
        PROVE  version[x] > seen[u][x]
    <3>1. u \in Sinks /\ x \in Rows
      BY Constants
    <3>2. version[x] \in Nat /\ seen[u][x] \in Nat /\ seen[u][x] <= seen'[u][x]
      BY <1>1, <1>2, <3>1, Typed
    <3>3. seen'[u][x] \in Nat
      BY <3>1, Constants DEF TypeOK
    <3>4. QED
      BY <2>2, <3>2, <3>3
  <2>3. QED
    BY <1>1, <1>2, <1>4, <1>5, <2>1, <2>2 DEF RunInv, BatchInv, Batch, Feed
<1>9. WrittenInv(r)'
  <2>1. From[t] \cap run'[r].todo = {}
    BY <1>4, <1>5, ExecutorAssumption
  <2>2. QED
    BY <1>2, <1>5, <2>1 DEF WrittenInv, Feed
<1>10. MarkInv'
  BY <1>1, <1>2, <1>3, Typed DEF MarkInv
<1>11. \A q \in Runs : RunInv(q)'
  BY <1>3, <1>5, <1>6, <1>7, <1>8, <1>9 DEF RunInv
<1>12. QED
  BY <1>10, <1>11 DEF IInv

LEMMA WriteUnknownKeeps ==
  ASSUME IInv, TypeOK', NEW r \in Runs, NEW t \in Sinks, WriteUnknown(r, t)
  PROVE  IInv'
<1> DEFINE new == [NewRun EXCEPT !.pc = "finish", !.verdict = "failed"]
<1>1. TypeOK /\ MarkInv /\ Give(r, t)
  BY DEF IInv, WriteUnknown
<1>2. /\ version' = version /\ mark' = mark
      /\ \A u \in Sinks, x \in Rows : seen[u][x] <= seen'[u][x]
  BY <1>1, GiveFact
<1>3. /\ \A u \in Incremental, m \in Nat : GoodMark(u, m) => GoodMark(u, m)'
      /\ \A q \in Runs : run'[q] = run[q] => RunInv(q)'
  BY <1>2, MoreSeen
<1>4. run'[r] = new /\ \A q \in Runs \ {r} : run'[q] = run[q]
  BY <1>1 DEF WriteUnknown, Ending, TypeOK
<1>5. new.pc = "finish" /\ new.plan = NewRun.plan /\ new.read = NewRun.read
  BY DEF NewRun
<1>6. ReadInv(r)'
  <2>1. \A x \in Rows : run'[r].read[x] = 0 /\ version[x] \in Nat
    BY <1>1, <1>4, <1>5, Typed DEF NewRun
  <2>2. QED
    BY <1>2, <2>1 DEF ReadInv
<1>7. RunInv(r)'
  <2>1. run'[r].pc = "finish" /\ \A u \in Incremental : run'[r].plan[u] = 0
    BY <1>4, <1>5 DEF NewRun
  <2>2. QED
    BY <1>6, <2>1, QuietRun
<1>8. MarkInv'
  BY <1>1, <1>2, <1>3, Typed DEF MarkInv
<1>9. QED
  BY <1>3, <1>4, <1>7, <1>8 DEF IInv

\* What a run saves is a good mark.
LEMMA AdvancedGood ==
  ASSUME IInv, NEW r \in Runs, run[r].pc = "save", NEW t \in run[r].written
  PROVE  t \in Incremental /\ GoodMark(t, Advanced(r, t))
<1>1. TypeOK /\ RunInv(r)
  BY DEF IInv
<1>2. t \in Incremental /\ t \in Sinks
  BY <1>1, Typed, Constants
<1>3. CASE Batch(r, t) = {} /\ Advanced(r, t) = run[r].plan[t]
  BY <1>1, <1>2, <1>3 DEF RunInv, PlanInv
<1>4. CASE \E y \in Batch(r, t) : Advanced(r, t) = run[r].read[y]
  <2>1. PICK y \in Batch(r, t) : Advanced(r, t) = run[r].read[y]
    BY <1>4
  <2>2. y \in Rows /\ run[r].read[y] <= version[y]
    BY <1>1, <1>2, Constants DEF Batch, RunInv, ReadInv
  <2>3. From[t] \cap run[r].todo = {} /\ \A x \in Feed[t] : run[r].read[x] <= seen[t][x]
    BY <1>1 DEF RunInv, WrittenInv
  <2>4. ASSUME NEW x \in Feed[t], version[x] > seen[t][x]
        PROVE  version[x] > run[r].read[y] - Lookback[t]
    <3>1. x \in Rows /\ version[x] \in Nat /\ seen[t][x] \in Nat /\ run[r].read[x] \in Nat
      BY <1>1, <1>2, Typed, Constants
    <3>2. version[x] > run[r].read[x]
      BY <2>3, <2>4, <3>1
    <3>3. QED
      BY <1>1, <1>2, <2>3, <2>4, <3>2 DEF RunInv, BatchInv
  <2>5. QED
    BY <1>2, <2>1, <2>2, <2>4 DEF GoodMark
<1>5. QED
  BY <1>1, <1>2, <1>3, <1>4, AdvancedType

LEMMA SaveStateKeeps ==
  ASSUME IInv, TypeOK', NEW r \in Runs, SaveState(r)
  PROVE  IInv'
<1>1. TypeOK /\ RunInv(r) /\ MarkInv
  BY DEF IInv
<1>2. /\ run[r].pc = "save" /\ version' = version /\ seen' = seen
      /\ run' = [run EXCEPT ![r].pc = "node", ![r].written = {}]
  BY <1>1 DEF SaveState, sinkVars
<1>3. MarkInv'
  <2>1. PICK t \in run[r].written :
          mark' = mark \/ mark' = [mark EXCEPT ![t] = Advanced(r, t)]
    BY DEF SaveState, MayBeLost
  <2>2. t \in Incremental /\ GoodMark(t, Advanced(r, t))
    BY <1>2, AdvancedGood
  <2>3. \A u \in Incremental : GoodMark(u, mark'[u])
    BY <1>1, <2>1, <2>2 DEF MarkInv, TypeOK
  <2>4. QED
    BY <1>2, <2>3, GoodKept DEF MarkInv
<1>4. /\ run'[r].plan = run[r].plan /\ run'[r].read = run[r].read
      /\ run'[r].todo = run[r].todo /\ run'[r].pc = "node"
      /\ \A q \in Runs \ {r} : run'[q] = run[q]
  BY <1>1, <1>2 DEF TypeOK, RunType
<1>5. BatchInv(r)'
  BY <1>1, <1>2, <1>4 DEF RunInv, BatchInv, Batch, Feed
<1>6. QED
  BY <1>2, <1>3, <1>4, <1>5, SameReads

\* A row that arrives is less than Late behind the newest, and every sink looks
\* back that far.
LEMMA ArriveKeeps ==
  ASSUME IInv, TypeOK', NEW x \in Rows, NEW m \in Marks, Arrive(x, m)
  PROVE  IInv'
<1>1. TypeOK /\ MarkInv /\ \A r \in Runs : RunInv(r)
  BY DEF IInv
<1>2. /\ version' = [version EXCEPT ![x] = m] /\ m > version[x]
      /\ seen' = seen /\ mark' = mark /\ run' = run
      /\ \A y \in Rows : m > version[y] - Late
  BY DEF Arrive, sinkVars
<1>3. /\ m \in Nat /\ Late \in Nat /\ \A t \in Incremental : Late <= Lookback[t]
      /\ \A y \in Rows : version[y] \in Nat
      /\ \A t \in Incremental : Lookback[t] \in Nat /\ Feed[t] \in SUBSET Rows
      /\ \A t \in Incremental : mark[t] \in Nat
      /\ \A r \in Runs, t \in Incremental : run[r].plan[t] \in Nat
      /\ \A r \in Runs, y \in Rows : run[r].read[y] \in Nat
  BY <1>1, Typed, Constants, ExecutorAssumption
<1>4. \A y \in Rows : /\ version'[y] = IF y = x THEN m ELSE version[y]
                      /\ version[y] <= version'[y] /\ version'[y] \in Nat
  BY <1>1, <1>2, <1>3 DEF TypeOK
<1>5. ASSUME NEW t \in Incremental, NEW n \in Nat, GoodMark(t, n) PROVE GoodMark(t, n)'
  <2>1. ASSUME NEW y \in Feed[t], version'[y] > seen[t][y]
        PROVE  version'[y] > n - Lookback[t]
    <3>1. CASE y = x
      <4>1. CASE n = 0
        <5>1. seen[t][y] \in Nat
          BY <1>1, <1>3, Typed, Constants
        <5>2. QED
          BY <1>3, <1>4, <2>1, <4>1, <5>1
      <4>2. CASE \E z \in Rows : n <= version[z]
        BY <1>2, <1>3, <1>4, <3>1, <4>2
      <4>3. QED
        BY <1>5, <4>1, <4>2 DEF GoodMark
    <3>2. CASE y # x
      BY <1>3, <1>4, <1>5, <2>1, <3>2 DEF GoodMark
    <3>3. QED
      BY <3>1, <3>2
  <2>2. n = 0 \/ \E y \in Rows : n <= version'[y]
    BY <1>3, <1>4, <1>5 DEF GoodMark
  <2>3. QED
    BY <1>2, <2>1, <2>2 DEF GoodMark, Feed
<1>6. MarkInv'
  BY <1>1, <1>2, <1>3, <1>5 DEF MarkInv
<1>7. ASSUME NEW r \in Runs PROVE RunInv(r)'
  <2>1. PlanInv(r)'
    BY <1>1, <1>2, <1>3, <1>5 DEF RunInv, PlanInv
  <2>2. ReadInv(r)'
    BY <1>1, <1>2, <1>3, <1>4 DEF RunInv, ReadInv
  <2>3. BatchInv(r)'
    <3> SUFFICES ASSUME run[r].pc \in {"node", "save"},
                        NEW t \in Incremental, From[t] \cap run[r].todo = {},
                        NEW z \in Feed[t], version'[z] > seen[t][z],
                        version'[z] > run[r].read[z], NEW y \in Batch(r, t)
                 PROVE  version'[z] > run[r].read[y] - Lookback[t]
      BY <1>2 DEF BatchInv, Batch, Feed
    <3>1. y \in Rows /\ run[r].read[y] <= version[y]
      BY <1>1, <1>3 DEF Batch, RunInv, ReadInv
    <3>2. CASE z = x
      BY <1>2, <1>3, <1>4, <3>1, <3>2
    <3>3. CASE z # x
      BY <1>1, <1>3, <1>4, <3>3 DEF RunInv, BatchInv
    <3>4. QED
      BY <3>2, <3>3
  <2>4. WrittenInv(r)'
    BY <1>1, <1>2 DEF RunInv, WrittenInv, Feed
  <2>5. QED
    BY <2>1, <2>2, <2>3, <2>4 DEF RunInv
<1>8. QED
  BY <1>6, <1>7 DEF IInv

-----------------------------------------------------------------------------
LEMMA IInvStep ==
  ASSUME SingleSource, InTurn, IInv, [Next]_vars
  PROVE  IInv'
<1> USE DEF sinkVars
<1>1. TypeOK /\ TypeOK' /\ MarkInv /\ \A r \in Runs : RunInv(r)
  BY TypeStep DEF IInv
<1>2. ASSUME NEW r \in Runs, NEW mode \in Modes, Start(r, mode) PROVE IInv'
  <2> DEFINE new == [NewRun EXCEPT !.pc = "load", !.mode = mode, !.todo = Incremental]
  <2>1. new.pc = "load" /\ new.plan = NewRun.plan /\ new.read = NewRun.read
    BY DEF NewRun
  <2>2. QED
    BY <1>1, <1>2, <2>1, LeftRun DEF Start
<1>3. ASSUME NEW r \in Runs, LoadState(r) PROVE IInv'
  <2>1. PICK t \in run[r].todo :
          \/ Leave(r, "done")
          \/ run' = [run EXCEPT ![r].plan[t] = mark[t], ![r].todo = @ \ {t}]
    BY <1>3 DEF LoadState
  <2>2. run[r].pc = "load" /\ version' = version /\ seen' = seen /\ mark' = mark
    BY <1>3 DEF LoadState
  <2>3. CASE Leave(r, "done")
    BY <1>1, <2>2, <2>3, LeaveKeeps
  <2>4. CASE run' = [run EXCEPT ![r].plan[t] = mark[t], ![r].todo = @ \ {t}]
    <3>1. run[r] \in RunType
      BY <1>1 DEF TypeOK
    <3>2. /\ run'[r].plan = [run[r].plan EXCEPT ![t] = mark[t]]
          /\ run'[r].read = run[r].read /\ run'[r].pc = "load"
          /\ \A q \in Runs \ {r} : run'[q] = run[q]
      BY <1>1, <2>2, <2>4, <3>1 DEF TypeOK, RunType
    <3>3. \A u \in Incremental : GoodMark(u, run'[r].plan[u])
      BY <1>1, <3>1, <3>2 DEF RunInv, PlanInv, MarkInv, RunType
    <3>4. PlanInv(r)' /\ ReadInv(r)'
      BY <1>1, <2>2, <3>2, <3>3, GoodKept DEF PlanInv, RunInv, ReadInv
    <3>5. BatchInv(r)' /\ WrittenInv(r)'
      BY <3>2 DEF BatchInv, WrittenInv
    <3>6. QED
      BY <1>1, <2>2, <3>2, <3>4, <3>5, OneRun, MarkKept DEF RunInv
  <2>5. QED
    BY <2>1, <2>3, <2>4
<1>4. ASSUME NEW r \in Runs, Refuse(r) \/ SecretMissing(r) PROVE IInv'
  BY <1>1, <1>4, LeaveKeeps DEF Refuse, SecretMissing
<1>5. ASSUME NEW r \in Runs, CreateRun(r) PROVE IInv'
  <2>1. /\ run' = [run EXCEPT ![r].pc = "begin"]
        /\ version' = version /\ seen' = seen /\ mark' = mark
    BY <1>5 DEF CreateRun
  <2>2. /\ run'[r].plan = run[r].plan /\ run'[r].read = run[r].read
        /\ run'[r].pc = "begin" /\ \A q \in Runs \ {r} : run'[q] = run[q]
    BY <1>1, <2>1 DEF TypeOK, RunType
  <2>3. QED
    BY <1>1, <2>1, <2>2, SameReads, MarkKept DEF BatchInv
<1>6. ASSUME NEW r \in Runs, SetRunning(r) PROVE IInv'
  <2>1. /\ run' = [run EXCEPT ![r].pc = "node", ![r].todo = Nodes]
        /\ version' = version /\ seen' = seen /\ mark' = mark
    BY <1>6 DEF SetRunning
  <2>2. /\ run'[r].plan = run[r].plan /\ run'[r].read = run[r].read
        /\ run'[r].pc = "node" /\ run'[r].todo = Nodes
        /\ \A q \in Runs \ {r} : run'[q] = run[q]
    BY <1>1, <2>1 DEF TypeOK, RunType
  <2>3. BatchInv(r)'
    BY <2>2, ExecutorAssumption DEF BatchInv, Nodes
  <2>4. QED
    BY <1>1, <2>1, <2>2, <2>3, SameReads, MarkKept
<1>7. ASSUME NEW r \in Runs, StopIfCancelled(r) \/ NodeFails(r) PROVE IInv'
  BY <1>1, <1>7, EndingKeeps DEF StopIfCancelled, NodeFails
<1>8. ASSUME NEW r \in Runs, NEW s \in Sources, ReadSource(r, s) PROVE IInv'
  BY <1>1, <1>8, ReadSourceKeeps
<1>9. ASSUME NEW r \in Runs, NEW t \in Sinks, WriteSink(r, t) PROVE IInv'
  BY <1>1, <1>9, WriteSinkKeeps
<1>10. ASSUME NEW r \in Runs, NEW t \in Sinks, WriteUnknown(r, t) PROVE IInv'
  BY <1>1, <1>10, WriteUnknownKeeps
<1>11. ASSUME NEW r \in Runs, SaveState(r) PROVE IInv'
  BY <1>1, <1>11, SaveStateKeeps
<1>12. ASSUME NEW r \in Runs, Complete(r) PROVE IInv'
  <2> DEFINE new == [NewRun EXCEPT !.pc = "finish", !.read = run[r].read]
  <2>1. /\ run' = [run EXCEPT ![r] = new]
        /\ version' = version /\ seen' = seen /\ mark' = mark
    BY <1>12 DEF Complete
  <2>2. /\ run'[r].pc = "finish" /\ run'[r].read = run[r].read
        /\ \A t \in Incremental : run'[r].plan[t] = 0
        /\ \A q \in Runs \ {r} : run'[q] = run[q]
    BY <1>1, <2>1 DEF TypeOK, NewRun
  <2>3. ReadInv(r)'
    BY <1>1, <2>1, <2>2 DEF RunInv, ReadInv
  <2>4. RunInv(r)'
    BY <1>1, <2>2, <2>3, QuietRun
  <2>5. QED
    BY <1>1, <2>1, <2>2, <2>4, OneRun, MarkKept
<1>13. ASSUME NEW r \in Runs, Finish(r) PROVE IInv'
  <2>1. /\ run' = [run EXCEPT ![r].pc = "announce"]
        /\ version' = version /\ seen' = seen /\ mark' = mark
    BY <1>13 DEF Finish
  <2>2. /\ run'[r].plan = run[r].plan /\ run'[r].read = run[r].read
        /\ run'[r].pc = "announce" /\ \A q \in Runs \ {r} : run'[q] = run[q]
    BY <1>1, <2>1 DEF TypeOK, RunType
  <2>3. QED
    BY <1>1, <2>1, <2>2, SameReads, MarkKept DEF BatchInv
<1>14. ASSUME NEW r \in Runs, Announce(r) \/ Vanish(r) PROVE IInv'
  BY <1>1, <1>14, LeaveKeeps DEF Announce, Vanish
<1>15. ASSUME NEW t \in Incremental, Reset(t) PROVE IInv'
  <2>1. /\ mark' = [mark EXCEPT ![t] = 0]
        /\ version' = version /\ seen' = seen /\ run' = run
    BY <1>15 DEF Reset
  <2>2. \A u \in Incremental : GoodMark(u, mark'[u])
    BY <1>1, <2>1, NoMark DEF MarkInv, TypeOK
  <2>3. MarkInv'
    BY <2>1, <2>2, GoodKept DEF MarkInv
  <2>4. QED
    BY <1>1, <2>1, <2>3, RunKept DEF IInv
<1>16. ASSUME NEW x \in Rows, NEW m \in Marks, Arrive(x, m) PROVE IInv'
  BY <1>1, <1>16, ArriveKeeps
<1>17. ASSUME UNCHANGED vars PROVE IInv'
  <2>1. version' = version /\ seen' = seen /\ mark' = mark /\ run' = run
    BY <1>17 DEF vars
  <2>2. QED
    BY <1>1, <2>1, RunKept, MarkKept DEF IInv
<1>18. QED
  BY <1>2, <1>3, <1>4, <1>5, <1>6, <1>7, <1>8, <1>9, <1>10, <1>11, <1>12,
     <1>13, <1>14, <1>15, <1>16, <1>17 DEF Next, RunStep

-----------------------------------------------------------------------------
(* No row is lost, and incremental materialization delivers at least once *)

LEMMA IInvImplies ==
  ASSUME SingleSource, Unmixed, InTurn, IInv
  PROVE  NoRowLost
<1> SUFFICES ASSUME NEW t \in Sinks, NEW x \in Feed[t], version[x] > seen[t][x]
             PROVE  version[x] > Filter(SourceOf[x], mark)
  BY DEF NoRowLost
<1> DEFINE s == SourceOf[x]
<1>1. TypeOK /\ MarkInv
  BY DEF IInv
<1>2. s \in From[t] /\ x \in Rows
  BY DEF Feed
<1>3. version[x] \in Nat /\ seen[t][x] \in Nat /\ mark \in [Incremental -> Marks]
  BY <1>1, <1>2, Typed DEF TypeOK
<1>4. CASE t \in Incremental
  <2>1. mark[t] \in Nat /\ Lookback[t] \in Nat
    BY <1>1, <1>4, Typed, Constants
  <2>2. version[x] > mark[t] - Lookback[t]
    BY <1>1, <1>4 DEF MarkInv, GoodMark
  <2>3. \/ Filter(s, mark) = 0
        \/ Filter(s, mark) \in Int /\ Filter(s, mark) <= mark[t] - Lookback[t]
    BY <1>2, <1>3, <1>4, FilterFact
  <2>4. QED
    BY <1>3, <2>1, <2>2, <2>3
<1>5. CASE t \notin Incremental
  <2>1. {u \in Incremental : s \in From[u]} = {}
    BY <1>2, <1>5 DEF Unmixed
  <2>2. Filter(s, mark) = 0
    BY <2>1 DEF Filter
  <2>3. QED
    BY <1>3, <2>2
<1>6. QED
  BY <1>4, <1>5

\* Whatever runs overlap, vanish or lose writes, and whatever is reset: what a
\* sink has not been given is in front of the filter of the next read.  Of the
\* pipeline it assumes that an incremental sink has one source, that it shares
\* with incremental sinks only, and watermarks whose strings sort as they do:
\* the code loses rows without any of the three.
THEOREM NothingIsLost ==
  ASSUME SingleSource, Unmixed, InTurn
  PROVE  Spec => []NoRowLost
<1>1. Init => IInv
  BY IInvInit
<1>2. IInv /\ [Next]_vars => IInv'
  BY IInvStep
<1>3. IInv => NoRowLost
  BY IInvImplies
<1>4. QED
  BY <1>1, <1>2, <1>3, PTL DEF Spec

LEMMA PromiseInit == Init => Promise!Init
BY Constants DEF Init, Promise!Init

\* Giving an incremental sink its batch delivers; a full sink is not promised
\* anything.
LEMMA GiveDelivers ==
  ASSUME IInv, TypeOK', NEW r \in Runs, NEW t \in Sinks, Give(r, t)
  PROVE  [Promise!Next]_(Promise!vars)
<1>1. TypeOK /\ RunInv(r)
  BY DEF IInv
<1>2. /\ version' = version /\ mark' = mark
      /\ \A u \in Sinks, x \in Rows : seen[u][x] <= seen'[u][x]
      /\ seen' = [seen EXCEPT ![t] = [x \in Rows |->
           IF x \in Batch(r, t) THEN Newer(run[r].read[x], seen[t][x]) ELSE seen[t][x]]]
  BY <1>1, GiveFact DEF Give, TypeOK
<1>3. CASE t \in Incremental
  <2> DEFINE new == seen'[t]
  <2>1. new \in [Rows -> Marks]
    BY DEF TypeOK
  <2>2. [u \in Incremental |-> seen'[u]]
          = [[u \in Incremental |-> seen[u]] EXCEPT ![t] = new]
    BY <1>1, <1>2, <1>3, Constants DEF TypeOK
  <2>3. ASSUME NEW x \in Feed[t], new[x] > seen[t][x] PROVE new[x] <= version[x]
    <3>1. x \in Rows
      BY <1>3, Constants
    <3>2. new[x] = IF x \in Batch(r, t) THEN Newer(run[r].read[x], seen[t][x])
                                        ELSE seen[t][x]
      BY <1>1, <1>2, <3>1 DEF TypeOK
    <3>3. seen[t][x] \in Nat /\ run[r].read[x] <= version[x]
      BY <1>1, <3>1, Typed DEF RunInv, ReadInv
    <3>4. QED
      BY <2>3, <3>2, <3>3 DEF Newer
  <2>4. Promise!Deliver(t)
    <3>1. \A x \in Rows : [u \in Incremental |-> seen[u]][t][x] <= new[x]
      BY <1>2, <1>3, Constants
    <3>2. \A x \in Feed[t] : new[x] > [u \in Incremental |-> seen[u]][t][x]
                               => new[x] <= version[x]
      BY <1>3, <2>3
    <3>3. new \in [Rows -> Promise!Marks]
      BY <2>1 DEF Marks, Promise!Marks
    <3>4. QED
      BY <1>2, <2>2, <3>1, <3>2, <3>3 DEF Promise!Deliver
  <2>5. QED
    BY <1>3, <2>4 DEF Promise!Next
<1>4. CASE t \notin Incremental
  <2>1. \A u \in Incremental : seen'[u] = seen[u]
    BY <1>1, <1>2, <1>4, Constants DEF TypeOK
  <2>2. QED
    BY <1>2, <2>1 DEF Promise!vars
<1>5. QED
  BY <1>3, <1>4

\* A good mark is one that the mark may move to.
LEMMA GoodMoves ==
  ASSUME NEW t \in Incremental, NEW m \in Marks, GoodMark(t, m),
         mark' = [mark EXCEPT ![t] = m], version' = version, seen' = seen
  PROVE  Promise!Next
<1>1. Promise!Covered(t, m)
  BY DEF GoodMark, Promise!Covered
<1>2. m \in Promise!Marks
  BY DEF Marks, Promise!Marks
<1>3. Promise!Move(t, m)
  BY <1>1 DEF GoodMark, Promise!Move
<1>4. QED
  BY <1>2, <1>3 DEF Promise!Next

LEMMA PromiseStep ==
  ASSUME IInv, [Next]_vars
  PROVE  [Promise!Next]_(Promise!vars)
<1>1. TypeOK /\ TypeOK' /\ MarkInv
  BY TypeStep DEF IInv
<1>2. ASSUME NEW r \in Runs, NEW t \in Sinks, WriteSink(r, t) \/ WriteUnknown(r, t)
      PROVE  [Promise!Next]_(Promise!vars)
  BY <1>1, <1>2, GiveDelivers DEF WriteSink, WriteUnknown
<1>3. ASSUME NEW r \in Runs, SaveState(r) PROVE [Promise!Next]_(Promise!vars)
  <2>1. PICK t \in run[r].written :
          mark' = mark \/ mark' = [mark EXCEPT ![t] = Advanced(r, t)]
    BY <1>3 DEF SaveState, MayBeLost
  <2>2. run[r].pc = "save" /\ version' = version /\ seen' = seen
    BY <1>3 DEF SaveState, sinkVars
  <2>3. CASE mark' = mark
    BY <2>2, <2>3 DEF Promise!vars
  <2>4. CASE mark' = [mark EXCEPT ![t] = Advanced(r, t)]
    <3>1. t \in Incremental /\ GoodMark(t, Advanced(r, t))
      BY <2>2, AdvancedGood
    <3>2. Advanced(r, t) \in Marks
      <4>1. run[r].plan \in [Incremental -> Marks] /\ run[r].read \in [Rows -> Marks]
        BY <1>1 DEF TypeOK, RunType
      <4>2. Batch(r, t) \subseteq Rows
        BY <3>1, Constants DEF Batch
      <4>3. QED
        BY <1>1, <3>1, <4>1, <4>2, AdvancedType
    <3>3. QED
      BY <2>2, <2>4, <3>1, <3>2, GoodMoves
  <2>5. QED
    BY <2>1, <2>3, <2>4
<1>4. ASSUME NEW t \in Incremental, Reset(t) PROVE [Promise!Next]_(Promise!vars)
  <2>1. 0 \in Marks /\ GoodMark(t, 0)
    BY <1>1, NoMark, ExecutorAssumption DEF Marks
  <2>2. QED
    BY <1>4, <2>1, GoodMoves DEF Reset, sinkVars
<1>5. ASSUME NEW x \in Rows, NEW m \in Marks, Arrive(x, m)
      PROVE  [Promise!Next]_(Promise!vars)
  <2>1. Promise!Arrive(x, m)
    BY <1>5 DEF Arrive, Promise!Arrive, sinkVars
  <2>2. QED
    BY <2>1 DEF Promise!Next, Marks, Promise!Marks
<1>6. ASSUME version' = version, seen' = seen, mark' = mark
      PROVE  [Promise!Next]_(Promise!vars)
  BY <1>6 DEF Promise!vars
<1>7. ASSUME NEW r \in Runs,
             \/ \E mode \in Modes : Start(r, mode)
             \/ LoadState(r) \/ Refuse(r) \/ CreateRun(r) \/ SetRunning(r)
             \/ StopIfCancelled(r) \/ NodeFails(r) \/ SecretMissing(r)
             \/ \E s \in Sources : ReadSource(r, s)
             \/ Complete(r) \/ Finish(r) \/ Announce(r) \/ Vanish(r)
      PROVE  [Promise!Next]_(Promise!vars)
  BY <1>6, <1>7 DEF sinkVars, Start, LoadState, Refuse, CreateRun, SetRunning,
     StopIfCancelled, NodeFails, SecretMissing, ReadSource, Complete, Finish,
     Announce, Vanish
<1>8. ASSUME UNCHANGED vars PROVE [Promise!Next]_(Promise!vars)
  BY <1>6, <1>8 DEF vars
<1>9. QED
  BY <1>2, <1>3, <1>4, <1>5, <1>7, <1>8 DEF Next, RunStep

\* The runs of a pipeline implement Delivery: incremental sinks get every row
\* at least once.
THEOREM DeliveredAtLeastOnce ==
  ASSUME SingleSource, InTurn
  PROVE  Spec => AtLeastOnce
<1>1. Init => IInv /\ Promise!Init
  BY IInvInit, PromiseInit
<1>2. IInv /\ [Next]_vars => IInv'
  BY IInvStep
<1>3. IInv /\ [Next]_vars => [Promise!Next]_(Promise!vars)
  BY PromiseStep
<1>4. QED
  BY <1>1, <1>2, <1>3, PTL DEF Spec, AtLeastOnce, Promise!Spec

\* What Delivery says of the next read holds of the runs: nothing that a sink
\* lacks is behind its stored mark by the lookback or more.
THEOREM NothingBehindTheMark ==
  ASSUME SingleSource, InTurn
  PROVE  Spec => []Promise!NothingLeftBehind
<1>1. IInv => Promise!NothingLeftBehind
  BY DEF IInv, MarkInv, GoodMark, Promise!NothingLeftBehind, Promise!Covered
<1>2. IInv /\ [Next]_vars => IInv'
  BY IInvStep
<1>3. QED
  BY IInvInit, <1>1, <1>2, PTL DEF Spec

-----------------------------------------------------------------------------
(* A success is recorded for a run that has delivered all it read *)

Delivered(r, t) == \A x \in Feed[t] : run[r].read[x] <= seen[t][x]

\* Sinks come after all sources, and one that is done has its batch; a run ends
\* in success only after all of them, and nobody else writes its row.
EndInv(r) ==
  /\ run[r].pc \in {"node", "save"} =>
       \A t \in Sinks \ run[r].todo : run[r].todo \cap Sources = {} /\ Delivered(r, t)
  /\ (run[r].pc \in {"finish", "announce"} /\ run[r].verdict = "success") =>
       \A t \in Sinks : Delivered(r, t)
  /\ run[r].pc \notin {"announce", "done", "gone"} => status[r] # "success"
  /\ (run[r].pc = "announce" /\ status[r] = "success") => run[r].verdict = "success"

\* A run that does not move keeps what it has delivered.
LEMMA EndKept ==
  ASSUME TypeOK, TypeOK', NEW q \in Runs, EndInv(q), run'[q] = run[q], status'[q] = status[q],
         \A u \in Sinks, x \in Rows : seen[u][x] <= seen'[u][x]
  PROVE  EndInv(q)'
<1>1. ASSUME NEW t \in Sinks, Delivered(q, t) PROVE Delivered(q, t)'
  <2>1. ASSUME NEW x \in Feed[t] PROVE run[q].read[x] <= seen'[t][x]
    <3>1. x \in Rows
      BY Constants
    <3>2. run[q].read[x] \in Nat /\ seen[t][x] \in Nat /\ run[q].read[x] <= seen[t][x]
      BY <1>1, <3>1, Typed DEF Delivered
    <3>3. seen'[t][x] \in Nat /\ seen[t][x] <= seen'[t][x]
      BY <3>1, Constants DEF TypeOK
    <3>4. QED
      BY <3>2, <3>3
  <2>2. QED
    BY <2>1 DEF Delivered, Feed
<1>2. QED
  BY <1>1 DEF EndInv

EInv == TypeOK /\ \A r \in Runs : EndInv(r)

\* A step of run r alone that gives no sink anything.
LEMMA EndOneRun ==
  ASSUME EInv, TypeOK', NEW r \in Runs, seen' = seen,
         \A q \in Runs \ {r} : run'[q] = run[q] /\ status'[q] = status[q],
         EndInv(r)'
  PROVE  EInv'
<1>1. TypeOK /\ \A u \in Sinks, x \in Rows : seen[u][x] \in Nat
  BY Typed DEF EInv
<1>2. \A u \in Sinks, x \in Rows : seen[u][x] <= seen'[u][x]
  BY <1>1
<1>3. \A q \in Runs : EndInv(q)'
  BY <1>1, <1>2, EndKept DEF EInv
<1>4. QED
  BY <1>3 DEF EInv

\* A run that returns, vanishes or ends its nodes early records no success.
LEMMA EndLeave ==
  ASSUME EInv, TypeOK', NEW r \in Runs, seen' = seen, status' = status,
         NEW new, run' = [run EXCEPT ![r] = new],
         \/ new.pc \in {"done", "gone"}
         \/ new.pc = "load" /\ status[r] # "success"
         \/ new.pc = "finish" /\ new.verdict # "success" /\ status[r] # "success"
  PROVE  EInv'
<1>1. run'[r] = new /\ \A q \in Runs \ {r} : run'[q] = run[q]
  BY DEF EInv, TypeOK
<1>2. EndInv(r)'
  BY <1>1 DEF EndInv
<1>3. QED
  BY <1>1, <1>2, EndOneRun

LEMMA EInvInit == Init => EInv
<1> SUFFICES ASSUME Init PROVE EInv
  OBVIOUS
<1>1. ASSUME NEW r \in Runs PROVE EndInv(r)
  BY DEF Init, EndInv, NewRun
<1>2. QED
  BY <1>1, TypeInit DEF EInv

LEMMA EInvStep == EInv /\ [Next]_vars => EInv'
<1> SUFFICES ASSUME EInv, [Next]_vars PROVE EInv'
  OBVIOUS
<1> USE DEF sinkVars
<1>1. TypeOK /\ TypeOK' /\ \A r \in Runs : EndInv(r)
  BY TypeStep DEF EInv
<1>2. \A r \in Runs : run[r] \in RunType
  BY <1>1 DEF TypeOK
<1>3. ASSUME NEW r \in Runs, NEW mode \in Modes, Start(r, mode) PROVE EInv'
  <2> DEFINE new == [NewRun EXCEPT !.pc = "load", !.mode = mode, !.todo = Incremental]
  <2>1. new.pc = "load" /\ status[r] # "success"
    BY <1>1, <1>3 DEF NewRun, Start, EndInv
  <2>2. QED
    BY <1>1, <1>3, <2>1, EndLeave DEF Start
<1>4. ASSUME NEW r \in Runs, NEW how \in {"done", "gone"}, Leave(r, how),
             seen' = seen, status' = status
      PROVE  EInv'
  <2> DEFINE new == [NewRun EXCEPT !.pc = how]
  <2>1. new.pc = how
    BY DEF NewRun
  <2>2. QED
    BY <1>1, <1>4, <2>1, EndLeave DEF Leave
<1>5. ASSUME NEW r \in Runs, NEW verdict \in {"failed", "cancelled"}, Ending(r, verdict),
             run[r].pc = "node", seen' = seen, status' = status
      PROVE  EInv'
  <2> DEFINE new == [NewRun EXCEPT !.pc = "finish", !.verdict = verdict]
  <2>1. new.pc = "finish" /\ new.verdict = verdict
    BY DEF NewRun
  <2>2. status[r] # "success"
    BY <1>1, <1>5 DEF EndInv
  <2>3. QED
    BY <1>1, <1>5, <2>1, <2>2, EndLeave DEF Ending
<1>6. ASSUME NEW r \in Runs, LoadState(r) PROVE EInv'
  <2>1. PICK t \in run[r].todo :
          \/ Leave(r, "done")
          \/ run' = [run EXCEPT ![r].plan[t] = mark[t], ![r].todo = @ \ {t}]
    BY <1>6 DEF LoadState
  <2>2. run[r].pc = "load" /\ seen' = seen /\ status' = status
    BY <1>6 DEF LoadState
  <2>3. CASE run' = [run EXCEPT ![r].plan[t] = mark[t], ![r].todo = @ \ {t}]
    <3>1. run'[r].pc = "load" /\ \A q \in Runs \ {r} : run'[q] = run[q]
      BY <1>1, <1>2, <2>2, <2>3 DEF TypeOK, RunType
    <3>2. EndInv(r)'
      BY <1>1, <2>2, <3>1 DEF EndInv
    <3>3. QED
      BY <1>1, <2>2, <3>1, <3>2, EndOneRun
  <2>4. QED
    BY <1>4, <2>1, <2>2, <2>3
<1>7. ASSUME NEW r \in Runs, Refuse(r) \/ SecretMissing(r) \/ Announce(r) \/ Vanish(r)
      PROVE  EInv'
  BY <1>4, <1>7 DEF Refuse, SecretMissing, Announce, Vanish
<1>8. ASSUME NEW r \in Runs, StopIfCancelled(r) \/ NodeFails(r) PROVE EInv'
  BY <1>5, <1>8 DEF StopIfCancelled, NodeFails
<1>9. ASSUME NEW r \in Runs, CreateRun(r) PROVE EInv'
  <2>1. /\ run'[r].pc = "begin" /\ status'[r] = "pending" /\ seen' = seen
        /\ \A q \in Runs \ {r} : run'[q] = run[q] /\ status'[q] = status[q]
    BY <1>1, <1>2, <1>9 DEF CreateRun, TypeOK, RunType
  <2>2. QED
    BY <1>1, <2>1, EndOneRun DEF EndInv
<1>10. ASSUME NEW r \in Runs, SetRunning(r) PROVE EInv'
  <2>1. /\ run[r].pc = "begin" /\ seen' = seen
        /\ status' = [status EXCEPT ![r] = "running"] \/ status' = status
        /\ run' = [run EXCEPT ![r].pc = "node", ![r].todo = Nodes]
    BY <1>10 DEF SetRunning, MayBeLost
  <2>2. /\ run'[r].pc = "node" /\ run'[r].todo = Nodes
        /\ \A q \in Runs \ {r} : run'[q] = run[q]
    BY <1>1, <1>2, <2>1 DEF TypeOK, RunType
  <2>3. status'[r] # "success" /\ \A q \in Runs \ {r} : status'[q] = status[q]
    BY <1>1, <2>1 DEF TypeOK, EndInv
  <2>4. EndInv(r)'
    BY <2>2, <2>3 DEF EndInv, Nodes
  <2>5. QED
    BY <1>1, <2>1, <2>2, <2>3, <2>4, EndOneRun
<1>11. ASSUME NEW r \in Runs, NEW s \in Sources, ReadSource(r, s) PROVE EInv'
  <2>1. PICK read : run' = [run EXCEPT ![r].todo = @ \ {s}, ![r].read = read]
    BY <1>11 DEF ReadSource
  <2>2. /\ run[r].pc = "node" /\ s \in run[r].todo
        /\ seen' = seen /\ status' = status
    BY <1>11 DEF ReadSource, Ready
  <2>3. /\ run'[r].pc = "node" /\ run'[r].todo = run[r].todo \ {s}
        /\ \A q \in Runs \ {r} : run'[q] = run[q]
    BY <1>1, <1>2, <2>1, <2>2 DEF TypeOK, RunType
  <2>4. Sinks \ run'[r].todo = {}
    BY <1>1, <2>2, <2>3, ExecutorAssumption DEF EndInv
  <2>5. EndInv(r)'
    BY <1>1, <2>2, <2>3, <2>4 DEF EndInv
  <2>6. QED
    BY <1>1, <2>2, <2>3, <2>5, EndOneRun
<1>12. ASSUME NEW r \in Runs, NEW t \in Sinks, Give(r, t),
              \A q \in Runs \ {r} : run'[q] = run[q], EndInv(r)'
       PROVE  EInv'
  <2>1. \A u \in Sinks, x \in Rows : seen[u][x] <= seen'[u][x]
    BY <1>1, <1>12, GiveFact
  <2>2. status' = status
    BY <1>12 DEF Give
  <2>3. \A q \in Runs \ {r} : EndInv(q)'
    BY <1>1, <1>12, <2>1, <2>2, EndKept
  <2>4. QED
    BY <1>1, <1>12, <2>3 DEF EInv
<1>13. ASSUME NEW r \in Runs, NEW t \in Sinks, WriteSink(r, t) PROVE EInv'
  <2> DEFINE pc == IF t \in Incremental THEN "save" ELSE "node"
  <2>1. /\ Give(r, t) /\ run[r].pc = "node" /\ run[r].todo \cap Sources = {}
        /\ run' = [run EXCEPT ![r].todo = @ \ {t}, ![r].pc = pc,
                              ![r].written = {t} \cap Incremental]
    BY <1>13, ExecutorAssumption DEF WriteSink, Give, Ready
  <2>2. /\ run'[r].pc = pc /\ run'[r].todo = run[r].todo \ {t}
        /\ run'[r].read = run[r].read
        /\ \A q \in Runs \ {r} : run'[q] = run[q]
    <3> HIDE DEF pc
    <3>1. QED
      BY <1>1, <1>2, <2>1 DEF TypeOK, RunType
  <2>3. /\ \A u \in Sinks, x \in Rows : seen[u][x] <= seen'[u][x]
        /\ \A x \in Feed[t] : run[r].read[x] <= seen'[t][x]
        /\ status' = status
    BY <1>1, <2>1, GiveFact DEF Give
  <2>4. ASSUME NEW u \in Sinks, u \notin run'[r].todo PROVE Delivered(r, u)'
    <3>1. CASE u = t
      BY <2>2, <2>3, <3>1 DEF Delivered, Feed
    <3>2. CASE u # t
      <4>1. Delivered(r, u)
        BY <1>1, <2>1, <2>2, <2>4, <3>2 DEF EndInv
      <4>2. ASSUME NEW x \in Feed[u] PROVE run[r].read[x] <= seen'[u][x]
        <5>1. x \in Rows
          BY Constants
        <5>2. run[r].read[x] \in Nat /\ seen[u][x] \in Nat /\ run[r].read[x] <= seen[u][x]
          BY <1>1, <4>1, <5>1, Typed DEF Delivered
        <5>3. seen'[u][x] \in Nat /\ seen[u][x] <= seen'[u][x]
          BY <1>1, <2>3, <5>1, Constants DEF TypeOK
        <5>4. QED
          BY <5>2, <5>3
      <4>3. QED
        BY <2>2, <4>2 DEF Delivered, Feed
    <3>3. QED
      BY <3>1, <3>2
  <2>5. status'[r] # "success"
    BY <1>1, <2>1, <2>3 DEF EndInv
  <2>6. run'[r].pc \in {"node", "save"}
    BY <2>2
  <2>7. EndInv(r)'
    <3> HIDE DEF pc
    <3>1. run'[r].todo \cap Sources = {}
      BY <2>1, <2>2
    <3>2. QED
      BY <2>4, <2>5, <2>6, <3>1 DEF EndInv
  <2>8. QED
    BY <1>12, <2>1, <2>2, <2>7
<1>14. ASSUME NEW r \in Runs, NEW t \in Sinks, WriteUnknown(r, t) PROVE EInv'
  <2> DEFINE new == [NewRun EXCEPT !.pc = "finish", !.verdict = "failed"]
  <2>1. Give(r, t) /\ run[r].pc = "node" /\ status' = status
        /\ run' = [run EXCEPT ![r] = new]
    BY <1>14 DEF WriteUnknown, Give, Ending
  <2>2. new.pc = "finish" /\ new.verdict = "failed"
    BY DEF NewRun
  <2>3. run'[r] = new /\ \A q \in Runs \ {r} : run'[q] = run[q]
    BY <1>1, <2>1 DEF TypeOK
  <2>4. EndInv(r)'
    BY <1>1, <2>1, <2>2, <2>3 DEF EndInv
  <2>5. QED
    BY <1>12, <2>1, <2>3, <2>4
<1>15. ASSUME NEW r \in Runs, SaveState(r) PROVE EInv'
  <2>1. /\ run[r].pc = "save" /\ seen' = seen /\ status' = status
        /\ run' = [run EXCEPT ![r].pc = "node", ![r].written = {}]
    BY <1>15 DEF SaveState
  <2>2. /\ run'[r].pc = "node" /\ run'[r].todo = run[r].todo
        /\ run'[r].read = run[r].read
        /\ \A q \in Runs \ {r} : run'[q] = run[q]
    BY <1>1, <1>2, <2>1 DEF TypeOK, RunType
  <2>3. EndInv(r)'
    BY <1>1, <2>1, <2>2 DEF EndInv, Delivered, Feed
  <2>4. QED
    BY <1>1, <2>1, <2>2, <2>3, EndOneRun
<1>16. ASSUME NEW r \in Runs, Complete(r) PROVE EInv'
  <2> DEFINE new == [NewRun EXCEPT !.pc = "finish", !.read = run[r].read]
  <2>1. /\ run[r].pc = "node" /\ run[r].todo = {} /\ seen' = seen /\ status' = status
        /\ run' = [run EXCEPT ![r] = new]
    BY <1>16 DEF Complete
  <2>2. new.pc = "finish" /\ new.read = run[r].read
    BY DEF NewRun
  <2>3. run'[r] = new /\ \A q \in Runs \ {r} : run'[q] = run[q]
    BY <1>1, <2>1 DEF TypeOK
  <2>4. EndInv(r)'
    BY <1>1, <2>1, <2>2, <2>3 DEF EndInv, Delivered, Feed
  <2>5. QED
    BY <1>1, <2>1, <2>3, <2>4, EndOneRun
<1>17. ASSUME NEW r \in Runs, Finish(r) PROVE EInv'
  <2>1. /\ run[r].pc = "finish" /\ seen' = seen
        /\ status' = [status EXCEPT ![r] = run[r].verdict] \/ status' = status
        /\ run' = [run EXCEPT ![r].pc = "announce"]
    BY <1>17 DEF Finish, MayBeLost
  <2>2. /\ run'[r].pc = "announce" /\ run'[r].verdict = run[r].verdict
        /\ run'[r].read = run[r].read
        /\ \A q \in Runs \ {r} : run'[q] = run[q]
    BY <1>1, <1>2, <2>1 DEF TypeOK, RunType
  <2>3. /\ status'[r] \in {run[r].verdict, status[r]}
        /\ \A q \in Runs \ {r} : status'[q] = status[q]
    BY <1>1, <2>1 DEF TypeOK
  <2>4. EndInv(r)'
    BY <1>1, <2>1, <2>2, <2>3 DEF EndInv, Delivered, Feed
  <2>5. QED
    BY <1>1, <2>1, <2>2, <2>3, <2>4, EndOneRun
<1>18. ASSUME run' = run, status' = status, seen' = seen PROVE EInv'
  <2>1. \A r \in Runs : EndInv(r)'
    BY <1>1, <1>18 DEF EndInv, Delivered, Feed
  <2>2. QED
    BY <1>1, <2>1 DEF EInv
<1>19. ASSUME \/ \E t \in Incremental : Reset(t)
              \/ \E x \in Rows, m \in Marks : Arrive(x, m)
              \/ UNCHANGED vars
       PROVE  EInv'
  BY <1>18, <1>19 DEF Reset, Arrive, vars
<1>20. QED
  BY <1>3, <1>6, <1>7, <1>8, <1>9, <1>10, <1>11, <1>13, <1>14, <1>15, <1>16,
     <1>17, <1>19 DEF Next, RunStep

\* The row of a run says success, when the run is about to announce it, only if
\* every sink has been given at least what the run read for it: for any pipeline,
\* any number of runs, and whatever they or the stores lose.
THEOREM SuccessMeansDelivered == Spec => []SuccessDelivered
<1>1. EInv => SuccessDelivered
  BY DEF EInv, EndInv, Delivered, SuccessDelivered
<1>2. QED
  BY <1>1, EInvInit, EInvStep, PTL DEF Spec

-----------------------------------------------------------------------------
(* The event agrees with the row *)

\* The row of a run is final before its event is sent, unless a write is lost.
RowFirst(r) ==
  /\ run[r].pc = "announce" => status[r] = run[r].verdict
  /\ told[r] # "none" => run[r].pc = "done" /\ told[r] = status[r]

RInv == TypeOK /\ (faults = 0 => \A r \in Runs : RowFirst(r))

\* Most steps take a run somewhere else than to its end.
LEMMA RowKept ==
  ASSUME RInv, TypeOK', NEW r \in Runs, run[r].pc # "done",
         run' = [run EXCEPT ![r] = run'[r]], told' = told, faults <= faults',
         \A q \in Runs \ {r} : status'[q] = status[q],
         run'[r].pc # "announce"
  PROVE  RInv'
<1> SUFFICES ASSUME faults' = 0, NEW q \in Runs PROVE RowFirst(q)'
  BY DEF RInv
<1>1. faults = 0
  BY ExecutorAssumption DEF RInv, TypeOK
<1>2. RowFirst(q)
  BY <1>1 DEF RInv
<1>3. CASE q = r
  BY <1>2, <1>3 DEF RowFirst
<1>4. CASE q # r
  <2>1. run'[q] = run[q]
    BY <1>4 DEF RInv, TypeOK
  <2>2. QED
    BY <1>2, <1>4, <2>1 DEF RowFirst
<1>5. QED
  BY <1>3, <1>4

LEMMA RInvInit == Init => RInv
<1> SUFFICES ASSUME Init PROVE RInv
  OBVIOUS
<1>1. \A r \in Runs : RowFirst(r)
  BY DEF Init, RowFirst, NewRun
<1>2. QED
  BY <1>1, TypeInit DEF RInv

LEMMA RInvStep == RInv /\ [Next]_vars => RInv'
<1> SUFFICES ASSUME RInv, [Next]_vars PROVE RInv'
  OBVIOUS
<1> USE DEF sinkVars
<1>1. TypeOK /\ TypeOK' /\ faults \in Nat /\ (faults = 0 => \A r \in Runs : RowFirst(r))
  BY TypeStep, ExecutorAssumption DEF RInv, TypeOK
<1>2. \A r \in Runs : run[r] \in RunType
  BY <1>1 DEF TypeOK
<1>3. ASSUME NEW r \in Runs, NEW mode \in Modes, Start(r, mode) PROVE RInv'
  <2>1. /\ run[r].pc # "done" /\ run'[r].pc = "load"
        /\ run' = [run EXCEPT ![r] = run'[r]]
    BY <1>1, <1>3 DEF Start, NewRun, TypeOK
  <2>2. told' = told /\ status' = status /\ faults' = faults
    BY <1>3 DEF Start
  <2>3. QED
    BY <1>1, <2>1, <2>2, RowKept
<1>4. ASSUME NEW r \in Runs, NEW how \in {"done", "gone"}, Leave(r, how),
             run[r].pc # "done", told' = told, status' = status, faults <= faults'
      PROVE  RInv'
  <2>1. run'[r].pc = how /\ run' = [run EXCEPT ![r] = run'[r]]
    BY <1>1, <1>4 DEF Leave, NewRun, TypeOK
  <2>2. QED
    BY <1>1, <1>4, <2>1, RowKept
<1>5. ASSUME NEW r \in Runs, NEW verdict \in Ends, Ending(r, verdict),
             run[r].pc # "done", told' = told, status' = status, faults' = faults
      PROVE  RInv'
  <2>1. run'[r].pc = "finish" /\ run' = [run EXCEPT ![r] = run'[r]]
    BY <1>1, <1>5 DEF Ending, NewRun, TypeOK
  <2>2. QED
    BY <1>1, <1>5, <2>1, RowKept
<1>6. ASSUME NEW r \in Runs, LoadState(r) PROVE RInv'
  <2>1. PICK t \in run[r].todo :
          \/ Leave(r, "done")
          \/ run' = [run EXCEPT ![r].plan[t] = mark[t], ![r].todo = @ \ {t}]
    BY <1>6 DEF LoadState
  <2>2. run[r].pc = "load" /\ told' = told /\ status' = status /\ faults' = faults
    BY <1>6 DEF LoadState
  <2>3. CASE run' = [run EXCEPT ![r].plan[t] = mark[t], ![r].todo = @ \ {t}]
    <3>1. run'[r].pc = "load" /\ run' = [run EXCEPT ![r] = run'[r]]
      BY <1>1, <1>2, <2>2, <2>3 DEF TypeOK, RunType
    <3>2. QED
      BY <1>1, <2>2, <3>1, RowKept
  <2>4. QED
    BY <1>1, <1>4, <2>1, <2>2, <2>3
<1>7. ASSUME NEW r \in Runs, Refuse(r) \/ SecretMissing(r) PROVE RInv'
  BY <1>1, <1>4, <1>7 DEF Refuse, SecretMissing
<1>8. ASSUME NEW r \in Runs, Vanish(r) PROVE RInv'
  <2>1. /\ Leave(r, "gone") /\ run[r].pc # "done" /\ told' = told /\ status' = status
        /\ faults <= faults'
    BY <1>1, <1>8 DEF Vanish, Active
  <2>2. QED
    BY <1>4, <2>1
<1>9. ASSUME NEW r \in Runs, StopIfCancelled(r) \/ NodeFails(r) PROVE RInv'
  BY <1>5, <1>9 DEF StopIfCancelled, NodeFails, Ends
<1>10. ASSUME NEW r \in Runs, CreateRun(r) PROVE RInv'
  <2>1. /\ run[r].pc = "load" /\ run'[r].pc = "begin" /\ told' = told /\ faults' = faults
        /\ run' = [run EXCEPT ![r] = run'[r]]
        /\ \A q \in Runs \ {r} : status'[q] = status[q]
    BY <1>1, <1>2, <1>10 DEF CreateRun, TypeOK, RunType
  <2>2. QED
    BY <1>1, <2>1, RowKept
<1>11. ASSUME NEW r \in Runs, SetRunning(r) PROVE RInv'
  <2>1. /\ run[r].pc = "begin" /\ told' = told
        /\ run' = [run EXCEPT ![r].pc = "node", ![r].todo = Nodes]
        /\ faults <= faults'
        /\ status' = [status EXCEPT ![r] = "running"] \/ status' = status
    BY <1>1, <1>11 DEF SetRunning, MayBeLost
  <2>2. run'[r].pc = "node" /\ run' = [run EXCEPT ![r] = run'[r]]
    BY <1>1, <1>2, <2>1 DEF TypeOK, RunType
  <2>3. \A q \in Runs \ {r} : status'[q] = status[q]
    BY <1>1, <2>1 DEF TypeOK
  <2>4. QED
    BY <1>1, <2>1, <2>2, <2>3, RowKept
<1>12. ASSUME NEW r \in Runs, NEW s \in Sources, ReadSource(r, s) PROVE RInv'
  <2>1. PICK read : run' = [run EXCEPT ![r].todo = @ \ {s}, ![r].read = read]
    BY <1>12 DEF ReadSource
  <2>2. run[r].pc = "node" /\ told' = told /\ status' = status /\ faults' = faults
    BY <1>12 DEF ReadSource
  <2>3. run'[r].pc = "node" /\ run' = [run EXCEPT ![r] = run'[r]]
    BY <1>1, <1>2, <2>1, <2>2 DEF TypeOK, RunType
  <2>4. QED
    BY <1>1, <2>2, <2>3, RowKept
<1>13. ASSUME NEW r \in Runs, NEW t \in Sinks, WriteSink(r, t) PROVE RInv'
  <2>1. PICK pc \in {"save", "node"} :
          run' = [run EXCEPT ![r].todo = @ \ {t}, ![r].pc = pc,
                             ![r].written = {t} \cap Incremental]
    BY <1>13 DEF WriteSink
  <2>2. run[r].pc = "node" /\ told' = told /\ status' = status /\ faults' = faults
    BY <1>13 DEF WriteSink, Give
  <2>3. run'[r].pc = pc /\ run' = [run EXCEPT ![r] = run'[r]]
    BY <1>1, <1>2, <2>1 DEF TypeOK, RunType
  <2>4. /\ run[r].pc # "done" /\ run'[r].pc # "announce" /\ faults <= faults'
        /\ \A q \in Runs \ {r} : status'[q] = status[q]
    BY <1>1, <2>2, <2>3
  <2>5. QED
    BY <1>1, <2>2, <2>3, <2>4, RowKept
<1>14. ASSUME NEW r \in Runs, NEW t \in Sinks, WriteUnknown(r, t) PROVE RInv'
  <2>1. /\ run[r].pc = "node" /\ told' = told /\ status' = status /\ faults' = faults
        /\ Ending(r, "failed")
    BY <1>14 DEF WriteUnknown, Give
  <2>2. QED
    BY <1>5, <2>1 DEF Ends
<1>15. ASSUME NEW r \in Runs, SaveState(r) PROVE RInv'
  <2>1. /\ run[r].pc = "save" /\ told' = told /\ status' = status
        /\ run' = [run EXCEPT ![r].pc = "node", ![r].written = {}]
    BY <1>15 DEF SaveState
  <2>2. faults <= faults'
    BY <1>1, <1>15 DEF SaveState, MayBeLost
  <2>3. run'[r].pc = "node" /\ run' = [run EXCEPT ![r] = run'[r]]
    BY <1>1, <1>2, <2>1 DEF TypeOK, RunType
  <2>4. QED
    BY <1>1, <2>1, <2>2, <2>3, RowKept
<1>16. ASSUME NEW r \in Runs, Complete(r) PROVE RInv'
  <2>1. run[r].pc = "node" /\ told' = told /\ status' = status /\ faults' = faults
    BY <1>16 DEF Complete
  <2>2. run'[r].pc = "finish" /\ run' = [run EXCEPT ![r] = run'[r]]
    BY <1>1, <1>16 DEF Complete, NewRun, TypeOK
  <2>3. QED
    BY <1>1, <2>1, <2>2, RowKept
<1>17. ASSUME NEW r \in Runs, Finish(r) PROVE RInv'
  <2> SUFFICES ASSUME faults' = 0, NEW q \in Runs PROVE RowFirst(q)'
    BY <1>1 DEF RInv
  <2>1. /\ run[r].pc = "finish" /\ told' = told /\ faults = 0
        /\ run' = [run EXCEPT ![r].pc = "announce"]
        /\ status' = [status EXCEPT ![r] = run[r].verdict]
    BY <1>1, <1>17 DEF Finish, MayBeLost
  <2>2. RowFirst(q)
    BY <1>1, <2>1
  <2>3. CASE q = r
    <3>1. run'[r].verdict = run[r].verdict /\ status'[r] = run[r].verdict
      BY <1>1, <1>2, <2>1 DEF TypeOK, RunType
    <3>2. QED
      BY <2>1, <2>2, <2>3, <3>1 DEF RowFirst
  <2>4. CASE q # r
    BY <1>1, <2>1, <2>2, <2>4 DEF TypeOK, RowFirst
  <2>5. QED
    BY <2>3, <2>4
<1>18. ASSUME NEW r \in Runs, Announce(r) PROVE RInv'
  <2> SUFFICES ASSUME faults' = 0, NEW q \in Runs PROVE RowFirst(q)'
    BY <1>1 DEF RInv
  <2>1. /\ run[r].pc = "announce" /\ faults = 0 /\ status' = status
        /\ told' = [told EXCEPT ![r] = run[r].verdict] /\ Leave(r, "done")
    BY <1>18 DEF Announce
  <2>2. RowFirst(q)
    BY <1>1, <2>1
  <2>3. CASE q = r
    <3>1. run'[r].pc = "done" /\ told'[r] = run[r].verdict
      BY <1>1, <2>1 DEF Leave, NewRun, TypeOK
    <3>2. QED
      BY <2>1, <2>2, <2>3, <3>1 DEF RowFirst
  <2>4. CASE q # r
    BY <1>1, <2>1, <2>2, <2>4 DEF TypeOK, RowFirst, Leave
  <2>5. QED
    BY <2>3, <2>4
<1>19. ASSUME run' = run, status' = status, told' = told, faults <= faults' PROVE RInv'
  <2>1. faults' = 0 => faults = 0
    BY <1>1, <1>19 DEF TypeOK
  <2>2. \A r \in Runs : RowFirst(r) => RowFirst(r)'
    BY <1>19 DEF RowFirst
  <2>3. QED
    BY <1>1, <2>1, <2>2 DEF RInv
<1>20. ASSUME \/ \E t \in Incremental : Reset(t)
              \/ \E x \in Rows, m \in Marks : Arrive(x, m)
              \/ UNCHANGED vars
       PROVE  RInv'
  BY <1>1, <1>19, <1>20 DEF Reset, Arrive, vars
<1>21. QED
  BY <1>3, <1>6, <1>7, <1>8, <1>9, <1>10, <1>11, <1>12, <1>13, <1>14, <1>15,
     <1>16, <1>17, <1>18, <1>20 DEF Next, RunStep

\* RunCompleted carries the status that its run's row already has, unless a
\* write was lost, for any number of runs.
THEOREM EventAfterRow == Spec => []ToldIsRecorded
<1>1. RInv => ToldIsRecorded
  BY DEF RInv, RowFirst, ToldIsRecorded
<1>2. QED
  BY <1>1, RInvInit, RInvStep, PTL DEF Spec

-----------------------------------------------------------------------------
(* What merged targets hold.  A target is what its sink was given last; that *)
(* this is also the newest rests on runs that do not overlap, so that between *)
(* the read and the write of a row nobody else gives the sink anything.       *)

Working(r) == run[r].pc \in {"load", "begin", "node", "save"}

\* A run that still writes holds nothing older than what the sinks have.
Fresh(r) ==
  Working(r) => \A t \in Sinks, x \in Rows :
                  run[r].read[x] > 0 => seen[t][x] <= run[r].read[x]

\* No sink was given what its source never had.
SeenInv == \A t \in Sinks, x \in Rows : seen[t][x] <= version[x]

CurrentInv ==
  overlap = FALSE =>
    /\ \A q, r \in Runs : Active(q) /\ Active(r) => q = r
    /\ target = seen
    /\ \A r \in Runs : Fresh(r)

CInv == IInv /\ SeenInv /\ CurrentInv

LEMMA CInvInit == Init => CInv
<1> SUFFICES ASSUME Init PROVE CInv
  OBVIOUS
<1>1. IInv
  BY IInvInit
<1>2. SeenInv
  BY DEF Init, SeenInv
<1>3. \A r \in Runs : run[r].pc = "idle"
  BY DEF Init, NewRun
<1>4. CurrentInv
  BY <1>3 DEF Init, CurrentInv, Active, Fresh, Working
<1>5. QED
  BY <1>1, <1>2, <1>4 DEF CInv

\* A step in which one run, already active or alone, moves on with the rows it
\* has, or none, and no sink is given anything.
LEMMA CurrentKept ==
  ASSUME TypeOK, CurrentInv, NEW r \in Runs, \A q \in Runs \ {r} : run'[q] = run[q],
         sinkVars' = sinkVars, overlap' = overlap, Active(r),
         \/ ~ Working(r)'
         \/ Working(r) /\ run'[r].read = run[r].read
  PROVE  CurrentInv'
<1> SUFFICES ASSUME overlap' = FALSE
             PROVE  /\ \A p, q \in Runs : Active(p)' /\ Active(q)' => p = q
                    /\ target' = seen'
                    /\ \A q \in Runs : Fresh(q)'
  BY DEF CurrentInv
<1>1. /\ \A p, q \in Runs : Active(p) /\ Active(q) => p = q
      /\ target = seen
      /\ \A q \in Runs : Fresh(q)
  BY DEF CurrentInv
<1>2. \A q \in Runs : Active(q)' => Active(q)
  BY DEF Active
<1>3. ASSUME NEW q \in Runs PROVE Fresh(q)'
  <2>1. CASE q = r
    BY <1>1, <2>1 DEF Fresh, Working, sinkVars
  <2>2. CASE q # r
    BY <1>1, <2>2 DEF Fresh, Working, sinkVars
  <2>3. QED
    BY <2>1, <2>2
<1>4. QED
  BY <1>1, <1>2, <1>3 DEF sinkVars

\* A source is read as it is now, and nobody was given anything newer.
LEMMA ReadSourceCurrent ==
  ASSUME TypeOK, SeenInv, CurrentInv, NEW r \in Runs, NEW s \in Sources, ReadSource(r, s)
  PROVE  CurrentInv'
<1> SUFFICES ASSUME overlap' = FALSE
             PROVE  /\ \A p, q \in Runs : Active(p)' /\ Active(q)' => p = q
                    /\ target' = seen'
                    /\ \A q \in Runs : Fresh(q)'
  BY DEF CurrentInv
<1>1. PICK after : run' = [run EXCEPT
           ![r].todo = @ \ {s},
           ![r].read = [x \in Rows |->
              IF SourceOf[x] = s
              THEN IF version[x] > after THEN version[x] ELSE 0
              ELSE @[x]]]
  BY DEF ReadSource
<1>2. /\ run[r].pc = "node" /\ target' = target /\ seen' = seen /\ overlap' = overlap
      /\ version' = version
  BY DEF ReadSource, sinkVars
<1>3. /\ \A p, q \in Runs : Active(p) /\ Active(q) => p = q
      /\ target = seen
      /\ \A q \in Runs : Fresh(q)
  BY <1>2 DEF CurrentInv
<1>4. run[r] \in RunType
  BY DEF TypeOK
<1>5. /\ \A q \in Runs \ {r} : run'[q] = run[q]
      /\ run'[r].pc = "node"
      /\ \A x \in Rows : run'[r].read[x] \in {0, version[x], run[r].read[x]}
  BY <1>1, <1>2, <1>4 DEF TypeOK, RunType
<1>6. ASSUME NEW q \in Runs PROVE Fresh(q)'
  <2>1. CASE q = r
    <3> SUFFICES ASSUME NEW t \in Sinks, NEW x \in Rows, run'[r].read[x] > 0
                 PROVE  seen[t][x] <= run'[r].read[x]
      BY <1>2, <2>1 DEF Fresh
    <3>1. seen[t][x] <= version[x]
      BY DEF SeenInv
    <3>2. run[r].read[x] > 0 => seen[t][x] <= run[r].read[x]
      BY <1>2, <1>3 DEF Fresh, Working
    <3>3. QED
      BY <1>5, <3>1, <3>2
  <2>2. CASE q # r
    BY <1>2, <1>3, <1>5, <2>2 DEF Fresh, Working
  <2>3. QED
    BY <2>1, <2>2
<1>7. \A q \in Runs : Active(q)' => Active(q)
  BY <1>2, <1>5 DEF Active
<1>8. QED
  BY <1>2, <1>3, <1>6, <1>7

\* A sink is given what is not older than what it had, so it holds the newest.
LEMMA GiveCurrent ==
  ASSUME TypeOK, SeenInv, CurrentInv, NEW r \in Runs, NEW t \in Sinks, Give(r, t),
         \A q \in Runs \ {r} : run'[q] = run[q],
         ~ Working(r)' \/ run'[r].read = run[r].read
  PROVE  CurrentInv'
<1> SUFFICES ASSUME overlap' = FALSE
             PROVE  /\ \A p, q \in Runs : Active(p)' /\ Active(q)' => p = q
                    /\ target' = seen'
                    /\ \A q \in Runs : Fresh(q)'
  BY DEF CurrentInv
<1>1. /\ run[r].pc = "node" /\ overlap' = overlap
      /\ target' = [target EXCEPT ![t] = [x \in Rows |->
                     IF x \in Batch(r, t) THEN run[r].read[x] ELSE @[x]]]
      /\ seen' = [seen EXCEPT ![t] = [x \in Rows |->
                     IF x \in Batch(r, t) THEN Newer(run[r].read[x], @[x]) ELSE @[x]]]
  BY DEF Give
<1>2. /\ \A p, q \in Runs : Active(p) /\ Active(q) => p = q
      /\ target = seen
      /\ \A q \in Runs : Fresh(q)
  BY <1>1 DEF CurrentInv
<1>3. \A u \in Sinks, x \in Rows : seen[u][x] \in Nat /\ run[r].read[x] \in Nat
  BY Typed
<1>4. \A x \in Rows : x \in Batch(r, t) => Newer(run[r].read[x], seen[t][x]) = run[r].read[x]
  <2> SUFFICES ASSUME NEW x \in Rows, x \in Batch(r, t)
               PROVE  Newer(run[r].read[x], seen[t][x]) = run[r].read[x]
    OBVIOUS
  <2>1. run[r].read[x] > 0
    BY DEF Batch
  <2>2. seen[t][x] <= run[r].read[x]
    BY <1>1, <1>2, <2>1 DEF Fresh, Working
  <2>3. QED
    BY <1>3, <2>2 DEF Newer
<1>5. seen' = [seen EXCEPT ![t] = [x \in Rows |->
                 IF x \in Batch(r, t) THEN run[r].read[x] ELSE seen[t][x]]]
  BY <1>1, <1>4
<1>6. target' = seen'
  BY <1>1, <1>2, <1>5
<1>7. \A u \in Sinks, x \in Rows :
        \/ seen'[u][x] = seen[u][x]
        \/ x \in Batch(r, t) /\ seen'[u][x] = run[r].read[x]
  BY <1>5 DEF TypeOK
<1>8. ASSUME NEW q \in Runs PROVE Fresh(q)'
  <2>1. CASE q = r
    <3> SUFFICES ASSUME Working(r)', NEW u \in Sinks, NEW x \in Rows, run'[r].read[x] > 0
                 PROVE  seen'[u][x] <= run'[r].read[x]
      BY <2>1 DEF Fresh
    <3>1. run'[r].read[x] = run[r].read[x]
      OBVIOUS
    <3>2. seen[u][x] <= run[r].read[x]
      BY <1>1, <1>2, <3>1 DEF Fresh, Working
    <3>3. QED
      BY <1>3, <1>7, <3>1, <3>2
  <2>2. CASE q # r
    <3>1. ~ Active(q)
      BY <1>1, <1>2, <2>2 DEF Active
    <3>2. ~ Working(q)'
      BY <2>2, <3>1 DEF Active, Working
    <3>3. QED
      BY <3>2 DEF Fresh
  <2>3. QED
    BY <2>1, <2>2
<1>9. \A q \in Runs : Active(q)' => Active(q)
  BY <1>1 DEF Active
<1>10. QED
  BY <1>2, <1>6, <1>8, <1>9

LEMMA SeenInvStep == IInv /\ SeenInv /\ [Next]_vars => SeenInv'
<1> SUFFICES ASSUME IInv, SeenInv, [Next]_vars PROVE SeenInv'
  OBVIOUS
<1>1. TypeOK /\ TypeOK' /\ \A r \in Runs : ReadInv(r)
  BY TypeStep DEF IInv, RunInv
<1>2. ASSUME NEW r \in Runs, NEW t \in Sinks, Give(r, t) PROVE SeenInv'
  <2> SUFFICES ASSUME NEW u \in Sinks, NEW x \in Rows PROVE seen'[u][x] <= version[x]
    BY <1>2 DEF Give, SeenInv
  <2>1. seen'[u][x] \in {seen[u][x], run[r].read[x]}
    BY <1>1, <1>2 DEF Give, TypeOK, Newer
  <2>2. seen[u][x] <= version[x] /\ run[r].read[x] <= version[x]
    BY <1>1 DEF SeenInv, ReadInv
  <2>3. QED
    BY <2>1, <2>2
<1>3. ASSUME NEW y \in Rows, NEW m \in Marks, Arrive(y, m) PROVE SeenInv'
  <2> SUFFICES ASSUME NEW u \in Sinks, NEW x \in Rows PROVE seen[u][x] <= version'[x]
    BY <1>3 DEF Arrive, sinkVars, SeenInv
  <2>1. version[x] <= version'[x]
    <3>1. version'[x] = IF x = y THEN m ELSE version[x]
      BY <1>1, <1>3 DEF Arrive, TypeOK
    <3>2. version[x] \in Nat /\ version[y] \in Nat /\ m \in Nat
      BY <1>1, Typed, Constants
    <3>3. m > version[y]
      BY <1>3 DEF Arrive
    <3>4. QED
      BY <3>1, <3>2, <3>3
  <2>2. seen[u][x] \in Nat /\ version[x] \in Nat /\ version'[x] \in Nat
    <3>1. version'[x] \in Marks
      BY <1>1 DEF TypeOK
    <3>2. QED
      BY <1>1, <3>1, Typed, Constants
  <2>3. QED
    BY <2>1, <2>2 DEF SeenInv
<1>4. ASSUME seen' = seen, version' = version PROVE SeenInv'
  BY <1>4 DEF SeenInv
<1>5. CASE UNCHANGED vars
  BY <1>4, <1>5 DEF vars
<1>6. ASSUME NEW r \in Runs, RunStep(r) PROVE SeenInv'
  <2>1. ASSUME NEW t \in Sinks, WriteSink(r, t) \/ WriteUnknown(r, t) PROVE SeenInv'
    BY <1>2, <2>1 DEF WriteSink, WriteUnknown
  <2>2. CASE SaveState(r) \/ Complete(r) \/ Finish(r) \/ Announce(r)
    BY <1>4, <2>2 DEF SaveState, Complete, Finish, Announce, sinkVars
  <2>3. CASE LoadState(r) \/ Refuse(r) \/ CreateRun(r) \/ SetRunning(r)
    BY <1>4, <2>3 DEF LoadState, Refuse, CreateRun, SetRunning, sinkVars
  <2>4. CASE StopIfCancelled(r) \/ NodeFails(r) \/ SecretMissing(r) \/ \E s \in Sources : ReadSource(r, s)
    BY <1>4, <2>4 DEF StopIfCancelled, NodeFails, SecretMissing, ReadSource, sinkVars
  <2>5. QED
    BY <1>6, <2>1, <2>2, <2>3, <2>4 DEF RunStep
<1>7. ASSUME NEW r \in Runs, (\E mode \in Modes : Start(r, mode)) \/ Vanish(r) PROVE SeenInv'
  BY <1>4, <1>7 DEF Start, Vanish, sinkVars
<1>8. ASSUME NEW t \in Incremental, Reset(t) PROVE SeenInv'
  BY <1>4, <1>8 DEF Reset, sinkVars
<1>9. QED
  BY <1>3, <1>5, <1>6, <1>7, <1>8 DEF Next

LEMMA CurrentStep == IInv /\ SeenInv /\ CurrentInv /\ [Next]_vars => CurrentInv'
<1> SUFFICES ASSUME IInv, SeenInv, CurrentInv, [Next]_vars PROVE CurrentInv'
  OBVIOUS
<1> USE DEF sinkVars
<1>1. TypeOK
  BY DEF IInv
<1>2. ASSUME NEW r \in Runs, NEW mode \in Modes, Start(r, mode) PROVE CurrentInv'
  <2> DEFINE new == [NewRun EXCEPT !.pc = "load", !.mode = mode, !.todo = Incremental]
  <2> SUFFICES ASSUME overlap' = FALSE
               PROVE  /\ \A p, q \in Runs : Active(p)' /\ Active(q)' => p = q
                      /\ target' = seen'
                      /\ \A q \in Runs : Fresh(q)'
    BY DEF CurrentInv
  <2>1. overlap = FALSE /\ \A q \in Runs : ~ Active(q)
    BY <1>1, <1>2 DEF Start, TypeOK
  <2>2. run' = [run EXCEPT ![r] = new] /\ target' = target /\ seen' = seen
    BY <1>2 DEF Start
  <2>3. run'[r] = new /\ \A q \in Runs \ {r} : run'[q] = run[q]
    BY <1>1, <2>2 DEF TypeOK
  <2>4. \A q \in Runs \ {r} : ~ Active(q)'
    BY <2>1, <2>3 DEF Active
  <2>5. \A x \in Rows : ~ (run'[r].read[x] > 0)
    BY <2>3 DEF NewRun
  <2>6. ASSUME NEW q \in Runs PROVE Fresh(q)'
    <3>1. CASE q = r
      BY <2>5, <3>1 DEF Fresh
    <3>2. CASE q # r
      BY <2>4, <3>2 DEF Fresh, Active, Working
    <3>3. QED
      BY <3>1, <3>2
  <2>7. QED
    BY <2>1, <2>2, <2>4, <2>6 DEF CurrentInv
<1>3. ASSUME NEW r \in Runs, NEW how \in {"done", "gone"}, Leave(r, how), Active(r),
             sinkVars' = sinkVars, overlap' = overlap
      PROVE  CurrentInv'
  <2>1. run'[r] = [NewRun EXCEPT !.pc = how] /\ \A q \in Runs \ {r} : run'[q] = run[q]
    BY <1>1, <1>3 DEF Leave, TypeOK
  <2>2. ~ Working(r)'
    BY <2>1 DEF Working, NewRun
  <2>3. QED
    BY <1>1, <1>3, <2>1, <2>2, CurrentKept
<1>4. ASSUME NEW r \in Runs, LoadState(r) PROVE CurrentInv'
  <2>1. PICK t \in run[r].todo :
          \/ Leave(r, "done")
          \/ run' = [run EXCEPT ![r].plan[t] = mark[t], ![r].todo = @ \ {t}]
    BY <1>4 DEF LoadState
  <2>2. run[r].pc = "load" /\ sinkVars' = sinkVars /\ overlap' = overlap
    BY <1>4 DEF LoadState
  <2>3. CASE Leave(r, "done")
    BY <1>3, <2>2, <2>3 DEF Active
  <2>4. CASE run' = [run EXCEPT ![r].plan[t] = mark[t], ![r].todo = @ \ {t}]
    <3>1. run[r] \in RunType
      BY <1>1 DEF TypeOK
    <3>2. run'[r].read = run[r].read /\ \A q \in Runs \ {r} : run'[q] = run[q]
      BY <1>1, <2>4, <3>1 DEF TypeOK, RunType
    <3>3. QED
      BY <1>1, <2>2, <3>2, CurrentKept DEF Active, Working
  <2>5. QED
    BY <2>1, <2>3, <2>4
<1>5. ASSUME NEW r \in Runs, Refuse(r) \/ SecretMissing(r) PROVE CurrentInv'
  BY <1>3, <1>5 DEF Refuse, SecretMissing, Active
<1>6. ASSUME NEW r \in Runs, CreateRun(r) \/ SetRunning(r) PROVE CurrentInv'
  <2>1. run[r] \in RunType
    BY <1>1 DEF TypeOK
  <2>2. run'[r].read = run[r].read /\ \A q \in Runs \ {r} : run'[q] = run[q]
    BY <1>1, <1>6, <2>1 DEF CreateRun, SetRunning, TypeOK, RunType
  <2>3. run[r].pc \in {"load", "begin"} /\ sinkVars' = sinkVars /\ overlap' = overlap
    BY <1>6 DEF CreateRun, SetRunning
  <2>4. QED
    BY <1>1, <2>2, <2>3, CurrentKept DEF Active, Working
<1>7. ASSUME NEW r \in Runs, NEW verdict \in Ends, Ending(r, verdict)
      PROVE  ~ Working(r)' /\ \A q \in Runs \ {r} : run'[q] = run[q]
  <2>1. run'[r] = [NewRun EXCEPT !.pc = "finish", !.verdict = verdict]
    BY <1>1, <1>7 DEF Ending, TypeOK
  <2>2. ~ Working(r)'
    BY <2>1 DEF Working, NewRun
  <2>3. QED
    BY <1>1, <1>7, <2>2 DEF Ending, TypeOK
<1>8. ASSUME NEW r \in Runs, StopIfCancelled(r) \/ NodeFails(r) PROVE CurrentInv'
  <2>1. ~ Working(r)' /\ \A q \in Runs \ {r} : run'[q] = run[q]
    BY <1>7, <1>8 DEF StopIfCancelled, NodeFails, Ends
  <2>2. run[r].pc = "node" /\ sinkVars' = sinkVars /\ overlap' = overlap
    BY <1>8 DEF StopIfCancelled, NodeFails
  <2>3. QED
    BY <1>1, <2>1, <2>2, CurrentKept DEF Active
<1>9. ASSUME NEW r \in Runs, NEW s \in Sources, ReadSource(r, s) PROVE CurrentInv'
  BY <1>1, <1>9, ReadSourceCurrent
<1>10. ASSUME NEW r \in Runs, NEW t \in Sinks, WriteSink(r, t) PROVE CurrentInv'
  <2>1. run[r] \in RunType
    BY <1>1 DEF TypeOK
  <2>2. run'[r].read = run[r].read /\ \A q \in Runs \ {r} : run'[q] = run[q]
    BY <1>1, <1>10, <2>1 DEF WriteSink, TypeOK, RunType
  <2>3. QED
    BY <1>1, <1>10, <2>2, GiveCurrent DEF WriteSink
<1>11. ASSUME NEW r \in Runs, NEW t \in Sinks, WriteUnknown(r, t) PROVE CurrentInv'
  <2>1. ~ Working(r)' /\ \A q \in Runs \ {r} : run'[q] = run[q]
    BY <1>7, <1>11 DEF WriteUnknown, Ends
  <2>2. QED
    BY <1>1, <1>11, <2>1, GiveCurrent DEF WriteUnknown
<1>12. ASSUME NEW r \in Runs, SaveState(r) PROVE CurrentInv'
  <2>1. run[r] \in RunType
    BY <1>1 DEF TypeOK
  <2>2. run'[r].read = run[r].read /\ \A q \in Runs \ {r} : run'[q] = run[q]
    BY <1>1, <1>12, <2>1 DEF SaveState, TypeOK, RunType
  <2>3. run[r].pc = "save" /\ sinkVars' = sinkVars /\ overlap' = overlap
    BY <1>12 DEF SaveState
  <2>4. QED
    BY <1>1, <2>2, <2>3, CurrentKept DEF Active, Working
<1>13. ASSUME NEW r \in Runs, Complete(r) \/ Finish(r) PROVE CurrentInv'
  <2>1. run[r] \in RunType
    BY <1>1 DEF TypeOK
  <2>2. run'[r].pc \in {"finish", "announce"} /\ \A q \in Runs \ {r} : run'[q] = run[q]
    <3>1. CASE Complete(r)
      <4>1. run'[r] = [NewRun EXCEPT !.pc = "finish", !.read = run[r].read]
        BY <1>1, <3>1 DEF Complete, TypeOK
      <4>2. run'[r].pc = "finish"
        BY <4>1 DEF NewRun
      <4>3. QED
        BY <1>1, <3>1, <4>2 DEF Complete, TypeOK
    <3>2. CASE Finish(r)
      BY <1>1, <2>1, <3>2 DEF Finish, TypeOK, RunType
    <3>3. QED
      BY <1>13, <3>1, <3>2
  <2>3. run[r].pc \in {"node", "finish"} /\ sinkVars' = sinkVars /\ overlap' = overlap
    BY <1>13 DEF Complete, Finish
  <2>4. QED
    BY <1>1, <2>2, <2>3, CurrentKept DEF Active, Working
<1>14. ASSUME NEW r \in Runs, Announce(r) PROVE CurrentInv'
  BY <1>3, <1>14 DEF Announce, Active
<1>15. ASSUME NEW r \in Runs, Vanish(r) PROVE CurrentInv'
  BY <1>3, <1>15 DEF Vanish
<1>16. ASSUME sinkVars' = sinkVars, overlap' = overlap, run' = run PROVE CurrentInv'
  BY <1>16 DEF CurrentInv, Active, Fresh, Working
<1>17. CASE UNCHANGED vars
  BY <1>16, <1>17 DEF vars
<1>18. QED
  BY <1>2, <1>4, <1>5, <1>6, <1>8, <1>9, <1>10, <1>11, <1>12, <1>13, <1>14, <1>15,
     <1>16, <1>17 DEF Next, RunStep, Reset, Arrive

\* The target of a merge is never stale behind the filter, whatever crashes,
\* lost writes, lost answers and resets there are, as long as runs do not
\* overlap; the code does nothing to keep them from it.
THEOREM MergedStaysCurrent ==
  ASSUME SingleSource, Unmixed, InTurn
  PROVE  Spec => []MergedIsCurrent
<1>1. CInv /\ [Next]_vars => CInv'
  BY IInvStep, SeenInvStep, CurrentStep DEF CInv
<1>2. CInv => MergedIsCurrent
  <2>1. CInv => NoRowLost
    BY IInvImplies DEF CInv
  <2>2. CInv => overlap \in BOOLEAN
    BY DEF CInv, IInv, TypeOK
  <2>3. CInv /\ overlap = FALSE => target = seen
    BY DEF CInv, CurrentInv
  <2>4. NoRowLost /\ target = seen => MergedIsCurrent
    BY DEF MergedIsCurrent, NoRowLost
  <2>5. overlap = TRUE => MergedIsCurrent
    BY DEF MergedIsCurrent
  <2>6. QED
    BY <2>1, <2>2, <2>3, <2>4, <2>5
<1>3. QED
  BY CInvInit, <1>1, <1>2, PTL DEF Spec
=============================================================================
