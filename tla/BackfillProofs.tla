--------------------------- MODULE BackfillProofs ---------------------------
(***************************************************************************)
(* Theorems about Backfill for every number of iterations, every           *)
(* concurrency and every set of coordinators, with their proofs.           *)
(***************************************************************************)
EXTENDS Backfill, FiniteSetTheorems, TLAPS

\* The steps of a coordinator, a task and the outside are named one by one in
\* the case distinctions below.
LEMMA NextCases ==
  ASSUME Next
  PROVE  \/ \E c \in Coords, k \in Kinds : StartBackfill(c, k)
         \/ \E c \in Coords : ResumeApi(c) \/ ResumeCli(c)
         \/ \E c \in Coords : CreateRecord(c)
         \/ \E c \in Coords : CreateIterations(c)
         \/ \E c \in Coords : RecordGone(c)
         \/ \E c \in Coords : GetRecord(c)
         \/ \E c \in Coords : ListIterations(c)
         \/ \E c \in Coords : ResetFailed(c)
         \/ \E c \in Coords : ResetDone(c)
         \/ \E c \in Coords : MarkRunning(c)
         \/ \E c \in Coords : CheckLoop(c)
         \/ \E c \in Coords : Spawn(c)
         \/ \E c \in Coords : Decide(c)
         \/ \E c \in Coords : WriteFinal(c)
         \/ \E c \in Coords : CtrlC(c)
         \/ \E c \in Coords : StoreError(c)
         \/ \E c \in Coords, i \in Iters : TaskStart(c, i)
         \/ \E c \in Coords, i \in Iters : TaskSucceed(c, i)
         \/ \E c \in Coords, i \in Iters : TaskFail(c, i)
         \/ \E c \in Coords, i \in Iters : TaskAbort(c, i)
         \/ \E c \in Coords, i \in Iters : TaskRecordFailure(c, i)
         \/ \E c \in Coords, i \in Iters : TaskPanic(c, i)
         \/ CheckCancel \/ CheckDelete \/ ApplyCancel \/ ApplyDelete
         \/ Crash
BY DEF Next, Coordinator, Task

-----------------------------------------------------------------------------
(* Type correctness *)

\* Ending any set of coordinators keeps the types of what it writes.
LEMMA StopType ==
  ASSUME TypeOK, NEW S \in SUBSET Coords, Stop(S)
  PROVE  /\ pc' \in [Coords -> Steps]
         /\ kind' \in [Coords -> Kinds]
         /\ todo' \in [Coords -> SUBSET Iters]
         /\ resetq' \in [Coords -> SUBSET Iters]
         /\ cancel' \in [Coords -> BOOLEAN]
         /\ hadFailure' \in [Coords -> BOOLEAN]
         /\ decided' \in [Coords -> FinalStatus]
         /\ late' \in [Coords -> Nat]
         /\ task' \in [Coords -> [Iters -> TaskState]]
BY DEF TypeOK, Stop, Steps, Kinds, FinalStatus, TaskState, NoTask

LEMMA TypeInit == Init => TypeOK
<1> SUFFICES ASSUME Init PROVE TypeOK
  OBVIOUS
<1>1. crashes \in 0 .. MaxCrashes /\ faults \in 0 .. MaxFaults
  BY BackfillAssumption DEF Init
<1>2. task \in [Coords -> [Iters -> TaskState]]
  BY DEF Init, NoTask, TaskState
<1>3. QED
  BY <1>1, <1>2 DEF Init, TypeOK, Kinds, Steps, FinalStatus

LEMMA TypeStep == TypeOK /\ [Next]_vars => TypeOK'
<1> SUFFICES ASSUME TypeOK, [Next]_vars PROVE TypeOK'
  OBVIOUS
<1> USE BackfillAssumption DEF db, plan, flags, env
<1>1. ASSUME NEW c \in Coords, NEW k \in Kinds, StartBackfill(c, k) PROVE TypeOK'
  BY <1>1 DEF TypeOK, StartBackfill, Launch, Goto, Steps
<1>2. ASSUME NEW c \in Coords, ResumeApi(c) \/ ResumeCli(c) PROVE TypeOK'
  BY <1>2 DEF TypeOK, ResumeApi, ResumeCli, Launch, Goto, Steps, Kinds
<1>3. ASSUME NEW c \in Coords, CreateRecord(c) PROVE TypeOK'
  BY <1>3 DEF TypeOK, CreateRecord, Goto, Steps, BackfillStatus
<1>4. ASSUME NEW c \in Coords, CreateIterations(c) PROVE TypeOK'
  BY <1>4 DEF TypeOK, CreateIterations, Goto, Steps, IterationStatus
<1>5. ASSUME NEW c \in Coords, RecordGone(c) PROVE TypeOK'
  BY <1>5, StopType DEF TypeOK, RecordGone
<1>6. ASSUME NEW c \in Coords, GetRecord(c) PROVE TypeOK'
  BY <1>6 DEF TypeOK, GetRecord, Goto, Steps
<1>7. ASSUME NEW c \in Coords, ListIterations(c) PROVE TypeOK'
  BY <1>7 DEF TypeOK, ListIterations, Goto, Steps
<1>8. ASSUME NEW c \in Coords, ResetFailed(c) PROVE TypeOK'
  BY <1>8 DEF TypeOK, ResetFailed, RowSet, IterationStatus
<1>9. ASSUME NEW c \in Coords, ResetDone(c) PROVE TypeOK'
  BY <1>9 DEF TypeOK, ResetDone, Goto, Steps
<1>10. ASSUME NEW c \in Coords, MarkRunning(c) PROVE TypeOK'
  BY <1>10 DEF TypeOK, MarkRunning, UpdateStatus, Goto, Steps, BackfillStatus
<1>11. ASSUME NEW c \in Coords, CheckLoop(c) PROVE TypeOK'
  BY <1>11 DEF TypeOK, CheckLoop, Goto, Steps
<1>12. ASSUME NEW c \in Coords, Spawn(c) PROVE TypeOK'
  BY <1>12 DEF TypeOK, Spawn, Goto, Steps, TaskState
<1>13. ASSUME NEW c \in Coords, Decide(c) PROVE TypeOK'
  BY <1>13 DEF TypeOK, Decide, FinalStatusOf, FinalStatus, Goto, Steps
<1>14. ASSUME NEW c \in Coords, WriteFinal(c) PROVE TypeOK'
  <2>1. status' \in BackfillStatus \cup {"none", "deleted"}
    BY <1>14 DEF TypeOK, WriteFinal, UpdateStatus, FinalStatus, BackfillStatus
  <2>2. QED
    BY <1>14, <2>1, StopType DEF TypeOK, WriteFinal
<1>15. ASSUME NEW c \in Coords, CtrlC(c) PROVE TypeOK'
  BY <1>15 DEF TypeOK, CtrlC
<1>16. ASSUME NEW S \in SUBSET Coords, TornInsert(S)
       PROVE  rows' \in [Iters -> IterationStatus \cup {"none"}]
  BY <1>16 DEF TypeOK, TornInsert, IterationStatus
<1>17. ASSUME NEW c \in Coords, StoreError(c) PROVE TypeOK'
  <2>1. faults' \in 0 .. MaxFaults
    BY <1>17 DEF TypeOK, StoreError
  <2>2. QED
    BY <1>16, <1>17, <2>1, StopType DEF TypeOK, StoreError
<1>18. ASSUME NEW i \in Iters, NEW s \in IterationStatus, WriteRow(i, s)
       PROVE  /\ rows' \in [Iters -> IterationStatus \cup {"none"}]
              /\ faults' \in 0 .. MaxFaults
  BY <1>18 DEF TypeOK, WriteRow, RowSet
<1>19. ASSUME NEW c \in Coords, NEW i \in Iters, TaskStart(c, i) PROVE TypeOK'
  BY <1>18, <1>19 DEF TypeOK, TaskStart, SetTask, TaskState, IterationStatus
<1>20. ASSUME NEW c \in Coords, NEW i \in Iters, TaskSucceed(c, i) PROVE TypeOK'
  BY <1>18, <1>20 DEF TypeOK, TaskSucceed, SetTask, TaskState, IterationStatus
<1>21. ASSUME NEW c \in Coords, NEW i \in Iters, TaskFail(c, i) PROVE TypeOK'
  BY <1>21 DEF TypeOK, TaskFail, TaskError, SetTask, TaskState
<1>22. ASSUME NEW c \in Coords, NEW i \in Iters, TaskAbort(c, i) PROVE TypeOK'
  BY <1>22 DEF TypeOK, TaskAbort, TaskError, SetTask, TaskState
<1>23. ASSUME NEW c \in Coords, NEW i \in Iters, TaskRecordFailure(c, i) PROVE TypeOK'
  BY <1>18, <1>23 DEF TypeOK, TaskRecordFailure, SetTask, TaskState, IterationStatus
<1>24. ASSUME NEW c \in Coords, NEW i \in Iters, TaskPanic(c, i) PROVE TypeOK'
  BY <1>24 DEF TypeOK, TaskPanic, SetTask, TaskState
<1>25. ASSUME CheckCancel \/ CheckDelete \/ ApplyCancel PROVE TypeOK'
  BY <1>25 DEF TypeOK, CheckCancel, CheckDelete, ApplyCancel, UpdateStatus, BackfillStatus
<1>26. ASSUME ApplyDelete PROVE TypeOK'
  BY <1>26 DEF TypeOK, ApplyDelete, IterationStatus
<1>27. ASSUME Crash PROVE TypeOK'
  <2>1. PICK S \in SUBSET Coords : TornInsert(S) /\ Stop(S)
    BY <1>27 DEF Crash
  <2>2. crashes' \in 0 .. MaxCrashes
    BY <1>27 DEF TypeOK, Crash
  <2>3. QED
    BY <1>16, <1>27, <2>1, <2>2, StopType DEF TypeOK, Crash
<1>28. ASSUME UNCHANGED vars PROVE TypeOK'
  BY <1>28 DEF TypeOK, vars
<1>29. QED
  BY NextCases, <1>1, <1>2, <1>3, <1>4, <1>5, <1>6, <1>7, <1>8, <1>9, <1>10,
     <1>11, <1>12, <1>13, <1>14, <1>15, <1>17, <1>19, <1>20, <1>21, <1>22,
     <1>23, <1>24, <1>25, <1>26, <1>27, <1>28

\* Every value a column, a program counter or a flag takes is one the code knows.
THEOREM TypeCorrect == Spec => []TypeOK
BY TypeInit, TypeStep, PTL DEF Spec

-----------------------------------------------------------------------------
(* The semaphore *)

LEMMA ItersFinite == IsFiniteSet(Iters)
BY BackfillAssumption, FS_Interval DEF Iters

\* Only Spawn puts an iteration in flight; a step that does not keeps the bound.
LEMMA PermitCalm ==
  ASSUME PermitBound, \A c \in Coords : Inflight(c)' \subseteq Inflight(c)
  PROVE  PermitBound'
<1> SUFFICES ASSUME NEW c \in Coords PROVE Cardinality(Inflight(c)') <= Concurrency
  BY DEF PermitBound
<1>1. Inflight(c) \subseteq Iters /\ IsFiniteSet(Inflight(c))
  BY ItersFinite, FS_Subset DEF Inflight
<1>2. /\ Cardinality(Inflight(c)') <= Cardinality(Inflight(c))
      /\ Cardinality(Inflight(c)') \in Nat /\ Cardinality(Inflight(c)) \in Nat
  BY <1>1, FS_Subset, FS_CardinalityType
<1>3. QED
  BY <1>2, BackfillAssumption DEF PermitBound

LEMMA PermitInit == Init => PermitBound
<1> SUFFICES ASSUME Init, NEW c \in Coords PROVE Cardinality(Inflight(c)) <= Concurrency
  BY DEF PermitBound
<1>1. Inflight(c) = {}
  BY DEF Init, Inflight, NoTask
<1>2. QED
  BY <1>1, FS_EmptySet, BackfillAssumption

LEMMA PermitStep == TypeOK /\ PermitBound /\ [Next]_vars => PermitBound'
<1> SUFFICES ASSUME TypeOK, PermitBound, [Next]_vars PROVE PermitBound'
  OBVIOUS
<1> USE DEF plan, flags
<1>1. ASSUME UNCHANGED task PROVE PermitBound'
  BY <1>1, PermitCalm DEF Inflight
<1>2. ASSUME NEW S \in SUBSET Coords, Stop(S) PROVE PermitBound'
  BY <1>2, PermitCalm DEF Inflight, Stop, NoTask, TypeOK
<1>3. ASSUME NEW c \in Coords, NEW i \in Iters, task[c][i] # "none",
             NEW s, SetTask(c, i, s)
      PROVE  PermitBound'
  BY <1>3, PermitCalm DEF Inflight, SetTask, TypeOK
<1>4. ASSUME NEW c \in Coords, Spawn(c) PROVE PermitBound'
  <2>1. PICK i \in Iters : task' = [task EXCEPT ![c][i] = "spawned"]
    BY <1>4 DEF Spawn, TypeOK
  <2>2. \A d \in Coords \ {c} : Inflight(d)' = Inflight(d)
    BY <2>1 DEF Inflight, TypeOK
  <2>3. Inflight(c)' = Inflight(c) \cup {i}
    BY <2>1 DEF Inflight, TypeOK
  <2>4. IsFiniteSet(Inflight(c))
    BY ItersFinite, FS_Subset DEF Inflight
  <2>5. /\ Cardinality(Inflight(c)) \in Nat
        /\ \/ Cardinality(Inflight(c) \cup {i}) = Cardinality(Inflight(c))
           \/ Cardinality(Inflight(c) \cup {i}) = Cardinality(Inflight(c)) + 1
    BY <2>4, FS_AddElement, FS_CardinalityType
  <2>6. Cardinality(Inflight(c)') <= Concurrency
    BY <1>4, <2>3, <2>5, BackfillAssumption DEF Spawn
  <2>7. QED
    BY <2>2, <2>6 DEF PermitBound
<1>5. ASSUME NEW c \in Coords, NEW k \in Kinds, StartBackfill(c, k) PROVE PermitBound'
  BY <1>1, <1>5 DEF StartBackfill, Launch
<1>6. ASSUME NEW c \in Coords,
             \/ ResumeApi(c) \/ ResumeCli(c) \/ CreateRecord(c) \/ CreateIterations(c)
             \/ GetRecord(c) \/ ListIterations(c) \/ ResetFailed(c) \/ ResetDone(c)
             \/ MarkRunning(c) \/ CheckLoop(c) \/ Decide(c) \/ CtrlC(c)
      PROVE  PermitBound'
  BY <1>1, <1>6 DEF ResumeApi, ResumeCli, Launch, CreateRecord, CreateIterations, GetRecord,
     ListIterations, ResetFailed, ResetDone, MarkRunning, CheckLoop, Decide, CtrlC
<1>7. ASSUME NEW c \in Coords, RecordGone(c) \/ WriteFinal(c) \/ StoreError(c)
      PROVE  PermitBound'
  BY <1>2, <1>7 DEF RecordGone, WriteFinal, StoreError
<1>8. ASSUME NEW c \in Coords, NEW i \in Iters,
             \/ TaskStart(c, i) \/ TaskSucceed(c, i) \/ TaskFail(c, i) \/ TaskAbort(c, i)
             \/ TaskRecordFailure(c, i) \/ TaskPanic(c, i)
      PROVE  PermitBound'
  BY <1>3, <1>8 DEF TaskStart, TaskSucceed, TaskFail, TaskAbort, TaskError,
     TaskRecordFailure, TaskPanic
<1>9. ASSUME CheckCancel \/ CheckDelete \/ ApplyCancel \/ ApplyDelete PROVE PermitBound'
  BY <1>1, <1>9 DEF CheckCancel, CheckDelete, ApplyCancel, ApplyDelete
<1>10. ASSUME Crash PROVE PermitBound'
  BY <1>2, <1>10 DEF Crash
<1>11. ASSUME UNCHANGED vars PROVE PermitBound'
  BY <1>1, <1>11 DEF vars
<1>12. QED
  BY NextCases, <1>4, <1>5, <1>6, <1>7, <1>8, <1>9, <1>10, <1>11

\* A coordinator never has more iterations in flight than its semaphore has
\* permits, whatever the number of iterations, coordinators, crashes and faults.
THEOREM PermitsRespected == Spec => []PermitBound
BY TypeCorrect, PermitInit, PermitStep, PTL DEF Spec

-----------------------------------------------------------------------------
(* fail_fast *)

\* A failure that was noted before the loop waits for a permit stops it, one
\* that is noted while it waits lets one more iteration through.
LateInv ==
  \A c \in Coords :
    /\ ~hadFailure[c] => late[c] = 0
    /\ FailFast /\ hadFailure[c] => late[c] <= (IF pc[c] = "acquire" THEN 0 ELSE 1)

LEMMA LateInit == Init => LateInv
BY DEF Init, LateInv

\* A step that leaves the flag and the count alone, and brings no coordinator to
\* the semaphore.
LEMMA LateCalm ==
  ASSUME TypeOK, LateInv, UNCHANGED <<hadFailure, late>>,
         \A c \in Coords : pc'[c] = "acquire" => pc[c] = "acquire"
  PROVE  LateInv'
BY DEF LateInv, TypeOK

LEMMA LateStep == TypeOK /\ LateInv /\ [Next]_vars => LateInv'
<1> SUFFICES ASSUME TypeOK, LateInv, [Next]_vars PROVE LateInv'
  OBVIOUS
<1> USE DEF plan, flags
<1>1. ASSUME NEW S \in SUBSET Coords, Stop(S) PROVE LateInv'
  BY <1>1 DEF LateInv, Stop, TypeOK
<1>2. ASSUME NEW c \in Coords, NEW k \in Kinds, StartBackfill(c, k) PROVE LateInv'
  BY <1>2, LateCalm DEF StartBackfill, Launch, Goto, TypeOK
<1>3. ASSUME NEW c \in Coords,
             \/ ResumeApi(c) \/ ResumeCli(c) \/ CreateRecord(c) \/ CreateIterations(c)
             \/ GetRecord(c) \/ ListIterations(c) \/ ResetFailed(c) \/ ResetDone(c)
             \/ MarkRunning(c) \/ Decide(c) \/ CtrlC(c)
      PROVE  LateInv'
  BY <1>3, LateCalm DEF ResumeApi, ResumeCli, Launch, CreateRecord, CreateIterations, GetRecord,
     ListIterations, ResetFailed, ResetDone, MarkRunning, Decide, CtrlC, Goto, TypeOK
<1>4. ASSUME NEW c \in Coords, CheckLoop(c) PROVE LateInv'
  <2>1. UNCHANGED <<hadFailure, late>>
    BY <1>4 DEF CheckLoop
  <2>2. pc' = [pc EXCEPT ![c] = IF StopsHere(c) THEN "drain" ELSE "acquire"]
    BY <1>4 DEF CheckLoop, Goto
  <2>3. pc[c] = "loop" /\ (FailFast /\ hadFailure[c] => pc'[c] = "drain")
    BY <1>4, <2>2 DEF CheckLoop, StopsHere, TypeOK
  <2>4. QED
    BY <2>1, <2>2, <2>3 DEF LateInv, TypeOK
<1>5. ASSUME NEW c \in Coords, Spawn(c) PROVE LateInv'
  BY <1>5 DEF LateInv, Spawn, Goto, TypeOK
<1>6. ASSUME NEW c \in Coords, RecordGone(c) \/ WriteFinal(c) \/ StoreError(c) PROVE LateInv'
  BY <1>1, <1>6 DEF RecordGone, WriteFinal, StoreError
<1>7. ASSUME NEW c \in Coords, NEW i \in Iters, NEW s, TaskError(c, i, s) PROVE LateInv'
  BY <1>7 DEF LateInv, TaskError, TypeOK
<1>8. ASSUME NEW c \in Coords, NEW i \in Iters,
             \/ TaskStart(c, i) \/ TaskSucceed(c, i) \/ TaskRecordFailure(c, i) \/ TaskPanic(c, i)
      PROVE  LateInv'
  BY <1>8, LateCalm DEF TaskStart, TaskSucceed, TaskRecordFailure, TaskPanic
<1>9. ASSUME NEW c \in Coords, NEW i \in Iters, TaskFail(c, i) \/ TaskAbort(c, i) PROVE LateInv'
  BY <1>7, <1>9 DEF TaskFail, TaskAbort
<1>10. ASSUME CheckCancel \/ CheckDelete \/ ApplyCancel \/ ApplyDelete PROVE LateInv'
  BY <1>10, LateCalm DEF CheckCancel, CheckDelete, ApplyCancel, ApplyDelete
<1>11. ASSUME Crash PROVE LateInv'
  BY <1>1, <1>11 DEF Crash
<1>12. ASSUME UNCHANGED vars PROVE LateInv'
  BY <1>12, LateCalm DEF vars
<1>13. QED
  BY NextCases, <1>2, <1>3, <1>4, <1>5, <1>6, <1>8, <1>9, <1>10, <1>11, <1>12

LEMMA LateEnough == TypeOK /\ LateInv => FailFastOvershoot
BY DEF TypeOK, LateInv, FailFastOvershoot

\* With fail_fast at most one iteration starts after a failure was noted,
\* however many are in flight and in whatever order they end.
THEOREM FailFastStops == Spec => []FailFastOvershoot
BY TypeCorrect, TypeInit, LateInit, LateStep, LateEnough, PTL DEF Spec

-----------------------------------------------------------------------------
(* No second run of what succeeded *)

\* Where in its life a coordinator has tasks, rows to reset and iterations to run.
LifeInv ==
  \A c \in Coords :
    /\ pc[c] \notin {"loop", "acquire", "drain"} => Inflight(c) = {}
    /\ pc[c] # "reset" => resetq[c] = {}
    /\ pc[c] = "idle" => todo[c] = {}

\* No rows before the record.
FreshInv == status = "none" => \A i \in Iters : rows[i] = "none"

\* Coordinators that never overlapped: what the active one still means to run
\* or to reset has not succeeded, and nothing is both waiting and running.
SingleInv ==
  ~overlap =>
    /\ \A c, d \in Coords : Active(c) /\ Active(d) => c = d
    /\ \A c \in Coords : todo[c] \cap Inflight(c) = {}
    /\ \A c \in Coords : \A i \in todo[c] \cup Inflight(c) \cup resetq[c] :
         rows[i] # "succeeded"
    /\ \A c \in Coords : pc[c] \in {"create", "insert"} => \A i \in Iters : rows[i] = "none"

RerunInv == TypeOK /\ LifeInv /\ FreshInv /\ SingleInv

LEMMA RerunInit == Init => RerunInv
<1> SUFFICES ASSUME Init PROVE LifeInv /\ FreshInv /\ SingleInv
  BY TypeInit DEF RerunInv
<1>1. LifeInv
  BY DEF Init, LifeInv, Inflight, NoTask
<1>2. FreshInv /\ SingleInv
  BY DEF Init, FreshInv, SingleInv, Active, Inflight, NoTask
<1>3. QED
  BY <1>1, <1>2

\* Writing a row never makes one, and touches no other.
LEMMA RowSetFact ==
  ASSUME TypeOK, NEW i \in Iters, NEW s \in IterationStatus, rows' = RowSet(i, s)
  PROVE  \A j \in Iters : rows'[j] = IF j = i /\ rows[j] # "none" THEN s ELSE rows[j]
BY DEF TypeOK, RowSet

LEMMA WriteRowFact ==
  ASSUME TypeOK, NEW i \in Iters, NEW s \in IterationStatus, WriteRow(i, s)
  PROVE  /\ \A j \in Iters \ {i} : rows'[j] = rows[j]
         /\ rows'[i] \in {rows[i], s}
         /\ rows[i] = "none" => rows'[i] = "none"
BY RowSetFact DEF WriteRow, TypeOK

\* What a step of one coordinator's own may do without harm to the invariant:
\* move on, keep or shrink its plan and its tasks, make no row succeed.
LEMMA CalmStep ==
  ASSUME RerunInv, UNCHANGED overlap,
         status' = "none" => status = "none" /\ rows' = rows,
         \A d \in Coords : todo'[d] \subseteq todo[d] /\ resetq'[d] \subseteq resetq[d],
         \A d \in Coords : Inflight(d)' \subseteq Inflight(d),
         \A i \in Iters : rows'[i] = "succeeded" => rows[i] = "succeeded",
         \A d \in Coords : pc'[d] # "idle" => pc[d] # "idle",
         \A d \in Coords : pc'[d] \in {"create", "insert"} /\ ~overlap
                            => \A i \in Iters : rows'[i] = "none"
  PROVE  FreshInv' /\ SingleInv'
<1>1. FreshInv'
  BY DEF FreshInv, RerunInv
<1>2. ASSUME ~overlap' PROVE SingleInv'
  <2>1. ~overlap /\ SingleInv
    BY <1>2 DEF RerunInv
  <2>2. \A c, d \in Coords : Active(c)' /\ Active(d)' => c = d
    BY <2>1 DEF SingleInv, Active
  <2>3. \A c \in Coords : todo'[c] \cap Inflight(c)' = {}
    BY <2>1 DEF SingleInv
  <2>4. \A c \in Coords : \A i \in todo'[c] \cup Inflight(c)' \cup resetq'[c] :
          rows'[i] # "succeeded"
    <3> SUFFICES ASSUME NEW c \in Coords, NEW i \in todo'[c] \cup Inflight(c)' \cup resetq'[c]
                 PROVE  rows'[i] # "succeeded"
      OBVIOUS
    <3>1. i \in todo[c] \cup Inflight(c) \cup resetq[c]
      OBVIOUS
    <3>2. i \in Iters
      BY <3>1 DEF RerunInv, TypeOK, Inflight
    <3>3. QED
      BY <2>1, <3>1, <3>2 DEF SingleInv
  <2>5. QED
    BY <2>1, <2>2, <2>3, <2>4 DEF SingleInv
<1>3. QED
  BY <1>1, <1>2 DEF SingleInv

LEMMA LifeStep == TypeOK /\ LifeInv /\ [Next]_vars => LifeInv'
<1> SUFFICES ASSUME TypeOK, LifeInv, [Next]_vars PROVE LifeInv'
  OBVIOUS
<1> USE DEF plan, flags
<1>1. ASSUME NEW S \in SUBSET Coords, Stop(S) PROVE LifeInv'
  BY <1>1 DEF LifeInv, Stop, Inflight, NoTask, TypeOK
<1>2. ASSUME NEW c \in Coords, NEW k, NEW first \in {"create", "get"}, NEW its,
             Launch(c, k, first, its)
      PROVE  LifeInv'
  BY <1>2 DEF LifeInv, Launch, Goto, Inflight, TypeOK
<1>3. ASSUME NEW c \in Coords, (\E k \in Kinds : StartBackfill(c, k)) \/ ResumeApi(c) \/ ResumeCli(c)
      PROVE  LifeInv'
  BY <1>2, <1>3 DEF StartBackfill, ResumeApi, ResumeCli
<1>4. ASSUME NEW c \in Coords,
             \/ CreateRecord(c) \/ CreateIterations(c) \/ GetRecord(c) \/ ResetDone(c)
             \/ MarkRunning(c) \/ CheckLoop(c) \/ Decide(c)
      PROVE  LifeInv'
  BY <1>4 DEF LifeInv, CreateRecord, CreateIterations, GetRecord, ResetDone, MarkRunning,
     CheckLoop, Decide, Goto, Inflight, TypeOK
<1>5. ASSUME NEW c \in Coords, ListIterations(c) \/ ResetFailed(c) PROVE LifeInv'
  BY <1>5 DEF LifeInv, ListIterations, ResetFailed, Goto, Inflight, TypeOK
<1>6. ASSUME NEW c \in Coords, Spawn(c) PROVE LifeInv'
  <2>1. \A d \in Coords \ {c} : Inflight(d)' = Inflight(d) /\ pc'[d] = pc[d] /\ todo'[d] = todo[d]
    BY <1>6 DEF Spawn, Goto, Inflight, TypeOK
  <2>2. pc'[c] = "loop" /\ pc[c] = "acquire" /\ resetq' = resetq
    BY <1>6 DEF Spawn, Goto, TypeOK
  <2>3. QED
    BY <2>1, <2>2 DEF LifeInv
<1>7. ASSUME NEW c \in Coords, RecordGone(c) \/ WriteFinal(c) \/ StoreError(c) PROVE LifeInv'
  BY <1>1, <1>7 DEF RecordGone, WriteFinal, StoreError
<1>8. ASSUME NEW c \in Coords, NEW i \in Iters, task[c][i] # "none",
             NEW s, SetTask(c, i, s), UNCHANGED <<pc, plan>>
      PROVE  LifeInv'
  BY <1>8 DEF LifeInv, SetTask, Inflight, TypeOK
<1>9. ASSUME NEW c \in Coords, NEW i \in Iters,
             \/ TaskStart(c, i) \/ TaskSucceed(c, i) \/ TaskFail(c, i) \/ TaskAbort(c, i)
             \/ TaskRecordFailure(c, i) \/ TaskPanic(c, i)
      PROVE  LifeInv'
  BY <1>8, <1>9 DEF TaskStart, TaskSucceed, TaskFail, TaskAbort, TaskError,
     TaskRecordFailure, TaskPanic
<1>10. ASSUME UNCHANGED <<pc, plan, task>> PROVE LifeInv'
  BY <1>10 DEF LifeInv, Inflight
<1>11. ASSUME CheckCancel \/ CheckDelete \/ ApplyCancel \/ ApplyDelete PROVE LifeInv'
  BY <1>10, <1>11 DEF CheckCancel, CheckDelete, ApplyCancel, ApplyDelete
<1>12. ASSUME NEW c \in Coords, CtrlC(c) PROVE LifeInv'
  BY <1>10, <1>12 DEF CtrlC
<1>13. ASSUME Crash PROVE LifeInv'
  BY <1>1, <1>13 DEF Crash
<1>14. ASSUME UNCHANGED vars PROVE LifeInv'
  BY <1>10, <1>14 DEF vars
<1>15. QED
  BY NextCases, <1>3, <1>4, <1>5, <1>6, <1>7, <1>9, <1>11, <1>12, <1>13, <1>14

\* At most one coordinator is active as long as none overlapped, so the others
\* have no plan and no task.
LEMMA OthersIdle ==
  ASSUME RerunInv, ~overlap, NEW c \in Coords, Active(c)
  PROVE  \A d \in Coords \ {c} : /\ pc[d] = "idle" /\ todo[d] = {}
                                 /\ Inflight(d) = {} /\ resetq[d] = {}
BY DEF RerunInv, SingleInv, LifeInv, Active

LEMMA RerunStep == RerunInv /\ [Next]_vars => FreshInv' /\ SingleInv'
<1> SUFFICES ASSUME RerunInv, [Next]_vars PROVE FreshInv' /\ SingleInv'
  OBVIOUS
<1> USE DEF plan, flags, db
<1>t. TypeOK /\ LifeInv /\ FreshInv /\ SingleInv
  BY DEF RerunInv
<1>e. Exists => status # "none"
  BY DEF Exists, BackfillStatus
\* Starting
<1>1. ASSUME NEW c \in Coords, NEW k \in Kinds, StartBackfill(c, k)
      PROVE  FreshInv' /\ SingleInv'
  <2>1. /\ rows' = rows /\ status' = status /\ status = "none"
        /\ todo' = [todo EXCEPT ![c] = Iters] /\ resetq' = resetq
        /\ \A d \in Coords : Inflight(d)' = Inflight(d)
        /\ pc' = [pc EXCEPT ![c] = "create"] /\ \A d \in Coords : pc[d] = "idle"
    BY <1>1 DEF StartBackfill, Launch, Goto, Inflight, Active
  <2>2. \A d \in Coords : Inflight(d) = {} /\ resetq[d] = {} /\ (d # c => todo'[d] = {})
    BY <1>t, <2>1 DEF LifeInv, TypeOK
  <2>3. \A i \in Iters : rows[i] = "none"
    BY <1>t, <2>1 DEF FreshInv
  <2>4. \A d \in Coords : todo'[d] \subseteq Iters
    BY <1>t, <2>1 DEF TypeOK
  <2>5. FreshInv'
    BY <2>1, <2>3 DEF FreshInv
  <2>6. SingleInv'
    BY <1>t, <2>1, <2>2, <2>3, <2>4 DEF SingleInv, Active, TypeOK
  <2>7. QED
    BY <2>5, <2>6
<1>2. ASSUME NEW c \in Coords, ResumeApi(c) \/ ResumeCli(c) PROVE FreshInv' /\ SingleInv'
  <2>1. /\ rows' = rows /\ status' = status /\ resetq' = resetq
        /\ todo' = [todo EXCEPT ![c] = {}]
        /\ \A d \in Coords : Inflight(d)' = Inflight(d)
        /\ pc' = [pc EXCEPT ![c] = "get"] /\ pc[c] = "idle"
        /\ overlap' = (overlap \/ \E d \in Coords \ {c} : Active(d))
    BY <1>2 DEF ResumeApi, ResumeCli, Launch, Goto, Inflight
  <2>2. FreshInv'
    BY <1>t, <2>1 DEF FreshInv
  <2>3. ASSUME ~overlap' PROVE SingleInv'
    <3>1. \A d \in Coords : /\ pc[d] = "idle" /\ Inflight(d) = {} /\ resetq[d] = {}
                            /\ todo'[d] = {}
      BY <1>t, <2>1, <2>3 DEF LifeInv, TypeOK, Active
    <3>2. QED
      BY <1>t, <2>1, <3>1 DEF SingleInv, Active, TypeOK
  <2>4. QED
    BY <2>2, <2>3 DEF SingleInv
\* Steps that change neither rows nor plan
<1>3. ASSUME NEW c \in Coords, GetRecord(c) \/ ResetDone(c) \/ MarkRunning(c) \/ CheckLoop(c) \/ Decide(c) \/ CtrlC(c)
      PROVE  FreshInv' /\ SingleInv'
  <2>1. /\ rows' = rows /\ todo' = todo /\ resetq' = resetq /\ overlap' = overlap
        /\ \A d \in Coords : Inflight(d)' = Inflight(d)
    BY <1>3 DEF GetRecord, ResetDone, MarkRunning, CheckLoop, Decide, CtrlC, Inflight
  <2>2. status' = "none" => status = "none"
    BY <1>3, <1>t DEF GetRecord, ResetDone, MarkRunning, CheckLoop, Decide, CtrlC, UpdateStatus
  <2>3. \A d \in Coords : /\ pc'[d] # "idle" => pc[d] # "idle"
                          /\ pc'[d] \in {"create", "insert"} => pc[d] = pc'[d]
    BY <1>3, <1>t DEF GetRecord, ResetDone, MarkRunning, CheckLoop, Decide, CtrlC, Goto, TypeOK, Active
  <2>4. \A d \in Coords : pc'[d] \in {"create", "insert"} /\ ~overlap
                          => \A i \in Iters : rows'[i] = "none"
    BY <1>t, <2>1, <2>3 DEF SingleInv
  <2>5. QED
    BY <2>1, <2>2, <2>3, <2>4, CalmStep
<1>4. ASSUME NEW c \in Coords, CreateRecord(c) PROVE FreshInv' /\ SingleInv'
  <2>1. /\ rows' = rows /\ todo' = todo /\ resetq' = resetq /\ overlap' = overlap
        /\ \A d \in Coords : Inflight(d)' = Inflight(d)
        /\ status' = "pending"
        /\ pc[c] = "create" /\ pc' = [pc EXCEPT ![c] = "insert"]
    BY <1>4 DEF CreateRecord, Goto, Inflight
  <2>2. \A d \in Coords : /\ pc'[d] # "idle" => pc[d] # "idle"
                          /\ pc'[d] \in {"create", "insert"} => pc[d] \in {"create", "insert"}
    BY <1>t, <2>1 DEF TypeOK
  <2>3. \A d \in Coords : pc'[d] \in {"create", "insert"} /\ ~overlap
                          => \A i \in Iters : rows'[i] = "none"
    BY <1>t, <2>1, <2>2 DEF SingleInv
  <2>4. QED
    BY <2>1, <2>2, <2>3, CalmStep
<1>5. ASSUME NEW c \in Coords, CreateIterations(c) PROVE FreshInv' /\ SingleInv'
  <2>1. /\ rows' = [i \in Iters |-> "pending"] /\ todo' = todo /\ resetq' = resetq
        /\ overlap' = overlap /\ status' = status /\ Exists
        /\ \A d \in Coords : Inflight(d)' = Inflight(d)
        /\ pc[c] = "insert" /\ pc' = [pc EXCEPT ![c] = "begin"]
    BY <1>5 DEF CreateIterations, Goto, Inflight
  <2>2. \A d \in Coords : pc'[d] # "idle" => pc[d] # "idle"
    BY <1>t, <2>1 DEF TypeOK
  <2>3. \A d \in Coords : pc'[d] \in {"create", "insert"} => overlap
    BY <1>t, <2>1 DEF TypeOK, SingleInv, Active
  <2>4. QED
    BY <1>e, <2>1, <2>2, <2>3, CalmStep
\* The plan
<1>6. ASSUME NEW c \in Coords, ListIterations(c) PROVE FreshInv' /\ SingleInv'
  <2>1. /\ rows' = rows /\ status' = status /\ overlap' = overlap
        /\ pc[c] = "list" /\ pc' = [pc EXCEPT ![c] = "reset"]
        /\ \A d \in Coords : Inflight(d)' = Inflight(d)
        /\ \A d \in Coords \ {c} : todo'[d] = todo[d] /\ resetq'[d] = resetq[d]
    BY <1>6, <1>t DEF ListIterations, Goto, Inflight, TypeOK
  <2>2. /\ todo'[c] = {i \in Iters : rows[i] # "none" /\ KeyOf[i] \notin SucceededKeys}
        /\ resetq'[c] = {i \in Iters : rows[i] = "failed"}
    BY <1>6, <1>t DEF ListIterations, TypeOK
  <2>3. \A i \in todo'[c] \cup resetq'[c] : rows[i] # "succeeded"
    BY <2>2 DEF SucceededKeys
  <2>4. Inflight(c) = {}
    BY <1>t, <2>1 DEF LifeInv
  <2>5. FreshInv'
    BY <1>t, <2>1 DEF FreshInv
  <2>6. ASSUME ~overlap PROVE SingleInv'
    <3>1. \A d \in Coords : pc'[d] # "idle" => d = c
      BY <1>t, <2>1, <2>6 DEF SingleInv, Active, TypeOK
    <3>2. \A d \in Coords : todo'[d] \cap Inflight(d)' = {}
      BY <1>t, <2>1, <2>4, <2>6 DEF SingleInv
    <3>3. \A d \in Coords : \A i \in todo'[d] \cup Inflight(d)' \cup resetq'[d] : rows'[i] # "succeeded"
      BY <1>t, <2>1, <2>3, <2>4, <2>6 DEF SingleInv
    <3>4. QED
      BY <1>t, <2>1, <2>6, <3>1, <3>2, <3>3 DEF SingleInv, Active, TypeOK
  <2>7. QED
    BY <2>1, <2>5, <2>6 DEF SingleInv
<1>7. ASSUME NEW c \in Coords, ResetFailed(c) PROVE FreshInv' /\ SingleInv'
  <2>1. PICK i \in Iters : rows' = RowSet(i, "pending") /\ resetq' = [resetq EXCEPT ![c] = @ \ {i}]
    BY <1>7, <1>t DEF ResetFailed, TypeOK
  <2>2. /\ status' = status /\ overlap' = overlap /\ pc' = pc /\ todo' = todo
        /\ \A d \in Coords : Inflight(d)' = Inflight(d)
    BY <1>7 DEF ResetFailed, Inflight
  <2>3. \A j \in Iters : rows'[j] = IF j = i /\ rows[j] # "none" THEN "pending" ELSE rows[j]
    BY <1>t, <2>1, RowSetFact DEF IterationStatus
  <2>4. \A d \in Coords : resetq'[d] \subseteq resetq[d]
    BY <1>t, <2>1 DEF TypeOK
  <2>5. FreshInv'
    BY <1>t, <2>2, <2>3 DEF FreshInv
  <2>6. ASSUME ~overlap PROVE SingleInv'
    <3>1. \A d \in Coords : \A j \in todo'[d] \cup Inflight(d)' \cup resetq'[d] : rows'[j] # "succeeded"
      <4> SUFFICES ASSUME NEW d \in Coords, NEW j \in todo'[d] \cup Inflight(d)' \cup resetq'[d]
                   PROVE  rows'[j] # "succeeded"
        OBVIOUS
      <4>1. j \in todo[d] \cup Inflight(d) \cup resetq[d]
        BY <2>2, <2>4
      <4>2. j \in Iters
        BY <1>t, <4>1 DEF TypeOK, Inflight
      <4>3. QED
        BY <1>t, <2>3, <2>6, <4>1, <4>2 DEF SingleInv
    <3>2. QED
      BY <1>t, <2>2, <2>3, <2>6, <3>1 DEF SingleInv, Active
  <2>7. QED
    BY <2>2, <2>5, <2>6 DEF SingleInv
<1>8. ASSUME NEW c \in Coords, Spawn(c) PROVE FreshInv' /\ SingleInv'
  <2>1. PICK i \in todo[c] : /\ todo' = [todo EXCEPT ![c] = @ \ {i}]
                             /\ task' = [task EXCEPT ![c][i] = "spawned"]
    BY <1>8 DEF Spawn
  <2>2. /\ rows' = rows /\ status' = status /\ overlap' = overlap /\ resetq' = resetq
        /\ pc[c] = "acquire" /\ pc' = [pc EXCEPT ![c] = "loop"]
    BY <1>8 DEF Spawn, Goto
  <2>3. i \in Iters
    BY <1>t, <2>1 DEF TypeOK
  <2>4. /\ \A d \in Coords \ {c} : todo'[d] = todo[d] /\ Inflight(d)' = Inflight(d)
        /\ todo'[c] = todo[c] \ {i} /\ Inflight(c)' = Inflight(c) \cup {i}
    BY <1>t, <2>1, <2>3 DEF TypeOK, Inflight
  <2>5. FreshInv'
    BY <1>t, <2>2 DEF FreshInv
  <2>6. ASSUME ~overlap PROVE SingleInv'
    <3>1. \A d \in Coords : todo'[d] \cap Inflight(d)' = {}
      BY <1>t, <2>4, <2>6 DEF SingleInv
    <3>2. \A d \in Coords : \A j \in todo'[d] \cup Inflight(d)' \cup resetq'[d] : rows'[j] # "succeeded"
      BY <1>t, <2>2, <2>4, <2>6 DEF SingleInv
    <3>3. \A d \in Coords : /\ pc'[d] # "idle" => pc[d] # "idle"
                            /\ pc'[d] \in {"create", "insert"} => pc[d] = pc'[d]
      BY <1>t, <2>2 DEF TypeOK
    <3>4. QED
      BY <1>t, <2>2, <2>6, <3>1, <3>2, <3>3 DEF SingleInv, Active
  <2>7. QED
    BY <2>2, <2>5, <2>6 DEF SingleInv
\* Ending
<1>9. ASSUME NEW S \in SUBSET Coords, Stop(S), TornInsert(S), UNCHANGED overlap,
             status' = "none" => status = "none"
      PROVE  FreshInv' /\ SingleInv'
  <2>1. \A d \in Coords : /\ pc'[d] # "idle" => d \notin S /\ pc'[d] = pc[d]
                          /\ todo'[d] \subseteq todo[d] /\ resetq'[d] \subseteq resetq[d]
                          /\ Inflight(d)' \subseteq Inflight(d)
    BY <1>9, <1>t DEF Stop, TypeOK, Inflight, NoTask
  <2>2. CASE rows' = rows
    <3>1. \A d \in Coords : pc'[d] \in {"create", "insert"} /\ ~overlap
                            => \A i \in Iters : rows'[i] = "none"
      BY <1>t, <2>1, <2>2 DEF SingleInv
    <3>2. QED
      BY <1>9, <2>1, <2>2, <3>1, CalmStep
  <2>3. CASE rows' # rows
    <3>1. PICK c \in S : pc[c] = "insert"
      BY <1>9, <2>3 DEF TornInsert
    <3>2. status # "none" /\ \A i \in Iters : rows'[i] # "succeeded"
      BY <1>9, <1>e, <2>3 DEF TornInsert
    <3>3. \A d \in Coords : pc'[d] # "idle" => overlap
      BY <1>t, <2>1, <3>1 DEF SingleInv, Active
    <3>4. QED
      BY <1>9, <2>1, <3>2, <3>3, CalmStep
  <2>4. QED
    BY <2>2, <2>3
<1>10. ASSUME NEW c \in Coords, RecordGone(c) \/ WriteFinal(c) \/ StoreError(c)
       PROVE  FreshInv' /\ SingleInv'
  <2>1. Stop({c}) /\ TornInsert({c}) /\ UNCHANGED overlap
    BY <1>10 DEF RecordGone, WriteFinal, StoreError, TornInsert
  <2>2. status' = "none" => status = "none"
    BY <1>10, <1>t DEF RecordGone, WriteFinal, StoreError, UpdateStatus, TypeOK, FinalStatus
  <2>3. QED
    BY <1>9, <2>1, <2>2
<1>11. ASSUME Crash PROVE FreshInv' /\ SingleInv'
  <2>1. PICK S \in SUBSET Coords : TornInsert(S) /\ Stop(S)
    BY <1>11 DEF Crash
  <2>2. QED
    BY <1>9, <1>11, <2>1 DEF Crash
\* Tasks
<1>12. ASSUME NEW c \in Coords, NEW i \in Iters, task[c][i] # "none",
              NEW s, SetTask(c, i, s), UNCHANGED <<status, pc, plan, overlap>>,
              NEW r \in IterationStatus, WriteRow(i, r) \/ UNCHANGED rows,
              r = "succeeded" => s = "none"
       PROVE  FreshInv' /\ SingleInv'
  <2>1. /\ \A j \in Iters \ {i} : rows'[j] = rows[j]
        /\ rows'[i] \in {rows[i], r}
        /\ rows[i] = "none" => rows'[i] = "none"
    BY <1>12, <1>t, WriteRowFact
  <2>2. /\ \A d \in Coords : Inflight(d)' \subseteq Inflight(d)
        /\ i \in Inflight(c)
        /\ r = "succeeded" => i \notin Inflight(c)'
    BY <1>12, <1>t DEF SetTask, Inflight, TypeOK
  <2>3. Active(c)
    BY <1>t, <2>2 DEF LifeInv, Active
  <2>4. FreshInv'
    BY <1>12, <1>t, <2>1 DEF FreshInv
  <2>5. ASSUME ~overlap PROVE SingleInv'
    <3>1. \A d \in Coords \ {c} : /\ pc[d] = "idle" /\ todo[d] = {}
                                  /\ Inflight(d) = {} /\ resetq[d] = {}
      BY <2>3, <2>5, OthersIdle
    <3>2. resetq[c] = {} /\ i \notin todo[c]
      BY <1>t, <2>2, <2>5 DEF LifeInv, SingleInv
    <3>3. pc'[c] \notin {"create", "insert"}
      BY <1>12, <1>t, <2>2 DEF LifeInv
    <3>4. \A d \in Coords : \A j \in todo'[d] \cup Inflight(d)' \cup resetq'[d] : rows'[j] # "succeeded"
      <4> SUFFICES ASSUME NEW d \in Coords, NEW j \in todo'[d] \cup Inflight(d)' \cup resetq'[d]
                   PROVE  rows'[j] # "succeeded"
        OBVIOUS
      <4>1. d = c /\ j \in todo[c] \cup Inflight(c)'
        BY <1>12, <2>2, <3>1, <3>2
      <4>2. j \in Iters /\ rows[j] # "succeeded"
        BY <1>t, <2>2, <2>5, <4>1 DEF SingleInv, TypeOK, Inflight
      <4>3. QED
        BY <2>1, <2>2, <3>2, <4>1, <4>2
    <3>5. QED
      BY <1>12, <1>t, <2>2, <2>5, <3>1, <3>3, <3>4 DEF SingleInv, Active
  <2>6. QED
    BY <1>12, <2>4, <2>5 DEF SingleInv
<1>13. ASSUME NEW c \in Coords, NEW i \in Iters, TaskStart(c, i) PROVE FreshInv' /\ SingleInv'
  BY <1>12, <1>13 DEF TaskStart, IterationStatus
<1>14. ASSUME NEW c \in Coords, NEW i \in Iters, TaskSucceed(c, i) PROVE FreshInv' /\ SingleInv'
  BY <1>12, <1>14 DEF TaskSucceed, IterationStatus
<1>15. ASSUME NEW c \in Coords, NEW i \in Iters, TaskRecordFailure(c, i) PROVE FreshInv' /\ SingleInv'
  BY <1>12, <1>15 DEF TaskRecordFailure, IterationStatus
<1>16. ASSUME NEW c \in Coords, NEW i \in Iters,
              TaskFail(c, i) \/ TaskAbort(c, i) \/ TaskPanic(c, i)
       PROVE  FreshInv' /\ SingleInv'
  <2>1. "failed" \in IterationStatus
    BY DEF IterationStatus
  <2>2. QED
    BY <1>12, <1>16, <2>1 DEF TaskFail, TaskAbort, TaskPanic, TaskError
\* Requests
<1>17. ASSUME UNCHANGED <<pc, plan, task, overlap>>,
              \/ rows' = rows
              \/ \A i \in Iters : rows'[i] = "none",
              status' = "none" => status = "none"
       PROVE  FreshInv' /\ SingleInv'
  <2>1. \A i \in Iters : rows'[i] \in {rows[i], "none"}
    BY <1>17
  <2>2. FreshInv'
    BY <1>17, <1>t, <2>1 DEF FreshInv
  <2>3. SingleInv'
    <3> SUFFICES ASSUME ~overlap PROVE SingleInv'
      BY <1>17 DEF SingleInv
    <3>1. \A d \in Coords : \A j \in todo'[d] \cup Inflight(d)' \cup resetq'[d] :
            j \in Iters /\ rows[j] # "succeeded"
      BY <1>17, <1>t DEF SingleInv, Inflight, TypeOK
    <3>2. QED
      BY <1>17, <1>t, <2>1, <3>1 DEF SingleInv, Active, Inflight
  <2>4. QED
    BY <2>2, <2>3
<1>18. ASSUME CheckCancel \/ CheckDelete \/ ApplyCancel \/ ApplyDelete PROVE FreshInv' /\ SingleInv'
  BY <1>17, <1>18, <1>e DEF CheckCancel, CheckDelete, ApplyCancel, ApplyDelete, UpdateStatus
<1>19. ASSUME UNCHANGED vars PROVE FreshInv' /\ SingleInv'
  BY <1>17, <1>19 DEF vars
<1>20. QED
  BY NextCases, <1>1, <1>2, <1>3, <1>4, <1>5, <1>6, <1>7, <1>8, <1>10, <1>11,
     <1>13, <1>14, <1>15, <1>16, <1>18, <1>19

LEMMA RerunInductive == RerunInv /\ [Next]_vars => RerunInv'
BY TypeStep, LifeStep, RerunStep DEF RerunInv

LEMMA SucceededStep ==
  ASSUME RerunInv, [Next]_vars, NEW i \in Iters, rows[i] = "succeeded", ~overlap'
  PROVE  rows'[i] \in {"succeeded", "none"}
<1> USE DEF plan, flags, db
<1>t. TypeOK /\ LifeInv /\ FreshInv /\ SingleInv
  BY DEF RerunInv
<1>1. CASE rows' = rows
  BY <1>1
<1>2. ASSUME NEW c \in Coords, CreateIterations(c), ~overlap PROVE FALSE
  BY <1>2, <1>t DEF CreateIterations, SingleInv
<1>3. ASSUME NEW c \in Coords, ResetFailed(c), ~overlap PROVE rows'[i] = "succeeded"
  <2>1. PICK j \in resetq[c] : rows' = RowSet(j, "pending")
    BY <1>3 DEF ResetFailed
  <2>2. j \in Iters /\ rows[j] # "succeeded"
    BY <1>3, <1>t, <2>1 DEF SingleInv, TypeOK
  <2>3. QED
    BY <1>t, <2>1, <2>2, RowSetFact DEF IterationStatus
<1>4. ASSUME NEW S \in SUBSET Coords, TornInsert(S), ~overlap PROVE rows'[i] = "succeeded"
  BY <1>4, <1>t DEF TornInsert, SingleInv
<1>5. ASSUME NEW c \in Coords, NEW j \in Iters, task[c][j] # "none", ~overlap,
             NEW r \in IterationStatus, WriteRow(j, r)
      PROVE  rows'[i] = "succeeded"
  <2>1. rows[j] # "succeeded"
    BY <1>5, <1>t DEF SingleInv, Inflight
  <2>2. QED
    BY <1>5, <1>t, <2>1, WriteRowFact
<1>6. ASSUME NEW c \in Coords, NEW j \in Iters,
             TaskStart(c, j) \/ TaskSucceed(c, j) \/ TaskRecordFailure(c, j)
      PROVE  rows'[i] = "succeeded"
  BY <1>5, <1>6 DEF TaskStart, TaskSucceed, TaskRecordFailure, IterationStatus
<1>7. ASSUME NEW c \in Coords, StoreError(c) PROVE rows'[i] = "succeeded"
  BY <1>4, <1>7 DEF StoreError
<1>8. ASSUME Crash PROVE rows'[i] = "succeeded"
  BY <1>4, <1>8 DEF Crash
<1>9. ASSUME NEW c \in Coords, (\E k \in Kinds : StartBackfill(c, k)) \/ ResumeApi(c) \/ ResumeCli(c)
      PROVE  rows' = rows
  BY <1>9 DEF StartBackfill, ResumeApi, ResumeCli, Launch
<1>10. ASSUME NEW c \in Coords,
              \/ CreateRecord(c) \/ RecordGone(c) \/ GetRecord(c) \/ ListIterations(c)
              \/ ResetDone(c) \/ MarkRunning(c) \/ CheckLoop(c) \/ Spawn(c) \/ Decide(c)
              \/ WriteFinal(c) \/ CtrlC(c)
       PROVE  rows' = rows
  BY <1>10 DEF CreateRecord, RecordGone, GetRecord, ListIterations, ResetDone, MarkRunning,
     CheckLoop, Spawn, Decide, WriteFinal, CtrlC
<1>11. ASSUME NEW c \in Coords, NEW j \in Iters,
              TaskFail(c, j) \/ TaskAbort(c, j) \/ TaskPanic(c, j)
       PROVE  rows' = rows
  BY <1>11 DEF TaskFail, TaskAbort, TaskPanic, TaskError
<1>12. ASSUME CheckCancel \/ CheckDelete \/ ApplyCancel PROVE rows' = rows
  BY <1>12 DEF CheckCancel, CheckDelete, ApplyCancel
<1>13. ASSUME ApplyDelete PROVE rows'[i] = "none"
  BY <1>13 DEF ApplyDelete
<1>14. ASSUME UNCHANGED vars PROVE rows' = rows
  BY <1>14 DEF vars
<1>15. ASSUME NEW c \in Coords, CreateIterations(c) PROVE ~overlap
  BY <1>15 DEF CreateIterations
<1>16. ASSUME NEW c \in Coords, ResetFailed(c) PROVE ~overlap
  BY <1>16 DEF ResetFailed
<1>17. QED
  BY NextCases, <1>1, <1>2, <1>3, <1>6, <1>7, <1>8, <1>9, <1>10, <1>11, <1>12, <1>13,
     <1>14, <1>15, <1>16

\* An iteration that succeeded is never run or reset again as long as no two
\* coordinators were active at once: resume, cancel, delete, crashes, lost writes
\* and panics included.
THEOREM SuccessKept == Spec => SucceededIsFinal
<1>1. RerunInv /\ [Next]_vars
        => [\A i \in Iters : (rows[i] = "succeeded" /\ ~overlap')
              => rows'[i] \in {"succeeded", "none"}]_vars
  BY SucceededStep
<1>2. Spec => []RerunInv
  BY RerunInit, RerunInductive, PTL DEF Spec
<1>3. QED
  BY <1>1, <1>2, PTL DEF Spec, SucceededIsFinal

-----------------------------------------------------------------------------
(* Nothing is left behind: as long as no process died and no write was lost, *)
(* a pending or running backfill has a coordinator, a running row a task.    *)

OrphanInv ==
  crashes = 0 /\ faults = 0 =>
    /\ status \in {"pending", "running"} => \E c \in Coords : Active(c)
    /\ \A i \in Iters : rows[i] = "running" => \E c \in Coords : i \in Inflight(c)

\* Losses are never forgotten.
LEMMA LossesKept ==
  ASSUME TypeOK, [Next]_vars
  PROVE  /\ faults' = 0 => faults = 0
         /\ crashes' = 0 => crashes = 0
<1> USE DEF db, plan, flags, env
<1>1. faults \in Nat /\ crashes \in Nat
  BY BackfillAssumption DEF TypeOK
<1>2. ASSUME NEW i, NEW s, WriteRow(i, s) PROVE faults' = 0 => faults = 0
  BY <1>1, <1>2 DEF WriteRow
<1>3. ASSUME UNCHANGED env PROVE /\ faults' = 0 => faults = 0
                                 /\ crashes' = 0 => crashes = 0
  BY <1>3
<1>4. ASSUME NEW c \in Coords,
             \/ (\E k \in Kinds : StartBackfill(c, k)) \/ ResumeApi(c) \/ ResumeCli(c)
             \/ CreateRecord(c) \/ CreateIterations(c) \/ RecordGone(c) \/ GetRecord(c)
             \/ ListIterations(c) \/ ResetFailed(c) \/ ResetDone(c) \/ MarkRunning(c)
             \/ CheckLoop(c) \/ Spawn(c) \/ Decide(c) \/ WriteFinal(c) \/ CtrlC(c)
      PROVE  UNCHANGED env
  BY <1>4 DEF StartBackfill, ResumeApi, ResumeCli, Launch, CreateRecord, CreateIterations,
     RecordGone, GetRecord, ListIterations, ResetFailed, ResetDone, MarkRunning, CheckLoop,
     Spawn, Decide, WriteFinal, CtrlC
<1>5. ASSUME NEW c \in Coords, NEW i \in Iters,
             TaskStart(c, i) \/ TaskSucceed(c, i) \/ TaskRecordFailure(c, i)
      PROVE  /\ faults' = 0 => faults = 0
             /\ crashes' = 0 => crashes = 0
  BY <1>2, <1>5 DEF TaskStart, TaskSucceed, TaskRecordFailure
<1>6. ASSUME NEW c \in Coords, NEW i \in Iters, TaskFail(c, i) \/ TaskAbort(c, i)
      PROVE  UNCHANGED env
  BY <1>6 DEF TaskFail, TaskAbort, TaskError
<1>7. ASSUME \/ \E c \in Coords : StoreError(c)
             \/ \E c \in Coords, i \in Iters : TaskPanic(c, i)
      PROVE  faults' # 0 /\ crashes' = crashes
  <2>1. faults' = faults + 1 /\ crashes' = crashes
    BY <1>7 DEF StoreError, TaskPanic
  <2>2. QED
    BY <1>1, <2>1
<1>8. ASSUME Crash PROVE faults' = faults /\ crashes' # 0
  BY <1>1, <1>8 DEF Crash
<1>9. ASSUME CheckCancel \/ CheckDelete \/ ApplyCancel \/ ApplyDelete PROVE UNCHANGED env
  BY <1>9 DEF CheckCancel, CheckDelete, ApplyCancel, ApplyDelete
<1>10. ASSUME UNCHANGED vars PROVE UNCHANGED env
  BY <1>10 DEF vars
<1>11. QED
  BY NextCases, <1>3, <1>4, <1>5, <1>6, <1>7, <1>8, <1>9, <1>10

LEMMA OrphanInit == Init => OrphanInv
BY DEF Init, OrphanInv

LEMMA OrphanStep == TypeOK /\ LifeInv /\ OrphanInv /\ [Next]_vars => OrphanInv'
<1> SUFFICES ASSUME TypeOK, LifeInv, OrphanInv, [Next]_vars, crashes' = 0, faults' = 0
             PROVE  /\ status' \in {"pending", "running"} => \E c \in Coords : Active(c)'
                    /\ \A i \in Iters : rows'[i] = "running" => \E c \in Coords : i \in Inflight(c)'
  BY DEF OrphanInv
<1> USE DEF db, plan, flags, env
<1> DEFINE Held == /\ status' \in {"pending", "running"} => \E c \in Coords : Active(c)'
                   /\ \A i \in Iters : rows'[i] = "running"
                        => \E c \in Coords : i \in Inflight(c)'
<1>0. /\ crashes = 0 /\ faults = 0
      /\ status \in {"pending", "running"} => \E c \in Coords : Active(c)
      /\ \A i \in Iters : rows[i] = "running" => \E c \in Coords : i \in Inflight(c)
  BY LossesKept DEF OrphanInv
\* Steps that end no coordinator and no task.
<1>1. ASSUME \A c \in Coords : Active(c) => Active(c)',
             \A c \in Coords : Inflight(c) \subseteq Inflight(c)',
             \/ status' = status
             \/ status' \notin {"pending", "running"}
             \/ \E c \in Coords : Active(c)',
             \A i \in Iters : \/ rows'[i] = "running" => rows[i] = "running"
                              \/ \E c \in Coords : i \in Inflight(c)'
      PROVE  Held
  <2>1. status' \in {"pending", "running"} => \E c \in Coords : Active(c)'
    BY <1>0, <1>1
  <2>2. ASSUME NEW i \in Iters, rows'[i] = "running"
        PROVE  \E c \in Coords : i \in Inflight(c)'
    BY <1>0, <1>1, <2>2
  <2>3. QED
    BY <2>1, <2>2
<1>2. ASSUME NEW c \in Coords, (\E k \in Kinds : StartBackfill(c, k)) \/ ResumeApi(c) \/ ResumeCli(c)
      PROVE  Held
  <2>1. PICK first \in {"create", "get"} : pc' = [pc EXCEPT ![c] = first]
    BY <1>2 DEF StartBackfill, ResumeApi, ResumeCli, Launch, Goto
  <2>2. rows' = rows /\ status' = status /\ task' = task
    BY <1>2 DEF StartBackfill, ResumeApi, ResumeCli, Launch
  <2>3. QED
    BY <1>1, <2>1, <2>2 DEF Active, Inflight, TypeOK
<1>3. ASSUME NEW c \in Coords,
             \/ CreateRecord(c) \/ CreateIterations(c) \/ GetRecord(c) \/ ListIterations(c)
             \/ ResetDone(c) \/ MarkRunning(c) \/ CheckLoop(c) \/ Decide(c)
      PROVE  Held
  <2>1. \E s \in Steps \ {"idle"} : pc' = [pc EXCEPT ![c] = s]
    BY <1>3 DEF CreateRecord, CreateIterations, GetRecord, ListIterations, ResetDone,
       MarkRunning, CheckLoop, Decide, Goto, Steps
  <2>2. task' = task /\ (rows' = rows \/ rows' = [i \in Iters |-> "pending"])
    BY <1>3 DEF CreateRecord, CreateIterations, GetRecord, ListIterations, ResetDone,
       MarkRunning, CheckLoop, Decide
  <2>3. Active(c)' /\ \A d \in Coords : Active(d) => Active(d)'
    BY <2>1 DEF Active, TypeOK
  <2>4. QED
    BY <1>1, <2>2, <2>3 DEF Inflight
<1>4. ASSUME NEW c \in Coords, ResetFailed(c) PROVE Held
  <2>1. PICK i \in Iters : rows' = RowSet(i, "pending")
    BY <1>4 DEF ResetFailed, TypeOK
  <2>2. \A j \in Iters : rows'[j] = "running" => rows[j] = "running"
    BY <2>1, RowSetFact DEF IterationStatus
  <2>3. QED
    BY <1>1, <1>4, <2>2 DEF ResetFailed, Active, Inflight
<1>5. ASSUME NEW c \in Coords, Spawn(c) PROVE Held
  <2>1. PICK i \in Iters : task' = [task EXCEPT ![c][i] = "spawned"]
    BY <1>5 DEF Spawn, TypeOK
  <2>2. \A d \in Coords : Inflight(d) \subseteq Inflight(d)'
    BY <2>1 DEF Inflight, TypeOK
  <2>3. pc' = [pc EXCEPT ![c] = "loop"] /\ rows' = rows /\ status' = status
    BY <1>5 DEF Spawn, Goto
  <2>4. QED
    BY <1>1, <2>2, <2>3 DEF Active, TypeOK
\* A coordinator ends with its final status written, or when there is no record.
<1>6. ASSUME NEW c \in Coords, RecordGone(c) \/ WriteFinal(c) PROVE Held
  <2>1. Inflight(c) = {} /\ rows' = rows /\ Stop({c})
    BY <1>6 DEF RecordGone, WriteFinal, LifeInv
  <2>2. \A d \in Coords : Inflight(d) \subseteq Inflight(d)'
    BY <2>1 DEF Stop, Inflight, TypeOK
  <2>3. status' \notin {"pending", "running"}
    BY <1>6 DEF RecordGone, WriteFinal, UpdateStatus, Exists, BackfillStatus, FinalStatus, TypeOK
  <2>4. QED
    BY <1>0, <2>1, <2>2, <2>3
\* A task ends with its row written.
<1>7. ASSUME NEW c \in Coords, NEW i \in Iters, NEW s \in TaskState, SetTask(c, i, s),
             pc' = pc, status' = status, NEW r \in IterationStatus,
             rows' = rows \/ rows' = RowSet(i, r), s = "none" => rows' = RowSet(i, r) /\ r # "running"
      PROVE  Held
  <2>1. \A j \in Iters : rows'[j] = "running" => (j = i /\ s # "none") \/ (j # i /\ rows[j] = "running")
                                                 \/ (s # "none" /\ rows[j] = "running")
    BY <1>7, RowSetFact DEF TypeOK
  <2>2. \A d \in Coords, j \in Iters :
           /\ j \in Inflight(d) /\ (j # i \/ s # "none") => j \in Inflight(d)'
           /\ d = c /\ j = i /\ s # "none" => j \in Inflight(d)'
    BY <1>7 DEF SetTask, Inflight, TypeOK
  <2>3. \A j \in Iters : rows'[j] = "running" => \E d \in Coords : j \in Inflight(d)'
    BY <1>0, <2>1, <2>2
  <2>4. QED
    BY <1>0, <1>7, <2>3 DEF Active
<1>8. ASSUME NEW c \in Coords, NEW i \in Iters, TaskStart(c, i) PROVE Held
  <2>1. rows' = RowSet(i, "running")
    BY <1>0, <1>8 DEF TaskStart, WriteRow
  <2>2. QED
    BY <1>7, <1>8, <2>1 DEF TaskStart, TaskState, IterationStatus
<1>9. ASSUME NEW c \in Coords, NEW i \in Iters, TaskSucceed(c, i) \/ TaskRecordFailure(c, i)
      PROVE  Held
  <2>1. PICK r \in {"succeeded", "failed"} : WriteRow(i, r)
    BY <1>9 DEF TaskSucceed, TaskRecordFailure
  <2>2. rows' = RowSet(i, r)
    BY <1>0, <2>1 DEF WriteRow
  <2>3. QED
    BY <1>7, <1>9, <2>2 DEF TaskSucceed, TaskRecordFailure, TaskState, IterationStatus
<1>10. ASSUME NEW c \in Coords, NEW i \in Iters, TaskFail(c, i) \/ TaskAbort(c, i)
       PROVE  Held
  <2>1. PICK s \in {"failing", "aborted"} : TaskError(c, i, s)
    BY <1>10 DEF TaskFail, TaskAbort
  <2>2. QED
    BY <1>7, <2>1 DEF TaskError, TaskState, IterationStatus
<1>11. ASSUME \/ \E c \in Coords : StoreError(c)
              \/ \E c \in Coords, i \in Iters : TaskPanic(c, i)
              \/ Crash
       PROVE  FALSE
  BY <1>0, <1>11 DEF StoreError, TaskPanic, Crash
<1>12. ASSUME NEW c \in Coords, CtrlC(c) PROVE Held
  BY <1>1, <1>12 DEF CtrlC, Active, Inflight
<1>13. ASSUME CheckCancel \/ CheckDelete \/ ApplyCancel \/ ApplyDelete PROVE Held
  <2>1. pc' = pc /\ task' = task /\ (status' = status \/ status' \in {"cancelled", "deleted"})
    BY <1>13 DEF CheckCancel, CheckDelete, ApplyCancel, ApplyDelete, UpdateStatus
  <2>2. rows' = rows \/ rows' = [i \in Iters |-> "none"]
    BY <1>13 DEF CheckCancel, CheckDelete, ApplyCancel, ApplyDelete
  <2>3. QED
    BY <1>1, <2>1, <2>2 DEF Active, Inflight
<1>14. ASSUME UNCHANGED vars PROVE Held
  BY <1>1, <1>14 DEF vars, Active, Inflight
<1>15. QED
  BY NextCases, <1>2, <1>3, <1>4, <1>5, <1>6, <1>8, <1>9, <1>10, <1>11, <1>12, <1>13, <1>14

\* When all coordinators have ended, no backfill is pending or running and no
\* row is, for every interleaving of any number of coordinators with cancel,
\* delete and Ctrl-C, as long as no process died and no write was lost.
THEOREM NothingOrphaned == Spec => []NoOrphan
<1>1. LifeInv /\ OrphanInv => NoOrphan
  <2> SUFFICES ASSUME LifeInv, OrphanInv, crashes = 0, faults = 0, \A c \in Coords : ~Active(c)
               PROVE  /\ status \notin {"pending", "running"}
                      /\ \A i \in Iters : rows[i] # "running"
    BY DEF NoOrphan
  <2>1. \A c \in Coords : Inflight(c) = {}
    BY DEF LifeInv, Active
  <2>2. QED
    BY <2>1 DEF OrphanInv
<1>2. TypeOK /\ LifeInv /\ OrphanInv /\ [Next]_vars => (TypeOK /\ LifeInv /\ OrphanInv)'
  BY TypeStep, LifeStep, OrphanStep
<1>3. Init => TypeOK /\ LifeInv /\ OrphanInv
  BY RerunInit, OrphanInit DEF RerunInv
<1>4. QED
  BY <1>1, <1>2, <1>3, PTL DEF Spec

-----------------------------------------------------------------------------
(* What a backfill shown as completed has done.  The final status speaks of  *)
(* failed rows only; that there are no others left over rests on what the    *)
(* coordinator still has to do, and on why it left its loop.                 *)

Done == \A i \in Iters : rows[i] # "none" => KeyOf[i] \in SucceededKeys
NoRows == \A i \in Iters : rows[i] = "none"
InLoop == {"loop", "acquire", "drain"}

\* The failure that had_failure stands for is recorded, or about to be.
Noted(c) ==
  \/ NoRows
  \/ \E i \in Iters : rows[i] = "failed" /\ i \notin todo[c] \cup Inflight(c)
  \/ \E i \in Iters : rows[i] # "none" /\ task[c][i] \in {"failing", "aborted"}

\* A coordinator's plan is about rows that exist, unless all were deleted; what
\* it has not planned is done or has failed under it.
PlanInv(c) ==
  /\ pc[c] \in {"create", "insert"} => todo[c] = Iters
  /\ pc[c] \notin {"create", "insert"} =>
       NoRows \/ \A i \in todo[c] \cup Inflight(c) : rows[i] # "none"
  /\ pc[c] \in {"reset", "begin"} =>
       \A i \in Iters : rows[i] # "none" => KeyOf[i] \in SucceededKeys \/ i \in todo[c]
  /\ pc[c] \in InLoop =>
       \A i \in Iters : rows[i] # "none" =>
         KeyOf[i] \in SucceededKeys \/ i \in todo[c] \cup Inflight(c) \/ rows[i] = "failed"

\* It leaves the loop early only for the flags, and decides on what it finds.
EndInv(c) ==
  /\ pc[c] = "drain" => todo[c] = {} \/ cancel[c] \/ hadFailure[c]
  /\ hadFailure[c] => pc[c] \in InLoop \cup {"finish"}
  /\ hadFailure[c] /\ pc[c] \in InLoop => Noted(c)
  /\ pc[c] = "finish" /\ decided[c] = "completed" => Done

WorkInv(c) == PlanInv(c) /\ EndInv(c)

ShownInv ==
  status = "completed" =>
    Done /\ \A c \in Coords : pc[c] \notin {"create", "insert", "finish"} \cup InLoop

Quiet == ~overlap /\ faults = 0
DoneInv == Quiet => ShownInv /\ \A c \in Coords : WorkInv(c)

LEMMA DoneInit == Init => DoneInv
<1> SUFFICES ASSUME Init PROVE ShownInv /\ \A c \in Coords : WorkInv(c)
  BY DEF DoneInv
<1>1. ShownInv
  BY DEF Init, ShownInv
<1>2. ASSUME NEW c \in Coords PROVE PlanInv(c)
  BY DEF Init, PlanInv, InLoop, Inflight, NoTask
<1>3. ASSUME NEW c \in Coords PROVE EndInv(c)
  BY DEF Init, EndInv
<1>4. QED
  BY <1>1, <1>2, <1>3 DEF WorkInv

\* A coordinator that is not there has no part in it.
LEMMA IdleWork ==
  ASSUME LifeInv', NEW c \in Coords, pc'[c] = "idle", ~hadFailure'[c]
  PROVE  WorkInv(c)'
<1>1. todo'[c] = {} /\ Inflight(c)' = {}
  BY DEF LifeInv, Inflight
<1>2. PlanInv(c)'
  BY <1>1 DEF PlanInv, InLoop
<1>3. EndInv(c)'
  BY DEF EndInv, InLoop
<1>4. QED
  BY <1>2, <1>3 DEF WorkInv

LEMMA OthersWork ==
  ASSUME RerunInv, LifeInv', DoneInv, Quiet, NEW c \in Coords, Active(c),
         \A d \in Coords \ {c} : pc'[d] = pc[d] /\ hadFailure'[d] = hadFailure[d]
  PROVE  \A d \in Coords \ {c} : WorkInv(d)'
<1> SUFFICES ASSUME NEW d \in Coords, d # c PROVE WorkInv(d)'
  OBVIOUS
<1>1. pc[d] = "idle"
  BY OthersIdle DEF Quiet
<1>2. ~hadFailure[d]
  BY <1>1 DEF DoneInv, WorkInv, EndInv, InLoop
<1>3. QED
  BY <1>1, <1>2, IdleWork

\* Rows that succeeded stay, so their keys do.
LEMMA KeysKept ==
  ASSUME \A i \in Iters : rows[i] = "succeeded" => rows'[i] = "succeeded"
  PROVE  SucceededKeys \subseteq SucceededKeys'
BY DEF SucceededKeys

LEMMA DoneKept ==
  ASSUME Done, \A i \in Iters : rows[i] = "succeeded" => rows'[i] = "succeeded",
         \A i \in Iters : rows'[i] # "none" => rows[i] # "none"
  PROVE  Done'
BY KeysKept DEF Done

\* A step of the active coordinator: its own part, and what is shown.
LEMMA OneWorks ==
  ASSUME RerunInv, LifeInv', DoneInv, Quiet, NEW c \in Coords, Active(c),
         \A d \in Coords \ {c} : pc'[d] = pc[d] /\ hadFailure'[d] = hadFailure[d],
         WorkInv(c)', ShownInv'
  PROVE  DoneInv'
BY OthersWork DEF DoneInv

\* What is shown as completed stays so while the status is.
LEMMA ShownKept ==
  ASSUME ShownInv, status' = "completed" => status = "completed",
         \A i \in Iters : rows[i] = "succeeded" => rows'[i] = "succeeded",
         \A i \in Iters : rows'[i] # "none" => rows[i] # "none",
         \A d \in Coords :
           pc[d] \notin {"create", "insert", "finish"} \cup InLoop
             => pc'[d] \notin {"create", "insert", "finish"} \cup InLoop
  PROVE  ShownInv'
BY DoneKept DEF ShownInv

LEMMA QuietBefore ==
  ASSUME TypeOK, [Next]_vars, Quiet'
  PROVE  Quiet
<1> USE DEF plan, flags, db, env
<1>1. faults = 0
  BY LossesKept DEF Quiet
<1>2. ASSUME NEW c \in Coords, (\E k \in Kinds : StartBackfill(c, k)) \/ ResumeApi(c) \/ ResumeCli(c)
      PROVE  ~overlap
  BY <1>2 DEF StartBackfill, ResumeApi, ResumeCli, Launch, Quiet
<1>3. ASSUME UNCHANGED overlap PROVE ~overlap
  BY <1>3 DEF Quiet
<1>4. ASSUME NEW c \in Coords,
             \/ CreateRecord(c) \/ CreateIterations(c) \/ RecordGone(c) \/ GetRecord(c)
             \/ ListIterations(c) \/ ResetFailed(c) \/ ResetDone(c) \/ MarkRunning(c)
             \/ CheckLoop(c) \/ Spawn(c) \/ Decide(c) \/ WriteFinal(c) \/ CtrlC(c)
             \/ StoreError(c)
      PROVE  ~overlap
  BY <1>3, <1>4 DEF CreateRecord, CreateIterations, RecordGone, GetRecord, ListIterations,
     ResetFailed, ResetDone, MarkRunning, CheckLoop, Spawn, Decide, WriteFinal, CtrlC, StoreError
<1>5. ASSUME NEW c \in Coords, NEW i \in Iters,
             \/ TaskStart(c, i) \/ TaskSucceed(c, i) \/ TaskFail(c, i) \/ TaskAbort(c, i)
             \/ TaskRecordFailure(c, i) \/ TaskPanic(c, i)
      PROVE  ~overlap
  BY <1>3, <1>5 DEF TaskStart, TaskSucceed, TaskFail, TaskAbort, TaskError,
     TaskRecordFailure, TaskPanic
<1>6. ASSUME CheckCancel \/ CheckDelete \/ ApplyCancel \/ ApplyDelete \/ Crash PROVE ~overlap
  BY <1>3, <1>6 DEF CheckCancel, CheckDelete, ApplyCancel, ApplyDelete, Crash
<1>7. ASSUME UNCHANGED vars PROVE ~overlap
  BY <1>3, <1>7 DEF vars
<1>8. QED
  BY NextCases, <1>1, <1>2, <1>4, <1>5, <1>6, <1>7 DEF Quiet

\* Only one starts, as there is no overlap.
LEMMA DoneStart ==
  ASSUME RerunInv, LifeInv', DoneInv, Quiet, Quiet', NEW c \in Coords,
         NEW k, NEW first, NEW its, Launch(c, k, first, its),
         \/ first = "create" /\ its = Iters /\ status = "none"
         \/ first = "get" /\ its = {}
  PROVE  DoneInv'
<1> USE DEF flags, db
<1>1. TypeOK /\ LifeInv /\ ShownInv /\ \A d \in Coords : WorkInv(d)
  BY DEF RerunInv, DoneInv
<1>2. /\ pc[c] = "idle" /\ pc' = [pc EXCEPT ![c] = first]
      /\ todo' = [todo EXCEPT ![c] = its] /\ task' = task
      /\ hadFailure' = hadFailure /\ rows' = rows /\ status' = status
  BY DEF Launch, Goto
<1>3. \A d \in Coords \ {c} : pc[d] = "idle"
  BY DEF Launch, Quiet, Active
<1>4. \A d \in Coords : ~hadFailure'[d]
  BY <1>1, <1>2, <1>3 DEF WorkInv, EndInv, InLoop
<1>5. \A d \in Coords \ {c} : WorkInv(d)'
  BY <1>1, <1>2, <1>3, <1>4, IdleWork DEF TypeOK
<1>6. pc'[c] = first /\ todo'[c] = its /\ Inflight(c)' = {}
  <2>1. pc'[c] = first /\ todo'[c] = its
    BY <1>1, <1>2 DEF TypeOK
  <2>2. Inflight(c)' = Inflight(c)
    BY <1>2 DEF Inflight
  <2>3. Inflight(c) = {}
    BY <1>1, <1>2 DEF LifeInv
  <2>4. QED
    BY <2>1, <2>2, <2>3
<1>7. PlanInv(c)'
  BY <1>6 DEF PlanInv, InLoop
<1>8. EndInv(c)'
  BY <1>4, <1>6 DEF EndInv
<1>9. ShownInv'
  <2>1. CASE status = "none"
    BY <1>2, <2>1 DEF ShownInv
  <2>2. CASE first = "get"
    BY <1>1, <1>2, <2>2, ShownKept DEF TypeOK, InLoop
  <2>3. QED
    BY <2>1, <2>2
<1>10. QED
  BY <1>5, <1>7, <1>8, <1>9 DEF DoneInv, WorkInv

LEMMA DoneBefore ==
  ASSUME RerunInv, LifeInv', DoneInv, Quiet, NEW c \in Coords,
         \/ CreateRecord(c) \/ CreateIterations(c) \/ GetRecord(c) \/ ListIterations(c)
         \/ ResetFailed(c) \/ ResetDone(c) \/ MarkRunning(c)
  PROVE  DoneInv'
<1> USE DEF flags, db, plan
<1>t. TypeOK /\ LifeInv /\ SingleInv /\ ShownInv /\ PlanInv(c) /\ EndInv(c)
  BY DEF RerunInv, DoneInv, WorkInv
<1>1. /\ pc[c] \in {"create", "insert", "get", "list", "reset", "begin"}
      /\ hadFailure' = hadFailure /\ task' = task
      /\ \A d \in Coords \ {c} : pc'[d] = pc[d]
  BY <1>t DEF CreateRecord, CreateIterations, GetRecord, ListIterations, ResetFailed,
     ResetDone, MarkRunning, Goto, TypeOK
<1>2. Active(c) /\ ~hadFailure'[c] /\ Inflight(c) = {} /\ Inflight(c)' = {}
  BY <1>t, <1>1 DEF Active, EndInv, InLoop, LifeInv, Inflight
<1>3. ASSUME PlanInv(c)', ShownInv', pc'[c] \notin {"drain", "finish"} PROVE DoneInv'
  <2>1. EndInv(c)'
    BY <1>2, <1>3 DEF EndInv
  <2>2. WorkInv(c)'
    BY <1>3, <2>1 DEF WorkInv
  <2>3. QED
    BY <1>1, <1>2, <1>3, <2>2, OneWorks
<1>4. CASE CreateRecord(c)
  <2>1. pc[c] = "create" /\ pc'[c] = "insert" /\ todo' = todo /\ status' = "pending"
    BY <1>4, <1>t DEF CreateRecord, Goto, TypeOK
  <2>2. PlanInv(c)' /\ ShownInv'
    BY <1>t, <2>1 DEF PlanInv, ShownInv, InLoop
  <2>3. QED
    BY <1>3, <2>1, <2>2
<1>5. CASE CreateIterations(c)
  <2>1. /\ pc[c] = "insert" /\ pc'[c] = "begin" /\ todo' = todo /\ status' = status
        /\ \A i \in Iters : rows'[i] = "pending"
    BY <1>5, <1>t DEF CreateIterations, Goto, TypeOK
  <2>2. todo'[c] = Iters
    BY <1>t, <2>1 DEF PlanInv
  <2>3. PlanInv(c)'
    BY <1>2, <2>1, <2>2 DEF PlanInv, InLoop
  <2>4. ShownInv'
    BY <1>t, <2>1 DEF ShownInv
  <2>5. QED
    BY <1>3, <2>1, <2>3, <2>4
<1>6. CASE GetRecord(c)
  <2>1. pc[c] = "get" /\ pc'[c] = "list" /\ todo' = todo /\ status' = status /\ rows' = rows
    BY <1>6, <1>t DEF GetRecord, Goto, TypeOK
  <2>2. PlanInv(c)'
    BY <1>t, <1>2, <2>1 DEF PlanInv, InLoop, NoRows
  <2>3. ShownInv'
    BY <1>t, <1>1, <2>1, ShownKept DEF InLoop
  <2>4. QED
    BY <1>3, <2>1, <2>2, <2>3
<1>7. CASE ListIterations(c)
  <2>1. pc[c] = "list" /\ pc'[c] = "reset" /\ status' = status /\ rows' = rows
    BY <1>7, <1>t DEF ListIterations, Goto, TypeOK
  <2>2. todo'[c] = {i \in Iters : rows[i] # "none" /\ KeyOf[i] \notin SucceededKeys}
    BY <1>7, <1>t DEF ListIterations, TypeOK
  <2>3. SucceededKeys' = SucceededKeys
    BY <2>1 DEF SucceededKeys
  <2>4. PlanInv(c)'
    BY <1>2, <2>1, <2>2, <2>3 DEF PlanInv, InLoop, NoRows
  <2>5. ShownInv'
    BY <1>t, <1>1, <2>1, ShownKept DEF InLoop
  <2>6. QED
    BY <1>3, <2>1, <2>4, <2>5
<1>8. CASE ResetFailed(c)
  <2>1. PICK i \in resetq[c] : rows' = RowSet(i, "pending")
    BY <1>8 DEF ResetFailed
  <2>2. i \in Iters /\ rows[i] # "succeeded"
    BY <1>t, <2>1 DEF SingleInv, Quiet, TypeOK
  <2>3. \A j \in Iters : rows'[j] = IF j = i /\ rows[j] # "none" THEN "pending" ELSE rows[j]
    BY <1>t, <2>1, <2>2, RowSetFact DEF IterationStatus
  <2>4. /\ \A j \in Iters : rows[j] = "succeeded" => rows'[j] = "succeeded"
        /\ \A j \in Iters : rows'[j] # "none" <=> rows[j] # "none"
    BY <2>2, <2>3
  <2>5. SucceededKeys \subseteq SucceededKeys'
    BY <2>4, KeysKept
  <2>6. pc[c] = "reset" /\ pc'[c] = "reset" /\ todo' = todo /\ status' = status
    BY <1>8 DEF ResetFailed
  <2>7. PlanInv(c)'
    <3>1. todo[c] \subseteq Iters
      BY <1>t DEF TypeOK
    <3>2. QED
      BY <1>t, <1>2, <2>4, <2>5, <2>6, <3>1 DEF PlanInv, InLoop, NoRows
  <2>8. ShownInv'
    BY <1>t, <1>1, <2>4, <2>6, ShownKept
  <2>9. QED
    BY <1>3, <2>6, <2>7, <2>8
<1>9. CASE ResetDone(c)
  <2>1. pc[c] = "reset" /\ pc'[c] = "begin" /\ todo' = todo /\ status' = status /\ rows' = rows
    BY <1>9, <1>t DEF ResetDone, Goto, TypeOK
  <2>2. SucceededKeys' = SucceededKeys
    BY <2>1 DEF SucceededKeys
  <2>3. PlanInv(c)'
    BY <1>t, <1>2, <2>1, <2>2 DEF PlanInv, InLoop, NoRows
  <2>4. ShownInv'
    BY <1>t, <1>1, <2>1, ShownKept DEF InLoop
  <2>5. QED
    BY <1>3, <2>1, <2>3, <2>4
<1>10. CASE MarkRunning(c)
  <2>1. pc[c] = "begin" /\ pc'[c] = "loop" /\ todo' = todo /\ rows' = rows
    BY <1>10, <1>t DEF MarkRunning, Goto, TypeOK
  <2>2. status' # "completed"
    BY <1>10 DEF MarkRunning, UpdateStatus, Exists, BackfillStatus
  <2>3. SucceededKeys' = SucceededKeys
    BY <2>1 DEF SucceededKeys
  <2>4. PlanInv(c)'
    BY <1>t, <1>2, <2>1, <2>3 DEF PlanInv, InLoop, NoRows
  <2>5. QED
    BY <1>3, <2>1, <2>2, <2>4 DEF ShownInv
<1>11. QED
  BY <1>4, <1>5, <1>6, <1>7, <1>8, <1>9, <1>10

LEMMA DoneLoop ==
  ASSUME RerunInv, LifeInv', DoneInv, Quiet, NEW c \in Coords,
         CheckLoop(c) \/ Spawn(c) \/ Decide(c)
  PROVE  DoneInv'
<1> USE DEF flags, db, plan
<1>t. TypeOK /\ LifeInv /\ SingleInv /\ ShownInv /\ PlanInv(c) /\ EndInv(c)
  BY DEF RerunInv, DoneInv, WorkInv
<1>1. /\ pc[c] \in InLoop /\ hadFailure' = hadFailure /\ rows' = rows /\ status' = status
      /\ \A d \in Coords \ {c} : pc'[d] = pc[d]
  BY <1>t DEF CheckLoop, Spawn, Decide, Goto, TypeOK, InLoop
<1>2. Active(c) /\ SucceededKeys' = SucceededKeys
  BY <1>1 DEF Active, InLoop, SucceededKeys
<1>3. ShownInv'
  BY <1>t, <1>1 DEF ShownInv
<1>4. ASSUME PlanInv(c)', EndInv(c)' PROVE DoneInv'
  BY <1>1, <1>2, <1>3, <1>4, OneWorks DEF WorkInv
<1>5. CASE CheckLoop(c)
  <2>1. /\ todo' = todo /\ task' = task /\ cancel' = cancel
        /\ pc'[c] = IF StopsHere(c) THEN "drain" ELSE "acquire"
    BY <1>5, <1>t DEF CheckLoop, Goto, TypeOK
  <2>2. pc'[c] \in {"drain", "acquire"} /\ Inflight(c)' = Inflight(c)
    BY <2>1 DEF Inflight
  <2>3. PlanInv(c)'
    BY <1>t, <1>1, <1>2, <2>1, <2>2 DEF PlanInv, InLoop, NoRows
  <2>4. Noted(c) => Noted(c)'
    BY <1>1, <2>1, <2>2 DEF Noted, NoRows
  <2>5. EndInv(c)'
    BY <1>t, <1>1, <2>1, <2>2, <2>4 DEF EndInv, StopsHere, InLoop
  <2>6. QED
    BY <1>4, <2>3, <2>5
<1>6. CASE Spawn(c)
  <2>1. PICK i \in todo[c] : /\ todo' = [todo EXCEPT ![c] = @ \ {i}]
                             /\ task' = [task EXCEPT ![c][i] = "spawned"]
    BY <1>6 DEF Spawn
  <2>2. i \in Iters /\ i \notin Inflight(c)
    BY <1>t, <2>1 DEF TypeOK, SingleInv, Quiet
  <2>3. /\ todo'[c] = todo[c] \ {i} /\ Inflight(c)' = Inflight(c) \cup {i}
        /\ \A j \in Iters : j # i => task'[c][j] = task[c][j]
        /\ task[c][i] = "none"
    BY <1>t, <2>1, <2>2 DEF TypeOK, Inflight
  <2>4. pc[c] = "acquire" /\ pc'[c] = "loop"
    BY <1>6, <1>t DEF Spawn, Goto, TypeOK
  <2>5. todo'[c] \cup Inflight(c)' = todo[c] \cup Inflight(c)
    BY <2>1, <2>3
  <2>6. PlanInv(c)'
    BY <1>t, <1>1, <1>2, <2>4, <2>5 DEF PlanInv, InLoop, NoRows
  <2>7. Noted(c) => Noted(c)'
    BY <1>1, <2>3, <2>5 DEF Noted, NoRows
  <2>8. EndInv(c)'
    BY <1>t, <1>1, <2>4, <2>7 DEF EndInv, InLoop
  <2>9. QED
    BY <1>4, <2>6, <2>8
<1>7. CASE Decide(c)
  <2>1. /\ pc[c] = "drain" /\ pc'[c] = "finish" /\ Inflight(c) = {}
        /\ decided'[c] = FinalStatusOf(c) /\ todo' = todo /\ task' = task
    BY <1>7, <1>t DEF Decide, Goto, TypeOK
  <2>2. Inflight(c)' = {}
    BY <2>1 DEF Inflight
  <2>3. PlanInv(c)'
    BY <1>t, <1>1, <2>1, <2>2 DEF PlanInv, InLoop, NoRows
  <2>4. ASSUME FinalStatusOf(c) = "completed" PROVE Done
    <3>1. ~cancel[c] /\ \A i \in Iters : rows[i] # "failed"
      BY <2>4 DEF FinalStatusOf
    <3>2. CASE todo[c] = {}
      BY <1>t, <2>1, <3>1, <3>2 DEF PlanInv, InLoop, Done
    <3>3. CASE hadFailure[c]
      <4>1. Noted(c)
        BY <1>t, <2>1, <3>3 DEF EndInv, InLoop
      <4>2. \A i \in Iters : task[c][i] = "none"
        BY <2>1 DEF Inflight
      <4>3. NoRows
        BY <3>1, <4>1, <4>2 DEF Noted
      <4>4. QED
        BY <4>3 DEF NoRows, Done
    <3>4. QED
      BY <1>t, <2>1, <3>1, <3>2, <3>3 DEF EndInv
  <2>5. Done => Done'
    BY <1>1, <1>2 DEF Done
  <2>6. EndInv(c)'
    BY <1>t, <2>1, <2>4, <2>5 DEF EndInv, InLoop
  <2>7. QED
    BY <1>4, <2>3, <2>6
<1>8. QED
  BY <1>5, <1>6, <1>7

\* What the tasks of the coordinator do to the rows.
LEMMA DoneTask ==
  ASSUME RerunInv, LifeInv', DoneInv, Quiet, faults' = 0, NEW c \in Coords, NEW i \in Iters,
         \/ TaskStart(c, i) \/ TaskSucceed(c, i) \/ TaskFail(c, i) \/ TaskAbort(c, i)
         \/ TaskRecordFailure(c, i)
  PROVE  DoneInv'
<1> USE DEF flags, db, plan
<1>t. TypeOK /\ LifeInv /\ SingleInv /\ ShownInv /\ PlanInv(c) /\ EndInv(c)
  BY DEF RerunInv, DoneInv, WorkInv
<1>1. /\ task[c][i] # "none" /\ pc' = pc /\ todo' = todo /\ status' = status
      /\ cancel' = cancel /\ decided' = decided
      /\ \A d \in Coords \ {c} : hadFailure'[d] = hadFailure[d]
  BY <1>t DEF TaskStart, TaskSucceed, TaskFail, TaskAbort, TaskRecordFailure, TaskError, TypeOK
<1>2. i \in Inflight(c) /\ pc[c] \in InLoop /\ Active(c)
  BY <1>t, <1>1 DEF Inflight, LifeInv, InLoop, Active
<1>3. i \notin todo[c] /\ rows[i] # "succeeded" /\ (NoRows \/ rows[i] # "none")
  BY <1>t, <1>2 DEF SingleInv, Quiet, PlanInv, InLoop
<1>4. ShownInv'
  BY <1>t, <1>1, <1>2 DEF ShownInv
<1>5. ASSUME PlanInv(c)', Noted(c) => Noted(c)',
             hadFailure' = hadFailure \/ (hadFailure'[c] /\ Noted(c)')
      PROVE  DoneInv'
  <2>1. EndInv(c)'
    <3>1. hadFailure[c] => Noted(c)
      BY <1>t, <1>2 DEF EndInv
    <3>2. pc[c] = "drain" => todo[c] = {} \/ cancel[c] \/ hadFailure[c]
      BY <1>t DEF EndInv
    <3>3. pc[c] # "finish"
      BY <1>2 DEF InLoop
    <3>4. CASE hadFailure' = hadFailure
      BY <1>1, <1>2, <1>5, <3>1, <3>2, <3>3, <3>4 DEF EndInv
    <3>5. CASE hadFailure'[c] /\ Noted(c)'
      BY <1>1, <1>2, <3>3, <3>5 DEF EndInv
    <3>6. QED
      BY <1>5, <3>4, <3>5
  <2>2. QED
    BY <1>1, <1>2, <1>4, <1>5, <2>1, OneWorks DEF WorkInv
\* The row is written, as nothing is lost.
<1>6. ASSUME NEW r \in IterationStatus, WriteRow(i, r)
      PROVE  /\ \A j \in Iters : rows'[j] = IF j = i /\ rows[j] # "none" THEN r ELSE rows[j]
             /\ \A j \in Iters : rows[j] = "succeeded" => rows'[j] = "succeeded"
             /\ \A j \in Iters : rows'[j] # "none" => rows[j] # "none"
             /\ SucceededKeys \subseteq SucceededKeys'
             /\ NoRows => NoRows'
  <2>1. rows' = RowSet(i, r)
    BY <1>6 DEF WriteRow, Quiet
  <2>2. \A j \in Iters : rows'[j] = IF j = i /\ rows[j] # "none" THEN r ELSE rows[j]
    BY <1>t, <2>1, RowSetFact
  <2>3. /\ \A j \in Iters : rows[j] = "succeeded" => rows'[j] = "succeeded"
        /\ \A j \in Iters : rows'[j] # "none" => rows[j] # "none"
    BY <1>3, <2>2
  <2>4. QED
    BY <2>2, <2>3, KeysKept DEF NoRows
<1>7. ASSUME NEW s, SetTask(c, i, s)
      PROVE  /\ \A j \in Iters : j # i => task'[c][j] = task[c][j]
             /\ task'[c][i] = s
             /\ Inflight(c)' = IF s = "none" THEN Inflight(c) \ {i} ELSE Inflight(c)
  <2>1. /\ \A j \in Iters : j # i => task'[c][j] = task[c][j]
        /\ task'[c][i] = s
    BY <1>7, <1>t DEF SetTask, TypeOK
  <2>2. QED
    BY <1>2, <2>1 DEF Inflight
<1>8. CASE TaskStart(c, i)
  <2>1. PICK s \in {"doomed", "executing"} : SetTask(c, i, s)
    BY <1>8 DEF TaskStart
  <2>2. WriteRow(i, "running") /\ hadFailure' = hadFailure /\ task[c][i] = "spawned"
    BY <1>8 DEF TaskStart
  <2>3. "running" \in IterationStatus /\ Inflight(c)' = Inflight(c)
    BY <1>7, <2>1 DEF IterationStatus
  <2>4. PlanInv(c)'
    <3>1. \A j \in Iters : rows[j] # "none" => rows'[j] # "none"
      BY <1>6, <2>2, <2>3
    <3>2. todo[c] \subseteq Iters /\ Inflight(c) \subseteq Iters
      BY <1>t DEF TypeOK, Inflight
    <3>3. \A j \in Iters : rows'[j] # "none" =>
            KeyOf[j] \in SucceededKeys' \/ j \in todo[c] \cup Inflight(c) \/ rows'[j] = "failed"
      BY <1>t, <1>2, <1>6, <2>2, <2>3 DEF PlanInv, InLoop
    <3>4. NoRows' \/ \A j \in todo[c] \cup Inflight(c) : rows'[j] # "none"
      BY <1>t, <1>2, <1>6, <2>2, <2>3, <3>1, <3>2 DEF PlanInv, InLoop
    <3>5. QED
      BY <1>1, <1>2, <2>3, <3>3, <3>4 DEF PlanInv, InLoop
  <2>5. ASSUME Noted(c) PROVE Noted(c)'
    <3>1. CASE NoRows
      BY <1>6, <2>2, <2>3, <3>1 DEF Noted
    <3>2. CASE \E j \in Iters : rows[j] = "failed" /\ j \notin todo[c] \cup Inflight(c)
      BY <1>1, <1>2, <1>6, <2>2, <2>3, <3>2 DEF Noted
    <3>3. CASE \E j \in Iters : rows[j] # "none" /\ task[c][j] \in {"failing", "aborted"}
      <4>1. PICK j \in Iters : rows[j] # "none" /\ task[c][j] \in {"failing", "aborted"}
        BY <3>3
      <4>2. j # i
        BY <2>2, <4>1
      <4>3. rows'[j] # "none" /\ task'[c][j] \in {"failing", "aborted"}
        BY <1>6, <1>7, <2>1, <2>2, <2>3, <4>1, <4>2
      <4>4. QED
        BY <4>3 DEF Noted
    <3>4. QED
      BY <2>5, <3>1, <3>2, <3>3 DEF Noted
  <2>6. QED
    BY <1>5, <2>2, <2>4, <2>5
<1>9. ASSUME NEW r \in {"succeeded", "failed"}, WriteRow(i, r), SetTask(c, i, "none"),
             hadFailure' = hadFailure,
             r = "succeeded" => task[c][i] = "executing"
      PROVE  DoneInv'
  <2>1. r \in IterationStatus /\ Inflight(c)' = Inflight(c) \ {i}
    BY <1>7, <1>9 DEF IterationStatus
  <2>2. PlanInv(c)'
    <3>1. \A j \in Iters : rows[j] # "none" => rows'[j] # "none"
      BY <1>6, <1>9, <2>1
    <3>2. todo[c] \subseteq Iters /\ Inflight(c) \subseteq Iters
      BY <1>t DEF TypeOK, Inflight
    <3>3. ASSUME NEW j \in Iters, rows'[j] # "none"
          PROVE  KeyOf[j] \in SucceededKeys' \/ j \in todo[c] \cup Inflight(c)' \/ rows'[j] = "failed"
      <4>1. CASE j = i
        <5>1. rows'[i] = r
          BY <1>6, <1>9, <2>1, <3>3, <4>1
        <5>2. QED
          BY <4>1, <5>1 DEF SucceededKeys
      <4>2. CASE j # i
        <5>1. rows'[j] = rows[j]
          BY <1>6, <1>9, <2>1, <4>2
        <5>2. KeyOf[j] \in SucceededKeys \/ j \in todo[c] \cup Inflight(c) \/ rows[j] = "failed"
          BY <1>t, <1>2, <3>3, <5>1 DEF PlanInv
        <5>3. QED
          BY <1>6, <1>9, <2>1, <4>2, <5>1, <5>2
      <4>3. QED
        BY <4>1, <4>2
    <3>4. NoRows' \/ \A j \in todo[c] \cup Inflight(c)' : rows'[j] # "none"
      BY <1>t, <1>2, <1>6, <1>9, <2>1, <3>1, <3>2 DEF PlanInv, InLoop
    <3>5. QED
      BY <1>1, <1>2, <2>1, <3>3, <3>4 DEF PlanInv, InLoop
  <2>3. ASSUME Noted(c) PROVE Noted(c)'
    <3>1. CASE NoRows
      BY <1>6, <1>9, <2>1, <3>1 DEF Noted
    <3>2. CASE \E j \in Iters : rows[j] = "failed" /\ j \notin todo[c] \cup Inflight(c)
      BY <1>1, <1>2, <1>6, <1>9, <2>1, <3>2 DEF Noted
    <3>3. CASE \E j \in Iters : rows[j] # "none" /\ task[c][j] \in {"failing", "aborted"}
      <4>1. PICK j \in Iters : rows[j] # "none" /\ task[c][j] \in {"failing", "aborted"}
        BY <3>3
      <4>2. CASE j # i
        <5>1. rows'[j] # "none" /\ task'[c][j] \in {"failing", "aborted"}
          BY <1>6, <1>7, <1>9, <2>1, <4>1, <4>2
        <5>2. QED
          BY <5>1 DEF Noted
      <4>3. CASE j = i
        <5>1. r = "failed"
          BY <1>9, <4>1, <4>3
        <5>2. rows'[i] = "failed"
          BY <1>6, <1>9, <2>1, <4>1, <4>3, <5>1
        <5>3. i \notin todo'[c] \cup Inflight(c)'
          BY <1>1, <1>3, <2>1
        <5>4. QED
          BY <5>2, <5>3 DEF Noted
      <4>4. QED
        BY <4>2, <4>3
    <3>4. QED
      BY <2>3, <3>1, <3>2, <3>3 DEF Noted
  <2>4. QED
    BY <1>5, <1>9, <2>2, <2>3
<1>10. CASE TaskSucceed(c, i) \/ TaskRecordFailure(c, i)
  BY <1>9, <1>10 DEF TaskSucceed, TaskRecordFailure
<1>11. CASE TaskFail(c, i) \/ TaskAbort(c, i)
  <2>1. PICK s \in {"failing", "aborted"} : TaskError(c, i, s)
    BY <1>11 DEF TaskFail, TaskAbort
  <2>2. rows' = rows /\ task'[c][i] = s /\ Inflight(c)' = Inflight(c)
    BY <1>7, <2>1 DEF TaskError
  <2>3. SucceededKeys' = SucceededKeys
    BY <2>2 DEF SucceededKeys
  <2>4. PlanInv(c)'
    BY <1>t, <1>1, <1>2, <2>2, <2>3 DEF PlanInv, InLoop, NoRows
  <2>5. Noted(c)'
    BY <1>3, <2>2 DEF Noted, NoRows
  <2>6. hadFailure'[c]
    BY <1>t, <2>1 DEF TaskError, TypeOK
  <2>7. QED
    BY <1>5, <2>4, <2>5, <2>6
<1>12. QED
  BY <1>8, <1>10, <1>11

LEMMA DoneStep ==
  ASSUME RerunInv, RerunInv', DoneInv, [Next]_vars
  PROVE  DoneInv'
<1> SUFFICES ASSUME Quiet' PROVE DoneInv'
  BY DEF DoneInv
<1> USE DEF flags, db, plan, env
<1>t. /\ TypeOK /\ LifeInv /\ SingleInv /\ ShownInv /\ \A d \in Coords : WorkInv(d)
      /\ LifeInv' /\ Quiet /\ faults = 0 /\ faults' = 0
  BY QuietBefore DEF RerunInv, DoneInv, Quiet
<1>1. ASSUME NEW c \in Coords, NEW k \in Kinds, StartBackfill(c, k) PROVE DoneInv'
  BY <1>t, <1>1, DoneStart DEF StartBackfill
<1>2. ASSUME NEW c \in Coords, ResumeApi(c) \/ ResumeCli(c) PROVE DoneInv'
  BY <1>t, <1>2, DoneStart DEF ResumeApi, ResumeCli
<1>3. ASSUME NEW c \in Coords,
             \/ CreateRecord(c) \/ CreateIterations(c) \/ GetRecord(c) \/ ListIterations(c)
             \/ ResetFailed(c) \/ ResetDone(c) \/ MarkRunning(c)
      PROVE  DoneInv'
  BY <1>t, <1>3, DoneBefore
<1>4. ASSUME NEW c \in Coords, CheckLoop(c) \/ Spawn(c) \/ Decide(c) PROVE DoneInv'
  BY <1>t, <1>4, DoneLoop
<1>5. ASSUME NEW c \in Coords, NEW i \in Iters,
             \/ TaskStart(c, i) \/ TaskSucceed(c, i) \/ TaskFail(c, i) \/ TaskAbort(c, i)
             \/ TaskRecordFailure(c, i)
      PROVE  DoneInv'
  BY <1>t, <1>5, DoneTask
\* The active coordinator ends, and with it what it had in memory.
<1>6. ASSUME NEW c \in Coords, Active(c), NEW S \in SUBSET Coords, c \in S, Stop(S),
             \A d \in S : Active(d), ShownInv'
      PROVE  DoneInv'
  <2>1. \A d \in S : d = c
    BY <1>t, <1>6 DEF SingleInv, Quiet
  <2>2. pc'[c] = "idle" /\ ~hadFailure'[c]
    BY <1>6 DEF Stop
  <2>3. \A d \in Coords \ {c} : pc'[d] = pc[d] /\ hadFailure'[d] = hadFailure[d]
    BY <1>6, <2>1 DEF Stop
  <2>4. WorkInv(c)'
    BY <1>t, <2>2, IdleWork
  <2>5. QED
    BY <1>t, <1>6, <2>3, <2>4, OneWorks
<1>7. ASSUME NEW c \in Coords, RecordGone(c) PROVE DoneInv'
  <2>1. status' # "completed" /\ Stop({c}) /\ Active(c)
    BY <1>7 DEF RecordGone, Exists, BackfillStatus, Active
  <2>2. QED
    BY <1>6, <2>1 DEF ShownInv
<1>8. ASSUME NEW c \in Coords, WriteFinal(c) PROVE DoneInv'
  <2>1. pc[c] = "finish" /\ Stop({c}) /\ Active(c) /\ rows' = rows
    BY <1>8 DEF WriteFinal, Active
  <2>2. status # "completed"
    BY <1>t, <2>1 DEF ShownInv
  <2>3. ASSUME status' = "completed" PROVE Done'
    <3>1. decided[c] = "completed"
      BY <1>8, <2>2, <2>3 DEF WriteFinal, UpdateStatus
    <3>2. Done
      BY <1>t, <2>1, <3>1 DEF WorkInv, EndInv
    <3>3. QED
      BY <2>1, <3>2, DoneKept
  <2>4. \A d \in Coords : pc'[d] = "idle"
    BY <1>t, <2>1, OthersIdle DEF Stop, Quiet
  <2>5. ShownInv'
    BY <2>3, <2>4 DEF ShownInv, InLoop
  <2>6. QED
    BY <1>6, <2>1, <2>5
<1>9. ASSUME \/ \E c \in Coords : StoreError(c)
             \/ \E c \in Coords, i \in Iters : TaskPanic(c, i)
      PROVE  FALSE
  BY <1>t, <1>9 DEF StoreError, TaskPanic
<1>10. ASSUME Crash PROVE DoneInv'
  <2>1. PICK S \in {{c \in Coords : Active(c) /\ kind[c] = "api"}}
              \cup {{c} : c \in {d \in Coords : Active(d) /\ kind[d] = "cli"}} :
          S # {} /\ TornInsert(S) /\ Stop(S)
    BY <1>10 DEF Crash
  <2>2. S \in SUBSET Coords /\ \A d \in S : Active(d)
    BY <2>1
  <2>3. PICK c \in S : TRUE
    BY <2>1
  <2>4. status' = status /\ c \in Coords /\ Active(c)
    BY <1>10, <2>2, <2>3 DEF Crash
  <2>5. ShownInv'
    <3>1. CASE \E d \in S : pc[d] = "insert"
      BY <1>t, <2>2, <2>4, <3>1 DEF ShownInv
    <3>2. CASE rows' = rows
      <4>1. \A d \in Coords : pc'[d] \in {"idle", pc[d]}
        BY <2>1, <2>2 DEF Stop
      <4>2. QED
        BY <1>t, <2>4, <3>2, <4>1, ShownKept DEF InLoop
    <3>3. QED
      BY <2>1, <3>1, <3>2 DEF TornInsert
  <2>6. QED
    BY <1>6, <2>1, <2>2, <2>3, <2>4, <2>5
\* Requests
<1>11. ASSUME UNCHANGED <<pc, todo, task, hadFailure, decided>>, NEW c \in Coords,
              cancel[c] => cancel'[c], rows' = rows
       PROVE  WorkInv(c)'
  <2>1. PlanInv(c) /\ EndInv(c)
    BY <1>t DEF WorkInv
  <2>2. SucceededKeys' = SucceededKeys /\ Inflight(c)' = Inflight(c)
    BY <1>11 DEF SucceededKeys, Inflight
  <2>3. PlanInv(c)'
    BY <1>11, <2>1, <2>2 DEF PlanInv, NoRows
  <2>4. Noted(c) => Noted(c)'
    BY <1>11, <2>2 DEF Noted, NoRows
  <2>5. Done => Done'
    BY <1>11, <2>2 DEF Done
  <2>6. EndInv(c)'
    BY <1>11, <2>1, <2>4, <2>5 DEF EndInv
  <2>7. QED
    BY <2>3, <2>6 DEF WorkInv
<1>12. ASSUME NEW c \in Coords, CtrlC(c) PROVE DoneInv'
  <2>1. /\ UNCHANGED <<pc, todo, task, hadFailure, decided>> /\ rows' = rows
        /\ status' = status /\ \A d \in Coords : cancel[d] => cancel'[d]
    BY <1>12, <1>t DEF CtrlC, TypeOK
  <2>2. ShownInv'
    BY <1>t, <2>1, ShownKept
  <2>3. QED
    BY <1>11, <2>1, <2>2 DEF DoneInv
<1>13. ASSUME CheckCancel \/ CheckDelete \/ ApplyCancel \/ UNCHANGED vars PROVE DoneInv'
  <2>1. /\ UNCHANGED <<pc, todo, task, hadFailure, decided>> /\ rows' = rows /\ cancel' = cancel
        /\ status' = "completed" => status = "completed"
    BY <1>13 DEF CheckCancel, CheckDelete, ApplyCancel, UpdateStatus, vars
  <2>2. ShownInv'
    BY <1>t, <2>1, ShownKept
  <2>3. QED
    BY <1>11, <2>1, <2>2 DEF DoneInv
<1>14. ASSUME ApplyDelete PROVE DoneInv'
  <2>1. /\ UNCHANGED <<pc, todo, task, hadFailure, decided, cancel>> /\ status' = "deleted"
        /\ \A i \in Iters : rows'[i] = "none"
    BY <1>14 DEF ApplyDelete
  <2>2. NoRows' /\ Done' /\ ShownInv'
    BY <2>1 DEF NoRows, Done, ShownInv
  <2>3. ASSUME NEW c \in Coords PROVE WorkInv(c)'
    <3>1. PlanInv(c) /\ EndInv(c)
      BY <1>t DEF WorkInv
    <3>2. PlanInv(c)'
      BY <2>1, <2>2, <3>1 DEF PlanInv
    <3>3. EndInv(c)'
      BY <2>1, <2>2, <3>1 DEF EndInv, Noted
    <3>4. QED
      BY <3>2, <3>3 DEF WorkInv
  <2>4. QED
    BY <2>2, <2>3 DEF DoneInv
<1>15. QED
  BY NextCases, <1>1, <1>2, <1>3, <1>4, <1>5, <1>7, <1>8, <1>9, <1>10, <1>12, <1>13, <1>14

\* A backfill is shown as completed only when every iteration on record has a
\* key that succeeded, for any number of iterations and permits, repeated keys,
\* crashes, torn inserts, cancels, resumes and deletes, as long as coordinators
\* do not overlap and no write is lost.
THEOREM CompletedIsDone == Spec => []CompletedMeansDone
<1>1. DoneInv => CompletedMeansDone
  BY DEF DoneInv, Quiet, ShownInv, Done, CompletedMeansDone
<1>2. RerunInv /\ DoneInv /\ [Next]_vars => (RerunInv /\ DoneInv)'
  BY RerunInductive, DoneStep
<1>3. QED
  BY <1>1, <1>2, RerunInit, DoneInit, PTL DEF Spec
=============================================================================
