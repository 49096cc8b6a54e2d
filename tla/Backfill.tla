------------------------------ MODULE Backfill ------------------------------
(***************************************************************************)
(* One backfill: the coordinator of armillary-datafusion/src/backfill.rs,  *)
(* the rows of backfill_store.rs, and the operations that reach them from  *)
(* the HTTP API (armillary-server/src/api/backfills.rs) and from the       *)
(* command line (armillary-cli/src/backfill.rs).  Backfills share no       *)
(* state, so one is enough; several coordinators may work on it.           *)
(*                                                                         *)
(* Every store call is one atomic step (the store holds a mutex around one *)
(* SQL statement), everything between two store calls can interleave.      *)
(***************************************************************************)
EXTENDS Naturals, FiniteSets

CONSTANTS
  Coords,       \* identities of coordinator invocations (tokio tasks, CLI processes)
  N,            \* number of iterations the range expands to
  Keys,         \* iteration keys
  KeyOf,        \* KeyOf[i]: key of iteration i; a List range may repeat one
  Concurrency,  \* permits of the coordinator's semaphore
  FailFast,     \* the backfill's fail_fast flag
  MaxCrashes,   \* bound: process crashes explored
  MaxFaults     \* bound: store errors and task panics explored

Iters == 0 .. N - 1

ASSUME BackfillAssumption ==
  /\ N \in Nat
  /\ KeyOf \in [Iters -> Keys]
  /\ Concurrency \in Nat
  /\ FailFast \in BOOLEAN
  /\ MaxCrashes \in Nat
  /\ MaxFaults \in Nat

VARIABLES
  status,       \* backfills.status; "none" before the insert, "deleted" after the delete
  origin,       \* which front end created the record ("api" or "cli")
  rows,         \* backfill_iterations.status per index; "none" where no row exists
  pc,           \* where each coordinator is; "idle" when there is none
  kind,         \* which front end started the coordinator
  todo,         \* iterations the coordinator has not spawned yet
  resetq,       \* failed rows a resume has still to put back to pending
  cancel,       \* the AtomicBool in the coordinator's BackfillRunOptions
  hadFailure,   \* the coordinator's had_failure flag
  decided,      \* final status computed and not yet written
  task,         \* task[c][i]: the spawned task of iteration i, a permit is held unless "none"
  requests,     \* "cancel"/"delete" handlers between their check and their write
  crashes, faults,
  late,         \* history: iterations spawned although had_failure was already set
  overlap       \* history: two coordinators have been active at once

db    == <<status, origin, rows>>
plan  == <<kind, todo, resetq>>
flags == <<cancel, hadFailure, decided, late>>
env   == <<crashes, faults>>
vars  == <<db, pc, plan, flags, task, requests, env, overlap>>

BackfillStatus  == {"pending", "running", "completed", "cancelled", "failed"}
IterationStatus == {"pending", "running", "succeeded", "failed"}
FinalStatus     == {"completed", "cancelled", "failed"}
Kinds           == {"api", "cli"}
TaskState       == {"none", "spawned", "executing", "doomed", "failing", "aborted"}
Steps == {"idle", "create", "insert", "get", "list", "reset", "begin",
          "loop", "acquire", "drain", "finish"}

Exists    == status \in BackfillStatus
Active(c) == pc[c] # "idle"
Inflight(c) == {i \in Iters : task[c][i] # "none"}
SucceededKeys == {KeyOf[i] : i \in {j \in Iters : rows[j] = "succeeded"}}
NoTask == [i \in Iters |-> "none"]

TypeOK ==
  /\ status \in BackfillStatus \cup {"none", "deleted"}
  /\ origin \in Kinds
  /\ rows \in [Iters -> IterationStatus \cup {"none"}]
  /\ pc \in [Coords -> Steps]
  /\ kind \in [Coords -> Kinds]
  /\ todo \in [Coords -> SUBSET Iters]
  /\ resetq \in [Coords -> SUBSET Iters]
  /\ cancel \in [Coords -> BOOLEAN]
  /\ hadFailure \in [Coords -> BOOLEAN]
  /\ decided \in [Coords -> FinalStatus]
  /\ late \in [Coords -> Nat]
  /\ task \in [Coords -> [Iters -> TaskState]]
  /\ requests \in SUBSET {"cancel", "delete"}
  /\ crashes \in 0 .. MaxCrashes
  /\ faults \in 0 .. MaxFaults
  /\ overlap \in BOOLEAN

Init ==
  /\ status = "none"
  /\ origin = "api"
  /\ rows = [i \in Iters |-> "none"]
  /\ pc = [c \in Coords |-> "idle"]
  /\ kind = [c \in Coords |-> "api"]
  /\ todo = [c \in Coords |-> {}]
  /\ resetq = [c \in Coords |-> {}]
  /\ cancel = [c \in Coords |-> FALSE]
  /\ hadFailure = [c \in Coords |-> FALSE]
  /\ decided = [c \in Coords |-> "completed"]
  /\ late = [c \in Coords |-> 0]
  /\ task = [c \in Coords |-> NoTask]
  /\ requests = {}
  /\ crashes = 0
  /\ faults = 0
  /\ overlap = FALSE

-----------------------------------------------------------------------------
(* Store operations (backfill_store.rs) *)

\* UPDATE ... WHERE id = ?: no row, no effect, no error.
UpdateStatus(s) == status' = IF Exists THEN s ELSE status

RowSet(i, s) == IF rows[i] = "none" THEN rows ELSE [rows EXCEPT ![i] = s]

\* The tasks ignore the result of update_iteration (`let _ =`): the write
\* takes effect, or it fails and nobody notices.
WriteRow(i, s) ==
  \/ rows' = RowSet(i, s) /\ UNCHANGED faults
  \/ faults < MaxFaults /\ faults' = faults + 1 /\ UNCHANGED rows

-----------------------------------------------------------------------------
(* Starting and ending a coordinator *)

Goto(c, s) == pc' = [pc EXCEPT ![c] = s]

\* A fresh coordinator: its cancel and had_failure flags are new AtomicBools.
Launch(c, k, first, its) ==
  /\ pc[c] = "idle"
  /\ Goto(c, first)
  /\ kind' = [kind EXCEPT ![c] = k]
  /\ todo' = [todo EXCEPT ![c] = its]
  /\ overlap' = (overlap \/ \E d \in Coords \ {c} : Active(d))
  /\ UNCHANGED <<db, resetq, flags, task, requests, env>>

\* The coordinators in S end; what they kept in memory is gone.
Stop(S) ==
  /\ pc' = [c \in Coords |-> IF c \in S THEN "idle" ELSE pc[c]]
  /\ kind' = [c \in Coords |-> IF c \in S THEN "api" ELSE kind[c]]
  /\ todo' = [c \in Coords |-> IF c \in S THEN {} ELSE todo[c]]
  /\ resetq' = [c \in Coords |-> IF c \in S THEN {} ELSE resetq[c]]
  /\ cancel' = [c \in Coords |-> IF c \in S THEN FALSE ELSE cancel[c]]
  /\ hadFailure' = [c \in Coords |-> IF c \in S THEN FALSE ELSE hadFailure[c]]
  /\ decided' = [c \in Coords |-> IF c \in S THEN "completed" ELSE decided[c]]
  /\ late' = [c \in Coords |-> IF c \in S THEN 0 ELSE late[c]]
  /\ task' = [c \in Coords |-> IF c \in S THEN NoTask ELSE task[c]]

\* POST /api/backfills (concurrency 0 is refused) and `armillary backfill start`
\* (it is not).  The id is new, so nobody else knows this backfill yet.
StartBackfill(c, k) ==
  /\ status = "none"
  /\ \A d \in Coords : ~Active(d)
  /\ k = "api" => Concurrency >= 1
  /\ Launch(c, k, "create", Iters)

\* POST /api/backfills/:id/resume: only failed or cancelled, and the pipeline
\* column must hold a UUID, which the command line never stores there.
ResumeApi(c) ==
  /\ status \in {"failed", "cancelled"}
  /\ origin = "api"
  /\ Launch(c, "api", "get", {})

\* `armillary backfill resume` does not look at the status.
ResumeCli(c) ==
  /\ Exists
  /\ Launch(c, "cli", "get", {})

-----------------------------------------------------------------------------
(* start_backfill and resume_backfill up to the coordinator loop *)

CreateRecord(c) ==
  /\ pc[c] = "create"
  /\ status' = "pending"
  /\ origin' = kind[c]
  /\ Goto(c, "insert")
  /\ UNCHANGED <<rows, plan, flags, task, requests, env, overlap>>

CreateIterations(c) ==
  /\ pc[c] = "insert"
  /\ Exists
  /\ rows' = [i \in Iters |-> "pending"]
  /\ Goto(c, "begin")
  /\ UNCHANGED <<status, origin, plan, flags, task, requests, env, overlap>>

\* The record was deleted in between: the foreign key refuses the inserts, and
\* resume_backfill returns NotFound.
RecordGone(c) ==
  /\ pc[c] \in {"insert", "get"}
  /\ ~Exists
  /\ Stop({c})
  /\ UNCHANGED <<db, requests, env, overlap>>

GetRecord(c) ==
  /\ pc[c] = "get"
  /\ Exists
  /\ Goto(c, "list")
  /\ UNCHANGED <<db, plan, flags, task, requests, env, overlap>>

\* The snapshot decides: what is failed now is reset, what has a key that
\* succeeded by now is skipped.
ListIterationsMutant(c) ==  \* no skip of succeeded keys
  /\ pc[c] = "list"
  /\ todo' = [todo EXCEPT ![c] = {i \in Iters : rows[i] # "none"}]
  /\ resetq' = [resetq EXCEPT ![c] = {i \in Iters : rows[i] = "failed"}]
  /\ Goto(c, "reset")
  /\ UNCHANGED <<db, kind, flags, task, requests, env, overlap>>

ListIterations(c) ==
  /\ pc[c] = "list"
  /\ todo' = [todo EXCEPT ![c] =
                {i \in Iters : rows[i] # "none" /\ KeyOf[i] \notin SucceededKeys}]
  /\ resetq' = [resetq EXCEPT ![c] = {i \in Iters : rows[i] = "failed"}]
  /\ Goto(c, "reset")
  /\ UNCHANGED <<db, kind, flags, task, requests, env, overlap>>

ResetFailed(c) ==
  /\ pc[c] = "reset"
  /\ \E i \in resetq[c] :
       /\ \A j \in resetq[c] : i <= j
       /\ rows' = RowSet(i, "pending")
       /\ resetq' = [resetq EXCEPT ![c] = @ \ {i}]
  /\ UNCHANGED <<status, origin, pc, kind, todo, flags, task, requests, env, overlap>>

ResetDone(c) ==
  /\ pc[c] = "reset"
  /\ resetq[c] = {}
  /\ Goto(c, "begin")
  /\ UNCHANGED <<db, plan, flags, task, requests, env, overlap>>

-----------------------------------------------------------------------------
(* run_coordinator_with_skip *)

MarkRunning(c) ==
  /\ pc[c] = "begin"
  /\ UpdateStatus("running")
  /\ Goto(c, "loop")
  /\ UNCHANGED <<origin, rows, plan, flags, task, requests, env, overlap>>

\* Top of the loop: no iteration left, cancelled, or fail_fast after a failure.
StopsHereMutant(c) == todo[c] = {} \/ cancel[c]  \* had_failure not consulted

StopsHere(c) ==
  \/ todo[c] = {}
  \/ cancel[c]
  \/ FailFast /\ hadFailure[c]

CheckLoop(c) ==
  /\ pc[c] = "loop"
  /\ Goto(c, IF StopsHere(c) THEN "drain" ELSE "acquire")
  /\ UNCHANGED <<db, plan, flags, task, requests, env, overlap>>

\* acquire_owned().await returns with a permit, and the next iteration in index
\* order is spawned.  The flags are not looked at again.
SpawnMutant(c) ==  \* no permit awaited
  /\ pc[c] = "acquire"
  /\ \E i \in todo[c] :
       /\ todo' = [todo EXCEPT ![c] = @ \ {i}]
       /\ task' = [task EXCEPT ![c][i] = "spawned"]
  /\ Goto(c, "loop")
  /\ UNCHANGED <<db, kind, resetq, flags, requests, env, overlap>>

Spawn(c) ==
  /\ pc[c] = "acquire"
  /\ Cardinality(Inflight(c)) < Concurrency
  /\ \E i \in todo[c] :
       /\ \A j \in todo[c] : i <= j
       /\ todo' = [todo EXCEPT ![c] = @ \ {i}]
       /\ task' = [task EXCEPT ![c][i] = "spawned"]
  /\ late' = [late EXCEPT ![c] = IF hadFailure[c] THEN @ + 1 ELSE @]
  /\ Goto(c, "loop")
  /\ UNCHANGED <<db, kind, resetq, cancel, hadFailure, decided, requests, env, overlap>>

\* get_progress and the cancel flag give the final status.
FinalStatusOf(c) ==
  IF cancel[c] THEN "cancelled"
  ELSE IF \E i \in Iters : rows[i] = "failed" THEN "failed"
  ELSE "completed"

DecideMutant(c) ==  \* handles not joined
  /\ pc[c] = "drain"
  /\ decided' = [decided EXCEPT ![c] = FinalStatusOf(c)]
  /\ Goto(c, "finish")
  /\ UNCHANGED <<db, plan, cancel, hadFailure, late, task, requests, env, overlap>>

\* All handles joined.
Decide(c) ==
  /\ pc[c] = "drain"
  /\ Inflight(c) = {}
  /\ decided' = [decided EXCEPT ![c] = FinalStatusOf(c)]
  /\ Goto(c, "finish")
  /\ UNCHANGED <<db, plan, cancel, hadFailure, late, task, requests, env, overlap>>

WriteFinalMutant(c) ==  \* leaves it to the canceller to write "cancelled"
  /\ pc[c] = "finish"
  /\ IF decided[c] = "cancelled" THEN UNCHANGED status ELSE UpdateStatus(decided[c])
  /\ Stop({c})
  /\ UNCHANGED <<origin, rows, requests, env, overlap>>

WriteFinal(c) ==
  /\ pc[c] = "finish"
  /\ UpdateStatus(decided[c])
  /\ Stop({c})
  /\ UNCHANGED <<origin, rows, requests, env, overlap>>

-----------------------------------------------------------------------------
(* The spawned task of one iteration *)

SetTask(c, i, s) == task' = [task EXCEPT ![c][i] = s]

\* Marks the row running, then executes.  The executor checks the flag before
\* its first node, so a task that starts after the cancel cannot succeed.
TaskStart(c, i) ==
  /\ task[c][i] = "spawned"
  /\ WriteRow(i, "running")
  /\ SetTask(c, i, IF cancel[c] THEN "doomed" ELSE "executing")
  /\ UNCHANGED <<status, origin, pc, plan, flags, requests, crashes, overlap>>

\* execute returned Ok: the row, then the permit is dropped.
TaskSucceed(c, i) ==
  /\ task[c][i] = "executing"
  /\ WriteRow(i, "succeeded")
  /\ SetTask(c, i, "none")
  /\ UNCHANGED <<status, origin, pc, plan, flags, requests, crashes, overlap>>

\* execute returned Err: had_failure first, the row in a later step.
TaskError(c, i, s) ==
  /\ hadFailure' = [hadFailure EXCEPT ![c] = TRUE]
  /\ SetTask(c, i, s)
  /\ UNCHANGED <<db, pc, plan, cancel, decided, late, requests, env, overlap>>

TaskFailMutant(c, i) ==  \* retried for ever
  /\ task[c][i] = "executing"
  /\ TaskError(c, i, "spawned")

TaskFail(c, i) ==
  /\ task[c][i] = "executing"
  /\ TaskError(c, i, "failing")

\* The executor shares the coordinator's cancel flag and gives up before its
\* next node with ExecutorError::Cancelled.
TaskAbort(c, i) ==
  /\ task[c][i] \in {"executing", "doomed"}
  /\ cancel[c]
  /\ TaskError(c, i, IF task[c][i] = "executing" THEN "aborted" ELSE "failing")

TaskRecordFailure(c, i) ==
  /\ task[c][i] \in {"failing", "aborted"}
  /\ WriteRow(i, "failed")
  /\ SetTask(c, i, "none")
  /\ UNCHANGED <<status, origin, pc, plan, flags, requests, crashes, overlap>>

-----------------------------------------------------------------------------
(* Requests from outside *)

\* Ctrl-C reaches the flag of a command-line coordinator.  The flag made by the
\* API handlers is kept nowhere else, so nothing can set it.
CtrlC(c) ==
  /\ Active(c)
  /\ kind[c] = "cli"
  /\ cancel' = [cancel EXCEPT ![c] = TRUE]
  /\ UNCHANGED <<db, pc, plan, hadFailure, decided, late, task, requests, env, overlap>>

\* cancel and delete, API and command line alike: get_backfill and a check...
CheckCancel ==
  /\ status \in {"running", "pending"}
  /\ requests' = requests \cup {"cancel"}
  /\ UNCHANGED <<db, pc, plan, flags, task, env, overlap>>

CheckDelete ==
  /\ Exists
  /\ status # "running"
  /\ requests' = requests \cup {"delete"}
  /\ UNCHANGED <<db, pc, plan, flags, task, env, overlap>>

\* ... then the write, whatever the status has become meanwhile.
ApplyCancel ==
  /\ "cancel" \in requests
  /\ UpdateStatus("cancelled")
  /\ requests' = requests \ {"cancel"}
  /\ UNCHANGED <<origin, rows, pc, plan, flags, task, env, overlap>>

ApplyDelete ==
  /\ "delete" \in requests
  /\ status' = "deleted"
  /\ rows' = [i \in Iters |-> "none"]
  /\ requests' = requests \ {"delete"}
  /\ UNCHANGED <<origin, pc, plan, flags, task, env, overlap>>

-----------------------------------------------------------------------------
(* Failures *)

\* create_iterations inserts row by row without a transaction: a coordinator
\* that dies inside it leaves a prefix.
TornInsert(S) ==
  \/ UNCHANGED rows
  \/ /\ \E c \in S : pc[c] = "insert"
     /\ Exists
     /\ \E k \in Iters : rows' = [i \in Iters |-> IF i < k THEN "pending" ELSE "none"]

\* A store call before or after the loop fails: `?` ends the coordinator.
StoreError(c) ==
  /\ faults < MaxFaults
  /\ pc[c] \in {"create", "insert", "get", "list", "reset", "begin", "drain", "finish"}
  /\ Inflight(c) = {}
  /\ TornInsert({c})
  /\ Stop({c})
  /\ faults' = faults + 1
  /\ UNCHANGED <<status, origin, requests, crashes, overlap>>

\* The task panics: its JoinError is ignored, its permit dropped, its row stays.
TaskPanic(c, i) ==
  /\ faults < MaxFaults
  /\ task[c][i] \in {"executing", "doomed"}
  /\ SetTask(c, i, "none")
  /\ faults' = faults + 1
  /\ UNCHANGED <<db, pc, plan, flags, requests, crashes, overlap>>

\* A process dies with all its coordinators: the server with every API one, a
\* command line with its own.  Nothing looks at the rows when it starts again.
Crash ==
  /\ crashes < MaxCrashes
  /\ \E S \in {{c \in Coords : Active(c) /\ kind[c] = "api"}}
              \cup {{c} : c \in {d \in Coords : Active(d) /\ kind[d] = "cli"}} :
       /\ S # {}
       /\ TornInsert(S)
       /\ Stop(S)
  /\ crashes' = crashes + 1
  /\ UNCHANGED <<status, origin, requests, faults, overlap>>

-----------------------------------------------------------------------------
Coordinator(c) ==
  \/ CreateRecord(c) \/ CreateIterations(c) \/ RecordGone(c)
  \/ GetRecord(c) \/ ListIterations(c) \/ ResetFailed(c) \/ ResetDone(c)
  \/ MarkRunning(c) \/ CheckLoop(c) \/ Spawn(c) \/ Decide(c) \/ WriteFinal(c)

Task(c, i) ==
  \/ TaskStart(c, i) \/ TaskSucceed(c, i) \/ TaskFail(c, i)
  \/ TaskAbort(c, i) \/ TaskRecordFailure(c, i)

Next ==
  \/ \E c \in Coords :
       \/ \E k \in Kinds : StartBackfill(c, k)
       \/ ResumeApi(c)
       \/ ResumeCli(c)
       \/ Coordinator(c)
       \/ CtrlC(c)
       \/ StoreError(c)
       \/ \E i \in Iters : Task(c, i) \/ TaskPanic(c, i)
  \/ CheckCancel \/ CheckDelete \/ ApplyCancel \/ ApplyDelete
  \/ Crash

Spec == Init /\ [][Next]_vars

\* The runtime keeps polling every coordinator and every spawned task, and an
\* execution that is not cancelled returns.
Fairness ==
  \A c \in Coords :
    /\ WF_vars(Coordinator(c))
    /\ \A i \in Iters : WF_vars(Task(c, i))

FairSpec == Spec /\ Fairness

-----------------------------------------------------------------------------
(* Properties *)

\* The semaphore: a coordinator never has more iterations in flight than its
\* concurrency, although permits are taken by the loop and dropped by the tasks.
PermitBound == \A c \in Coords : Cardinality(Inflight(c)) <= Concurrency

\* fail_fast: the flags are checked before the loop waits for a permit, so one
\* iteration may still be spawned after a failure, and never a second one
\* (the comment in fail_fast_stops_after_first_failure).
FailFastOvershoot == FailFast => \A c \in Coords : late[c] <= 1

\* As long as coordinators never overlap, an iteration that succeeded is not
\* run again: resume, crash, torn insert and cancel included.
SucceededIsFinal ==
  [][\A i \in Iters : (rows[i] = "succeeded" /\ ~overlap')
        => rows'[i] \in {"succeeded", "none"}]_vars

\* A backfill shown as completed ran everything: unless coordinators overlapped
\* or a write was lost or a task panicked, every iteration on record has a
\* succeeded iteration with its key.
CompletedMeansDone ==
  (status = "completed" /\ ~overlap /\ faults = 0)
    => \A i \in Iters : rows[i] # "none" => KeyOf[i] \in SucceededKeys

\* Without crashes and faults, a backfill whose coordinators have all ended is
\* not left pending or running: whatever order start, resume, cancel, delete and
\* Ctrl-C came in, it can be resumed or deleted.  No row of it is left running.
NoOrphan ==
  (crashes = 0 /\ faults = 0 /\ \A c \in Coords : ~Active(c))
    => /\ status \notin {"pending", "running"}
       /\ \A i \in Iters : rows[i] # "running"

\* Every coordinator ends: no permit is lost, whichever way its tasks end.
CoordinatorEnds == \A c \in Coords : Active(c) ~> ~Active(c)

-----------------------------------------------------------------------------
(* What the documentation says and the code does not do *)

\* cancel_backfill's comment has its caller set the cancel flag "to prevent new
\* iterations from starting"; the loop does not go on to another iteration of a
\* backfill that is shown as cancelled.
CancelStopsNewIterations ==
  [][\A c \in Coords :
       (pc[c] = "loop" /\ pc'[c] = "acquire") => status # "cancelled"]_vars
=============================================================================
