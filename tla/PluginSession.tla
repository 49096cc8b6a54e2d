--------------------------- MODULE PluginSession ---------------------------
(***************************************************************************)
(* A sink node written by a plugin: PluginSink::write and the              *)
(* PluginSession it drives on one side, the SDK's run_io in a child        *)
(* process on the other, and the two pipes between them.                   *)
(*                                                                         *)
(* A frame is its kind.  toHost is the child's stdout up to and including  *)
(* the channel the reader thread fills, toPlugin its stdin.  Time is not   *)
(* counted: a receive may give up whenever nothing has arrived, so the     *)
(* answer of a slow plugin can come in a later phase.  The plugin may be   *)
(* slow, hang, fail any call of its sink, or die between any two steps.    *)
(***************************************************************************)
EXTENDS Naturals, Sequences

CONSTANT MaxBatches     \* bound: record batches of one write

ASSUME BatchesAssumption == MaxBatches \in Nat

VARIABLES
  n,          \* batches the node has to write
  large,      \* whether a batch is larger than a pipe holds
  at,         \* what the host's thread is doing
  state,      \* PluginSession.state
  acked,      \* batches whose BatchAck send_batch has returned
  result,     \* what PluginSink::write answers
  stdin,      \* whether the host still holds the child's stdin
  toPlugin, toHost,
  child,      \* the process
  pc,         \* the next frame run_io reads, or that it has returned
  reply,      \* frames run_io is about to write
  sink        \* what the plugin's sink has been through

hostVars == <<n, large, at, state, acked, result, stdin>>
childVars == <<child, pc, reply, sink>>
vars == <<hostVars, toPlugin, toHost, childVars>>

Kinds == {"Hello", "HelloAck", "ConfigureSink", "ConfigureAck", "Rejected",
          "DeclareResource", "RecordBatch", "BatchAck", "Commit", "CommitAck",
          "Abort", "AbortAck", "Error", "Shutdown"}
States == {"Spawned", "Handshaked", "Configured", "Committed", "Aborted",
           "Closed"}

\* The receives of a session, each with the answer it expects.  A
\* ConfigureAck that does not accept is the kind Rejected.
Expected == [handshake |-> "HelloAck", configure |-> "ConfigureAck",
             batch |-> "BatchAck", commit |-> "CommitAck"]
Phases == DOMAIN Expected \cup {"abort"}

Running == child = "running"

TypeOK ==
  /\ n \in 0..MaxBatches /\ large \in BOOLEAN
  /\ at \in Phases \cup {"begin", "call", "sending", "failed", "drop", "reap",
                         "returned"}
  /\ state \in States
  /\ acked \in 0..n
  /\ result \in {"none", "Ok", "Err"}
  /\ stdin \in BOOLEAN
  /\ toPlugin \in Seq(Kinds) /\ toHost \in Seq(Kinds) /\ reply \in Seq(Kinds)
  /\ child \in {"none", "running", "exited", "crashed", "killed"}
  /\ pc \in {"hello", "configure", "stream", "drain", "exit"}
  /\ sink \in [written: 0..n, committed: BOOLEAN, aborted: BOOLEAN]

Init ==
  /\ n \in 0..MaxBatches /\ large \in BOOLEAN
  /\ at = "begin" /\ state = "Spawned" /\ acked = 0 /\ result = "none"
  /\ stdin = FALSE /\ toPlugin = <<>> /\ toHost = <<>>
  /\ child = "none" /\ pc = "hello" /\ reply = <<>>
  /\ sink = [written |-> 0, committed |-> FALSE, aborted |-> FALSE]

-----------------------------------------------------------------------------
(* The host.                                                               *)

\* No batches, no plugin.
NoData ==
  /\ at = "begin" /\ n = 0
  /\ at' = "returned" /\ result' = "Ok"
  /\ UNCHANGED <<n, large, state, acked, stdin, toPlugin, toHost, childVars>>

\* No plugin has the sink type, or its executable does not start.
SpawnFails ==
  /\ at = "begin" /\ n > 0
  /\ at' = "returned" /\ result' = "Err"
  /\ UNCHANGED <<n, large, state, acked, stdin, toPlugin, toHost, childVars>>

Spawn ==
  /\ at = "begin" /\ n > 0
  /\ at' = "call" /\ child' = "running" /\ stdin' = TRUE
  /\ UNCHANGED <<n, large, state, acked, result, toPlugin, toHost,
                 pc, reply, sink>>

\* Writing a frame: it is in the pipe, or the child has gone and the write
\* fails.
Send(kind, then, otherwise) ==
  IF Running THEN /\ toPlugin' = Append(toPlugin, kind) /\ at' = then
             ELSE /\ at' = otherwise /\ UNCHANGED toPlugin

Call(from, kind, then) ==
  /\ at = "call" /\ state = from
  /\ Send(kind, then, "failed")
  /\ UNCHANGED <<n, large, state, acked, result, stdin, toHost, childVars>>

Handshake == Call("Spawned", "Hello", "handshake")
Configure == Call("Handshaked", "ConfigureSink", "configure")

\* A schema or a batch that does not encode, or is larger than a frame may
\* be, is an error before anything is written.
Unsent ==
  /\ at = "call"
  /\ \/ state = "Handshaked"
     \/ state = "Configured" /\ acked < n
  /\ at' = "failed"
  /\ UNCHANGED <<n, large, state, acked, result, stdin, toPlugin, toHost,
                 childVars>>

\* A batch larger than the pipe is written only as the plugin reads it.
SendBatch ==
  /\ acked < n
  /\ Call("Configured", "RecordBatch", IF large THEN "sending" ELSE "batch")

Commit == /\ acked = n
          /\ Call("Configured", "Commit", "commit")

\* write_all of a large batch ends: the plugin has read it, or has gone.
SendEnds ==
  /\ at = "sending"
  /\ \/ toPlugin = <<>> /\ at' = "batch"
     \/ toPlugin # <<>> /\ ~Running /\ at' = "failed"
  /\ UNCHANGED <<n, large, state, acked, result, stdin, toPlugin, toHost,
                 childVars>>

\* recv goes past a DeclareResource, in any phase.
RecvDeclare ==
  /\ at \in Phases
  /\ toHost # <<>> /\ Head(toHost) = "DeclareResource"
  /\ toHost' = Tail(toHost)
  /\ UNCHANGED <<hostVars, toPlugin, childVars>>

\* The answer the phase expects.
RecvAnswer ==
  /\ at \in DOMAIN Expected
  /\ toHost # <<>> /\ Head(toHost) = Expected[at]
  /\ toHost' = Tail(toHost)
  /\ at' = "call"
  /\ state' = CASE at = "handshake" -> "Handshaked"
                [] at = "configure" -> "Configured"
                [] at = "batch" -> state
                [] at = "commit" -> "Committed"
  /\ acked' = IF at = "batch" THEN acked + 1 ELSE acked
  /\ UNCHANGED <<n, large, result, stdin, toPlugin, childVars>>

\* An Error frame, a rejection, or an answer to something else.
TakeOther(then) ==
  /\ at \in DOMAIN Expected
  /\ toHost # <<>> /\ Head(toHost) \notin {"DeclareResource", Expected[at]}
  /\ toHost' = Tail(toHost)
  /\ at' = then
  /\ UNCHANGED <<n, large, acked, result, stdin, toPlugin, childVars>>
RecvOtherMutant == \* commit's error arm is missing
  /\ TakeOther(IF at = "commit" THEN "call" ELSE "failed")
  /\ state' = IF at = "commit" THEN "Committed" ELSE state
RecvOther == TakeOther("failed") /\ UNCHANGED state

\* The phase times out, or the reader has told that stdout is closed.
GiveUp(then) ==
  /\ at \in DOMAIN Expected
  /\ toHost = <<>>
  /\ at' = then
  /\ UNCHANGED <<n, large, state, acked, result, stdin, toPlugin, toHost,
                 childVars>>
NoAnswerRetries == \* a batch that is not acknowledged is sent again
  GiveUp(IF at = "batch" THEN "call" ELSE "failed")
NoAnswerWaits == \* a receive without a timeout
  ~Running /\ GiveUp("failed")
NoAnswer == GiveUp("failed")

\* PluginSink's error arms: a session that is not configured is dropped, a
\* configured one is aborted first.  The Abort may not go out.
NotConfigured ==
  /\ at = "failed" /\ state \in {"Spawned", "Handshaked"}
  /\ at' = "drop" /\ result' = "Err"
  /\ UNCHANGED <<n, large, state, acked, stdin, toPlugin, toHost, childVars>>

Abort ==
  /\ at = "failed" /\ state = "Configured"
  /\ Send("Abort", "abort", "abort")
  /\ UNCHANGED <<n, large, state, acked, result, stdin, toHost, childVars>>

\* The wait for AbortAck ends with any frame, with its timeout or with a
\* closed pipe; the write is an error whatever it was.
AbortEnds ==
  /\ at = "abort"
  /\ \/ toHost = <<>> /\ UNCHANGED toHost
     \/ toHost # <<>> /\ Head(toHost) # "DeclareResource" /\ toHost' = Tail(toHost)
  /\ at' = "drop" /\ state' = "Aborted" /\ result' = "Err"
  /\ UNCHANGED <<n, large, acked, stdin, toPlugin, childVars>>

Shutdown ==
  /\ at = "call" /\ state = "Committed"
  /\ Send("Shutdown", "drop", "drop")
  /\ state' = "Closed" /\ result' = "Ok"
  /\ UNCHANGED <<n, large, acked, stdin, toHost, childVars>>

\* Drop for PluginProcess: stdin is closed, then the child is reaped, or
\* killed if it has not exited by then.
CloseStdin ==
  /\ at = "drop"
  /\ stdin' = FALSE /\ at' = "reap"
  /\ UNCHANGED <<n, large, state, acked, result, toPlugin, toHost, childVars>>

Reap ==
  /\ at = "reap"
  /\ at' = "returned"
  /\ child' = IF Running THEN "killed" ELSE child
  /\ UNCHANGED <<n, large, state, acked, result, stdin, toPlugin, toHost,
                 pc, reply, sink>>

Host ==
  \/ NoData \/ SpawnFails \/ Spawn
  \/ Handshake \/ Configure \/ Unsent \/ SendBatch \/ SendEnds \/ Commit
  \/ RecvDeclare \/ RecvAnswer \/ RecvOther \/ NoAnswer
  \/ NotConfigured \/ Abort \/ AbortEnds \/ Shutdown
  \/ CloseStdin \/ Reap

-----------------------------------------------------------------------------
(* The plugin.                                                             *)

\* run_io takes the next frame; what it answers is written by Reply.
Read(where, kind) ==
  /\ Running /\ reply = <<>> /\ pc = where
  /\ toPlugin # <<>> /\ Head(toPlugin) = kind
  /\ toPlugin' = Tail(toPlugin)
  /\ UNCHANGED <<hostVars, toHost, child>>

Reply ==
  /\ Running /\ reply # <<>>
  /\ toHost' = toHost \o reply /\ reply' = <<>>
  /\ UNCHANGED <<hostVars, toPlugin, child, pc, sink>>

OnHello ==
  /\ Read("hello", "Hello")
  /\ \/ reply' = <<"HelloAck">> /\ pc' = "configure"
     \/ reply' = <<"Error">> /\ pc' = "exit"
  /\ UNCHANGED sink

OnConfigure ==
  /\ Read("configure", "ConfigureSink")
  /\ \/ reply' = <<"ConfigureAck">> /\ pc' = "stream"
     \/ reply' = <<"DeclareResource", "ConfigureAck">> /\ pc' = "stream"
     \/ reply' = <<"Rejected">> /\ pc' = "exit"
  /\ UNCHANGED sink

OnBatchMutant == \* a batch that the sink refuses does not end run_io
  /\ Read("stream", "RecordBatch")
  /\ reply' = <<"BatchAck">>
  /\ UNCHANGED pc
  /\ \/ sink' = [sink EXCEPT !.written = @ + 1]
     \/ UNCHANGED sink
OnBatch ==
  /\ Read("stream", "RecordBatch")
  /\ \/ /\ reply' = <<"BatchAck">>
        /\ sink' = [sink EXCEPT !.written = @ + 1]
        /\ UNCHANGED pc
     \/ reply' = <<"Error">> /\ pc' = "exit" /\ UNCHANGED sink

OnCommitMutant == \* the stream's loop goes on instead of drain_until_shutdown
  /\ Read("stream", "Commit")
  /\ UNCHANGED pc
  /\ reply' = <<"CommitAck">> /\ sink' = [sink EXCEPT !.committed = TRUE]
OnCommit ==
  /\ Read("stream", "Commit")
  /\ pc' = "drain"
  /\ \/ reply' = <<"CommitAck">> /\ sink' = [sink EXCEPT !.committed = TRUE]
     \/ reply' = <<"Error">> /\ UNCHANGED sink

OnAbort ==
  /\ Read("stream", "Abort")
  /\ sink' = [sink EXCEPT !.aborted = TRUE]
  /\ reply' = <<"AbortAck">> /\ pc' = "exit"

\* After Commit every frame but Shutdown is passed over.
Drain ==
  /\ \E kind \in Kinds :
       /\ Read("drain", kind)
       /\ pc' = IF kind = "Shutdown" THEN "exit" ELSE pc
  /\ UNCHANGED <<reply, sink>>

\* The end of stdin ends run_io in any phase.
EndOfInputMutant == \* in the stream it stands for a Commit
  /\ Running /\ reply = <<>> /\ pc # "exit"
  /\ ~stdin /\ toPlugin = <<>>
  /\ pc' = "exit"
  /\ sink' = [sink EXCEPT !.committed = (pc = "stream")]
  /\ UNCHANGED <<hostVars, toPlugin, toHost, child, reply>>
EndOfInput ==
  /\ Running /\ reply = <<>> /\ pc # "exit"
  /\ ~stdin /\ toPlugin = <<>>
  /\ pc' = "exit"
  /\ UNCHANGED <<hostVars, toPlugin, toHost, child, reply, sink>>

Exit ==
  /\ Running /\ reply = <<>> /\ pc = "exit"
  /\ child' = "exited"
  /\ UNCHANGED <<hostVars, toPlugin, toHost, pc, reply, sink>>

\* The process dies, or run_io ends on a payload it cannot decode, with what
\* it has not written.
Crash ==
  /\ Running
  /\ child' = "crashed"
  /\ UNCHANGED <<hostVars, toPlugin, toHost, pc, reply, sink>>

Plugin ==
  \/ Reply \/ OnHello \/ OnConfigure \/ OnBatch \/ OnCommit \/ OnAbort
  \/ Drain \/ EndOfInput \/ Exit \/ Crash

Next == Host \/ Plugin

Spec == Init /\ [][Next]_vars

\* The host's thread runs on; nothing is assumed of the plugin.
FairSpec == Spec /\ WF_vars(Host)

-----------------------------------------------------------------------------
(* Properties.                                                             *)

\* A write that PluginSink reports as done has every batch in the sink,
\* once, and the sink has committed them: no late, foreign or missing answer
\* can pass for a CommitAck, and no batch is sent again.
OkIsCommitted ==
  (result = "Ok" /\ n > 0) => sink.committed /\ sink.written = n

\* A sink never commits part of a node's output, whatever fails on either
\* side: Commit is not sent until every batch is accounted for.
CommitIsWhole == sink.committed => sink.written = n

\* The Sink trait's promise to plugins, "exactly one of commit (success) or
\* abort (failure)": an abort that follows a commit whose answer was late
\* does not reach the sink that has committed.
CommitOrAbort == ~(sink.committed /\ sink.aborted)

\* A batch the host takes as accepted is in the sink, also when answers are
\* slower than the host's timeouts.
AckedIsWritten == acked <= sink.written

\* The answer to one call is never the answer to another: while a session
\* can still go on, at most one frame that a receive would return is on its
\* way from the plugin, and none when the host is about to call.
OnTheWay ==
  LET frames == toHost \o reply
  IN  {i \in DOMAIN frames : frames[i] # "DeclareResource"}
InStep ==
  /\ at = "call" => OnTheWay = {}
  /\ at \in DOMAIN Expected => \A i, j \in OnTheWay : i = j

\* The session keeps the contract of the sink it drives, step by step: the
\* child takes each batch once and in turn, also after the host has given up,
\* commits only the whole and then neither takes, aborts nor commits again,
\* and the node gets one answer, Ok only for what is committed.
Contract == INSTANCE SinkContract WITH
  written <- sink.written,
  committed <- sink.committed,
  aborted <- sink.aborted
KeepsContract == Contract!Spec

\* PluginSink::write returns even if the plugin hangs in any phase, since
\* every receive has a timeout; only a batch that the pipe does not hold and
\* the plugin does not read can keep it.
WriteReturns == <>(at = "returned") \/ <>[](at = "sending" /\ toPlugin # <<>>)
=============================================================================
