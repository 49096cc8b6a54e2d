------------------------ MODULE PluginSessionProofs ------------------------
(***************************************************************************)
(* Proofs about PluginSession, for every number of batches.                *)
(***************************************************************************)
EXTENDS PluginSession, TLAPS

\* What run_io's position says of its sink.  CommitOrAbort alone is not
\* inductive: it needs that a sink in the stream has been through neither,
\* and that run_io does not come back to the stream from drain_until_shutdown.
SinkInv ==
  /\ pc \in {"hello", "configure", "stream"} => ~sink.committed /\ ~sink.aborted
  /\ pc = "drain" => ~sink.aborted
  /\ CommitOrAbort

-----------------------------------------------------------------------------
(* The inductive invariant.                                                *)

\* Where a conversation can be while the host waits: the plugin has not read
\* the request, or its answer is about to be written or has been.
Idle == toPlugin = <<>> /\ toHost = <<>> /\ reply = <<>>
Asked(kind, where) ==
  toPlugin = <<kind>> /\ toHost = <<>> /\ reply = <<>> /\ pc = where
Answered(frames) ==
  /\ toPlugin = <<>>
  /\ \/ toHost = <<>> /\ reply = frames
     \/ toHost = frames /\ reply = <<>>

CallInv ==
  at = "call" =>
    /\ Idle
    /\ \/ state = "Spawned" /\ pc = "hello" /\ sink.written = acked
       \/ state = "Handshaked" /\ pc = "configure" /\ sink.written = acked
       \/ state = "Configured" /\ pc = "stream" /\ sink.written = acked
       \/ state = "Committed" /\ pc = "drain" /\ sink.committed

HandshakeInv ==
  at = "handshake" =>
    /\ state = "Spawned"
    /\ \/ Asked("Hello", "hello") /\ sink.written = acked
       \/ /\ Answered(<<"HelloAck">>)
          /\ pc = "configure" /\ sink.written = acked
       \/ Answered(<<"Error">>)

ConfigureInv ==
  at = "configure" =>
    /\ state = "Handshaked"
    /\ \/ Asked("ConfigureSink", "configure") /\ sink.written = acked
       \/ /\ \/ Answered(<<"ConfigureAck">>)
             \/ Answered(<<"DeclareResource", "ConfigureAck">>)
          /\ pc = "stream" /\ sink.written = acked
       \/ Answered(<<"Rejected">>)

BatchInv ==
  at \in {"sending", "batch"} =>
    /\ state = "Configured" /\ acked < n
    /\ \/ Asked("RecordBatch", "stream") /\ sink.written = acked
       \/ /\ Answered(<<"BatchAck">>)
          /\ pc = "stream" /\ sink.written = acked + 1
       \/ Answered(<<"Error">>)

CommitInv ==
  at = "commit" =>
    /\ state = "Configured"
    /\ \/ Asked("Commit", "stream")
       \/ Answered(<<"CommitAck">>) /\ pc = "drain" /\ sink.committed
       \/ Answered(<<"Error">>)

\* Whatever has become of the session, what is still in the pipe can neither
\* write too much nor commit too little.
PipeInv ==
  \A i \in DOMAIN toPlugin :
    /\ toPlugin[i] = "RecordBatch" => i = 1 /\ sink.written < n
    /\ toPlugin[i] = "Commit" => i = 1 /\ sink.written = n

\* Before the child is started, and while its stdin is held.
BeginInv ==
  /\ at = "begin" => /\ child = "none" /\ Idle /\ state = "Spawned" /\ pc = "hello"
                     /\ sink.written = acked /\ acked = 0
  /\ at \in Phases \cup {"call", "sending", "failed"} => stdin

Talk == BeginInv /\ CallInv /\ HandshakeInv /\ ConfigureInv /\ BatchInv /\ CommitInv
Done == OkIsCommitted /\ CommitIsWhole /\ AckedIsWritten

IInv == TypeOK /\ SinkInv /\ Talk /\ PipeInv /\ Done

-----------------------------------------------------------------------------
(* Facts about the short sequences of a conversation.                      *)

LEMMA OneFrame == \A k : Head(<<k>>) = k /\ Tail(<<k>>) = <<>> /\ <<k>> # <<>>
  OBVIOUS

LEMMA TwoFrames ==
  \A k, l : /\ Head(<<k, l>>) = k /\ Tail(<<k, l>>) = <<l>> /\ <<k, l>> # <<>>
            /\ \A m : <<k, l>> # <<m>>
  OBVIOUS

LEMMA FirstFrame == \A k : Append(<<>>, k) = <<k>>
  OBVIOUS

LEMMA Frames ==
  ASSUME NEW s \in Seq(Kinds)
  PROVE  /\ \A k \in Kinds : Append(s, k) \in Seq(Kinds)
         /\ s # <<>> => Head(s) \in Kinds /\ Tail(s) \in Seq(Kinds)
         /\ \A t \in Seq(Kinds) : s \o t \in Seq(Kinds)
  OBVIOUS

LEMMA ShortFrames ==
  /\ \A k \in Kinds : <<k>> \in Seq(Kinds)
  /\ \A k, l \in Kinds : <<k, l>> \in Seq(Kinds)
  OBVIOUS

LEMMA NothingAhead == \A s \in Seq(Kinds) : <<>> \o s = s
  OBVIOUS

-----------------------------------------------------------------------------

LEMMA InitIInv == Init => IInv
<1> SUFFICES ASSUME Init PROVE IInv
  OBVIOUS
<1> USE BatchesAssumption DEF Init
<1>1. TypeOK
  <2>1. toPlugin \in Seq(Kinds) /\ toHost \in Seq(Kinds) /\ reply \in Seq(Kinds)
    OBVIOUS
  <2>2. n \in 0..MaxBatches /\ acked \in 0..n
    OBVIOUS
  <2>3. sink \in [written: 0..n, committed: BOOLEAN, aborted: BOOLEAN]
    BY <2>2
  <2> QED BY <2>1, <2>2, <2>3 DEF TypeOK, States
<1>2. SinkInv
  BY DEF SinkInv, CommitOrAbort
<1>3. Talk
  BY DEF Talk, Phases, Expected, BeginInv, Idle, CallInv, HandshakeInv, ConfigureInv,
         BatchInv, CommitInv
<1>4. PipeInv /\ Done
  BY DEF PipeInv, Done, OkIsCommitted, CommitIsWhole, AckedIsWritten
<1> QED BY <1>1, <1>2, <1>3, <1>4 DEF IInv

LEMMA HostStep == ASSUME IInv, Host PROVE IInv'
<1> USE BatchesAssumption, OneFrame, TwoFrames, FirstFrame
    DEF IInv, Talk, Done, TypeOK, States, Phases, Expected, SinkInv, CommitOrAbort, BeginInv, Idle, Asked,
      Answered, CallInv, HandshakeInv, ConfigureInv, BatchInv, CommitInv, PipeInv,
      OkIsCommitted, CommitIsWhole, AckedIsWritten, childVars, Running
<1>1. CASE NoData
  BY <1>1 DEF NoData
<1>2. CASE SpawnFails
  BY <1>2 DEF SpawnFails
<1>3. CASE Spawn
  BY <1>3 DEF Spawn
<1>4. CASE Handshake
  <2>1. TypeOK'
    <3>1. toPlugin' \in Seq(Kinds)
      <4>1. toPlugin \in Seq(Kinds) /\ "Hello" \in Kinds
        BY DEF Kinds
      <4> QED BY <4>1, Frames, <1>4 DEF Handshake, Call, Send
    <3> QED BY <3>1, <1>4 DEF Handshake, Call, Send
  <2>2. SinkInv'
    BY <1>4 DEF Handshake, Call, Send
  <2>3. Talk'
    BY <1>4 DEF Handshake, Call, Send
  <2>4. PipeInv'
    BY <1>4 DEF Handshake, Call, Send
  <2>5. Done'
    BY <1>4 DEF Handshake, Call, Send
  <2> QED BY <2>1, <2>2, <2>3, <2>4, <2>5 DEF IInv
<1>5. CASE Configure
  <2>1. TypeOK'
    <3>1. toPlugin' \in Seq(Kinds)
      <4>1. toPlugin \in Seq(Kinds) /\ "ConfigureSink" \in Kinds
        BY DEF Kinds
      <4> QED BY <4>1, Frames, <1>5 DEF Configure, Call, Send
    <3> QED BY <3>1, <1>5 DEF Configure, Call, Send
  <2>2. SinkInv'
    BY <1>5 DEF Configure, Call, Send
  <2>3. Talk'
    BY <1>5 DEF Configure, Call, Send
  <2>4. PipeInv'
    BY <1>5 DEF Configure, Call, Send
  <2>5. Done'
    BY <1>5 DEF Configure, Call, Send
  <2> QED BY <2>1, <2>2, <2>3, <2>4, <2>5 DEF IInv
<1>6. CASE Unsent
  BY <1>6 DEF Unsent
<1>7. CASE SendBatch
  <2>1. TypeOK'
    <3>1. toPlugin' \in Seq(Kinds)
      <4>1. toPlugin \in Seq(Kinds) /\ "RecordBatch" \in Kinds
        BY DEF Kinds
      <4> QED BY <4>1, Frames, <1>7 DEF SendBatch, Call, Send
    <3> QED BY <3>1, <1>7 DEF SendBatch, Call, Send
  <2>2. SinkInv'
    BY <1>7 DEF SendBatch, Call, Send
  <2>3. Talk'
    BY <1>7 DEF SendBatch, Call, Send
  <2>4. PipeInv'
    BY <1>7 DEF SendBatch, Call, Send
  <2>5. Done'
    BY <1>7 DEF SendBatch, Call, Send
  <2> QED BY <2>1, <2>2, <2>3, <2>4, <2>5 DEF IInv
<1>8. CASE SendEnds
  BY <1>8 DEF SendEnds
<1>9. CASE Commit
  <2>1. TypeOK'
    <3>1. toPlugin' \in Seq(Kinds)
      <4>1. toPlugin \in Seq(Kinds) /\ "Commit" \in Kinds
        BY DEF Kinds
      <4> QED BY <4>1, Frames, <1>9 DEF Commit, Call, Send
    <3> QED BY <3>1, <1>9 DEF Commit, Call, Send
  <2>2. SinkInv'
    BY <1>9 DEF Commit, Call, Send
  <2>3. Talk'
    BY <1>9 DEF Commit, Call, Send
  <2>4. PipeInv'
    BY <1>9 DEF Commit, Call, Send
  <2>5. Done'
    BY <1>9 DEF Commit, Call, Send
  <2> QED BY <2>1, <2>2, <2>3, <2>4, <2>5 DEF IInv
<1>10. CASE RecvDeclare
  <2>1. TypeOK'
    <3>1. toHost' \in Seq(Kinds)
      BY <1>10, Frames DEF RecvDeclare
    <3> QED BY <1>10, <3>1 DEF RecvDeclare, hostVars
  <2>2. SinkInv'
    BY <1>10 DEF RecvDeclare, hostVars
  <2>3. Talk'
    <3>1. CASE at = "abort"
      BY <1>10, <3>1 DEF RecvDeclare, hostVars
    <3>2. CASE at # "abort"
      <4>1. at = "configure" /\ toHost = <<"DeclareResource", "ConfigureAck">>
        BY <1>10, <3>2 DEF RecvDeclare
      <4>2. toHost' = <<"ConfigureAck">>
        BY <1>10, <4>1 DEF RecvDeclare
      <4>3. /\ toPlugin' = <<>> /\ reply' = <<>> /\ pc' = "stream"
            /\ sink'.written = acked'
        BY <1>10, <4>1 DEF RecvDeclare, hostVars
      <4>4. UNCHANGED <<at, state, stdin, n>>
        BY <1>10 DEF RecvDeclare, hostVars
      <4>5. ConfigureInv' /\ BeginInv'
        <5>1. Answered(<<"ConfigureAck">>)'
          BY <4>2, <4>3
        <5>2. state = "Handshaked" /\ stdin
          BY <4>1
        <5> QED BY <4>1, <4>3, <4>4, <5>1, <5>2
      <4> QED BY <4>1, <4>4, <4>5
    <3> QED BY <3>1, <3>2
  <2>4. PipeInv'
    BY <1>10 DEF RecvDeclare, hostVars
  <2>5. Done'
    BY <1>10 DEF RecvDeclare, hostVars
  <2> QED BY <2>1, <2>2, <2>3, <2>4, <2>5 DEF IInv
<1>11. CASE RecvAnswer
  BY <1>11 DEF RecvAnswer
<1>12. CASE RecvOther
  BY <1>12 DEF RecvOther, TakeOther
<1>13. CASE NoAnswer
  BY <1>13 DEF NoAnswer, GiveUp
<1>14. CASE NotConfigured
  BY <1>14 DEF NotConfigured
<1>15. CASE Abort
  <2>1. TypeOK'
    <3>1. toPlugin' \in Seq(Kinds)
      <4>1. "Abort" \in Kinds
        BY DEF Kinds
      <4>2. toPlugin \in Seq(Kinds)
        OBVIOUS
      <4> QED BY <4>1, <4>2, Frames, <1>15 DEF Abort, Send
    <3> QED BY <3>1, <1>15 DEF Abort, Send
  <2>2. SinkInv'
    BY <1>15 DEF Abort, Send
  <2>3. Talk'
    <3>1. at' = "abort"
      BY <1>15 DEF Abort, Send
    <3>2. stdin' = stdin /\ stdin
      BY <1>15 DEF Abort
    <3> QED BY <3>1, <3>2
  <2>4. PipeInv'
    <3>1. toPlugin' = toPlugin \/ toPlugin' = Append(toPlugin, "Abort")
      BY <1>15 DEF Abort, Send
    <3>2. n' = n /\ sink' = sink
      BY <1>15 DEF Abort
    <3>3. CASE toPlugin' = Append(toPlugin, "Abort")
      <4> SUFFICES ASSUME NEW i \in DOMAIN toPlugin',
                          toPlugin'[i] \in {"RecordBatch", "Commit"}
                   PROVE  i \in DOMAIN toPlugin /\ toPlugin'[i] = toPlugin[i]
        BY <3>2
      <4> QED BY <3>3
    <3> QED BY <3>1, <3>2, <3>3
  <2>5. Done'
    BY <1>15 DEF Abort, Send
  <2> QED BY <2>1, <2>2, <2>3, <2>4, <2>5 DEF IInv
<1>16. CASE AbortEnds
  <2>1. TypeOK'
    <3>1. toHost' \in Seq(Kinds)
      BY <1>16, Frames DEF AbortEnds
    <3>2. at' = "drop" /\ state' = "Aborted" /\ result' = "Err"
      BY <1>16 DEF AbortEnds
    <3> QED BY <1>16, <3>1, <3>2 DEF AbortEnds
  <2>2. SinkInv'
    BY <1>16 DEF AbortEnds
  <2>3. Talk'
    BY <1>16 DEF AbortEnds
  <2>4. PipeInv'
    BY <1>16 DEF AbortEnds
  <2>5. Done'
    BY <1>16 DEF AbortEnds
  <2> QED BY <2>1, <2>2, <2>3, <2>4, <2>5 DEF IInv
<1>17. CASE Shutdown
  <2>1. TypeOK'
    <3>1. toPlugin' \in Seq(Kinds)
      <4>1. toPlugin \in Seq(Kinds) /\ "Shutdown" \in Kinds
        BY DEF Kinds
      <4> QED BY <4>1, Frames, <1>17 DEF Shutdown, Send
    <3> QED BY <3>1, <1>17 DEF Shutdown, Send
  <2>2. SinkInv'
    BY <1>17 DEF Shutdown, Send
  <2>3. Talk'
    BY <1>17 DEF Shutdown, Send
  <2>4. PipeInv'
    BY <1>17 DEF Shutdown, Send
  <2>5. Done'
    BY <1>17 DEF Shutdown, Send
  <2> QED BY <2>1, <2>2, <2>3, <2>4, <2>5 DEF IInv
<1>18. CASE CloseStdin
  <2>1. TypeOK'
    <3>1. /\ at' = "reap" /\ stdin' = FALSE
          /\ UNCHANGED <<n, large, state, acked, result, toPlugin, toHost, child, pc, reply, sink>>
      BY <1>18 DEF CloseStdin
    <3>2. stdin' \in BOOLEAN /\ at' \in Phases \cup {"reap"}
      BY <3>1
    <3> QED BY <3>1, <3>2
  <2>2. SinkInv'
    BY <1>18 DEF CloseStdin
  <2>3. Talk'
    BY <1>18 DEF CloseStdin
  <2>4. PipeInv'
    BY <1>18 DEF CloseStdin
  <2>5. Done'
    BY <1>18 DEF CloseStdin
  <2> QED BY <2>1, <2>2, <2>3, <2>4, <2>5 DEF IInv
<1>19. CASE Reap
  BY <1>19 DEF Reap
<1> QED
  BY <1>1, <1>2, <1>3, <1>4, <1>5, <1>6, <1>7, <1>8, <1>9, <1>10, <1>11,
     <1>12, <1>13, <1>14, <1>15, <1>16, <1>17, <1>18, <1>19 DEF Host

\* A frame that run_io takes leaves a pipe with no batch and no Commit.
LEMMA ReadStep ==
  ASSUME IInv, NEW where, NEW kind, Read(where, kind)
  PROVE  /\ toPlugin' \in Seq(Kinds) /\ toPlugin' = Tail(toPlugin)
         /\ \A i \in DOMAIN toPlugin' : toPlugin'[i] \notin {"RecordBatch", "Commit"}
         /\ kind = "RecordBatch" => sink.written < n
         /\ kind = "Commit" => sink.written = n
         /\ pc = where /\ reply = <<>> /\ toPlugin # <<>> /\ Head(toPlugin) = kind
         /\ UNCHANGED <<hostVars, toHost, child>>
<1>1. toPlugin \in Seq(Kinds) /\ toPlugin # <<>> /\ Head(toPlugin) = kind
  BY DEF Read, IInv, TypeOK
<1>2. toPlugin' = Tail(toPlugin)
  BY DEF Read
<1>3. PipeInv
  BY DEF IInv
<1>4. toPlugin' \in Seq(Kinds)
  BY <1>1, <1>2, Frames
<1>5. \A i \in DOMAIN toPlugin' : /\ i + 1 \in DOMAIN toPlugin /\ i + 1 # 1
                                /\ toPlugin'[i] = toPlugin[i + 1]
  BY <1>1, <1>2
<1>6. \A i \in DOMAIN toPlugin' : toPlugin'[i] \notin {"RecordBatch", "Commit"}
  BY <1>3, <1>5 DEF PipeInv
<1>7. 1 \in DOMAIN toPlugin /\ toPlugin[1] = kind
  BY <1>1
<1> QED BY <1>1, <1>2, <1>3, <1>4, <1>6, <1>7 DEF Read, PipeInv

LEMMA PluginStep == ASSUME IInv, Plugin PROVE IInv'
<1> USE BatchesAssumption, OneFrame, TwoFrames, FirstFrame
    DEF IInv, Talk, Done, TypeOK, States, Phases, Expected, SinkInv, CommitOrAbort, BeginInv, Idle, Asked,
      Answered, CallInv, HandshakeInv, ConfigureInv, BatchInv, CommitInv, PipeInv,
      OkIsCommitted, CommitIsWhole, AckedIsWritten, hostVars, Running
<1>1. CASE Reply
  <2>1. TypeOK'
    BY <1>1 DEF Reply
  <2>2. SinkInv'
    BY <1>1 DEF Reply
  <2>3. Talk'
    <3>1. /\ reply # <<>> /\ toHost' = toHost \o reply /\ reply' = <<>>
          /\ UNCHANGED <<hostVars, toPlugin, pc, sink>>
      BY <1>1 DEF Reply
    <3>2. CASE at \in {"handshake", "configure", "sending", "batch", "commit"}
      <4>1. toHost = <<>>
        BY <3>1, <3>2
      <4>2. toHost' = reply
        BY <3>1, <4>1, NothingAhead
      <4> QED BY <3>1, <3>2, <4>1, <4>2
    <3>3. CASE at \notin {"handshake", "configure", "sending", "batch", "commit"}
      <4>1. at \notin {"begin", "call"}
        BY <3>1
      <4> QED BY <3>1, <3>3, <4>1
    <3> QED BY <3>2, <3>3
  <2>4. PipeInv'
    BY <1>1 DEF Reply
  <2>5. Done'
    BY <1>1 DEF Reply
  <2> QED BY <2>1, <2>2, <2>3, <2>4, <2>5 DEF IInv
<1>2. CASE OnHello
  <2>1. TypeOK'
    <3>1. reply' \in Seq(Kinds)
      <4>1. reply' \in {<<"HelloAck">>, <<"Error">>}
        BY <1>2 DEF OnHello
      <4> QED BY <4>1, ShortFrames DEF Kinds
    <3>2. /\ toPlugin' \in Seq(Kinds) /\ pc' \in {"configure", "stream", "exit"}
          /\ UNCHANGED <<hostVars, toHost, child, sink>>
      BY <1>2, ReadStep DEF OnHello
    <3> QED BY <3>1, <3>2
  <2>2. SinkInv'
    BY <1>2, ReadStep DEF OnHello
  <2>3. Talk'
    <3>1. /\ pc = "hello" /\ reply = <<>> /\ toPlugin # <<>> /\ Head(toPlugin) = "Hello"
          /\ toPlugin' = Tail(toPlugin) /\ UNCHANGED <<hostVars, toHost, child>>
      BY <1>2, ReadStep DEF OnHello
    <3>2. CASE at \in {"handshake"}
      <4>1. toPlugin = <<"Hello">> /\ toHost = <<>>
        BY <3>1, <3>2
      <4>2. toPlugin' = <<>> /\ toHost' = <<>>
        BY <3>1, <4>1
      <4> QED BY <1>2, <3>1, <3>2, <4>1, <4>2 DEF OnHello
    <3>3. CASE at \notin {"handshake"}
      <4>1. at \notin {"begin", "call", "handshake", "configure", "sending", "batch", "commit"}
        BY <3>1, <3>3
      <4> QED BY <3>1, <4>1
    <3> QED BY <3>2, <3>3
  <2>4. PipeInv'
    BY <1>2, ReadStep DEF OnHello
  <2>5. Done'
    BY <1>2, ReadStep DEF OnHello
  <2> QED BY <2>1, <2>2, <2>3, <2>4, <2>5 DEF IInv
<1>3. CASE OnConfigure
  <2>1. TypeOK'
    <3>1. reply' \in Seq(Kinds)
      <4>1. reply' \in {<<"ConfigureAck">>, <<"DeclareResource", "ConfigureAck">>, <<"Rejected">>}
        BY <1>3 DEF OnConfigure
      <4> QED BY <4>1, ShortFrames DEF Kinds
    <3>2. /\ toPlugin' \in Seq(Kinds) /\ pc' \in {"configure", "stream", "exit"}
          /\ UNCHANGED <<hostVars, toHost, child, sink>>
      BY <1>3, ReadStep DEF OnConfigure
    <3> QED BY <3>1, <3>2
  <2>2. SinkInv'
    BY <1>3, ReadStep DEF OnConfigure
  <2>3. Talk'
    <3>1. /\ pc = "configure" /\ reply = <<>> /\ toPlugin # <<>> /\ Head(toPlugin) = "ConfigureSink"
          /\ toPlugin' = Tail(toPlugin) /\ UNCHANGED <<hostVars, toHost, child>>
      BY <1>3, ReadStep DEF OnConfigure
    <3>2. CASE at \in {"configure"}
      <4>1. toPlugin = <<"ConfigureSink">> /\ toHost = <<>>
        BY <3>1, <3>2
      <4>2. toPlugin' = <<>> /\ toHost' = <<>>
        BY <3>1, <4>1
      <4> QED BY <1>3, <3>1, <3>2, <4>1, <4>2 DEF OnConfigure
    <3>3. CASE at \notin {"configure"}
      <4>1. at \notin {"begin", "call", "handshake", "configure", "sending", "batch", "commit"}
        BY <3>1, <3>3
      <4> QED BY <3>1, <4>1
    <3> QED BY <3>2, <3>3
  <2>4. PipeInv'
    BY <1>3, ReadStep DEF OnConfigure
  <2>5. Done'
    BY <1>3, ReadStep DEF OnConfigure
  <2> QED BY <2>1, <2>2, <2>3, <2>4, <2>5 DEF IInv
<1>4. CASE OnBatch
  <2>1. TypeOK'
    <3>1. reply' \in Seq(Kinds)
      <4>1. reply' \in {<<"BatchAck">>, <<"Error">>}
        BY <1>4 DEF OnBatch
      <4> QED BY <4>1, ShortFrames DEF Kinds
    <3>2. sink' \in [written: 0..n', committed: BOOLEAN, aborted: BOOLEAN]
      <4>1. n' = n /\ sink.written < n
        BY <1>4, ReadStep DEF OnBatch
      <4>2. sink' = [sink EXCEPT !.written = @ + 1] \/ sink' = sink
        BY <1>4 DEF OnBatch
      <4> QED BY <4>1, <4>2
    <3> QED BY <1>4, <3>1, <3>2, ReadStep DEF OnBatch
  <2>2. SinkInv'
    BY <1>4, ReadStep DEF OnBatch
  <2>3. Talk'
    <3>1. /\ pc = "stream" /\ reply = <<>> /\ toPlugin # <<>> /\ Head(toPlugin) = "RecordBatch"
          /\ toPlugin' = Tail(toPlugin) /\ UNCHANGED <<hostVars, toHost, child>>
      BY <1>4, ReadStep DEF OnBatch
    <3>2. CASE at \in {"sending", "batch"}
      <4>1. toPlugin = <<"RecordBatch">> /\ toHost = <<>>
        BY <3>1, <3>2
      <4>2. toPlugin' = <<>> /\ toHost' = <<>>
        BY <3>1, <4>1
      <4> QED BY <1>4, <3>1, <3>2, <4>1, <4>2 DEF OnBatch
    <3>3. CASE at \notin {"sending", "batch"}
      <4>1. at \notin {"begin", "call", "handshake", "configure", "sending", "batch", "commit"}
        BY <3>1, <3>3
      <4> QED BY <3>1, <4>1
    <3> QED BY <3>2, <3>3
  <2>4. PipeInv'
    BY <1>4, ReadStep DEF OnBatch
  <2>5. Done'
    <3>1. pc = "stream" /\ UNCHANGED hostVars
      BY <1>4, ReadStep DEF OnBatch
    <3>2. ~sink.committed
      BY <3>1
    <3>3. sink' = [sink EXCEPT !.written = @ + 1] \/ sink' = sink
      BY <1>4 DEF OnBatch
    <3>4. ~sink'.committed /\ sink'.written \in {sink.written, sink.written + 1}
      BY <3>2, <3>3
    <3>5. acked' <= sink'.written
      BY <3>1, <3>4
    <3> QED BY <3>1, <3>2, <3>4, <3>5
  <2> QED BY <2>1, <2>2, <2>3, <2>4, <2>5 DEF IInv
<1>5. CASE OnCommit
  <2>1. TypeOK'
    <3>1. reply' \in Seq(Kinds)
      <4>1. reply' \in {<<"CommitAck">>, <<"Error">>}
        BY <1>5 DEF OnCommit
      <4> QED BY <4>1, ShortFrames DEF Kinds
    <3>2. sink' \in [written: 0..n', committed: BOOLEAN, aborted: BOOLEAN]
      BY <1>5, ReadStep DEF OnCommit
    <3> QED BY <1>5, <3>1, <3>2, ReadStep DEF OnCommit
  <2>2. SinkInv'
    BY <1>5, ReadStep DEF OnCommit
  <2>3. Talk'
    <3>1. /\ pc = "stream" /\ reply = <<>> /\ toPlugin # <<>> /\ Head(toPlugin) = "Commit"
          /\ toPlugin' = Tail(toPlugin) /\ UNCHANGED <<hostVars, toHost, child>>
      BY <1>5, ReadStep DEF OnCommit
    <3>2. CASE at \in {"commit"}
      <4>1. toPlugin = <<"Commit">> /\ toHost = <<>>
        BY <3>1, <3>2
      <4>2. toPlugin' = <<>> /\ toHost' = <<>>
        BY <3>1, <4>1
      <4> QED BY <1>5, <3>1, <3>2, <4>1, <4>2 DEF OnCommit
    <3>3. CASE at \notin {"commit"}
      <4>1. at \notin {"begin", "call", "handshake", "configure", "sending", "batch", "commit"}
        BY <3>1, <3>3
      <4> QED BY <3>1, <4>1
    <3> QED BY <3>2, <3>3
  <2>4. PipeInv'
    BY <1>5, ReadStep DEF OnCommit
  <2>5. Done'
    BY <1>5, ReadStep DEF OnCommit
  <2> QED BY <2>1, <2>2, <2>3, <2>4, <2>5 DEF IInv
<1>6. CASE OnAbort
  <2>1. TypeOK'
    <3>1. reply' \in Seq(Kinds)
      <4>1. reply' \in {<<"AbortAck">>}
        BY <1>6 DEF OnAbort
      <4> QED BY <4>1, ShortFrames DEF Kinds
    <3>2. sink' \in [written: 0..n', committed: BOOLEAN, aborted: BOOLEAN]
      BY <1>6, ReadStep DEF OnAbort
    <3> QED BY <1>6, <3>1, <3>2, ReadStep DEF OnAbort
  <2>2. SinkInv'
    BY <1>6, ReadStep DEF OnAbort
  <2>3. Talk'
    BY <1>6, ReadStep DEF OnAbort
  <2>4. PipeInv'
    BY <1>6, ReadStep DEF OnAbort
  <2>5. Done'
    BY <1>6, ReadStep DEF OnAbort
  <2> QED BY <2>1, <2>2, <2>3, <2>4, <2>5 DEF IInv
<1>7. CASE Drain
  <2>1. TypeOK'
    <3>1. /\ toPlugin' \in Seq(Kinds) /\ pc' \in {"drain", "exit"}
          /\ UNCHANGED <<hostVars, toHost, child, reply, sink>>
      BY <1>7, ReadStep DEF Drain
    <3> QED BY <3>1
  <2>2. SinkInv'
    BY <1>7, ReadStep DEF Drain
  <2>3. Talk'
    BY <1>7, ReadStep DEF Drain
  <2>4. PipeInv'
    BY <1>7, ReadStep DEF Drain
  <2>5. Done'
    BY <1>7, ReadStep DEF Drain
  <2> QED BY <2>1, <2>2, <2>3, <2>4, <2>5 DEF IInv
<1>8. CASE EndOfInput
  <2>1. TypeOK'
    BY <1>8 DEF EndOfInput
  <2>2. SinkInv'
    BY <1>8 DEF EndOfInput
  <2>3. Talk'
    BY <1>8 DEF EndOfInput
  <2>4. PipeInv'
    BY <1>8 DEF EndOfInput
  <2>5. Done'
    BY <1>8 DEF EndOfInput
  <2> QED BY <2>1, <2>2, <2>3, <2>4, <2>5 DEF IInv
<1>9. CASE Exit
  <2>1. TypeOK'
    BY <1>9 DEF Exit
  <2>2. SinkInv'
    BY <1>9 DEF Exit
  <2>3. Talk'
    BY <1>9 DEF Exit
  <2>4. PipeInv'
    BY <1>9 DEF Exit
  <2>5. Done'
    BY <1>9 DEF Exit
  <2> QED BY <2>1, <2>2, <2>3, <2>4, <2>5 DEF IInv
<1>10. CASE Crash
  <2>1. TypeOK'
    BY <1>10 DEF Crash
  <2>2. SinkInv'
    BY <1>10 DEF Crash
  <2>3. Talk'
    BY <1>10 DEF Crash
  <2>4. PipeInv'
    BY <1>10 DEF Crash
  <2>5. Done'
    BY <1>10 DEF Crash
  <2> QED BY <2>1, <2>2, <2>3, <2>4, <2>5 DEF IInv
<1> QED
  BY <1>1, <1>2, <1>3, <1>4, <1>5, <1>6, <1>7, <1>8, <1>9, <1>10 DEF Plugin

LEMMA Inductive == IInv /\ [Next]_vars => IInv'
<1> SUFFICES ASSUME IInv, [Next]_vars PROVE IInv'
  OBVIOUS
<1>1. CASE UNCHANGED vars
  BY <1>1
  DEF vars, hostVars, childVars, IInv, Talk, Done, TypeOK, SinkInv, CommitOrAbort, BeginInv,
      Idle, Asked, Answered, CallInv, HandshakeInv, ConfigureInv, BatchInv, CommitInv,
      PipeInv, OkIsCommitted, CommitIsWhole, AckedIsWritten, Running
<1> QED BY <1>1, HostStep, PluginStep DEF Next

LEMMA Invariant == Spec => []IInv
  BY InitIInv, Inductive, PTL DEF Spec

-----------------------------------------------------------------------------
(* What follows from it.                                                   *)

\* Every reachable state of a write, of any number of batches, has its type;
\* in particular no batch is acknowledged or written twice.
THEOREM SessionTypes == Spec => []TypeOK
<1>1. IInv => TypeOK
  BY DEF IInv
<1> QED BY <1>1, Invariant, PTL

\* A write reported as done is whole and committed, and nothing less than
\* the whole is ever committed: the host's loop, its timeouts and the SDK's
\* phases leave no way around.
THEOREM DoneIsCommitted == Spec => [](OkIsCommitted /\ CommitIsWhole)
<1>1. IInv => OkIsCommitted /\ CommitIsWhole
  BY DEF IInv, Done
<1> QED BY <1>1, Invariant, PTL

\* Whatever the write is reported as, and whenever the host gave up: a plugin
\* that has committed has committed every batch.
THEOREM CommitsAreWhole == Spec => []CommitIsWhole
<1>1. IInv => CommitIsWhole
  BY DEF IInv, Done
<1> QED BY <1>1, Invariant, PTL

\* What send_batch has returned for is in the sink.
THEOREM AcceptedIsWritten == Spec => []AckedIsWritten
<1>1. IInv => AckedIsWritten
  BY DEF IInv, Done
<1> QED BY <1>1, Invariant, PTL

\* A plugin's sink is never both committed and aborted, however late the
\* host's timeouts, the answers and the frames after them come.
THEOREM CommittedOrAborted == Spec => []CommitOrAbort
<1>1. IInv => CommitOrAbort
  BY DEF IInv, SinkInv
<1> QED BY <1>1, Invariant, PTL

\* In an idle conversation nothing is on its way, in an answered one only
\* the answer: a receive never returns what an earlier call was for.
LEMMA OneOnTheWay ==
  /\ Idle => OnTheWay = {}
  /\ \A kind, where : Asked(kind, where) => OnTheWay = {}
  /\ \A kind : Answered(<<kind>>) => \A i, j \in OnTheWay : i = j
  /\ Answered(<<"DeclareResource", "ConfigureAck">>) => \A i, j \in OnTheWay : i = j
<1>1. <<>> \o <<>> = <<>>
  OBVIOUS
<1>2. \A kind : <<>> \o <<kind>> = <<kind>> /\ <<kind>> \o <<>> = <<kind>>
  OBVIOUS
<1>3. \A k, l : <<>> \o <<k, l>> = <<k, l>> /\ <<k, l>> \o <<>> = <<k, l>>
  OBVIOUS
<1>4. \A kind : DOMAIN <<kind>> = {1}
  OBVIOUS
<1>5. \A k, l : DOMAIN <<k, l>> = {1, 2} /\ <<k, l>>[1] = k
  OBVIOUS
<1>6. Idle => OnTheWay = {}
  BY <1>1 DEF Idle, OnTheWay
<1>7. \A kind, where : Asked(kind, where) => OnTheWay = {}
  BY <1>1 DEF Asked, OnTheWay
<1>8. ASSUME NEW kind, Answered(<<kind>>) PROVE \A i, j \in OnTheWay : i = j
  <2>1. toHost \o reply = <<kind>>
    BY <1>2, <1>8 DEF Answered
  <2> QED BY <1>4, <2>1 DEF OnTheWay
<1>9. ASSUME Answered(<<"DeclareResource", "ConfigureAck">>)
      PROVE  \A i, j \in OnTheWay : i = j
  <2>1. toHost \o reply = <<"DeclareResource", "ConfigureAck">>
    BY <1>3, <1>9 DEF Answered
  <2>2. OnTheWay \subseteq {2}
    BY <1>5, <2>1 DEF OnTheWay
  <2> QED BY <2>2
<1> QED BY <1>6, <1>7, <1>8, <1>9

THEOREM AnswersInStep == Spec => []InStep
<1>1. IInv => InStep
  BY OneOnTheWay
  DEF IInv, Talk, CallInv, HandshakeInv, ConfigureInv, BatchInv, CommitInv, InStep,
      Expected
<1> QED BY <1>1, Invariant, PTL

-----------------------------------------------------------------------------
(* The session implements the contract of its sink.                        *)

LEMMA ContractInit == Init => Contract!Init
  BY DEF Init, Contract!Init

\* The node has no answer until the session is being dropped, and a child
\* means that there is something to write.
AnswerInv ==
  /\ at \notin {"drop", "reap", "returned"} => result = "none"
  /\ at \notin {"begin", "returned"} => n > 0
  /\ child # "none" => n > 0

LEMMA AnswerStep == IInv /\ AnswerInv /\ [Next]_vars => AnswerInv'
<1> SUFFICES ASSUME IInv, AnswerInv, [Next]_vars PROVE AnswerInv'
  OBVIOUS
<1>1. CASE Host
  <2> USE DEF AnswerInv, childVars, Phases, Expected
  <2>1. CASE NoData \/ SpawnFails \/ Spawn
    BY <2>1 DEF NoData, SpawnFails, Spawn, IInv, Talk, BeginInv
  <2>2. CASE Handshake \/ Configure \/ SendBatch \/ Commit \/ Unsent \/ SendEnds
    BY <2>2 DEF Handshake, Configure, SendBatch, Commit, Call, Send, Unsent, SendEnds
  <2>3. CASE RecvDeclare \/ RecvAnswer \/ RecvOther \/ NoAnswer
    BY <2>3 DEF RecvDeclare, RecvAnswer, RecvOther, TakeOther, NoAnswer, GiveUp, hostVars
  <2>4. CASE NotConfigured \/ Abort \/ AbortEnds \/ Shutdown
    BY <2>4 DEF NotConfigured, Abort, AbortEnds, Shutdown, Send
  <2>5. CASE CloseStdin \/ Reap
    BY <2>5 DEF CloseStdin, Reap, Running
  <2> QED BY <1>1, <2>1, <2>2, <2>3, <2>4, <2>5 DEF Host
<1>2. CASE Plugin
  <2>1. UNCHANGED hostVars /\ (child' # "none" => child # "none")
    BY <1>2 DEF Plugin, Reply, OnHello, OnConfigure, OnBatch, OnCommit, OnAbort, Drain,
       Read, EndOfInput, Exit, Crash, Running
  <2> QED BY <2>1 DEF AnswerInv, hostVars
<1>3. CASE UNCHANGED vars
  BY <1>3 DEF AnswerInv, vars, hostVars, childVars
<1> QED BY <1>1, <1>2, <1>3 DEF Next

\* On the host's side a step is an answer to the node or a stutter: only
\* Shutdown says Ok of a write, and it follows a CommitAck.
LEMMA HostKeeps ==
  ASSUME IInv, AnswerInv, Host
  PROVE  [Contract!Next]_(Contract!vars)
<1>1. n' = n /\ sink' = sink
  BY DEF Host, NoData, SpawnFails, Spawn, Handshake, Configure, SendBatch, Commit, Call,
     Unsent, SendEnds, RecvDeclare, RecvAnswer, RecvOther, TakeOther, NoAnswer, GiveUp,
     NotConfigured, Abort, AbortEnds, Shutdown, CloseStdin, Reap, hostVars, childVars
<1>2. CASE result' = result
  BY <1>1, <1>2 DEF Contract!vars
<1>3. CASE result' # result
  <2>1. CASE NoData
    <3>1. result = "none" /\ n = 0 /\ result' = "Ok"
      BY <2>1 DEF NoData, AnswerInv
    <3> QED BY <1>1, <3>1 DEF Contract!Next, Contract!Ok
  <2>2. CASE Shutdown
    <3>1. result = "none" /\ sink.committed /\ result' = "Ok"
      BY <2>2 DEF Shutdown, AnswerInv, IInv, Talk, CallInv
    <3> QED BY <1>1, <3>1 DEF Contract!Next, Contract!Ok
  <2>3. CASE SpawnFails \/ NotConfigured \/ AbortEnds
    <3>1. result = "none" /\ n > 0 /\ result' = "Err"
      BY <2>3 DEF SpawnFails, NotConfigured, AbortEnds, AnswerInv
    <3> QED BY <1>1, <3>1 DEF Contract!Next, Contract!Err
  <2>4. NoData \/ Shutdown \/ SpawnFails \/ NotConfigured \/ AbortEnds
    BY <1>3 DEF Host, Spawn, Handshake, Configure, SendBatch, Commit, Call, Unsent,
       SendEnds, RecvDeclare, RecvAnswer, RecvOther, TakeOther, NoAnswer, GiveUp, Abort,
       CloseStdin, Reap, hostVars
  <2> QED BY <2>1, <2>2, <2>3, <2>4
<1> QED BY <1>2, <1>3

\* On the child's side it is what run_io does with the sink.
LEMMA PluginKeeps ==
  ASSUME IInv, AnswerInv, Plugin
  PROVE  [Contract!Next]_(Contract!vars)
<1>1. sink \in [written: 0..n, committed: BOOLEAN, aborted: BOOLEAN] /\ n \in Nat
  BY BatchesAssumption DEF IInv, TypeOK
<1>2. n' = n /\ result' = result
  BY DEF Plugin, Reply, OnHello, OnConfigure, OnBatch, OnCommit, OnAbort, Drain, Read,
     EndOfInput, Exit, Crash, hostVars
<1>3. CASE sink' = sink
  BY <1>2, <1>3 DEF Contract!vars
<1>4. ASSUME Running, pc = "stream" PROVE n > 0 /\ Contract!Open
  BY <1>4 DEF Running, AnswerInv, IInv, SinkInv, Contract!Open
<1>5. CASE OnBatch /\ sink' # sink
  <2>1. sink' = [sink EXCEPT !.written = @ + 1] /\ pc = "stream" /\ Running
    BY <1>5 DEF OnBatch, Read
  <2>2. sink.written < n
    BY <1>5, ReadStep DEF OnBatch
  <2> QED BY <1>1, <1>2, <1>4, <2>1, <2>2 DEF Contract!Next, Contract!Take
<1>6. CASE OnCommit /\ sink' # sink
  <2>1. sink' = [sink EXCEPT !.committed = TRUE] /\ pc = "stream" /\ Running
    BY <1>6 DEF OnCommit, Read
  <2>2. sink.written = n
    BY <1>6, ReadStep DEF OnCommit
  <2> QED BY <1>1, <1>2, <1>4, <2>1, <2>2 DEF Contract!Next, Contract!Commit
<1>7. CASE OnAbort
  <2>1. sink' = [sink EXCEPT !.aborted = TRUE] /\ pc = "stream" /\ Running
    BY <1>7 DEF OnAbort, Read
  <2> QED BY <1>1, <1>2, <1>4, <2>1 DEF Contract!Next, Contract!Abort
<1>8. sink' = sink \/ OnBatch \/ OnCommit \/ OnAbort
  BY DEF Plugin, Reply, OnHello, OnConfigure, Drain, EndOfInput, Exit, Crash
<1> QED BY <1>3, <1>5, <1>6, <1>7, <1>8

\* PluginSink, PluginSession and run_io together implement SinkContract: each
\* step of the conversation, of a timeout, a crash or a late frame is a batch
\* taken in turn, one commit of the whole, one abort, one answer, or nothing
\* that the node or the sink can tell.
THEOREM SessionKeepsContract == Spec => KeepsContract
<1>1. Init => AnswerInv
  BY DEF Init, AnswerInv
<1>2. Spec => []AnswerInv
  BY <1>1, Invariant, AnswerStep, PTL DEF Spec
<1>3. ASSUME IInv, AnswerInv, [Next]_vars PROVE [Contract!Next]_(Contract!vars)
  <2>1. CASE UNCHANGED vars
    BY <2>1 DEF vars, hostVars, childVars, Contract!vars
  <2> QED BY <1>3, <2>1, HostKeeps, PluginKeeps DEF Next
<1> QED
  BY ContractInit, Invariant, <1>2, <1>3, PTL DEF Spec, KeepsContract, Contract!Spec
=============================================================================
