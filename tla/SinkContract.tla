---------------------------- MODULE SinkContract ----------------------------
(***************************************************************************)
(* What PipelineSink::write and the SDK's Sink trait promise about one     *)
(* write, without processes, frames, phases or timeouts: a sink takes the  *)
(* batches one after the other, is then committed as a whole or aborted,   *)
(* for good, and the node that writes gets one answer.  An answer of Err   *)
(* says nothing of the sink: the work may still go on, or have been        *)
(* committed with the answer lost.  PluginSession implements this module.  *)
(***************************************************************************)
EXTENDS Naturals

CONSTANT MaxBatches     \* bound: record batches of one write

VARIABLES
  n,          \* batches the node has to write
  written,    \* batches the sink has taken
  committed, aborted,
  result      \* the answer to the node

vars == <<n, written, committed, aborted, result>>

Init ==
  /\ n \in 0..MaxBatches
  /\ written = 0 /\ ~committed /\ ~aborted
  /\ result = "none"

Open == ~committed /\ ~aborted

Take ==
  /\ Open /\ written < n
  /\ written' = written + 1
  /\ UNCHANGED <<n, committed, aborted, result>>

Commit ==
  /\ Open /\ n > 0 /\ written = n
  /\ committed' = TRUE
  /\ UNCHANGED <<n, written, aborted, result>>

Abort ==
  /\ Open /\ n > 0
  /\ aborted' = TRUE
  /\ UNCHANGED <<n, written, committed, result>>

\* No batches, no sink.
Ok ==
  /\ result = "none"
  /\ n = 0 \/ committed
  /\ result' = "Ok"
  /\ UNCHANGED <<n, written, committed, aborted>>

Err ==
  /\ result = "none" /\ n > 0
  /\ result' = "Err"
  /\ UNCHANGED <<n, written, committed, aborted>>

Next == Take \/ Commit \/ Abort \/ Ok \/ Err

Spec == Init /\ [][Next]_vars
=============================================================================
