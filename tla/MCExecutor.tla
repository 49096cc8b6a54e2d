----------------------------- MODULE MCExecutor ----------------------------
(* Instances of Executor for TLC. *)
EXTENDS Executor, TLC

\* Two incremental sinks share a source.
SharedFrom == [t \in {"t1", "t2"} |-> {"a"}]
SharedRows == [x \in {"a1", "a2"} |-> "a"]
SharedBack == [t1 |-> 1, t2 |-> 1]

\* A full sink and an incremental one on the same source.
MixedFrom == [t \in {"t1", "full"} |-> {"a"}]
MixedRows == [x \in {"a1"} |-> "a"]
MixedBack == [t1 |-> 0]

Symmetry == Permutations(Runs)

\* Strings in the order of the values they stand for, as timestamps are.
InOrder == [m \in 1..MaxMark |-> m]
=============================================================================
