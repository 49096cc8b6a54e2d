----------------------------- MODULE MCBackfill -----------------------------
(* Instances of Backfill for TLC. *)
EXTENDS Backfill, TLC

\* Two iterations with distinct keys.
TwoKeys == [i \in Iters |-> i]

\* A List range that repeats a value: the last iteration has the first one's key.
RepeatedKey == [i \in Iters |-> IF i = N - 1 THEN 0 ELSE i]

KeySet == 0 .. N

CoordSymmetry == Permutations(Coords)
=============================================================================
