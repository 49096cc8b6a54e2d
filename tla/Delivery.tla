----------------------------- MODULE Delivery ------------------------------
(***************************************************************************)
(* What incremental materialization promises, without runs, plans or       *)
(* filters: a sink has a stored mark, and the mark only ever says what the *)
(* sink has really been given (at-least-once).                             *)
(*                                                                         *)
(* Rows of the sources are versioned by their watermark column; version 0  *)
(* means that the row does not exist.  Executor implements this module.    *)
(***************************************************************************)
EXTENDS Integers

CONSTANTS
  Rows,      \* rows of all sources, by key
  Sinks,     \* incremental sinks
  Feed,      \* Feed[t]: the rows sink t is fed with
  Lookback,  \* Lookback[t]: how far a read reaches back behind the mark
  Late,      \* how much older than the newest row a row may arrive
  MaxMark    \* bound: watermark values

VARIABLES
  version,  \* the watermark of each row in its source, 0 if there is none
  seen,     \* seen[t][x]: the newest version of x that sink t was ever given
  mark      \* incremental_state: the stored watermark of each sink, 0 if none

vars == <<version, seen, mark>>

Marks == 0..MaxMark

TypeOK ==
  /\ version \in [Rows -> Marks]
  /\ seen \in [Sinks -> [Rows -> Marks]]
  /\ mark \in [Sinks -> Marks]

Init ==
  /\ version = [x \in Rows |-> 0]
  /\ seen = [t \in Sinks |-> [x \in Rows |-> 0]]
  /\ mark = [t \in Sinks |-> 0]

(* Nothing that sink t still lacks lies behind m by more than the lookback. *)
Covered(t, m) ==
  \A x \in Feed[t] : version[x] > seen[t][x] => version[x] > m - Lookback[t]

(* A row appears, or is updated: less than Late behind the newest row, or   *)
(* after it when Late is 0.                                                 *)
Arrive(x, m) ==
  /\ m > version[x]
  /\ \A y \in Rows : m > version[y] - Late
  /\ version' = [version EXCEPT ![x] = m]
  /\ UNCHANGED <<seen, mark>>

(* A sink is given some versions, up to the present ones. *)
Deliver(t) ==
  \E new \in [Rows -> Marks] :
    /\ \A x \in Rows : seen[t][x] <= new[x]
    /\ \A x \in Feed[t] : new[x] > seen[t][x] => new[x] <= version[x]
    /\ seen' = [seen EXCEPT ![t] = new]
    /\ UNCHANGED <<version, mark>>

(* The mark moves, forwards or (after a reset, an older run) backwards, to  *)
(* a value that is covered and not ahead of the sources.                    *)
Move(t, m) ==
  /\ Covered(t, m)
  /\ m = 0 \/ \E x \in Rows : m <= version[x]
  /\ mark' = [mark EXCEPT ![t] = m]
  /\ UNCHANGED <<version, seen>>

Next ==
  \/ \E x \in Rows, m \in Marks : Arrive(x, m)
  \/ \E t \in Sinks : Deliver(t)
  \/ \E t \in Sinks, m \in Marks : Move(t, m)

Spec == Init /\ [][Next]_vars

(* What at-least-once means for the next run: whatever a sink lacks, the    *)
(* filter of the next read (strictly after mark - lookback) lets through.   *)
NothingLeftBehind == \A t \in Sinks : Covered(t, mark[t])
============================================================================
