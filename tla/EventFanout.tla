----------------------------- MODULE EventFanout ----------------------------
(***************************************************************************)
(* The execution events of a server: runs emit them, one bounded broadcast *)
(* channel carries them, and a WebSocket client with a filter, the         *)
(* listener that tells the scheduler of completed runs, and the tray read  *)
(* it at their own pace.  A reader the channel has run away from skips to  *)
(* the oldest event still there.                                           *)
(***************************************************************************)
EXTENDS Absent, Integers, Sequences, FiniteSets, SequencesExt

CONSTANTS
  FanRuns,
  Asked,        \* the sets of runs a client may subscribe to
  Capacity,     \* EVENT_CHANNEL_CAPACITY
  MaxRecent     \* entries of the tray's submenu

ASSUME FanoutAssumption ==
  None \notin FanRuns /\ Capacity \in Nat /\ MaxRecent \in Nat

VARIABLES
  events,       \* everything sent
  runAt,        \* run -> new, running, ended, or silent: it ended without a word
  ranAway,      \* readers that ever lagged
  at,           \* reader -> events it has read or skipped
  filter,       \* the client's subscription, or None
  narrowed,     \* the event after which the filter last changed
  wsGot,        \* events the client was sent
  notified,     \* runs the scheduler was told of
  trayIcon, trayRecent

fanVars == <<events, runAt, ranAway, at, filter, narrowed, wsGot, notified, trayIcon, trayRecent>>

Readers == {"ws", "completion", "tray"}

Ev(type, run) == [type |-> type, run |-> run]

Send(e) == events' = Append(events, e)

-----------------------------------------------------------------------------
(* The executor: RunStarted, node events, and RunCompleted for a run that    *)
(* succeeds, fails or is cancelled.  A node whose secret does not resolve,  *)
(* or a handler that is dropped, ends the run without one.                 *)
RunStarts(r) ==
  /\ runAt[r] = "new"
  /\ runAt' = [runAt EXCEPT ![r] = "running"]
  /\ Send(Ev("started", r))
  /\ UNCHANGED <<ranAway, at, filter, narrowed, wsGot, notified, trayIcon, trayRecent>>

NodeFails(r) ==
  /\ runAt[r] = "running"
  /\ runAt' = [runAt EXCEPT ![r] = "failing"]
  /\ Send(Ev("node_failed", r))
  /\ UNCHANGED <<ranAway, at, filter, narrowed, wsGot, notified, trayIcon, trayRecent>>

RunEnds(r) ==
  /\ runAt[r] \in {"running", "failing"}
  /\ \/ runAt[r] = "failing" /\ Send(Ev("failed", r)) /\ runAt' = [runAt EXCEPT ![r] = "ended"]
     \/ runAt[r] = "running" /\ Send(Ev("success", r)) /\ runAt' = [runAt EXCEPT ![r] = "ended"]
     \/ runAt' = [runAt EXCEPT ![r] = "silent"] /\ UNCHANGED events
  /\ UNCHANGED <<ranAway, at, filter, narrowed, wsGot, notified, trayIcon, trayRecent>>

(* Backfill and trigger events belong to no run.                           *)
Unscoped ==
  /\ \A i \in DOMAIN events : events[i].run # None
  /\ Send(Ev("backfill", None))
  /\ UNCHANGED <<runAt, ranAway, at, filter, narrowed, wsGot, notified, trayIcon, trayRecent>>

-----------------------------------------------------------------------------
(* broadcast::Receiver::recv: the next event, or Lagged.                   *)
Behind(x) == Len(events) - at[x]

Lag(x) ==
  /\ Behind(x) > Capacity
  /\ at' = [at EXCEPT ![x] = Len(events) - Capacity]
  /\ ranAway' = ranAway \cup {x}
  /\ UNCHANGED <<events, runAt, filter, narrowed, wsGot, notified, trayIcon, trayRecent>>

Recv(x) ==
  /\ Behind(x) \in 1..Capacity
  /\ at' = [at EXCEPT ![x] = @ + 1]
  /\ UNCHANGED <<events, runAt, ranAway, filter, narrowed>>

Received(x) == events[at[x] + 1]

(* event_matches_filter *)
MatchesFilterMutant(e) == e.run # None /\ e.run \in filter

MatchesFilter(e) == e.run = None \/ e.run \in filter

(* handle_socket forwards what passes.                                     *)
Forward ==
  /\ Recv("ws")
  /\ wsGot' = IF filter # None /\ ~MatchesFilter(Received("ws")) THEN wsGot
              ELSE Append(wsGot, at["ws"] + 1)
  /\ UNCHANGED <<notified, trayIcon, trayRecent>>

(* Subscribe replaces the filter, Unsubscribe clears it.                   *)
Subscribe ==
  /\ \E ids \in Asked \cup {None} : ids # filter /\ filter' = ids
  /\ narrowed' = Len(events)
  /\ Len(events) > narrowed
  /\ UNCHANGED <<events, runAt, ranAway, at, wsGot, notified, trayIcon, trayRecent>>

(* The completion listener: it looks the run up (which may fail) and        *)
(* notifies the scheduler.                                                 *)
Notify ==
  /\ Recv("completion")
  /\ notified' = IF Received("completion").type \in {"success", "failed"}
                 THEN Append(notified, Received("completion").run) ELSE notified
  /\ UNCHANGED <<wsGot, trayIcon, trayRecent>>

(* handle_execution_event of the tray: icon and recent runs.               *)
IconMutant(e) ==
  CASE e.type = "started" -> "running"
    [] e.type = "success" -> "idle"
    [] e.type = "node_failed" -> "error"
    [] OTHER -> trayIcon                        \* a failed run leaves the icon

Icon(e) ==
  CASE e.type = "started" -> "running"
    [] e.type = "success" -> "idle"
    [] e.type \in {"failed", "node_failed"} -> "error"
    [] OTHER -> trayIcon

RecentMutant(e) ==
  IF e.type \in {"success", "failed"}
  THEN SubSeq(Append(trayRecent, e.run), 1, MaxRecent) ELSE trayRecent    \* pushed at the end

Recent(e) ==
  IF e.type \in {"success", "failed"}
  THEN LET all == <<e.run>> \o trayRecent
       IN IF Len(all) > MaxRecent THEN SubSeq(all, 1, MaxRecent) ELSE all
  ELSE trayRecent

TrayShows ==
  /\ Recv("tray")
  /\ trayIcon' = Icon(Received("tray"))
  /\ trayRecent' = Recent(Received("tray"))
  /\ UNCHANGED <<wsGot, notified>>

-----------------------------------------------------------------------------
FanInit ==
  /\ events = <<>>
  /\ runAt = [r \in FanRuns |-> "new"]
  /\ ranAway = {}
  /\ at = [x \in Readers |-> 0]
  /\ filter = None /\ narrowed = 0 /\ wsGot = <<>> /\ notified = <<>>
  /\ trayIcon = "idle" /\ trayRecent = <<>>

Emit == (\E r \in FanRuns : RunStarts(r) \/ NodeFails(r) \/ RunEnds(r)) \/ Unscoped

Client == Emit \/ Lag("ws") \/ Forward \/ Subscribe

Listener == Emit \/ Lag("completion") \/ Notify

Tray == Emit \/ Lag("tray") \/ TrayShows

FanSpec == FanInit /\ [][Client \/ Listener \/ Tray]_fanVars

-----------------------------------------------------------------------------
IsCompletion(e) == e.type \in {"success", "failed"}

\* Where the events from m to n say that a run has completed.
Completed(m, n) == {i \in m..n : IsCompletion(events[i])}

(* A completed run reaches the scheduler once and in order, and only a       *)
(* listener that lagged misses one: its k-th notification is the k-th      *)
(* completion.                                                             *)
CompletionsReachScheduler ==
  /\ IsInjective(notified)
  /\ "completion" \notin ranAway =>
       /\ Len(notified) = Cardinality(Completed(1, at["completion"]))
       /\ \A i \in Completed(1, at["completion"]) :
            notified[Cardinality(Completed(1, i))] = events[i].run

(* A client gets events in order and none twice; one that keeps up gets all   *)
(* that belong to no run and, since it last changed its subscription, those *)
(* of the runs it asked for.                                               *)
SubscribersAreServed ==
  /\ \A i, j \in DOMAIN wsGot : i < j => wsGot[i] < wsGot[j]
  /\ "ws" \notin ranAway => \A i \in 1..at["ws"] :
       /\ events[i].run = None => i \in ToSet(wsGot)
       /\ i > narrowed /\ filter # None /\ events[i].run \in filter => i \in ToSet(wsGot)
       /\ i > narrowed /\ filter # None /\ i \in ToSet(wsGot) => events[i].run \in filter \cup {None}

(* A tray that keeps up lists the latest completed runs, newest first, and    *)
(* once every run has said how it ended it shows how the last one did.     *)
TrayIsCurrent ==
  "tray" \notin ranAway =>
    LET done == Completed(1, at["tray"])
        Place(i) == Cardinality(Completed(i, at["tray"])) IN
    /\ Len(trayRecent) = IF Cardinality(done) < MaxRecent THEN Cardinality(done) ELSE MaxRecent
    /\ \A i \in done : Place(i) <= MaxRecent => trayRecent[Place(i)] = events[i].run
    /\ Behind("tray") = 0 /\ (\A r \in FanRuns : runAt[r] \in {"new", "ended"}) =>
         \A i \in done : Place(i) = 1 =>
           trayIcon = IF events[i].type = "success" THEN "idle" ELSE "error"

(* Each reader of the channel gets what it is there for.                   *)
EventsArrive == SubscribersAreServed /\ CompletionsReachScheduler /\ TrayIsCurrent
=============================================================================
