------------------------------ MODULE Instances -----------------------------
(***************************************************************************)
(* The servers a machine runs and the lockfile that names the running one: *)
(* launch, shutdown and its guard, kill, and the stop and status commands. *)
(* The operating system hands out process ids again, also to other         *)
(* programs, and a port to one listener at a time.                         *)
(***************************************************************************)
EXTENDS Absent, Integers, FiniteSets

CONSTANTS
  Pids, Ports,
  MaxEvents,    \* bound: launches, commands and signals
  CutShort      \* a lockfile whose write was cut short

\* No value stands for two things.
ASSUME InstancesAssumption ==
  /\ None \notin Pids /\ None # CutShort
  /\ {None, CutShort} \cap [pid : Pids, port : Ports] = {}
  /\ None \notin [kind : {"stop", "status"}, verdict : {"running", "stale"}, pid : Pids]

ASSUME PortsAssumption == Ports \subseteq Nat

VARIABLES
  lockfile,     \* None, CutShort or [pid, port]
  proc,         \* pid -> what runs under it
  command,      \* the stop or status command in progress
  doomed,       \* the server stop has signalled, while it shuts down
  raced,        \* two steps on the lockfile overlapped
  instEvents

instVars == <<lockfile, proc, command, doomed, raced, instEvents>>

Off == [at |-> "off"]
Foreign == [at |-> "foreign"]

Server(at, port) == [at |-> at, port |-> port]

IsPidAlive(pid) == proc[pid] # Off

Listening == {p \in Pids : proc[p].at \in {"bound", "writing", "serving", "closing"}}

PortsTaken == {proc[p].port : p \in Listening}

(* Who has looked at the lockfile and is about to change it; None stands    *)
(* for the command.                                                        *)
Pending ==
  {p \in Pids : proc[p].at \in {"cleaning", "clear", "bound", "writing"}} \cup
  {None : c \in {command} \ {None}} \cup
  ({doomed} \ {None})

Observe(who) == raced' = (raced \/ Pending \ {who} # {})

Event == instEvents < MaxEvents /\ instEvents' = instEvents + 1

Become(p, what) == proc' = [proc EXCEPT ![p] = what]

-----------------------------------------------------------------------------
(* check_existing: a live pid means an instance, a dead one a stale file,  *)
(* which is removed in a second step.                                      *)
Verdict ==
  CASE lockfile = None -> "none"
    [] lockfile = CutShort -> "error"
    [] OTHER -> IF IsPidAlive(lockfile.pid) THEN "running" ELSE "stale"

(* serve: a launch that finds an instance, or a file it cannot parse, exits. *)
LaunchMutant(p) ==
  /\ proc[p] = Off
  /\ Event
  /\ Observe(p)
  /\ CASE Verdict = "none" -> Become(p, Server("clear", None)) /\ UNCHANGED lockfile
       [] Verdict = "stale" -> Become(p, Server("cleaning", None)) /\ UNCHANGED lockfile
       [] OTHER -> lockfile' = None /\ UNCHANGED proc           \* guard made before the check
  /\ UNCHANGED <<command, doomed>>

Launch(p) ==
  /\ proc[p] = Off
  /\ Event
  /\ Observe(p)
  /\ CASE Verdict = "none" -> Become(p, Server("clear", None))
       [] Verdict = "stale" -> Become(p, Server("cleaning", None))
       [] OTHER -> UNCHANGED proc
  /\ UNCHANGED <<lockfile, command, doomed>>

Clean(p) ==
  /\ proc[p].at = "cleaning"
  /\ lockfile' = None
  /\ Become(p, Server("clear", None))
  /\ UNCHANGED <<command, doomed, raced, instEvents>>

(* find_and_bind: the first free port of the range, or an error.           *)
Bind(p) ==
  /\ proc[p].at = "clear"
  /\ LET free == Ports \ PortsTaken IN
     Become(p, IF free = {} THEN Off
               ELSE Server("bound", CHOOSE n \in free : \A m \in free : n <= m))
  /\ UNCHANGED <<lockfile, command, doomed, raced, instEvents>>

(* lockfile::write truncates, then writes; then the guard is made.         *)
Truncate(p) ==
  /\ proc[p].at = "bound"
  /\ lockfile' = CutShort
  /\ Become(p, Server("writing", proc[p].port))
  /\ UNCHANGED <<command, doomed, raced, instEvents>>

WriteLock(p) ==
  /\ proc[p].at = "writing"
  /\ lockfile' = [pid |-> p, port |-> proc[p].port]
  /\ Become(p, Server("serving", proc[p].port))
  /\ UNCHANGED <<command, doomed, raced, instEvents>>

(* SIGINT, SIGTERM or the tray's menu: requests under way are finished.    *)
SignalServer(p) ==
  /\ proc[p].at = "serving"
  /\ Event
  /\ Become(p, Server("closing", proc[p].port))
  /\ UNCHANGED <<lockfile, command, doomed, raced>>

(* The guard is dropped: it removes the lockfile, whosever it is.          *)
Exit(p) ==
  /\ proc[p].at = "closing"
  /\ lockfile' = None
  /\ Become(p, Off)
  /\ doomed' = IF doomed = p THEN None ELSE doomed
  /\ UNCHANGED <<command, raced, instEvents>>

Kill(p) ==
  /\ proc[p] \notin {Off, Foreign}
  /\ Event
  /\ Become(p, Off)
  /\ doomed' = IF doomed = p THEN None ELSE doomed
  /\ UNCHANGED <<lockfile, command, raced>>

(* Another program gets the pid of a dead server, or ends.                 *)
Reuse(p) ==
  /\ Event
  /\ \/ proc[p] = Off /\ Become(p, Foreign)
     \/ proc[p] = Foreign /\ Become(p, Off)
  /\ UNCHANGED <<lockfile, command, doomed, raced>>

-----------------------------------------------------------------------------
(* armillary server stop and status start with check_existing.             *)
Check(kind) ==
  /\ command = None
  /\ Event
  /\ Observe(None)
  /\ Verdict \in {"running", "stale"}
  /\ command' = [kind |-> kind, verdict |-> Verdict, pid |-> lockfile.pid]
  /\ UNCHANGED <<lockfile, proc, doomed>>

(* A stale file is removed; stop signals the process and removes the file   *)
(* itself, while the server may still be finishing requests.               *)
FinishCheck ==
  /\ command # None
  /\ IF command.verdict = "stale"
     THEN lockfile' = None /\ command' = None /\ UNCHANGED <<proc, doomed>>
     ELSE IF command.kind = "status"
     THEN command' = None /\ UNCHANGED <<lockfile, proc, doomed>>
     ELSE /\ IsPidAlive(command.pid)
          /\ IF proc[command.pid].at = "serving"
             THEN Become(command.pid, Server("closing", proc[command.pid].port))
             ELSE IF proc[command.pid].at = "closing" THEN UNCHANGED proc
             ELSE Become(command.pid, Off)
          /\ doomed' = IF proc[command.pid].at \in {"serving", "closing"} THEN command.pid ELSE doomed
          /\ command' = [command EXCEPT !.verdict = "stale"]
          /\ UNCHANGED lockfile
  /\ UNCHANGED <<raced, instEvents>>

(* The process is gone before stop can signal it: stop fails.              *)
StopFails ==
  /\ command # None
  /\ command.kind = "stop" /\ command.verdict = "running" /\ ~IsPidAlive(command.pid)
  /\ command' = None
  /\ UNCHANGED <<lockfile, proc, doomed, raced, instEvents>>

-----------------------------------------------------------------------------
InstInit ==
  /\ lockfile = None
  /\ proc = [p \in Pids |-> Off]
  /\ command = None /\ doomed = None /\ raced = FALSE /\ instEvents = 0

InstNext ==
  \/ \E p \in Pids :
       \/ Launch(p) \/ Clean(p) \/ Bind(p) \/ Truncate(p) \/ WriteLock(p)
       \/ SignalServer(p) \/ Exit(p) \/ Kill(p) \/ Reuse(p)
  \/ \E kind \in {"stop", "status"} : Check(kind)
  \/ FinishCheck \/ StopFails

InstSpec == InstInit /\ [][InstNext]_instVars

-----------------------------------------------------------------------------
(* Whatever is killed, signalled or recycled, as long as no launch, stop or  *)
(* status looked at the lockfile while another was between its look and    *)
(* its change (or a stopped server had not exited yet), the machine serves *)
(* one instance at most and the lockfile leads to it.                      *)
OneInstance ==
  ~raced => \A p \in Pids : proc[p].at \in {"serving", "closing"} =>
    /\ \A q \in Listening : q = p
    /\ command = None /\ doomed = None => lockfile = [pid |-> p, port |-> proc[p].port]
=============================================================================
