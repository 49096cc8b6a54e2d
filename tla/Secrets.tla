------------------------------- MODULE Secrets ------------------------------
(***************************************************************************)
(* The encrypted secret store, the server's session over it with its       *)
(* auto-lock and its limit on unlock attempts, the commands that open the  *)
(* same file beside the server, and the resolution of references while a   *)
(* run executes.  A key is the salt and the password it was derived from;  *)
(* decryption with another key fails.                                      *)
(***************************************************************************)
EXTENDS Absent, Integers, Sequences, SequencesExt

CONSTANTS
  SecretNames, Scopes,   \* "" is the unscoped value
  SecretTexts,           \* secret values: sequences over Letters
  Letters,
  Passwords,
  Configs,               \* a run's nodes: sequences of tokens, a name is a reference to it
  AutoLock, AttemptWindow, MaxAttempts,
  MaxNow, MaxSecretWrites     \* bounds: time and requests

VARIABLES
  vault,       \* the file: salt, verification token, rows
  initOp,      \* process -> the initialisation it is in the middle of
  secSession,  \* the server's open store: key and last activity, or None
  attempts,    \* unlock_attempts
  secNow,
  secWrites,
  tested,      \* times at which this server tested a password
  granted,     \* until when the store may be used: what callers are promised
  overused,    \* the store was used after that
  secRun,      \* the run in progress
  reported     \* the error message the run reported

secVars == <<vault, initOp, secSession, attempts, secNow, secWrites, tested, granted, overused,
             secRun, reported>>

Procs == {"api", "cli"}

ASSUME SecretsAssumption ==
  /\ AutoLock \in Nat /\ AttemptWindow \in Nat /\ MaxAttempts \in Nat
  /\ None \notin Procs /\ None \notin [salt : Procs, pw : Passwords]

Key(pw) == [salt |-> vault.salt, pw |-> pw]

(* SecretStore::open *)
Opens(pw) == vault.check # None /\ Key(pw) = vault.check

IsInitialized == vault.salt # None

ApiFree == initOp["api"] = None      \* the session's mutex

Request == secWrites < MaxSecretWrites /\ secWrites' = secWrites + 1

-----------------------------------------------------------------------------
(* SecretStore::init: the check, then two statements.                      *)
BeginInit(p, pw) ==
  /\ initOp[p] = None
  /\ ~IsInitialized
  /\ Request
  /\ initOp' = [initOp EXCEPT ![p] = [pw |-> pw, at |-> "salt"]]
  /\ UNCHANGED <<vault, secSession, attempts, secNow, tested, granted, overused, secRun, reported>>

InsertSaltMutant(p) ==
  /\ initOp[p] # None /\ initOp[p].at = "salt"
  /\ vault' = [vault EXCEPT !.salt = p]                     \* INSERT OR REPLACE
  /\ initOp' = [initOp EXCEPT ![p].at = "check"]
  /\ UNCHANGED <<secSession, attempts, secNow, secWrites, tested, granted, overused, secRun, reported>>

InsertSalt(p) ==
  /\ initOp[p] # None /\ initOp[p].at = "salt"
  /\ IF IsInitialized
     THEN vault' = vault /\ initOp' = [initOp EXCEPT ![p] = None]
     ELSE vault' = [vault EXCEPT !.salt = p] /\ initOp' = [initOp EXCEPT ![p].at = "check"]
  /\ UNCHANGED <<secSession, attempts, secNow, secWrites, tested, granted, overused, secRun, reported>>

InsertCheck(p) ==
  /\ initOp[p] # None /\ initOp[p].at = "check"
  /\ LET key == [salt |-> p, pw |-> initOp[p].pw] IN
     /\ vault' = IF vault.check = None THEN [vault EXCEPT !.check = key] ELSE vault
     /\ IF p = "api" /\ vault.check = None
        THEN secSession' = [key |-> key, last |-> secNow] /\ granted' = secNow + AutoLock
        ELSE UNCHANGED <<secSession, granted>>
  /\ initOp' = [initOp EXCEPT ![p] = None]
  /\ UNCHANGED <<attempts, secNow, secWrites, tested, overused, secRun, reported>>

(* A process dies, between the two statements too.  The server comes up      *)
(* again with the password of its environment, or locked.                  *)
Restart ==
  /\ Request
  /\ \E p \in Procs : initOp' = [initOp EXCEPT ![p] = None] /\
       IF p = "cli" THEN initOp[p] # None /\ UNCHANGED <<secSession, attempts, tested, granted, secRun>>
       ELSE /\ \E pw \in Passwords \cup {None} :
                 LET open == pw # None /\ Opens(pw) IN
                 /\ secSession' = IF open THEN [key |-> Key(pw), last |-> secNow] ELSE None
                 /\ granted' = IF open THEN secNow + AutoLock ELSE 0
            /\ attempts' = <<>> /\ tested' = <<>> /\ secRun' = None
  /\ UNCHANGED <<vault, secNow, overused, reported>>

-----------------------------------------------------------------------------
(* check_rate_limit: what is old goes from the front, then compare.        *)
PrunedMutant(queue) == IF Len(queue) < MaxAttempts THEN queue ELSE Tail(queue)    \* makes room

IsFresh(t) == secNow - t < AttemptWindow

Pruned(queue) ==
  LET first == CHOOSE k \in 1..(Len(queue) + 1) :
        /\ \A i \in 1..(k - 1) : ~IsFresh(queue[i])
        /\ k <= Len(queue) => IsFresh(queue[k])
  IN SubSeq(queue, first, Len(queue))

Unlock(pw) ==
  /\ ApiFree /\ IsInitialized
  /\ Request
  /\ IF Len(Pruned(attempts)) >= MaxAttempts
     THEN attempts' = Pruned(attempts) /\ UNCHANGED <<secSession, tested, granted>>
     ELSE /\ attempts' = Append(Pruned(attempts), secNow)
          /\ tested' = Append(tested, secNow)
          /\ IF Opens(pw)
             THEN secSession' = [key |-> Key(pw), last |-> secNow] /\ granted' = secNow + AutoLock
             ELSE UNCHANGED <<secSession, granted>>
  /\ UNCHANGED <<vault, initOp, secNow, overused, secRun, reported>>

Lock ==
  /\ ApiFree
  /\ Request
  /\ secSession' = None /\ granted' = 0
  /\ UNCHANGED <<vault, initOp, attempts, secNow, tested, overused, secRun, reported>>

IsUnlocked == secSession # None /\ secNow - secSession.last < AutoLock

(* get_store: refreshes the timer, or forgets a store that timed out.      *)
GetStoreMutant ==
  /\ ApiFree
  /\ secSession' = IF secSession # None THEN [secSession EXCEPT !.last = secNow] ELSE None
  /\ IF secSession # None
     THEN granted' = secNow + AutoLock /\ overused' = (overused \/ secNow >= granted)
     ELSE UNCHANGED <<granted, overused>>

GetStore ==
  /\ ApiFree
  /\ secSession' = IF IsUnlocked THEN [secSession EXCEPT !.last = secNow] ELSE None
  /\ IF IsUnlocked
     THEN granted' = secNow + AutoLock /\ overused' = (overused \/ secNow >= granted)
     ELSE UNCHANGED <<granted, overused>>

Stored(key, value) == [key |-> key, value |-> value]

(* set and delete through the API, or by a command that asks for the password. *)
WriteRow(entry) ==
  \E n \in SecretNames, s \in Scopes : vault' = [vault EXCEPT !.rows[<<n, s>>] = entry]

ApiWrite ==
  /\ Request
  /\ GetStore
  /\ IF IsUnlocked
     THEN \E v \in SecretTexts \cup {None} :
            WriteRow(IF v = None THEN None ELSE Stored(secSession.key, v))
     ELSE vault' = vault
  /\ UNCHANGED <<initOp, attempts, secNow, tested, secRun, reported>>

CliWrite ==
  /\ Request
  /\ \E pw \in Passwords :
       /\ Opens(pw)
       /\ \E v \in SecretTexts \cup {None} : WriteRow(IF v = None THEN None ELSE Stored(Key(pw), v))
  /\ UNCHANGED <<initOp, secSession, attempts, secNow, tested, granted, overused, secRun, reported>>

-----------------------------------------------------------------------------
(* SecretStore::resolve: the environment's value first, the unscoped one only  *)
(* when there is none.                                                     *)
Resolved(name, env) ==
  LET row == IF vault.rows[<<name, env>>] # None THEN vault.rows[<<name, env>>]
             ELSE vault.rows[<<name, "">>]
  IN IF row = None THEN None ELSE IF row.key = secSession.key THEN row.value ELSE None

(* resolve_secrets_collecting over the tokens of a configuration.          *)
Refs(config) == SelectSeq(config, LAMBDA tok : tok \in SecretNames)

CollectedMutant(config, env) == {Resolved(Last(Refs(config)), env)}     \* overwritten, not extended

Collected(config, env) == {Resolved(name, env) : name \in ToSet(Refs(config))}

Substituted(config, env) ==
  FlattenSeq([i \in DOMAIN config |->
    IF config[i] \in SecretNames THEN Resolved(config[i], env) ELSE <<config[i]>>])

(* scrub_secrets: every occurrence of each value, longest value first.     *)
Redact(text, v) ==
  LET end == Len(text) + 1
      from[i \in 1..end] ==
        IF i + Len(v) > end THEN SubSeq(text, i, Len(text))
        ELSE IF SubSeq(text, i, i + Len(v) - 1) = v THEN <<"*">> \o from[i + Len(v)]
        ELSE <<text[i]>> \o from[i + 1]
  IN from[1]

LongerMutant(v, w) == Len(v) <= Len(w)

Longer(v, w) == Len(v) >= Len(w)

Scrub(text, values) == FoldLeft(Redact, text, SetToSortSeq(values, Longer))

StartSecretRun ==
  /\ ApiFree /\ secRun = None
  /\ \E cfgs \in Configs, env \in Scopes \ {""} :
       secRun' = [nodes |-> cfgs, env |-> env, secrets |-> IsInitialized, text |-> None]
  /\ Request
  /\ reported' = None
  /\ UNCHANGED <<vault, initOp, secSession, attempts, secNow, tested, granted, overused>>

(* SessionSecretResolver.resolve_json_collecting, when the node's turn comes: *)
(* a locked store ends the run, whether or not the node has references.    *)
ResolveNode ==
  /\ secRun # None /\ secRun.text = None
  /\ LET config == Head(secRun.nodes) IN
     IF ~secRun.secrets
     THEN /\ secRun' = [secRun EXCEPT !.text = config] @@ [values |-> {}]
          /\ UNCHANGED <<secSession, granted, overused>>
     ELSE /\ GetStore
          /\ secRun' =
               IF ~IsUnlocked THEN None
               ELSE IF None \in {Resolved(n, secRun.env) : n \in ToSet(Refs(config))} THEN None
               ELSE [secRun EXCEPT !.text = Substituted(config, secRun.env)] @@
                    [values |-> Collected(config, secRun.env)]
  /\ UNCHANGED <<vault, initOp, attempts, secNow, secWrites, tested, reported>>

(* The connector runs: it succeeds, or its error quotes the configuration.  *)
FinishNode ==
  /\ secRun # None /\ secRun.text # None
  /\ \/ /\ secRun' = None
        /\ reported' = Scrub(secRun.text, secRun.values)
     \/ /\ secRun' = IF Len(secRun.nodes) = 1 THEN None
                     ELSE [nodes |-> Tail(secRun.nodes), env |-> secRun.env,
                           secrets |-> secRun.secrets, text |-> None]
        /\ reported' = None
  /\ UNCHANGED <<vault, initOp, secSession, attempts, secNow, secWrites, tested, granted, overused>>

TimePasses ==
  /\ secNow < MaxNow
  /\ secNow' = secNow + 1
  /\ UNCHANGED <<vault, initOp, secSession, attempts, secWrites, tested, granted, overused, secRun,
                 reported>>

-----------------------------------------------------------------------------
SecInit ==
  /\ vault = [salt |-> None, check |-> None, rows |-> [r \in SecretNames \X Scopes |-> None]]
  /\ initOp = [p \in Procs |-> None]
  /\ secSession = None /\ attempts = <<>> /\ secNow = 0 /\ secWrites = 0
  /\ tested = <<>> /\ granted = 0 /\ overused = FALSE
  /\ secRun = None /\ reported = None

Session ==
  \/ \E p \in Procs : (\E pw \in Passwords : BeginInit(p, pw)) \/ InsertSalt(p) \/ InsertCheck(p)
  \/ \E pw \in Passwords : Unlock(pw)
  \/ Restart \/ Lock \/ ApiWrite \/ CliWrite \/ TimePasses

SecretRun == StartSecretRun \/ ResolveNode \/ FinishNode

SecSpec == SecInit /\ [][Session \/ SecretRun]_secVars

-----------------------------------------------------------------------------
(* Whoever initialises the store, and wherever one dies meanwhile, everything  *)
(* in it is encrypted with the key its token verifies, and an open session *)
(* holds that key.                                                         *)
OneKey ==
  LET keys == {vault.rows[r].key : r \in {x \in DOMAIN vault.rows : vault.rows[x] # None}} \cup
              (IF secSession = None THEN {} ELSE {secSession.key})
  IN /\ \A key \in keys : key = vault.check
     /\ vault.check # None => vault.check.salt = vault.salt

(* The store is only used while a correct password, or a use, is less than   *)
(* AutoLock old and nobody locked it since; a server tests at most         *)
(* MaxAttempts passwords in any AttemptWindow.                             *)
SessionIsGuarded ==
  /\ ~overused
  /\ \A i \in DOMAIN tested :
       i + MaxAttempts \in DOMAIN tested => tested[i + MaxAttempts] - tested[i] >= AttemptWindow

SecretsAreSafe == SessionIsGuarded /\ OneKey

(* What a failed node of a server's run reports contains nothing of a secret.  *)
ReportsAreScrubbed == reported # None => ToSet(reported) \cap Letters = {}
=============================================================================
