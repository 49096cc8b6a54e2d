-------------------------- MODULE SchedulerProofs --------------------------
(***************************************************************************)
(* Theorems about Scheduler for every schedule, every queue depth and any  *)
(* number of runs, files and tokens, with their proofs: types; how far run *)
(* policies can be exceeded; what becomes of the files a sensor has seen;  *)
(* that an occurrence fires once, and that none is passed over.            *)
(***************************************************************************)
EXTENDS Scheduler, FiniteSetTheorems, TLAPS

-----------------------------------------------------------------------------
(* Actions, one by one *)

LEMMA NextCases ==
  ASSUME Next
  PROVE  \/ \E k \in FrontEnds : Create(k)
         \/ \E k \in FrontEnds : CreateTorn(k)
         \/ CreateState \/ UpdateRead \/ UpdateCompute \/ UpdateWrite
         \/ SetEnabled \/ Delete
         \/ TickList \/ TickTime \/ TickFiles \/ TickTouch \/ TickAfter \/ TickAfterFails
         \/ \E a \in Actors : FireDecide(a)
         \/ \E a \in Actors : FireCount(a)
         \/ \E a \in Actors : FireDispatch(a)
         \/ \E a \in Actors : FireRecord(a)
         \/ \E a \in Actors : ErrorRecord(a)
         \/ \E a \in Actors : ErrorRead(a)
         \/ \E a \in Actors : ErrorWrite(a)
         \/ \E a \in Actors : ErrorReturn(a)
         \/ \E a \in Actors : HookCall(a)
         \/ \E a \in Actors : HookToken(a)
         \/ \E a \in Actors : HookMint(a)
         \/ \E a \in Actors : HookGet(a)
         \/ \E a \in Actors : HookAfter(a)
         \/ \E a \in Actors : HookAudit(a)
         \/ ManualFire \/ ManualAfter \/ Notify \/ NotifyAfter \/ CliFire
         \/ Clock \/ FileArrives \/ RunCompletes \/ ForeignRun \/ Crash
BY DEF Next, Update, Tick, Progress

-----------------------------------------------------------------------------
(* Schedules *)

LEMMA LeastNatural ==
  ASSUME NEW T, T \subseteq Nat, T # {}
  PROVE  \E m \in T : \A n \in T : m <= n
<1>1. PICK m \in T : \A n \in T : ~ (<<n, m>> \in OpToRel(<, Nat))
  BY NatLessThanWellFounded, WFMin, Zenon
<1>2. \A n \in T : ~ (n < m)
  BY <1>1 DEF OpToRel
<1>3. QED
  BY <1>2

\* NextCron(t) is the first occurrence after t.
LEMMA NextCronFact ==
  ASSUME NEW t \in Nat
  PROVE  /\ NextCron(t) \in Nat
         /\ NextCron(t) # 0 => NextCron(t) \in CronTimes /\ NextCron(t) > t
         /\ \A s \in CronTimes : s > t => NextCron(t) # 0 /\ NextCron(t) <= s
<1> DEFINE later == {s \in CronTimes : s > t}
<1>1. later \subseteq Nat /\ 0 \notin later
  BY SchedulerAssumption
<1>2. CASE later = {}
  BY <1>2 DEF NextCron
<1>3. CASE later # {}
  <2>1. \E s \in later : \A u \in later : s <= u
    BY <1>1, <1>3, LeastNatural
  <2>2. NextCron(t) \in later /\ \A u \in later : NextCron(t) <= u
    BY <1>3, <2>1 DEF NextCron
  <2>3. QED
    BY <1>1, <2>2
<1>4. QED
  BY <1>2, <1>3

LEMMA QuotientFact ==
  ASSUME NEW n \in Nat, NEW d \in Nat \ {0}
  PROVE  n \div d \in Nat /\ d * (n \div d) <= n /\ n < d * (n \div d + 1)
OBVIOUS

LEMMA NextIntervalFact ==
  ASSUME NEW start \in Nat, NEW t \in Nat
  PROVE  /\ NextInterval(start, t) \in Nat
         /\ NextInterval(start, t) > t /\ NextInterval(start, t) >= start
         /\ t >= start => NextInterval(start, t) <= t + Every
<1> DEFINE q == (t - start) \div Every
<1>1. CASE t < start
  BY <1>1 DEF NextInterval
<1>2. CASE ~ (t < start)
  <2>1. t - start \in Nat /\ Every \in Nat \ {0}
    BY <1>2, SchedulerAssumption
  <2>2. q \in Nat /\ Every * q <= t - start /\ t - start < Every * (q + 1)
    BY <2>1, QuotientFact
  <2>3. Every * (q + 1) = Every * q + Every /\ Every * (q + 1) \in Nat
    BY <2>1, <2>2
  <2>4. NextInterval(start, t) = start + Every * (q + 1)
    BY <1>2 DEF NextInterval
  <2> HIDE DEF q
  <2>5. QED
    BY <2>1, <2>2, <2>3, <2>4
<1>3. QED
  BY <1>1, <1>2

LEMMA ComputeNextType ==
  ASSUME NEW t \in Nat, config \in Configs
  PROVE  ComputeNext(t) \in Nat
BY NextCronFact, NextIntervalFact, SchedulerAssumption DEF ComputeNext, Anchor

-----------------------------------------------------------------------------
(* Type correctness *)

LEMMA BlankType == Blank \in RowType
BY DEF Blank, RowType

LEMMA TypeInit == Init => TypeOK
<1> SUFFICES ASSUME Init PROVE TypeOK
  OBVIOUS
<1>1. 1 \in 1 .. MaxTime /\ 0 \in 0 .. MaxFaults
  BY SchedulerAssumption
<1>2. /\ rd \in [Actors -> RowType] /\ pc \in [Actors -> Steps] /\ out \in [Actors -> Outcomes]
      /\ at \in [Actors -> Nat] /\ batch \in [Actors -> SUBSET Files] /\ given \in [Actors -> Nat]
  BY BlankType DEF Init, Steps, Outcomes
<1>3. fired \in [Files -> Nat]
  BY DEF Init
<1>4. QED
  BY <1>1, <1>2, <1>3, BlankType DEF Init, TypeOK

\* What an actor writes to the state row is one.
LEMMA UpsertType ==
  ASSUME TypeOK, NEW row \in RowType, Upsert(row)
  PROVE  st' \in RowType
BY DEF TypeOK, Upsert, RowType

LEMMA DoneType ==
  ASSUME TypeOK, NEW a \in Actors, Done(a)
  PROVE  /\ pc' \in [Actors -> Steps] /\ at' \in [Actors -> Nat]
         /\ rd' \in [Actors -> RowType] /\ out' \in [Actors -> Outcomes]
         /\ batch' \in [Actors -> SUBSET Files] /\ given' \in [Actors -> Nat]
BY BlankType DEF TypeOK, Done, Steps, Outcomes

LEMMA TickRowType ==
  ASSUME TypeOK, "tick" \in Actors
  PROVE  TickRow \in RowType
<1>1. ComputeNext(at["tick"]) \in Nat
  BY ComputeNextType DEF TypeOK
<1>2. QED
  BY <1>1 DEF TypeOK, TickRow, RowType

LEMMA TypeStep == TypeOK /\ [Next]_vars => TypeOK'
<1> SUFFICES ASSUME TypeOK, [Next]_vars PROVE TypeOK'
  OBVIOUS
<1> USE SchedulerAssumption DEF store, disp, local, hist
<1>1. ASSUME NEW k \in FrontEnds, Create(k) \/ CreateTorn(k) PROVE TypeOK'
  <2>1. CASE Create(k)
    <3>1. FirstRow \in RowType
      BY DEF FirstRow, Blank, RowType
    <3>2. QED
      BY <2>1, <3>1 DEF TypeOK, Create, Goto, Steps
  <2>2. CASE CreateTorn(k)
    BY <2>2 DEF TypeOK, CreateTorn
  <2>3. QED
    BY <1>1, <2>1, <2>2
<1>2. ASSUME CreateState PROVE TypeOK'
  <2>1. [Blank EXCEPT !.next = ComputeNext(now)] \in RowType
    <3>1. now \in Nat /\ config \in Configs
      BY DEF TypeOK
    <3>2. ComputeNext(now) \in Nat
      BY <3>1, ComputeNextType
    <3>3. QED
      BY <3>2, BlankType DEF RowType
  <2>2. st' \in RowType
    BY <1>2, <2>1, UpsertType DEF CreateState
  <2>3. QED
    BY <1>2, <2>2, DoneType DEF TypeOK, CreateState, Stale, Larger
<1>3. ASSUME UpdateRead PROVE TypeOK'
  BY <1>3 DEF TypeOK, UpdateRead, Goto, Steps
<1>4. ASSUME UpdateCompute PROVE TypeOK'
  BY <1>4 DEF TypeOK, UpdateCompute, Goto, Steps
<1>5. ASSUME UpdateWrite PROVE TypeOK'
  <2>1. [rd["update"] EXCEPT !.next = ComputeNext(at["update"])] \in RowType
    BY <1>5, ComputeNextType DEF UpdateWrite, TypeOK, RowType
  <2>2. st' \in RowType
    BY <1>5, <2>1, UpsertType DEF UpdateWrite
  <2>3. QED
    BY <1>5, <2>2, DoneType DEF TypeOK, UpdateWrite, Stale, Larger
<1>6. ASSUME SetEnabled \/ Delete \/ CliFire PROVE TypeOK'
  <2>1. CASE SetEnabled
    BY <2>1 DEF TypeOK, SetEnabled
  <2>2. CASE Delete
    BY <2>2, BlankType DEF TypeOK, Delete
  <2>3. CASE CliFire
    BY <2>3 DEF TypeOK, CliFire
  <2>4. QED
    BY <1>6, <2>1, <2>2, <2>3
<1>7. ASSUME TickList PROVE TypeOK'
  BY <1>7 DEF TypeOK, TickList, Goto, Steps
<1>8. ASSUME TickTime PROVE TypeOK'
  BY <1>8, DoneType DEF TypeOK, TickTime, Goto, Steps
<1>9. ASSUME TickFiles PROVE TypeOK'
  BY <1>9, DoneType DEF TypeOK, TickFiles, Goto, Steps
<1>10. ASSUME TickTouch PROVE TypeOK'
  BY <1>10 DEF TypeOK, TickTouch, Goto, Steps
<1>11. ASSUME TickAfter PROVE TypeOK'
  <2>1. st' \in RowType
    BY <1>11, TickRowType, UpsertType DEF TickAfter
  <2>2. QED
    BY <1>11, <2>1, DoneType DEF TypeOK, TickAfter, Stale, Larger
<1>12. ASSUME TickAfterFails PROVE TypeOK'
  BY <1>12 DEF TypeOK, TickAfterFails, Goto, Steps
<1>13. ASSUME NEW a \in Actors, FireDecide(a) PROVE TypeOK'
  BY <1>13 DEF TypeOK, FireDecide, Goto, Steps, Outcomes, Policy
<1>14. ASSUME NEW a \in Actors, FireCount(a) PROVE TypeOK'
  BY <1>14 DEF TypeOK, FireCount, Goto, Steps, Outcomes
<1>15. ASSUME NEW a \in Actors, FireDispatch(a) PROVE TypeOK'
  BY <1>15 DEF TypeOK, FireDispatch, Goto, Steps, Outcomes
<1>16. ASSUME NEW a \in Actors, FireRecord(a) PROVE TypeOK'
  BY <1>16 DEF TypeOK, FireRecord, Goto, Steps
<1>17. ASSUME NEW a \in Actors, ErrorRecord(a) \/ ErrorRead(a) PROVE TypeOK'
  <2>1. CASE ErrorRecord(a)
    BY <2>1 DEF TypeOK, ErrorRecord, Goto, Steps
  <2>2. CASE ErrorRead(a)
    BY <2>2 DEF TypeOK, ErrorRead, Goto, Steps
  <2>3. QED
    BY <1>17, <2>1, <2>2
<1>18. ASSUME NEW a \in Actors, ErrorWrite(a) PROVE TypeOK'
  <2>1. [rd[a] EXCEPT !.eval = at[a]] \in RowType
    BY <1>18 DEF TypeOK, RowType
  <2>2. st' \in RowType
    BY <1>18, <2>1, UpsertType DEF ErrorWrite
  <2>3. QED
    BY <1>18, <2>2, DoneType DEF TypeOK, ErrorWrite, Stale
<1>19. ASSUME NEW a \in Actors, ErrorReturn(a) PROVE TypeOK'
  BY <1>19, DoneType DEF TypeOK, ErrorReturn
<1>20. ASSUME NEW a \in Actors, HookCall(a) PROVE TypeOK'
  BY <1>20 DEF TypeOK, HookCall, Goto, Steps
<1>21. ASSUME NEW a \in Actors, HookToken(a) PROVE TypeOK'
  <2> pc[a] = "token" /\ UNCHANGED <<config, now, store, disp, faults, covered, lastRun, disturbed,
                                   fired, offered, tokens>>
    BY <1>21 DEF HookToken
  <2>1. CASE st.token = 0
    <3>1. /\ rd' = [rd EXCEPT ![a] = st] /\ pc' = [pc EXCEPT ![a] = "mint"]
          /\ UNCHANGED <<at, out, batch, given, accepted>>
      BY <1>21, <2>1 DEF HookToken, Goto
    <3>2. "mint" \in Steps
      BY DEF Steps
    <3>3. QED
      BY <3>1, <3>2 DEF TypeOK
  <2>2. CASE st.token # 0 /\ st.token = given[a]
    <3>1. /\ accepted' = accepted \cup {given[a]} /\ pc' = [pc EXCEPT ![a] = "get"]
          /\ UNCHANGED <<at, rd, out, batch, given>>
      BY <1>21, <2>2 DEF HookToken, Goto
    <3>2. "get" \in Steps
      BY DEF Steps
    <3>3. QED
      BY <3>1, <3>2 DEF TypeOK
  <2>3. CASE st.token # 0 /\ st.token # given[a]
    BY <1>21, <2>3, DoneType DEF TypeOK, HookToken
  <2>4. QED
    BY <2>1, <2>2, <2>3
<1>22. ASSUME NEW a \in Actors, HookMint(a) PROVE TypeOK'
  <2>1. tokens' \in Nat
    BY <1>22 DEF TypeOK, HookMint
  <2>2. [rd[a] EXCEPT !.next = 0, !.token = tokens'] \in RowType
    BY <2>1 DEF TypeOK, RowType
  <2>3. st' \in RowType
    BY <1>22, <2>2, UpsertType DEF HookMint
  <2>4. QED
    BY <1>22, <2>1, <2>3, DoneType DEF TypeOK, HookMint
<1>23. ASSUME NEW a \in Actors, HookGet(a) PROVE TypeOK'
  BY <1>23, DoneType DEF TypeOK, HookGet, Goto, Steps
<1>24. ASSUME NEW a \in Actors, HookAfter(a) PROVE TypeOK'
  <2>1. [Blank EXCEPT !.eval = at[a]] \in RowType
    BY BlankType DEF TypeOK, RowType
  <2>2. st' \in RowType
    BY <1>24, <2>1, UpsertType DEF HookAfter
  <2>3. QED
    BY <1>24, <2>2 DEF TypeOK, HookAfter, Goto, Steps
<1>25. ASSUME NEW a \in Actors, HookAudit(a) PROVE TypeOK'
  BY <1>25, DoneType DEF TypeOK, HookAudit
<1>26. ASSUME ManualFire \/ Notify PROVE TypeOK'
  <2>1. CASE ManualFire
    BY <2>1 DEF TypeOK, ManualFire, Goto, Steps
  <2>2. CASE Notify
    BY <2>2 DEF TypeOK, Notify, Goto, Steps
  <2>3. QED
    BY <1>26, <2>1, <2>2
<1>27. ASSUME ManualAfter PROVE TypeOK'
  BY <1>27, DoneType DEF TypeOK, ManualAfter
<1>28. ASSUME NotifyAfter PROVE TypeOK'
  <2>1. [Blank EXCEPT !.eval = at["notify"]] \in RowType
    BY <1>28, BlankType DEF NotifyAfter, TypeOK, RowType
  <2>2. st' \in RowType
    BY <1>28, <2>1, UpsertType DEF NotifyAfter
  <2>3. QED
    BY <1>28, <2>2, DoneType DEF TypeOK, NotifyAfter
<1>29. ASSUME Clock \/ FileArrives \/ RunCompletes \/ ForeignRun PROVE TypeOK'
  <2>1. CASE Clock
    BY <2>1 DEF TypeOK, Clock
  <2>2. CASE FileArrives
    BY <2>2 DEF TypeOK, FileArrives
  <2>3. CASE RunCompletes
    BY <2>3 DEF TypeOK, RunCompletes
  <2>4. CASE ForeignRun
    BY <2>4 DEF TypeOK, ForeignRun
  <2>5. QED
    BY <1>29, <2>1, <2>2, <2>3, <2>4
<1>30. ASSUME Crash PROVE TypeOK'
  <2>1. /\ rd' \in [Actors -> RowType] /\ pc' \in [Actors -> Steps]
        /\ out' \in [Actors -> Outcomes] /\ at' \in [Actors -> Nat]
        /\ batch' \in [Actors -> SUBSET Files] /\ given' \in [Actors -> Nat]
    BY <1>30, BlankType DEF Crash, Steps, Outcomes
  <2>2. faults' \in 0 .. MaxFaults /\ disturbed' \in BOOLEAN
    BY <1>30 DEF Crash, TypeOK
  <2>3. QED
    BY <1>30, <2>1, <2>2 DEF TypeOK, Crash
<1>31. CASE UNCHANGED vars
  BY <1>31 DEF TypeOK, vars
<1>32. QED
  BY <1>1, <1>2, <1>3, <1>4, <1>5, <1>6, <1>7, <1>8, <1>9, <1>10, <1>11, <1>12, <1>13, <1>14,
     <1>15, <1>16, <1>17, <1>18, <1>19, <1>20, <1>21, <1>22, <1>23, <1>24, <1>25, <1>26, <1>27,
     <1>28, <1>29, <1>30, <1>31, NextCases

\* Every variable of the scheduler, its store and its actors keeps to its type.
THEOREM SchedulerTypes == Spec => []TypeOK
<1>1. QED
  BY TypeInit, TypeStep, PTL DEF Spec

-----------------------------------------------------------------------------
(* Where an actor can be *)

\* The steps of a firing are those of the actors that may fire, a token is
\* looked at for a webhook only, and the row that "update" writes is its own.
Places ==
  /\ \A a \in Actors :
       /\ pc[a] \in {"fire", "count", "dispatch", "record"} => a \in Firing
       /\ pc[a] = "count" => Policy = "queue"
       /\ pc[a] \in {"count", "dispatch"} => out[a] \in {"run_started", "queued"}
       /\ pc[a] \in {"token", "mint", "get", "audit"} => a \in Hooks
       /\ a \in Hooks /\ pc[a] # "idle" => Kind = "webhook"
       /\ a = "notify" /\ pc[a] # "idle" => Kind = "pipeline_completion"
       /\ pc[a] = "eval" => a = "tick"
       /\ pc[a] \in {"errread", "errwrite"} => a \in {"tick", "notify"}
       /\ pc[a] \in {"insert", "read", "write"} => a = "update"
       /\ pc[a] = "insert" => rd[a] = FirstRow
       /\ a = "update" => pc[a] \in {"idle", "insert", "read", "write"}
       /\ a = "tick" /\ pc[a] \in {"fire", "count", "dispatch", "record"}
            => Kind \in {"cron", "interval", "file_arrival"}
       /\ pc[a] = "idle" => out[a] = "none" /\ batch[a] = {} /\ rd[a] = Blank /\ at[a] = 0
  /\ status = "absent" => pc = [a \in Actors |-> "idle"] /\ runs = 0 /\ counted = 0

LEMMA ConfigStays == [Next]_vars => config' = config
<1> SUFFICES ASSUME Next PROVE config' = config
  BY DEF vars
<1> USE DEF store, disp, local, hist
<1>1. CASE \E k \in FrontEnds : Create(k) \/ CreateTorn(k)
  BY <1>1 DEF Create, CreateTorn
<1>2. CASE Update \/ UpdateRead \/ SetEnabled \/ Delete
  BY <1>2 DEF Update, CreateState, UpdateCompute, UpdateWrite, UpdateRead, SetEnabled, Delete
<1>3. CASE Tick \/ TickAfterFails
  BY <1>3 DEF Tick, TickList, TickTime, TickFiles, TickTouch, TickAfter, TickAfterFails
<1>4. ASSUME NEW a \in Actors, Progress(a) PROVE config' = config
  BY <1>4 DEF Progress, FireDecide, FireCount, FireDispatch, FireRecord, ErrorRecord, ErrorRead,
     ErrorWrite, ErrorReturn, HookToken, HookMint, HookGet, HookAfter, HookAudit
<1>5. ASSUME NEW a \in Actors, HookCall(a) PROVE config' = config
  BY <1>5 DEF HookCall
<1>6. CASE ManualFire \/ ManualAfter \/ Notify \/ NotifyAfter \/ CliFire
  BY <1>6 DEF ManualFire, ManualAfter, Notify, NotifyAfter, CliFire
<1>7. CASE Clock \/ FileArrives \/ RunCompletes \/ ForeignRun \/ Crash
  BY <1>7 DEF Clock, FileArrives, RunCompletes, ForeignRun, Crash
<1>8. QED
  BY <1>1, <1>2, <1>3, <1>4, <1>5, <1>6, <1>7 DEF Next

LEMMA ActorsFinite ==
  /\ IsFiniteSet(Actors)
  /\ IsFiniteSet(Firing) /\ Cardinality(Firing) \in Nat
  /\ Firing \subseteq Actors
<1>1. Actors \subseteq {"tick", "manual", "update", "notify", "hook", "hook2"}
  BY SchedulerAssumption
<1>2. IsFiniteSet({"tick", "manual", "update", "notify", "hook", "hook2"})
  <2>1. IsFiniteSet({})
    BY FS_EmptySet
  <2>2. IsFiniteSet({} \cup {"tick"})
    BY <2>1, FS_AddElement
  <2>3. IsFiniteSet(({} \cup {"tick"}) \cup {"manual"})
    BY <2>2, FS_AddElement
  <2>4. IsFiniteSet((({} \cup {"tick"}) \cup {"manual"}) \cup {"update"})
    BY <2>3, FS_AddElement
  <2>5. IsFiniteSet(((({} \cup {"tick"}) \cup {"manual"}) \cup {"update"}) \cup {"notify"})
    BY <2>4, FS_AddElement
  <2>6. IsFiniteSet((((({} \cup {"tick"}) \cup {"manual"}) \cup {"update"}) \cup {"notify"})
                      \cup {"hook"})
    BY <2>5, FS_AddElement
  <2>7. IsFiniteSet(((((({} \cup {"tick"}) \cup {"manual"}) \cup {"update"}) \cup {"notify"})
                      \cup {"hook"}) \cup {"hook2"})
    BY <2>6, FS_AddElement
  <2>8. {"tick", "manual", "update", "notify", "hook", "hook2"}
          = (((((({} \cup {"tick"}) \cup {"manual"}) \cup {"update"}) \cup {"notify"})
              \cup {"hook"}) \cup {"hook2"})
    OBVIOUS
  <2>9. QED
    BY <2>7, <2>8
<1>3. IsFiniteSet(Actors)
  BY <1>1, <1>2, FS_Subset
<1>4. Firing \subseteq Actors
  BY DEF Firing, Hooks
<1>5. IsFiniteSet(Firing)
  BY <1>3, <1>4, FS_Subset
<1>6. QED
  BY <1>3, <1>4, <1>5, FS_CardinalityType

LEMMA PlacesInit == Init => Places
BY DEF Init, Places

LEMMA DonePlaces ==
  ASSUME TypeOK, Places, NEW a \in Actors, Done(a), config' = config, pc[a] # "idle",
         UNCHANGED <<status, runs>>,  status # "absent"
  PROVE  Places'
BY DEF Places, Done, TypeOK, Firing, Hooks, Kind, Policy

LEMMA PlacesStep == TypeOK /\ Places /\ [Next]_vars => Places'
<1> SUFFICES ASSUME TypeOK, Places, [Next]_vars PROVE Places'
  OBVIOUS
<1> USE DEF store, disp, local, hist
<1>0. config' = config /\ Kind' = Kind /\ Policy' = Policy /\ Firing' = Firing
  BY ConfigStays DEF Kind, Policy, Firing
<1>100. \A a \in {"tick", "manual", "update", "notify"} : a \notin Hooks
  BY DEF Hooks
<1>1. ASSUME NEW k \in FrontEnds, Create(k) \/ CreateTorn(k) PROVE Places'
  BY <1>0, <1>1, <1>100 DEF TypeOK, Places, Create, CreateTorn, Goto
<1>2. CASE CreateState \/ UpdateRead \/ UpdateCompute \/ UpdateWrite
  <2>1. CASE CreateState
    BY <2>1, <1>0, DonePlaces DEF CreateState, TypeOK, Places
  <2>2. CASE UpdateRead
    BY <2>2, <1>0, <1>100 DEF TypeOK, Places, UpdateRead, Goto, Exists
  <2>3. CASE UpdateCompute
    BY <2>3, <1>0 DEF TypeOK, Places, UpdateCompute, Goto
  <2>4. CASE UpdateWrite
    BY <2>4, <1>0, DonePlaces DEF UpdateWrite, TypeOK, Places
  <2>5. QED
    BY <1>2, <2>1, <2>2, <2>3, <2>4
<1>3. CASE SetEnabled \/ Delete \/ CliFire
  BY <1>3, <1>0 DEF TypeOK, Places, SetEnabled, Delete, CliFire, Exists
<1>4. CASE TickList
  BY <1>4, <1>0, <1>100 DEF TypeOK, Places, TickList, Goto
<1>5. CASE TickTime
  BY <1>5, <1>0, DonePlaces DEF TypeOK, Places, TickTime, Goto, Firing
<1>6. CASE TickFiles
  BY <1>6, <1>0, DonePlaces DEF TypeOK, Places, TickFiles, Goto, Firing
<1>7. CASE TickTouch \/ TickAfterFails
  BY <1>7, <1>0 DEF TypeOK, Places, TickTouch, TickAfterFails, Goto
<1>8. CASE TickAfter
  BY <1>8, <1>0, DonePlaces DEF TickAfter, TypeOK, Places
<1>9. ASSUME NEW a \in Actors, FireDecide(a) PROVE Places'
  <2>1. \E s \in {"count", "dispatch", "record"}, o \in {"run_started", "queued", "skipped", "rejected"} :
          /\ pc' = [pc EXCEPT ![a] = s] /\ out' = [out EXCEPT ![a] = o]
          /\ s = "count" => Policy = "queue"
          /\ s \in {"count", "dispatch"} => o \in {"run_started", "queued"}
    <3>1. Policy \in {"queue", "skip", "reject"}
      BY SchedulerAssumption DEF TypeOK, Policy
    <3>2. CASE ~ (runs > 0 \/ foreign)
      BY <1>9, <3>2 DEF FireDecide, Goto
    <3>3. CASE (runs > 0 \/ foreign) /\ Policy = "queue"
      BY <1>9, <3>3 DEF FireDecide, Goto
    <3>4. CASE (runs > 0 \/ foreign) /\ Policy = "skip"
      BY <1>9, <3>4 DEF FireDecide, Goto
    <3>5. CASE (runs > 0 \/ foreign) /\ Policy = "reject"
      BY <1>9, <3>5 DEF FireDecide, Goto
    <3>6. QED
      BY <3>1, <3>2, <3>3, <3>4, <3>5
  <2>2. pc[a] = "fire" /\ UNCHANGED <<status, runs, counted, batch, rd, at>>
    BY <1>9 DEF FireDecide
  <2>3. QED
    BY <2>1, <2>2, <1>0 DEF TypeOK, Places
<1>10. ASSUME NEW a \in Actors, FireCount(a) \/ FireRecord(a) PROVE Places'
  BY <1>10, <1>0 DEF TypeOK, Places, FireCount, FireRecord, Goto
<1>11. ASSUME NEW a \in Actors, FireDispatch(a) PROVE Places'
  BY <1>11, <1>0 DEF TypeOK, Places, FireDispatch, Goto
<1>12. ASSUME NEW a \in Actors, ErrorRecord(a) \/ ErrorRead(a) PROVE Places'
  BY <1>12, <1>0 DEF TypeOK, Places, ErrorRecord, ErrorRead, Goto
<1>13. ASSUME NEW a \in Actors, ErrorWrite(a) \/ ErrorReturn(a) PROVE Places'
  BY <1>13, <1>0, DonePlaces DEF ErrorWrite, ErrorReturn, TypeOK, Places
<1>14. ASSUME NEW a \in Actors, HookCall(a) PROVE Places'
  BY <1>14, <1>0 DEF TypeOK, Places, HookCall, Goto, Hooks, Exists
<1>15. ASSUME NEW a \in Actors, HookToken(a) PROVE Places'
  <2> pc[a] = "token" /\ UNCHANGED <<status, runs, counted>>
    BY <1>15 DEF HookToken
  <2>1. CASE st.token = 0
    <3>1. rd' = [rd EXCEPT ![a] = st] /\ pc' = [pc EXCEPT ![a] = "mint"] /\ UNCHANGED <<at, out, batch>>
      BY <1>15, <2>1 DEF HookToken, Goto
    <3>2. QED
      BY <3>1, <1>0 DEF TypeOK, Places
  <2>2. CASE st.token # 0 /\ st.token = given[a]
    <3>1. pc' = [pc EXCEPT ![a] = "get"] /\ UNCHANGED <<at, rd, out, batch>>
      BY <1>15, <2>2 DEF HookToken, Goto
    <3>2. QED
      BY <3>1, <1>0 DEF TypeOK, Places
  <2>3. CASE st.token # 0 /\ st.token # given[a]
    BY <1>15, <2>3, <1>0, DonePlaces DEF TypeOK, Places, HookToken
  <2>4. QED
    BY <2>1, <2>2, <2>3
<1>16. ASSUME NEW a \in Actors, HookMint(a) PROVE Places'
  BY <1>16, <1>0, DonePlaces DEF HookMint, TypeOK, Places
<1>17. ASSUME NEW a \in Actors, HookGet(a) PROVE Places'
  <2>1. a \in Hooks /\ Kind = "webhook" /\ a \in Firing /\ a # "tick" /\ a # "update"
    BY <1>17 DEF HookGet, Places, Firing, Hooks
  <2>2. CASE Done(a)
    BY <1>17, <1>0, <2>2, DonePlaces DEF HookGet, TypeOK, Places
  <2>3. CASE status = "on" /\ at' = [at EXCEPT ![a] = now] /\ Goto(a, "fire")
                 /\ UNCHANGED <<rd, out, batch, given>>
    BY <1>17, <1>0, <2>1, <2>3 DEF HookGet, TypeOK, Places, Goto
  <2>4. QED
    BY <1>17, <2>2, <2>3 DEF HookGet
<1>18. ASSUME NEW a \in Actors, HookAfter(a) PROVE Places'
  BY <1>18, <1>0 DEF HookAfter, TypeOK, Places, Goto
<1>19. ASSUME NEW a \in Actors, HookAudit(a) PROVE Places'
  BY <1>19, <1>0, DonePlaces DEF HookAudit, TypeOK, Places
<1>20. CASE ManualFire \/ Notify
  <2>1. CASE ManualFire
    <3>1. "manual" \in Firing
      BY <2>1 DEF ManualFire, Firing
    <3>2. QED
      BY <2>1, <3>1, <1>0, <1>100 DEF ManualFire, TypeOK, Places, Goto
  <2>2. CASE Notify
    <3>1. "notify" \in Firing
      BY <2>2 DEF Notify, Firing
    <3>2. QED
      BY <2>2, <3>1, <1>0, <1>100 DEF Notify, TypeOK, Places, Goto
  <2>3. QED
    BY <1>20, <2>1, <2>2
<1>21. CASE ManualAfter \/ NotifyAfter
  BY <1>21, <1>0, DonePlaces DEF ManualAfter, NotifyAfter, TypeOK, Places
<1>22. CASE Clock \/ FileArrives \/ RunCompletes \/ ForeignRun
  BY <1>22, <1>0 DEF Clock, FileArrives, RunCompletes, ForeignRun, TypeOK, Places
<1>23. CASE Crash
  BY <1>23, <1>0 DEF Crash, TypeOK, Places
<1>24. CASE UNCHANGED vars
  BY <1>24, <1>0 DEF vars, Places
<1>25. QED
  BY <1>1, <1>2, <1>3, <1>4, <1>5, <1>6, <1>7, <1>8, <1>9, <1>10, <1>11, <1>12, <1>13, <1>14,
     <1>15, <1>16, <1>17, <1>18, <1>19, <1>20, <1>21, <1>22, <1>23, <1>24, NextCases

-----------------------------------------------------------------------------
(* Run policies *)

\* The actors that are about to call the dispatcher, and those whose run it has
\* taken and the history does not show yet.
Dispatching == {a \in Actors : pc[a] = "dispatch"}
Recording == {a \in Actors : pc[a] = "record" /\ out[a] \in {"run_started", "queued"}}

\* What a step does to the runs, their count in the history, and these actors.
OtherStep ==
  /\ runs' <= runs /\ Dispatching' = Dispatching /\ Recording' = Recording
  /\ Exists' => Exists /\ counted' >= counted
CreateStep ==
  runs' = 0 /\ counted' = 0 /\ Dispatching' = {} /\ Recording' = {}
CrashStep ==
  runs' = 0 /\ counted' = counted /\ Dispatching' = {} /\ Recording' = {}
DecideStep(a) ==
  /\ pc[a] = "fire" /\ runs = 0 /\ runs' = 0
  /\ Dispatching' = Dispatching \cup {a}
  /\ Exists' = Exists /\ counted' = counted /\ Recording' = Recording
CountStep(a) ==
  /\ pc[a] = "count" /\ counted < MaxQueueDepth
  /\ Dispatching' = Dispatching \cup {a}
  /\ Exists' = Exists /\ runs' = runs /\ counted' = counted /\ Recording' = Recording
DispatchStep(a) ==
  /\ a \in Dispatching /\ Dispatching' = Dispatching \ {a}
  /\ Exists' = Exists /\ counted' = counted
  /\ \/ runs' = runs + 1 /\ Recording' = Recording \cup {a}
     \/ runs' = runs /\ Recording' = Recording
RecordStep(a) ==
  /\ a \in Recording /\ Recording' = Recording \ {a}
  /\ Exists => counted' = counted + 1
  /\ Exists' = Exists /\ runs' = runs /\ Dispatching' = Dispatching

LEMMA RunSteps ==
  ASSUME TypeOK, Places, [Next]_vars
  PROVE  \/ OtherStep \/ CreateStep \/ CrashStep
         \/ \E a \in Actors : DecideStep(a) \/ CountStep(a) \/ DispatchStep(a) \/ RecordStep(a)
<1> USE DEF store, disp, local, hist
<1> DEFINE Goal == \/ OtherStep \/ CreateStep \/ CrashStep
                   \/ \E a \in Actors : DecideStep(a) \/ CountStep(a) \/ DispatchStep(a) \/ RecordStep(a)
<1>0. runs \in Nat /\ counted \in Nat /\ pc \in [Actors -> Steps] /\ out \in [Actors -> Outcomes]
  BY DEF TypeOK
\* A step of one actor between other places, or to idle.
<1>1. ASSUME NEW a \in Actors, NEW s \in Steps, pc' = [pc EXCEPT ![a] = s],
             s \notin {"dispatch", "record"}, pc[a] \notin {"dispatch", "record"},
             out' = out, runs' = runs, counted' >= counted, Exists' => Exists
      PROVE  OtherStep
  BY <1>0, <1>1 DEF OtherStep, Dispatching, Recording
<1>2. ASSUME NEW a \in Actors, Done(a), pc[a] \notin {"dispatch", "record"},
             runs' = runs, counted' >= counted, Exists' => Exists
      PROVE  OtherStep
  BY <1>0, <1>2 DEF OtherStep, Dispatching, Recording, Done
<1>3. ASSUME UNCHANGED <<pc, out>>, runs' <= runs, counted' >= counted, Exists' => Exists
      PROVE  OtherStep
  BY <1>3, <1>0 DEF OtherStep, Dispatching, Recording
<1> USE <1>0
<1>4. ASSUME NEW k \in FrontEnds, Create(k) \/ CreateTorn(k) PROVE Goal
  BY <1>4 DEF Create, CreateTorn, Places, CreateStep, Dispatching, Recording, Goto
<1>5. CASE CreateState \/ UpdateRead \/ UpdateCompute \/ UpdateWrite
  <2>1. CASE CreateState
    BY <2>1, <1>2 DEF CreateState, Exists
  <2>2. CASE UpdateRead
    <3>1. CASE st.stored
      BY <2>2, <3>1, <1>1 DEF UpdateRead, Exists, Goto, Steps
    <3>2. CASE ~ st.stored
      BY <2>2, <3>2, <1>3 DEF UpdateRead, Exists
    <3>3. QED
      BY <3>1, <3>2
  <2>3. CASE UpdateCompute
    <3>1. /\ "update" \in Actors /\ pc["update"] = "read" /\ pc' = [pc EXCEPT !["update"] = "write"]
          /\ UNCHANGED <<out, runs, counted, status>>
      BY <2>3 DEF UpdateCompute, Goto
    <3>2. OtherStep
      BY <3>1, <1>0 DEF Exists, OtherStep, Dispatching, Recording
    <3>3. QED
      BY <3>2
  <2>4. CASE UpdateWrite
    BY <2>4, <1>2 DEF UpdateWrite, Exists
  <2>5. QED
    BY <1>5, <2>1, <2>2, <2>3, <2>4
<1>6. CASE SetEnabled \/ Delete \/ CliFire
  <2>1. CASE SetEnabled \/ CliFire
    BY <2>1, <1>3 DEF SetEnabled, CliFire, Exists
  <2>2. CASE Delete
    BY <2>2 DEF Delete, Exists, OtherStep, Dispatching, Recording
  <2>3. QED
    BY <1>6, <2>1, <2>2
<1>7. CASE TickList
  <2>1. /\ "tick" \in Actors /\ pc["tick"] = "idle" /\ pc' = [pc EXCEPT !["tick"] = "eval"]
        /\ UNCHANGED <<out, runs, counted, status>>
    BY <1>7 DEF TickList, Goto
  <2>2. OtherStep
    BY <2>1, <1>0 DEF Exists, OtherStep, Dispatching, Recording
  <2>3. QED
    BY <2>2
<1>8. CASE TickTime
  BY <1>8, <1>1, <1>2 DEF TickTime, Exists, Goto, Steps
<1>9. CASE TickFiles
  <2>1. CASE Done("tick")
    BY <1>9, <2>1, <1>2 DEF TickFiles, Exists
  <2>2. CASE ~ Done("tick")
    <3>1. PICK s \in {"after", "fire", "error"} : pc' = [pc EXCEPT !["tick"] = s]
      BY <1>9, <2>2 DEF TickFiles, Goto
    <3>2. s \in Steps
      BY DEF Steps
    <3>3. "tick" \in Actors /\ pc["tick"] = "eval" /\ UNCHANGED <<out, runs, counted, status>>
      BY <1>9, <2>2 DEF TickFiles
    <3>4. OtherStep
      BY <3>1, <3>2, <3>3, <1>0 DEF Exists, OtherStep, Dispatching, Recording
    <3>5. QED
      BY <3>4
  <2>3. QED
    BY <2>1, <2>2
<1>10. CASE TickTouch \/ TickAfterFails
  BY <1>10, <1>1 DEF TickTouch, TickAfterFails, Exists, Goto, Steps
<1>11. CASE TickAfter
  BY <1>11, <1>2 DEF TickAfter, Exists
<1>12. ASSUME NEW a \in Actors, FireDecide(a) PROVE Goal
  <2>1. pc[a] = "fire" /\ UNCHANGED <<status, runs, counted>>
    BY <1>12 DEF FireDecide
  <2>2. Policy \in {"queue", "skip", "reject"}
    BY SchedulerAssumption DEF TypeOK, Policy
  <2>3. CASE ~ (runs > 0 \/ foreign)
    <3>1. runs = 0 /\ pc' = [pc EXCEPT ![a] = "dispatch"] /\ out' = [out EXCEPT ![a] = "run_started"]
      BY <1>12, <2>3 DEF FireDecide, Goto
    <3>2. DecideStep(a)
      BY <2>1, <3>1 DEF DecideStep, Dispatching, Recording, Exists
    <3>3. QED
      BY <3>2
  <2>4. CASE runs > 0 \/ foreign
    <3>1. \E s \in {"count", "record"}, o \in {"queued", "skipped", "rejected"} :
            /\ pc' = [pc EXCEPT ![a] = s] /\ out' = [out EXCEPT ![a] = o]
            /\ s = "record" => o \in {"skipped", "rejected"}
      <4>1. CASE Policy = "queue"
        BY <1>12, <2>4, <4>1 DEF FireDecide, Goto
      <4>2. CASE Policy = "skip"
        BY <1>12, <2>4, <4>2 DEF FireDecide, Goto
      <4>3. CASE Policy = "reject"
        BY <1>12, <2>4, <4>3 DEF FireDecide, Goto
      <4>4. QED
        BY <2>2, <4>1, <4>2, <4>3
    <3>2. OtherStep
      BY <2>1, <3>1 DEF OtherStep, Dispatching, Recording, Exists
    <3>3. QED
      BY <3>2
  <2>5. QED
    BY <2>3, <2>4
<1>13. ASSUME NEW a \in Actors, FireCount(a) PROVE Goal
  <2>1. MaxQueueDepth \in Nat
    BY SchedulerAssumption
  <2>2. CASE counted >= MaxQueueDepth
    BY <1>13, <2>2 DEF FireCount, Goto, OtherStep, Dispatching, Recording, Exists
  <2>3. CASE counted < MaxQueueDepth
    <3>1. CountStep(a)
      BY <1>13, <2>1, <2>3 DEF FireCount, Goto, CountStep, Dispatching, Recording, Exists
    <3>2. QED
      BY <3>1
  <2>4. QED
    BY <2>1, <2>2, <2>3
<1>14. ASSUME NEW a \in Actors, FireDispatch(a) PROVE Goal
  <2>1. out[a] \in {"run_started", "queued"}
    BY <1>14 DEF FireDispatch, Places
  <2>2. DispatchStep(a)
    BY <1>14, <2>1 DEF FireDispatch, Goto, DispatchStep, Dispatching, Recording, Exists
  <2>3. QED
    BY <2>2
<1>15. ASSUME NEW a \in Actors, FireRecord(a) PROVE Goal
  <2>1. CASE out[a] \in {"run_started", "queued"}
    <3>1. RecordStep(a)
      BY <1>15, <2>1 DEF FireRecord, Goto, RecordStep, Dispatching, Recording, Exists
    <3>2. QED
      BY <3>1
  <2>2. CASE out[a] \notin {"run_started", "queued"}
    BY <1>15, <2>2 DEF FireRecord, Goto, OtherStep, Dispatching, Recording, Exists
  <2>3. QED
    BY <2>1, <2>2
<1>16. ASSUME NEW a \in Actors, ErrorRecord(a) \/ ErrorRead(a) \/ HookCall(a) \/ HookAfter(a)
       PROVE  Goal
  BY <1>16, <1>1 DEF ErrorRecord, ErrorRead, HookCall, HookAfter, Exists, Goto, Steps
<1>17. ASSUME NEW a \in Actors, ErrorWrite(a) \/ ErrorReturn(a) \/ HookMint(a) \/ HookAudit(a)
       PROVE  Goal
  BY <1>17, <1>2 DEF ErrorWrite, ErrorReturn, HookMint, HookAudit, Exists
<1>18. ASSUME NEW a \in Actors, HookToken(a) PROVE Goal
  <2> pc[a] = "token" /\ UNCHANGED <<status, runs, counted>>
    BY <1>18 DEF HookToken
  <2>1. CASE Done(a)
    BY <2>1, <1>2 DEF Exists
  <2>2. CASE ~ Done(a)
    <3>1. PICK s \in {"mint", "get"} : pc' = [pc EXCEPT ![a] = s] /\ out' = out
      BY <1>18, <2>2 DEF HookToken, Goto
    <3>2. s \in Steps
      BY DEF Steps
    <3>3. OtherStep
      BY <3>1, <3>2, <1>0 DEF Exists, OtherStep, Dispatching, Recording
    <3>4. QED
      BY <3>3
  <2>3. QED
    BY <2>1, <2>2
<1>19. ASSUME NEW a \in Actors, HookGet(a) PROVE Goal
  BY <1>19, <1>1, <1>2 DEF HookGet, Exists, Goto, Steps
<1>20. CASE ManualFire \/ Notify
  BY <1>20, <1>1 DEF ManualFire, Notify, Exists, Goto, Steps
<1>21. CASE ManualAfter \/ NotifyAfter
  BY <1>21, <1>2 DEF ManualAfter, NotifyAfter, Exists
<1>22. CASE Clock \/ FileArrives \/ RunCompletes \/ ForeignRun
  BY <1>22, <1>3 DEF Clock, FileArrives, RunCompletes, ForeignRun, Exists
<1>23. CASE Crash
  BY <1>23 DEF Crash, CrashStep, Dispatching, Recording
<1>24. CASE UNCHANGED vars
  BY <1>24, <1>3 DEF vars, Exists
<1>25. QED
  BY <1>4, <1>5, <1>6, <1>7, <1>8, <1>9, <1>10, <1>11, <1>12, <1>13, <1>14, <1>15, <1>16, <1>17,
     <1>18, <1>19, <1>20, <1>21, <1>22, <1>23, <1>24, NextCases

LEMMA SetFacts ==
  ASSUME TypeOK, Places
  PROVE  /\ IsFiniteSet(Dispatching) /\ Dispatching \subseteq Firing
         /\ IsFiniteSet(Recording) /\ Recording \subseteq Firing
         /\ Dispatching \cap Recording = {}
         /\ Cardinality(Dispatching) \in Nat /\ Cardinality(Recording) \in Nat
         /\ Cardinality(Dispatching) <= Cardinality(Firing)
<1>1. Dispatching \subseteq Firing /\ Recording \subseteq Firing /\ Dispatching \cap Recording = {}
  BY DEF Places, Dispatching, Recording
<1>2. IsFiniteSet(Dispatching) /\ Cardinality(Dispatching) <= Cardinality(Firing)
  BY <1>1, ActorsFinite, FS_Subset
<1>3. IsFiniteSet(Recording)
  BY <1>1, ActorsFinite, FS_Subset
<1>4. QED
  BY <1>1, <1>2, <1>3, FS_CardinalityType

LEMMA PolicyInit == Init => PolicyBound
<1> SUFFICES ASSUME Init PROVE PolicyBound
  OBVIOUS
<1>1. {a \in Actors : pc[a] = "dispatch"} = {} /\ runs = 0
  BY DEF Init
<1>2. QED
  BY <1>1, ActorsFinite, FS_EmptySet DEF PolicyBound

LEMMA PolicyStep ==
  ASSUME TypeOK, Places, Places', TypeOK', PolicyBound, [Next]_vars
  PROVE  PolicyBound'
<1>1. config' = config /\ Policy' = Policy /\ Firing' = Firing
  BY ConfigStays DEF Policy, Kind, Firing
<1> SUFFICES ASSUME Policy # "queue"
             PROVE  runs' + Cardinality(Dispatching') <= Cardinality(Firing)
  BY <1>1 DEF PolicyBound, Dispatching
<1>2. runs + Cardinality(Dispatching) <= Cardinality(Firing)
  BY DEF PolicyBound, Dispatching
<1>3. /\ runs \in Nat /\ runs' \in Nat /\ Cardinality(Firing) \in Nat
      /\ Cardinality(Dispatching) \in Nat /\ IsFiniteSet(Dispatching)
  BY SetFacts, ActorsFinite DEF TypeOK
<1>4. Cardinality(Dispatching') \in Nat /\ Cardinality(Dispatching') <= Cardinality(Firing)
  <2>1. Dispatching' \subseteq Firing
    BY <1>1 DEF Places, Dispatching
  <2>2. QED
    BY <2>1, ActorsFinite, FS_Subset, FS_CardinalityType
<1>5. CASE OtherStep
  BY <1>2, <1>3, <1>5 DEF OtherStep
<1>6. CASE CreateStep \/ CrashStep
  BY <1>3, <1>4, <1>6 DEF CreateStep, CrashStep
<1>7. ASSUME NEW a \in Actors, DecideStep(a)
      PROVE  runs' + Cardinality(Dispatching') <= Cardinality(Firing)
  BY <1>3, <1>4, <1>7 DEF DecideStep
<1>8. ASSUME NEW a \in Actors, CountStep(a) PROVE FALSE
  BY <1>8 DEF CountStep, Places
<1>9. ASSUME NEW a \in Actors, DispatchStep(a)
      PROVE  runs' + Cardinality(Dispatching') <= Cardinality(Firing)
  <2>1. Cardinality(Dispatching') = Cardinality(Dispatching) - 1
    BY <1>3, <1>9, FS_RemoveElement DEF DispatchStep
  <2>2. runs' <= runs + 1
    BY <1>3, <1>9 DEF DispatchStep
  <2>3. QED
    BY <1>2, <1>3, <1>4, <2>1, <2>2
<1>10. ASSUME NEW a \in Actors, RecordStep(a)
       PROVE  runs' + Cardinality(Dispatching') <= Cardinality(Firing)
  BY <1>2, <1>3, <1>10 DEF RecordStep
<1>11. QED
  BY RunSteps, <1>5, <1>6, <1>7, <1>8, <1>9, <1>10

\* Types and places together, as the other proofs use them.
Base == TypeOK /\ Places

LEMMA BaseInv == Spec => []Base
<1>1. Init => Base
  BY TypeInit, PlacesInit DEF Base
<1>2. Base /\ [Next]_vars => Base'
  BY TypeStep, PlacesStep DEF Base
<1>3. QED
  BY <1>1, <1>2, PTL DEF Spec

\* Under skip and reject the check and the dispatch are two calls, and still a
\* trigger has at most as many active runs as there are actors that may fire it.
THEOREM PolicyHolds == Spec => []PolicyBound
<1>1. Base /\ Base' /\ PolicyBound /\ [Next]_vars => PolicyBound'
  BY PolicyStep DEF Base
<1>2. QED
  BY PolicyInit, BaseInv, <1>1, PTL DEF Spec

\* While the trigger exists every active run has its history row, but for those
\* whose firing is about to write it; the bound counts the dispatches to come.
QueueInv ==
  Policy = "queue" /\ Exists
    => /\ runs <= counted + Cardinality(Recording)
       /\ runs + Cardinality(Dispatching) < Larger(MaxQueueDepth, 1) + Cardinality(Firing)

LEMMA QueueStep ==
  ASSUME Base, Base', QueueInv, [Next]_vars
  PROVE  QueueInv'
<1> USE DEF Base
<1>1. config' = config /\ Policy' = Policy /\ Firing' = Firing
  BY ConfigStays DEF Policy, Kind, Firing
<1>2. runs \in Nat /\ runs' \in Nat /\ counted \in Nat /\ counted' \in Nat
  BY DEF TypeOK
<1>3. IsFiniteSet(Dispatching) /\ IsFiniteSet(Recording)
  BY SetFacts
<1>4. IsFiniteSet(Dispatching') /\ IsFiniteSet(Recording') /\ Dispatching' \subseteq Firing
  <2>1. Dispatching' \subseteq Firing /\ Recording' \subseteq Firing
    BY <1>1 DEF Places, Dispatching, Recording
  <2>2. QED
    BY <2>1, ActorsFinite, FS_Subset
<1> SUFFICES
      ASSUME Policy = "queue", Exists',
             NEW d \in Nat, d = Cardinality(Dispatching), NEW r \in Nat, r = Cardinality(Recording),
             NEW dn \in Nat, dn = Cardinality(Dispatching'), NEW rn \in Nat, rn = Cardinality(Recording'),
             NEW n \in Nat, n = Cardinality(Firing), NEW m \in Nat, m = Larger(MaxQueueDepth, 1),
             NEW c \in Nat, c = counted, NEW cn \in Nat, cn = counted',
             NEW u \in Nat, u = runs, NEW un \in Nat, un = runs'
      PROVE  un <= cn + rn /\ un + dn < m + n
  <2>1. Cardinality(Dispatching) \in Nat /\ Cardinality(Recording) \in Nat /\ Cardinality(Firing) \in Nat
        /\ Cardinality(Dispatching') \in Nat /\ Cardinality(Recording') \in Nat
    BY <1>3, <1>4, ActorsFinite, FS_CardinalityType
  <2>2. Larger(MaxQueueDepth, 1) \in Nat
    BY SchedulerAssumption DEF Larger
  <2>3. QED
    BY <1>1, <1>2, <2>1, <2>2, Zenon DEF QueueInv
<1>5. m >= 1 /\ m >= MaxQueueDepth /\ MaxQueueDepth \in Nat
  BY SchedulerAssumption DEF Larger
<1>6. dn <= n
  BY <1>4, ActorsFinite, FS_Subset
<1>7. Exists => u <= c + r /\ u + d < m + n
  BY DEF QueueInv
<1>8. CASE OtherStep
  <2>1. dn = d /\ rn = r /\ un <= u /\ Exists /\ cn >= c
    BY <1>8 DEF OtherStep
  <2>2. QED
    BY <2>1, <1>7
<1>9. CASE CreateStep \/ CrashStep
  <2>1. un = 0 /\ dn = 0
    BY <1>9, FS_EmptySet DEF CreateStep, CrashStep
  <2>2. QED
    BY <2>1, <1>5
<1>10. ASSUME NEW a \in Actors, DecideStep(a) PROVE un <= cn + rn /\ un + dn < m + n
  <2>1. un = 0
    BY <1>10 DEF DecideStep
  <2>2. QED
    BY <2>1, <1>5, <1>6
<1>11. ASSUME NEW a \in Actors, CountStep(a) PROVE un <= cn + rn /\ un + dn < m + n
  <2>1. rn = r /\ un = u /\ cn = c /\ c < MaxQueueDepth /\ Exists
    BY <1>11 DEF CountStep
  <2>2. dn + r <= n
    <3>1. Dispatching' \cap Recording = {}
      BY <1>11, SetFacts DEF CountStep, Recording
    <3>2. IsFiniteSet(Dispatching' \cup Recording) /\ Dispatching' \cup Recording \subseteq Firing
      BY <1>3, <1>4, SetFacts, FS_Union
    <3>3. Cardinality(Dispatching' \cup Recording) <= n
      BY <3>2, ActorsFinite, FS_Subset
    <3>4. Cardinality(Dispatching' \cup Recording) = dn + r - Cardinality({})
      BY <1>3, <1>4, <3>1, FS_Union
    <3>5. Cardinality({}) = 0
      BY FS_EmptySet
    <3>6. QED
      BY <3>3, <3>4, <3>5
  <2>3. QED
    BY <2>1, <2>2, <1>5, <1>7
<1>12. ASSUME NEW a \in Actors, DispatchStep(a) PROVE un <= cn + rn /\ un + dn < m + n
  <2>1. dn = d - 1
    BY <1>3, <1>12, FS_RemoveElement DEF DispatchStep
  <2>2. \/ un = u + 1 /\ rn = r + 1
        \/ un = u /\ rn = r
    <3>1. a \notin Recording
      BY <1>12, SetFacts DEF DispatchStep
    <3>2. QED
      BY <1>3, <1>12, <3>1, FS_AddElement DEF DispatchStep
  <2>3. Exists /\ cn = c
    BY <1>12 DEF DispatchStep
  <2>4. QED
    BY <2>1, <2>2, <2>3, <1>7
<1>13. ASSUME NEW a \in Actors, RecordStep(a) PROVE un <= cn + rn /\ un + dn < m + n
  <2>1. dn = d /\ un = u /\ Exists /\ cn = c + 1
    BY <1>13 DEF RecordStep
  <2>2. rn = r - 1
    BY <1>3, <1>13, FS_RemoveElement DEF RecordStep
  <2>3. QED
    BY <2>1, <2>2, <1>7
<1>14. QED
  BY RunSteps, <1>8, <1>9, <1>10, <1>11, <1>12, <1>13

\* Under queue the runs of a trigger exceed max_queue_depth only by as many as
\* there are actors that may fire it, however long earlier runs take.
THEOREM QueueHolds == Spec => []QueueBound
<1>1. Init => QueueInv
  BY DEF Init, QueueInv, Exists
<1>2. Base /\ Base' /\ QueueInv /\ [Next]_vars => QueueInv'
  BY QueueStep
<1>3. Base /\ QueueInv => QueueBound
  <2> SUFFICES ASSUME Base, QueueInv, Policy = "queue", Exists
               PROVE  runs < Larger(MaxQueueDepth, 1) + Cardinality(Firing)
    BY DEF QueueBound
  <2>1. Cardinality(Dispatching) \in Nat /\ Cardinality(Firing) \in Nat /\ runs \in Nat
    BY SetFacts, ActorsFinite DEF Base, TypeOK
  <2>2. Larger(MaxQueueDepth, 1) \in Nat
    BY SchedulerAssumption DEF Larger
  <2>3. QED
    BY <2>1, <2>2 DEF QueueInv
<1>4. QED
  BY BaseInv, <1>1, <1>2, <1>3, PTL DEF Spec

-----------------------------------------------------------------------------
(* Files *)

\* Whatever row an actor holds or writes, its files have been offered.
SeenInv ==
  /\ st.seen \subseteq offered
  /\ \A a \in Actors :
       /\ rd[a].seen \subseteq offered
       /\ a # "tick" \/ pc[a] = "eval" \/ Kind # "file_arrival" => batch[a] = {}
       /\ pc[a] = "after" => batch[a] \subseteq offered

LEMMA UpsertSeen ==
  ASSUME TypeOK, SeenInv, NEW row \in RowType, row.seen \subseteq offered, Upsert(row)
  PROVE  st'.seen \subseteq offered
BY DEF TypeOK, SeenInv, Upsert, RowType

LEMMA DoneSeen ==
  ASSUME Base, SeenInv, NEW a \in Actors, Done(a), config' = config, offered' = offered,
         st'.seen \subseteq offered
  PROVE  SeenInv'
BY DEF Base, TypeOK, SeenInv, Done, Blank, Kind

LEMMA SeenStep == Base /\ SeenInv /\ [Next]_vars => SeenInv'
<1> SUFFICES ASSUME Base, TypeOK, SeenInv, [Next]_vars PROVE SeenInv'
  BY DEF Base
<1> USE DEF store, disp, local, hist
<1>0. \A a \in Actors : rd[a] \in RowType /\ pc[a] \in Steps /\ at[a] \in Nat
  BY DEF TypeOK
<1> config' = config /\ Kind' = Kind
  BY ConfigStays DEF Kind
<1>1. ASSUME NEW k \in FrontEnds, Create(k) \/ CreateTorn(k) PROVE SeenInv'
  BY <1>1 DEF TypeOK, SeenInv, Create, CreateTorn, FirstRow, Blank, Goto
<1>2. CASE CreateState
  <2>1. [Blank EXCEPT !.next = ComputeNext(now)] \in RowType
    <3>1. ComputeNext(now) \in Nat
      BY ComputeNextType DEF TypeOK
    <3>2. QED
      BY <3>1, BlankType DEF RowType
  <2>2. st'.seen \subseteq offered
    BY <1>2, <2>1, UpsertSeen DEF CreateState, Blank
  <2>3. QED
    BY <1>2, <2>2, DoneSeen DEF CreateState
<1>3. CASE UpdateRead
  BY <1>3 DEF TypeOK, SeenInv, UpdateRead, Goto
<1>4. CASE UpdateCompute
  BY <1>4 DEF TypeOK, SeenInv, UpdateCompute, Goto
<1>5. CASE UpdateWrite
  <2>1. [rd["update"] EXCEPT !.next = ComputeNext(at["update"])] \in RowType
    BY <1>5, ComputeNextType DEF UpdateWrite, TypeOK, RowType
  <2>2. rd["update"] \in RowType /\ rd["update"].seen \subseteq offered
    BY <1>5, <1>0 DEF UpdateWrite, SeenInv
  <2>3. [rd["update"] EXCEPT !.next = ComputeNext(at["update"])].seen \subseteq offered
    BY <2>2 DEF RowType
  <2>4. st'.seen \subseteq offered
    BY <1>5, <2>1, <2>3, UpsertSeen DEF UpdateWrite
  <2>5. QED
    BY <1>5, <2>4, DoneSeen DEF UpdateWrite
<1>6. CASE SetEnabled \/ Delete \/ CliFire
  BY <1>6 DEF SetEnabled, Delete, CliFire, SeenInv, Blank
<1>7. CASE TickList
  BY <1>7 DEF TypeOK, SeenInv, TickList, Goto, Base, Places
<1>8. CASE TickTime
  <2>1. CASE Done("tick")
    BY <1>8, <2>1, DoneSeen DEF TickTime, SeenInv
  <2>2. CASE ~ Done("tick")
    BY <1>8, <2>2 DEF TypeOK, SeenInv, TickTime, Goto
  <2>3. QED
    BY <2>1, <2>2
<1>9. CASE TickFiles
  <2>1. CASE Done("tick")
    BY <1>9, <2>1, DoneSeen DEF TickFiles, SeenInv
  <2>2. CASE ~ Done("tick")
    <3>1. /\ "tick" \in Actors /\ Kind = "file_arrival"
          /\ rd' = [rd EXCEPT !["tick"] = st] /\ UNCHANGED <<st, offered>>
          /\ batch' = [batch EXCEPT !["tick"] = files \ st.seen]
      BY <1>9, <2>2 DEF TickFiles
    <3>2. PICK s \in {"after", "fire", "error"} :
            pc' = [pc EXCEPT !["tick"] = s] /\ (s = "after" => files \ st.seen = {})
      BY <1>9, <2>2 DEF TickFiles, Goto
    <3>3. QED
      BY <3>1, <3>2 DEF TypeOK, SeenInv
  <2>3. QED
    BY <2>1, <2>2
<1>10. CASE TickTouch \/ TickAfterFails
  BY <1>10 DEF TypeOK, SeenInv, TickTouch, TickAfterFails, Goto
<1>11. CASE TickAfter
  <2>1. rd["tick"] \in RowType /\ rd["tick"].seen \cup batch["tick"] \subseteq offered
    BY <1>11, <1>0 DEF TickAfter, SeenInv
  <2>2. TickRow \in RowType /\ TickRow.seen = rd["tick"].seen \cup batch["tick"]
    BY <1>11, <2>1, TickRowType DEF TickAfter, TickRow, RowType
  <2>3. st'.seen \subseteq offered
    BY <1>11, <2>1, <2>2, UpsertSeen DEF TickAfter
  <2>4. QED
    BY <1>11, <2>3, DoneSeen DEF TickAfter
<1>12. ASSUME NEW a \in Actors, FireDecide(a) \/ FireCount(a) PROVE SeenInv'
  <2>1. UNCHANGED <<st, rd, batch, offered>> /\ pc[a] \in {"fire", "count"}
    BY <1>12 DEF FireDecide, FireCount
  <2>2. PICK s \in {"count", "dispatch", "record"} : pc' = [pc EXCEPT ![a] = s]
    <3>1. Policy \in {"queue", "skip", "reject"}
      BY SchedulerAssumption DEF TypeOK, Policy
    <3>2. CASE FireDecide(a) /\ ~ (runs > 0 \/ foreign)
      BY <3>2 DEF FireDecide, Goto
    <3>3. CASE FireDecide(a) /\ (runs > 0 \/ foreign) /\ Policy = "queue"
      BY <3>3 DEF FireDecide, Goto
    <3>4. CASE FireDecide(a) /\ (runs > 0 \/ foreign) /\ Policy = "skip"
      BY <3>4 DEF FireDecide, Goto
    <3>5. CASE FireDecide(a) /\ (runs > 0 \/ foreign) /\ Policy = "reject"
      BY <3>5 DEF FireDecide, Goto
    <3>6. CASE FireCount(a)
      BY <3>6 DEF FireCount, Goto
    <3>7. QED
      BY <1>12, <3>1, <3>2, <3>3, <3>4, <3>5, <3>6
  <2>3. QED
    BY <2>1, <2>2 DEF TypeOK, SeenInv
<1>13. ASSUME NEW a \in Actors, FireDispatch(a) PROVE SeenInv'
  BY <1>13 DEF FireDispatch, TypeOK, SeenInv, Goto
<1>14. ASSUME NEW a \in Actors, FireRecord(a) PROVE SeenInv'
  BY <1>14 DEF FireRecord, TypeOK, SeenInv, Goto
<1>15. ASSUME NEW a \in Actors, ErrorRecord(a) \/ ErrorRead(a) PROVE SeenInv'
  BY <1>15 DEF ErrorRecord, ErrorRead, TypeOK, SeenInv, Goto
<1>16. ASSUME NEW a \in Actors, ErrorWrite(a) PROVE SeenInv'
  <2>1. rd[a] \in RowType /\ rd[a].seen \subseteq offered /\ at[a] \in Nat
    BY <1>0 DEF SeenInv
  <2>2. [rd[a] EXCEPT !.eval = at[a]] \in RowType /\ [rd[a] EXCEPT !.eval = at[a]].seen = rd[a].seen
    BY <2>1 DEF RowType
  <2>3. st'.seen \subseteq offered
    BY <1>16, <2>1, <2>2, UpsertSeen DEF ErrorWrite
  <2>4. QED
    BY <1>16, <2>3, DoneSeen DEF ErrorWrite
<1>17. ASSUME NEW a \in Actors, ErrorReturn(a) \/ HookAudit(a) PROVE SeenInv'
  BY <1>17, DoneSeen DEF ErrorReturn, HookAudit, SeenInv
<1>18. ASSUME NEW a \in Actors, HookCall(a) PROVE SeenInv'
  BY <1>18 DEF HookCall, TypeOK, SeenInv, Goto
<1>19. ASSUME NEW a \in Actors, HookToken(a) PROVE SeenInv'
  <2>1. UNCHANGED <<st, offered>>
    BY <1>19 DEF HookToken
  <2>2. CASE Done(a)
    BY <2>1, <2>2, DoneSeen DEF SeenInv
  <2>3. CASE ~ Done(a)
    <3>1. PICK s \in {"mint", "get"} : pc' = [pc EXCEPT ![a] = s] /\ batch' = batch
      BY <1>19, <2>3 DEF HookToken, Goto
    <3>2. rd' = rd \/ rd' = [rd EXCEPT ![a] = st]
      BY <1>19, <2>3 DEF HookToken, Goto
    <3>3. QED
      BY <2>1, <3>1, <3>2 DEF TypeOK, SeenInv
  <2>4. QED
    BY <2>2, <2>3
<1>20. ASSUME NEW a \in Actors, HookMint(a) PROVE SeenInv'
  <2>1. rd[a] \in RowType /\ rd[a].seen \subseteq offered /\ tokens' \in Nat
    BY <1>0, <1>20 DEF SeenInv, HookMint, TypeOK
  <2>2. /\ [rd[a] EXCEPT !.next = 0, !.token = tokens'] \in RowType
        /\ [rd[a] EXCEPT !.next = 0, !.token = tokens'].seen = rd[a].seen
    BY <2>1 DEF RowType
  <2>3. st'.seen \subseteq offered
    BY <1>20, <2>1, <2>2, UpsertSeen DEF HookMint
  <2>4. QED
    BY <1>20, <2>3, DoneSeen DEF HookMint
<1>21. ASSUME NEW a \in Actors, HookGet(a) PROVE SeenInv'
  <2>1. CASE Done(a)
    BY <1>21, <2>1, DoneSeen DEF HookGet, SeenInv
  <2>2. CASE ~ Done(a)
    BY <1>21, <2>2 DEF HookGet, TypeOK, SeenInv, Goto
  <2>3. QED
    BY <2>1, <2>2
<1>22. ASSUME NEW a \in Actors, HookAfter(a) PROVE SeenInv'
  <2>1. [Blank EXCEPT !.eval = at[a]] \in RowType /\ [Blank EXCEPT !.eval = at[a]].seen = {}
    BY <1>0, BlankType DEF RowType, Blank
  <2>2. st'.seen \subseteq offered
    BY <1>22, <2>1, UpsertSeen DEF HookAfter
  <2>3. QED
    BY <1>22, <2>2 DEF HookAfter, TypeOK, SeenInv, Goto
<1>23. CASE ManualFire \/ Notify
  BY <1>23 DEF ManualFire, Notify, TypeOK, SeenInv, Goto
<1>24. CASE ManualAfter
  BY <1>24, DoneSeen DEF ManualAfter, SeenInv
<1>25. CASE NotifyAfter
  <2>1. [Blank EXCEPT !.eval = at["notify"]] \in RowType /\ [Blank EXCEPT !.eval = at["notify"]].seen = {}
    BY <1>0, <1>25, BlankType DEF RowType, Blank, NotifyAfter
  <2>2. st'.seen \subseteq offered
    BY <1>25, <2>1, UpsertSeen DEF NotifyAfter
  <2>3. QED
    BY <1>25, <2>2, DoneSeen DEF NotifyAfter
<1>26. CASE Clock \/ FileArrives \/ RunCompletes \/ ForeignRun
  BY <1>26 DEF Clock, FileArrives, RunCompletes, ForeignRun, SeenInv
<1>27. CASE Crash
  BY <1>27 DEF Crash, SeenInv, Blank
<1>28. CASE UNCHANGED vars
  BY <1>28 DEF vars, SeenInv
<1>29. QED
  BY <1>1, <1>2, <1>3, <1>4, <1>5, <1>6, <1>7, <1>8, <1>9, <1>10, <1>11, <1>12, <1>13, <1>14,
     <1>15, <1>16, <1>17, <1>18, <1>19, <1>20, <1>21, <1>22, <1>23, <1>24, <1>25, <1>26, <1>27,
     <1>28, NextCases

LEMMA SeenAlways == Spec => []SeenInv
<1>1. Init => SeenInv
  BY DEF Init, SeenInv, Blank
<1>2. QED
  BY BaseInv, SeenStep, <1>1, PTL DEF Spec

\* A firing that is refused, queue full or rejected, leaves its files to be found
\* again: a file is marked seen only when its firing was dispatched, skipped or
\* failed in the dispatcher, whichever actor's row is written over which.
THEOREM RefusedFilesHold == Spec => []RefusedFilesStay
<1>1. SeenInv => RefusedFilesStay
  BY DEF SeenInv, RefusedFilesStay
<1>2. QED
  BY SeenAlways, <1>1, PTL

\* While no state write is lost, a file whose run was started is marked seen, or
\* will be by the write of the tick that started it; no run was started for a
\* file that a tick is about to fire.
Started ==
  /\ "tick" \in Actors
  /\ pc["tick"] = "after" \/ (pc["tick"] = "record" /\ out["tick"] \in {"run_started", "queued"})

OnceInv ==
  /\ Kind # "file_arrival" => \A f \in Files : fired[f] = 0
  /\ status = "absent" => \A f \in Files : fired[f] = 0
  /\ ~disturbed /\ Exists
       => \A f \in Files :
            /\ fired[f] <= 1
            /\ fired[f] = 1 => f \in st.seen \/ (Started /\ f \in batch["tick"])
            /\ "tick" \in Actors /\ pc["tick"] \in {"fire", "count", "dispatch"} /\ f \in batch["tick"]
                 => fired[f] = 0

\* A step that leaves the files' runs and the seen files alone, of an actor that
\* is not the tick or that leaves the tick where it was.
LEMMA OnceQuiet ==
  ASSUME Base, SeenInv, OnceInv, config' = config, fired' = fired,
         Exists' => Exists, status' = "absent" => status = "absent",
         disturbed' = FALSE => disturbed = FALSE,
         Exists' /\ disturbed' = FALSE => st.seen \subseteq st'.seen,
         "tick" \in Actors => /\ pc'["tick"] = pc["tick"] /\ out'["tick"] = out["tick"]
                              /\ batch'["tick"] = batch["tick"],
         "update" \in Actors /\ pc'["update"] = "insert"
            => pc["update"] = "insert" /\ rd'["update"] = rd["update"]
  PROVE  OnceInv'
<1>1. Kind' = Kind /\ fired \in [Files -> Nat] /\ disturbed \in BOOLEAN
  BY DEF Kind, Base, TypeOK
<1>2. Started' = Started
  BY DEF Started
<1>3. ASSUME ~disturbed', Exists', NEW f \in Files
      PROVE  /\ fired'[f] <= 1
             /\ fired'[f] = 1 => f \in st'.seen \/ (Started' /\ f \in batch'["tick"])
             /\ "tick" \in Actors /\ pc'["tick"] \in {"fire", "count", "dispatch"} /\ f \in batch'["tick"]
                  => fired'[f] = 0
  <2>1. ~disturbed /\ Exists /\ st.seen \subseteq st'.seen
    BY <1>3, <1>1
  <2>2. QED
    BY <2>1, <1>1, <1>2 DEF OnceInv, Started
<1>4. QED
  BY <1>1, <1>3 DEF OnceInv

\* The same for a tick that goes to a place where it has nothing left to mark.
LEMMA OnceIdle ==
  ASSUME Base, SeenInv, OnceInv, config' = config, fired' = fired, "tick" \in Actors,
         Exists' => Exists, status' = "absent" => status = "absent",
         disturbed' = FALSE => disturbed = FALSE,
         Exists' /\ disturbed' = FALSE => st.seen \subseteq st'.seen,
         disturbed' = FALSE => ~ Started,
         pc'["tick"] \notin {"fire", "count", "dispatch"},
         "update" \in Actors => pc'["update"] = pc["update"] /\ rd'["update"] = rd["update"]
  PROVE  OnceInv'
<1>1. Kind' = Kind /\ fired \in [Files -> Nat] /\ disturbed \in BOOLEAN
  BY DEF Kind, Base, TypeOK
<1>2. ASSUME ~disturbed', Exists', NEW f \in Files
      PROVE  fired'[f] <= 1 /\ (fired'[f] = 1 => f \in st'.seen)
  <2>1. ~disturbed /\ Exists /\ st.seen \subseteq st'.seen /\ ~ Started
    BY <1>2, <1>1
  <2>2. QED
    BY <2>1, <1>1 DEF OnceInv
<1>3. QED
  BY <1>1, <1>2 DEF OnceInv

\* A write of the row the writer has read leaves the row's other fields alone.
LEMMA WriteKeeps ==
  ASSUME TypeOK, NEW a \in Actors, NEW row \in RowType, row.seen = rd[a].seen, Upsert(row), Stale(a),
         status' = status, Exists', disturbed' = FALSE
  PROVE  st'.seen = st.seen
<1>1. Exists /\ st = rd[a]
  BY DEF Stale, Exists
<1>2. QED
  BY <1>1 DEF Upsert, RowType

LEMMA OnceStep == Base /\ SeenInv /\ OnceInv /\ [Next]_vars => OnceInv'
<1> SUFFICES ASSUME Base, TypeOK, Places, SeenInv, OnceInv, [Next]_vars PROVE OnceInv'
  BY DEF Base
<1> USE DEF store, disp, local, hist
<1>0. config' = config /\ Kind' = Kind
  BY ConfigStays DEF Kind
<1>00. /\ fired \in [Files -> Nat] /\ disturbed \in BOOLEAN /\ st \in RowType
       /\ pc \in [Actors -> Steps] /\ rd \in [Actors -> RowType] /\ out \in [Actors -> Outcomes]
       /\ batch \in [Actors -> SUBSET Files] /\ at \in [Actors -> Nat]
  BY DEF TypeOK
<1>1. ASSUME NEW k \in FrontEnds, Create(k) \/ CreateTorn(k) PROVE OnceInv'
  <2>1. \A f \in Files : fired'[f] = 0
    BY <1>1 DEF Create, CreateTorn, OnceInv
  <2>3. "tick" \in Actors => pc'["tick"] = "idle"
    BY <1>1, <1>00 DEF Create, CreateTorn, Places, Goto
  <2>4. status' # "absent"
    BY <1>1 DEF Create, CreateTorn
  <2>5. QED
    BY <2>1, <2>3, <2>4, <1>0 DEF OnceInv
<1>2. CASE CreateState
  <2>1. rd["update"] = FirstRow /\ "update" \in Actors
    BY <1>2 DEF CreateState, Places
  <2>2. Exists' /\ disturbed' = FALSE => st.seen \subseteq st'.seen
    <3>1. SUFFICES ASSUME Exists', disturbed' = FALSE PROVE st.seen \subseteq st'.seen
      OBVIOUS
    <3>2. Stale("update") /\ status' = status
      BY <1>2 DEF CreateState
    <3>3. st = FirstRow
      BY <2>1, <3>1, <3>2 DEF Stale, Exists
    <3>4. QED
      BY <3>3 DEF FirstRow, Blank
  <2>3. QED
    BY <1>2, <1>0, <1>00, <2>2, OnceQuiet DEF CreateState, Stale, Done, Exists
<1>3. CASE UpdateRead
  BY <1>3, <1>0, <1>00, OnceQuiet DEF UpdateRead, Goto, Exists
<1>4. CASE UpdateCompute
  BY <1>4, <1>0, <1>00, OnceQuiet DEF UpdateCompute, Goto, Exists
<1>5. CASE UpdateWrite
  <2>1. /\ [rd["update"] EXCEPT !.next = ComputeNext(at["update"])] \in RowType
        /\ [rd["update"] EXCEPT !.next = ComputeNext(at["update"])].seen = rd["update"].seen
    BY <1>5, ComputeNextType DEF UpdateWrite, TypeOK, RowType
  <2>2. Exists' /\ disturbed' = FALSE => st.seen \subseteq st'.seen
    BY <1>5, <2>1, WriteKeeps DEF UpdateWrite
  <2>3. QED
    BY <1>5, <1>0, <1>00, <2>2, OnceQuiet DEF UpdateWrite, Stale, Done, Exists
<1>6. CASE SetEnabled \/ CliFire
  BY <1>6, <1>0, <1>00, OnceQuiet DEF SetEnabled, CliFire, Exists
<1>7. CASE Delete
  BY <1>7, <1>0, <1>00, OnceQuiet DEF Delete, Exists
<1>8. CASE TickList
  BY <1>8, <1>0, <1>00, OnceIdle DEF TickList, Goto, Exists, Started
<1>9. CASE TickTime
  <2>1. CASE Done("tick")
    BY <1>9, <2>1, <1>0, <1>00, OnceIdle DEF TickTime, Exists, Started, Done
  <2>2. CASE ~ Done("tick")
    <3>1. \A f \in Files : fired'[f] = 0
      BY <1>9 DEF TickTime, OnceInv
    <3>2. "update" \in Actors => pc'["update"] = pc["update"] /\ rd'["update"] = rd["update"]
      BY <1>9, <1>00, <2>2 DEF TickTime, Goto
    <3>3. QED
      BY <3>1, <3>2 DEF OnceInv
  <2>3. QED
    BY <2>1, <2>2
<1>10. CASE TickFiles
  <2>1. CASE Done("tick")
    BY <1>10, <2>1, <1>0, <1>00, OnceIdle DEF TickFiles, Exists, Started, Done
  <2>2. CASE ~ Done("tick")
    <3>1. /\ "tick" \in Actors /\ pc["tick"] = "eval" /\ UNCHANGED <<st, fired, status, disturbed>>
          /\ rd' = [rd EXCEPT !["tick"] = st]
          /\ batch' = [batch EXCEPT !["tick"] = files \ st.seen]
      BY <1>10, <2>2 DEF TickFiles
    <3>2. PICK s \in {"after", "fire", "error"} : pc' = [pc EXCEPT !["tick"] = s]
      BY <1>10, <2>2 DEF TickFiles, Goto
    <3>3. "update" \in Actors => pc'["update"] = pc["update"] /\ rd'["update"] = rd["update"]
      BY <3>1, <3>2, <1>00
    <3>4. ASSUME ~disturbed', Exists', NEW f \in Files
          PROVE  fired'[f] <= 1 /\ (fired'[f] = 1 => f \in st.seen)
      BY <3>1, <3>4 DEF OnceInv, Started, Exists
    <3>5. ASSUME ~disturbed', Exists', NEW f \in Files, f \in batch'["tick"]
          PROVE  fired'[f] = 0
      BY <3>1, <3>4, <3>5, <1>00
    <3>6. QED
      BY <1>0, <3>1, <3>3, <3>4, <3>5 DEF OnceInv, Exists
  <2>3. QED
    BY <2>1, <2>2
<1>11. CASE TickTouch
  BY <1>11, <1>0, <1>00, OnceIdle DEF TickTouch, Goto, Exists, Started
<1>12. CASE TickAfterFails
  BY <1>12, <1>0, <1>00, OnceIdle DEF TickAfterFails, Goto, Exists
<1>13. CASE TickAfter
  <2>1. "tick" \in Actors /\ pc["tick"] = "after" /\ Upsert(TickRow) /\ Stale("tick") /\ Done("tick")
        /\ UNCHANGED <<status, fired>>
    BY <1>13 DEF TickAfter
  <2>2. TickRow.seen = rd["tick"].seen \cup batch["tick"] /\ TickRow \in RowType
    BY <2>1, <1>00, TickRowType DEF TickRow, RowType
  <2>3. ASSUME ~disturbed', Exists', NEW f \in Files
        PROVE  fired'[f] <= 1 /\ (fired'[f] = 1 => f \in st'.seen)
    <3>1. Exists /\ ~disturbed /\ st = rd["tick"]
      BY <2>1, <2>3, <1>00 DEF Stale, Exists
    <3>2. st'.seen = st.seen \cup batch["tick"]
      BY <2>1, <2>2, <3>1 DEF Upsert, RowType
    <3>3. fired[f] <= 1 /\ (fired[f] = 1 => f \in st.seen \/ f \in batch["tick"])
      BY <3>1 DEF OnceInv
    <3>4. QED
      BY <3>2, <3>3, <2>1
  <2>4. "update" \in Actors => pc'["update"] = pc["update"] /\ rd'["update"] = rd["update"]
    BY <2>1, <1>00 DEF Done
  <2>5. pc'["tick"] = "idle"
    BY <2>1, <1>00 DEF Done
  <2>6. QED
    BY <1>0, <2>1, <2>3, <2>4, <2>5 DEF OnceInv
<1>14. ASSUME NEW a \in Actors, FireDecide(a) \/ FireCount(a) PROVE OnceInv'
  <2>1. UNCHANGED <<st, rd, batch, fired, disturbed, status>> /\ pc[a] \in {"fire", "count"}
    BY <1>14 DEF FireDecide, FireCount
  <2>2. PICK s \in {"count", "dispatch", "record"}, o \in Outcomes :
          /\ pc' = [pc EXCEPT ![a] = s] /\ (out' = out \/ out' = [out EXCEPT ![a] = o])
    <3>1. Policy \in {"queue", "skip", "reject"}
      BY SchedulerAssumption DEF TypeOK, Policy
    <3>2. CASE FireDecide(a) /\ ~ (runs > 0 \/ foreign)
      BY <3>2 DEF FireDecide, Goto, Outcomes
    <3>3. CASE FireDecide(a) /\ (runs > 0 \/ foreign) /\ Policy = "queue"
      BY <3>3 DEF FireDecide, Goto, Outcomes
    <3>4. CASE FireDecide(a) /\ (runs > 0 \/ foreign) /\ Policy = "skip"
      BY <3>4 DEF FireDecide, Goto, Outcomes
    <3>5. CASE FireDecide(a) /\ (runs > 0 \/ foreign) /\ Policy = "reject"
      BY <3>5 DEF FireDecide, Goto, Outcomes
    <3>6. CASE FireCount(a)
      BY <3>6 DEF FireCount, Goto, Outcomes
    <3>7. QED
      BY <1>14, <3>1, <3>2, <3>3, <3>4, <3>5, <3>6
  <2>3. CASE a = "tick"
    <3>1. ~ Started /\ pc["tick"] \in {"fire", "count"}
      BY <2>1, <2>3 DEF Started
    <3>2. "update" \in Actors => pc'["update"] = pc["update"] /\ rd'["update"] = rd["update"]
      BY <2>1, <2>2, <2>3, <1>00
    <3>3. QED
      BY <1>0, <2>1, <2>3, <3>1, <3>2 DEF OnceInv, Exists
  <2>4. CASE a # "tick"
    <3>1. "tick" \in Actors => pc'["tick"] = pc["tick"] /\ out'["tick"] = out["tick"]
      BY <2>2, <2>4, <1>00
    <3>2. "update" \in Actors /\ pc'["update"] = "insert" => pc["update"] = "insert"
      BY <2>2, <1>00
    <3>3. QED
      BY <1>0, <2>1, <3>1, <3>2, OnceQuiet DEF Exists
  <2>5. QED
    BY <2>3, <2>4
<1>15. ASSUME NEW a \in Actors, FireDispatch(a) PROVE OnceInv'
  <2>1. /\ pc[a] = "dispatch" /\ pc' = [pc EXCEPT ![a] = "record"]
        /\ UNCHANGED <<st, rd, batch, disturbed, status>>
    BY <1>15 DEF FireDispatch, Goto
  <2>2. \/ /\ fired' = [f \in Files |-> IF f \in batch[a] THEN fired[f] + 1 ELSE fired[f]]
           /\ out' = out
        \/ /\ fired' = fired /\ out' = [out EXCEPT ![a] = "error"]
    BY <1>15 DEF FireDispatch
  <2>3. "update" \in Actors /\ pc'["update"] = "insert" => pc["update"] = "insert"
    BY <2>1, <1>00
  <2>4. CASE a = "tick"
    <3>1. Kind # "file_arrival" => fired' = fired
      <4>1. SUFFICES ASSUME Kind # "file_arrival" PROVE fired' = fired
        OBVIOUS
      <4>2. batch[a] = {}
        BY <4>1 DEF SeenInv
      <4>3. QED
        BY <4>2, <2>2, <1>00
    <3>2. status # "absent" /\ status' # "absent"
      BY <2>1 DEF Places
    <3>3. "update" \in Actors => pc'["update"] = pc["update"] /\ rd'["update"] = rd["update"]
      BY <2>1, <2>4, <1>00
    <3>4. ASSUME ~disturbed', Exists', NEW f \in Files
          PROVE  fired'[f] <= 1 /\ (fired'[f] = 1 => f \in st'.seen \/ (Started' /\ f \in batch'["tick"]))
      <4>1. fired[f] <= 1 /\ (fired[f] = 1 => f \in st.seen) /\ (f \in batch["tick"] => fired[f] = 0)
        BY <2>1, <2>4, <3>4 DEF OnceInv, Started, Exists
      <4>2. CASE out' = out
        <5>1. out["tick"] \in {"run_started", "queued"}
          BY <2>1, <2>4 DEF Places
        <5>2. Started'
          BY <2>1, <2>4, <4>2, <5>1, <1>00 DEF Started
        <5>3. f \notin batch["tick"] => fired'[f] = fired[f]
          BY <2>2, <2>4, <1>00
        <5>4. f \in batch["tick"] => fired'[f] \in {fired[f], fired[f] + 1}
          BY <2>2, <2>4, <1>00
        <5>5. QED
          BY <4>1, <5>2, <5>3, <5>4, <2>1, <1>00
      <4>3. CASE fired' = fired
        BY <4>1, <4>3, <2>1
      <4>4. QED
        BY <2>2, <4>2, <4>3
    <3>5. pc'["tick"] = "record"
      BY <2>1, <2>4, <1>00
    <3>6. QED
      BY <1>0, <3>1, <3>2, <3>3, <3>4, <3>5 DEF OnceInv
  <2>5. CASE a # "tick"
    <3>1. batch[a] = {} /\ fired' = fired
      BY <2>2, <2>5, <1>00 DEF SeenInv
    <3>2. "tick" \in Actors => pc'["tick"] = pc["tick"] /\ out'["tick"] = out["tick"]
      BY <2>1, <2>2, <2>5, <1>00
    <3>3. QED
      BY <1>0, <2>1, <2>3, <3>1, <3>2, OnceQuiet DEF Exists
  <2>6. QED
    BY <2>4, <2>5
<1>16. ASSUME NEW a \in Actors, FireRecord(a) PROVE OnceInv'
  <2>1. PICK s \in {"error", "after"} :
          /\ pc[a] = "record" /\ pc' = [pc EXCEPT ![a] = s]
          /\ s = "error" => out[a] \in {"full", "rejected"}
          /\ UNCHANGED <<st, rd, out, batch, fired, disturbed, status>>
    BY <1>16 DEF FireRecord, Goto
  <2>2. "update" \in Actors /\ pc'["update"] = "insert" => pc["update"] = "insert"
    BY <2>1, <1>00
  <2>3. CASE a = "tick"
    <3>1. Started => Started'
      BY <2>1, <2>3, <1>00 DEF Started
    <3>2. pc'["tick"] \notin {"fire", "count", "dispatch"}
      BY <2>1, <2>3, <1>00
    <3>3. QED
      BY <1>0, <2>1, <2>2, <3>1, <3>2 DEF OnceInv, Exists
  <2>4. CASE a # "tick"
    <3>1. "tick" \in Actors => pc'["tick"] = pc["tick"] /\ out'["tick"] = out["tick"]
      BY <2>1, <2>4, <1>00
    <3>2. QED
      BY <1>0, <2>1, <2>2, <3>1, OnceQuiet DEF Exists
  <2>5. QED
    BY <2>3, <2>4
<1>17. ASSUME NEW a \in Actors, ErrorRecord(a) \/ ErrorRead(a) PROVE OnceInv'
  <2>1. PICK s \in {"errread", "errwrite"} :
          /\ pc[a] \in {"error", "errread"} /\ pc' = [pc EXCEPT ![a] = s]
          /\ UNCHANGED <<st, out, batch, fired, disturbed, status>>
          /\ rd' = rd \/ rd' = [rd EXCEPT ![a] = st]
    BY <1>17 DEF ErrorRecord, ErrorRead, Goto
  <2>2. a # "update"
    BY <2>1 DEF Places
  <2>3. "update" \in Actors => pc'["update"] = pc["update"] /\ rd'["update"] = rd["update"]
    BY <2>1, <2>2, <1>00
  <2>4. CASE a = "tick"
    BY <1>0, <2>1, <2>3, <2>4, <1>00, OnceIdle DEF Started, Exists
  <2>5. CASE a # "tick"
    <3>1. "tick" \in Actors => pc'["tick"] = pc["tick"]
      BY <2>1, <2>5, <1>00
    <3>2. QED
      BY <1>0, <2>1, <2>3, <3>1, OnceQuiet DEF Exists
  <2>6. QED
    BY <2>4, <2>5
<1>18. ASSUME NEW a \in Actors, ErrorWrite(a) PROVE OnceInv'
  <2>1. [rd[a] EXCEPT !.eval = at[a]] \in RowType /\ [rd[a] EXCEPT !.eval = at[a]].seen = rd[a].seen
    BY <1>00 DEF RowType
  <2>2. pc[a] = "errwrite" /\ Done(a) /\ Stale(a) /\ UNCHANGED <<status, fired>>
    BY <1>18 DEF ErrorWrite
  <2>3. Exists' /\ disturbed' = FALSE => st.seen \subseteq st'.seen
    BY <1>18, <2>1, <2>2, WriteKeeps DEF ErrorWrite
  <2>4. a # "update"
    BY <2>2 DEF Places
  <2>5. "update" \in Actors => pc'["update"] = pc["update"] /\ rd'["update"] = rd["update"]
    BY <2>2, <2>4, <1>00 DEF Done
  <2>6. disturbed' = FALSE => disturbed = FALSE
    BY <2>2, <1>00 DEF Stale
  <2>7. CASE a = "tick"
    <3>1. ~ Started /\ pc'["tick"] = "idle"
      BY <2>2, <2>7, <1>00 DEF Started, Done
    <3>2. QED
      BY <1>0, <2>2, <2>3, <2>5, <2>6, <2>7, <3>1, OnceIdle DEF Exists
  <2>8. CASE a # "tick"
    <3>1. "tick" \in Actors => /\ pc'["tick"] = pc["tick"] /\ out'["tick"] = out["tick"]
                               /\ batch'["tick"] = batch["tick"]
      BY <2>2, <2>8, <1>00 DEF Done
    <3>2. QED
      BY <1>0, <2>2, <2>3, <2>5, <2>6, <3>1, OnceQuiet DEF Exists
  <2>9. QED
    BY <2>7, <2>8
\* Handlers of a webhook or of a completion, and a manual firing.
<1>19. ASSUME NEW a \in Actors, a # "tick", a # "update",
              \A b \in Actors \ {a} : /\ pc'[b] = pc[b] /\ out'[b] = out[b]
                                      /\ batch'[b] = batch[b] /\ rd'[b] = rd[b],
              UNCHANGED <<status, fired, disturbed>>, st' = st \/ Kind # "file_arrival"
       PROVE  OnceInv'
  <2>1. CASE st' = st
    BY <1>19, <2>1, <1>0, OnceQuiet DEF Exists
  <2>2. CASE Kind # "file_arrival"
    <3>1. \A f \in Files : fired'[f] = 0
      BY <2>2, <1>19 DEF OnceInv
    <3>2. "update" \in Actors => pc'["update"] = pc["update"] /\ rd'["update"] = rd["update"]
      BY <1>19
    <3>3. QED
      BY <3>1, <3>2, <1>0 DEF OnceInv
  <2>3. QED
    BY <1>19, <2>1, <2>2
<1>20. ASSUME NEW a \in Actors, Done(a) \/ UNCHANGED <<pc, rd, out, batch>>
       PROVE  \A b \in Actors \ {a} : /\ pc'[b] = pc[b] /\ out'[b] = out[b]
                                      /\ batch'[b] = batch[b] /\ rd'[b] = rd[b]
  BY <1>20, <1>00 DEF Done
<1>21. ASSUME NEW a \in Actors, NEW s, NEW row, pc' = [pc EXCEPT ![a] = s],
              rd' = rd \/ rd' = [rd EXCEPT ![a] = row], UNCHANGED <<out, batch>>
       PROVE  \A b \in Actors \ {a} : /\ pc'[b] = pc[b] /\ out'[b] = out[b]
                                      /\ batch'[b] = batch[b] /\ rd'[b] = rd[b]
  BY <1>21, <1>00
<1>22. ASSUME NEW a \in Actors, HookCall(a) \/ HookToken(a) \/ HookMint(a) \/ HookGet(a)
                                \/ HookAfter(a) \/ HookAudit(a)
       PROVE  OnceInv'
  <2>1. a \in Hooks /\ Kind = "webhook"
    BY <1>22 DEF HookCall, HookToken, HookMint, HookGet, HookAfter, HookAudit, Places
  <2>2. a # "tick" /\ a # "update"
    BY <2>1 DEF Hooks
  <2>3. UNCHANGED <<status, fired, disturbed>>
    BY <1>22 DEF HookCall, HookToken, HookMint, HookGet, HookAfter, HookAudit
  <2>4. \A b \in Actors \ {a} : /\ pc'[b] = pc[b] /\ out'[b] = out[b]
                               /\ batch'[b] = batch[b] /\ rd'[b] = rd[b]
    <3>1. CASE HookCall(a)
      BY <3>1, <1>21 DEF HookCall, Goto
    <3>2. CASE HookToken(a)
      BY <3>2, <1>20, <1>21 DEF HookToken, Goto
    <3>3. CASE HookMint(a) \/ HookAudit(a)
      BY <3>3, <1>20 DEF HookMint, HookAudit
    <3>4. CASE HookGet(a)
      BY <3>4, <1>20, <1>21 DEF HookGet, Goto
    <3>5. CASE HookAfter(a)
      BY <3>5, <1>21 DEF HookAfter, Goto
    <3>6. QED
      BY <1>22, <3>1, <3>2, <3>3, <3>4, <3>5
  <2>5. QED
    BY <1>19, <2>1, <2>2, <2>3, <2>4
<1>23. ASSUME NEW a \in Actors, ErrorReturn(a) PROVE OnceInv'
  <2>1. a # "tick" /\ a # "update" /\ UNCHANGED <<status, fired, disturbed, st>> /\ Done(a)
    BY <1>23 DEF ErrorReturn, Hooks
  <2>2. QED
    BY <2>1, <1>19, <1>20
<1>24. CASE ManualFire \/ ManualAfter
  <2>1. "manual" \in Actors /\ UNCHANGED <<status, fired, disturbed, st>>
    BY <1>24 DEF ManualFire, ManualAfter
  <2>2. \A b \in Actors \ {"manual"} : /\ pc'[b] = pc[b] /\ out'[b] = out[b]
                                       /\ batch'[b] = batch[b] /\ rd'[b] = rd[b]
    BY <1>24, <1>00 DEF ManualFire, ManualAfter, Done, Goto
  <2>3. QED
    BY <2>1, <2>2, <1>19
<1>25. CASE Notify \/ NotifyAfter
  <2>1. "notify" \in Actors /\ UNCHANGED <<status, fired, disturbed>>
    BY <1>25 DEF Notify, NotifyAfter
  <2>2. \A b \in Actors \ {"notify"} : /\ pc'[b] = pc[b] /\ out'[b] = out[b]
                                       /\ batch'[b] = batch[b] /\ rd'[b] = rd[b]
    BY <1>25, <1>00 DEF Notify, NotifyAfter, Done, Goto
  <2>3. st' = st \/ Kind # "file_arrival"
    <3>1. CASE Notify
      BY <3>1 DEF Notify
    <3>2. CASE NotifyAfter
      BY <3>2 DEF NotifyAfter, Places
    <3>3. QED
      BY <1>25, <3>1, <3>2
  <2>4. QED
    BY <2>1, <2>2, <2>3, <1>19
<1>26. CASE Clock \/ FileArrives \/ RunCompletes \/ ForeignRun
  BY <1>26, <1>0, OnceQuiet DEF Clock, FileArrives, RunCompletes, ForeignRun, Exists
<1>27. CASE Crash
  <2>1. disturbed' = FALSE => ~ Started /\ ~ disturbed
    BY <1>27, <1>00 DEF Crash, Started
  <2>2. /\ UNCHANGED <<st, fired, status>>
        /\ \A a \in Actors : pc'[a] = "idle"
    BY <1>27 DEF Crash
  <2>3. ASSUME ~disturbed', Exists', NEW f \in Files
        PROVE  fired'[f] <= 1 /\ (fired'[f] = 1 => f \in st'.seen)
    BY <2>1, <2>2, <2>3, <1>00 DEF OnceInv, Exists, Crash
  <2>4. QED
    BY <1>0, <2>2, <2>3 DEF OnceInv
<1>28. CASE UNCHANGED vars
  BY <1>28, <1>0, OnceQuiet DEF vars, Exists
<1>29. QED
  BY <1>1, <1>2, <1>3, <1>4, <1>5, <1>6, <1>7, <1>8, <1>9, <1>10, <1>11, <1>12, <1>13, <1>14,
     <1>15, <1>16, <1>17, <1>18, <1>22, <1>23, <1>24, <1>25, <1>26, <1>27, <1>28, NextCases

\* As long as no state write is lost and the trigger exists, a file starts at most
\* one run, with any number of files, actors and updates in between.
THEOREM FileOnceHolds == Spec => []FileOnce
<1>1. Init => OnceInv
  BY DEF Init, OnceInv, Exists
<1>2. OnceInv => FileOnce
  BY DEF OnceInv, FileOnce
<1>3. QED
  BY BaseInv, SeenAlways, OnceStep, <1>1, <1>2, PTL DEF Spec

-----------------------------------------------------------------------------
(* One run per occurrence *)

LEMMA ProductOrder ==
  ASSUME NEW k \in Nat \ {0}, NEW x \in Nat, NEW y \in Nat, k * x < k * y
  PROVE  x < y
<1> SUFFICES ASSUME y <= x PROVE FALSE
  OBVIOUS
<1>1. x - y \in Nat /\ k * (x - y) \in Nat
  OBVIOUS
<1>2. k * x = k * y + k * (x - y)
  BY <1>1
<1>3. k * x \in Nat /\ k * y \in Nat
  OBVIOUS
<1>4. QED
  BY <1>1, <1>2, <1>3

LEMMA NextIntervalOrder ==
  ASSUME NEW start \in Nat, NEW s \in Nat, NEW t \in Nat, s <= t
  PROVE  NextInterval(start, s) <= NextInterval(start, t)
<1>1. CASE s < start
  <2>1. NextInterval(start, s) = start
    BY <1>1 DEF NextInterval
  <2>2. QED
    BY <2>1, NextIntervalFact
<1>2. CASE ~ (s < start)
  <2>1. s - start \in Nat /\ t - start \in Nat /\ Every \in Nat \ {0}
    BY <1>2, SchedulerAssumption
  <2>2. PICK p \in Nat : /\ p = (s - start) \div Every
                         /\ Every * p <= s - start
    BY <2>1, QuotientFact
  <2>3. PICK q \in Nat : /\ q = (t - start) \div Every
                         /\ t - start < Every * (q + 1)
    BY <2>1, QuotientFact
  <2>4. Every * p \in Nat /\ Every * (q + 1) \in Nat /\ Every * p < Every * (q + 1)
    BY <2>1, <2>2, <2>3
  <2>5. p < q + 1
    BY <2>1, <2>4, ProductOrder
  <2>6. PICK d \in Nat : q = p + d
    BY <2>5
  <2>7. Every * (q + 1) = Every * (p + 1) + Every * d /\ Every * d \in Nat /\ Every * (p + 1) \in Nat
    BY <2>1, <2>6
  <2>8. /\ NextInterval(start, s) = start + Every * (p + 1)
        /\ NextInterval(start, t) = start + Every * (q + 1)
    BY <1>2, <2>2, <2>3 DEF NextInterval
  <2>9. QED
    BY <2>7, <2>8
<1>3. QED
  BY <1>1, <1>2

\* A later moment has no earlier next occurrence.
LEMMA ComputeNextOrder ==
  ASSUME NEW s \in Nat, NEW t \in Nat, s <= t, config \in Configs, ComputeNext(t) # 0
  PROVE  ComputeNext(s) # 0 /\ ComputeNext(s) <= ComputeNext(t)
<1>1. CASE Kind = "cron"
  <2>1. NextCron(t) \in CronTimes /\ NextCron(t) > t /\ NextCron(t) \in Nat
    BY <1>1, NextCronFact DEF ComputeNext
  <2>2. NextCron(t) > s
    BY <2>1
  <2>3. NextCron(s) # 0 /\ NextCron(s) <= NextCron(t)
    BY <2>1, <2>2, NextCronFact
  <2>4. QED
    BY <1>1, <2>3 DEF ComputeNext
<1>2. CASE Kind = "interval"
  <2>1. ComputeNext(s) = NextInterval(Anchor(s), s) /\ ComputeNext(t) = NextInterval(Anchor(t), t)
    BY <1>2 DEF ComputeNext
  <2>2. Anchor(s) \in Nat /\ Anchor(t) \in Nat
    BY SchedulerAssumption DEF Anchor
  <2>3. NextInterval(Anchor(s), s) > s /\ NextInterval(Anchor(s), s) \in Nat
    BY <2>2, NextIntervalFact
  <2>4. CASE StartAt = 0
    <3>1. Every \in Nat \ {0} /\ 0 \div Every = 0 /\ s - s = 0 /\ t - t = 0
      <4>1. Every \in Nat \ {0}
        BY SchedulerAssumption
      <4>2. PICK z \in Nat : z = 0 \div Every /\ Every * z <= 0
        BY <4>1, QuotientFact
      <4>3. z = 0
        BY <4>1, <4>2
      <4>4. QED
        BY <4>1, <4>2, <4>3
    <3>2. NextInterval(s, s) = s + Every * 1 /\ NextInterval(t, t) = t + Every * 1
      BY <3>1 DEF NextInterval
    <3>3. QED
      BY <2>1, <2>3, <2>4, <3>1, <3>2 DEF Anchor
  <2>5. CASE StartAt # 0
    <3>1. StartAt \in Nat /\ Anchor(s) = StartAt /\ Anchor(t) = StartAt
      BY <2>5, SchedulerAssumption DEF Anchor
    <3>2. NextInterval(StartAt, s) <= NextInterval(StartAt, t)
      BY <3>1, NextIntervalOrder
    <3>3. QED
      BY <2>1, <2>3, <3>1, <3>2
  <2>6. QED
    BY <2>4, <2>5
<1>3. CASE Kind \notin {"cron", "interval"}
  BY <1>3 DEF ComputeNext
<1>4. QED
  BY <1>1, <1>2, <1>3

LEMMA IntervalGoesOn ==
  ASSUME NEW t \in Nat, Kind = "interval"
  PROVE  ComputeNext(t) # 0
<1>1. Anchor(t) \in Nat
  BY SchedulerAssumption DEF Anchor
<1>2. NextInterval(Anchor(t), t) \in Nat /\ NextInterval(Anchor(t), t) > t
  BY <1>1, NextIntervalFact
<1>3. QED
  BY <1>2 DEF ComputeNext

\* No actor and no row is ahead of the clock, and a tick is not behind the run it
\* started last.
TimesInv ==
  /\ st.eval <= now /\ lastRun <= now
  /\ \A a \in Actors : at[a] <= now /\ rd[a].eval <= now
  /\ "tick" \in Actors /\ pc["tick"] # "idle" => lastRun <= at["tick"]
  /\ "update" \in Actors /\ pc["update"] = "write" => rd["update"].eval <= at["update"]
  /\ status = "absent" => lastRun = 0

LEMMA UpsertTime ==
  ASSUME TypeOK, TimesInv, NEW row \in RowType, row.eval <= now, Upsert(row)
  PROVE  st'.eval <= now
BY DEF TypeOK, TimesInv, Upsert, RowType

LEMMA DoneTimes ==
  ASSUME TypeOK, TimesInv, NEW a \in Actors, Done(a), UNCHANGED <<now, lastRun>>, st'.eval <= now,
         status' = status
  PROVE  TimesInv'
BY DEF TypeOK, TimesInv, Done, Blank

\* A step of one actor to s that sets its time to t and its row to row.
LEMMA MoveTimes ==
  ASSUME TypeOK, TimesInv, NEW a \in Actors, NEW s, UNCHANGED <<now, lastRun>>,
         pc' = [pc EXCEPT ![a] = s],
         at' = at \/ at' = [at EXCEPT ![a] = now],
         rd' = rd \/ rd' = [rd EXCEPT ![a] = st],
         st'.eval <= now, status' = "absent" => status = "absent",
         pc[a] = "idle" /\ a = "tick" => at' = [at EXCEPT ![a] = now],
         s # "write"
  PROVE  TimesInv'
<1>1. /\ now \in Nat /\ lastRun \in Nat /\ st \in RowType /\ at \in [Actors -> Nat]
      /\ rd \in [Actors -> RowType] /\ pc \in [Actors -> Steps]
  BY SchedulerAssumption DEF TypeOK
<1>2. \A b \in Actors : at'[b] <= now /\ rd'[b].eval <= now
  BY <1>1 DEF TimesInv
<1>3. "tick" \in Actors /\ pc'["tick"] # "idle" => lastRun <= at'["tick"]
  BY <1>1 DEF TimesInv
<1>4. "update" \in Actors /\ pc'["update"] = "write" => rd'["update"].eval <= at'["update"]
  BY <1>1 DEF TimesInv
<1>5. QED
  BY <1>2, <1>3, <1>4 DEF TimesInv

LEMMA TimesStep == Base /\ TimesInv /\ [Next]_vars => TimesInv'
<1> SUFFICES ASSUME TypeOK, Places, TimesInv, [Next]_vars PROVE TimesInv'
  BY DEF Base
<1> USE DEF store, disp, local, hist
<1>0. /\ now \in Nat /\ lastRun \in Nat /\ st \in RowType /\ at \in [Actors -> Nat]
      /\ rd \in [Actors -> RowType] /\ pc \in [Actors -> Steps]
  BY SchedulerAssumption DEF TypeOK
<1>1. ASSUME NEW k \in FrontEnds, Create(k) \/ CreateTorn(k) PROVE TimesInv'
  BY <1>0, <1>1 DEF Create, CreateTorn, FirstRow, Blank, Goto, TimesInv
<1>2. CASE CreateState
  <2>1. [Blank EXCEPT !.next = ComputeNext(now)] \in RowType
    BY <1>0, ComputeNextType, BlankType DEF RowType, TypeOK
  <2>2. [Blank EXCEPT !.next = ComputeNext(now)].eval = 0
    BY DEF Blank
  <2>3. st'.eval <= now
    <3>1. Upsert([Blank EXCEPT !.next = ComputeNext(now)])
      BY <1>2 DEF CreateState
    <3>2. [Blank EXCEPT !.next = ComputeNext(now)].eval <= now
      BY <1>0, <2>2
    <3>3. QED
      BY <2>1, <3>1, <3>2, UpsertTime
  <2>4. QED
    BY <1>2, <2>3, DoneTimes DEF CreateState
<1>3. CASE UpdateRead
  <2>1. CASE st.stored
    <3>1. "update" \in Actors /\ pc' = [pc EXCEPT !["update"] = "read"]
          /\ rd' = [rd EXCEPT !["update"] = st]
          /\ UNCHANGED <<now, lastRun, at, st>> /\ status' # "absent"
      BY <1>3, <2>1 DEF UpdateRead, Goto
    <3>2. QED
      BY <3>1, <1>0, MoveTimes DEF TimesInv
  <2>2. CASE ~ st.stored
    BY <1>3, <2>2 DEF UpdateRead, TimesInv
  <2>3. QED
    BY <2>1, <2>2
<1>4. CASE UpdateCompute
  BY <1>4, <1>0 DEF UpdateCompute, Goto, TimesInv
<1>5. CASE UpdateWrite
  <2>1. "update" \in Actors /\ rd["update"] \in RowType
    BY <1>0, <1>5 DEF UpdateWrite
  <2>2. ComputeNext(at["update"]) \in Nat
    BY <1>0, <2>1, ComputeNextType DEF TypeOK
  <2>3. /\ [rd["update"] EXCEPT !.next = ComputeNext(at["update"])] \in RowType
        /\ [rd["update"] EXCEPT !.next = ComputeNext(at["update"])].eval = rd["update"].eval
    BY <2>1, <2>2 DEF RowType
  <2>4. st'.eval <= now
    BY <1>5, <2>1, <2>3, UpsertTime DEF UpdateWrite, TimesInv
  <2>5. QED
    BY <1>5, <2>4, DoneTimes DEF UpdateWrite
<1>6. CASE SetEnabled \/ Delete \/ CliFire
  BY <1>6, <1>0 DEF SetEnabled, Delete, CliFire, TimesInv, Blank, Exists
<1>7. CASE TickList
  <2>1. "tick" \in Actors /\ pc' = [pc EXCEPT !["tick"] = "eval"] /\ at' = [at EXCEPT !["tick"] = now]
        /\ UNCHANGED <<now, lastRun, rd, st, status>>
    BY <1>7 DEF TickList, Goto
  <2>2. QED
    BY <2>1, MoveTimes DEF TimesInv
<1>8. CASE TickTime \/ TickFiles \/ TickTouch
  <2>1. "tick" \in Actors /\ pc["tick"] = "eval" /\ UNCHANGED <<now, lastRun, st, status>>
    BY <1>8 DEF TickTime, TickFiles, TickTouch
  <2>2. CASE Done("tick")
    BY <2>1, <2>2, DoneTimes DEF TimesInv
  <2>3. CASE ~ Done("tick")
    <3>1. PICK s \in {"after", "fire", "error"} : pc' = [pc EXCEPT !["tick"] = s]
      BY <1>8, <2>3 DEF TickTime, TickFiles, TickTouch, Goto
    <3>2. rd' = [rd EXCEPT !["tick"] = st] /\ at' = at
      BY <1>8, <2>3 DEF TickTime, TickFiles, TickTouch
    <3>3. QED
      BY <2>1, <3>1, <3>2, MoveTimes DEF TimesInv
  <2>4. QED
    BY <2>2, <2>3
<1>9. CASE TickAfterFails
  <2>1. "tick" \in Actors /\ pc["tick"] = "after" /\ pc' = [pc EXCEPT !["tick"] = "error"]
        /\ UNCHANGED <<now, lastRun, rd, at, st, status>>
    BY <1>9 DEF TickAfterFails, Goto
  <2>2. QED
    BY <2>1, MoveTimes DEF TimesInv
<1>10. CASE TickAfter
  <2>1. "tick" \in Actors /\ at["tick"] <= now
    BY <1>10 DEF TickAfter, TimesInv
  <2>2. TickRow \in RowType /\ TickRow.eval = at["tick"]
    BY <1>0, <2>1, TickRowType DEF TickRow, RowType
  <2>3. st'.eval <= now
    BY <1>10, <2>1, <2>2, UpsertTime DEF TickAfter
  <2>4. QED
    BY <1>10, <2>1, <2>3, DoneTimes DEF TickAfter
<1>11. ASSUME NEW a \in Actors, FireDecide(a) \/ FireCount(a) \/ FireRecord(a) \/ ErrorRecord(a) \/ ErrorRead(a)
       PROVE  TimesInv'
  <2>1. pc[a] # "idle" /\ UNCHANGED <<now, lastRun, st, status, at>>
    BY <1>11 DEF FireDecide, FireCount, FireRecord, ErrorRecord, ErrorRead
  <2>2. rd' = rd \/ rd' = [rd EXCEPT ![a] = st]
    BY <1>11 DEF FireDecide, FireCount, FireRecord, ErrorRecord, ErrorRead
  <2>3. PICK s \in Steps \ {"write"} : pc' = [pc EXCEPT ![a] = s]
    <3>1. CASE FireDecide(a)
      <4>1. Policy \in {"queue", "skip", "reject"}
        BY SchedulerAssumption DEF TypeOK, Policy
      <4>2. CASE ~ (runs > 0 \/ foreign)
        BY <3>1, <4>2 DEF FireDecide, Goto, Steps
      <4>3. CASE (runs > 0 \/ foreign) /\ Policy = "queue"
        BY <3>1, <4>3 DEF FireDecide, Goto, Steps
      <4>4. CASE (runs > 0 \/ foreign) /\ Policy = "skip"
        BY <3>1, <4>4 DEF FireDecide, Goto, Steps
      <4>5. CASE (runs > 0 \/ foreign) /\ Policy = "reject"
        BY <3>1, <4>5 DEF FireDecide, Goto, Steps
      <4>6. QED
        BY <4>1, <4>2, <4>3, <4>4, <4>5
    <3>2. CASE FireCount(a) \/ FireRecord(a) \/ ErrorRecord(a) \/ ErrorRead(a)
      BY <3>2 DEF FireCount, FireRecord, ErrorRecord, ErrorRead, Goto, Steps
    <3>3. QED
      BY <1>11, <3>1, <3>2
  <2>4. QED
    BY <2>1, <2>2, <2>3, MoveTimes DEF TimesInv
<1>12. ASSUME NEW a \in Actors, FireDispatch(a) PROVE TimesInv'
  <2>1. pc[a] = "dispatch" /\ pc' = [pc EXCEPT ![a] = "record"] /\ UNCHANGED <<now, at, rd, st, status>>
        /\ (lastRun' = lastRun \/ (a = "tick" /\ lastRun' = at[a]))
    BY <1>12 DEF FireDispatch, Goto
  <2>2. status # "absent"
    BY <2>1 DEF Places
  <2>3. QED
    BY <1>0, <2>1, <2>2 DEF TimesInv
<1>13. ASSUME NEW a \in Actors, ErrorWrite(a) PROVE TimesInv'
  <2>1. rd[a] \in RowType /\ at[a] \in Nat /\ at[a] <= now
    BY <1>0 DEF TimesInv
  <2>2. [rd[a] EXCEPT !.eval = at[a]] \in RowType /\ [rd[a] EXCEPT !.eval = at[a]].eval = at[a]
    BY <2>1 DEF RowType
  <2>3. st'.eval <= now
    BY <1>13, <2>1, <2>2, UpsertTime DEF ErrorWrite
  <2>4. QED
    BY <1>13, <2>3, DoneTimes DEF ErrorWrite
<1>14. ASSUME NEW a \in Actors, ErrorReturn(a) \/ HookAudit(a) PROVE TimesInv'
  BY <1>14, DoneTimes DEF ErrorReturn, HookAudit, TimesInv
<1>15. ASSUME NEW a \in Actors, HookCall(a) \/ HookToken(a) \/ HookGet(a) PROVE TimesInv'
  <2>1. UNCHANGED <<now, lastRun, st, status>> /\ a \in Hooks
    BY <1>15 DEF HookCall, HookToken, HookGet, Places
  <2>2. a # "tick" /\ a # "update"
    BY <2>1 DEF Hooks
  <2>3. CASE Done(a)
    BY <2>1, <2>3, DoneTimes DEF TimesInv
  <2>4. CASE ~ Done(a)
    <3>1. at' = at \/ at' = [at EXCEPT ![a] = now]
      BY <1>15, <2>4 DEF HookCall, HookToken, HookGet
    <3>2. rd' = rd \/ rd' = [rd EXCEPT ![a] = st]
      BY <1>15, <2>4 DEF HookCall, HookToken, HookGet
    <3>3. PICK s \in {"token", "mint", "get", "fire"} : pc' = [pc EXCEPT ![a] = s]
      BY <1>15, <2>4 DEF HookCall, HookToken, HookGet, Goto
    <3>4. QED
      BY <2>1, <2>2, <3>1, <3>2, <3>3, MoveTimes DEF TimesInv
  <2>5. QED
    BY <2>3, <2>4
<1>16. ASSUME NEW a \in Actors, HookMint(a) PROVE TimesInv'
  <2>1. rd[a] \in RowType /\ tokens' \in Nat /\ rd[a].eval <= now
    BY <1>0, <1>16 DEF TimesInv, HookMint, TypeOK
  <2>2. /\ [rd[a] EXCEPT !.next = 0, !.token = tokens'] \in RowType
        /\ [rd[a] EXCEPT !.next = 0, !.token = tokens'].eval = rd[a].eval
    BY <2>1 DEF RowType
  <2>3. st'.eval <= now
    BY <1>16, <2>1, <2>2, UpsertTime DEF HookMint
  <2>4. QED
    BY <1>16, <2>3, DoneTimes DEF HookMint
<1>17. ASSUME NEW a \in Actors, HookAfter(a) PROVE TimesInv'
  <2>1. at[a] \in Nat /\ at[a] <= now
    BY <1>0 DEF TimesInv
  <2>2. [Blank EXCEPT !.eval = at[a]] \in RowType /\ [Blank EXCEPT !.eval = at[a]].eval = at[a]
    BY <2>1, BlankType DEF RowType, Blank
  <2>3. st'.eval <= now
    BY <1>17, <2>1, <2>2, UpsertTime DEF HookAfter
  <2>4. pc[a] = "after" /\ pc' = [pc EXCEPT ![a] = "audit"] /\ UNCHANGED <<now, lastRun, at, rd, status>>
    BY <1>17 DEF HookAfter, Goto
  <2>5. QED
    BY <2>3, <2>4, MoveTimes DEF TimesInv
<1>18. CASE ManualFire \/ Notify
  BY <1>18, <1>0 DEF ManualFire, Notify, Goto, TimesInv
<1>19. CASE ManualAfter
  BY <1>19, DoneTimes DEF ManualAfter, TimesInv
<1>20. CASE NotifyAfter
  <2>1. "notify" \in Actors /\ at["notify"] \in Nat /\ at["notify"] <= now
    BY <1>0, <1>20 DEF TimesInv, NotifyAfter
  <2>2. /\ [Blank EXCEPT !.eval = at["notify"]] \in RowType
        /\ [Blank EXCEPT !.eval = at["notify"]].eval = at["notify"]
    BY <2>1, BlankType DEF RowType, Blank
  <2>3. st'.eval <= now
    BY <1>20, <2>1, <2>2, UpsertTime DEF NotifyAfter
  <2>4. QED
    BY <1>20, <2>3, DoneTimes DEF NotifyAfter
<1>21. CASE Clock
  <2>1. now' = now + 1 /\ UNCHANGED <<lastRun, st, at, rd, pc, status>>
    BY <1>21 DEF Clock
  <2>2. st.eval \in Nat /\ \A a \in Actors : at[a] \in Nat /\ rd[a].eval \in Nat
    BY <1>0 DEF RowType
  <2>3. QED
    BY <1>0, <2>1, <2>2 DEF TimesInv
<1>22. CASE FileArrives \/ RunCompletes \/ ForeignRun
  BY <1>22 DEF FileArrives, RunCompletes, ForeignRun, TimesInv
<1>23. CASE Crash
  BY <1>23, <1>0 DEF Crash, TimesInv, Blank
<1>24. CASE UNCHANGED vars
  BY <1>24 DEF vars, TimesInv
<1>25. QED
  BY <1>1, <1>2, <1>3, <1>4, <1>5, <1>6, <1>7, <1>8, <1>9, <1>10, <1>11, <1>12, <1>13, <1>14,
     <1>15, <1>16, <1>17, <1>18, <1>19, <1>20, <1>21, <1>22, <1>23, <1>24, NextCases

LEMMA TimesAlways == Spec => []TimesInv
<1>1. Init => TimesInv
  BY DEF Init, TimesInv, Blank
<1>2. QED
  BY BaseInv, TimesStep, <1>1, PTL DEF Spec

\* The row has moved on since the last run: it was evaluated then or later, and
\* what it waits for is no earlier than the occurrence after that run.
Handled(row) ==
  /\ lastRun <= row.eval
  /\ row.next # 0 => ComputeNext(lastRun) # 0 /\ ComputeNext(lastRun) <= row.next
  /\ Kind = "interval" => row.next # 0

\* While no state write is lost, the row has moved on or the tick is about to
\* write it, and a tick that is about to fire has an occurrence to fire for.
SlotClaim ==
  /\ "tick" \in Actors
  /\ Handled(st) \/ (Started /\ lastRun = at["tick"])
  /\ pc["tick"] \in {"fire", "count", "dispatch"}
       => ComputeNext(lastRun) # 0 /\ ComputeNext(lastRun) <= at["tick"]

SlotInv == Kind \in {"cron", "interval"} /\ Exists /\ ~disturbed /\ lastRun # 0 => SlotClaim

LEMMA SlotStep == Base /\ TimesInv /\ SlotInv /\ [Next]_vars => SlotInv'
<1> SUFFICES ASSUME TypeOK, Places, TimesInv, SlotInv, [Next]_vars,
                    Kind \in {"cron", "interval"}, Exists', disturbed' = FALSE, lastRun' # 0
             PROVE  SlotClaim'
  <2>1. ASSUME Base, [Next]_vars PROVE Kind' = Kind
    BY <2>1, ConfigStays DEF Kind
  <2>2. ASSUME Base, TimesInv, [Next]_vars PROVE disturbed' \in BOOLEAN
    BY <2>2, TypeStep DEF Base, TypeOK
  <2>3. QED
    BY <2>1, <2>2 DEF SlotInv, Base
<1> USE DEF store, disp, local, hist
<1>0. /\ now \in Nat /\ lastRun \in Nat /\ st \in RowType /\ at \in [Actors -> Nat] /\ disturbed \in BOOLEAN
      /\ rd \in [Actors -> RowType] /\ pc \in [Actors -> Steps] /\ out \in [Actors -> Outcomes]
      /\ st.eval \in Nat /\ st.next \in Nat /\ config \in Configs
  BY SchedulerAssumption DEF TypeOK, RowType
<1>1. Kind' = Kind /\ config' = config
  BY ConfigStays DEF Kind
<1>2. lastRun' = lastRun => ComputeNext(lastRun)' = ComputeNext(lastRun)
  BY <1>1 DEF ComputeNext, NextCron, NextInterval, Anchor
<1>3. ASSUME Exists, ~disturbed, lastRun # 0
      PROVE  SlotClaim
  BY <1>3 DEF SlotInv
<1>4. st' = st /\ lastRun' = lastRun => (Handled(st) => Handled(st)')
  BY <1>1, <1>2 DEF Handled
\* The row stays, and so does the tick.
<1>5. ASSUME UNCHANGED <<st, lastRun>>, Exists, ~disturbed,
             "tick" \in Actors => /\ pc'["tick"] = pc["tick"] /\ out'["tick"] = out["tick"]
                                  /\ at'["tick"] = at["tick"]
      PROVE  SlotClaim'
  <2>1. Started' = Started
    BY <1>5 DEF Started
  <2>2. QED
    BY <1>2, <1>3, <1>4, <1>5, <2>1 DEF SlotClaim
\* The row stays, and the tick goes where it does not fire, with nothing to write.
<1>6. ASSUME UNCHANGED <<st, lastRun>>, Exists, ~disturbed, ~Started,
             "tick" \in Actors => pc'["tick"] \notin {"fire", "count", "dispatch"}
      PROVE  SlotClaim'
  BY <1>3, <1>4, <1>6 DEF SlotClaim
<1>7. ASSUME NEW k \in FrontEnds, Create(k) \/ CreateTorn(k) PROVE SlotClaim'
  BY <1>7 DEF Create, CreateTorn, TimesInv
<1>8. CASE CreateState
  <2>1. Exists /\ ~disturbed /\ st = rd["update"] /\ lastRun' = lastRun /\ "update" \in Actors
        /\ pc["update"] = "insert" /\ Done("update")
    BY <1>8, <1>0 DEF CreateState, Stale, Exists
  <2>2. "tick" \in Actors => /\ pc'["tick"] = pc["tick"] /\ out'["tick"] = out["tick"]
                             /\ at'["tick"] = at["tick"]
    BY <2>1, <1>0 DEF Done
  <2>3. Started' = Started
    BY <2>2 DEF Started
  <2>4. rd["update"] = FirstRow
    BY <2>1 DEF Places
  <2>5. ~ Handled(st)
    BY <2>1, <2>4, <1>0 DEF Handled, FirstRow, Blank
  <2>6. QED
    BY <1>2, <1>3, <2>1, <2>2, <2>3, <2>5 DEF SlotClaim
<1>9. CASE UpdateRead
  BY <1>9, <1>5, <1>0 DEF UpdateRead, Goto
<1>10. CASE UpdateCompute
  <2>1. Exists /\ ~disturbed
    BY <1>10 DEF UpdateCompute, Exists
  <2>2. QED
    BY <2>1, <1>10, <1>5, <1>0 DEF UpdateCompute, Goto
<1>11. CASE UpdateWrite
  <2>1. Exists /\ ~disturbed /\ st = rd["update"] /\ lastRun' = lastRun /\ "update" \in Actors
        /\ pc["update"] = "write" /\ Done("update")
    BY <1>11, <1>0 DEF UpdateWrite, Stale, Exists
  <2>2. "tick" \in Actors => /\ pc'["tick"] = pc["tick"] /\ out'["tick"] = out["tick"]
                             /\ at'["tick"] = at["tick"]
    BY <2>1, <1>0 DEF Done
  <2>3. Started' = Started
    BY <2>2 DEF Started
  <2>4. at["update"] \in Nat /\ ComputeNext(at["update"]) \in Nat
    BY <1>0, <2>1, ComputeNextType
  <2>5. st'.eval = st.eval /\ st'.next = ComputeNext(at["update"])
    BY <1>11, <2>1, <2>4, <1>0 DEF UpdateWrite, Upsert, RowType
  <2>6. Handled(st) => Handled(st)'
    <3>1. SUFFICES ASSUME Handled(st) PROVE Handled(st)'
      OBVIOUS
    <3>2. lastRun <= st.eval /\ st.eval <= at["update"]
      BY <2>1, <3>1 DEF Handled, TimesInv
    <3>3. lastRun <= at["update"]
      BY <3>2, <2>4, <1>0
    <3>4. Kind = "interval" => ComputeNext(at["update"]) # 0
      BY <2>4, IntervalGoesOn
    <3>5. ComputeNext(at["update"]) # 0
            => ComputeNext(lastRun) # 0 /\ ComputeNext(lastRun) <= ComputeNext(at["update"])
      BY <3>3, <2>4, <1>0, ComputeNextOrder
    <3>6. QED
      BY <1>1, <1>2, <2>1, <2>5, <3>2, <3>4, <3>5 DEF Handled
  <2>7. QED
    BY <1>2, <1>3, <2>1, <2>2, <2>3, <2>6 DEF SlotClaim
<1>12. CASE SetEnabled \/ CliFire
  BY <1>12, <1>5, <1>0 DEF SetEnabled, CliFire, Exists
<1>13. CASE Delete
  BY <1>13 DEF Delete, Exists
<1>14. CASE TickList
  <2>1. Exists /\ ~disturbed /\ UNCHANGED <<st, lastRun>> /\ ~Started
    BY <1>14 DEF TickList, Exists, Started
  <2>2. pc'["tick"] = "eval"
    BY <1>14, <1>0 DEF TickList, Goto
  <2>3. QED
    BY <2>1, <2>2, <1>6
<1>15. CASE TickTime
  <2>1. Exists /\ ~disturbed /\ UNCHANGED <<st, lastRun>> /\ ~Started /\ "tick" \in Actors
    BY <1>15 DEF TickTime, Exists, Started
  <2>2. CASE Done("tick")
    <3>1. pc'["tick"] = "idle"
      BY <2>1, <2>2, <1>0 DEF Done
    <3>2. QED
      BY <2>1, <3>1, <1>6
  <2>3. CASE ~ Done("tick")
    <3>1. ShouldFire(st, at["tick"]) /\ at' = at
      BY <1>15, <2>3 DEF TickTime
    <3>2. Handled(st)
      BY <1>3, <2>1 DEF SlotClaim
    <3>3. ComputeNext(lastRun) # 0 /\ ComputeNext(lastRun) <= at["tick"]
      <4>1. at["tick"] \in Nat /\ ComputeNext(lastRun) \in Nat
        BY <1>0, <2>1, ComputeNextType
      <4>2. CASE st.next # 0
        BY <3>1, <3>2, <4>1, <4>2, <1>0 DEF ShouldFire, Handled
      <4>3. CASE st.next = 0
        <5>1. Kind = "cron" /\ lastRun <= st.eval /\ st.eval # 0
          BY <3>2, <4>3, <2>1, <1>0 DEF Handled
        <5>2. NextCron(st.eval) # 0 /\ at["tick"] >= NextCron(st.eval)
          BY <3>1, <4>3, <5>1 DEF ShouldFire
        <5>3. ComputeNext(st.eval) = NextCron(st.eval) /\ ComputeNext(st.eval) \in Nat
          BY <5>1, <1>0, NextCronFact DEF ComputeNext
        <5>4. ComputeNext(lastRun) # 0 /\ ComputeNext(lastRun) <= ComputeNext(st.eval)
          BY <5>1, <5>2, <5>3, <1>0, ComputeNextOrder
        <5>5. QED
          BY <4>1, <5>2, <5>3, <5>4
      <4>4. QED
        BY <4>2, <4>3
    <3>4. QED
      BY <1>2, <1>4, <2>1, <3>1, <3>2, <3>3 DEF SlotClaim
  <2>4. QED
    BY <2>2, <2>3
<1>16. CASE TickAfter
  <2>1. Exists /\ ~disturbed /\ st = rd["tick"] /\ lastRun' = lastRun /\ "tick" \in Actors
        /\ pc["tick"] = "after" /\ Done("tick")
    BY <1>16, <1>0 DEF TickAfter, Stale, Exists
  <2>2. pc'["tick"] = "idle"
    BY <2>1, <1>0 DEF Done
  <2>3. at["tick"] \in Nat /\ ComputeNext(at["tick"]) \in Nat /\ lastRun <= at["tick"]
    BY <1>0, <2>1, ComputeNextType DEF TimesInv
  <2>4. st'.eval = at["tick"] /\ st'.next = ComputeNext(at["tick"])
    <3>1. st' = [TickRow EXCEPT !.stored = TRUE]
      BY <1>16, <2>1 DEF TickAfter, Upsert
    <3>2. QED
      BY <3>1, <2>1, <1>0 DEF TickRow, RowType
  <2>5. Kind = "interval" => ComputeNext(at["tick"]) # 0
    BY <2>3, IntervalGoesOn
  <2>6. ComputeNext(at["tick"]) # 0
          => ComputeNext(lastRun) # 0 /\ ComputeNext(lastRun) <= ComputeNext(at["tick"])
    BY <2>3, <1>0, ComputeNextOrder
  <2>7. Handled(st)'
    BY <1>1, <1>2, <2>1, <2>3, <2>4, <2>5, <2>6 DEF Handled
  <2>8. QED
    BY <2>1, <2>2, <2>7 DEF SlotClaim
<1>17. ASSUME NEW a \in Actors, FireDecide(a) \/ FireCount(a) PROVE SlotClaim'
  <2>1. Exists /\ ~disturbed /\ UNCHANGED <<st, lastRun, at>> /\ pc[a] \in {"fire", "count"}
    BY <1>17 DEF FireDecide, FireCount, Exists
  <2>2. CASE a = "tick"
    <3>1. ~ Started
      BY <2>1, <2>2 DEF Started
    <3>2. QED
      BY <1>2, <1>3, <1>4, <2>1, <2>2, <3>1 DEF SlotClaim
  <2>3. CASE a # "tick"
    <3>1. "tick" \in Actors => pc'["tick"] = pc["tick"] /\ out'["tick"] = out["tick"]
      BY <1>17, <2>3, <1>0 DEF FireDecide, FireCount, Goto
    <3>2. QED
      BY <2>1, <3>1, <1>5
  <2>4. QED
    BY <2>2, <2>3
<1>18. ASSUME NEW a \in Actors, FireDispatch(a) PROVE SlotClaim'
  <2>1. /\ Exists /\ ~disturbed /\ UNCHANGED <<st, at>>
        /\ pc[a] = "dispatch" /\ pc' = [pc EXCEPT ![a] = "record"]
        /\ \/ lastRun' = (IF a = "tick" THEN at[a] ELSE lastRun) /\ out' = out
           \/ lastRun' = lastRun /\ out' = [out EXCEPT ![a] = "error"]
    BY <1>18 DEF FireDispatch, Exists, Goto
  <2>2. CASE a = "tick" /\ out' = out
    <3>1. out["tick"] \in {"run_started", "queued"} /\ pc'["tick"] = "record"
      BY <2>1, <2>2, <1>0 DEF Places
    <3>2. Started'
      BY <2>2, <3>1 DEF Started
    <3>3. lastRun' = at'["tick"] \/ (lastRun' = lastRun /\ out' = [out EXCEPT ![a] = "error"])
      BY <2>1, <2>2
    <3>4. out' # [out EXCEPT ![a] = "error"]
      BY <2>2, <3>1, <1>0
    <3>5. QED
      BY <2>2, <3>1, <3>2, <3>3, <3>4 DEF SlotClaim
  <2>3. CASE a = "tick" /\ out' # out
    <3>1. pc'["tick"] = "record" /\ ~Started
      BY <2>1, <2>3, <1>0 DEF Started
    <3>2. QED
      BY <2>1, <2>3, <3>1, <1>6
  <2>4. CASE a # "tick"
    <3>1. "tick" \in Actors => pc'["tick"] = pc["tick"] /\ out'["tick"] = out["tick"]
      BY <2>1, <2>4, <1>0
    <3>2. QED
      BY <2>1, <2>4, <3>1, <1>5
  <2>5. QED
    BY <2>2, <2>3, <2>4
<1>19. ASSUME NEW a \in Actors, FireRecord(a) PROVE SlotClaim'
  <2>1. PICK s \in {"error", "after"} :
          /\ pc[a] = "record" /\ pc' = [pc EXCEPT ![a] = s]
          /\ s = "error" => out[a] \in {"full", "rejected"}
    BY <1>19 DEF FireRecord, Goto
  <2>2. Exists /\ ~disturbed /\ UNCHANGED <<st, lastRun, at, out>>
    BY <1>19 DEF FireRecord, Exists
  <2>3. CASE a = "tick"
    <3>1. Started => Started'
      BY <2>1, <2>2, <2>3, <1>0 DEF Started
    <3>2. pc'["tick"] \notin {"fire", "count", "dispatch"}
      BY <2>1, <2>3, <1>0
    <3>3. QED
      BY <1>3, <1>4, <2>2, <2>3, <3>1, <3>2 DEF SlotClaim
  <2>4. CASE a # "tick"
    <3>1. "tick" \in Actors => pc'["tick"] = pc["tick"]
      BY <2>1, <2>4, <1>0
    <3>2. QED
      BY <2>2, <3>1, <1>5
  <2>5. QED
    BY <2>3, <2>4
<1>20. ASSUME NEW a \in Actors, ErrorRecord(a) \/ ErrorRead(a) PROVE SlotClaim'
  <2>1. PICK s \in {"errread", "errwrite"} :
          pc[a] \in {"error", "errread"} /\ pc' = [pc EXCEPT ![a] = s]
    BY <1>20 DEF ErrorRecord, ErrorRead, Goto
  <2>2. Exists /\ ~disturbed /\ UNCHANGED <<st, lastRun, at, out>>
    BY <1>20 DEF ErrorRecord, ErrorRead, Exists
  <2>3. CASE a = "tick"
    BY <2>1, <2>2, <2>3, <1>0, <1>6 DEF Started
  <2>4. CASE a # "tick"
    BY <2>1, <2>2, <2>4, <1>0, <1>5
  <2>5. QED
    BY <2>3, <2>4
<1>21. ASSUME NEW a \in Actors, ErrorWrite(a) PROVE SlotClaim'
  <2>1. Exists /\ ~disturbed /\ st = rd[a] /\ lastRun' = lastRun /\ pc[a] = "errwrite" /\ Done(a)
    BY <1>21, <1>0 DEF ErrorWrite, Stale, Exists
  <2>2. a = "tick"
    BY <2>1 DEF Places
  <2>3. pc'["tick"] = "idle" /\ ~Started
    BY <2>1, <2>2, <1>0 DEF Done, Started
  <2>4. at["tick"] \in Nat /\ lastRun <= at["tick"]
    BY <1>0, <2>1, <2>2 DEF TimesInv
  <2>5. st'.eval = at["tick"] /\ st'.next = st.next
    BY <1>21, <2>1, <2>2, <1>0 DEF ErrorWrite, Upsert, RowType
  <2>6. Handled(st) => Handled(st)'
    BY <1>1, <1>2, <2>1, <2>4, <2>5 DEF Handled
  <2>7. QED
    BY <1>3, <2>1, <2>2, <2>3, <2>6 DEF SlotClaim
<1>22. ASSUME NEW a \in Actors, ErrorReturn(a) PROVE SlotClaim'
  <2>1. Exists /\ ~disturbed /\ UNCHANGED <<st, lastRun>> /\ a # "tick" /\ Done(a)
    BY <1>22 DEF ErrorReturn, Exists, Hooks
  <2>2. QED
    BY <2>1, <1>0, <1>5 DEF Done
\* The steps of a webhook, of a completion and of a file sensor.
<1>23. ASSUME NEW a \in Actors, \/ HookCall(a) \/ HookToken(a) \/ HookMint(a) \/ HookGet(a)
                                \/ HookAfter(a) \/ HookAudit(a)
       PROVE  FALSE
  BY <1>23 DEF HookCall, HookToken, HookMint, HookGet, HookAfter, HookAudit, Places
<1>24. CASE TickFiles \/ TickTouch \/ Notify \/ FileArrives
  BY <1>24 DEF TickFiles, TickTouch, Notify, FileArrives
<1>25. CASE NotifyAfter
  BY <1>25 DEF NotifyAfter, Places
<1>26. CASE TickAfterFails
  BY <1>26 DEF TickAfterFails
<1>27. CASE ManualFire \/ ManualAfter
  <2>1. Exists /\ ~disturbed /\ UNCHANGED <<st, lastRun>>
    BY <1>27 DEF ManualFire, ManualAfter, Exists
  <2>2. QED
    BY <2>1, <1>27, <1>0, <1>5 DEF ManualFire, ManualAfter, Goto, Done
<1>28. CASE Clock \/ RunCompletes \/ ForeignRun
  BY <1>28, <1>5 DEF Clock, RunCompletes, ForeignRun, Exists
<1>29. CASE Crash
  <2>1. Exists /\ ~disturbed /\ UNCHANGED <<st, lastRun>> /\ ~Started
    BY <1>29, <1>0 DEF Crash, Exists, Started
  <2>2. "tick" \in Actors => pc'["tick"] = "idle"
    BY <1>29 DEF Crash
  <2>3. QED
    BY <2>1, <2>2, <1>6
<1>30. CASE UNCHANGED vars
  BY <1>30, <1>5 DEF vars, Exists
<1>31. QED
  BY <1>7, <1>8, <1>9, <1>10, <1>11, <1>12, <1>13, <1>14, <1>15, <1>16, <1>17, <1>18, <1>19, <1>20,
     <1>21, <1>22, <1>23, <1>24, <1>25, <1>26, <1>27, <1>28, <1>29, <1>30, NextCases

\* Between two runs that ticks dispatch the schedule has an occurrence: occurrences
\* missed together are made up for by one run, and a run is not repeated, as long
\* as no state write is lost.
THEOREM OncePerSlotHolds == Spec => OncePerSlot
<1>1. Init => SlotInv
  BY DEF Init, SlotInv, Exists
<1>2. SlotInv /\ [Next]_vars
        => [("tick" \in Actors /\ pc["tick"] = "dispatch" /\ pc'["tick"] = "record" /\ runs' > runs
               /\ Kind \in {"cron", "interval"} /\ lastRun # 0 /\ Exists /\ ~disturbed)
              => /\ ComputeNext(lastRun) # 0
                 /\ ComputeNext(lastRun) <= at["tick"]]_vars
  BY DEF SlotInv, SlotClaim
<1>3. QED
  BY BaseInv, TimesAlways, SlotStep, <1>1, <1>2, PTL DEF Spec, OncePerSlot

-----------------------------------------------------------------------------
(* No occurrence is passed over *)

LEMMA MultipleFact ==
  ASSUME NEW n \in Nat, NEW d \in Nat \ {0}, n % d = 0
  PROVE  \E k \in Nat : n = d * k
<1>1. n \div d \in Nat /\ n = d * (n \div d) + (n % d)
  OBVIOUS
<1>2. QED
  BY <1>1

\* An occurrence after t is not before the one that is computed from t.
LEMMA NextIntervalLeast ==
  ASSUME NEW start \in Nat, NEW t \in Nat, NEW s \in Nat, s >= start, s > t, (s - start) % Every = 0
  PROVE  NextInterval(start, t) <= s
<1>1. CASE t < start
  BY <1>1 DEF NextInterval
<1>2. CASE ~ (t < start)
  <2>1. s - start \in Nat /\ t - start \in Nat /\ Every \in Nat \ {0}
    BY <1>2, SchedulerAssumption
  <2>2. PICK k \in Nat : s - start = Every * k
    BY <2>1, MultipleFact
  <2>3. PICK q \in Nat : q = (t - start) \div Every /\ Every * q <= t - start
    BY <2>1, QuotientFact
  <2>4. Every * q < Every * k
    BY <2>1, <2>2, <2>3
  <2>5. q < k
    BY <2>1, <2>4, ProductOrder
  <2>6. PICK d \in Nat : k = (q + 1) + d
    BY <2>5
  <2>7. Every * k = Every * (q + 1) + Every * d /\ Every * d \in Nat /\ Every * (q + 1) \in Nat
    BY <2>1, <2>6
  <2>8. NextInterval(start, t) = start + Every * (q + 1)
    BY <1>2, <2>3 DEF NextInterval
  <2>9. QED
    BY <2>1, <2>2, <2>7, <2>8
<1>3. QED
  BY <1>1, <1>2

\* Occurs, when c is the moment up to which occurrences were dealt with.
OccursAfter(c, t) ==
  CASE Kind = "cron"     -> t \in CronTimes
    [] Kind = "interval" -> LET start == IF StartAt = 0 THEN c + Every ELSE StartAt
                            IN  t >= start /\ (t - start) % Every = 0
    [] OTHER             -> FALSE

LEMMA NextCovers ==
  ASSUME NEW x \in Nat, NEW t \in Nat, NEW c \in Nat, x <= c, c < t, OccursAfter(c, t),
         config \in Configs
  PROVE  ComputeNext(x) # 0 /\ ComputeNext(x) <= t
<1>1. CASE Kind = "cron"
  <2>1. t \in CronTimes /\ t > x
    BY <1>1 DEF OccursAfter
  <2>2. QED
    BY <1>1, <2>1, NextCronFact DEF ComputeNext
<1>2. CASE Kind = "interval" /\ StartAt = 0
  <2>1. t >= c + Every /\ Every \in Nat \ {0}
    BY <1>2, SchedulerAssumption DEF OccursAfter
  <2>2. ComputeNext(x) = NextInterval(x, x)
    BY <1>2 DEF ComputeNext, Anchor
  <2>3. NextInterval(x, x) \in Nat /\ NextInterval(x, x) > x /\ NextInterval(x, x) <= x + Every
    <3>1. x >= x
      OBVIOUS
    <3>2. QED
      BY <3>1, NextIntervalFact
  <2>4. QED
    BY <2>1, <2>2, <2>3
<1>3. CASE Kind = "interval" /\ StartAt # 0
  <2>1. StartAt \in Nat /\ t >= StartAt /\ (t - StartAt) % Every = 0
    BY <1>3, SchedulerAssumption DEF OccursAfter
  <2>2. ComputeNext(x) = NextInterval(StartAt, x)
    BY <1>3 DEF ComputeNext, Anchor
  <2>3. t > x
    OBVIOUS
  <2>4. NextInterval(StartAt, x) <= t /\ NextInterval(StartAt, x) > x /\ NextInterval(StartAt, x) \in Nat
    BY <2>1, <2>3, NextIntervalLeast, NextIntervalFact
  <2>5. QED
    BY <2>2, <2>4
<1>4. CASE Kind \notin {"cron", "interval"}
  BY <1>4 DEF OccursAfter
<1>5. QED
  BY <1>1, <1>2, <1>3, <1>4

\* n is soon enough for whatever occurs after c.
WaitsFrom(c, n) == \A t \in Nat : c < t /\ OccursAfter(c, t) => n # 0 /\ n <= t

\* The row waits for whatever occurs after the moments that were dealt with.
Watches(row) == WaitsFrom(covered, row.next)

Timed == Kind \in {"cron", "interval"}

\* The stored row waits for what is to come, and only a row that belongs to a
\* trigger has a next_fire_at.
WaitInv ==
  /\ status = "absent" => covered = 0
  /\ Exists /\ covered # 0 => Watches(st)
  /\ Timed /\ st.next # 0 => Exists /\ Watches(st)

\* So does the older row that record_error is about to put back, unless it was
\* read before the first next_fire_at was written.
RowInv ==
  "tick" \in Actors /\ pc["tick"] = "errwrite" /\ Timed /\ rd["tick"].next # 0
    => Watches(rd["tick"])

WatchInv == WaitInv /\ RowInv

LEMMA OccursFact ==
  ASSUME NEW t \in Nat
  PROVE  Occurs(t) <=> OccursAfter(covered, t)
BY DEF Occurs, OccursAfter

LEMMA WaitsRigid ==
  ASSUME [Next]_vars
  PROVE  \A c \in Nat, n \in Nat : WaitsFrom(c, n)' <=> WaitsFrom(c, n)
<1>1. Kind' = Kind
  BY ConfigStays DEF Kind
<1>2. \A c \in Nat, t \in Nat : OccursAfter(c, t)' <=> OccursAfter(c, t)
  BY <1>1 DEF OccursAfter
<1>3. QED
  BY <1>2 DEF WaitsFrom

\* Once more has been dealt with there is less to wait for.
LEMMA WaitsLater ==
  ASSUME NEW c \in Nat, NEW d \in Nat, NEW n \in Nat, c <= d, WaitsFrom(c, n)
  PROVE  WaitsFrom(d, n)
<1> SUFFICES ASSUME NEW t \in Nat, d < t, OccursAfter(d, t) PROVE n # 0 /\ n <= t
  BY DEF WaitsFrom
<1>1. CASE Kind = "interval" /\ StartAt = 0
  <2>1. Every \in Nat \ {0} /\ t >= d + Every /\ c + Every \in Nat
    BY <1>1, SchedulerAssumption DEF OccursAfter
  <2>2. c < c + Every /\ ((c + Every) - (c + Every)) % Every = 0
    BY <2>1
  <2>3. OccursAfter(c, c + Every)
    BY <1>1, <2>1, <2>2 DEF OccursAfter
  <2>4. n # 0 /\ n <= c + Every
    BY <2>1, <2>2, <2>3 DEF WaitsFrom
  <2>5. QED
    BY <2>1, <2>4
<1>2. CASE ~ (Kind = "interval" /\ StartAt = 0)
  <2>1. OccursAfter(c, t) /\ c < t
    BY <1>2 DEF OccursAfter
  <2>2. QED
    BY <2>1 DEF WaitsFrom
<1>3. QED
  BY <1>1, <1>2

LEMMA WatchWrite ==
  ASSUME TypeOK, [Next]_vars, NEW x \in Nat, covered' = Larger(covered, x),
         st'.next = ComputeNext(x)
  PROVE  Watches(st)'
<1>1. config \in Configs /\ covered' \in Nat /\ x <= covered' /\ ComputeNext(x) \in Nat
  BY ComputeNextType DEF Larger, TypeOK
<1>2. WaitsFrom(covered', ComputeNext(x))
  BY <1>1, NextCovers DEF WaitsFrom
<1>3. PICK c \in Nat, n \in Nat : c = covered' /\ n = ComputeNext(x)
  BY <1>1
<1>4. WaitsFrom(c, n)'
  BY <1>2, <1>3, WaitsRigid
<1>5. QED
  BY <1>3, <1>4 DEF Watches

LEMMA WatchStays ==
  ASSUME TypeOK, [Next]_vars, covered' = covered, st'.next = st.next, Watches(st)
  PROVE  Watches(st)'
<1>1. PICK c \in Nat, n \in Nat : c = covered /\ n = st.next
  BY DEF TypeOK, RowType
<1>2. WaitsFrom(c, n)'
  BY <1>1, WaitsRigid DEF Watches
<1>3. QED
  BY <1>1, <1>2 DEF Watches

\* Other kinds of trigger have no occurrences.
LEMMA WatchOthers ==
  ASSUME [Next]_vars, ~ Timed
  PROVE  Watches(st)' /\ ~ Timed'
<1>1. Kind' = Kind
  BY ConfigStays DEF Kind
<1>2. \A t \in Nat : ~ OccursAfter(covered, t)'
  BY <1>1 DEF OccursAfter, Timed
<1>3. QED
  BY <1>1, <1>2 DEF Watches, WaitsFrom, Timed

\* The tick gets to the write of record_error by reading the row for it.
TickKeeps ==
  "tick" \in Actors /\ pc'["tick"] = "errwrite"
    => pc["tick"] = "errwrite" /\ rd'["tick"] = rd["tick"]

LEMMA TickKeepsStep ==
  ASSUME Base, [Next]_vars
  PROVE  TickKeeps \/ ErrorRead("tick")
<1> SUFFICES ASSUME ~ ErrorRead("tick"), "tick" \in Actors PROVE TickKeeps
  BY DEF TickKeeps
<1> USE DEF store, disp, local, hist
<1>0. pc \in [Actors -> Steps] /\ rd \in [Actors -> RowType]
  BY DEF Base, TypeOK
<1>1. ASSUME NEW a \in Actors, NEW s, s # "errwrite", Goto(a, s), rd' = rd PROVE TickKeeps
  BY <1>0, <1>1 DEF TickKeeps, Goto
<1>2. ASSUME NEW a \in Actors, Done(a) PROVE TickKeeps
  BY <1>0, <1>2 DEF TickKeeps, Done
<1>3. ASSUME NEW s, s # "errwrite", Goto("tick", s) PROVE TickKeeps
  BY <1>0, <1>3 DEF TickKeeps, Goto
<1>4. ASSUME NEW a \in Actors, a # "tick", NEW s, NEW row, Goto(a, s), rd' = [rd EXCEPT ![a] = row]
      PROVE  TickKeeps
  BY <1>0, <1>4 DEF TickKeeps, Goto
<1>5. ASSUME pc' = pc, rd' = rd PROVE TickKeeps
  BY <1>5 DEF TickKeeps
<1>6. ASSUME NEW k \in FrontEnds, Create(k) \/ CreateTorn(k) PROVE TickKeeps
  <2>1. pc'["tick"] = pc["tick"] /\ rd'["tick"] = rd["tick"]
    BY <1>0, <1>6 DEF Create, CreateTorn, Goto
  <2>2. QED
    BY <2>1 DEF TickKeeps
<1>7. CASE CreateState \/ UpdateWrite
  BY <1>2, <1>7 DEF CreateState, UpdateWrite
<1>8. CASE UpdateRead \/ UpdateCompute
  BY <1>0, <1>8 DEF UpdateRead, UpdateCompute, Goto, TickKeeps
<1>9. CASE SetEnabled \/ Delete \/ CliFire \/ Clock \/ FileArrives \/ RunCompletes \/ ForeignRun
  BY <1>5, <1>9 DEF SetEnabled, Delete, CliFire, Clock, FileArrives, RunCompletes, ForeignRun
<1>10. CASE TickList \/ TickTouch \/ TickAfter \/ TickAfterFails
  BY <1>2, <1>3, <1>10 DEF TickList, TickTouch, TickAfter, TickAfterFails
<1>11. CASE TickTime
  BY <1>2, <1>3, <1>11 DEF TickTime
<1>25. CASE TickFiles
  <2>1. CASE Throttled(st, at["tick"])
    BY <1>2, <1>25, <2>1 DEF TickFiles
  <2>2. CASE ~ Throttled(st, at["tick"])
    <3>1. Goto("tick", "after") \/ Goto("tick", "fire") \/ Goto("tick", "error")
      BY <1>25, <2>2 DEF TickFiles
    <3>2. QED
      BY <1>3, <3>1
  <2>3. QED
    BY <2>1, <2>2
<1>12. ASSUME NEW a \in Actors, FireDecide(a) PROVE TickKeeps
  <2>1. Policy \in {"queue", "skip", "reject"}
    BY SchedulerAssumption DEF Base, TypeOK, Policy
  <2>2. Goto(a, "dispatch") \/ Goto(a, "count") \/ Goto(a, "record")
    BY <1>12, <2>1 DEF FireDecide
  <2>3. QED
    BY <1>1, <1>12, <2>2 DEF FireDecide
<1>13. ASSUME NEW a \in Actors, FireCount(a) \/ FireDispatch(a) \/ FireRecord(a) PROVE TickKeeps
  BY <1>0, <1>13 DEF FireCount, FireDispatch, FireRecord, Goto, TickKeeps
<1>14. ASSUME NEW a \in Actors, ErrorRecord(a) PROVE TickKeeps
  BY <1>1, <1>14 DEF ErrorRecord
<1>15. ASSUME NEW a \in Actors, ErrorRead(a) PROVE TickKeeps
  BY <1>0, <1>15 DEF ErrorRead, Goto, TickKeeps
<1>16. ASSUME NEW a \in Actors, ErrorWrite(a) \/ ErrorReturn(a) \/ HookMint(a) \/ HookAudit(a)
       PROVE  TickKeeps
  BY <1>2, <1>16 DEF ErrorWrite, ErrorReturn, HookMint, HookAudit
<1>17. ASSUME NEW a \in Actors, HookCall(a) \/ HookAfter(a) PROVE TickKeeps
  BY <1>1, <1>17 DEF HookCall, HookAfter
<1>18. ASSUME NEW a \in Actors, HookGet(a) PROVE TickKeeps
  BY <1>1, <1>2, <1>18 DEF HookGet
<1>19. ASSUME NEW a \in Actors, HookToken(a) PROVE TickKeeps
  <2>1. CASE st.token = 0
    BY <1>0, <1>19, <2>1 DEF HookToken, Goto, TickKeeps
  <2>2. CASE st.token # 0
    BY <1>1, <1>2, <1>19, <2>2 DEF HookToken
  <2>3. QED
    BY <2>1, <2>2
<1>20. CASE ManualFire \/ Notify
  BY <1>1, <1>20 DEF ManualFire, Notify
<1>21. CASE ManualAfter \/ NotifyAfter
  BY <1>2, <1>21 DEF ManualAfter, NotifyAfter
<1>22. CASE Crash
  BY <1>22 DEF Crash, TickKeeps
<1>23. CASE UNCHANGED vars
  BY <1>5, <1>23 DEF vars
<1>24. QED
  BY <1>6, <1>7, <1>8, <1>9, <1>10, <1>11, <1>12, <1>13, <1>14, <1>15, <1>16, <1>17, <1>18,
     <1>19, <1>20, <1>21, <1>22, <1>23, <1>25, NextCases

LEMMA RowStays ==
  ASSUME Base, [Next]_vars, RowInv, TickKeeps, covered' \in Nat,
         "tick" \in Actors /\ pc'["tick"] = "errwrite" => covered <= covered'
  PROVE  RowInv'
<1> SUFFICES ASSUME "tick" \in Actors, pc'["tick"] = "errwrite", Timed', rd'["tick"].next # 0
             PROVE  Watches(rd["tick"])'
  BY DEF RowInv
<1>1. Timed /\ pc["tick"] = "errwrite" /\ rd'["tick"] = rd["tick"] /\ covered <= covered'
  BY ConfigStays DEF Timed, Kind, TickKeeps
<1>2. Watches(rd["tick"]) /\ covered \in Nat /\ rd["tick"].next \in Nat
  BY <1>1 DEF RowInv, Base, TypeOK, RowType
<1>3. PICK c \in Nat, n \in Nat : c = covered' /\ n = rd["tick"].next
  BY <1>2
<1>4. WaitsFrom(c, n)
  BY <1>1, <1>2, <1>3, WaitsLater DEF Watches
<1>5. WaitsFrom(c, n)'
  BY <1>4, WaitsRigid
<1>6. QED
  BY <1>1, <1>2, <1>3, <1>5 DEF Watches

\* What was dealt with is forgotten only by the tick that puts a first row back.
LEMMA CoveredGrows ==
  ASSUME Base, [Next]_vars
  PROVE  "tick" \in Actors /\ pc'["tick"] = "errwrite" => covered <= covered'
<1> SUFFICES ASSUME "tick" \in Actors, pc'["tick"] = "errwrite" PROVE covered <= covered'
  OBVIOUS
<1> USE DEF store, disp, local, hist
<1>0. /\ covered \in Nat /\ now \in Nat /\ at \in [Actors -> Nat] /\ pc \in [Actors -> Steps]
      /\ rd \in [Actors -> RowType]
  BY SchedulerAssumption DEF Base, TypeOK
<1>1. ASSUME covered' = covered PROVE covered <= covered'
  BY <1>0, <1>1
<1>2. ASSUME NEW k \in FrontEnds, Create(k) \/ CreateTorn(k) PROVE covered <= covered'
  BY <1>0, <1>2 DEF Create, CreateTorn, Base, Places, Goto
<1>3. CASE CreateState \/ UpdateWrite \/ TickAfter
  BY <1>0, <1>3 DEF CreateState, UpdateWrite, TickAfter, Larger
<1>4. ASSUME NEW a \in Actors, ErrorWrite(a) PROVE covered <= covered'
  <2>1. CASE a = "tick"
    BY <1>0, <1>4, <2>1 DEF ErrorWrite, Done
  <2>2. CASE a # "tick"
    <3>1. Kind = "pipeline_completion"
      BY <1>4, <2>2 DEF ErrorWrite, Base, Places
    <3>2. QED
      BY <1>1, <1>4, <3>1 DEF ErrorWrite
  <2>3. QED
    BY <2>1, <2>2
<1>5. CASE UpdateRead \/ UpdateCompute \/ SetEnabled \/ Delete \/ CliFire
  BY <1>1, <1>5 DEF UpdateRead, UpdateCompute, SetEnabled, Delete, CliFire
<1>6. CASE TickList \/ TickTime \/ TickFiles \/ TickTouch \/ TickAfterFails
  BY <1>1, <1>6 DEF TickList, TickTime, TickFiles, TickTouch, TickAfterFails
<1>7. ASSUME NEW a \in Actors, \/ FireDecide(a) \/ FireCount(a) \/ FireDispatch(a) \/ FireRecord(a)
                               \/ ErrorRecord(a) \/ ErrorRead(a) \/ ErrorReturn(a)
      PROVE  covered <= covered'
  BY <1>1, <1>7 DEF FireDecide, FireCount, FireDispatch, FireRecord, ErrorRecord, ErrorRead,
     ErrorReturn
<1>8. ASSUME NEW a \in Actors, \/ HookCall(a) \/ HookToken(a) \/ HookMint(a) \/ HookGet(a)
                               \/ HookAfter(a) \/ HookAudit(a)
      PROVE  covered <= covered'
  BY <1>1, <1>8 DEF HookCall, HookToken, HookMint, HookGet, HookAfter, HookAudit
<1>9. CASE ManualFire \/ ManualAfter \/ Notify \/ NotifyAfter
  BY <1>1, <1>9 DEF ManualFire, ManualAfter, Notify, NotifyAfter
<1>10. CASE Clock \/ FileArrives \/ RunCompletes \/ ForeignRun \/ Crash
  BY <1>1, <1>10 DEF Clock, FileArrives, RunCompletes, ForeignRun, Crash
<1>11. CASE UNCHANGED vars
  BY <1>1, <1>11 DEF vars
<1>12. QED
  BY <1>2, <1>3, <1>4, <1>5, <1>6, <1>7, <1>8, <1>9, <1>10, <1>11, NextCases

LEMMA RowStep == Base /\ WatchInv /\ [Next]_vars => RowInv'
<1> SUFFICES ASSUME Base, WatchInv, [Next]_vars PROVE RowInv'
  OBVIOUS
<1>1. covered' \in Nat
  BY TypeStep DEF Base, TypeOK
<1>2. CASE TickKeeps
  BY <1>1, <1>2, RowStays, CoveredGrows DEF WatchInv
<1>3. CASE ErrorRead("tick")
  <2> SUFFICES ASSUME "tick" \in Actors, Timed', rd'["tick"].next # 0
               PROVE  Watches(rd["tick"])'
    BY DEF RowInv
  <2>1. rd'["tick"] = st /\ covered' = covered /\ st' = st
    BY <1>3 DEF ErrorRead, Base, TypeOK, hist, store
  <2>2. Timed /\ st.next # 0
    BY <2>1, ConfigStays DEF Timed, Kind
  <2>3. Watches(st)
    BY <2>2 DEF WatchInv, WaitInv
  <2>4. Watches(st)'
    BY <2>1, <2>3, WatchStays DEF Base
  <2>5. QED
    BY <2>1, <2>3, <2>4 DEF Watches
<1>4. QED
  BY <1>2, <1>3, TickKeepsStep

LEMMA WatchStep ==
  ASSUME FrontEnds \subseteq {"api"}
  PROVE  Base /\ WatchInv /\ [Next]_vars => WaitInv'
<1> SUFFICES ASSUME TypeOK, Places, WaitInv, RowInv, [Next]_vars PROVE WaitInv'
  BY DEF Base, WatchInv
<1> USE DEF store, disp, local, hist
<1>0. /\ now \in Nat /\ st \in RowType /\ at \in [Actors -> Nat]
      /\ covered \in Nat /\ config \in Configs /\ rd \in [Actors -> RowType]
      /\ Timed' = Timed
  BY SchedulerAssumption, ConfigStays DEF TypeOK, Timed, Kind
\* A step that leaves what the row waits for.
<1>1. ASSUME covered' = covered, st'.next = st.next, Exists' = Exists,
             status' = "absent" => status = "absent"
      PROVE  WaitInv'
  <2>1. Watches(st) => Watches(st)'
    BY <1>1, WatchStays
  <2>2. status' = "absent" => covered' = 0
    BY <1>1 DEF WaitInv
  <2>3. Exists' /\ covered' # 0 => Watches(st)'
    BY <1>1, <2>1 DEF WaitInv
  <2>4. Timed' /\ st'.next # 0 => Exists' /\ Watches(st)'
    BY <1>0, <1>1, <2>1 DEF WaitInv
  <2>5. QED
    BY <2>2, <2>3, <2>4 DEF WaitInv
\* A write of the next occurrence after x.
<1>2. ASSUME NEW x \in Nat, covered' = Larger(covered, x), status' = status, status # "absent",
             IF Exists THEN st'.next = ComputeNext(x) ELSE st' = st
      PROVE  WaitInv'
  <2>1. Exists' = Exists
    BY <1>2 DEF Exists
  <2>2. CASE Exists
    BY <1>2, <2>1, <2>2, WatchWrite DEF WaitInv
  <2>3. CASE ~ Exists
    BY <1>0, <1>2, <2>1, <2>3 DEF WaitInv
  <2>4. QED
    BY <2>2, <2>3
\* Any step of a trigger without a schedule.
<1>24. ASSUME ~ Timed, status' = status, covered' = covered PROVE WaitInv'
  BY <1>0, <1>24, WatchOthers DEF WaitInv
<1>3. ASSUME NEW k \in FrontEnds, Create(k) PROVE WaitInv'
  <2>1. covered' = 0 /\ status' = "on" /\ st'.next = 0
    BY <1>3 DEF Create, WaitInv, FirstRow, Blank
  <2>2. QED
    BY <2>1 DEF WaitInv
<1>23. ASSUME NEW k \in FrontEnds, CreateTorn(k) PROVE WaitInv'
  <2>1. covered' = 0 /\ status' = "on" /\ st' = st /\ ~ Exists
    BY <1>23 DEF CreateTorn, WaitInv, Exists
  <2>2. QED
    BY <1>0, <2>1 DEF WaitInv
<1>4. CASE CreateState
  <2>1. ComputeNext(now) \in Nat /\ status # "absent" /\ status' = status
    BY <1>0, <1>4, ComputeNextType DEF CreateState, Places
  <2>2. IF Exists THEN st'.next = ComputeNext(now) ELSE st' = st
    BY <1>4, <2>1 DEF CreateState, Upsert, Blank
  <2>3. QED
    BY <1>0, <1>2, <1>4, <2>1, <2>2 DEF CreateState
<1>5. CASE UpdateRead \/ SetEnabled \/ CliFire
  BY <1>5, <1>1 DEF UpdateRead, SetEnabled, CliFire, Exists
<1>6. CASE UpdateCompute
  BY <1>6, <1>1 DEF UpdateCompute, Exists
<1>7. CASE UpdateWrite
  <2>1. "update" \in Actors /\ status # "absent" /\ status' = status
    BY <1>7 DEF UpdateWrite, Places
  <2>2. at["update"] \in Nat /\ ComputeNext(at["update"]) \in Nat /\ rd["update"] \in RowType
    BY <1>0, <2>1, ComputeNextType
  <2>3. IF Exists THEN st'.next = ComputeNext(at["update"]) ELSE st' = st
    BY <1>7, <2>2 DEF UpdateWrite, Upsert, RowType
  <2>4. QED
    BY <1>2, <1>7, <2>1, <2>2, <2>3 DEF UpdateWrite
<1>8. CASE Delete
  BY <1>8 DEF Delete, WaitInv, Exists, Blank
<1>9. CASE TickList \/ TickTime \/ TickFiles \/ TickTouch \/ TickAfterFails
  BY <1>9, <1>1 DEF TickList, TickTime, TickFiles, TickTouch, TickAfterFails, Exists
<1>11. CASE TickAfter
  <2>1. "tick" \in Actors /\ status # "absent" /\ status' = status
    BY <1>11 DEF TickAfter, Places
  <2>2. at["tick"] \in Nat /\ TickRow \in RowType
    BY <1>0, <2>1, TickRowType
  <2>3. CASE Timed
    <3>1. TickRow.next = ComputeNext(at["tick"])
      BY <1>0, <2>1, <2>3 DEF TickRow, RowType, Timed
    <3>2. IF Exists THEN st'.next = ComputeNext(at["tick"]) ELSE st' = st
      BY <1>11, <2>2, <3>1 DEF TickAfter, Upsert, RowType
    <3>3. QED
      BY <1>2, <1>11, <2>1, <2>2, <3>2 DEF TickAfter
  <2>4. CASE ~ Timed
    BY <1>0, <2>1, <2>4, WatchOthers DEF WaitInv
  <2>5. QED
    BY <2>3, <2>4
<1>12. ASSUME NEW a \in Actors, FireDecide(a) \/ FireCount(a) \/ FireDispatch(a) \/ FireRecord(a)
       PROVE  WaitInv'
  BY <1>12, <1>1 DEF FireDecide, FireCount, FireDispatch, FireRecord, Exists
<1>13. ASSUME NEW a \in Actors, ErrorRecord(a) \/ ErrorRead(a) \/ ErrorReturn(a) PROVE WaitInv'
  BY <1>13, <1>1 DEF ErrorRecord, ErrorRead, ErrorReturn, Exists
<1>14. ASSUME NEW a \in Actors, ErrorWrite(a) PROVE WaitInv'
  <2>1. /\ status' = status /\ status # "absent" /\ Upsert([rd[a] EXCEPT !.eval = at[a]])
        /\ covered' = IF Timed /\ rd[a].next = 0 THEN 0 ELSE covered
        /\ pc[a] = "errwrite" /\ Exists' = Exists
    BY <1>14 DEF ErrorWrite, Places, Timed, Exists
  <2>2. CASE ~ Timed
    BY <1>24, <2>1, <2>2
  <2>3. CASE Timed /\ ~ Exists
    BY <1>0, <2>1, <2>3 DEF WaitInv, Upsert
  <2>4. CASE Timed /\ Exists
    <3>1. st'.next = rd[a].next
      BY <1>0, <2>1, <2>4 DEF Upsert, RowType
    <3>2. CASE rd[a].next = 0
      BY <2>1, <2>4, <3>1, <3>2 DEF WaitInv
    <3>3. CASE rd[a].next # 0
      <4>1. a = "tick"
        BY <2>1, <2>4 DEF Places, Timed
      <4>2. Watches(rd["tick"]) /\ covered' = covered
        BY <2>1, <2>4, <3>3, <4>1 DEF RowInv
      <4>3. PICK c \in Nat, n \in Nat : c = covered /\ n = rd["tick"].next
        BY <1>0, <4>1 DEF RowType
      <4>4. WaitsFrom(c, n)'
        BY <4>2, <4>3, WaitsRigid DEF Watches
      <4>5. Watches(st)'
        BY <3>1, <4>1, <4>2, <4>3, <4>4 DEF Watches
      <4>6. QED
        BY <2>1, <2>4, <4>5 DEF WaitInv
    <3>4. QED
      BY <3>2, <3>3
  <2>5. QED
    BY <2>2, <2>3, <2>4
<1>15. ASSUME NEW a \in Actors, HookCall(a) \/ HookToken(a) \/ HookGet(a) \/ HookAudit(a) PROVE WaitInv'
  BY <1>15, <1>1 DEF HookCall, HookToken, HookGet, HookAudit, Exists
<1>16. ASSUME NEW a \in Actors, HookMint(a) \/ HookAfter(a) PROVE WaitInv'
  <2>1. status' = status /\ covered' = covered /\ ~ Timed
    BY <1>16 DEF HookMint, HookAfter, Places, Timed
  <2>2. QED
    BY <1>24, <2>1
<1>17. CASE NotifyAfter
  <2>1. status' = status /\ covered' = covered /\ ~ Timed
    BY <1>17 DEF NotifyAfter, Places, Timed
  <2>2. QED
    BY <1>24, <2>1
<1>18. CASE ManualFire \/ ManualAfter \/ Notify
  BY <1>18, <1>1 DEF ManualFire, ManualAfter, Notify, Exists
<1>19. CASE Clock \/ FileArrives \/ RunCompletes \/ ForeignRun \/ Crash
  BY <1>19, <1>1 DEF Clock, FileArrives, RunCompletes, ForeignRun, Crash, Exists
<1>20. CASE UNCHANGED vars
  BY <1>20, <1>1 DEF vars, Exists
<1>21. QED
  BY <1>3, <1>4, <1>5, <1>6, <1>7, <1>8, <1>9, <1>11, <1>12, <1>13, <1>14, <1>15, <1>16,
     <1>17, <1>18, <1>19, <1>20, <1>23, NextCases

\* The tick gives up a time trigger in one place.
LEMMA NotDueCase ==
  ASSUME Base, [Next]_vars, NotDue, Kind \in {"cron", "interval"}
  PROVE  ~ ShouldFire(st, at["tick"])
<1> USE DEF store, disp, local, hist
<1>1. "tick" \in Actors /\ pc["tick"] = "eval" /\ pc'["tick"] = "idle" /\ faults' = faults
  BY DEF NotDue
<1>2. pc \in [Actors -> Steps] /\ faults \in Nat
  BY SchedulerAssumption DEF Base, TypeOK
<1>3. CASE TickTime
  BY <1>1, <1>2, <1>3 DEF TickTime, Goto
<1>4. \A a \in Actors \ {"tick"}, s \in Steps : pc' # [pc EXCEPT ![a] = s]
  BY <1>1, <1>2
<1>5. \A a \in Actors \ {"tick"} : ~ Done(a)
  BY <1>1, <1>2 DEF Done
<1>6. pc' # pc
  BY <1>1
<1>7. ASSUME NEW k \in FrontEnds, Create(k) \/ CreateTorn(k) PROVE FALSE
  BY <1>1, <1>7 DEF Create, CreateTorn, Base, Places
<1>8. CASE CreateState \/ UpdateRead \/ UpdateCompute \/ UpdateWrite
  BY <1>1, <1>2, <1>8 DEF CreateState, UpdateRead, UpdateCompute, UpdateWrite, Done, Goto
<1>9. CASE SetEnabled \/ Delete \/ CliFire \/ Clock \/ FileArrives \/ RunCompletes \/ ForeignRun
  BY <1>6, <1>9 DEF SetEnabled, Delete, CliFire, Clock, FileArrives, RunCompletes, ForeignRun
<1>10. CASE TickList \/ TickFiles \/ TickTouch \/ TickAfter \/ TickAfterFails
  BY <1>1, <1>10 DEF TickList, TickFiles, TickTouch, TickAfter, TickAfterFails
<1>11. ASSUME NEW a \in Actors, FireDecide(a) \/ FireCount(a) \/ FireDispatch(a) \/ FireRecord(a)
       PROVE  FALSE
  <2>1. CASE a = "tick"
    BY <1>1, <1>11, <2>1 DEF FireDecide, FireCount, FireDispatch, FireRecord
  <2>2. CASE a # "tick"
    BY <1>1, <1>2, <1>11, <2>2 DEF FireDecide, FireCount, FireDispatch, FireRecord, Goto
  <2>3. QED
    BY <2>1, <2>2
<1>12. ASSUME NEW a \in Actors, ErrorRecord(a) \/ ErrorRead(a) \/ ErrorWrite(a) \/ ErrorReturn(a)
       PROVE  FALSE
  <2>1. CASE a = "tick"
    BY <1>1, <1>12, <2>1 DEF ErrorRecord, ErrorRead, ErrorWrite, ErrorReturn
  <2>2. CASE a # "tick"
    BY <1>1, <1>2, <1>12, <2>2 DEF ErrorRecord, ErrorRead, ErrorWrite, ErrorReturn, Done, Goto
  <2>3. QED
    BY <2>1, <2>2
<1>13. ASSUME NEW a \in Actors, \/ HookCall(a) \/ HookToken(a) \/ HookMint(a) \/ HookGet(a)
                                \/ HookAfter(a) \/ HookAudit(a)
       PROVE  FALSE
  BY <1>13 DEF HookCall, HookToken, HookMint, HookGet, HookAfter, HookAudit, Base, Places
<1>14. CASE ManualFire \/ ManualAfter \/ Notify \/ NotifyAfter
  BY <1>1, <1>2, <1>14 DEF ManualFire, ManualAfter, Notify, NotifyAfter, Done, Goto
<1>15. CASE Crash
  BY <1>1, <1>2, <1>15 DEF Crash
<1>16. CASE UNCHANGED vars
  BY <1>6, <1>16 DEF vars
<1>17. QED
  BY <1>3, <1>7, <1>8, <1>9, <1>10, <1>11, <1>12, <1>13, <1>14, <1>15, <1>16, NextCases

\* For triggers that were created over HTTP a tick that finds nothing due leaves no
\* occurrence behind: not one that fell into downtime, into a time when the trigger
\* was disabled, or between the steps of an update.
THEOREM NoMissedSlotHolds ==
  ASSUME FrontEnds \subseteq {"api"}
  PROVE  Spec => NoMissedSlot
<1>1. Init => WatchInv
  BY DEF Init, WatchInv, WaitInv, RowInv, Exists, Blank
<1>2. Base /\ WatchInv /\ [Next]_vars => WatchInv'
  BY WatchStep, RowStep DEF WatchInv
<1>3. Base /\ WatchInv /\ [Next]_vars
        => [(NotDue /\ Settled) => \A t \in covered + 1 .. at["tick"] : ~Occurs(t)]_vars
  <2> SUFFICES ASSUME Base, WatchInv, [Next]_vars, NotDue, Settled,
                      NEW t \in covered + 1 .. at["tick"], Occurs(t)
               PROVE  FALSE
    OBVIOUS
  <2>1. /\ "tick" \in Actors /\ at["tick"] \in Nat /\ covered \in Nat /\ st.next \in Nat
    BY DEF NotDue, Base, TypeOK, RowType
  <2>2. t \in Nat /\ covered < t /\ t <= at["tick"]
    BY <2>1
  <2>3. st.next # 0 /\ st.next <= t
    BY <2>2, OccursFact DEF WatchInv, WaitInv, Watches, WaitsFrom, Settled
  <2>4. Kind \in {"cron", "interval"}
    BY DEF Occurs
  <2>5. ~ ShouldFire(st, at["tick"])
    BY <2>4, NotDueCase
  <2>6. QED
    BY <2>1, <2>2, <2>3, <2>5 DEF ShouldFire
<1>4. QED
  BY BaseInv, <1>1, <1>2, <1>3, PTL DEF Spec, NoMissedSlot

=============================================================================
