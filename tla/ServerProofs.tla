----------------------------- MODULE ServerProofs ---------------------------
(***************************************************************************)
(* Proofs about what a server keeps beside its pipelines, for every value  *)
(* of the constants: the run store and what is derived from it, the        *)
(* instances on a machine, the events of the runs, the secret store, and   *)
(* the registry of plugins.                                                *)
(***************************************************************************)
EXTENDS RunHistory, Instances, EventFanout, Secrets, PluginDiscovery, FiniteSetTheorems, WellFoundedInduction, TLAPS

-----------------------------------------------------------------------------
(* The run store.  Everything rests on what a write may do (Steady): a     *)
(* finished run is final, and a run starts at the time of the write.  A    *)
(* reader between its two statements therefore still holds the truth if it *)
(* holds a finished status, an evaluation stays right as time goes on, and *)
(* the runs an overview has to count cannot come to be after it was        *)
(* computed.                                                               *)

Row == [status : Statuses, start : Int \cup {None}, end : Int \cup {None}]

TypeInv ==
  /\ now \in Int
  /\ runRow \in Seq(Row)
  /\ nodeStats \in Seq(SUBSET PipelineNodes)
  /\ Len(nodeStats) = Len(runRow)
  /\ reports \subseteq Runs

-----------------------------------------------------------------------------
(* What a step may do to the runs there are. *)
Kept(r) ==
  runRow[r].status \in Finished =>
    /\ runRow'[r] = runRow[r] /\ nodeStats'[r] = nodeStats[r]
    /\ (r \in reports) <=> (r \in reports')

Steady ==
  /\ Len(runRow) \in Nat /\ Len(runRow') \in Nat /\ Len(runRow) <= Len(runRow')
  /\ now \in Int /\ now' \in Int /\ now <= now'
  /\ \A r \in Runs :
       /\ Kept(r)
       /\ runRow'[r].start = runRow[r].start \/ runRow'[r].start = now
  /\ \A r \in Runs' \ Runs : runRow'[r].start = None

LEMMA Replaced ==
  ASSUME NEW S, NEW s \in Seq(S), NEW i \in 1..Len(s), NEW e \in S,
         NEW t, t = [s EXCEPT ![i] = e]
  PROVE  /\ t \in Seq(S) /\ Len(t) = Len(s) /\ t[i] = e
         /\ \A j \in 1..Len(s) \ {i} : t[j] = s[j]
OBVIOUS

LEMMA InitTypes == HistoryInit => TypeInv
BY DEF HistoryInit, TypeInv, Runs

LEMMA StepTypes == TypeInv /\ [HistoryNext]_historyVars => TypeInv' /\ Steady
<1> SUFFICES ASSUME TypeInv, [HistoryNext]_historyVars PROVE TypeInv' /\ Steady
  OBVIOUS
<1> USE DEF Steady, Kept, Runs
<1>0. /\ Len(runRow) \in Nat /\ now \in Int
      /\ \A r \in Runs : runRow[r] \in Row /\ nodeStats[r] \in SUBSET PipelineNodes
  BY DEF TypeInv
<1>1. ASSUME UNCHANGED <<runRow, nodeStats, reports>>, now' \in Int, now <= now' PROVE TypeInv' /\ Steady
  BY <1>0, <1>1 DEF TypeInv
<1>2. CASE CreateRun
  <2>1. NewRun \in Row
    BY DEF NewRun, Row, Statuses
  <2>2. /\ runRow' = Append(runRow, NewRun) /\ nodeStats' = Append(nodeStats, {})
        /\ reports' = reports /\ now' = now
    BY <1>2 DEF CreateRun
  <2>3. TypeInv'
    BY <2>1, <2>2 DEF TypeInv
  <2>4. /\ Len(runRow') = Len(runRow) + 1 /\ runRow'[Len(runRow) + 1] = NewRun
        /\ \A r \in Runs : runRow'[r] = runRow[r] /\ nodeStats'[r] = nodeStats[r]
    BY <2>1, <2>2 DEF TypeInv
  <2>5. NewRun.start = None
    BY DEF NewRun
  <2>6. Runs' \ Runs = {Len(runRow) + 1} /\ Len(runRow) <= Len(runRow')
    BY <1>0, <2>4
  <2>7. \A r \in Runs : Kept(r)
    BY <2>2, <2>4
  <2>8. \A r \in Runs : runRow'[r].start = runRow[r].start
    BY <2>4
  <2>9. \A r \in Runs' \ Runs : runRow'[r].start = None
    BY <2>4, <2>5, <2>6
  <2>10. Len(runRow') \in Nat /\ now' \in Int /\ now <= now'
    BY <1>0, <2>2, <2>4
  <2> HIDE DEF Kept, Runs
  <2> QED BY <1>0, <2>3, <2>6, <2>7, <2>8, <2>9, <2>10
<1>3. ASSUME NEW r \in Runs, SetRunning(r) PROVE TypeInv' /\ Steady
  <2> DEFINE e == [runRow[r] EXCEPT !.status = "running", !.start = now]
  <2>1. runRow \in [Runs -> Row]
    BY DEF TypeInv
  <2>2. runRow' = [runRow EXCEPT ![r] = e]
    BY <1>3, <2>1 DEF SetRunning
  <2>3. e \in Row /\ e.start = now
    BY <1>0 DEF Row, Statuses
  <2> HIDE DEF e
  <2>4. /\ runRow' \in Seq(Row) /\ Len(runRow') = Len(runRow) /\ runRow'[r] = e
        /\ \A q \in Runs \ {r} : runRow'[q] = runRow[q]
    BY <2>2, <2>3, Replaced DEF TypeInv
  <2>5. runRow[r].status = "pending" /\ UNCHANGED <<nodeStats, reports, now>>
    BY <1>3 DEF SetRunning
  <2>6. TypeInv'
    BY <2>4, <2>5 DEF TypeInv
  <2> QED BY <1>0, <2>3, <2>4, <2>5, <2>6 DEF Finished
<1>4. ASSUME NEW r \in Runs, NEW node \in PipelineNodes, SaveNodeStats(r, node)
      PROVE  TypeInv' /\ Steady
  <2>1. nodeStats' = [nodeStats EXCEPT ![r] = nodeStats[r] \cup {node}]
    BY <1>4 DEF SaveNodeStats
  <2>2. /\ nodeStats' \in Seq(SUBSET PipelineNodes) /\ Len(nodeStats') = Len(nodeStats)
        /\ \A q \in Runs \ {r} : nodeStats'[q] = nodeStats[q]
    BY <1>0, <2>1, Replaced DEF TypeInv
  <2>3. runRow[r].status = "running" /\ UNCHANGED <<runRow, reports, now>>
    BY <1>4 DEF SaveNodeStats, Executing
  <2> QED BY <1>0, <2>2, <2>3 DEF TypeInv, Finished
<1>5. ASSUME NEW r \in Runs, SaveFailureReport(r) PROVE TypeInv' /\ Steady
  BY <1>0, <1>5 DEF TypeInv, SaveFailureReport, Executing, Finished
<1>6. ASSUME NEW r \in Runs, FinishRun(r) PROVE TypeInv' /\ Steady
  <2> DEFINE e == [runRow[r] EXCEPT !.status = Outcome(r), !.end = now]
  <2>1. runRow \in [Runs -> Row] /\ Outcome(r) \in Statuses
    BY DEF TypeInv, Outcome, Statuses
  <2>2. runRow' = [runRow EXCEPT ![r] = e]
    BY <1>6, <2>1 DEF FinishRun
  <2>3. e \in Row /\ e.start = runRow[r].start
    BY <1>0, <2>1 DEF Row
  <2> HIDE DEF e
  <2>4. /\ runRow' \in Seq(Row) /\ Len(runRow') = Len(runRow) /\ runRow'[r] = e
        /\ \A q \in Runs \ {r} : runRow'[q] = runRow[q]
    BY <2>2, <2>3, Replaced DEF TypeInv
  <2>6. runRow[r].status = "running" /\ UNCHANGED <<nodeStats, reports, now>>
    BY <1>6 DEF FinishRun, Executing
  <2>7. TypeInv'
    BY <2>4, <2>6 DEF TypeInv
  <2> QED BY <1>0, <2>3, <2>4, <2>6, <2>7 DEF Finished
<1>7. ASSUME NEW r \in Runs, Die(r) \/ GetRun(r) \/ GetRow(r) PROVE TypeInv' /\ Steady
  BY <1>0, <1>1, <1>7 DEF Die, GetRun, GetRow, rowVars
<1>8. CASE LoadNodeStats \/ EvaluateSlas \/ Overview \/ UNCHANGED historyVars
  BY <1>0, <1>1, <1>8 DEF LoadNodeStats, EvaluateSlas, Overview, rowVars, historyVars
<1>9. CASE Tick
  BY <1>0, <1>1, <1>9 DEF Tick, rowVars
<1> QED
  BY <1>2, <1>3, <1>4, <1>5, <1>6, <1>7, <1>8, <1>9 DEF HistoryNext, Write, Read, Assess
-----------------------------------------------------------------------------
(* What a row tells is stored: nothing is finished before its statistics,   *)
(* and nothing has failed before its report.                               *)
Complete(status, nodes, said) ==
  /\ status = "success" => nodes = PipelineNodes
  /\ status = "failed" => nodes # {} /\ said

WrittenLast ==
  \A r \in Runs :
    /\ Complete(runRow[r].status, nodeStats[r], r \in reports)
    /\ r \in reports => nodeStats[r] # {}

(* A finished status that a reader holds is still the row's.                *)
HeldInv ==
  reading # None =>
    /\ reading.run \in Runs
    /\ reading.status \in Finished => runRow[reading.run].status = reading.status

HistoryInv == TypeInv /\ WrittenLast /\ HeldInv /\ FinishedRunsAreComplete

LEMMA StepWrittenLast ==
  ASSUME TypeInv, TypeInv', Steady, WrittenLast, [HistoryNext]_historyVars PROVE WrittenLast'
<1> USE DEF Runs
<1>0. /\ Len(runRow) \in Nat /\ runRow \in [Runs -> Row] /\ nodeStats \in [Runs -> SUBSET PipelineNodes]
      /\ \A r \in Runs : runRow[r] \in Row /\ nodeStats[r] \in SUBSET PipelineNodes
  BY DEF TypeInv
<1>1. ASSUME UNCHANGED <<runRow, nodeStats, reports>> PROVE WrittenLast'
  BY <1>1 DEF WrittenLast, Complete
<1>2. CASE CreateRun
  <2>1. /\ \A r \in Runs : runRow'[r] = runRow[r] /\ nodeStats'[r] = nodeStats[r]
        /\ Runs' = Runs \cup {Len(runRow) + 1}
        /\ runRow'[Len(runRow) + 1] = NewRun /\ reports' = reports
    BY <1>0, <1>2 DEF CreateRun, TypeInv, NewRun, Row, Statuses
  <2>2. NewRun.status = "pending" /\ Len(runRow) + 1 \notin reports
    BY <1>0 DEF NewRun, TypeInv
  <2> QED BY <2>1, <2>2 DEF WrittenLast, Complete
<1>3. ASSUME NEW r \in Runs, SetRunning(r) PROVE WrittenLast'
  <2>1. /\ runRow'[r].status = "running" /\ Runs' = Runs
        /\ \A q \in Runs \ {r} : runRow'[q] = runRow[q]
        /\ UNCHANGED <<nodeStats, reports>>
    BY <1>0, <1>3 DEF SetRunning, Row
  <2> QED BY <2>1 DEF WrittenLast, Complete
<1>4. ASSUME NEW r \in Runs, NEW node \in PipelineNodes, SaveNodeStats(r, node) PROVE WrittenLast'
  <2>1. /\ runRow[r].status = "running" /\ nodeStats'[r] # {}
        /\ \A q \in Runs \ {r} : nodeStats'[q] = nodeStats[q]
        /\ UNCHANGED <<runRow, reports>>
    BY <1>0, <1>4 DEF SaveNodeStats, Executing
  <2> QED BY <2>1 DEF WrittenLast, Complete
<1>5. ASSUME NEW r \in Runs, SaveFailureReport(r) PROVE WrittenLast'
  <2>1. /\ runRow[r].status = "running" /\ nodeStats[r] # {} /\ reports' = reports \cup {r}
        /\ UNCHANGED <<runRow, nodeStats>>
    BY <1>5 DEF SaveFailureReport, Executing
  <2> QED BY <2>1 DEF WrittenLast, Complete
<1>6. ASSUME NEW r \in Runs, FinishRun(r) PROVE WrittenLast'
  <2>1. /\ runRow'[r].status = Outcome(r) /\ Runs' = Runs
        /\ \A q \in Runs \ {r} : runRow'[q] = runRow[q]
        /\ UNCHANGED <<nodeStats, reports>>
    BY <1>0, <1>6 DEF FinishRun, Row
  <2>2. Complete(Outcome(r), nodeStats[r], r \in reports)
    BY DEF Complete, Outcome, WrittenLast
  <2> QED BY <2>1, <2>2 DEF WrittenLast, Complete
<1>7. ASSUME NEW r \in Runs, Die(r) \/ GetRun(r) \/ GetRow(r) PROVE WrittenLast'
  BY <1>1, <1>7 DEF Die, GetRun, GetRow, rowVars
<1>8. CASE LoadNodeStats \/ EvaluateSlas \/ Overview \/ Tick \/ UNCHANGED historyVars
  BY <1>1, <1>8 DEF LoadNodeStats, EvaluateSlas, Overview, Tick, rowVars, historyVars
<1> QED
  BY <1>2, <1>3, <1>4, <1>5, <1>6, <1>7, <1>8 DEF HistoryNext, Write, Read, Assess

LEMMA StepHeld ==
  ASSUME TypeInv, Steady, HeldInv, [HistoryNext]_historyVars PROVE HeldInv'
<1>1. ASSUME UNCHANGED reading PROVE HeldInv'
  BY <1>1 DEF HeldInv, Steady, Kept, Runs
<1>2. ASSUME NEW r \in Runs, GetRow(r) PROVE HeldInv'
  BY <1>2 DEF HeldInv, GetRow, rowVars, Runs
<1>3. CASE LoadNodeStats
  BY <1>3 DEF LoadNodeStats, HeldInv
<1>4. CASE Write \/ Assess \/ UNCHANGED historyVars
  BY <1>1, <1>4 DEF Write, CreateRun, SetRunning, SaveNodeStats, SaveFailureReport, FinishRun, Die,
                    Assess, EvaluateSlas, Overview, Tick, readerVars, historyVars
<1>5. ASSUME NEW r \in Runs, GetRun(r) PROVE HeldInv'
  BY <1>1, <1>5 DEF GetRun
<1> QED BY <1>2, <1>3, <1>4, <1>5 DEF HistoryNext, Read

LEMMA StepAnswer ==
  ASSUME TypeInv, WrittenLast, HeldInv, FinishedRunsAreComplete, [HistoryNext]_historyVars
  PROVE  FinishedRunsAreComplete'
<1>1. ASSUME UNCHANGED answer PROVE FinishedRunsAreComplete'
  BY <1>1 DEF FinishedRunsAreComplete
<1>2. ASSUME NEW r \in Runs, NEW status, answer' = Show(r, status),
             status \in Finished => runRow[r].status = status
      PROVE  FinishedRunsAreComplete'
  <2>1. Complete(status, nodeStats[r], r \in reports)
    BY <1>2 DEF WrittenLast, Complete, Finished
  <2>2. answer'.status = status /\ answer'.nodes = nodeStats[r] /\ answer'.report = (r \in reports)
    BY <1>2 DEF Show
  <2> QED BY <2>1, <2>2 DEF Complete, FinishedRunsAreComplete
<1>3. ASSUME NEW r \in Runs, GetRun(r) PROVE FinishedRunsAreComplete'
  BY <1>2, <1>3 DEF GetRun
<1>4. CASE LoadNodeStats
  <2>1. /\ answer' = Show(reading.run, reading.status) /\ reading.run \in Runs
        /\ reading.status \in Finished => runRow[reading.run].status = reading.status
    BY <1>4 DEF LoadNodeStats, HeldInv
  <2> QED BY <1>2, <2>1
<1>5. ASSUME NEW r \in Runs, GetRow(r) PROVE FinishedRunsAreComplete'
  BY <1>1, <1>5 DEF GetRow
<1>6. CASE Write \/ Assess \/ UNCHANGED historyVars
  BY <1>1, <1>6 DEF Write, CreateRun, SetRunning, SaveNodeStats, SaveFailureReport, FinishRun, Die,
                    Assess, EvaluateSlas, Overview, Tick, readerVars, historyVars
<1> QED BY <1>3, <1>4, <1>5, <1>6 DEF HistoryNext, Read

(* A reader of a run, through either store, never sees a run that          *)
(* succeeded without the statistics of every node, nor a failed one        *)
(* without its report: FinishedRunsAreComplete, for any number of runs.    *)
THEOREM FinishedRunsHold == HistorySpec => []FinishedRunsAreComplete
<1>1. HistoryInit => HistoryInv
  BY InitTypes DEF HistoryInit, HistoryInv, WrittenLast, HeldInv, FinishedRunsAreComplete, Runs
<1>2. HistoryInv /\ [HistoryNext]_historyVars => HistoryInv'
  BY StepTypes, StepWrittenLast, StepHeld, StepAnswer DEF HistoryInv
<1>3. HistoryInv => FinishedRunsAreComplete
  BY DEF HistoryInv
<1> QED BY <1>1, <1>2, <1>3, PTL DEF HistorySpec

-----------------------------------------------------------------------------
(* What is told about the runs. A success has an end, which is past.        *)
EndInv ==
  \A r \in Runs : runRow[r].status = "success" => runRow[r].end \in Int /\ runRow[r].end <= now

(* An evaluation is past, and a fresh one rests on a success that stays.    *)
FreshInv == sla # None => sla.at \in Int /\ FreshMeansProduced

(* The runs of an overview's window that had started before it was taken.   *)
Early(t) ==
  {r \in Runs : runRow[r].start # None /\ t - OverviewWindow <= runRow[r].start /\ runRow[r].start < t}

OverviewInv ==
  overview # None =>
    /\ overview.at \in Int /\ overview.at <= now
    /\ Counted(overview) \in Nat /\ Cardinality(Early(overview.at)) <= Counted(overview)

HealthInv == TypeInv /\ EndInv /\ FreshInv /\ OverviewInv

LEMMA RunsFinite ==
  ASSUME TypeInv, NEW S \in SUBSET Runs
  PROVE  IsFiniteSet(S) /\ Cardinality(S) \in Nat
<1>1. IsFiniteSet(Runs)
  BY FS_Interval DEF TypeInv, Runs
<1> QED BY <1>1, FS_Subset, FS_CardinalityType

LEMMA StartIsTime ==
  ASSUME TypeInv, NEW r \in Runs
  PROVE  runRow[r].status \in Statuses /\ (runRow[r].start # None => runRow[r].start \in Int)
<1>1. runRow[r] \in Row
  BY DEF TypeInv, Runs
<1> QED BY <1>1 DEF Row

LEMMA StepEnd == ASSUME TypeInv, Steady, EndInv, [HistoryNext]_historyVars PROVE EndInv'
<1> USE DEF Runs
<1>0. /\ Len(runRow) \in Nat /\ now \in Int /\ now' \in Int /\ now <= now'
      /\ runRow \in [Runs -> Row] /\ \A r \in Runs : runRow[r] \in Row
  BY DEF TypeInv, Steady
<1>1. ASSUME UNCHANGED runRow PROVE EndInv'
  BY <1>0, <1>1 DEF EndInv
<1>2. CASE CreateRun
  <2>1. /\ \A r \in Runs : runRow'[r] = runRow[r]
        /\ Runs' = Runs \cup {Len(runRow) + 1}
        /\ runRow'[Len(runRow) + 1] = NewRun
    BY <1>0, <1>2 DEF CreateRun, TypeInv, NewRun, Row, Statuses
  <2> QED BY <1>0, <2>1 DEF EndInv, NewRun
<1>3. ASSUME NEW r \in Runs, SetRunning(r) PROVE EndInv'
  <2>1. /\ runRow'[r].status = "running" /\ Runs' = Runs
        /\ \A q \in Runs \ {r} : runRow'[q] = runRow[q]
    BY <1>0, <1>3 DEF SetRunning, Row
  <2> QED BY <1>0, <2>1 DEF EndInv
<1>4. ASSUME NEW r \in Runs, FinishRun(r) PROVE EndInv'
  <2>1. /\ runRow'[r].end = now /\ Runs' = Runs
        /\ \A q \in Runs \ {r} : runRow'[q] = runRow[q]
    BY <1>0, <1>4 DEF FinishRun, Row
  <2> QED BY <1>0, <2>1 DEF EndInv
<1>5. ASSUME NEW r \in Runs, \/ Die(r) \/ GetRun(r) \/ GetRow(r) \/ SaveFailureReport(r)
                             \/ \E node \in PipelineNodes : SaveNodeStats(r, node)
      PROVE EndInv'
  BY <1>1, <1>5 DEF Die, GetRun, GetRow, SaveFailureReport, SaveNodeStats, rowVars
<1>6. CASE LoadNodeStats \/ Assess \/ UNCHANGED historyVars
  BY <1>1, <1>6 DEF LoadNodeStats, Assess, EvaluateSlas, Overview, Tick, rowVars, historyVars
<1> QED BY <1>2, <1>3, <1>4, <1>5, <1>6 DEF HistoryNext, Write, Read

LEMMA StepFresh ==
  ASSUME MaxAge \in Int, WarnAt \in Int, TypeInv, Steady, EndInv, FreshInv, [HistoryNext]_historyVars
  PROVE  FreshInv'
<1>1. ASSUME UNCHANGED sla PROVE FreshInv'
  BY <1>1 DEF FreshInv, FreshMeansProduced, Steady, Kept, Runs, Finished
<1>2. CASE EvaluateSlas
  <2>1. UNCHANGED <<runRow, now>> /\ now \in Int
    BY <1>2 DEF EvaluateSlas, rowVars, TypeInv
  <2>2. CASE sla' = [status |-> "unknown", at |-> now]
    BY <2>1, <2>2 DEF FreshInv, FreshMeansProduced
  <2>3. ASSUME NEW page \in ListRuns(ScanLimit), NEW r \in LastSuccess(page),
               sla' = [status |-> Freshness(r), at |-> now]
        PROVE  FreshInv'
    <3>1. r \in Runs /\ runRow[r].status = "success"
      BY DEF LastSuccess, Successes, ListRuns
    <3>2. runRow[r].end \in Int /\ runRow[r].end <= now
      BY <3>1 DEF EndInv
    <3>3. sla'.status \in {"ok", "warning"} => now - runRow[r].end <= MaxAge
      BY <2>1, <2>3, <3>2 DEF Freshness, Age
    <3> QED BY <2>1, <2>3, <3>1, <3>2, <3>3 DEF FreshInv, FreshMeansProduced, Runs
  <2> QED BY <1>2, <2>2, <2>3 DEF EvaluateSlas
<1>3. CASE Write \/ Overview \/ Tick \/ LoadNodeStats \/ UNCHANGED historyVars
  BY <1>1, <1>3 DEF Write, CreateRun, SetRunning, SaveNodeStats, SaveFailureReport, FinishRun, Die,
                    Overview, Tick, LoadNodeStats, readerVars, historyVars
<1>4. ASSUME NEW r \in Runs, GetRun(r) \/ GetRow(r) PROVE FreshInv'
  BY <1>1, <1>4 DEF GetRun, GetRow
<1> QED BY <1>2, <1>3, <1>4 DEF HistoryNext, Read, Assess

-----------------------------------------------------------------------------
(* A set that five finite ones cover has no more elements than they have    *)
(* together.                                                               *)
LEMMA UnionBound ==
  ASSUME NEW A, NEW B, IsFiniteSet(A), IsFiniteSet(B)
  PROVE  IsFiniteSet(A \cup B) /\ Cardinality(A \cup B) <= Cardinality(A) + Cardinality(B)
<1>1. IsFiniteSet(A \cap B)
  BY FS_Subset
<1>2. Cardinality(A \cap B) \in Nat /\ Cardinality(A) \in Nat /\ Cardinality(B) \in Nat
  BY <1>1, FS_CardinalityType
<1>3. /\ IsFiniteSet(A \cup B)
      /\ Cardinality(A \cup B) = Cardinality(A) + Cardinality(B) - Cardinality(A \cap B)
  BY FS_Union
<1> QED BY <1>2, <1>3

LEMMA CoveredByFive ==
  ASSUME NEW A, NEW B, NEW C, NEW D, NEW E, NEW T,
         IsFiniteSet(A), IsFiniteSet(B), IsFiniteSet(C), IsFiniteSet(D), IsFiniteSet(E),
         T \subseteq A \cup B \cup C \cup D \cup E
  PROVE  Cardinality(T) <=
           Cardinality(A) + Cardinality(B) + Cardinality(C) + Cardinality(D) + Cardinality(E)
<1> DEFINE AB == A \cup B
           ABC == AB \cup C
           ABCD == ABC \cup D
           All == ABCD \cup E
<1>1. IsFiniteSet(AB) /\ Cardinality(AB) <= Cardinality(A) + Cardinality(B)
  BY UnionBound
<1>2. IsFiniteSet(ABC) /\ Cardinality(ABC) <= Cardinality(AB) + Cardinality(C)
  BY <1>1, UnionBound
<1>3. IsFiniteSet(ABCD) /\ Cardinality(ABCD) <= Cardinality(ABC) + Cardinality(D)
  BY <1>2, UnionBound
<1>4. IsFiniteSet(All) /\ Cardinality(All) <= Cardinality(ABCD) + Cardinality(E)
  BY <1>3, UnionBound
<1>5. IsFiniteSet(T) /\ Cardinality(T) <= Cardinality(All)
  BY <1>4, FS_Subset
<1> HIDE DEF AB, ABC, ABCD, All
<1> QED BY <1>1, <1>2, <1>3, <1>4, <1>5, FS_CardinalityType

(* An overview that is computed now counts every run of its window.         *)
LEMMA ComputeCounts ==
  ASSUME TypeInv, OverviewWindow \in Int
  PROVE  Counted(Compute) \in Nat /\ Cardinality(Early(now)) <= Counted(Compute)
<1> DEFINE S == Since(now - OverviewWindow)
           In(s) == {r \in S : runRow[r].status = s}
<1>1. \A s \in Statuses : Compute.counts[s] = Cardinality(In(s))
  BY DEF Compute, Count
<1>2. \A s : IsFiniteSet(In(s)) /\ Cardinality(In(s)) \in Nat
  BY RunsFinite DEF Since
<1>3. Early(now) \subseteq S
  BY StartIsTime DEF Early, Since, TypeInv
<1>4. Early(now) \subseteq In("pending") \cup In("running") \cup In("success") \cup In("failed")
                             \cup In("cancelled")
  <2>1. \A r \in Runs : runRow[r].status \in Statuses
    BY StartIsTime
  <2> QED BY <1>3, <2>1 DEF Statuses, Early
<1> HIDE DEF In
<1>5. Cardinality(Early(now)) <=
        Cardinality(In("pending")) + Cardinality(In("running")) + Cardinality(In("success"))
          + Cardinality(In("failed")) + Cardinality(In("cancelled"))
  BY <1>2, <1>4, CoveredByFive
<1>6. Counted(Compute) =
        Cardinality(In("pending")) + Cardinality(In("running")) + Cardinality(In("success"))
          + Cardinality(In("failed")) + Cardinality(In("cancelled"))
  BY <1>1 DEF Counted, Statuses
<1> QED BY <1>2, <1>5, <1>6

LEMMA StepOverview ==
  ASSUME OverviewWindow \in Int, TypeInv, TypeInv', Steady, OverviewInv, [HistoryNext]_historyVars
  PROVE  OverviewInv'
<1>1. ASSUME UNCHANGED overview, overview # None PROVE OverviewInv'
  <2> DEFINE t == overview.at
  <2>1. t \in Int /\ t <= now /\ now \in Int /\ now' \in Int /\ now <= now'
    BY <1>1 DEF OverviewInv, Steady
  <2>2. Early(t)' \subseteq Early(t)
    <3> SUFFICES ASSUME NEW r \in Early(t)' PROVE r \in Early(t)
      BY <1>1
    <3>1. r \in Runs' /\ runRow'[r].start # None /\ t - OverviewWindow <= runRow'[r].start
          /\ runRow'[r].start < t
      BY <1>1 DEF Early
    <3>2. r \in Runs
      BY <3>1 DEF Steady
    <3>3. runRow'[r].start = runRow[r].start
      BY <2>1, <3>1, <3>2 DEF Steady
    <3> QED BY <3>1, <3>2, <3>3 DEF Early
  <2>3. IsFiniteSet(Early(t))
    BY RunsFinite DEF Early
  <2>4. Cardinality(Early(t)') <= Cardinality(Early(t)) /\ Cardinality(Early(t)) \in Nat
        /\ Cardinality(Early(t)') \in Nat
    BY <2>2, <2>3, FS_Subset, FS_CardinalityType
  <2>5. Counted(overview)' = Counted(overview)
    BY <1>1 DEF Counted
  <2> QED BY <1>1, <2>1, <2>4, <2>5 DEF OverviewInv
<1>2. ASSUME UNCHANGED overview PROVE OverviewInv'
  BY <1>1, <1>2 DEF OverviewInv
<1>3. CASE Overview
  <2>1. overview' = Compute /\ now' = now /\ Early(now)' = Early(now)
    BY <1>3 DEF Overview, rowVars, Early, Runs
  <2>2. overview'.at = now /\ now \in Int
    BY <2>1 DEF Compute, TypeInv
  <2>3. Counted(overview)' \in Nat /\ Cardinality(Early(now)) <= Counted(overview)'
    BY <2>1, ComputeCounts DEF Counted
  <2>4. Early(overview.at)' = Early(now)
    BY <2>1, <2>2 DEF Early
  <2> QED BY <2>1, <2>2, <2>3, <2>4 DEF OverviewInv
<1>4. CASE Write \/ EvaluateSlas \/ Tick \/ LoadNodeStats \/ UNCHANGED historyVars
  BY <1>2, <1>4 DEF Write, CreateRun, SetRunning, SaveNodeStats, SaveFailureReport, FinishRun, Die,
                    EvaluateSlas, Tick, LoadNodeStats, readerVars, historyVars
<1>5. ASSUME NEW r \in Runs, GetRun(r) \/ GetRow(r) PROVE OverviewInv'
  BY <1>2, <1>5 DEF GetRun, GetRow
<1> QED BY <1>3, <1>4, <1>5 DEF HistoryNext, Read, Assess

LEMMA ServedCounts ==
  ASSUME OverviewWindow \in Int, CacheTtl \in Int, TypeInv, OverviewInv PROVE OverviewCounts
<1> SUFFICES ASSUME Served
             PROVE  Cardinality({r \in Since(now - OverviewWindow) :
                                   runRow[r].start # None /\ runRow[r].start <= now - CacheTtl})
                      <= Counted(overview)
  BY RunsFinite DEF OverviewCounts, OverviewInv, Served, Since
<1> DEFINE t == overview.at
           Counting == {r \in Since(now - OverviewWindow) :
                       runRow[r].start # None /\ runRow[r].start <= now - CacheTtl}
<1>1. t \in Int /\ t <= now /\ now - t < CacheTtl /\ now \in Int
  BY DEF Served, OverviewInv, TypeInv
<1>2. Counting \subseteq Early(t)
  BY <1>1, StartIsTime DEF Early, Since
<1>3. Cardinality(Counting) <= Cardinality(Early(t)) /\ Cardinality(Counting) \in Nat
      /\ Cardinality(Early(t)) \in Nat
  BY <1>2, RunsFinite, FS_Subset DEF Early
<1> QED BY <1>3 DEF Served, OverviewInv

(* A resource is called fresh only if a run of its producer succeeded      *)
(* within the allowed age before the evaluation, and an overview that is    *)
(* still served counts every run of the window that started before its time *)
(* to live: HealthIsReal, for any ages, window and time to live.           *)
THEOREM HealthHolds == HistorySpec => []HealthIsReal
<1>1. HistoryInit => HealthInv
  BY InitTypes DEF HistoryInit, HealthInv, EndInv, FreshInv, FreshMeansProduced, OverviewInv, Runs
<1>2. HealthInv /\ [HistoryNext]_historyVars => HealthInv'
  BY StepTypes, StepEnd, StepFresh, StepOverview, HistoryAssumption DEF HealthInv
<1>3. HealthInv => HealthIsReal
  BY ServedCounts, HistoryAssumption DEF HealthInv, HealthIsReal, FreshInv, FreshMeansProduced
<1> QED BY <1>1, <1>2, <1>3, PTL DEF HistorySpec

-----------------------------------------------------------------------------
(* The instances.  `raced' records that a launch met a launch, a command   *)
(* or a server on its way out; until then one server at most is on its way *)
(* to the lockfile, and the lockfile names the one that is up.             *)

(* A server on its way to the lockfile, and one that has written it.       *)
Launching == {p \in Pids : proc[p].at \in {"cleaning", "clear", "bound", "writing"}}
Up == {p \in Pids : proc[p].at \in {"serving", "closing"}}

Becoming ==
  {Off, Foreign} \cup [at : {"cleaning", "clear"}, port : {None}]
    \cup [at : {"bound", "writing", "serving", "closing"}, port : Ports]

InstTypes ==
  /\ lockfile \in {None, CutShort} \cup [pid : Pids, port : Ports]
  /\ proc \in [Pids -> Becoming]
  /\ command \in {None} \cup
       [kind : {"stop", "status"}, verdict : {"running", "stale"}, pid : Pids]
  /\ doomed \in {None} \cup Pids
  /\ raced \in BOOLEAN

(* What stop has signalled is shutting down.                               *)
Stopping == doomed # None => proc[doomed].at = "closing"

(* One launch at a time, and none beside a server that is up, a command or *)
(* a server being stopped.                                                 *)
LaunchesAlone ==
  \A p \in Launching :
    /\ \A q \in Launching : q = p
    /\ Up = {} /\ command = None /\ doomed = None

(* The one server that is up is the one the lockfile names, unless stop has *)
(* signalled it; a command that found a live server is about that one.     *)
UpIsNamed ==
  \A p \in Up :
    /\ \A q \in Up : q = p
    /\ doomed = None => lockfile = [pid |-> p, port |-> proc[p].port]
    /\ doomed # None => doomed = p
    /\ command # None /\ command.verdict = "running" => command.pid = p
    /\ command # None => (doomed = p <=> command.verdict = "stale")

InstInv == InstTypes /\ Stopping /\ (~raced => LaunchesAlone /\ UpIsNamed)

LEMMA LeastPort ==
  ASSUME NEW free, free \subseteq Ports, free # {}
  PROVE  (CHOOSE n \in free : \A m \in free : n <= m) \in Ports
<1>1. free \subseteq Nat
  BY PortsAssumption
<1>2. PICK n \in free : \A m \in free : ~ (<<m, n>> \in OpToRel(<, Nat))
  BY <1>1, NatLessThanWellFounded, WFMin, Zenon
<1>3. \A m \in free : ~ (m < n)
  BY <1>1, <1>2 DEF OpToRel
<1>4. \A m \in free : n <= m
  BY <1>1, <1>3
<1> QED BY <1>4

LEMMA Moves ==
  ASSUME InstTypes, NEW p \in Pids, NEW what \in Becoming, Become(p, what)
  PROVE  /\ proc' \in [Pids -> Becoming]
         /\ proc'[p] = what /\ \A q \in Pids \ {p} : proc'[q] = proc[q]
         /\ Launching' = IF what.at \in {"cleaning", "clear", "bound", "writing"}
                         THEN Launching \cup {p} ELSE Launching \ {p}
         /\ Up' = IF what.at \in {"serving", "closing"} THEN Up \cup {p} ELSE Up \ {p}
<1>1. proc \in [Pids -> Becoming]
  BY DEF InstTypes
<1>2. proc' = [proc EXCEPT ![p] = what]
  BY DEF Become
<1>3. /\ proc' \in [Pids -> Becoming]
      /\ proc'[p] = what /\ \A q \in Pids \ {p} : proc'[q] = proc[q]
  BY <1>1, <1>2
<1> QED BY <1>3 DEF Launching, Up

LEMMA Alone ==
  ASSUME InstInv, NEW who \in Pids \cup {None}, Observe(who), ~raced'
  PROVE  /\ ~raced /\ Launching \subseteq {who}
         /\ command # None => who = None
         /\ doomed # None => who = doomed
<1>1. ~raced /\ Pending \subseteq {who}
  BY DEF Observe
<1> QED BY <1>1, InstancesAssumption DEF Pending, Launching, InstInv, InstTypes

LEMMA InstBegins == InstInit => InstInv
<1> SUFFICES ASSUME InstInit PROVE InstInv
  OBVIOUS
<1>1. Launching = {} /\ Up = {}
  BY DEF InstInit, Launching, Up, Off
<1> QED
  BY <1>1 DEF InstInit, Becoming, InstInv, InstTypes, Stopping, LaunchesAlone, UpIsNamed

(* A step of a launch, a signal, an exit or a kill.                        *)
LEMMA ProcessStep ==
  ASSUME InstInv, NEW p \in Pids,
         \/ Launch(p) \/ Clean(p) \/ Bind(p) \/ Truncate(p) \/ WriteLock(p)
         \/ SignalServer(p) \/ Exit(p) \/ Kill(p) \/ Reuse(p)
  PROVE  InstInv'
<1> USE DEF InstInv
<1>0. /\ proc[p] \in Becoming
      /\ proc[p].at \in {"bound", "writing", "serving", "closing"} => proc[p].port \in Ports
  BY DEF InstTypes, Becoming, Off, Foreign
<1>1. CASE Launch(p)
  <2>1. proc[p] = Off /\ Observe(p) /\ UNCHANGED <<lockfile, command, doomed>>
    BY <1>1 DEF Launch
  <2>2. CASE UNCHANGED proc
    BY <2>1, <2>2, Alone DEF InstTypes, Stopping, LaunchesAlone, UpIsNamed, Launching, Up, Observe
  <2>3. ASSUME NEW step \in {"clear", "cleaning"}, Become(p, Server(step, None)),
               Verdict \in {"none", "stale"}
        PROVE  InstInv'
    <3>1. Server(step, None) \in Becoming /\ Server(step, None).at = step
      BY DEF Server, Becoming
    <3>2. /\ proc' \in [Pids -> Becoming]
          /\ \A q \in Pids \ {p} : proc'[q] = proc[q]
          /\ Launching' = Launching \cup {p} /\ Up' = Up \ {p}
      BY <2>3, <3>1, Moves
    <3>3. InstTypes' /\ Stopping'
      BY <2>1, <3>2 DEF InstTypes, Stopping, Observe, Off
    <3>4. ASSUME ~raced' PROVE LaunchesAlone' /\ UpIsNamed'
      <4>1. /\ ~raced /\ Launching \subseteq {p} /\ command = None
            /\ doomed # None => doomed = p
        BY <2>1, <3>4, Alone, InstancesAssumption
      <4>2. doomed = None
        BY <2>1, <4>1 DEF Stopping, Off
      <4>3. Up = {}
        <5>1. SUFFICES ASSUME NEW q \in Up PROVE FALSE
          OBVIOUS
        <5>2. lockfile = [pid |-> q, port |-> proc[q].port] /\ q \in Pids
          BY <4>1, <4>2 DEF UpIsNamed, Up
        <5>3. IsPidAlive(q)
          BY DEF Up, IsPidAlive, Off
        <5>4. lockfile \notin {None, CutShort}
          <6>1. proc[q].port \in Ports
            BY <5>2 DEF Up, InstTypes, Becoming, Off, Foreign
          <6> QED BY <5>2, <6>1, InstancesAssumption
        <5>5. lockfile.pid = q
          BY <5>2
        <5>6. Verdict = "running"
          BY <5>3, <5>4, <5>5 DEF Verdict
        <5> QED BY <2>3, <5>6
      <4> QED BY <2>1, <3>2, <4>1, <4>2, <4>3 DEF LaunchesAlone, UpIsNamed
    <3> QED BY <3>3, <3>4
  <2> QED BY <1>1, <2>2, <2>3 DEF Launch
<1>2. CASE Clean(p)
  <2>1. /\ p \in Launching /\ lockfile' = None /\ Become(p, Server("clear", None))
        /\ UNCHANGED <<command, doomed, raced>>
    BY <1>2 DEF Clean, Launching
  <2>2. Server("clear", None) \in Becoming /\ Server("clear", None).at = "clear"
    BY DEF Server, Becoming
  <2>3. /\ proc' \in [Pids -> Becoming] /\ \A q \in Pids \ {p} : proc'[q] = proc[q]
        /\ Launching' = Launching \cup {p} /\ Up' = Up \ {p}
    BY <2>1, <2>2, Moves
  <2> QED BY <1>2, <2>1, <2>3 DEF Clean, InstTypes, Stopping, LaunchesAlone, UpIsNamed
<1>3. CASE Bind(p)
  <2>1. /\ p \in Launching /\ proc[p].at = "clear"
        /\ UNCHANGED <<lockfile, command, doomed, raced>>
    BY <1>3 DEF Bind, Launching
  <2>2. PICK what \in {Off} \cup {Server("bound", n) : n \in Ports} : Become(p, what)
    BY <1>3, LeastPort DEF Bind
  <2>3. what \in Becoming /\ what.at \notin {"serving", "closing"}
    BY DEF Server, Becoming, Off
  <2>4. /\ proc' \in [Pids -> Becoming] /\ \A q \in Pids \ {p} : proc'[q] = proc[q]
        /\ Launching' \subseteq Launching \cup {p} /\ Up' = Up \ {p}
    BY <2>2, <2>3, Moves
  <2> QED BY <2>1, <2>4 DEF InstTypes, Stopping, LaunchesAlone, UpIsNamed
<1>4. CASE Truncate(p)
  <2>1. /\ p \in Launching /\ lockfile' = CutShort /\ Become(p, Server("writing", proc[p].port))
        /\ proc[p].at = "bound" /\ UNCHANGED <<command, doomed, raced>>
    BY <1>4 DEF Truncate, Launching
  <2>2. Server("writing", proc[p].port) \in Becoming /\ Server("writing", proc[p].port).at = "writing"
    BY <1>0, <2>1 DEF Server, Becoming
  <2>3. /\ proc' \in [Pids -> Becoming] /\ \A q \in Pids \ {p} : proc'[q] = proc[q]
        /\ Launching' = Launching \cup {p} /\ Up' = Up \ {p}
    BY <2>1, <2>2, Moves
  <2> QED BY <2>1, <2>3 DEF InstTypes, Stopping, LaunchesAlone, UpIsNamed
<1>5. CASE WriteLock(p)
  <2>1. /\ p \in Launching /\ lockfile' = [pid |-> p, port |-> proc[p].port]
        /\ Become(p, Server("serving", proc[p].port))
        /\ proc[p].at = "writing" /\ UNCHANGED <<command, doomed, raced>>
    BY <1>5 DEF WriteLock, Launching
  <2>2. /\ Server("serving", proc[p].port) \in Becoming
        /\ Server("serving", proc[p].port).at = "serving"
        /\ Server("serving", proc[p].port).port = proc[p].port
    BY <1>0, <2>1 DEF Server, Becoming
  <2>3. /\ proc' \in [Pids -> Becoming] /\ \A q \in Pids \ {p} : proc'[q] = proc[q]
        /\ Launching' = Launching \ {p} /\ Up' = Up \cup {p} /\ proc'[p].port = proc[p].port
    BY <2>1, <2>2, Moves
  <2>4. InstTypes' /\ Stopping'
    BY <1>0, <2>1, <2>3 DEF InstTypes, Stopping
  <2>5. ASSUME ~raced' PROVE LaunchesAlone' /\ UpIsNamed'
    <3>1. Launching = {p} /\ Up = {} /\ command = None /\ doomed = None
      BY <2>1, <2>5 DEF LaunchesAlone
    <3> QED BY <2>1, <2>3, <3>1 DEF LaunchesAlone, UpIsNamed
  <2> QED BY <2>4, <2>5
<1>6. CASE SignalServer(p)
  <2>1. /\ p \in Up /\ Become(p, Server("closing", proc[p].port)) /\ proc[p].at = "serving"
        /\ UNCHANGED <<lockfile, command, doomed, raced>>
    BY <1>6 DEF SignalServer, Up
  <2>2. /\ Server("closing", proc[p].port) \in Becoming
        /\ Server("closing", proc[p].port).at = "closing"
        /\ Server("closing", proc[p].port).port = proc[p].port
    BY <1>0, <2>1 DEF Server, Becoming
  <2>3. /\ proc' \in [Pids -> Becoming] /\ \A q \in Pids \ {p} : proc'[q] = proc[q]
        /\ Launching' \subseteq Launching /\ Up' = Up /\ proc'[p].port = proc[p].port
        /\ proc'[p].at = "closing"
    BY <2>1, <2>2, Moves
  <2>4. InstTypes' /\ Stopping'
    BY <2>1, <2>3 DEF InstTypes, Stopping
  <2> QED BY <2>1, <2>3, <2>4 DEF LaunchesAlone, UpIsNamed, Up
<1>7. CASE Exit(p) \/ Kill(p)
  <2>1. /\ Become(p, Off) /\ doomed' = IF doomed = p THEN None ELSE doomed
        /\ lockfile' = lockfile \/ (lockfile' = None /\ p \in Up)
        /\ UNCHANGED <<command, raced>>
    BY <1>7 DEF Exit, Kill, Up
  <2>2. Off \in Becoming /\ Off.at \notin {"cleaning", "clear", "bound", "writing", "serving", "closing"}
    BY DEF Off, Becoming
  <2>3. /\ proc' \in [Pids -> Becoming] /\ \A q \in Pids \ {p} : proc'[q] = proc[q]
        /\ Launching' = Launching \ {p} /\ Up' = Up \ {p}
    BY <2>1, <2>2, Moves
  <2>4. InstTypes' /\ Stopping'
    BY <2>1, <2>3 DEF InstTypes, Stopping
  <2>5. ASSUME ~raced' PROVE LaunchesAlone' /\ UpIsNamed'
    <3>1. LaunchesAlone'
      BY <2>1, <2>3, <2>5 DEF LaunchesAlone
    <3>2. ASSUME NEW q \in Up' PROVE Up' = {q} /\ q \in Up /\ proc'[q] = proc[q] /\ lockfile' = lockfile /\ doomed' = doomed
      BY <2>1, <2>3, <2>5, <3>2, InstancesAssumption DEF UpIsNamed, Up
    <3> QED BY <2>1, <2>5, <3>1, <3>2 DEF UpIsNamed
  <2> QED BY <2>4, <2>5
<1>8. CASE Reuse(p)
  <2>1. PICK what \in {Off, Foreign} : Become(p, what)
    BY <1>8 DEF Reuse
  <2>2. proc[p] \in {Off, Foreign} /\ UNCHANGED <<lockfile, command, doomed, raced>>
    BY <1>8 DEF Reuse
  <2>3. what \in Becoming /\ what.at \notin {"cleaning", "clear", "bound", "writing", "serving", "closing"}
    BY DEF Off, Foreign, Becoming
  <2>4. /\ proc' \in [Pids -> Becoming] /\ \A q \in Pids \ {p} : proc'[q] = proc[q]
        /\ Launching' = Launching \ {p} /\ Up' = Up \ {p}
    BY <2>1, <2>3, Moves
  <2>5. p \notin Launching /\ p \notin Up
    BY <2>2 DEF Off, Foreign, Launching, Up
  <2>6. proc[p].at # "closing"
    BY <2>5 DEF Up
  <2> QED BY <2>2, <2>4, <2>5, <2>6 DEF InstTypes, Stopping, LaunchesAlone, UpIsNamed, Up
<1> QED BY <1>1, <1>2, <1>3, <1>4, <1>5, <1>6, <1>7, <1>8

(* stop and status. *)
LEMMA CommandStep ==
  ASSUME InstInv, (\E kind \in {"stop", "status"} : Check(kind)) \/ FinishCheck \/ StopFails
  PROVE  InstInv'
<1> USE DEF InstInv
<1>1. ASSUME NEW kind \in {"stop", "status"}, Check(kind) PROVE InstInv'
  <2>1. /\ command = None /\ Observe(None) /\ Verdict \in {"running", "stale"}
        /\ command' = [kind |-> kind, verdict |-> Verdict, pid |-> lockfile.pid]
        /\ UNCHANGED <<lockfile, proc, doomed>>
    BY <1>1 DEF Check
  <2>2. lockfile \in [pid : Pids, port : Ports] /\ lockfile.pid \in Pids
    <3>1. lockfile \notin {None, CutShort}
      BY <2>1, InstancesAssumption DEF Verdict
    <3> QED BY <3>1 DEF InstTypes
  <2>3. InstTypes'
    BY <2>1, <2>2 DEF InstTypes, Observe
  <2>4. Launching' = Launching /\ Up' = Up
    BY <2>1 DEF Launching, Up
  <2>5. ASSUME ~raced' PROVE doomed = None /\ LaunchesAlone' /\ UpIsNamed'
    <3>1. ~raced /\ Launching = {} /\ doomed = None
      BY <2>1, <2>5, Alone, InstancesAssumption DEF Launching, InstTypes
    <3>2. ASSUME NEW q \in Up PROVE Verdict = "running" /\ lockfile.pid = q
      <4>1. lockfile.pid = q
        BY <3>1, <3>2 DEF UpIsNamed
      <4>2. IsPidAlive(q)
        BY <3>2 DEF Up, IsPidAlive, Off
      <4> QED BY <2>2, <4>1, <4>2, InstancesAssumption DEF Verdict
    <3>3. ASSUME NEW q \in Up
          PROVE  /\ q # None /\ lockfile = [pid |-> q, port |-> proc[q].port] /\ Up = {q}
                 /\ command'.verdict = "running" /\ command'.pid = q
      BY <2>1, <3>1, <3>2, <3>3, InstancesAssumption DEF UpIsNamed, Up
    <3> QED BY <2>1, <2>4, <3>1, <3>3 DEF LaunchesAlone, UpIsNamed
  <2> QED BY <2>1, <2>3, <2>5 DEF Stopping
<1>2. CASE FinishCheck
  <2> DEFINE c == command.pid
  <2>1. command # None /\ c \in Pids /\ UNCHANGED raced
    BY <1>2 DEF FinishCheck, InstTypes
  <2>2. CASE command.verdict = "stale"
    <3>1. lockfile' = None /\ command' = None /\ UNCHANGED <<proc, doomed, raced>>
      BY <1>2, <2>2 DEF FinishCheck
    <3>2. Launching' = Launching /\ Up' = Up
      BY <3>1 DEF Launching, Up
    <3>3. \A q \in Up : ~raced => doomed = q /\ doomed # None
      BY <2>1, <2>2, InstancesAssumption DEF UpIsNamed, Up
    <3> QED BY <2>1, <3>1, <3>2, <3>3 DEF InstTypes, Stopping, LaunchesAlone, UpIsNamed
  <2>3. CASE command.verdict = "running" /\ command.kind = "status"
    <3>1. command' = None /\ UNCHANGED <<lockfile, proc, doomed, raced>>
      BY <1>2, <2>3 DEF FinishCheck
    <3>2. Launching' = Launching /\ Up' = Up
      BY <3>1 DEF Launching, Up
    <3> QED BY <2>1, <3>1, <3>2 DEF InstTypes, Stopping, LaunchesAlone, UpIsNamed
  <2>4. CASE command.verdict = "running" /\ command.kind = "stop"
    <3>1. /\ command' = [command EXCEPT !.verdict = "stale"]
          /\ IF proc[c].at = "serving" THEN Become(c, Server("closing", proc[c].port))
             ELSE IF proc[c].at = "closing" THEN UNCHANGED proc ELSE Become(c, Off)
          /\ doomed' = IF proc[c].at \in {"serving", "closing"} THEN c ELSE doomed
          /\ UNCHANGED <<lockfile, raced>>
      BY <1>2, <2>4 DEF FinishCheck
    <3>2. /\ command' \in [kind : {"stop", "status"}, verdict : {"running", "stale"}, pid : Pids]
          /\ command' # None /\ command'.verdict = "stale" /\ command'.pid = c
      BY <2>1, <3>1, InstancesAssumption DEF InstTypes
    <3>3. CASE c \in Up
      <4>1. /\ proc' \in [Pids -> Becoming] /\ \A q \in Pids \ {c} : proc'[q] = proc[q]
            /\ Launching' = Launching /\ Up' = Up /\ proc'[c].port = proc[c].port
            /\ proc'[c].at = "closing" /\ doomed' = c
        <5>1. CASE proc[c].at = "serving"
          <6>1. proc[c].port \in Ports /\ c \notin Launching
            BY <2>1, <5>1 DEF InstTypes, Becoming, Off, Foreign, Launching
          <6>2. /\ Server("closing", proc[c].port) \in Becoming
                /\ Server("closing", proc[c].port).at = "closing"
                /\ Server("closing", proc[c].port).port = proc[c].port
            BY <6>1 DEF Server, Becoming
          <6>3. Become(c, Server("closing", proc[c].port)) /\ doomed' = c
            BY <3>1, <5>1
          <6>4. /\ proc' \in [Pids -> Becoming] /\ proc'[c] = Server("closing", proc[c].port)
                /\ \A q \in Pids \ {c} : proc'[q] = proc[q]
                /\ Launching' = Launching \ {c} /\ Up' = Up \cup {c}
            BY <2>1, <6>2, <6>3, Moves
          <6>5. Launching \ {c} = Launching /\ Up \cup {c} = Up
            BY <3>3, <6>1
          <6> QED BY <6>2, <6>3, <6>4, <6>5
        <5>2. CASE proc[c].at = "closing"
          BY <2>1, <3>1, <5>2 DEF InstTypes, Launching, Up
        <5> QED BY <3>3, <5>1, <5>2 DEF Up
      <4>2. InstTypes' /\ Stopping'
        BY <2>1, <3>1, <3>2, <4>1 DEF InstTypes, Stopping
      <4>3. ASSUME ~raced PROVE LaunchesAlone' /\ UpIsNamed'
        <5>1. Launching = {} /\ Up = {c} /\ c # None
          BY <2>1, <3>3, <4>3, InstancesAssumption DEF LaunchesAlone, UpIsNamed
        <5> QED BY <3>1, <3>2, <4>1, <5>1 DEF LaunchesAlone, UpIsNamed
      <4> QED BY <3>1, <4>2, <4>3
    <3>4. CASE c \notin Up
      <4>1. Become(c, Off) /\ UNCHANGED doomed
        BY <2>1, <3>1, <3>4 DEF Up
      <4>2. Off \in Becoming /\ Off.at \notin {"cleaning", "clear", "bound", "writing", "serving", "closing"}
        BY DEF Off, Becoming
      <4>3. /\ proc' \in [Pids -> Becoming] /\ \A q \in Pids \ {c} : proc'[q] = proc[q]
            /\ Launching' = Launching \ {c} /\ Up' = Up \ {c}
        BY <2>1, <4>1, <4>2, Moves
      <4>4. InstTypes' /\ Stopping'
        BY <2>1, <3>1, <3>2, <3>4, <4>1, <4>3 DEF InstTypes, Stopping, Up
      <4>5. ASSUME ~raced PROVE LaunchesAlone' /\ UpIsNamed'
        <5>1. Launching = {} /\ Up = {}
          BY <2>1, <2>4, <3>4, <4>5 DEF LaunchesAlone, UpIsNamed
        <5> QED BY <4>3, <5>1 DEF LaunchesAlone, UpIsNamed
      <4> QED BY <3>1, <4>4, <4>5
    <3> QED BY <3>3, <3>4
  <2> QED BY <2>1, <2>2, <2>3, <2>4 DEF InstTypes
<1>3. CASE StopFails
  BY <1>3 DEF StopFails, InstTypes, Stopping, LaunchesAlone, UpIsNamed, Launching, Up
<1> QED BY <1>1, <1>2, <1>3

LEMMA InstInductive == InstInv /\ [InstNext]_instVars => InstInv'
<1>1. ASSUME InstInv, UNCHANGED instVars PROVE InstInv'
  BY <1>1 DEF instVars, InstInv, InstTypes, Stopping, LaunchesAlone, UpIsNamed, Launching, Up
<1> QED BY <1>1, ProcessStep, CommandStep DEF InstNext

(* However servers are launched, signalled, killed and their ids used      *)
(* again: while no two steps on the lockfile overlap, one server at most   *)
(* is up, no other listens, and the lockfile leads to it.                  *)
THEOREM OneInstanceHolds == InstSpec => []OneInstance
<1>1. InstInv => OneInstance
  <2> SUFFICES ASSUME InstInv, ~raced, NEW p \in Up
               PROVE  /\ \A q \in Listening : q = p
                      /\ command = None /\ doomed = None =>
                           lockfile = [pid |-> p, port |-> proc[p].port]
    BY DEF OneInstance, Up
  <2>1. Listening \subseteq Launching \cup Up
    BY DEF Listening, Launching, Up
  <2> QED BY <2>1 DEF InstInv, LaunchesAlone, UpIsNamed
<1> QED BY <1>1, InstBegins, InstInductive, PTL DEF InstSpec

-----------------------------------------------------------------------------
(* The events.  A completion is the last event of its run and is sent      *)
(* once, so what a reader has been told is what lies before its place in   *)
(* the channel, as long as the channel never ran away from it.             *)

EventType == [type : {"started", "node_failed", "success", "failed", "backfill"},
              run : FanRuns \cup {None}]

FanTypes ==
  /\ events \in Seq(EventType)
  /\ runAt \in [FanRuns -> {"new", "running", "failing", "ended", "silent"}]
  /\ at \in [Readers -> Nat] /\ \A x \in Readers : at[x] <= Len(events)
  /\ narrowed \in Nat /\ narrowed <= Len(events)
  /\ wsGot \in Seq(Nat)
  /\ notified \in Seq(FanRuns) /\ trayRecent \in Seq(FanRuns)

(* What has been sent of a run says where the run is: a completion is its  *)
(* last event, and is sent once.                                           *)
EventsTell ==
  /\ \A i \in DOMAIN events : IsCompletion(events[i]) =>
       /\ events[i].run \in FanRuns /\ runAt[events[i].run] = "ended"
       /\ \A j \in DOMAIN events :
            IsCompletion(events[j]) /\ events[j].run = events[i].run => j = i
  /\ \A i \in DOMAIN events : events[i].type \in {"started", "node_failed"} =>
       /\ events[i].run \in FanRuns /\ runAt[events[i].run] # "new"
       /\ runAt[events[i].run] = "ended" =>
            \E j \in DOMAIN events :
              j > i /\ IsCompletion(events[j]) /\ events[j].run = events[i].run

ClientInv ==
  /\ \A k \in DOMAIN wsGot : wsGot[k] <= at["ws"]
  /\ SubscribersAreServed

ListenerInv ==
  /\ \A k \in DOMAIN notified :
       \E i \in Completed(1, at["completion"]) : events[i].run = notified[k]
  /\ CompletionsReachScheduler

(* The icon is that of the last event of a run.                            *)
IconOf(type) ==
  CASE type = "started" -> "running"
    [] type = "success" -> "idle"
    [] OTHER -> "error"

RecentInv ==
  "tray" \notin ranAway =>
    LET done == Completed(1, at["tray"])
        Place(i) == Cardinality(Completed(i, at["tray"])) IN
    /\ Len(trayRecent) = IF Cardinality(done) < MaxRecent THEN Cardinality(done) ELSE MaxRecent
    /\ \A i \in done : Place(i) <= MaxRecent => trayRecent[Place(i)] = events[i].run

IconInv ==
  "tray" \notin ranAway => \A i \in 1..at["tray"] :
    events[i].type # "backfill"
      /\ (\A j \in 1..at["tray"] : j > i => events[j].type = "backfill")
    => trayIcon = IconOf(events[i].type)

FanInv == FanTypes /\ EventsTell /\ ClientInv /\ ListenerInv /\ RecentInv /\ IconInv

-----------------------------------------------------------------------------
(* How the positions of completions change and are counted.                *)

LEMMA Counting ==
  ASSUME FanTypes, NEW m \in Nat, NEW n \in Nat
  PROVE  IsFiniteSet(Completed(m, n)) /\ Cardinality(Completed(m, n)) \in Nat
<1>1. IsFiniteSet(m..n)
  BY FS_Interval
<1>2. Completed(m, n) \subseteq m..n
  BY DEF Completed
<1> QED BY <1>1, <1>2, FS_Subset, FS_CardinalityType

LEMMA OneMore ==
  ASSUME FanTypes, NEW m \in Nat, NEW n \in Nat, m <= n + 1
  PROVE  /\ IsCompletion(events[n + 1]) =>
              /\ Completed(m, n + 1) = Completed(m, n) \cup {n + 1}
              /\ Cardinality(Completed(m, n + 1)) = Cardinality(Completed(m, n)) + 1
         /\ ~IsCompletion(events[n + 1]) => Completed(m, n + 1) = Completed(m, n)
<1>1. m..(n + 1) = (m..n) \cup {n + 1} /\ n + 1 \notin m..n
  OBVIOUS
<1>2. IsFiniteSet(Completed(m, n)) /\ n + 1 \notin Completed(m, n)
  BY <1>1, Counting DEF Completed
<1>3. ASSUME IsCompletion(events[n + 1]) PROVE Completed(m, n + 1) = Completed(m, n) \cup {n + 1}
  BY <1>1, <1>3 DEF Completed
<1>4. ASSUME ~IsCompletion(events[n + 1]) PROVE Completed(m, n + 1) = Completed(m, n)
  BY <1>1, <1>4 DEF Completed
<1> QED BY <1>2, <1>3, <1>4, FS_AddElement

LEMMA Nonempty ==
  ASSUME FanTypes, NEW n \in Nat, NEW i \in Completed(1, n)
  PROVE  Cardinality(Completed(i, n)) >= 1
<1>1. i \in Nat /\ i \in Completed(i, n)
  BY DEF Completed
<1>2. IsFiniteSet(Completed(i, n)) /\ Cardinality(Completed(i, n)) \in Nat
  BY <1>1, Counting
<1>3. Cardinality(Completed(i, n)) # 0
  BY <1>1, <1>2, FS_EmptySet
<1> QED BY <1>2, <1>3

\* Counts of a longer prefix are larger.
LEMMA Prefix ==
  ASSUME FanTypes, NEW n \in Nat, NEW i \in Completed(1, n)
  PROVE  /\ Cardinality(Completed(1, i)) <= Cardinality(Completed(1, n))
         /\ Cardinality(Completed(1, i)) \in Nat /\ Cardinality(Completed(1, i)) >= 1
<1>1. i \in Nat /\ i \in Completed(1, i) /\ Completed(1, i) \subseteq Completed(1, n)
  BY DEF Completed
<1>2. /\ IsFiniteSet(Completed(1, n)) /\ IsFiniteSet(Completed(1, i))
      /\ Cardinality(Completed(1, i)) \in Nat
  BY <1>1, Counting
<1>3. Cardinality(Completed(1, i)) # 0
  BY <1>1, <1>2, FS_EmptySet
<1> QED BY <1>1, <1>2, <1>3, FS_Subset

\* What has been sent stays.
LEMMA Sent ==
  ASSUME FanTypes, NEW e \in EventType, Send(e)
  PROVE  /\ events' \in Seq(EventType) /\ Len(events') = Len(events) + 1
         /\ DOMAIN events' = DOMAIN events \cup {Len(events) + 1}
         /\ Len(events) + 1 \notin DOMAIN events /\ \A i \in DOMAIN events : i < Len(events) + 1
         /\ events'[Len(events) + 1] = e
         /\ \A i \in DOMAIN events : events'[i] = events[i]
         /\ \A m \in Nat, n \in Nat : m > 0 /\ n <= Len(events) =>
              Completed(m, n)' = Completed(m, n)
<1>1. events \in Seq(EventType) /\ events' = Append(events, e)
  BY DEF FanTypes, Send
<1>2. \A i \in DOMAIN events : events'[i] = events[i]
  BY <1>1
<1>3. ASSUME NEW m \in Nat, NEW n \in Nat, m > 0, n <= Len(events)
      PROVE  Completed(m, n)' = Completed(m, n)
  <2>1. \A i \in m..n : i \in DOMAIN events
    BY <1>1, <1>3
  <2> QED BY <1>2, <2>1 DEF Completed, IsCompletion
<1> QED BY <1>1, <1>2, <1>3

\* The readers' claims are about what they have read.
LEMMA ReadersKeep ==
  ASSUME FanInv, NEW e \in EventType, Send(e),
         UNCHANGED <<ranAway, at, filter, narrowed, wsGot, notified, trayIcon, trayRecent>>
  PROVE  ClientInv' /\ ListenerInv' /\ RecentInv' /\ IconInv'
<1>0. FanTypes
  BY DEF FanInv
<1> USE <1>0
<1>1. \A x \in Readers : at[x] \in Nat /\ at[x] <= Len(events) /\ 1..at[x] \subseteq DOMAIN events
  BY DEF FanTypes
<1>2. "ws" \in Readers /\ "completion" \in Readers /\ "tray" \in Readers
  BY DEF Readers
<1>3. \A x \in Readers : \A i \in 1..at[x] : events'[i] = events[i]
  BY <1>1, Sent
<1>4. \A x \in Readers : \A m \in Nat : m > 0 => Completed(m, at[x])' = Completed(m, at[x])
  BY <1>1, Sent
<1>5. ClientInv'
  BY <1>1, <1>2, <1>3 DEF FanInv, ClientInv, SubscribersAreServed
<1>6. ListenerInv'
  <2> DEFINE c == at["completion"]
  <2>1. Completed(1, c)' = Completed(1, c)
    BY <1>2, <1>4
  <2>2. \A i \in Completed(1, c) : i \in 1..c /\ i \in Nat /\ i <= Len(events)
    BY <1>1, <1>2 DEF Completed
  <2>3. \A i \in Completed(1, c) : events'[i] = events[i] /\ Completed(1, i)' = Completed(1, i)
    BY <1>2, <1>3, <2>2, Sent
  <2> QED BY <2>1, <2>3 DEF FanInv, ListenerInv, CompletionsReachScheduler
<1>7. RecentInv'
  <2> DEFINE c == at["tray"]
  <2>1. Completed(1, c)' = Completed(1, c)
    BY <1>2, <1>4
  <2>2. \A i \in Completed(1, c) : i \in 1..c /\ i \in Nat /\ i > 0
    BY <1>1, <1>2 DEF Completed
  <2>3. \A i \in Completed(1, c) : events'[i] = events[i] /\ Completed(i, c)' = Completed(i, c)
    BY <1>2, <1>3, <1>4, <2>2
  <2> QED BY <2>1, <2>3 DEF FanInv, RecentInv
<1>8. IconInv'
  BY <1>2, <1>3 DEF FanInv, IconInv
<1> QED BY <1>5, <1>6, <1>7, <1>8

\* A run that moves on sends what EventsTell says of it.
LEMMA Tells ==
  ASSUME FanTypes, EventsTell, NEW r \in FanRuns, NEW to, NEW type, Send(Ev(type, r)),
         runAt' = [runAt EXCEPT ![r] = to],
         \/ runAt[r] = "new" /\ type = "started" /\ to = "running"
         \/ runAt[r] = "running" /\ type = "node_failed" /\ to = "failing"
         \/ runAt[r] \in {"running", "failing"} /\ type \in {"success", "failed"} /\ to = "ended"
  PROVE  EventsTell'
<1> DEFINE n == Len(events) + 1
<1>1. Ev(type, r) \in EventType /\ Ev(type, r).type = type /\ Ev(type, r).run = r
  BY DEF Ev, EventType
<1>2. /\ DOMAIN events' = DOMAIN events \cup {n} /\ n \notin DOMAIN events
      /\ \A i \in DOMAIN events : i < n /\ events'[i] = events[i]
      /\ events'[n] = Ev(type, r)
  BY <1>1, Sent
<1>3. /\ runAt' \in [FanRuns -> {"new", "running", "failing", "ended", "silent"}]
      /\ runAt'[r] = to /\ \A q \in FanRuns \ {r} : runAt'[q] = runAt[q]
  BY DEF FanTypes
<1>4. runAt[r] # "ended" /\ to # "new"
  OBVIOUS
<1>5. \A i \in DOMAIN events : IsCompletion(events[i]) => events[i].run # r
  BY <1>4 DEF EventsTell
<1>6. IsCompletion(events'[n]) <=> type \in {"success", "failed"}
  BY <1>1, <1>2 DEF IsCompletion
<1>7. ASSUME NEW i \in DOMAIN events', IsCompletion(events'[i])
      PROVE  /\ events'[i].run \in FanRuns /\ runAt'[events'[i].run] = "ended"
             /\ \A j \in DOMAIN events' :
                  IsCompletion(events'[j]) /\ events'[j].run = events'[i].run => j = i
  <2>1. CASE i = n
    BY <1>1, <1>2, <1>3, <1>5, <1>6, <1>7, <2>1
  <2>2. CASE i \in DOMAIN events
    <3>1. IsCompletion(events[i]) /\ events[i].run # r /\ events'[i] = events[i]
      BY <1>2, <1>5, <1>7, <2>2
    <3>2. events[i].run \in FanRuns /\ runAt[events[i].run] = "ended"
      BY <2>2, <3>1 DEF EventsTell
    <3>3. ASSUME NEW j \in DOMAIN events', IsCompletion(events'[j]), events'[j].run = events'[i].run
          PROVE  j = i
      <4>1. j \in DOMAIN events
        BY <1>1, <1>2, <3>1, <3>3
      <4> QED BY <1>2, <2>2, <3>1, <3>3, <4>1 DEF EventsTell
    <3> QED BY <1>3, <3>1, <3>2, <3>3
  <2> QED BY <1>2, <2>1, <2>2
<1>8. ASSUME NEW i \in DOMAIN events', events'[i].type \in {"started", "node_failed"}
      PROVE  /\ events'[i].run \in FanRuns /\ runAt'[events'[i].run] # "new"
             /\ runAt'[events'[i].run] = "ended" =>
                  \E j \in DOMAIN events' :
                    j > i /\ IsCompletion(events'[j]) /\ events'[j].run = events'[i].run
  <2>1. CASE i = n
    BY <1>1, <1>2, <1>3, <1>4, <1>8, <2>1
  <2>2. CASE i \in DOMAIN events
    <3>1. /\ events'[i] = events[i] /\ i < n
          /\ events[i].run \in FanRuns /\ runAt[events[i].run] # "new"
      BY <1>2, <1>8, <2>2 DEF EventsTell
    <3>2. CASE events[i].run = r
      <4>1. to = "ended" => IsCompletion(events'[n])
        BY <1>6
      <4> QED BY <1>1, <1>2, <1>3, <1>4, <3>1, <3>2, <4>1
    <3>3. CASE events[i].run # r
      <4>1. runAt'[events[i].run] = runAt[events[i].run]
        BY <1>3, <3>1, <3>3
      <4>2. ASSUME runAt[events[i].run] = "ended"
            PROVE  \E j \in DOMAIN events' :
                     j > i /\ IsCompletion(events'[j]) /\ events'[j].run = events'[i].run
        <5>1. PICK j \in DOMAIN events :
                j > i /\ IsCompletion(events[j]) /\ events[j].run = events[i].run
          BY <1>8, <2>2, <3>1, <4>2 DEF EventsTell
        <5> QED BY <1>2, <3>1, <5>1
      <4> QED BY <3>1, <4>1, <4>2
    <3> QED BY <3>2, <3>3
  <2> QED BY <1>2, <2>1, <2>2
<1> QED BY <1>7, <1>8 DEF EventsTell

LEMMA EmitStep == ASSUME FanInv, Emit PROVE FanInv'
<1>0. FanTypes /\ EventsTell
  BY DEF FanInv
<1> USE <1>0
<1>1. ASSUME NEW e \in EventType, Send(e),
             runAt' \in [FanRuns -> {"new", "running", "failing", "ended", "silent"}],
             UNCHANGED <<ranAway, at, filter, narrowed, wsGot, notified, trayIcon, trayRecent>>,
             EventsTell'
      PROVE  FanInv'
  <2>1. FanTypes'
    BY <1>1, Sent DEF FanTypes
  <2> QED BY <1>1, <2>1, ReadersKeep DEF FanInv
<1>2. \A type \in {"started", "node_failed", "success", "failed"}, r \in FanRuns :
        Ev(type, r) \in EventType
  BY DEF Ev, EventType
<1>3. ASSUME NEW r \in FanRuns, RunStarts(r) PROVE FanInv'
  <2>1. /\ runAt[r] = "new" /\ runAt' = [runAt EXCEPT ![r] = "running"] /\ Send(Ev("started", r))
        /\ UNCHANGED <<ranAway, at, filter, narrowed, wsGot, notified, trayIcon, trayRecent>>
    BY <1>3 DEF RunStarts
  <2>2. EventsTell'
    BY <2>1, Tells
  <2>3. runAt' \in [FanRuns -> {"new", "running", "failing", "ended", "silent"}]
    BY <2>1 DEF FanTypes
  <2> QED BY <1>1, <1>2, <2>1, <2>2, <2>3
<1>4. ASSUME NEW r \in FanRuns, NodeFails(r) PROVE FanInv'
  <2>1. /\ runAt[r] = "running" /\ runAt' = [runAt EXCEPT ![r] = "failing"]
        /\ Send(Ev("node_failed", r))
        /\ UNCHANGED <<ranAway, at, filter, narrowed, wsGot, notified, trayIcon, trayRecent>>
    BY <1>4 DEF NodeFails
  <2>2. EventsTell'
    BY <2>1, Tells
  <2>3. runAt' \in [FanRuns -> {"new", "running", "failing", "ended", "silent"}]
    BY <2>1 DEF FanTypes
  <2> QED BY <1>1, <1>2, <2>1, <2>2, <2>3
<1>5. ASSUME NEW r \in FanRuns, RunEnds(r) PROVE FanInv'
  <2>1. /\ runAt[r] \in {"running", "failing"}
        /\ UNCHANGED <<ranAway, at, filter, narrowed, wsGot, notified, trayIcon, trayRecent>>
    BY <1>5 DEF RunEnds
  <2>2. ASSUME NEW type \in {"success", "failed"}, Send(Ev(type, r)),
               runAt' = [runAt EXCEPT ![r] = "ended"]
        PROVE  FanInv'
    <3>1. EventsTell'
      BY <2>1, <2>2, Tells
    <3>2. runAt' \in [FanRuns -> {"new", "running", "failing", "ended", "silent"}]
      BY <2>2 DEF FanTypes
    <3> QED BY <1>1, <1>2, <2>1, <2>2, <3>1, <3>2
  <2>3. CASE runAt' = [runAt EXCEPT ![r] = "silent"] /\ UNCHANGED events
    <3>1. /\ runAt' \in [FanRuns -> {"new", "running", "failing", "ended", "silent"}]
          /\ \A q \in FanRuns : runAt[q] # "new" => runAt'[q] # "new"
          /\ \A q \in FanRuns : runAt'[q] = "ended" <=> runAt[q] = "ended"
      BY <2>1, <2>3 DEF FanTypes
    <3>2. EventsTell'
      BY <2>3, <3>1 DEF EventsTell
    <3>3. ClientInv' /\ ListenerInv' /\ RecentInv' /\ IconInv'
      BY <2>1, <2>3 DEF FanInv, ClientInv, SubscribersAreServed, ListenerInv,
         CompletionsReachScheduler, Completed, RecentInv, IconInv
    <3> QED BY <2>1, <2>3, <3>1, <3>2, <3>3 DEF FanInv, FanTypes
  <2> QED BY <1>5, <2>2, <2>3 DEF RunEnds
<1>6. CASE Unscoped
  <2>1. /\ Send(Ev("backfill", None))
        /\ UNCHANGED <<runAt, ranAway, at, filter, narrowed, wsGot, notified, trayIcon, trayRecent>>
    BY <1>6 DEF Unscoped
  <2>2. /\ Ev("backfill", None) \in EventType /\ ~IsCompletion(Ev("backfill", None))
        /\ Ev("backfill", None).type = "backfill"
    BY DEF Ev, EventType, IsCompletion
  <2>3. EventsTell'
    <3>1. /\ DOMAIN events' = DOMAIN events \cup {Len(events) + 1}
          /\ \A i \in DOMAIN events : events'[i] = events[i]
          /\ events'[Len(events) + 1] = Ev("backfill", None)
      BY <2>1, <2>2, Sent
    <3> QED BY <2>1, <2>2, <3>1 DEF EventsTell
  <2>4. runAt' \in [FanRuns -> {"new", "running", "failing", "ended", "silent"}]
    BY <2>1 DEF FanTypes
  <2> QED BY <1>1, <2>1, <2>2, <2>3, <2>4
<1> QED BY <1>3, <1>4, <1>5, <1>6 DEF Emit

-----------------------------------------------------------------------------
(* The readers.  What is the same for all: who reads only moves itself.    *)
LEMMA Moving ==
  ASSUME FanInv, NEW x \in Readers, Recv(x) \/ Lag(x)
  PROVE  /\ at' \in [Readers -> Nat] /\ \A y \in Readers : at'[y] <= Len(events')
         /\ \A y \in Readers \ {x} : at'[y] = at[y]
         /\ at[x] \in Nat /\ at[x] < at'[x]
         /\ UNCHANGED <<events, runAt, filter, narrowed>>
         /\ Recv(x) => /\ at'[x] = at[x] + 1 /\ ranAway' = ranAway
                       /\ Received(x) = events[at[x] + 1] /\ events[at[x] + 1] \in EventType
                       /\ at[x] + 1 \in DOMAIN events
         /\ Lag(x) => x \in ranAway' /\ \A y \in Readers \ {x} : y \in ranAway' <=> y \in ranAway
<1>0. /\ at \in [Readers -> Nat] /\ \A y \in Readers : at[y] <= Len(events)
      /\ Len(events) \in Nat /\ events \in Seq(EventType)
  BY DEF FanInv, FanTypes
<1>1. CASE Recv(x)
  <2>1. /\ at' = [at EXCEPT ![x] = at[x] + 1] /\ Len(events) - at[x] \in 1..Capacity
        /\ UNCHANGED <<events, runAt, ranAway, filter, narrowed>>
    BY <1>1 DEF Recv, Behind
  <2>2. at[x] + 1 <= Len(events) /\ at[x] + 1 \in DOMAIN events
    BY <1>0, <2>1, FanoutAssumption
  <2>3. ~Lag(x)
    BY <1>0, <2>1, FanoutAssumption DEF Lag, Behind
  <2> QED BY <1>0, <2>1, <2>2, <2>3 DEF Received
<1>2. CASE Lag(x)
  <2>1. /\ at' = [at EXCEPT ![x] = Len(events) - Capacity] /\ Len(events) - at[x] > Capacity
        /\ ranAway' = ranAway \cup {x} /\ UNCHANGED <<events, runAt, filter, narrowed>>
    BY <1>2 DEF Lag, Behind
  <2>2. /\ Len(events) - Capacity \in Nat /\ Len(events) - Capacity <= Len(events)
        /\ Len(events) - Capacity > at[x]
    BY <1>0, <2>1, FanoutAssumption
  <2>3. ~Recv(x)
    BY <1>0, <2>1, FanoutAssumption DEF Recv, Behind
  <2> QED BY <1>0, <2>1, <2>2, <2>3
<1> QED BY <1>1, <1>2

LEMMA FilterStep == ASSUME FanInv, Subscribe PROVE FanInv'
<1>1. /\ narrowed' = Len(events)
      /\ UNCHANGED <<events, runAt, ranAway, at, wsGot, notified, trayIcon, trayRecent>>
  BY DEF Subscribe
<1>2. /\ "ws" \in Readers /\ FanTypes /\ at["ws"] \in Nat /\ at["ws"] <= Len(events)
      /\ Len(events) \in Nat
  BY DEF Readers, FanInv, FanTypes
<1>3. \A i \in 1..at["ws"] : ~(i > narrowed')
  BY <1>1, <1>2
<1>4. ClientInv'
  BY <1>1, <1>3 DEF FanInv, ClientInv, SubscribersAreServed
<1>5. FanTypes'
  BY <1>1, <1>2 DEF FanTypes
<1>6. EventsTell'
  BY <1>1 DEF FanInv, EventsTell
<1>7. ListenerInv' /\ RecentInv' /\ IconInv'
  BY <1>1 DEF FanInv, ListenerInv, CompletionsReachScheduler, Completed, RecentInv, IconInv
<1> QED BY <1>4, <1>5, <1>6, <1>7 DEF FanInv

\* What the other readers keep while one moves.
LEMMA OthersKeep ==
  ASSUME FanInv, NEW x \in Readers, Recv(x) \/ Lag(x)
  PROVE  /\ EventsTell'
         /\ x # "ws" /\ UNCHANGED wsGot => ClientInv'
         /\ x # "completion" /\ UNCHANGED notified => ListenerInv'
         /\ x # "tray" /\ UNCHANGED <<trayRecent, trayIcon>> => RecentInv' /\ IconInv'
<1>1. /\ \A y \in Readers \ {x} : at'[y] = at[y] /\ (y \in ranAway' <=> y \in ranAway)
      /\ UNCHANGED <<events, runAt, filter, narrowed>>
  BY Moving
<1>2. "ws" \in Readers /\ "completion" \in Readers /\ "tray" \in Readers
  BY DEF Readers
<1>3. EventsTell'
  BY <1>1 DEF FanInv, EventsTell
<1>4. ASSUME x # "ws", UNCHANGED wsGot PROVE ClientInv'
  BY <1>1, <1>2, <1>4 DEF FanInv, ClientInv, SubscribersAreServed
<1>5. ASSUME x # "completion", UNCHANGED notified PROVE ListenerInv'
  BY <1>1, <1>2, <1>5 DEF FanInv, ListenerInv, CompletionsReachScheduler, Completed
<1>6. ASSUME x # "tray", UNCHANGED <<trayRecent, trayIcon>> PROVE RecentInv' /\ IconInv'
  BY <1>1, <1>2, <1>6 DEF FanInv, RecentInv, IconInv, Completed
<1> QED BY <1>3, <1>4, <1>5, <1>6

LEMMA LagStep == ASSUME FanInv, NEW x \in Readers, Lag(x) PROVE FanInv'
<1>1. /\ at' \in [Readers -> Nat] /\ \A y \in Readers : at'[y] <= Len(events')
      /\ at[x] \in Nat /\ at'[x] \in Nat /\ at[x] < at'[x] /\ x \in ranAway'
      /\ UNCHANGED <<events, runAt, filter, narrowed>>
  BY Moving
<1>2. UNCHANGED <<wsGot, notified, trayIcon, trayRecent>>
  BY DEF Lag
<1>3. FanTypes'
  BY <1>1, <1>2 DEF FanInv, FanTypes
<1>4. CASE x = "ws"
  <2>1. \A k \in DOMAIN wsGot : wsGot[k] \in Nat /\ wsGot[k] <= at["ws"]
    BY DEF FanInv, FanTypes, ClientInv
  <2>2. \A k \in DOMAIN wsGot : wsGot[k] <= at'["ws"]
    BY <1>1, <1>4, <2>1
  <2>3. ClientInv'
    BY <1>1, <1>2, <1>4, <2>2 DEF FanInv, ClientInv, SubscribersAreServed
  <2> QED BY <1>2, <1>3, <1>4, <2>3, OthersKeep DEF FanInv
<1>5. CASE x = "completion"
  <2>1. Completed(1, at["completion"]) \subseteq Completed(1, at["completion"])'
    BY <1>1, <1>5 DEF Completed
  <2>2. ListenerInv'
    BY <1>1, <1>2, <1>5, <2>1 DEF FanInv, ListenerInv, CompletionsReachScheduler
  <2> QED BY <1>2, <1>3, <1>5, <2>2, OthersKeep DEF FanInv
<1>6. CASE x = "tray"
  <2>1. RecentInv' /\ IconInv'
    BY <1>1, <1>6 DEF RecentInv, IconInv
  <2> QED BY <1>2, <1>3, <1>6, <2>1, OthersKeep DEF FanInv
<1> QED BY <1>4, <1>5, <1>6 DEF Readers

LEMMA ForwardStep == ASSUME FanInv, Forward PROVE FanInv'
<1> DEFINE n == at["ws"] + 1
           passes == filter = None \/ MatchesFilter(events[n])
<1>1. /\ Recv("ws") /\ UNCHANGED <<notified, trayIcon, trayRecent>> /\ "ws" \in Readers
  BY DEF Forward, Readers
<1>2. /\ at' \in [Readers -> Nat] /\ \A y \in Readers : at'[y] <= Len(events')
      /\ at["ws"] \in Nat /\ at'["ws"] = n /\ ranAway' = ranAway
      /\ Received("ws") = events[n] /\ n \in DOMAIN events
      /\ UNCHANGED <<events, runAt, filter, narrowed>>
  BY <1>1, Moving
<1>3. wsGot' = IF passes THEN Append(wsGot, n) ELSE wsGot
  BY <1>2 DEF Forward
<1>4. wsGot \in Seq(Nat) /\ n \in Nat /\ \A k \in DOMAIN wsGot : wsGot[k] < n
  <2>1. wsGot \in Seq(Nat) /\ \A k \in DOMAIN wsGot : wsGot[k] \in Nat /\ wsGot[k] <= at["ws"]
    BY DEF FanInv, FanTypes, ClientInv
  <2> QED BY <1>2, <2>1
<1>5. /\ wsGot' \in Seq(Nat) /\ \A k \in DOMAIN wsGot' : wsGot'[k] <= n
      /\ \A i, j \in DOMAIN wsGot' : i < j => wsGot'[i] < wsGot'[j]
      /\ ToSet(wsGot') = IF passes THEN ToSet(wsGot) \cup {n} ELSE ToSet(wsGot)
  <2>1. \A i, j \in DOMAIN wsGot : i < j => wsGot[i] < wsGot[j]
    BY DEF FanInv, ClientInv, SubscribersAreServed
  <2>2. CASE ~passes
    BY <1>3, <1>4, <2>1, <2>2
  <2>3. CASE passes
    <3>1. wsGot' = Append(wsGot, n)
      BY <1>3, <2>3
    <3>2. /\ Len(wsGot) \in Nat /\ DOMAIN wsGot = 1..Len(wsGot)
          /\ DOMAIN wsGot' = 1..(Len(wsGot) + 1) /\ wsGot'[Len(wsGot) + 1] = n
          /\ \A i \in DOMAIN wsGot : wsGot'[i] = wsGot[i]
      BY <1>4, <3>1
    <3>3. wsGot' \in Seq(Nat)
      BY <1>4, <3>1
    <3>4. \A k \in DOMAIN wsGot' : k \in DOMAIN wsGot \/ k = Len(wsGot) + 1
      BY <3>2
    <3>5. ToSet(wsGot') = ToSet(wsGot) \cup {n}
      BY <3>2, <3>4 DEF ToSet
    <3>6. \A k \in DOMAIN wsGot' : wsGot'[k] <= n
      BY <1>4, <3>2, <3>3, <3>4
    <3>7. \A i, j \in DOMAIN wsGot' : i < j => wsGot'[i] < wsGot'[j]
      <4>1. ASSUME NEW i \in DOMAIN wsGot', NEW j \in DOMAIN wsGot', i < j PROVE i \in DOMAIN wsGot
        BY <3>2, <4>1
      <4> QED BY <1>4, <2>1, <3>2, <3>4, <4>1
    <3> QED BY <2>3, <3>3, <3>5, <3>6, <3>7
  <2> QED BY <2>2, <2>3
<1>6. n \notin ToSet(wsGot)
  BY <1>4 DEF ToSet
<1>7. ASSUME "ws" \notin ranAway', NEW i \in 1..at'["ws"]
      PROVE  /\ events'[i].run = None => i \in ToSet(wsGot')
             /\ i > narrowed' /\ filter' # None /\ events'[i].run \in filter' => i \in ToSet(wsGot')
             /\ i > narrowed' /\ filter' # None /\ i \in ToSet(wsGot') =>
                  events'[i].run \in filter' \cup {None}
  <2>1. CASE i = n
    BY <1>2, <1>5, <1>6, <2>1 DEF MatchesFilter
  <2>2. CASE i \in 1..at["ws"]
    <3>1. i # n
      BY <1>2, <2>2
    <3> QED BY <1>2, <1>5, <1>7, <2>2, <3>1 DEF FanInv, ClientInv, SubscribersAreServed
  <2> QED BY <1>2, <1>7, <2>1, <2>2
<1>8. ClientInv'
  BY <1>2, <1>5, <1>7 DEF ClientInv, SubscribersAreServed
<1>9. FanTypes'
  BY <1>1, <1>2, <1>5 DEF FanInv, FanTypes
<1> QED BY <1>1, <1>8, <1>9, OthersKeep DEF FanInv

LEMMA NotifyStep == ASSUME FanInv, Notify PROVE FanInv'
<1> DEFINE c == at["completion"]
           n == c + 1
<1>1. /\ Recv("completion") /\ UNCHANGED <<wsGot, trayIcon, trayRecent>>
      /\ "completion" \in Readers /\ FanTypes
  BY DEF Notify, Readers, FanInv
<1>2. /\ at' \in [Readers -> Nat] /\ \A y \in Readers : at'[y] <= Len(events')
      /\ c \in Nat /\ at'["completion"] = n /\ ranAway' = ranAway
      /\ Received("completion") = events[n] /\ n \in DOMAIN events
      /\ UNCHANGED <<events, runAt, filter, narrowed>>
  BY <1>1, Moving
<1>3. notified' = IF IsCompletion(events[n]) THEN Append(notified, events[n].run) ELSE notified
  BY <1>2 DEF Notify, IsCompletion
<1>4. /\ notified \in Seq(FanRuns)
      /\ \A k \in DOMAIN notified : \E i \in Completed(1, c) : events[i].run = notified[k]
      /\ IsInjective(notified)
  BY DEF FanInv, FanTypes, ListenerInv, CompletionsReachScheduler
<1>5. \A m, k : Completed(m, k)' = Completed(m, k)
  BY <1>2 DEF Completed
<1>6. CASE ~IsCompletion(events[n])
  <2>1. Completed(1, n) = Completed(1, c)
    BY <1>1, <1>2, <1>6, OneMore
  <2>2. ListenerInv'
    BY <1>2, <1>3, <1>5, <1>6, <2>1 DEF FanInv, ListenerInv, CompletionsReachScheduler
  <2>3. FanTypes'
    BY <1>1, <1>2, <1>3, <1>6 DEF FanTypes
  <2> QED BY <1>1, <2>2, <2>3, OthersKeep DEF FanInv
<1>7. CASE IsCompletion(events[n])
  <2>1. /\ Completed(1, n) = Completed(1, c) \cup {n}
        /\ Cardinality(Completed(1, n)) = Cardinality(Completed(1, c)) + 1
    BY <1>1, <1>2, <1>7, OneMore
  <2>2. events[n].run \in FanRuns
    BY <1>2, <1>7 DEF FanInv, EventsTell
  <2>3. /\ notified' \in Seq(FanRuns) /\ Len(notified) \in Nat /\ Len(notified') = Len(notified) + 1
        /\ DOMAIN notified' = DOMAIN notified \cup {Len(notified) + 1}
        /\ Len(notified) + 1 \notin DOMAIN notified
        /\ notified'[Len(notified) + 1] = events[n].run
        /\ \A k \in DOMAIN notified : notified'[k] = notified[k]
    BY <1>3, <1>4, <1>7, <2>2
  <2>4. \A k \in DOMAIN notified : notified[k] # events[n].run
    <3>1. SUFFICES ASSUME NEW k \in DOMAIN notified, notified[k] = events[n].run PROVE FALSE
      OBVIOUS
    <3>2. PICK i \in Completed(1, c) : events[i].run = events[n].run
      BY <1>4, <3>1
    <3>3. i \in DOMAIN events /\ IsCompletion(events[i]) /\ i # n
      BY <1>2, <3>2 DEF Completed, FanInv, FanTypes
    <3> QED BY <1>2, <1>7, <3>2, <3>3 DEF FanInv, EventsTell
  <2>5. IsInjective(notified')
    BY <1>4, <2>3, <2>4 DEF IsInjective
  <2>6. \A k \in DOMAIN notified' : \E i \in Completed(1, n) : events[i].run = notified'[k]
    BY <1>4, <2>1, <2>3
  <2>7. ASSUME "completion" \notin ranAway
        PROVE  /\ Len(notified') = Cardinality(Completed(1, n))
               /\ \A i \in Completed(1, n) : notified'[Cardinality(Completed(1, i))] = events[i].run
    <3>1. /\ Len(notified) = Cardinality(Completed(1, c))
          /\ \A i \in Completed(1, c) : notified[Cardinality(Completed(1, i))] = events[i].run
      BY <2>7 DEF FanInv, ListenerInv, CompletionsReachScheduler
    <3>2. ASSUME NEW i \in Completed(1, c)
          PROVE  notified'[Cardinality(Completed(1, i))] = events[i].run
      <4>1. Cardinality(Completed(1, i)) \in 1..Len(notified)
        BY <1>1, <1>2, <2>3, <3>1, Prefix
      <4>2. Cardinality(Completed(1, i)) \in DOMAIN notified
        BY <1>4, <4>1
      <4> QED BY <2>3, <3>1, <4>2
    <3> QED BY <2>1, <2>3, <3>1, <3>2
  <2>8. ListenerInv'
    BY <1>2, <1>5, <2>5, <2>6, <2>7 DEF ListenerInv, CompletionsReachScheduler
  <2>9. FanTypes'
    BY <1>1, <1>2, <2>3 DEF FanTypes
  <2> QED BY <1>1, <2>8, <2>9, OthersKeep DEF FanInv
<1> QED BY <1>6, <1>7

\* The run that completed goes to the front, and the oldest goes when there
\* are too many.
LEMMA Pushed ==
  ASSUME FanTypes, NEW e \in EventType, IsCompletion(e), e.run \in FanRuns
  PROVE  /\ Recent(e) \in Seq(FanRuns)
         /\ Len(Recent(e)) = IF Len(trayRecent) + 1 < MaxRecent THEN Len(trayRecent) + 1 ELSE MaxRecent
         /\ MaxRecent > 0 => Recent(e)[1] = e.run
         /\ \A k \in 1..Len(trayRecent) : k + 1 <= MaxRecent => Recent(e)[k + 1] = trayRecent[k]
<1> DEFINE all == <<e.run>> \o trayRecent
<1>1. /\ trayRecent \in Seq(FanRuns) /\ Len(trayRecent) \in Nat /\ MaxRecent \in Nat
  BY FanoutAssumption DEF FanTypes
<1>2. /\ all \in Seq(FanRuns) /\ Len(all) = Len(trayRecent) + 1 /\ all[1] = e.run
      /\ \A k \in 1..Len(trayRecent) : all[k + 1] = trayRecent[k]
  BY <1>1
<1>3. Recent(e) = IF Len(all) > MaxRecent THEN SubSeq(all, 1, MaxRecent) ELSE all
  BY DEF Recent, IsCompletion
<1>4. CASE Len(all) > MaxRecent
  <2>1. Recent(e) = SubSeq(all, 1, MaxRecent)
    BY <1>3, <1>4
  <2>2. /\ SubSeq(all, 1, MaxRecent) \in Seq(FanRuns) /\ Len(SubSeq(all, 1, MaxRecent)) = MaxRecent
        /\ \A k \in 1..MaxRecent : SubSeq(all, 1, MaxRecent)[k] = all[k]
    BY <1>1, <1>2, <1>4
  <2> QED BY <1>1, <1>2, <1>4, <2>1, <2>2
<1>5. CASE ~(Len(all) > MaxRecent)
  BY <1>1, <1>2, <1>3, <1>5
<1> QED BY <1>4, <1>5

LEMMA ShowStep == ASSUME FanInv, TrayShows PROVE FanInv'
<1> DEFINE c == at["tray"]
           n == c + 1
           e == events[n]
<1>1. /\ Recv("tray") /\ UNCHANGED <<wsGot, notified>> /\ "tray" \in Readers /\ FanTypes
  BY DEF TrayShows, Readers, FanInv
<1>2. /\ at' \in [Readers -> Nat] /\ \A y \in Readers : at'[y] <= Len(events')
      /\ c \in Nat /\ at'["tray"] = n /\ ranAway' = ranAway
      /\ Received("tray") = e /\ e \in EventType /\ n \in DOMAIN events
      /\ UNCHANGED <<events, runAt, filter, narrowed>>
  BY <1>1, Moving
<1>3. trayIcon' = Icon(e) /\ trayRecent' = Recent(e)
  BY <1>2 DEF TrayShows
<1>4. \A m, k : Completed(m, k)' = Completed(m, k)
  BY <1>2 DEF Completed
<1>5. trayRecent' \in Seq(FanRuns)
  <2>1. CASE IsCompletion(e)
    <3>1. e.run \in FanRuns
      BY <1>2, <2>1 DEF FanInv, EventsTell
    <3> QED BY <1>1, <1>2, <1>3, <2>1, <3>1, Pushed
  <2>2. CASE ~IsCompletion(e)
    BY <1>1, <1>3, <2>2 DEF Recent, IsCompletion, FanTypes
  <2> QED BY <2>1, <2>2
<1>6. FanTypes'
  BY <1>1, <1>2, <1>5 DEF FanTypes
<1>7. RecentInv'
  <2>1. SUFFICES ASSUME "tray" \notin ranAway
                 PROVE  /\ Len(trayRecent') = IF Cardinality(Completed(1, n)) < MaxRecent
                                              THEN Cardinality(Completed(1, n)) ELSE MaxRecent
                        /\ \A i \in Completed(1, n) : Cardinality(Completed(i, n)) <= MaxRecent =>
                             trayRecent'[Cardinality(Completed(i, n))] = events[i].run
    BY <1>2, <1>4 DEF RecentInv
  <2>2. /\ Len(trayRecent) = IF Cardinality(Completed(1, c)) < MaxRecent
                             THEN Cardinality(Completed(1, c)) ELSE MaxRecent
        /\ \A i \in Completed(1, c) : Cardinality(Completed(i, c)) <= MaxRecent =>
             trayRecent[Cardinality(Completed(i, c))] = events[i].run
    BY <2>1 DEF FanInv, RecentInv
  <2>3. \A i \in Completed(1, c) : i \in Nat /\ i <= n /\ i >= 1
    BY <1>2 DEF Completed
  <2>4. CASE ~IsCompletion(e)
    <3>1. Completed(1, n) = Completed(1, c)
      BY <1>1, <1>2, <2>4, OneMore
    <3>2. \A i \in Completed(1, c) : Completed(i, n) = Completed(i, c)
      BY <1>1, <1>2, <2>3, <2>4, OneMore
    <3>3. trayRecent' = trayRecent
      BY <1>3, <2>4 DEF Recent, IsCompletion
    <3> QED BY <2>2, <3>1, <3>2, <3>3
  <2>5. CASE IsCompletion(e)
    <3>1. e.run \in FanRuns
      BY <1>2, <2>5 DEF FanInv, EventsTell
    <3>2. /\ Completed(1, n) = Completed(1, c) \cup {n}
          /\ Cardinality(Completed(1, n)) = Cardinality(Completed(1, c)) + 1
      <4>1. FanTypes /\ c \in Nat /\ 1 <= c + 1 /\ IsCompletion(events[c + 1])
        BY <1>1, <1>2, <2>5
      <4> HIDE DEF c
      <4> QED BY <4>1, OneMore
    <3>3. Cardinality(Completed(n, n)) = 1
      <4>1. Cardinality(Completed(n, n)) = Cardinality(Completed(n, c)) + 1
        BY <1>1, <1>2, <2>5, OneMore
      <4>2. Completed(n, c) = {}
        BY <1>2 DEF Completed
      <4> QED BY <4>1, <4>2, FS_EmptySet
    <3>4. Cardinality(Completed(1, c)) \in Nat /\ MaxRecent \in Nat
      BY <1>1, <1>2, Counting, FanoutAssumption
    <3>5. Len(trayRecent') = IF Cardinality(Completed(1, n)) < MaxRecent
                             THEN Cardinality(Completed(1, n)) ELSE MaxRecent
      <4>1. Len(trayRecent') = IF Len(trayRecent) + 1 < MaxRecent THEN Len(trayRecent) + 1 ELSE MaxRecent
        BY <1>1, <1>2, <1>3, <2>5, <3>1, Pushed
      <4> QED BY <2>2, <3>2, <3>4, <4>1
    <3>6. ASSUME NEW i \in Completed(1, c), Cardinality(Completed(i, n)) <= MaxRecent
          PROVE  trayRecent'[Cardinality(Completed(i, n))] = events[i].run
      <4> DEFINE k == Cardinality(Completed(i, c))
      <4>1. Cardinality(Completed(i, n)) = k + 1
        BY <1>1, <1>2, <2>3, <2>5, OneMore
      <4>2. k \in Nat /\ k >= 1
        BY <1>1, <1>2, <2>3, Counting, Nonempty
      <4>3. k <= Cardinality(Completed(1, c))
        <5>1. Completed(i, c) \subseteq Completed(1, c)
          BY <1>2, <2>3 DEF Completed
        <5> QED BY <1>1, <1>2, <5>1, Counting, FS_Subset
      <4>4. k <= MaxRecent /\ k \in 1..Len(trayRecent)
        BY <2>2, <3>4, <3>6, <4>1, <4>2, <4>3
      <4>5. trayRecent'[k + 1] = trayRecent[k]
        BY <1>1, <1>2, <1>3, <2>5, <3>1, <3>6, <4>1, <4>4, Pushed
      <4> QED BY <2>2, <4>1, <4>4, <4>5
    <3>7. 1 <= MaxRecent => trayRecent'[1] = events[n].run
      BY <1>1, <1>2, <1>3, <2>5, <3>1, <3>4, Pushed
    <3> QED BY <3>2, <3>3, <3>5, <3>6, <3>7
  <2> QED BY <2>4, <2>5
<1>8. IconInv'
  <2>1. SUFFICES ASSUME "tray" \notin ranAway, NEW i \in 1..n, events[i].type # "backfill",
                        \A j \in 1..n : j > i => events[j].type = "backfill"
                 PROVE  Icon(e) = IconOf(events[i].type)
    BY <1>2, <1>3 DEF IconInv
  <2>2. CASE i = n
    BY <1>2, <2>1, <2>2 DEF Icon, IconOf, EventType
  <2>3. CASE i \in 1..c
    <3>1. n > i /\ n \in 1..n
      BY <1>2, <2>3
    <3>2. Icon(e) = trayIcon
      BY <2>1, <3>1 DEF Icon
    <3>3. \A j \in 1..c : j > i => events[j].type = "backfill"
      BY <1>2, <2>1
    <3> QED BY <2>1, <2>3, <3>2, <3>3 DEF FanInv, IconInv
  <2> QED BY <1>2, <2>1, <2>2, <2>3
<1> QED BY <1>1, <1>6, <1>7, <1>8, OthersKeep DEF FanInv

-----------------------------------------------------------------------------
LEMMA FanBegins == FanInit => FanInv
<1> SUFFICES ASSUME FanInit PROVE FanInv
  OBVIOUS
<1>1. FanTypes
  BY DEF FanInit, FanTypes, Readers
<1>2. EventsTell
  BY DEF FanInit, EventsTell
<1>3. Completed(1, 0) = {} /\ Cardinality({}) = 0
  BY FS_EmptySet DEF Completed
<1>4. at["ws"] = 0 /\ at["completion"] = 0 /\ at["tray"] = 0
  BY DEF FanInit, Readers
<1>5. ClientInv
  BY <1>4 DEF FanInit, ClientInv, SubscribersAreServed
<1>6. ListenerInv
  <2>1. notified = <<>> /\ DOMAIN notified = {} /\ Len(notified) = 0
    BY DEF FanInit
  <2>2. Completed(1, at["completion"]) = {}
    BY <1>3, <1>4
  <2>3. IsInjective(notified)
    BY <2>1 DEF IsInjective
  <2> QED BY <1>3, <2>1, <2>2, <2>3 DEF ListenerInv, CompletionsReachScheduler
<1>7. RecentInv /\ IconInv
  <2>1. Completed(1, at["tray"]) = {} /\ 1..at["tray"] = {}
    BY <1>3, <1>4
  <2>2. trayRecent = <<>> /\ Len(trayRecent) = 0
    BY DEF FanInit
  <2>3. RecentInv
    <3>1. 0 = IF Cardinality({}) < MaxRecent THEN Cardinality({}) ELSE MaxRecent
      BY <1>3, FanoutAssumption
    <3> QED BY <2>1, <2>2, <3>1, Zenon DEF RecentInv
  <2> QED BY <2>1, <2>3 DEF IconInv
<1> QED BY <1>1, <1>2, <1>5, <1>6, <1>7 DEF FanInv

LEMMA FanInductive == FanInv /\ [Client \/ Listener \/ Tray]_fanVars => FanInv'
<1> SUFFICES ASSUME FanInv, [Client \/ Listener \/ Tray]_fanVars PROVE FanInv'
  OBVIOUS
<1>1. CASE UNCHANGED fanVars
  BY <1>1 DEF fanVars, FanInv, FanTypes, EventsTell, ClientInv, SubscribersAreServed, ListenerInv,
     CompletionsReachScheduler, Completed, RecentInv, IconInv
<1>2. "ws" \in Readers /\ "completion" \in Readers /\ "tray" \in Readers
  BY DEF Readers
<1> QED
  BY <1>1, <1>2, EmitStep, LagStep, ForwardStep, FilterStep, NotifyStep, ShowStep
  DEF Client, Listener, Tray

LEMMA FanAlways == FanSpec => []FanInv
  BY FanBegins, FanInductive, PTL DEF FanSpec

\* A WebSocket client gets events in order and once, and one that keeps up all
\* that belong to no run or to a run it has asked for, and nothing else of
\* the runs, however its subscriptions change meanwhile.
THEOREM SubscribersAreServedHolds == FanSpec => []SubscribersAreServed
<1>1. FanInv => SubscribersAreServed
  BY DEF FanInv, ClientInv
<1> QED BY <1>1, FanAlways, PTL

\* The scheduler is told of a completed run once, and by a listener that keeps
\* up of every one, in the order of their completion.
THEOREM CompletionsReachSchedulerHolds == FanSpec => []CompletionsReachScheduler
<1>1. FanInv => CompletionsReachScheduler
  BY DEF FanInv, ListenerInv
<1> QED BY <1>1, FanAlways, PTL

\* When every run has ended with a word, no event of a run follows the last
\* completion: the icon the tray shows is that of the last completed run.
LEMMA IconIsLast ==
  ASSUME FanInv, "tray" \notin ranAway, Behind("tray") = 0,
         \A r \in FanRuns : runAt[r] \in {"new", "ended"},
         NEW i \in Completed(1, at["tray"]), Cardinality(Completed(i, at["tray"])) = 1
  PROVE  trayIcon = IF events[i].type = "success" THEN "idle" ELSE "error"
<1> DEFINE c == at["tray"]
<1>1. /\ c \in Nat /\ c = Len(events) /\ DOMAIN events = 1..c /\ FanTypes /\ EventsTell
      /\ events \in Seq(EventType)
  BY DEF FanInv, FanTypes, Behind, Readers
<1>2. i \in 1..c /\ IsCompletion(events[i])
  BY DEF Completed
<1>3. Completed(i, c) = {i}
  <2>1. i \in Completed(i, c) /\ IsFiniteSet(Completed(i, c))
    BY <1>1, <1>2, Counting DEF Completed
  <2> QED BY <2>1, FS_Singleton
<1>4. \A j \in 1..c : j > i => ~IsCompletion(events[j])
  BY <1>1, <1>2, <1>3 DEF Completed
<1>5. ASSUME NEW j \in 1..c, j > i PROVE events[j].type = "backfill"
  <2>1. events[j] \in EventType /\ j \in DOMAIN events
    BY <1>1
  <2>2. events[j].type \notin {"started", "node_failed"}
    <3>1. SUFFICES ASSUME events[j].type \in {"started", "node_failed"} PROVE FALSE
      OBVIOUS
    <3>2. events[j].run \in FanRuns /\ runAt[events[j].run] = "ended"
      BY <1>1, <2>1, <3>1 DEF EventsTell
    <3>3. PICK l \in DOMAIN events : l > j /\ IsCompletion(events[l])
      BY <1>1, <2>1, <3>1, <3>2 DEF EventsTell
    <3>4. l \in 1..c /\ l > i
      BY <1>1, <1>2, <1>5, <3>3
    <3> QED BY <1>4, <3>3, <3>4
  <2> QED BY <1>4, <1>5, <2>1, <2>2 DEF EventType, IsCompletion
<1>6. events[i].type \in {"success", "failed"}
  BY <1>2 DEF IsCompletion
<1>7. trayIcon = IconOf(events[i].type)
  BY <1>2, <1>5, <1>6 DEF FanInv, IconInv
<1> QED BY <1>6, <1>7 DEF IconOf

\* A tray that keeps up lists the runs that completed last, newest first, and
\* once every run has ended with a word its icon tells how the last one did.
THEOREM TrayIsCurrentHolds == FanSpec => []TrayIsCurrent
<1>1. FanInv => TrayIsCurrent
  BY IconIsLast DEF FanInv, RecentInv, TrayIsCurrent
<1> QED BY <1>1, FanAlways, PTL

(* For any number of runs, any capacity and any speed of the readers, each *)
(* reader of the channel gets what it is there for: EventsArrive.          *)
THEOREM EventsArriveHolds == FanSpec => []EventsArrive
<1>1. SubscribersAreServed /\ CompletionsReachScheduler /\ TrayIsCurrent => EventsArrive
  BY DEF EventsArrive
<1> QED
  BY <1>1, SubscribersAreServedHolds, CompletionsReachSchedulerHolds, TrayIsCurrentHolds, PTL

-----------------------------------------------------------------------------
(* The secrets.  The process that wrote the salt is the only one that can  *)
(* still write the token; the timer of the session is what its callers are *)
(* promised; the queue of the limit is the end of the list of all tests.   *)

Keys == [salt : Procs, pw : Passwords]

SecTypes ==
  /\ vault \in [salt : Procs \cup {None}, check : Keys \cup {None},
                rows : [SecretNames \X Scopes -> {None} \cup [key : Keys, value : SecretTexts]]]
  /\ initOp \in [Procs -> {None} \cup [pw : Passwords, at : {"salt", "check"}]]
  /\ secSession \in {None} \cup [key : Keys, last : Nat]
  /\ secNow \in Nat /\ granted \in Nat /\ overused \in BOOLEAN
  /\ attempts \in Seq(Nat) /\ tested \in Seq(Nat)

(* One salt, whose process alone can still write the token; rows and the   *)
(* session under the key of the token.                                     *)
KeyInv ==
  /\ vault.check # None => vault.check.salt = vault.salt
  /\ vault.check = None =>
       secSession = None /\ \A r \in SecretNames \X Scopes : vault.rows[r] = None
  /\ secSession # None => secSession.key = vault.check
  /\ \A r \in SecretNames \X Scopes : vault.rows[r] # None => vault.rows[r].key = vault.check
  /\ \A p \in Procs : initOp[p] # None /\ initOp[p].at = "check" => vault.salt = p

(* The timer is what callers are promised.                                 *)
GrantInv ==
  /\ ~overused
  /\ secSession # None => granted = secSession.last + AutoLock

(* The queue holds the latest tests, all but those that are too old to     *)
(* matter.                                                                 *)
RateInv ==
  LET past == Len(tested) - Len(attempts) IN
  /\ past \in Nat
  /\ \A j \in 1..Len(attempts) : attempts[j] = tested[past + j]
  /\ \A i \in 1..past : secNow - tested[i] >= AttemptWindow
  /\ \A i \in DOMAIN tested :
       i + MaxAttempts \in DOMAIN tested => tested[i + MaxAttempts] - tested[i] >= AttemptWindow

SecInv == SecTypes /\ KeyInv /\ GrantInv /\ RateInv

-----------------------------------------------------------------------------
LEMMA FirstFresh ==
  ASSUME NEW queue \in Seq(Nat), secNow \in Nat
  PROVE  \E k \in 1..(Len(queue) + 1) :
           /\ \A i \in 1..(k - 1) : ~IsFresh(queue[i])
           /\ k <= Len(queue) => IsFresh(queue[k])
<1> DEFINE T == {k \in 1..(Len(queue) + 1) : k <= Len(queue) => IsFresh(queue[k])}
<1>1. Len(queue) \in Nat /\ Len(queue) + 1 \in T /\ T \subseteq Nat
  OBVIOUS
<1>2. PICK k \in T : \A n \in T : ~ (<<n, k>> \in OpToRel(<, Nat))
  <2>1. T # {} /\ T \subseteq Nat
    BY <1>1
  <2> HIDE DEF T
  <2> QED BY <2>1, NatLessThanWellFounded, WFMin, Zenon
<1>3. \A n \in T : ~ (n < k)
  BY <1>1, <1>2 DEF OpToRel
<1>4. \A i \in 1..(k - 1) : ~IsFresh(queue[i])
  BY <1>1, <1>3
<1> QED BY <1>4

LEMMA Pruning ==
  ASSUME NEW queue \in Seq(Nat), secNow \in Nat
  PROVE  \E gone \in 0..Len(queue) :
           /\ Pruned(queue) \in Seq(Nat) /\ Len(Pruned(queue)) = Len(queue) - gone
           /\ \A j \in 1..(Len(queue) - gone) : Pruned(queue)[j] = queue[gone + j]
           /\ \A i \in 1..gone : secNow - queue[i] >= AttemptWindow
<1> DEFINE P(k) == /\ \A i \in 1..(k - 1) : ~IsFresh(queue[i])
                   /\ k <= Len(queue) => IsFresh(queue[k])
           first == CHOOSE k \in 1..(Len(queue) + 1) : P(k)
<1>1. first \in 1..(Len(queue) + 1) /\ P(first)
  BY FirstFresh
<1>2. Pruned(queue) = SubSeq(queue, first, Len(queue))
  BY DEF Pruned
<1> HIDE DEF first
<1>3. /\ SubSeq(queue, first, Len(queue)) \in Seq(Nat)
      /\ Len(SubSeq(queue, first, Len(queue))) = Len(queue) - (first - 1)
      /\ \A j \in 1..(Len(queue) - (first - 1)) :
           SubSeq(queue, first, Len(queue))[j] = queue[(first - 1) + j]
  BY <1>1
<1>4. \A i \in 1..(first - 1) : secNow - queue[i] >= AttemptWindow
  <2>1. SUFFICES ASSUME NEW i \in 1..(first - 1) PROVE secNow - queue[i] >= AttemptWindow
    OBVIOUS
  <2>2. ~IsFresh(queue[i]) /\ queue[i] \in Nat
    BY <1>1, <2>1
  <2> QED BY <2>2, SecretsAssumption DEF IsFresh
<1>5. first - 1 \in 0..Len(queue)
  BY <1>1
<1> QED BY <1>2, <1>3, <1>4, <1>5

LEMMA SecStart == SecInit => SecInv
<1> SUFFICES ASSUME SecInit PROVE SecInv
  OBVIOUS
<1>1. SecTypes
  <2>1. vault \in [salt : Procs \cup {None}, check : Keys \cup {None},
                  rows : [SecretNames \X Scopes -> {None} \cup [key : Keys, value : SecretTexts]]]
    BY DEF SecInit
  <2>2. initOp \in [Procs -> {None} \cup [pw : Passwords, at : {"salt", "check"}]]
    BY DEF SecInit
  <2>3. <<>> \in Seq(Nat) /\ 0 \in Nat /\ FALSE \in BOOLEAN
    OBVIOUS
  <2>4. /\ secSession \in {None} \cup [key : Keys, last : Nat]
        /\ secNow \in Nat /\ granted \in Nat /\ overused \in BOOLEAN
        /\ attempts \in Seq(Nat) /\ tested \in Seq(Nat)
    BY <2>3 DEF SecInit
  <2> QED BY <2>1, <2>2, <2>4 DEF SecTypes
<1>2. KeyInv
  BY DEF SecInit, KeyInv
<1>3. GrantInv
  BY DEF SecInit, GrantInv
<1>4. RateInv
  BY DEF SecInit, RateInv
<1> QED BY <1>1, <1>2, <1>3, <1>4 DEF SecInv

(* What a step keeps when it leaves alone what the invariant reads.        *)
LEMMA KeysKept ==
  ASSUME KeyInv, UNCHANGED <<vault, initOp, secSession>>
  PROVE  KeyInv'
BY DEF KeyInv

LEMMA RateKept ==
  ASSUME RateInv, UNCHANGED <<tested, attempts, secNow>>
  PROVE  RateInv'
BY DEF RateInv

LEMMA GrantKept ==
  ASSUME GrantInv, UNCHANGED <<overused, secSession, granted>>
  PROVE  GrantInv'
BY DEF GrantInv

(* A row is written with the key of the token, or removed.                 *)
LEMMA RowWritten ==
  ASSUME SecTypes, KeyInv, NEW entry \in {None} \cup [key : Keys, value : SecretTexts],
         entry # None => vault.check # None /\ entry.key = vault.check,
         WriteRow(entry), UNCHANGED initOp, secSession' # None => secSession' = secSession \/
           (secSession # None /\ secSession'.key = secSession.key)
  PROVE  /\ vault' \in [salt : Procs \cup {None}, check : Keys \cup {None},
                         rows : [SecretNames \X Scopes -> {None} \cup [key : Keys, value : SecretTexts]]]
         /\ KeyInv'
<1>1. PICK n \in SecretNames, s \in Scopes : vault' = [vault EXCEPT !.rows[<<n, s>>] = entry]
  BY DEF WriteRow
<1>2. /\ vault'.salt = vault.salt /\ vault'.check = vault.check
      /\ vault'.rows = [vault.rows EXCEPT ![<<n, s>>] = entry]
  BY <1>1 DEF SecTypes
<1>3. vault' \in [salt : Procs \cup {None}, check : Keys \cup {None},
                  rows : [SecretNames \X Scopes -> {None} \cup [key : Keys, value : SecretTexts]]]
  BY <1>1 DEF SecTypes
<1>4. \A r \in SecretNames \X Scopes :
        vault'.rows[r] = IF r = <<n, s>> THEN entry ELSE vault.rows[r]
  BY <1>2 DEF SecTypes
<1>5. KeyInv'
  BY <1>2, <1>4 DEF KeyInv
<1> QED BY <1>3, <1>5

(* get_store: the timer that is restarted is the one callers were promised. *)
LEMMA StoreGot ==
  ASSUME SecTypes, GrantInv, GetStore
  PROVE  /\ secSession' \in {None} \cup [key : Keys, last : Nat]
         /\ granted' \in Nat /\ overused' \in BOOLEAN /\ GrantInv'
         /\ secSession' # None => secSession # None /\ secSession'.key = secSession.key
<1>1. CASE IsUnlocked
  <2>1. secSession # None /\ secSession \in [key : Keys, last : Nat]
    BY <1>1 DEF IsUnlocked, SecTypes
  <2>2. /\ secSession' = [secSession EXCEPT !.last = secNow]
        /\ granted' = secNow + AutoLock /\ overused' = (overused \/ secNow >= granted)
    BY <1>1 DEF GetStore
  <2>3. secSession'.key = secSession.key /\ secSession'.last = secNow
        /\ secSession' \in [key : Keys, last : Nat]
    BY <2>1, <2>2 DEF SecTypes
  <2>4. secNow < granted
    BY <1>1, <2>1, SecretsAssumption DEF GrantInv, IsUnlocked, SecTypes
  <2>5. ~overused'
    <3>1. ~(secNow >= granted)
      BY <2>4 DEF SecTypes
    <3> QED BY <2>2, <3>1 DEF GrantInv
  <2>6. granted' \in Nat
    BY <2>2, SecretsAssumption DEF SecTypes
  <2> QED BY <2>1, <2>2, <2>3, <2>5, <2>6 DEF GrantInv
<1>2. CASE ~IsUnlocked
  <2>1. secSession' = None /\ UNCHANGED <<granted, overused>>
    BY <1>2 DEF GetStore
  <2> QED BY <2>1 DEF SecTypes, GrantInv
<1> QED BY <1>1, <1>2

-----------------------------------------------------------------------------
LEMMA SecBegin ==
  ASSUME SecInv, NEW p \in Procs, NEW pw \in Passwords, BeginInit(p, pw)
  PROVE  SecInv'
<1>1. /\ initOp' = [initOp EXCEPT ![p] = [pw |-> pw, at |-> "salt"]]
      /\ UNCHANGED <<vault, secSession, attempts, secNow, tested, granted, overused>>
  BY DEF BeginInit
<1>2. SecTypes'
  BY <1>1 DEF SecInv, SecTypes
<1>3. KeyInv'
  BY <1>1 DEF SecInv, SecTypes, KeyInv
<1>4. GrantInv' /\ RateInv'
  BY <1>1, GrantKept, RateKept DEF SecInv
<1> QED BY <1>2, <1>3, <1>4 DEF SecInv

LEMMA SecSalt ==
  ASSUME SecInv, NEW p \in Procs, InsertSalt(p)
  PROVE  SecInv'
<1>1. UNCHANGED <<secSession, attempts, secNow, tested, granted, overused>>
  BY DEF InsertSalt
<1>2. GrantInv' /\ RateInv'
  BY <1>1, GrantKept, RateKept DEF SecInv
<1>3. CASE IsInitialized
  <2>1. vault' = vault /\ initOp' = [initOp EXCEPT ![p] = None]
    BY <1>3 DEF InsertSalt
  <2>2. SecTypes'
    BY <1>1, <2>1 DEF SecInv, SecTypes
  <2>3. KeyInv'
    BY <1>1, <2>1 DEF SecInv, SecTypes, KeyInv
  <2> QED BY <1>2, <2>2, <2>3 DEF SecInv
<1>4. CASE ~IsInitialized
  <2>1. /\ vault' = [vault EXCEPT !.salt = p] /\ initOp' = [initOp EXCEPT ![p].at = "check"]
        /\ initOp[p] # None /\ vault.salt = None
    BY <1>4 DEF InsertSalt, IsInitialized
  <2>2. SecTypes'
    BY <1>1, <2>1 DEF SecInv, SecTypes
  <2>3. /\ vault'.salt = p /\ vault'.check = vault.check /\ vault'.rows = vault.rows
        /\ vault.check = None
    <3>1. vault.check # None => vault.check \in Keys /\ vault.check.salt = None
      BY <2>1 DEF SecInv, SecTypes, KeyInv
    <3> QED BY <2>1, <3>1, SecretsAssumption DEF SecInv, SecTypes, Keys
  <2>4. \A q \in Procs : initOp'[q] # None /\ initOp'[q].at = "check" => q = p
    BY <2>1, SecretsAssumption DEF SecInv, SecTypes, KeyInv
  <2>5. KeyInv'
    BY <1>1, <2>3, <2>4 DEF SecInv, KeyInv
  <2> QED BY <1>2, <2>2, <2>5 DEF SecInv
<1> QED BY <1>3, <1>4

LEMMA SecCheck ==
  ASSUME SecInv, NEW p \in Procs, InsertCheck(p)
  PROVE  SecInv'
<1> DEFINE key == [salt |-> p, pw |-> initOp[p].pw]
<1>1. /\ initOp[p] # None /\ initOp[p].at = "check" /\ initOp' = [initOp EXCEPT ![p] = None]
      /\ vault' = IF vault.check = None THEN [vault EXCEPT !.check = key] ELSE vault
      /\ UNCHANGED <<attempts, secNow, tested, overused>>
  BY DEF InsertCheck
<1>2. vault.salt = p /\ key \in Keys
  BY <1>1 DEF SecInv, SecTypes, KeyInv, Keys
<1>3. IF p = "api" /\ vault.check = None
      THEN secSession' = [key |-> key, last |-> secNow] /\ granted' = secNow + AutoLock
      ELSE UNCHANGED <<secSession, granted>>
  BY DEF InsertCheck
<1> HIDE DEF key
<1>4. key # None
  BY <1>2, SecretsAssumption DEF Keys
<1>5. SecTypes'
  <2>1. vault' \in [salt : Procs \cup {None}, check : Keys \cup {None},
                   rows : [SecretNames \X Scopes -> {None} \cup [key : Keys, value : SecretTexts]]]
    BY <1>1, <1>2 DEF SecInv, SecTypes
  <2>2. initOp' \in [Procs -> {None} \cup [pw : Passwords, at : {"salt", "check"}]]
    BY <1>1 DEF SecInv, SecTypes
  <2>3. secSession' \in {None} \cup [key : Keys, last : Nat] /\ granted' \in Nat
    BY <1>2, <1>3, SecretsAssumption DEF SecInv, SecTypes
  <2> QED BY <1>1, <2>1, <2>2, <2>3 DEF SecInv, SecTypes
<1>6. KeyInv'
  <2>1. \A q \in Procs : initOp'[q] # None => initOp'[q] = initOp[q]
    BY <1>1 DEF SecInv, SecTypes
  <2>2. CASE vault.check = None
    <3>1. vault'.salt = p /\ vault'.check = key /\ vault'.rows = vault.rows
      BY <1>1, <1>2, <2>2 DEF SecInv, SecTypes
    <3>2. key.salt = p
      BY DEF key
    <3>3. secSession' # None => secSession'.key = key
      BY <1>3, <2>2 DEF SecInv, KeyInv
    <3> QED BY <1>2, <1>4, <2>1, <2>2, <3>1, <3>2, <3>3 DEF SecInv, KeyInv
  <2>3. CASE vault.check # None
    BY <1>1, <1>3, <2>1, <2>3 DEF SecInv, KeyInv
  <2> QED BY <2>2, <2>3
<1>7. GrantInv'
  BY <1>1, <1>3 DEF SecInv, GrantInv
<1>8. RateInv'
  BY <1>1, RateKept DEF SecInv
<1> QED BY <1>5, <1>6, <1>7, <1>8 DEF SecInv

(* A process that dies forgets what it was writing; a server also its      *)
(* queue, its tests and its session.                                       *)
LEMMA SecRestart ==
  ASSUME SecInv, Restart
  PROVE  SecInv'
<1>1. PICK p \in Procs :
        /\ initOp' = [initOp EXCEPT ![p] = None]
        /\ IF p = "cli" THEN UNCHANGED <<secSession, attempts, tested, granted>>
           ELSE /\ \E pw \in Passwords \cup {None} :
                     LET open == pw # None /\ Opens(pw) IN
                     /\ secSession' = IF open THEN [key |-> Key(pw), last |-> secNow] ELSE None
                     /\ granted' = IF open THEN secNow + AutoLock ELSE 0
                /\ attempts' = <<>> /\ tested' = <<>>
  BY DEF Restart
<1>2. UNCHANGED <<vault, secNow, overused>>
  BY DEF Restart
<1>3. /\ initOp' \in [Procs -> {None} \cup [pw : Passwords, at : {"salt", "check"}]]
      /\ \A q \in Procs : initOp'[q] # None => initOp'[q] = initOp[q]
  BY <1>1 DEF SecInv, SecTypes
<1>4. CASE p = "cli"
  <2>1. UNCHANGED <<secSession, attempts, tested, granted>>
    BY <1>1, <1>4
  <2>2. SecTypes' /\ KeyInv'
    BY <1>2, <1>3, <2>1 DEF SecInv, SecTypes, KeyInv
  <2> QED BY <1>2, <2>1, <2>2, GrantKept, RateKept DEF SecInv
<1>5. CASE p # "cli"
  <2>1. attempts' = <<>> /\ tested' = <<>>
    BY <1>1, <1>5
  <2>2. \/ secSession' = None /\ granted' = 0
        \/ \E pw \in Passwords : Opens(pw) /\ secSession' = [key |-> Key(pw), last |-> secNow]
                                 /\ granted' = secNow + AutoLock
    BY <1>1, <1>5
  <2>3. /\ secSession' \in {None} \cup [key : Keys, last : Nat] /\ granted' \in Nat
        /\ secSession' # None => /\ vault.check # None /\ secSession'.key = vault.check
                                 /\ granted' = secSession'.last + AutoLock
    BY <2>2, SecretsAssumption DEF SecInv, SecTypes, Opens
  <2>4. SecTypes'
    BY <1>2, <1>3, <2>1, <2>3 DEF SecInv, SecTypes
  <2>5. KeyInv'
    BY <1>2, <1>3, <2>3 DEF SecInv, KeyInv
  <2>6. GrantInv'
    BY <1>2, <2>3 DEF SecInv, GrantInv
  <2>7. RateInv'
    BY <2>1 DEF RateInv
  <2> QED BY <2>4, <2>5, <2>6, <2>7 DEF SecInv
<1> QED BY <1>4, <1>5

(* A test of a password: MaxAttempts tests ago is one that has left the    *)
(* queue, so it is an AttemptWindow old.                                   *)
LEMMA SecUnlock ==
  ASSUME SecInv, NEW pw \in Passwords, Unlock(pw)
  PROVE  SecInv'
<1>1. UNCHANGED <<vault, initOp, secNow, overused>>
  BY DEF Unlock
<1>2. \/ Len(Pruned(attempts)) >= MaxAttempts /\ attempts' = Pruned(attempts)
        /\ UNCHANGED <<secSession, tested, granted>>
      \/ /\ ~(Len(Pruned(attempts)) >= MaxAttempts)
         /\ attempts' = Append(Pruned(attempts), secNow) /\ tested' = Append(tested, secNow)
         /\ IF Opens(pw)
            THEN secSession' = [key |-> Key(pw), last |-> secNow] /\ granted' = secNow + AutoLock
            ELSE UNCHANGED <<secSession, granted>>
  BY DEF Unlock
<1>3. PICK gone \in 0..Len(attempts) :
        /\ Pruned(attempts) \in Seq(Nat) /\ Len(Pruned(attempts)) = Len(attempts) - gone
        /\ \A j \in 1..(Len(attempts) - gone) : Pruned(attempts)[j] = attempts[gone + j]
        /\ \A i \in 1..gone : secNow - attempts[i] >= AttemptWindow
  BY Pruning DEF SecInv, SecTypes
<1> DEFINE past == Len(tested) - Len(attempts)
           kept == Pruned(attempts)
<1>4. /\ attempts \in Seq(Nat) /\ tested \in Seq(Nat) /\ kept \in Seq(Nat) /\ secNow \in Nat
      /\ past \in Nat /\ past + gone \in Nat /\ Len(tested) - Len(kept) = past + gone
      /\ \A j \in 1..Len(kept) : kept[j] = tested[past + gone + j]
      /\ \A i \in 1..(past + gone) : secNow - tested[i] >= AttemptWindow
  <2>1. /\ attempts \in Seq(Nat) /\ tested \in Seq(Nat) /\ secNow \in Nat
        /\ Len(attempts) \in Nat /\ Len(tested) \in Nat
    BY DEF SecInv, SecTypes
  <2>2. /\ past \in Nat /\ \A j \in 1..Len(attempts) : attempts[j] = tested[past + j]
        /\ \A i \in 1..past : secNow - tested[i] >= AttemptWindow
    BY DEF SecInv, RateInv
  <2>3. past + gone \in Nat /\ Len(tested) - Len(kept) = past + gone /\ Len(kept) \in Nat
    BY <1>3, <2>1, <2>2
  <2>4. ASSUME NEW j \in 1..Len(kept) PROVE kept[j] = tested[past + gone + j]
    <3>1. j \in 1..(Len(attempts) - gone) /\ gone + j \in 1..Len(attempts)
      BY <1>3, <2>1
    <3>2. kept[j] = attempts[gone + j] /\ attempts[gone + j] = tested[past + (gone + j)]
      BY <1>3, <2>2, <3>1
    <3> HIDE DEF past, kept
    <3>3. past + (gone + j) = past + gone + j
      BY <2>2
    <3> QED BY <3>2, <3>3
  <2>5. ASSUME NEW i \in 1..(past + gone) PROVE secNow - tested[i] >= AttemptWindow
    <3>1. CASE i \in 1..past
      BY <2>2, <3>1
    <3>2. CASE i \notin 1..past
      <4>1. i - past \in 1..gone /\ i - past \in 1..Len(attempts) /\ past + (i - past) = i
        BY <2>1, <2>2, <2>5, <3>2
      <4>2. attempts[i - past] = tested[i] /\ secNow - attempts[i - past] >= AttemptWindow
        BY <1>3, <2>2, <4>1
      <4> QED BY <4>2
    <3> QED BY <3>1, <3>2
  <2> QED BY <1>3, <2>1, <2>2, <2>3, <2>4, <2>5
<1>5. \A i \in DOMAIN tested :
        i + MaxAttempts \in DOMAIN tested => tested[i + MaxAttempts] - tested[i] >= AttemptWindow
  BY DEF SecInv, RateInv
<1> HIDE DEF kept, past
<1>6. attempts' \in Seq(Nat) /\ tested' \in Seq(Nat)
  <2>1. Append(kept, secNow) \in Seq(Nat) /\ Append(tested, secNow) \in Seq(Nat)
    BY <1>4
  <2>2. attempts' \in {kept, Append(kept, secNow)} /\ tested' \in {tested, Append(tested, secNow)}
    BY <1>2 DEF kept
  <2> QED BY <1>4, <2>1, <2>2
<1>7. RateInv'
  <2>1. CASE Len(kept) >= MaxAttempts
    <3>1. attempts' = kept /\ tested' = tested /\ secNow' = secNow
      BY <1>1, <1>2, <2>1 DEF kept
    <3> QED BY <1>4, <1>5, <3>1 DEF RateInv
  <2>2. CASE ~(Len(kept) >= MaxAttempts)
    <3>1. attempts' = Append(kept, secNow) /\ tested' = Append(tested, secNow) /\ secNow' = secNow
      BY <1>1, <1>2, <2>2 DEF kept
    <3>2. /\ Len(attempts') = Len(kept) + 1 /\ Len(tested') = Len(tested) + 1
          /\ \A j \in 1..Len(kept) : attempts'[j] = kept[j]
          /\ attempts'[Len(kept) + 1] = secNow /\ tested'[Len(tested) + 1] = secNow
          /\ \A j \in 1..Len(tested) : tested'[j] = tested[j]
          /\ DOMAIN tested' = 1..(Len(tested) + 1) /\ DOMAIN tested = 1..Len(tested)
          /\ Len(kept) \in Nat /\ Len(tested) \in Nat
      BY <1>4, <3>1
    <3>3. Len(tested') - Len(attempts') = past + gone
      <4>1. (Len(tested) + 1) - (Len(kept) + 1) = Len(tested) - Len(kept)
        BY <3>2
      <4> QED BY <1>4, <3>2, <4>1
    <3>4. ASSUME NEW j \in 1..Len(attempts') PROVE attempts'[j] = tested'[past + gone + j]
      <4>1. CASE j \in 1..Len(kept)
        <5>1. past + gone + j \in 1..Len(tested)
          BY <1>4, <3>2, <4>1
        <5> QED BY <1>4, <3>2, <4>1, <5>1
      <4>2. CASE j \notin 1..Len(kept)
        <5>1. j = Len(kept) + 1 /\ past + gone + j = Len(tested) + 1
          BY <1>4, <3>2, <4>2
        <5> QED BY <3>2, <5>1
      <4> QED BY <4>1, <4>2
    <3>5. ASSUME NEW i \in 1..(past + gone) PROVE secNow' - tested'[i] >= AttemptWindow
      <4>1. i \in 1..Len(tested)
        BY <1>4, <3>2
      <4> QED BY <1>4, <3>1, <3>2, <4>1
    <3>6. ASSUME NEW i \in DOMAIN tested', i + MaxAttempts \in DOMAIN tested'
          PROVE  tested'[i + MaxAttempts] - tested'[i] >= AttemptWindow
      <4>0. MaxAttempts \in Nat /\ MaxAttempts # 0
        BY <2>2, <3>2, SecretsAssumption
      <4>1. CASE i + MaxAttempts \in DOMAIN tested
        <5>1. i \in DOMAIN tested
          BY <3>2, <3>6, <4>0, <4>1
        <5> QED BY <1>5, <3>2, <4>1, <5>1
      <4>2. CASE i + MaxAttempts \notin DOMAIN tested
        <5>1. i + MaxAttempts = Len(tested) + 1
          BY <3>2, <3>6, <4>0, <4>2
        <5>2. i \in 1..(past + gone)
          BY <1>4, <2>2, <3>2, <3>6, <4>0, <5>1
        <5> QED BY <3>1, <3>2, <3>5, <5>1, <5>2
      <4> QED BY <4>1, <4>2
    <3> QED BY <1>4, <3>3, <3>4, <3>5, <3>6 DEF RateInv
  <2> QED BY <2>1, <2>2
<1>8. /\ secSession' \in {None} \cup [key : Keys, last : Nat] /\ granted' \in Nat
      /\ \/ UNCHANGED <<secSession, granted>>
         \/ /\ vault.check # None /\ secSession'.key = vault.check
            /\ granted' = secSession'.last + AutoLock
  <2>1. CASE UNCHANGED <<secSession, granted>>
    BY <2>1 DEF SecInv, SecTypes
  <2>2. CASE ~ UNCHANGED <<secSession, granted>>
    <3>1. Opens(pw) /\ secSession' = [key |-> Key(pw), last |-> secNow] /\ granted' = secNow + AutoLock
      BY <1>2, <2>2
    <3>2. vault.check # None /\ Key(pw) = vault.check /\ vault.check \in Keys
      BY <3>1 DEF Opens, SecInv, SecTypes
    <3> QED BY <1>4, <3>1, <3>2, SecretsAssumption
  <2> QED BY <2>1, <2>2
<1>9. SecTypes'
  BY <1>1, <1>6, <1>8 DEF SecInv, SecTypes
<1>10. KeyInv'
  BY <1>1, <1>8 DEF SecInv, KeyInv
<1>11. GrantInv'
  BY <1>1, <1>8 DEF SecInv, GrantInv
<1> QED BY <1>7, <1>9, <1>10, <1>11 DEF SecInv

LEMMA SecLock ==
  ASSUME SecInv, Lock
  PROVE  SecInv'
<1>1. /\ secSession' = None /\ granted' = 0
      /\ UNCHANGED <<vault, initOp, attempts, secNow, tested, overused>>
  BY DEF Lock
<1>2. SecTypes' /\ KeyInv' /\ GrantInv'
  BY <1>1 DEF SecInv, SecTypes, KeyInv, GrantInv
<1> QED BY <1>1, <1>2, RateKept DEF SecInv

LEMMA SecApiWrite ==
  ASSUME SecInv, ApiWrite
  PROVE  SecInv'
<1>1. /\ GetStore
      /\ IF IsUnlocked
         THEN \E v \in SecretTexts \cup {None} :
                WriteRow(IF v = None THEN None ELSE Stored(secSession.key, v))
         ELSE vault' = vault
      /\ UNCHANGED <<initOp, attempts, secNow, tested>>
  BY DEF ApiWrite
<1>2. /\ secSession' \in {None} \cup [key : Keys, last : Nat]
      /\ granted' \in Nat /\ overused' \in BOOLEAN /\ GrantInv'
      /\ secSession' # None => secSession # None /\ secSession'.key = secSession.key
  BY <1>1, StoreGot DEF SecInv
<1>3. /\ vault' \in [salt : Procs \cup {None}, check : Keys \cup {None},
                     rows : [SecretNames \X Scopes -> {None} \cup [key : Keys, value : SecretTexts]]]
      /\ KeyInv'
  <2>1. CASE IsUnlocked
    <3>1. secSession # None /\ vault.check # None /\ secSession.key = vault.check /\ secSession.key \in Keys
      BY <2>1 DEF IsUnlocked, SecInv, SecTypes, KeyInv
    <3>2. PICK v \in SecretTexts \cup {None} : WriteRow(IF v = None THEN None ELSE Stored(secSession.key, v))
      BY <1>1, <2>1
    <3> DEFINE entry == IF v = None THEN None ELSE Stored(secSession.key, v)
    <3>3. entry \in {None} \cup [key : Keys, value : SecretTexts] /\ (entry # None => entry.key = vault.check)
      BY <3>1 DEF Stored
    <3>4. WriteRow(entry)
      BY <3>2
    <3> HIDE DEF entry
    <3> QED BY <1>1, <1>2, <3>1, <3>3, <3>4, RowWritten DEF SecInv
  <2>2. CASE ~IsUnlocked
    <3>1. vault' = vault
      BY <1>1, <2>2
    <3> QED BY <1>1, <1>2, <3>1 DEF SecInv, SecTypes, KeyInv
  <2> QED BY <2>1, <2>2
<1>4. SecTypes'
  BY <1>1, <1>2, <1>3 DEF SecInv, SecTypes
<1> QED BY <1>1, <1>2, <1>3, <1>4, RateKept DEF SecInv

LEMMA SecCliWrite ==
  ASSUME SecInv, CliWrite
  PROVE  SecInv'
<1>1. UNCHANGED <<initOp, secSession, attempts, secNow, tested, granted, overused>>
  BY DEF CliWrite
<1>2. PICK pw \in Passwords, v \in SecretTexts \cup {None} :
        Opens(pw) /\ WriteRow(IF v = None THEN None ELSE Stored(Key(pw), v))
  BY DEF CliWrite
<1> DEFINE entry == IF v = None THEN None ELSE Stored(Key(pw), v)
<1>3. vault.check # None /\ Key(pw) = vault.check /\ vault.check \in Keys
  BY <1>2 DEF Opens, SecInv, SecTypes
<1>4. entry \in {None} \cup [key : Keys, value : SecretTexts] /\ (entry # None => entry.key = vault.check)
  BY <1>3 DEF Stored
<1>5. WriteRow(entry)
  BY <1>2
<1> HIDE DEF entry
<1>6. /\ vault' \in [salt : Procs \cup {None}, check : Keys \cup {None},
                     rows : [SecretNames \X Scopes -> {None} \cup [key : Keys, value : SecretTexts]]]
      /\ KeyInv'
  BY <1>1, <1>3, <1>4, <1>5, RowWritten DEF SecInv
<1>7. SecTypes'
  BY <1>1, <1>6 DEF SecInv, SecTypes
<1> QED BY <1>1, <1>6, <1>7, RateKept, GrantKept DEF SecInv

LEMMA SecTick ==
  ASSUME SecInv, TimePasses
  PROVE  SecInv'
<1>1. /\ secNow' = secNow + 1
      /\ UNCHANGED <<vault, initOp, secSession, attempts, tested, granted, overused>>
  BY DEF TimePasses
<1>2. SecTypes'
  BY <1>1 DEF SecInv, SecTypes
<1>3. KeyInv' /\ GrantInv'
  BY <1>1, KeysKept, GrantKept DEF SecInv
<1>4. RateInv'
  <2>1. /\ secNow \in Nat /\ Len(tested) - Len(attempts) \in Nat
        /\ \A i \in 1..(Len(tested) - Len(attempts)) : tested[i] \in Nat /\ secNow - tested[i] >= AttemptWindow
    <3>1. Len(tested) \in Nat /\ Len(attempts) \in Nat /\ tested \in Seq(Nat)
      BY DEF SecInv, SecTypes
    <3> QED BY <3>1 DEF SecInv, SecTypes, RateInv
  <2>2. \A i \in 1..(Len(tested) - Len(attempts)) : secNow' - tested[i] >= AttemptWindow
    BY <1>1, <2>1, SecretsAssumption
  <2> QED BY <1>1, <2>2 DEF SecInv, RateInv
<1> QED BY <1>2, <1>3, <1>4 DEF SecInv

(* A run reads the store through get_store, and writes nothing.            *)
LEMMA SecResolve ==
  ASSUME SecInv, ResolveNode
  PROVE  SecInv'
<1>1. /\ UNCHANGED <<vault, initOp, attempts, secNow, tested>>
      /\ GetStore \/ UNCHANGED <<secSession, granted, overused>>
  BY DEF ResolveNode
<1>2. /\ secSession' \in {None} \cup [key : Keys, last : Nat]
      /\ granted' \in Nat /\ overused' \in BOOLEAN /\ GrantInv'
      /\ secSession' # None => secSession # None /\ secSession'.key = secSession.key
  <2>1. CASE GetStore
    BY <2>1, StoreGot DEF SecInv
  <2>2. CASE UNCHANGED <<secSession, granted, overused>>
    BY <2>2, GrantKept DEF SecInv, SecTypes
  <2> QED BY <1>1, <2>1, <2>2
<1>3. SecTypes'
  BY <1>1, <1>2 DEF SecInv, SecTypes
<1>4. KeyInv'
  BY <1>1, <1>2 DEF SecInv, KeyInv
<1> QED BY <1>1, <1>2, <1>3, <1>4, RateKept DEF SecInv

LEMMA SecInductive == SecInv /\ [Session \/ SecretRun]_secVars => SecInv'
<1> SUFFICES ASSUME SecInv, [Session \/ SecretRun]_secVars PROVE SecInv'
  OBVIOUS
<1> DEFINE Idle == UNCHANGED <<vault, initOp, secSession, attempts, secNow, tested, granted, overused>>
<1>1. CASE Idle
  <2>1. SecTypes'
    BY <1>1 DEF SecInv, SecTypes
  <2> QED BY <1>1, <2>1, KeysKept, RateKept, GrantKept DEF SecInv
<1>2. CASE Session
  BY <1>2, SecBegin, SecSalt, SecCheck, SecRestart, SecUnlock, SecLock, SecApiWrite, SecCliWrite,
     SecTick DEF Session
<1>3. CASE StartSecretRun \/ FinishNode
  <2>1. Idle
    BY <1>3 DEF StartSecretRun, FinishNode
  <2> QED BY <1>1, <2>1
<1>4. CASE ResolveNode
  BY <1>4, SecResolve
<1>5. CASE UNCHANGED secVars
  <2>1. Idle
    BY <1>5 DEF secVars
  <2> QED BY <1>1, <2>1
<1> QED BY <1>2, <1>3, <1>4, <1>5 DEF SecretRun

LEMMA SecAlways == SecSpec => []SecInv
BY SecStart, SecInductive, PTL DEF SecSpec

(* For every number of processes' requests, any passwords, rows, windows   *)
(* and limits: the store is only used within AutoLock of a correct         *)
(* password or a use, no AttemptWindow sees more than MaxAttempts tests.   *)
THEOREM SessionIsGuardedHolds == SecSpec => []SessionIsGuarded
<1>1. SecInv => SessionIsGuarded
  BY DEF SecInv, GrantInv, RateInv, SessionIsGuarded
<1> QED BY <1>1, SecAlways, PTL

(* Likewise everything in the store is encrypted with the one key its      *)
(* token verifies, whoever initialised it and wherever one died meanwhile. *)
THEOREM OneKeyHolds == SecSpec => []OneKey
<1>1. SecInv => OneKey
  <2> SUFFICES ASSUME SecInv PROVE OneKey
    OBVIOUS
  <2>1. DOMAIN vault.rows = SecretNames \X Scopes
    BY DEF SecInv, SecTypes
  <2> QED BY <2>1 DEF SecInv, KeyInv, OneKey
<1> QED BY <1>1, SecAlways, PTL
(* The server's session and its store together: SecretsAreSafe.            *)
THEOREM SecretsAreSafeHolds == SecSpec => []SecretsAreSafe
<1>1. SessionIsGuarded /\ OneKey => SecretsAreSafe
  BY DEF SecretsAreSafe
<1> QED BY <1>1, SessionIsGuardedHolds, OneKeyHolds, PTL

-----------------------------------------------------------------------------
(* Plugins.  What holds of a registry whatever is installed in it.         *)
RegistryInv(reg) ==
  /\ \A n \in DOMAIN reg.plugins : reg.plugins[n].status = "ok" =>
       \A t \in reg.plugins[n].sinks : t \in DOMAIN reg.index /\ reg.index[t] = n
  /\ \A t \in DOMAIN reg.index : reg.index[t] \in DOMAIN reg.plugins
  /\ ~reg.displaced => \A t \in DOMAIN reg.index :
       reg.plugins[reg.index[t]].status = "ok" /\ t \in reg.plugins[reg.index[t]].sinks

(* A registry is a record of its plugins, their index and the mark.        *)
IsRegistry(reg) ==
  \E ps, ix, d : reg = [plugins |-> ps, index |-> ix, displaced |-> d] /\ d \in BOOLEAN

LEMMA EmptyIsSound == RegistryInv(EmptyRegistry) /\ IsRegistry(EmptyRegistry)
BY DEF RegistryInv, IsRegistry, EmptyRegistry, Nothing

LEMMA InstallIsSound ==
  ASSUME NEW reg, RegistryInv(reg), IsRegistry(reg), NEW p, NEW q, q = Install(reg, p)
  PROVE  /\ RegistryInv(q) /\ IsRegistry(q)
         /\ DOMAIN q.plugins = DOMAIN reg.plugins \cup {p.name}
         /\ \A n \in DOMAIN reg.plugins \ {p.name} : q.plugins[n] = reg.plugins[n]
         /\ q.plugins[p.name] = p \/ q.plugins[p.name] = [p EXCEPT !.status = "invalid"]
<1>1. PICK ps, ix, d : reg = [plugins |-> ps, index |-> ix, displaced |-> d] /\ d \in BOOLEAN
  BY DEF IsRegistry
<1>2. CASE Collides(reg, p)
  <2>1. PICK bad : bad = [p EXCEPT !.status = "invalid"]
    OBVIOUS
  <2>2. PICK plugins : plugins = Put(ps, p.name, bad)
    OBVIOUS
  <2>3. /\ DOMAIN plugins = DOMAIN ps \cup {p.name} /\ plugins[p.name] = bad
        /\ \A n \in DOMAIN ps \ {p.name} : plugins[n] = ps[n]
    BY <2>2 DEF Put
  <2>4. PICK moved : moved = (d \/ (p.name \in DOMAIN ps /\ p.name \in Range(ix))) /\ moved \in BOOLEAN
    OBVIOUS
  <2>5. q = [plugins |-> plugins, index |-> ix, displaced |-> moved]
    BY <1>1, <1>2, <2>1, <2>2, <2>4 DEF Install, Downgrade
  <2>6. bad.status = "invalid"
    BY <1>2, <2>1 DEF Collides
  <2>7. \A n \in DOMAIN plugins : plugins[n].status = "ok" =>
          n # p.name /\ n \in DOMAIN ps /\ \A t \in plugins[n].sinks : t \in DOMAIN ix /\ ix[t] = n
    BY <1>1, <2>3, <2>6 DEF RegistryInv
  <2>8. \A t \in DOMAIN ix : ix[t] \in DOMAIN plugins
    BY <1>1, <2>3 DEF RegistryInv
  <2>9. ~moved => \A t \in DOMAIN ix : plugins[ix[t]].status = "ok" /\ t \in plugins[ix[t]].sinks
    <3> SUFFICES ASSUME ~moved, NEW t \in DOMAIN ix
                 PROVE  plugins[ix[t]].status = "ok" /\ t \in plugins[ix[t]].sinks
      OBVIOUS
    <3>1. ix[t] \in DOMAIN ps /\ ps[ix[t]].status = "ok" /\ t \in ps[ix[t]].sinks
      BY <1>1, <2>4 DEF RegistryInv
    <3>2. ix[t] # p.name
      BY <2>4, <3>1 DEF Range
    <3> QED BY <2>3, <3>1, <3>2
  <2>10. RegistryInv(q) /\ IsRegistry(q)
    <3>1. q.plugins = plugins /\ q.index = ix /\ q.displaced = moved
      BY <2>5
    <3>2. RegistryInv(q)
      BY <2>7, <2>8, <2>9, <3>1 DEF RegistryInv
    <3> QED BY <2>4, <2>5, <3>2 DEF IsRegistry
  <2> QED BY <1>1, <2>1, <2>3, <2>5, <2>10
<1>3. CASE ~Collides(reg, p)
  <2>1. PICK kept, added : kept = ForgetSinks(reg, p.name) /\ added = IF p.status = "ok" THEN p.sinks ELSE {}
    OBVIOUS
  <2>2. PICK index : index = [t \in DOMAIN kept \cup added |-> IF t \in added THEN p.name ELSE kept[t]]
    OBVIOUS
  <2>3. PICK plugins : plugins = Put(ps, p.name, p)
    OBVIOUS
  <2>4. q = [plugins |-> plugins, index |-> index, displaced |-> d]
    BY <1>1, <1>3, <2>1, <2>2, <2>3 DEF Install, Replace
  <2>5. /\ DOMAIN plugins = DOMAIN ps \cup {p.name} /\ plugins[p.name] = p
        /\ \A n \in DOMAIN ps \ {p.name} : plugins[n] = ps[n]
    BY <2>3 DEF Put
  <2>6. /\ DOMAIN kept = {t \in DOMAIN ix : ~(p.name \in DOMAIN ps /\ t \in ps[p.name].sinks /\ ix[t] = p.name)}
        /\ \A t \in DOMAIN kept : kept[t] = ix[t]
    <3>1. CASE p.name \notin DOMAIN ps
      BY <1>1, <2>1, <3>1 DEF ForgetSinks
    <3>2. CASE p.name \in DOMAIN ps
      <4> DEFINE stay == {t \in DOMAIN ix : ~(t \in ps[p.name].sinks /\ ix[t] = p.name)}
      <4>1. kept = [t \in stay |-> ix[t]]
        BY <1>1, <2>1, <3>2 DEF ForgetSinks, Restrict
      <4> QED BY <3>2, <4>1
    <3> QED BY <3>1, <3>2
  <2>7. \A t \in added : p.status = "ok" /\ t \in p.sinks /\ (t \in DOMAIN ix => ix[t] = p.name)
    BY <1>1, <1>3, <2>1 DEF Collides
  <2>8. /\ \A t \in added : t \in DOMAIN index /\ index[t] = p.name
        /\ \A t \in DOMAIN kept \ added : t \in DOMAIN index /\ index[t] = ix[t]
        /\ DOMAIN index = DOMAIN kept \cup added
    BY <2>2, <2>6
  <2>9. ASSUME NEW n \in DOMAIN plugins, plugins[n].status = "ok", NEW t \in plugins[n].sinks
        PROVE  t \in DOMAIN index /\ index[t] = n
    <3>1. CASE n = p.name
      BY <2>1, <2>5, <2>8, <2>9, <3>1
    <3>2. CASE n # p.name
      <4>1. t \in DOMAIN ix /\ ix[t] = n
        BY <1>1, <2>5, <2>9, <3>2 DEF RegistryInv
      <4> QED BY <2>6, <2>7, <2>8, <3>2, <4>1
    <3> QED BY <3>1, <3>2
  <2>10. \A t \in DOMAIN index : index[t] \in DOMAIN plugins
    <3> SUFFICES ASSUME NEW t \in DOMAIN index PROVE index[t] \in DOMAIN plugins
      OBVIOUS
    <3>1. CASE t \in added
      BY <2>5, <2>8, <3>1
    <3>2. CASE t \notin added
      <4>1. t \in DOMAIN ix /\ index[t] = ix[t]
        BY <2>6, <2>8, <3>2
      <4> QED BY <1>1, <2>5, <4>1 DEF RegistryInv
    <3> QED BY <3>1, <3>2
  <2>11. ASSUME ~d, NEW t \in DOMAIN index
         PROVE  plugins[index[t]].status = "ok" /\ t \in plugins[index[t]].sinks
    <3>1. CASE t \in added
      BY <2>5, <2>7, <2>8, <3>1
    <3>2. CASE t \notin added
      <4>1. t \in DOMAIN kept /\ index[t] = ix[t] /\ t \in DOMAIN ix
        BY <2>6, <2>8, <3>2
      <4>2. ix[t] \in DOMAIN ps /\ ps[ix[t]].status = "ok" /\ t \in ps[ix[t]].sinks
        BY <1>1, <2>11, <4>1 DEF RegistryInv
      <4>3. ix[t] # p.name
        BY <2>6, <4>1, <4>2
      <4> QED BY <2>5, <4>1, <4>2, <4>3
    <3> QED BY <3>1, <3>2
  <2>12. RegistryInv(q) /\ IsRegistry(q)
    <3>1. q.plugins = plugins /\ q.index = index /\ q.displaced = d
      BY <2>4
    <3>2. RegistryInv(q)
      BY <2>9, <2>10, <2>11, <3>1 DEF RegistryInv
    <3> QED BY <1>1, <2>4, <3>2 DEF IsRegistry
  <2> QED BY <1>1, <2>4, <2>5, <2>12
<1> QED BY <1>2, <1>3

LEMMA SoundRegistry ==
  ASSUME NEW reg, RegistryInv(reg)
  PROVE  RegistryIsSound(reg)
<1>1. ASSUME NEW t \in Types PROVE Cardinality(Owners(reg, t)) <= 1
  <2>1. Owners(reg, t) \subseteq {reg.index[t]}
    BY DEF Owners, RegistryInv
  <2>2. Cardinality({reg.index[t]}) = 1 /\ IsFiniteSet({reg.index[t]})
    BY FS_Singleton
  <2> QED BY <2>1, <2>2, FS_Subset
<1>2. Range(reg.index) \subseteq DOMAIN reg.plugins
  BY DEF RegistryInv, Range
<1>3. ~reg.displaced => \A t \in DOMAIN reg.index : Owners(reg, t) = {reg.index[t]}
  BY DEF RegistryInv, Owners
<1> QED BY <1>1, <1>2, <1>3 DEF RegistryIsSound, RegistryInv

(* A root in which a scan has come by a name.                              *)
Found(name, r, root, left) == r \in 1..root /\ name \in DOMAIN pdRoots[r] /\ (r = root => name \notin left)

(* What a scan of unchanging directories has found so far.                 *)
Scanned(reg, root, left) ==
  /\ \A n \in DOMAIN reg.plugins :
       /\ Found(n, reg.plugins[n].root, root, left)
       /\ \A r : Found(n, r, root, left) => r <= reg.plugins[n].root
  /\ \A n, r : Found(n, r, root, left) => n \in DOMAIN reg.plugins

Listing(reg) ==
  /\ DOMAIN reg.plugins = UNION {DOMAIN pdRoots[r] : r \in DOMAIN pdRoots}
  /\ \A n \in DOMAIN reg.plugins : reg.plugins[n].root = LastRoot(n)

Unedited ==
  /\ pdRoots \in Seq(Range(pdRoots)) /\ Len(pdRoots) > 0
  /\ pdScan.stage = "scan" =>
       /\ pdScan.root \in 1..Len(pdRoots) /\ pdScan.left \subseteq DOMAIN pdRoots[pdScan.root]
       /\ Scanned(pdReg, pdScan.root, pdScan.left)
  /\ pdScan.stage = "idle" /\ pdScan.count > 0 => Listing(pdListed)

IsScan == \E stage, root, left, count :
  pdScan = [stage |-> stage, root |-> root, left |-> left, count |-> count] /\ count \in Nat

DiscoveryInv ==
  /\ IsScan /\ pdEdits \in Nat
  /\ RegistryInv(pdReg) /\ IsRegistry(pdReg) /\ RegistryInv(pdListed)
  /\ pdUsed # None => RegistryInv(pdUsed) /\ pdConnectors = Connectors(pdUsed)
  /\ pdEdits = 0 => Unedited

LEMMA InitDiscovery ==
  ASSUME NEW roots, RootsAreLists(roots), DiscoveryInit(roots)
  PROVE  DiscoveryInv
<1>1. IsScan /\ pdScan.stage = "idle" /\ pdScan.count = 0
  BY DEF DiscoveryInit, IsScan
<1>2. Unedited
  BY <1>1 DEF DiscoveryInit, RootsAreLists, Unedited
<1> QED BY <1>1, <1>2, EmptyIsSound DEF DiscoveryInit, DiscoveryInv

LEMMA BeginScanStep ==
  ASSUME DiscoveryInv, BeginScan
  PROVE  DiscoveryInv'
<1>1. /\ pdScan' = [stage |-> "scan", root |-> 1, left |-> DOMAIN pdRoots[1], count |-> pdScan.count + 1]
      /\ pdReg' = EmptyRegistry /\ UNCHANGED <<pdRoots, pdListed, pdUsed, pdConnectors, pdEdits>>
  BY DEF BeginScan
<1>2. IsScan'
  <2>1. PICK dirs, count : dirs = DOMAIN pdRoots[1] /\ count = pdScan.count + 1
    OBVIOUS
  <2>2. count \in Nat
    BY <2>1 DEF DiscoveryInv, IsScan
  <2>3. pdScan' = [stage |-> "scan", root |-> 1, left |-> dirs, count |-> count]
    BY <1>1, <2>1
  <2> QED BY <2>2, <2>3 DEF IsScan
<1>3. Scanned(EmptyRegistry, 1, DOMAIN pdRoots[1])
  BY DEF Scanned, Found, EmptyRegistry, Nothing
<1>4. pdEdits = 0 => Unedited'
  BY <1>1, <1>3 DEF DiscoveryInv, Unedited, Scanned, Found
<1> QED BY <1>1, <1>2, <1>4, EmptyIsSound DEF DiscoveryInv, Connectors

LEMMA ScanDirStep ==
  ASSUME DiscoveryInv, NEW dir \in pdScan.left, ScanDir(dir)
  PROVE  DiscoveryInv'
<1>1. PICK stage, root, left, count :
        pdScan = [stage |-> stage, root |-> root, left |-> left, count |-> count] /\ count \in Nat
  BY DEF DiscoveryInv, IsScan
<1>2. /\ stage = "scan" /\ dir \in left
      /\ pdScan' = [stage |-> stage, root |-> root, left |-> left \ {dir}, count |-> count]
      /\ pdReg' = IF dir \notin DOMAIN pdRoots[root] THEN pdReg
                  ELSE Install(pdReg, Loaded(dir, pdRoots[root][dir], root))
      /\ UNCHANGED <<pdRoots, pdListed, pdUsed, pdConnectors, pdEdits>>
  BY <1>1 DEF ScanDir
<1>3. PICK p : p = Loaded(dir, pdRoots[root][dir], root)
  OBVIOUS
<1>4. PICK reg, new : reg = pdReg /\ new = pdReg'
  OBVIOUS
<1>5. p.name = dir /\ p.root = root /\ [p EXCEPT !.status = "invalid"].root = root
  BY <1>3 DEF Loaded
<1>6. RegistryInv(reg) /\ IsRegistry(reg)
  BY <1>4 DEF DiscoveryInv
<1>7. dir \in DOMAIN pdRoots[root] =>
        /\ DOMAIN new.plugins = DOMAIN reg.plugins \cup {dir}
        /\ \A n \in DOMAIN reg.plugins \ {dir} : new.plugins[n] = reg.plugins[n]
        /\ new.plugins[dir].root = root
        /\ RegistryInv(new) /\ IsRegistry(new)
  <2> SUFFICES ASSUME dir \in DOMAIN pdRoots[root]
               PROVE  /\ DOMAIN new.plugins = DOMAIN reg.plugins \cup {dir}
                      /\ \A n \in DOMAIN reg.plugins \ {dir} : new.plugins[n] = reg.plugins[n]
                      /\ new.plugins[dir].root = root
                      /\ RegistryInv(new) /\ IsRegistry(new)
    OBVIOUS
  <2>1. new = Install(reg, p)
    BY <1>2, <1>3, <1>4
  <2>2. /\ RegistryInv(new) /\ IsRegistry(new)
        /\ DOMAIN new.plugins = DOMAIN reg.plugins \cup {p.name}
        /\ \A n \in DOMAIN reg.plugins \ {p.name} : new.plugins[n] = reg.plugins[n]
        /\ new.plugins[p.name] = p \/ new.plugins[p.name] = [p EXCEPT !.status = "invalid"]
    BY <1>6, <2>1, InstallIsSound
  <2> QED BY <1>5, <2>2
<1>8. RegistryInv(new) /\ IsRegistry(new)
  BY <1>2, <1>4, <1>6, <1>7
<1>9. ASSUME pdEdits = 0
      PROVE  Unedited'
  <2>1. /\ Unedited /\ root \in 1..Len(pdRoots) /\ left \subseteq DOMAIN pdRoots[root]
        /\ Scanned(reg, root, left) /\ dir \in DOMAIN pdRoots[root]
    BY <1>1, <1>2, <1>4, <1>9 DEF DiscoveryInv, Unedited
  <2>2. \A n, r : Found(n, r, root, left \ {dir}) <=> Found(n, r, root, left) \/ (n = dir /\ r = root)
    BY <2>1 DEF Found
  <2>3. \A n, r : Found(n, r, root, left) => r <= root
    BY <2>1 DEF Found
  <2>4. Scanned(new, root, left \ {dir})
    <3>1. /\ DOMAIN new.plugins = DOMAIN reg.plugins \cup {dir} /\ new.plugins[dir].root = root
          /\ \A n \in DOMAIN reg.plugins \ {dir} : new.plugins[n] = reg.plugins[n]
      BY <1>7, <2>1
    <3>2. ASSUME NEW n \in DOMAIN new.plugins
          PROVE  /\ Found(n, new.plugins[n].root, root, left \ {dir})
                 /\ \A r : Found(n, r, root, left \ {dir}) => r <= new.plugins[n].root
      <4>1. CASE n = dir
        <5>1. Found(dir, root, root, left \ {dir})
          BY <2>2
        <5>2. \A r : Found(dir, r, root, left \ {dir}) => r <= root
          BY <2>1, <2>2, <2>3
        <5> QED BY <3>1, <4>1, <5>1, <5>2
      <4>2. CASE n # dir
        <5>1. n \in DOMAIN reg.plugins /\ new.plugins[n] = reg.plugins[n]
          BY <3>1, <4>2
        <5> QED BY <2>1, <2>2, <4>2, <5>1 DEF Scanned
      <4> QED BY <4>1, <4>2
    <3>3. \A n, r : Found(n, r, root, left \ {dir}) => n \in DOMAIN new.plugins
      BY <2>1, <2>2, <3>1 DEF Scanned
    <3> QED BY <3>2, <3>3 DEF Scanned
  <2>5. \A n, r : Found(n, r, root, left \ {dir})' <=> Found(n, r, root, left \ {dir})
    BY <1>2 DEF Found
  <2>6. Scanned(pdReg, pdScan.root, pdScan.left)'
    BY <1>2, <1>4, <2>4, <2>5 DEF Scanned
  <2> QED BY <1>2, <2>1, <2>6 DEF Unedited
<1>10. IsScan'
  BY <1>1, <1>2 DEF IsScan
<1> QED BY <1>2, <1>4, <1>8, <1>9, <1>10 DEF DiscoveryInv, Connectors

LEMMA NextRootStep ==
  ASSUME DiscoveryInv, NextRoot
  PROVE  DiscoveryInv'
<1>1. PICK stage, root, left, count :
        pdScan = [stage |-> stage, root |-> root, left |-> left, count |-> count] /\ count \in Nat
  BY DEF DiscoveryInv, IsScan
<1>2. PICK dirs : dirs = DOMAIN pdRoots[root + 1]
  OBVIOUS
<1>3. /\ stage = "scan" /\ left = {} /\ root < Len(pdRoots)
      /\ pdScan' = [stage |-> stage, root |-> root + 1, left |-> dirs, count |-> count]
      /\ UNCHANGED <<pdRoots, pdReg, pdListed, pdUsed, pdConnectors, pdEdits>>
  BY <1>1, <1>2 DEF NextRoot
<1>4. ASSUME pdEdits = 0
      PROVE  Unedited'
  <2>1. Unedited /\ root \in 1..Len(pdRoots) /\ Len(pdRoots) \in Nat /\ Scanned(pdReg, root, left)
    BY <1>1, <1>3, <1>4 DEF DiscoveryInv, Unedited
  <2>2. \A n, r : Found(n, r, root + 1, dirs) <=> Found(n, r, root, left)
    BY <1>2, <1>3, <2>1 DEF Found
  <2>3. Scanned(pdReg, root + 1, dirs)
    BY <2>1, <2>2 DEF Scanned
  <2>4. Scanned(pdReg, pdScan.root, pdScan.left)'
    BY <1>3, <2>3 DEF Scanned, Found
  <2> QED BY <1>2, <1>3, <2>1, <2>4 DEF Unedited
<1>5. IsScan'
  BY <1>1, <1>3 DEF IsScan
<1> QED BY <1>3, <1>4, <1>5 DEF DiscoveryInv, Connectors

LEMMA PublishStep ==
  ASSUME DiscoveryInv, Publish
  PROVE  DiscoveryInv'
<1>1. PICK stage, root, left, count :
        pdScan = [stage |-> stage, root |-> root, left |-> left, count |-> count] /\ count \in Nat
  BY DEF DiscoveryInv, IsScan
<1>2. /\ stage = "scan" /\ left = {} /\ root = Len(pdRoots)
      /\ pdScan' = [stage |-> "idle", root |-> root, left |-> left, count |-> count]
      /\ pdListed' = pdReg
      /\ IF count = 1 THEN pdUsed' = pdReg /\ pdConnectors' = Connectors(pdReg)
         ELSE UNCHANGED <<pdUsed, pdConnectors>>
      /\ UNCHANGED <<pdRoots, pdReg, pdEdits>>
  BY <1>1 DEF Publish
<1>3. ASSUME pdEdits = 0
      PROVE  Unedited'
  <2>1. Unedited /\ root \in 1..Len(pdRoots) /\ Scanned(pdReg, root, left) /\ DOMAIN pdRoots = 1..root
    BY <1>1, <1>2, <1>3 DEF DiscoveryInv, Unedited
  <2>2. \A n, r : Found(n, r, root, left) <=> r \in DOMAIN pdRoots /\ n \in DOMAIN pdRoots[r]
    BY <1>2, <2>1 DEF Found
  <2>3. DOMAIN pdReg.plugins = UNION {DOMAIN pdRoots[r] : r \in DOMAIN pdRoots}
    BY <2>1, <2>2 DEF Scanned
  <2>4. ASSUME NEW n \in DOMAIN pdReg.plugins
        PROVE  pdReg.plugins[n].root = LastRoot(n)
    <3> DEFINE in == {r \in DOMAIN pdRoots : n \in DOMAIN pdRoots[r]}
    <3>1. pdReg.plugins[n].root \in in /\ \A r \in in : r <= pdReg.plugins[n].root
      BY <2>1, <2>2 DEF Scanned
    <3>2. in \subseteq Nat
      BY <2>1
    <3> HIDE DEF in
    <3>3. PICK m \in in : m = pdReg.plugins[n].root /\ \A r \in in : m >= r
      BY <3>1, <3>2
    <3>4. \A x \in in : (\A r \in in : x >= r) => x = m
      BY <3>2, <3>3
    <3>5. Max(in) = m
      BY <3>3, <3>4, Zenon DEF Max
    <3> QED BY <3>3, <3>5 DEF LastRoot, in
  <2>5. Listing(pdReg)
    BY <2>3, <2>4 DEF Listing
  <2>6. Listing(pdListed)'
    BY <1>2, <2>5 DEF Listing, LastRoot
  <2> QED BY <1>2, <2>1, <2>6 DEF Unedited
<1>4. IsScan'
  BY <1>1, <1>2 DEF IsScan
<1>5. pdUsed' # None => RegistryInv(pdUsed') /\ pdConnectors' = Connectors(pdUsed')
  BY <1>2 DEF DiscoveryInv
<1> QED BY <1>2, <1>3, <1>4, <1>5 DEF DiscoveryInv, Connectors

LEMMA EditStep ==
  ASSUME DiscoveryInv, NEW root, NEW dir, NEW manifest, Edit(root, dir, manifest)
  PROVE  DiscoveryInv'
<1>1. pdEdits' = pdEdits + 1 /\ UNCHANGED <<pdScan, pdReg, pdListed, pdUsed, pdConnectors>>
  BY DEF Edit
<1>2. pdEdits' # 0 /\ pdEdits' \in Nat
  BY <1>1 DEF DiscoveryInv
<1>3. IsScan'
  BY <1>1 DEF DiscoveryInv, IsScan
<1>4. /\ RegistryInv(pdReg)' /\ IsRegistry(pdReg)' /\ RegistryInv(pdListed)'
      /\ (pdUsed # None => RegistryInv(pdUsed) /\ pdConnectors = Connectors(pdUsed))'
  BY <1>1 DEF DiscoveryInv
<1> QED BY <1>2, <1>3, <1>4 DEF DiscoveryInv

LEMMA ValidIsProvided ==
  ASSUME ErrorsDistinct, DiscoveryInv, pdUsed # None, NEW t, NEW s, NEW k, ValidSink(t, s, k)
  PROVE  \/ t \in Builtins /\ pdConnectors[t] = "builtin"
         \/ \E p \in Range(pdUsed.plugins) : p.status = "ok" /\ t \in p.sinks /\ Supports(p, s)
<1>1. SinkError(t, s) = None
  BY DEF ValidSink
<1>2. t \in DOMAIN pdConnectors
  BY <1>1 DEF SinkError, ErrorsDistinct
<1>3. CASE pdConnectors[t] = "builtin"
  BY <1>2, <1>3 DEF DiscoveryInv, Connectors
<1>4. CASE pdConnectors[t] # "builtin"
  <2>1. PICK p : p = pdUsed.plugins[pdUsed.index[t]]
    OBVIOUS
  <2>2. t \in DOMAIN pdUsed.index /\ p.status = "ok" /\ t \in p.sinks /\ Supports(p, s)
    BY <1>1, <1>2, <1>4, <2>1 DEF SinkError, ErrorsDistinct
  <2>3. p \in Range(pdUsed.plugins)
    BY <2>1, <2>2 DEF DiscoveryInv, RegistryInv, Range
  <2> QED BY <2>2, <2>3
<1> QED BY <1>3, <1>4

(* Whatever is installed, changed or removed: no two good plugins provide  *)
(* one sink type, and each type leads to the good plugin that provides it  *)
(* (unless a copy that collides displaced it); a scan of directories that  *)
(* do not change lists every plugin once, from the last root that has it;  *)
(* and a sink passes validation only if its connector is built in or a     *)
(* good plugin declared its type and its strategy.                         *)
THEOREM DiscoveryAlwaysHolds ==
  ASSUME NEW roots, RootsAreLists(roots), ErrorsDistinct
  PROVE  DiscoverySpec(roots) => []DiscoveryHolds
<1>1. DiscoveryInit(roots) => DiscoveryInv
  BY InitDiscovery
<1>2. DiscoveryInv /\ [DiscoveryNext]_pdVars => DiscoveryInv'
  <2> SUFFICES ASSUME DiscoveryInv, [DiscoveryNext]_pdVars PROVE DiscoveryInv'
    OBVIOUS
  <2>1. CASE UNCHANGED pdVars
    <3>1. UNCHANGED <<pdRoots, pdScan, pdReg, pdListed, pdUsed, pdConnectors, pdEdits>>
      BY <2>1 DEF pdVars
    <3>2. /\ RegistryInv(pdReg)' /\ IsRegistry(pdReg)' /\ RegistryInv(pdListed)'
          /\ (pdUsed # None => RegistryInv(pdUsed) /\ pdConnectors = Connectors(pdUsed))'
      BY <3>1 DEF DiscoveryInv
    <3>3. IsScan' /\ (pdEdits = 0 => Unedited)'
      BY <3>1 DEF DiscoveryInv, IsScan, Unedited, Scanned, Found, Listing, LastRoot
    <3> QED BY <3>1, <3>2, <3>3 DEF DiscoveryInv
  <2>2. CASE DiscoveryNext
    BY <2>2, BeginScanStep, ScanDirStep, NextRootStep, PublishStep, EditStep DEF DiscoveryNext
  <2> QED BY <2>1, <2>2
<1>3. DiscoveryInv => DiscoveryHolds
  <2> SUFFICES ASSUME DiscoveryInv PROVE DiscoveryHolds
    OBVIOUS
  <2>1. RegistryIsSound(pdReg) /\ RegistryIsSound(pdListed)
    BY SoundRegistry DEF DiscoveryInv
  <2>2. pdEdits = 0 /\ pdScan.count > 0 /\ pdScan.stage = "idle" => Listing(pdListed)
    BY DEF DiscoveryInv, Unedited
  <2> QED BY <2>1, <2>2, ValidIsProvided DEF DiscoveryHolds, Listing
<1> QED BY <1>1, <1>2, <1>3, PTL DEF DiscoverySpec
=============================================================================
