------------------------- MODULE PipelineStoreProofs ------------------------
(***************************************************************************)
(* Four proofs about pipelines at rest: the two stores, the output cache   *)
(* and copies between backends, for any number of pipelines, names, codes, *)
(* requests and versions.                                                  *)
(*                                                                         *)
(* The file, the row and the newest snapshot of a pipeline agree whenever  *)
(* the store's mutex is free.  The three writes of a save are no           *)
(* transaction.  What is claimed of a pipeline between two operations      *)
(* (Matches) is therefore replaced, while an operation holds the mutex, by *)
(* how far that operation is (Saving); the mutex says that there is one at *)
(* most, and that every other pipeline still matches.  What runs outside   *)
(* the mutex must not reach into this: the file of a deleted pipeline is   *)
(* unlinked after the mutex is released, and no later operation can be     *)
(* writing a row for it; a command of another process only counts a run.   *)
(*                                                                         *)
(* What is cached under a name follows the saves.  The cache is keyed by   *)
(* name and knows no lock; the claim is about names on which two requests  *)
(* were never at work together, and of those the proof says what is cached *)
(* at each stage of the one request that is (Stage), and what is cached    *)
(* when there is none (AtRest).  It rests on the first proof: a save whose *)
(* snapshot number were taken would stop before it clears the cache.       *)
(***************************************************************************)
EXTENDS PipelineStore, PgPipelineStore, MetadataTransfer, FiniteSetTheorems, FunctionTheorems, TLAPS

Actors == Handlers \cup {Cli}

File == [name : Names, code : Codes, n : Nat]
Row == [name : Names, runs : Nat]
Snapshot == [n : Nat, name : Names, code : Codes]

Writing == {"insertRow", "created", "updateRow", "replaceRow", "saved", "replaced"}
Importing == {"importCreate", "importRead", "importUpdate"}

IsOp(o) ==
  /\ o = [pc |-> o.pc, id |-> o.id, def |-> o.def, old |-> o.old, n |-> o.n, seen |-> o.seen]
  /\ o.pc \in Writing => o.id \in Pipelines /\ o.def \in Defs /\ o.n \in Nat
  /\ o.pc \in Importing => o.def \in Defs
  /\ o.pc \in {"importRead", "importUpdate", "unlink"} => o.id \in Pipelines

(* The newest snapshot of a pipeline exists: Latest is not arbitrary. *)
Numbers(p) == {v.n : v \in versions[p]} \cup {0}
HasLatest(p) == \E m \in Numbers(p) : \A n \in Numbers(p) : m >= n

TypeInv ==
  /\ file \in [Pipelines -> File \cup {None}]
  /\ row \in [Pipelines -> Row \cup {None}]
  /\ versions \in [Pipelines -> SUBSET Snapshot]
  /\ \A p \in Pipelines : HasLatest(p)
  /\ IsFiniteSet(used)
  /\ op = [h \in Actors |-> op[h]]
  /\ \A h \in Actors : IsOp(op[h])

(* The mutex, the ids and the names. *)
MutexInv == \A h \in Actors : op[h].pc \in Writing => h # Cli /\ lock = h
UsedInv == \A p \in Pipelines \ used : row[p] = None /\ versions[p] = {}
NamesInv == \A p, q \in Pipelines :
  row[p] # None /\ row[q] # None /\ row[p].name = row[q].name => p = q

(* The file that is still to be removed is of a pipeline that is gone.      *)
UnlinkInv == \A h \in Actors :
  op[h].pc = "unlink" => op[h].id \in used /\ row[op[h].id] = None

(* How far a save is, which holds the mutex. *)
Greatest(p, n) == \A v \in versions[p] : v.n < n
Written(o) == file[o.id] = [name |-> o.def.name, code |-> o.def.code, n |-> o.n]

Saving(o) ==
  LET p == o.id IN
  /\ o.pc \in {"insertRow", "updateRow", "replaceRow"} => Named(o.def.name) \ {p} = {}
  /\ o.pc = "insertRow" => /\ p \in used /\ row[p] = None /\ Greatest(p, o.n) /\ Written(o)
                           /\ \A g \in Actors : ~(op[g].pc = "unlink" /\ op[g].id = p)
  /\ o.pc \in {"created", "saved", "replaced"} =>
       p \in used /\ (row[p] # None => row[p].name = o.def.name)
  /\ o.pc \in Writing /\ row[p] # None => Written(o) /\ (p \notin torn => Greatest(p, o.n))

SavingInv == \A h \in Actors : op[h].pc \in Writing => Saving(op[h])

(* What holds of a pipeline that nobody is writing. *)
Matches(p) ==
  row[p] # None =>
    /\ file[p] \in File
    /\ file[p].name = row[p].name
    /\ \A v \in versions[p] : v.n <= file[p].n
    /\ [n |-> file[p].n, name |-> file[p].name, code |-> file[p].code] \in versions[p]

InHand(p) == \E h \in Actors : op[h].pc \in Writing /\ op[h].id = p

MatchInv == \A p \in Pipelines \ torn : InHand(p) \/ Matches(p)

StoreInv == TypeInv /\ MutexInv /\ UsedInv /\ NamesInv /\ UnlinkInv /\ SavingInv /\ MatchInv

-----------------------------------------------------------------------------
(* How an actor's step changes op. *)
LEMMA Changes ==
  ASSUME op = [g \in Actors |-> op[g]], NEW h \in Actors, NEW e, op' = [op EXCEPT ![h] = e]
  PROVE  /\ op' = [g \in Actors |-> op'[g]] /\ op'[h] = e
         /\ \A g \in Actors \ {h} : op'[g] = op[g]
OBVIOUS

LEMMA GoesTo ==
  ASSUME TypeInv, NEW h \in Actors, NEW pc, Goto(h, pc)
  PROVE  op' = [op EXCEPT ![h] = [op[h] EXCEPT !.pc = pc]]
BY DEF TypeInv, Goto

LEMMA Steps ==
  ASSUME NEW o, IsOp(o), NEW pc, NEW e, e = [o EXCEPT !.pc = pc]
  PROVE  e = [pc |-> pc, id |-> o.id, def |-> o.def, old |-> o.old, n |-> o.n, seen |-> o.seen]
BY DEF IsOp

LEMMA IdleIsOp == IsOp(Idle) /\ Idle.pc = "idle"
BY DEF IsOp, Idle, Writing, Importing

(* The newest number, when there is one. *)
LEMMA LatestBounds ==
  ASSUME TypeInv, NEW p \in Pipelines
  PROVE  /\ Latest(p) \in Nat /\ \A v \in versions[p] : v.n <= Latest(p)
         /\ Latest(p) \in Numbers(p)
<1>1. \A v \in versions[p] : v.n \in Nat
  BY DEF TypeInv, Snapshot
<1>2. \E m \in Numbers(p) : \A n \in Numbers(p) : m >= n
  BY DEF TypeInv, HasLatest
<1>3. Latest(p) \in Numbers(p) /\ \A n \in Numbers(p) : Latest(p) >= n
  BY <1>2 DEF Latest, Max, Numbers
<1> QED BY <1>1, <1>3 DEF Numbers

LEMMA NextIsNewest ==
  ASSUME TypeInv, NEW p \in Pipelines
  PROVE  NextVersion(p) \in Nat /\ Greatest(p, NextVersion(p))
<1>1. \A v \in versions[p] : v.n \in Nat
  BY DEF TypeInv, Snapshot
<1> QED BY <1>1, LatestBounds DEF NextVersion, Greatest

-----------------------------------------------------------------------------
(* Steps outside the mutex that write neither file nor snapshot: what they  *)
(* do to a row is at most to count a run.                                  *)
RunsCounted ==
  /\ row' \in [Pipelines -> Row \cup {None}]
  /\ \A p \in Pipelines : /\ row[p] = None => row'[p] = None
                          /\ row'[p] # None => row'[p].name = row[p].name

LEMMA Outside ==
  ASSUME StoreInv, NEW h \in Actors, NEW e, op' = [op EXCEPT ![h] = e],
         IsOp(e), e.pc \notin Writing, e.pc # "unlink", op[h].pc \notin Writing,
         UNCHANGED <<file, versions, used, lock, torn>>, RunsCounted
  PROVE  StoreInv'
<1>1. /\ op' = [g \in Actors |-> op'[g]] /\ op'[h] = e
      /\ \A g \in Actors \ {h} : op'[g] = op[g]
  BY Changes DEF StoreInv, TypeInv
<1>2. TypeInv'
  BY <1>1 DEF StoreInv, TypeInv, RunsCounted, HasLatest, Numbers, IsOp
<1>3. \A p \in Pipelines : row'[p] # None => row[p] # None /\ row'[p].name = row[p].name
  BY DEF RunsCounted
<1>4. MutexInv'
  BY <1>1 DEF StoreInv, MutexInv
<1>5. UsedInv'
  BY DEF StoreInv, UsedInv, RunsCounted
<1>6. NamesInv'
  BY <1>3 DEF StoreInv, NamesInv
<1>7. UnlinkInv'
  <2>1. ASSUME NEW g \in Actors, op'[g].pc = "unlink"
        PROVE  op'[g].id \in used /\ row'[op'[g].id] = None
    <3>1. g # h /\ op'[g] = op[g]
      BY <1>1, <2>1
    <3>2. op[g].id \in Pipelines /\ op[g].id \in used /\ row[op[g].id] = None
      BY <2>1, <3>1 DEF StoreInv, TypeInv, IsOp, UnlinkInv
    <3> QED BY <3>1, <3>2 DEF RunsCounted
  <2> QED BY <2>1 DEF UnlinkInv
<1>8. SavingInv'
  <2>1. ASSUME NEW o, NEW g \in Actors, op'[g] = o, o.pc \in Writing PROVE Saving(o)'
    <3>1. op[g] = o
      BY <1>1, <2>1
    <3>2. Saving(o) /\ o.id \in Pipelines
      BY <2>1, <3>1 DEF StoreInv, SavingInv, TypeInv, IsOp
    <3>3. Named(o.def.name)' \subseteq Named(o.def.name)
      BY <1>3 DEF Named
    <3>4. \A q \in Actors : op'[q].pc = "unlink" => op'[q] = op[q]
      BY <1>1
    <3> QED BY <1>3, <3>2, <3>3, <3>4 DEF Saving, Greatest, Written, RunsCounted
  <2> QED BY <2>1 DEF SavingInv, Saving, Named, Greatest, Written
<1>9. MatchInv'
  <2>1. ASSUME NEW p \in Pipelines \ torn PROVE InHand(p)' \/ Matches(p)'
    <3>1. InHand(p) => InHand(p)'
      BY <1>1 DEF InHand
    <3>2. Matches(p) => Matches(p)'
      BY <1>3 DEF Matches
    <3> QED BY <3>1, <3>2 DEF StoreInv, MatchInv
  <2> QED BY <2>1 DEF MatchInv
<1> QED BY <1>2, <1>4, <1>5, <1>6, <1>7, <1>8, <1>9 DEF StoreInv

LEMMA RowsKept == ASSUME StoreInv, UNCHANGED row PROVE RunsCounted
BY DEF StoreInv, TypeInv, RunsCounted

(* A request that is refused, or that ends, outside the mutex. *)
LEMMA Ended ==
  ASSUME StoreInv, NEW h \in Actors, Finish(h), op[h].pc \notin Writing,
         UNCHANGED <<file, versions, used, lock, torn, row>>
  PROVE  StoreInv'
<1>1. Idle.pc \notin Writing /\ Idle.pc # "unlink"
  BY IdleIsOp DEF Writing
<1> QED BY <1>1, IdleIsOp, RowsKept, Outside DEF Finish

-----------------------------------------------------------------------------
(* One operation at a time holds the mutex. *)
LEMMA OneWriter ==
  ASSUME MutexInv, NEW h \in Actors, op[h].pc \in Writing
  PROVE  \A g \in Actors \ {h} : op[g].pc \notin Writing
BY DEF MutexInv

LEMMA FreeMeansNone ==
  ASSUME None \notin Handlers, MutexInv, Free
  PROVE  /\ \A h \in Actors : op[h].pc \notin Writing
         /\ \A p : ~InHand(p)
BY DEF MutexInv, Free, Actors, InHand

LEMMA OneSaving ==
  ASSUME NEW h \in Actors, NEW e, op'[h] = e, \A g \in Actors : op'[g].pc \in Writing => g = h,
         Saving(e)'
  PROVE  SavingInv'
BY DEF SavingInv, Saving, Named, Greatest, Written

(* An operation takes the mutex and writes the file. *)
LEMMA Begins ==
  ASSUME None \notin Handlers, Cli \notin Handlers, StoreInv, Free,
         NEW h \in Handlers, NEW e, IsOp(e), op' = [op EXCEPT ![h] = e],
         e.pc \in {"insertRow", "updateRow", "replaceRow"},
         Named(e.def.name) \ {e.id} = {}, Greatest(e.id, e.n),
         file' = [file EXCEPT ![e.id] = [name |-> e.def.name, code |-> e.def.code, n |-> e.n]],
         lock' = h, UNCHANGED <<row, versions, torn>>,
         IF e.pc = "insertRow" THEN e.id \notin used /\ used' = used \cup {e.id} ELSE used' = used
  PROVE  StoreInv'
<1> DEFINE p == e.id
           rec == [name |-> e.def.name, code |-> e.def.code, n |-> e.n]
<1>0. h \in Actors /\ h # Cli
  BY DEF Actors
<1>1. /\ op' = [g \in Actors |-> op'[g]] /\ op'[h] = e
      /\ \A g \in Actors \ {h} : op'[g] = op[g]
  BY <1>0, Changes DEF StoreInv, TypeInv
<1>2. \A g \in Actors : op[g].pc \notin Writing
  BY FreeMeansNone DEF StoreInv
<1>3. p \in Pipelines /\ rec \in File /\ e.pc # "unlink"
  BY DEF IsOp, Writing, File, Defs
<1>4. file'[p] = rec /\ \A q \in Pipelines \ {p} : file'[q] = file[q]
  BY <1>3 DEF StoreInv, TypeInv
<1>5. TypeInv'
  <2>1. IsFiniteSet(used')
    BY FS_AddElement DEF StoreInv, TypeInv
  <2>2. file' \in [Pipelines -> File \cup {None}]
    BY <1>3 DEF StoreInv, TypeInv
  <2> QED BY <1>1, <2>1, <2>2 DEF StoreInv, TypeInv, HasLatest, Numbers, IsOp
<1>6. MutexInv'
  BY <1>0, <1>1, <1>2 DEF MutexInv
<1>7. UsedInv' /\ NamesInv'
  BY DEF StoreInv, UsedInv, NamesInv
<1>8. UnlinkInv'
  BY <1>1, <1>3 DEF StoreInv, UnlinkInv
<1>9. SavingInv'
  <2>1. \A g \in Actors : op'[g].pc \in Writing => g = h
    BY <1>1, <1>2
  <2>2. \A g \in Actors : ~(op'[g].pc = "unlink" /\ op'[g].id = p) \/ p \in used
    BY <1>1, <1>3 DEF StoreInv, UnlinkInv
  <2>3. e.pc = "insertRow" => row[p] = None /\ p \in used'
    BY <1>3 DEF StoreInv, UsedInv
  <2> HIDE DEF p
  <2>4. Saving(e)'
    BY <1>4, <2>2, <2>3 DEF Saving, Named, Greatest, Written, p
  <2> QED BY <1>0, <1>1, <2>1, <2>4, OneSaving
<1>10. MatchInv'
  <2>1. ASSUME NEW q \in Pipelines \ torn PROVE InHand(q)' \/ Matches(q)'
    <3>1. CASE q = p
      BY <1>0, <1>1, <3>1 DEF InHand, Writing
    <3>2. CASE q # p
      BY <1>4, <3>2, FreeMeansNone DEF StoreInv, MatchInv, Matches
    <3> QED BY <3>1, <3>2
  <2> QED BY <2>1 DEF MatchInv
<1> QED BY <1>5, <1>6, <1>7, <1>8, <1>9, <1>10 DEF StoreInv

(* It goes on to the row. *)
LEMMA WritesRow ==
  ASSUME StoreInv, NEW h \in Actors, NEW e, NEW o, NEW p, o = op[h], p = o.id,
         o.pc \in {"insertRow", "updateRow", "replaceRow"},
         o.pc # "insertRow" => row[p] # None,
         NEW pc \in {"created", "saved", "replaced"}, e = [o EXCEPT !.pc = pc],
         op' = [op EXCEPT ![h] = e],
         NEW x \in Row, x.name = o.def.name, row' = [row EXCEPT ![p] = x],
         UNCHANGED <<file, versions, used, lock, torn>>
  PROVE  StoreInv'
<1>0. IsOp(o) /\ o.pc \in Writing /\ p \in Pipelines /\ Saving(o)
  BY DEF StoreInv, TypeInv, IsOp, Writing, SavingInv
<1>1. /\ op' = [g \in Actors |-> op'[g]] /\ op'[h] = e
      /\ \A g \in Actors \ {h} : op'[g] = op[g]
  BY Changes DEF StoreInv, TypeInv
<1>2. e = [pc |-> pc, id |-> p, def |-> o.def, old |-> o.old, n |-> o.n,
           seen |-> o.seen]
  BY <1>0, Steps
<1>3. row'[p] = x /\ \A q \in Pipelines \ {p} : row'[q] = row[q]
  BY <1>0 DEF StoreInv, TypeInv
<1>4. TypeInv'
  <2>1. row' \in [Pipelines -> Row \cup {None}]
    BY <1>0 DEF StoreInv, TypeInv
  <2>2. IsOp(e)
    BY <1>0, <1>2 DEF IsOp, Writing, Importing
  <2> QED BY <1>1, <2>1, <2>2 DEF StoreInv, TypeInv, HasLatest, Numbers, IsOp
<1>5. \A g \in Actors \ {h} : op[g].pc \notin Writing
  BY <1>0, OneWriter DEF StoreInv
<1>6. p \in used
  BY <1>0 DEF StoreInv, UsedInv, Saving, Writing
<1>7. MutexInv'
  BY <1>0, <1>1, <1>5 DEF StoreInv, MutexInv
<1>8. UsedInv'
  BY <1>3, <1>6 DEF StoreInv, UsedInv
<1>9. NamesInv'
  <2>1. \A q \in Pipelines \ {p} : row[q] # None => row[q].name # x.name
    BY <1>0 DEF Saving, Named
  <2> QED BY <1>3, <2>1 DEF StoreInv, NamesInv
<1>10. UnlinkInv'
  <2>1. \A g \in Actors : ~(op[g].pc = "unlink" /\ op[g].id = p)
    BY <1>0 DEF StoreInv, UnlinkInv, Saving
  <2>2. \A g \in Actors : op[g].pc = "unlink" => op[g].id \in Pipelines
    BY DEF StoreInv, TypeInv, IsOp
  <2>3. e.pc # "unlink"
    BY <1>2
  <2> QED BY <1>1, <1>3, <2>1, <2>2, <2>3 DEF StoreInv, UnlinkInv
<1>11. SavingInv'
  <2>1. \A g \in Actors : op'[g].pc \in Writing => g = h
    BY <1>1, <1>5
  <2>2. Written(o) /\ (p \notin torn => Greatest(p, o.n))
    BY <1>0 DEF Saving
  <2>3. Saving(e)'
    BY <1>2, <1>3, <1>6, <2>2 DEF Saving, Named, Greatest, Written
  <2> QED BY <1>1, <2>1, <2>3, OneSaving
<1>12. MatchInv'
  <2>1. ASSUME NEW q \in Pipelines \ torn PROVE InHand(q)' \/ Matches(q)'
    <3>1. CASE q = p
      BY <1>1, <1>2, <3>1 DEF InHand, Writing
    <3>2. CASE q # p
      BY <1>3, <1>5, <3>2 DEF StoreInv, MatchInv, Matches, InHand
    <3> QED BY <3>1, <3>2
  <2> QED BY <2>1 DEF MatchInv
<1> QED BY <1>4, <1>7, <1>8, <1>9, <1>10, <1>11, <1>12 DEF StoreInv

(* It releases the mutex: its snapshot is written, or another has its       *)
(* number, or the row is gone.                                             *)
LEMMA Releases ==
  ASSUME StoreInv, NEW h \in Actors, NEW e, NEW p, p = op[h].id, op[h].pc \in Writing,
         op' = [op EXCEPT ![h] = e], IsOp(e), e.pc \notin Writing, e.pc # "unlink",
         lock' = None, UNCHANGED <<file, row, used, torn>>,
         TypeInv', UsedInv',
         \A q \in Pipelines \ {p} : versions'[q] = versions[q],
         p \in torn \/ Matches(p)'
  PROVE  StoreInv'
<1>0. IsOp(op[h]) /\ p \in Pipelines
  BY DEF StoreInv, TypeInv, IsOp, Writing
<1>1. /\ op'[h] = e /\ \A g \in Actors \ {h} : op'[g] = op[g]
  BY Changes DEF StoreInv, TypeInv
<1>2. \A g \in Actors : op'[g].pc \notin Writing
  BY <1>1, OneWriter DEF StoreInv
<1>3. MutexInv' /\ SavingInv' /\ NamesInv'
  BY <1>2 DEF StoreInv, MutexInv, SavingInv, NamesInv
<1>4. UnlinkInv'
  BY <1>1 DEF StoreInv, UnlinkInv
<1>5. MatchInv'
  <2>1. ASSUME NEW q \in Pipelines \ torn PROVE Matches(q)'
    <3>1. CASE q = p
      BY <3>1
    <3>2. CASE q # p
      <4>1. ~InHand(q)
        BY <3>2, OneWriter DEF StoreInv, InHand
      <4> QED BY <3>2, <4>1 DEF StoreInv, MatchInv, Matches
    <3> QED BY <3>1, <3>2
  <2> QED BY <2>1 DEF MatchInv
<1> QED BY <1>3, <1>4, <1>5 DEF StoreInv

LEMMA StepInsertVersion == ASSUME StoreInv, NEW h \in Actors, InsertVersion(h) PROVE StoreInv'
<1>0. PICK o, p : o = op[h] /\ p = o.id
  OBVIOUS
<1> DEFINE v == [n |-> o.n, name |-> o.def.name, code |-> o.def.code]
<1>1. /\ o.pc \in {"created", "saved", "replaced"} /\ o.pc \in Writing /\ lock' = None
      /\ UNCHANGED <<file, row, used, torn>>
  BY <1>0 DEF InsertVersion, Writing
<1>2. IsOp(o) /\ p \in Pipelines /\ v \in Snapshot /\ Saving(o)
  BY <1>0, <1>1 DEF StoreInv, TypeInv, SavingInv, IsOp, Snapshot, Defs
<1>3. PICK e : op' = [op EXCEPT ![h] = e] /\ (e = Idle \/ e = [o EXCEPT !.pc = "reread"])
  BY <1>0, GoesTo DEF InsertVersion, Finish, StoreInv
<1>4. IsOp(e) /\ e.pc \notin Writing /\ e.pc # "unlink"
  <2>1. CASE e = Idle
    BY <2>1, IdleIsOp DEF Writing
  <2>2. CASE e = [o EXCEPT !.pc = "reread"]
    BY <1>2, <2>2, Steps DEF IsOp, Writing, Importing
  <2> QED BY <1>3, <2>1, <2>2
<1>5. op' = [g \in Actors |-> op'[g]] /\ \A g \in Actors : IsOp(op'[g])
  BY <1>3, <1>4, Changes DEF StoreInv, TypeInv
<1>6. CASE \E w \in versions[p] : w.n = v.n
  <2>1. UNCHANGED versions
    BY <1>0, <1>6 DEF InsertVersion
  <2>2. TypeInv' /\ UsedInv'
    BY <1>1, <1>5, <2>1 DEF StoreInv, TypeInv, UsedInv, HasLatest, Numbers
  <2>3. p \in torn \/ Matches(p)'
    <3>1. Greatest(p, o.n) => FALSE
      BY <1>2, <1>6 DEF Greatest, StoreInv, TypeInv, Snapshot
    <3>2. p \in torn \/ row[p] = None
      BY <1>0, <1>1, <1>2, <3>1 DEF Saving
    <3> QED BY <1>1, <3>2 DEF Matches
  <2> QED BY <1>0, <1>1, <1>3, <1>4, <2>1, <2>2, <2>3, Releases
<1>7. CASE ~\E w \in versions[p] : w.n = v.n
  <2>1. versions' = [versions EXCEPT ![p] = versions[p] \cup {v}]
    BY <1>0, <1>7 DEF InsertVersion
  <2>2. /\ versions'[p] = versions[p] \cup {v}
        /\ \A q \in Pipelines \ {p} : versions'[q] = versions[q]
        /\ versions' \in [Pipelines -> SUBSET Snapshot]
    BY <1>2, <2>1 DEF StoreInv, TypeInv
  <2>3. HasLatest(p)'
    <3>1. Numbers(p)' = Numbers(p) \cup {o.n}
      <4>1. v.n = o.n
        OBVIOUS
      <4> HIDE DEF v
      <4> QED BY <2>2, <4>1 DEF Numbers
    <3>2. Numbers(p) \subseteq Nat /\ o.n \in Nat
      BY <1>2 DEF Numbers, StoreInv, TypeInv, Snapshot
    <3>3. PICK m \in Numbers(p) : \A n \in Numbers(p) : m >= n
      BY <1>2 DEF StoreInv, TypeInv, HasLatest
    <3>4. CASE m >= o.n
      BY <3>1, <3>2, <3>3, <3>4 DEF HasLatest
    <3>5. CASE ~(m >= o.n)
      <4>1. \A n \in Numbers(p) \cup {o.n} : o.n >= n
        BY <3>2, <3>3, <3>5
      <4> QED BY <3>1, <4>1 DEF HasLatest
    <3> QED BY <3>4, <3>5
  <2>4. \A q \in Pipelines \ {p} : HasLatest(q)'
    BY <2>2 DEF StoreInv, TypeInv, HasLatest, Numbers
  <2>5. TypeInv'
    BY <1>1, <1>5, <2>2, <2>3, <2>4 DEF StoreInv, TypeInv
  <2>6. UsedInv'
    BY <1>0, <1>1, <1>2, <2>2 DEF StoreInv, UsedInv, Saving
  <2>7. p \in torn \/ Matches(p)'
    <3>1. SUFFICES ASSUME p \notin torn, row[p] # None
                   PROVE  /\ file[p] \in File /\ file[p].name = row[p].name
                          /\ \A w \in versions'[p] : w.n <= file[p].n
                          /\ v \in versions'[p]
                          /\ v = [n |-> file[p].n, name |-> file[p].name, code |-> file[p].code]
      BY <1>1 DEF Matches
    <3>2. /\ Greatest(p, o.n) /\ row[p].name = o.def.name
          /\ file[p] = [name |-> o.def.name, code |-> o.def.code, n |-> o.n]
      BY <1>0, <1>1, <1>2, <3>1 DEF Saving, Written
    <3>3. file[p] \in File
      BY <1>2, <3>2 DEF File, Snapshot
    <3>4. \A w \in versions[p] : w.n \in Nat
      BY <1>2 DEF StoreInv, TypeInv, Snapshot
    <3> QED BY <1>2, <2>2, <3>2, <3>3, <3>4 DEF Greatest, Snapshot
  <2> QED BY <1>0, <1>1, <1>3, <1>4, <2>2, <2>5, <2>6, <2>7, Releases
<1> QED BY <1>6, <1>7

LEMMA StepRow ==
  ASSUME StoreInv, NEW h \in Actors, InsertRow(h) \/ UpdateRow(h) PROVE StoreInv'
<1>o. PICK o, p : o = op[h] /\ p = o.id
  OBVIOUS
<1>0. o.pc \in {"insertRow", "updateRow", "replaceRow"} /\ o.pc \in Writing
  BY <1>o DEF InsertRow, UpdateRow, Writing
<1>1. IsOp(o) /\ p \in Pipelines /\ o.def \in Defs
  BY <1>o, <1>0 DEF StoreInv, TypeInv, IsOp
<1>2. CASE InsertRow(h)
  <2> DEFINE x == [name |-> o.def.name, runs |-> 0]
             e == [o EXCEPT !.pc = "created"]
  <2>1. x \in Row /\ x.name = o.def.name
    BY <1>1 DEF Row, Defs
  <2>2. op' = [op EXCEPT ![h] = e] /\ o.pc = "insertRow"
    BY <1>o, <1>2, GoesTo DEF InsertRow, StoreInv
  <2>3. row' = [row EXCEPT ![p] = x] /\ UNCHANGED <<file, versions, used, lock, torn>>
    BY <1>o, <1>2 DEF InsertRow
  <2>4. e = [o EXCEPT !.pc = "created"]
    OBVIOUS
  <2> HIDE DEF x, e
  <2> QED BY <1>o, <2>1, <2>2, <2>3, <2>4, WritesRow
<1>3. CASE UpdateRow(h) /\ row[p] = None
  <2>1. UNCHANGED <<file, row, versions, used, torn>> /\ lock' = None
        /\ op' = [op EXCEPT ![h] = Idle]
    BY <1>o, <1>3 DEF UpdateRow, Finish
  <2>2. op' = [g \in Actors |-> op'[g]] /\ \A g \in Actors : IsOp(op'[g])
    BY <2>1, IdleIsOp, Changes DEF StoreInv, TypeInv
  <2>3. TypeInv' /\ UsedInv' /\ Matches(p)'
    BY <1>3, <2>1, <2>2 DEF StoreInv, TypeInv, UsedInv, HasLatest, Numbers, Matches
  <2>4. Idle.pc \notin Writing /\ Idle.pc # "unlink"
    BY IdleIsOp DEF Writing
  <2> QED BY <1>o, <1>0, <2>1, <2>3, <2>4, IdleIsOp, Releases
<1>4. CASE UpdateRow(h) /\ row[p] # None
  <2> DEFINE x == [row[p] EXCEPT !.name = o.def.name]
  <2>1. row[p] \in Row
    BY <1>1, <1>4 DEF StoreInv, TypeInv
  <2>2. x \in Row /\ x.name = o.def.name
    BY <1>1, <2>1 DEF Row, Defs
  <2>3. row' = [row EXCEPT ![p] = x]
    BY <1>o, <1>1, <1>4 DEF UpdateRow, StoreInv, TypeInv
  <2>4. PICK pc \in {"created", "saved", "replaced"} : Goto(h, pc)
    BY <1>o, <1>4 DEF UpdateRow
  <2> DEFINE e == [o EXCEPT !.pc = pc]
  <2>5. op' = [op EXCEPT ![h] = e]
    BY <1>o, <2>4, GoesTo DEF StoreInv
  <2>7. e = [o EXCEPT !.pc = pc]
    OBVIOUS
  <2>6. UNCHANGED <<file, versions, used, lock, torn>>
    BY <1>o, <1>4 DEF UpdateRow
  <2> HIDE DEF x, e
  <2> QED BY <1>o, <1>0, <1>4, <2>2, <2>3, <2>5, <2>6, <2>7, WritesRow
<1> QED BY <1>2, <1>3, <1>4

-----------------------------------------------------------------------------
(* The rest of the steps. *)
LEMMA StepDelete ==
  ASSUME None \notin Handlers, StoreInv, NEW h \in Handlers, NEW p \in Pipelines, DeletePipeline(h, p)
  PROVE  StoreInv'
<1>0. PICK e : e = [Idle EXCEPT !.pc = "unlink", !.id = p, !.old = file[p].name]
  OBVIOUS
<1>1. /\ Free /\ row[p] # None /\ h \in Actors /\ op' = [op EXCEPT ![h] = e]
      /\ versions' = [versions EXCEPT ![p] = {}] /\ row' = [row EXCEPT ![p] = None]
      /\ UNCHANGED <<file, used, lock, torn>>
  BY <1>0 DEF DeletePipeline, Got, Actors
<1>2. IsOp(e) /\ e.pc = "unlink" /\ e.id = p
  BY <1>0 DEF Idle, IsOp, Writing, Importing
<1>3. /\ op' = [g \in Actors |-> op'[g]] /\ op'[h] = e
      /\ \A g \in Actors \ {h} : op'[g] = op[g]
  BY <1>1, Changes DEF StoreInv, TypeInv
<1>4. /\ versions'[p] = {} /\ row'[p] = None
      /\ \A q \in Pipelines \ {p} : versions'[q] = versions[q] /\ row'[q] = row[q]
      /\ versions' \in [Pipelines -> SUBSET Snapshot] /\ row' \in [Pipelines -> Row \cup {None}]
  BY <1>1 DEF StoreInv, TypeInv
<1>5. TypeInv'
  <2>1. Numbers(p)' = {0} /\ \A q \in Pipelines \ {p} : Numbers(q)' = Numbers(q)
    BY <1>4 DEF Numbers
  <2>2. HasLatest(p)'
    BY <2>1 DEF HasLatest
  <2>3. \A q \in Pipelines \ {p} : HasLatest(q)'
    BY <2>1 DEF HasLatest, StoreInv, TypeInv
  <2> QED BY <1>1, <1>2, <1>3, <1>4, <2>2, <2>3 DEF StoreInv, TypeInv
<1>6. \A g \in Actors : op'[g].pc \notin Writing
  BY <1>1, <1>2, <1>3, FreeMeansNone DEF StoreInv, Writing
<1>7. MutexInv' /\ SavingInv'
  BY <1>6 DEF MutexInv, SavingInv
<1>8. UsedInv' /\ NamesInv'
  BY <1>1, <1>4 DEF StoreInv, UsedInv, NamesInv
<1>9. UnlinkInv'
  <2>1. p \in used
    BY <1>1 DEF StoreInv, UsedInv
  <2>2. \A g \in Actors : op[g].pc = "unlink" => op[g].id \in Pipelines
    BY DEF StoreInv, TypeInv, IsOp
  <2> QED BY <1>1, <1>2, <1>3, <1>4, <2>1, <2>2 DEF StoreInv, UnlinkInv
<1>10. MatchInv'
  <2>1. ASSUME NEW q \in Pipelines \ torn PROVE Matches(q)'
    <3>1. CASE q = p
      BY <1>4, <3>1 DEF Matches
    <3>2. CASE q # p
      BY <1>1, <1>4, <3>2, FreeMeansNone DEF StoreInv, MatchInv, Matches
    <3> QED BY <3>1, <3>2
  <2> QED BY <1>1, <2>1 DEF MatchInv
<1> QED BY <1>5, <1>7, <1>8, <1>9, <1>10 DEF StoreInv

LEMMA StepUnlink == ASSUME StoreInv, NEW h \in Handlers, Unlink(h) PROVE StoreInv'
<1>0. PICK o, p, e : o = op[h] /\ p = o.id /\ e = [o EXCEPT !.pc = "dropCache"]
  OBVIOUS
<1>1. /\ h \in Actors /\ o.pc = "unlink" /\ op' = [op EXCEPT ![h] = e]
      /\ file' = [file EXCEPT ![p] = None]
      /\ UNCHANGED <<row, versions, used, lock, torn>>
  BY <1>0, GoesTo DEF Unlink, Actors, StoreInv
<1>2. IsOp(o) /\ p \in Pipelines /\ row[p] = None
  BY <1>0, <1>1 DEF StoreInv, TypeInv, UnlinkInv, IsOp
<1>3. IsOp(e) /\ e.pc = "dropCache" /\ e.pc \notin Writing
  BY <1>0, <1>2, Steps DEF IsOp, Writing, Importing
<1>4. /\ op' = [g \in Actors |-> op'[g]] /\ op'[h] = e
      /\ \A g \in Actors \ {h} : op'[g] = op[g]
  BY <1>1, Changes DEF StoreInv, TypeInv
<1>5. /\ \A q \in Pipelines \ {p} : file'[q] = file[q]
      /\ file' \in [Pipelines -> File \cup {None}]
  BY <1>1 DEF StoreInv, TypeInv
<1>6. TypeInv'
  BY <1>1, <1>3, <1>4, <1>5 DEF StoreInv, TypeInv, HasLatest, Numbers
<1>7. MutexInv' /\ UsedInv' /\ NamesInv' /\ UnlinkInv'
  BY <1>1, <1>3, <1>4 DEF StoreInv, MutexInv, UsedInv, NamesInv, UnlinkInv
<1>8. SavingInv'
  <2>1. ASSUME NEW g \in Actors, op'[g].pc \in Writing, NEW w, w = op'[g] PROVE Saving(w)'
    <3>1. g # h /\ op[g] = w /\ Saving(w) /\ w.id \in Pipelines
      BY <1>3, <1>4, <2>1 DEF StoreInv, SavingInv, TypeInv, IsOp
    <3>2. \A q \in Actors : op'[q].pc = "unlink" => op'[q] = op[q]
      BY <1>3, <1>4
    <3>3. w.pc = "insertRow" => w.id # p
      BY <1>0, <1>1, <3>1 DEF Saving
    <3>4. \A q \in Pipelines : row[q] # None => q # p
      BY <1>2
    <3>5. w.id # p => (Written(w) => Written(w)')
      BY <1>5, <3>1 DEF Written
    <3> QED BY <1>1, <3>1, <3>2, <3>3, <3>4, <3>5 DEF Saving, Named, Greatest
  <2> QED BY <2>1 DEF SavingInv, Saving, Named, Greatest, Written
<1>9. MatchInv'
  <2>1. ASSUME NEW q \in Pipelines \ torn PROVE InHand(q)' \/ Matches(q)'
    <3>1. CASE q = p
      BY <1>1, <1>2, <3>1 DEF Matches
    <3>2. CASE q # p
      <4>1. InHand(q) => InHand(q)'
        BY <1>0, <1>1, <1>4 DEF InHand, Writing
      <4> QED BY <1>1, <1>5, <3>2, <4>1 DEF StoreInv, MatchInv, Matches
    <3> QED BY <3>1, <3>2
  <2> QED BY <1>1, <2>1 DEF MatchInv
<1> QED BY <1>6, <1>7, <1>8, <1>9 DEF StoreInv

LEMMA StepCrash == ASSUME Cli \notin Handlers, StoreInv, Crash PROVE StoreInv'
<1>1. /\ op' = [h \in Actors |-> IF h = Cli THEN op[h] ELSE Idle]
      /\ torn' = torn \cup {op[h].id : h \in {g \in Handlers : op[g].pc \in Writing}}
      /\ lock' = None /\ UNCHANGED <<file, row, versions, used>>
  BY DEF Crash, Actors, Writing
<1>2. \A h \in Actors : op'[h].pc \notin Writing /\ (op'[h] = op[h] \/ op'[h] = Idle)
  BY <1>1, IdleIsOp DEF StoreInv, MutexInv, Writing
<1>3. TypeInv'
  <2>1. op' = [h \in Actors |-> op'[h]] /\ \A h \in Actors : IsOp(op'[h])
    BY <1>1, <1>2, IdleIsOp DEF StoreInv, TypeInv
  <2> QED BY <1>1, <2>1 DEF StoreInv, TypeInv, HasLatest, Numbers
<1>4. MutexInv' /\ SavingInv' /\ UsedInv' /\ NamesInv'
  BY <1>1, <1>2 DEF StoreInv, MutexInv, SavingInv, UsedInv, NamesInv
<1>5. UnlinkInv'
  BY <1>1, <1>2, IdleIsOp DEF StoreInv, UnlinkInv
<1>6. MatchInv'
  <2>1. ASSUME NEW q \in Pipelines \ torn' PROVE Matches(q)'
    <3>1. q \notin torn /\ ~InHand(q)
      BY <1>1 DEF StoreInv, MutexInv, InHand, Actors
    <3> QED BY <1>1, <3>1 DEF StoreInv, MatchInv, Matches
  <2> QED BY <2>1 DEF MatchInv
<1> QED BY <1>3, <1>4, <1>5, <1>6 DEF StoreInv

LEMMA StepCreate ==
  ASSUME None \notin Handlers, Cli \notin Handlers, StoreInv,
         NEW h \in Handlers, NEW p \in Pipelines, NEW d \in Defs, Create(h, p, d)
  PROVE  StoreInv'
<1>1. /\ Free /\ h \in Actors /\ op[h].pc \notin Writing
      /\ UNCHANGED <<row, versions, torn>>
  BY FreeMeansNone DEF Create, Actors, StoreInv
<1>2. CASE Named(d.name) # {}
  BY <1>1, <1>2, Ended DEF Create
<1>3. CASE Named(d.name) = {}
  <2>0. PICK e : e = [Idle EXCEPT !.pc = "insertRow", !.id = p, !.def = d, !.n = 1]
    OBVIOUS
  <2>1. /\ op' = [op EXCEPT ![h] = e] /\ p \notin used /\ used' = used \cup {p} /\ lock' = h
        /\ file' = [file EXCEPT ![p] = [name |-> d.name, code |-> d.code, n |-> 1]]
    BY <1>3, <2>0 DEF Create
  <2>2. IsOp(e) /\ e.pc = "insertRow" /\ e.id = p /\ e.def = d /\ e.n = 1
    BY <2>0 DEF Idle, IsOp, Writing, Importing
  <2>3. Greatest(e.id, e.n)
    BY <2>1, <2>2 DEF Greatest, StoreInv, UsedInv
  <2> QED BY <1>1, <1>3, <2>1, <2>2, <2>3, Begins
<1> QED BY <1>2, <1>3

LEMMA StepUpdate ==
  ASSUME None \notin Handlers, Cli \notin Handlers, StoreInv,
         NEW h \in Handlers, NEW p \in Pipelines, NEW d \in Defs,
         NEW after \in {"updateRow", "replaceRow"}, Update(h, p, d, after)
  PROVE  StoreInv'
<1>1. /\ Free /\ h \in Actors /\ op[h].pc \notin Writing
      /\ UNCHANGED <<row, versions, used, torn>>
  BY FreeMeansNone DEF Update, Actors, StoreInv
<1>2. CASE Named(d.name) \ {p} # {}
  BY <1>1, <1>2, Ended DEF Update
<1>3. CASE Named(d.name) \ {p} = {}
  <2>0. PICK e, old : e = [Idle EXCEPT !.pc = after, !.id = p, !.def = d, !.old = old,
                                      !.n = NextVersion(p)]
                      /\ op' = [op EXCEPT ![h] = e]
    BY <1>3 DEF Update
  <2>1. /\ lock' = h
        /\ file' = [file EXCEPT ![p] = [name |-> d.name, code |-> d.code, n |-> NextVersion(p)]]
    BY <1>3 DEF Update
  <2>2. NextVersion(p) \in Nat /\ Greatest(p, NextVersion(p))
    BY NextIsNewest DEF StoreInv
  <2>3. IsOp(e) /\ e.pc = after /\ e.id = p /\ e.def = d /\ e.n = NextVersion(p)
    BY <2>0, <2>2 DEF Idle, IsOp, Writing, Importing
  <2> QED BY <1>1, <1>3, <2>0, <2>1, <2>2, <2>3, Begins
<1> QED BY <1>2, <1>3

(* Steps of an import before it calls the store again. *)
LEMMA StepImport ==
  ASSUME StoreInv, NEW h \in Handlers, ImportRead(h) \/ \E d \in Defs : \E c : Import(h, d, c)
  PROVE  StoreInv'
<1>0. h \in Actors /\ IsOp(op[h])
  BY DEF Actors, StoreInv, TypeInv
<1>1. PICK e : /\ op' = [op EXCEPT ![h] = e] /\ IsOp(e)
               /\ e.pc \in {"idle", "importCreate", "importRead", "importUpdate"}
  <2>1. CASE ImportRead(h)
    <3>1. PICK e : op' = [op EXCEPT ![h] = e] /\
        (\/ e = Idle
         \/ e = [op[h] EXCEPT !.pc = "importUpdate"]
         \/ \E n \in Names : e = [Idle EXCEPT !.pc = "importCreate",
                                         !.def = [name |-> n, code |-> op[h].def.code]])
      <4> DEFINE free == {n \in Names : Named(n) = {}}
      <4>1. free # {} => (CHOOSE n \in free : TRUE) \in Names
        OBVIOUS
      <4> QED BY <2>1, <4>1 DEF ImportRead
    <3>2. op[h].pc = "importRead" /\ op[h].def \in Defs /\ op[h].id \in Pipelines
      BY <1>0, <2>1 DEF ImportRead, IsOp, Importing
    <3>4. ASSUME e = [op[h] EXCEPT !.pc = "importUpdate"]
          PROVE  IsOp(e) /\ e.pc = "importUpdate"
      BY <1>0, <3>2, <3>4, Steps DEF IsOp, Writing, Importing
    <3>5. ASSUME NEW n \in Names,
                 e = [Idle EXCEPT !.pc = "importCreate",
                                  !.def = [name |-> n, code |-> op[h].def.code]]
          PROVE  IsOp(e) /\ e.pc = "importCreate"
      BY <3>2, <3>5 DEF Idle, IsOp, Writing, Importing, Defs
    <3>6. IsOp(e) /\ e.pc \in {"idle", "importCreate", "importUpdate"}
      <4>1. CASE e = Idle
        BY <4>1, IdleIsOp
      <4>2. CASE e = [op[h] EXCEPT !.pc = "importUpdate"]
        BY <3>4, <4>2
      <4>3. CASE \E n \in Names : e = [Idle EXCEPT !.pc = "importCreate",
                                                 !.def = [name |-> n, code |-> op[h].def.code]]
        BY <3>5, <4>3
      <4> QED BY <3>1, <4>1, <4>2, <4>3
    <3> QED BY <3>1, <3>6
  <2>2. ASSUME NEW d \in Defs, NEW c, Import(h, d, c)
        PROVE  \E e : /\ op' = [op EXCEPT ![h] = e] /\ IsOp(e)
                      /\ e.pc \in {"idle", "importCreate", "importRead", "importUpdate"}
    <3> DEFINE q == CHOOSE x \in Named(d.name) : TRUE
               create == [Idle EXCEPT !.pc = "importCreate", !.def = d]
               read == [Idle EXCEPT !.pc = "importRead", !.def = d, !.id = q,
                                    !.old = IF c = "rename" THEN None ELSE d.name]
    <3>0. op' = [op EXCEPT ![h] = IF Named(d.name) = {} THEN create
                                  ELSE IF c = "reject" THEN Idle ELSE read]
      BY <2>2 DEF Import
    <3>1. PICK e : /\ op' = [op EXCEPT ![h] = e]
                   /\ e = IF Named(d.name) = {} THEN create
                          ELSE IF c = "reject" THEN Idle ELSE read
      BY <3>0
    <3>3. Named(d.name) # {} => q \in Pipelines
      BY DEF Named
    <3>4. ASSUME e = create PROVE IsOp(e) /\ e.pc = "importCreate"
      BY <3>4 DEF Idle, IsOp, Writing, Importing
    <3>5. ASSUME e = read, q \in Pipelines PROVE IsOp(e) /\ e.pc = "importRead"
      BY <3>5 DEF Idle, IsOp, Writing, Importing
    <3> HIDE DEF create, read
    <3>2. IsOp(e) /\ e.pc \in {"idle", "importCreate", "importRead"}
      BY <3>1, <3>3, <3>4, <3>5, IdleIsOp
    <3> QED BY <3>1, <3>2
  <2> QED BY <2>1, <2>2
<1>2. /\ UNCHANGED <<file, row, versions, used, torn, lock>>
      /\ op[h].pc \in {"idle", "importRead"}
  BY DEF ImportRead, Import, Take, stored
<1> QED BY <1>0, <1>1, <1>2, RowsKept, Outside DEF Writing

(* Steps of a run, of the cache and of the command line: none holds the     *)
(* mutex over its writes.                                                  *)
CacheStep(h) ==
  \/ DropCache(h) \/ ReadForSave(h) \/ InvalidateChanged(h) \/ RunFails(h)
  \/ CacheFiles(h) \/ CacheManifest(h) \/ RecordRun(h)
  \/ \E p \in Pipelines : RunPipeline(h, p)
  \/ h = Cli /\ \E p \in Pipelines : CliRun(p)
  \/ h = Cli /\ \E succeeded \in BOOLEAN : CliRecordRun(succeeded)

LEMMA StepCache == ASSUME StoreInv, NEW h \in Actors, CacheStep(h) PROVE StoreInv'
<1>0. IsOp(op[h])
  BY DEF StoreInv, TypeInv
<1>1. UNCHANGED <<file, versions, used, torn, lock>> /\ op[h].pc \notin Writing
  BY DEF CacheStep, DropCache, ReadForSave, InvalidateChanged, RunFails, CacheFiles, CacheManifest,
         RecordRun, RunPipeline, CliRun, CliRecordRun, Take, stored, Writing
<1>2. PICK e : op' = [op EXCEPT ![h] = e] /\ IsOp(e) /\ e.pc \notin Writing /\ e.pc # "unlink"
  <2> DEFINE Ok(e) == op' = [op EXCEPT ![h] = e] /\ IsOp(e) /\ e.pc \notin Writing /\ e.pc # "unlink"
  <2>1. ASSUME Finish(h) PROVE \E e : Ok(e)
    BY <2>1, IdleIsOp DEF Finish, Writing
  <2>2. ASSUME NEW pc \in {"cacheManifest", "recordRun", "running"}, Goto(h, pc)
        PROVE  \E e : Ok(e)
    <3>1. PICK e : e = [op[h] EXCEPT !.pc = pc]
      OBVIOUS
    <3>2. op' = [op EXCEPT ![h] = e]
      BY <2>2, <3>1, GoesTo DEF StoreInv
    <3>3. IsOp(e) /\ e.pc = pc
      BY <1>0, <3>1, Steps DEF IsOp, Writing, Importing
    <3> QED BY <3>2, <3>3 DEF Writing
  <2>3. CASE ReadForSave(h)
    <3>1. PICK e, d, m : op' = [op EXCEPT ![h] = e] /\
           (e = Idle \/ e = [op[h] EXCEPT !.pc = "invalidate", !.def = d, !.seen = m])
      <4>1. PICK d, m : d = Record(op[h].id) /\ m = manifest[d.name]
        OBVIOUS
      <4>2. \/ op' = [op EXCEPT ![h] = Idle]
            \/ op' = [op EXCEPT ![h] = [op[h] EXCEPT !.pc = "invalidate", !.def = d, !.seen = m]]
        BY <2>3, <4>1 DEF ReadForSave
      <4>3. PICK on : on = [op[h] EXCEPT !.pc = "invalidate", !.def = d, !.seen = m]
        OBVIOUS
      <4> QED BY <4>2, <4>3
    <3>2. IsOp(e) /\ e.pc \in {"idle", "invalidate"}
      BY <1>0, <3>1, IdleIsOp DEF IsOp, Writing, Importing
    <3> QED BY <3>1, <3>2 DEF Writing
  <2>4. ASSUME NEW p \in Pipelines, RunPipeline(h, p) PROVE \E e : Ok(e)
    <3>1. PICK e : e = [Idle EXCEPT !.pc = "running", !.id = p, !.def = Record(p)]
                   /\ op' = [op EXCEPT ![h] = e]
      BY <2>4 DEF RunPipeline
    <3>2. IsOp(e) /\ e.pc = "running"
      BY <3>1 DEF Idle, IsOp, Writing, Importing
    <3> QED BY <3>1, <3>2 DEF Writing
  <2>5. ASSUME h = Cli, NEW p \in Pipelines, CliRun(p) PROVE \E e : Ok(e)
    <3>1. PICK e : e = [Idle EXCEPT !.pc = "executing", !.id = p, !.def = Record(p)]
                   /\ op' = [op EXCEPT ![h] = e]
      BY <2>5 DEF CliRun
    <3>2. IsOp(e) /\ e.pc = "executing"
      BY <3>1 DEF Idle, IsOp, Writing, Importing
    <3> QED BY <3>1, <3>2 DEF Writing
  <2>6. CASE DropCache(h) \/ InvalidateChanged(h) \/ RunFails(h) \/ RecordRun(h)
    BY <2>1, <2>6 DEF DropCache, InvalidateChanged, RunFails, RecordRun
  <2>7. CASE CacheFiles(h) \/ CacheManifest(h)
             \/ (h = Cli /\ \E succeeded \in BOOLEAN : CliRecordRun(succeeded))
    BY <2>1, <2>2, <2>7 DEF CacheFiles, CacheManifest, CliRecordRun
  <2> QED BY <2>3, <2>4, <2>5, <2>6, <2>7 DEF CacheStep
<1>3. RunsCounted
  <2>1. CASE UNCHANGED row
    BY <2>1, RowsKept
  <2>2. CASE row' = [row EXCEPT ![op[h].id] = CountRun(@)]
    <3>1. \A p \in Pipelines : row[p] = None \/ row[p] \in Row
      BY DEF StoreInv, TypeInv
    <3>2. ASSUME NEW r \in Row
          PROVE  CountRun(r) = None \/ (CountRun(r) \in Row /\ CountRun(r).name = r.name)
      BY DEF Row, CountRun
    <3>3. CountRun(None) = None
      BY DEF CountRun
    <3>5. \A p \in Pipelines : row'[p] = row[p] \/ row'[p] = CountRun(row[p])
      BY <2>2 DEF StoreInv, TypeInv
    <3>4. row' = [p \in Pipelines |-> row'[p]]
      BY <2>2 DEF StoreInv, TypeInv
    <3> QED BY <3>1, <3>2, <3>3, <3>4, <3>5 DEF RunsCounted
  <2> QED BY <2>1, <2>2 DEF CacheStep, DropCache, ReadForSave, InvalidateChanged, RunFails,
         CacheFiles, CacheManifest, RecordRun, RunPipeline, CliRun, CliRecordRun, stored
<1> QED BY <1>1, <1>2, <1>3, Outside

LEMMA StepStore ==
  ASSUME None \notin Handlers, Cli \notin Handlers
  PROVE  StoreInv /\ [StoreNext]_storeVars => StoreInv'
<1> SUFFICES ASSUME StoreInv, [StoreNext]_storeVars PROVE StoreInv'
  OBVIOUS
<1>0. /\ \A h \in Handlers : h \in Actors /\ IsOp(op[h])
      /\ Cli \in Actors
      /\ \A p \in Pipelines : \A v \in versions[p] : [name |-> v.name, code |-> v.code] \in Defs
  <2>1. \A p \in Pipelines : \A v \in versions[p] : v \in Snapshot
    BY DEF StoreInv, TypeInv
  <2> QED BY <2>1 DEF Actors, StoreInv, TypeInv, Snapshot, Defs
<1>1. ASSUME NEW h \in Handlers, NEW p \in Pipelines, NEW d \in Defs,
             CreatePipeline(h, p, d) \/ UpdatePipeline(h, p, d)
      PROVE  StoreInv'
  BY <1>1, StepCreate, StepUpdate DEF CreatePipeline, UpdatePipeline
<1>2. ASSUME NEW h \in Handlers, NEW p \in Pipelines, NEW v \in versions[p], RestoreVersion(h, p, v)
      PROVE  StoreInv'
  BY <1>0, <1>2, StepUpdate DEF RestoreVersion
<1>3. ASSUME NEW h \in Handlers, NEW p \in Pipelines, ImportCreate(h, p) PROVE StoreInv'
  <2>1. op[h].def \in Defs
    BY <1>0, <1>3 DEF ImportCreate, IsOp, Importing
  <2> QED BY <1>3, <2>1, StepCreate DEF ImportCreate
<1>4. ASSUME NEW h \in Handlers, ImportUpdate(h) PROVE StoreInv'
  <2>1. op[h].def \in Defs /\ op[h].id \in Pipelines
    BY <1>0, <1>4 DEF ImportUpdate, IsOp, Importing
  <2> QED BY <1>4, <2>1, StepUpdate DEF ImportUpdate
<1>5. ASSUME NEW h \in Handlers,
             InsertRow(h) \/ UpdateRow(h) \/ InsertVersion(h) \/ Unlink(h) \/ ImportRead(h)
      PROVE  StoreInv'
  BY <1>0, <1>5, StepRow, StepInsertVersion, StepUnlink, StepImport
<1>6. ASSUME NEW h \in Handlers, NEW d \in Defs, NEW c, Import(h, d, c) PROVE StoreInv'
  BY <1>6, StepImport
<1>7. ASSUME NEW h \in Actors, CacheStep(h) PROVE StoreInv'
  BY <1>7, StepCache
<1>8. ASSUME NEW h \in Handlers, NEW p \in Pipelines, DeletePipeline(h, p) PROVE StoreInv'
  BY <1>8, StepDelete
<1>9. CASE Crash
  BY <1>9, StepCrash
<1>10. CASE UNCHANGED storeVars
  <2>1. UNCHANGED <<file, row, versions, used, lock, op, torn>>
    BY <1>10 DEF storeVars
  <2>2. TypeInv' /\ MutexInv' /\ UsedInv' /\ NamesInv' /\ UnlinkInv'
    BY <2>1 DEF StoreInv, TypeInv, MutexInv, UsedInv, NamesInv, UnlinkInv, HasLatest, Numbers
  <2>3. SavingInv'
    BY <2>1 DEF StoreInv, SavingInv, Saving, Named, Greatest, Written
  <2>4. MatchInv'
    BY <2>1 DEF StoreInv, MatchInv, Matches, InHand
  <2> QED BY <2>2, <2>3, <2>4 DEF StoreInv
<1> QED
  BY <1>0, <1>1, <1>2, <1>3, <1>4, <1>5, <1>6, <1>7, <1>8, <1>9, <1>10 DEF StoreNext, CacheStep, Actors

LEMMA InitStore == StoreInit => StoreInv
<1> SUFFICES ASSUME StoreInit PROVE StoreInv
  OBVIOUS
<1>1. op = [h \in Actors |-> Idle] /\ \A h \in Actors : IsOp(op[h]) /\ op[h].pc = "idle"
  BY IdleIsOp DEF StoreInit, Actors
<1>2. \A p \in Pipelines : HasLatest(p)
  BY DEF StoreInit, HasLatest, Numbers
<1>3. TypeInv
  BY <1>1, <1>2, FS_EmptySet DEF StoreInit, TypeInv
<1>4. MutexInv /\ UsedInv /\ NamesInv /\ UnlinkInv /\ SavingInv
  BY <1>1 DEF StoreInit, MutexInv, UsedInv, NamesInv, UnlinkInv, SavingInv, Writing
<1>5. MatchInv
  BY DEF StoreInit, MatchInv, Matches
<1> QED BY <1>3, <1>4, <1>5 DEF StoreInv

-----------------------------------------------------------------------------
(* The number of the newest snapshot is the file's. *)
LEMMA LatestIsFile ==
  ASSUME TypeInv, NEW p \in Pipelines, row[p] # None, Matches(p) PROVE file[p].n = Latest(p)
<1>1. /\ file[p].n \in Nat /\ file[p].n \in Numbers(p) /\ \A v \in versions[p] : v.n <= file[p].n
  BY DEF Matches, File, Numbers
<1>2. \A v \in versions[p] : v.n \in Nat
  BY DEF TypeInv, Snapshot
<1> QED BY <1>1, <1>2, LatestBounds DEF Numbers

(* An export has an entry for each row: the names are told apart. *)
LEMMA ExportIsComplete ==
  ASSUME StoreInv, \A p \in Pipelines : Matches(p), None \notin File
  PROVE  Cardinality(BulkExport) = Cardinality(Listed)
<1>1. \A p \in Listed : file[p] # None /\ file[p].name = row[p].name
  BY DEF Listed, Matches
<1>2. BulkExport = {row[p].name : p \in Listed}
  <2>1. ListPipelines = {Record(p) : p \in Listed}
    BY <1>1 DEF ListPipelines, ListFails, List
  <2>2. \A p \in Listed : Record(p).name = row[p].name
    BY <1>1 DEF Record
  <2> QED BY <2>1, <2>2 DEF BulkExport
<1>3. IsFiniteSet(Listed)
  <2>1. Listed \subseteq used /\ IsFiniteSet(used)
    BY DEF Listed, StoreInv, UsedInv, TypeInv
  <2> QED BY <2>1, FS_Subset
<1> DEFINE f == [p \in Listed |-> row[p].name]
<1>4. f \in Bijection(Listed, BulkExport)
  BY <1>2 DEF Bijection, Injection, Surjection, IsInjective, Listed, StoreInv, NamesInv
<1>5. ExistsBijection(Listed, BulkExport)
  BY <1>4 DEF ExistsBijection
<1> QED BY <1>3, <1>5, FS_Bijection

(* Between two store operations, a pipeline that no crash has torn has a    *)
(* file, its row has the file's name, and its newest snapshot is the file;  *)
(* and without a crash an export has as many pipelines as there are rows:   *)
(* SnapshotMatchesFile, for any number of pipelines, requests and versions. *)
THEOREM SnapshotMatchesFileHolds == StoreSpec => []SnapshotMatchesFile
<1>1. ASSUME StoreInv, Free, NEW p \in Pipelines \ torn, row[p] # None
      PROVE  /\ file[p] # None
             /\ file[p].name = row[p].name
             /\ file[p].n = Latest(p)
             /\ [n |-> file[p].n, name |-> file[p].name, code |-> file[p].code] \in versions[p]
             /\ torn = {} => Cardinality(BulkExport) = Cardinality(Listed)
  <2>1. \A q \in Pipelines \ torn : Matches(q)
    BY <1>1, FreeMeansNone, StoreAssumption DEF StoreInv, MatchInv
  <2>2. torn = {} => Cardinality(BulkExport) = Cardinality(Listed)
    BY <1>1, <2>1, ExportIsComplete, StoreAssumption DEF File
  <2>3. file[p].n = Latest(p)
    BY <1>1, <2>1, LatestIsFile DEF StoreInv
  <2> QED BY <1>1, <2>1, <2>2, <2>3, StoreAssumption DEF Matches, File
<1>2. StoreInv => SnapshotMatchesFile
  BY <1>1 DEF SnapshotMatchesFile
<1>3. StoreInv /\ [StoreNext]_storeVars => StoreInv'
  BY StepStore, StoreAssumption
<1> QED BY <1>2, <1>3, InitStore, PTL DEF StoreSpec

-----------------------------------------------------------------------------
(* The output cache.  What is cached under a name, of which two requests    *)
(* never worked at once and which kept its pipeline, is empty or of one run *)
(* of one code: of the saved code when nobody works on the name (AtRest),   *)
(* and of what the request in hand has got to while one does (Stage).       *)
Blank(n) == outputs[n] = NoManifest /\ manifest[n] \in {None, NoManifest}
Full(n, c) ==
  /\ outputs[n] = [x \in CachedNodes |-> <<x, c>>]
  /\ manifest[n] = [x \in CachedNodes |-> IF x = "source" THEN c ELSE "transform"]
Fits(n, c) == Blank(n) \/ Full(n, c)
Coherent(n) == \E c \in Codes : Fits(n, c)

WorksOn(o, n) == o.pc \notin {"idle"} \cup Importing /\ n \in NamesOf(o)

Stage(o, n) ==
  LET p == o.id IN
  /\ o.pc \in {"unlink", "dropCache"} => o.old = n /\ Named(n) = {}
  /\ o.pc \notin {"unlink", "dropCache"} => o.def.name = n
  /\ o.pc \notin {"replaceRow", "replaced"}
  /\ o.pc \in {"insertRow", "created"} => Blank(n)
  /\ o.pc = "updateRow" => \/ row[p] = None /\ Named(n) = {} /\ Blank(n)
                           \/ p \in Named(n) /\ p \notin torn
  /\ o.pc = "saved" => p \notin torn
  /\ o.pc \in {"created", "saved", "reread", "invalidate", "running", "executing",
               "cacheManifest", "recordRun"} => p \in Named(n)
  /\ o.pc \in {"updateRow", "saved", "reread", "invalidate"} => Coherent(n)
  /\ o.pc = "invalidate" => o.seen = manifest[n] /\ o.seen # None
  /\ o.pc \in {"invalidate", "running", "executing", "cacheManifest", "recordRun"} =>
       o.def = Record(p)
  /\ o.pc \in {"running", "executing", "recordRun"} => Fits(n, o.def.code)
  /\ o.pc = "cacheManifest" => outputs[n] = [x \in CachedNodes |-> <<x, o.def.code>>]

AtRest(n) == (Named(n) = {} => Blank(n)) /\ \A p \in Named(n) : Fits(n, file[p].code)

Followed(n) ==
  /\ \A g, h \in Actors : WorksOn(op[g], n) /\ WorksOn(op[h], n) => g = h
  /\ \A h \in Actors : WorksOn(op[h], n) => Stage(op[h], n)
  /\ (\A h \in Actors : ~WorksOn(op[h], n)) => AtRest(n)

FollowInv == \A n \in Names \ mixed : Followed(n)

(* A row and its file differ in the name only where the cache is given up.  *)
AgreeInv == \A p \in Pipelines : row[p] # None =>
  /\ file[p] # None
  /\ file[p].name = row[p].name \/ {file[p].name, row[p].name} \subseteq mixed
  /\ p \in torn => {file[p].name, row[p].name} \subseteq mixed

Held == {"importRead", "importUpdate", "updateRow", "replaceRow", "reread"}
Caching == {"reread", "invalidate", "running", "executing", "cacheManifest"}

HeldInv ==
  /\ torn \subseteq used /\ used \subseteq Pipelines
  /\ \A h \in Actors : /\ op[h].pc \in Held => op[h].id \in used
                       /\ op[h].pc \in Caching => op[h].def \in Defs
                       /\ op[h].pc = "insertRow" => op[h].id \notin torn
  /\ \A g, h \in Actors : ~ (op[h].pc = "insertRow" /\ op[g].pc = "reread" /\ op[g].id = op[h].id)

(* A save that re-reads its record finds the name that it saved. *)
RereadInv == \A h \in Actors : op[h].pc = "reread" /\ row[op[h].id] # None =>
  row[op[h].id].name \in mixed \cup {op[h].def.name}

CacheTypes == outputs = [n \in Names |-> outputs[n]] /\ manifest = [n \in Names |-> manifest[n]]

CacheInv == CacheTypes /\ FollowInv /\ AgreeInv /\ HeldInv /\ RereadInv

-----------------------------------------------------------------------------
(* What is left as it was under a name. *)
Same(n) ==
  /\ outputs'[n] = outputs[n] /\ manifest'[n] = manifest[n]
  /\ Named(n)' = Named(n) /\ \A p \in Named(n) : file'[p] = file[p]

LEMMA FitsKept == ASSUME NEW n, NEW c, Same(n) PROVE (Blank(n) <=> Blank(n)') /\ (Fits(n, c) <=> Fits(n, c)')
BY DEF Same, Blank, Full, Fits, NoManifest

LEMMA StageKept ==
  ASSUME NEW n, NEW o, Same(n), Stage(o, n), torn' = torn,
         o.pc = "updateRow" /\ row[o.id] = None => row'[o.id] = None
  PROVE  Stage(o, n)'
<1>1. Coherent(n) => Coherent(n)'
  BY FitsKept DEF Coherent
<1>2. o.id \in Named(n) => o.id \in Named(n)' /\ Record(o.id)' = Record(o.id)
  BY DEF Same, Record
<1>3. Blank(n) => Blank(n)'
  BY FitsKept
<1>4. Fits(n, o.def.code) => Fits(n, o.def.code)'
  BY FitsKept
<1>5. Named(n)' = Named(n) /\ outputs'[n] = outputs[n] /\ manifest'[n] = manifest[n]
  BY DEF Same
<1> QED BY <1>1, <1>2, <1>3, <1>4, <1>5 DEF Stage

LEMMA RestKept == ASSUME NEW n, Same(n), AtRest(n) PROVE AtRest(n)'
<1>1. Named(n)' = Named(n) /\ \A p \in Named(n) : file'[p] = file[p]
  BY DEF Same
<1>2. (Named(n) = {} => Blank(n)) /\ \A p \in Named(n) : Fits(n, file[p].code)
  BY DEF AtRest
<1>3. Blank(n) => Blank(n)'
  BY FitsKept
<1>4. ASSUME NEW p \in Named(n) PROVE Fits(n, file[p].code)'
  <2>1. PICK c : c = file[p].code
    OBVIOUS
  <2>2. Fits(n, c)'
    BY <1>2, <2>1, FitsKept
  <2>3. file'[p].code = c
    BY <1>1, <2>1
  <2> QED BY <2>2, <2>3 DEF Fits, Full
<1> QED BY <1>1, <1>2, <1>3, <1>4 DEF AtRest

(* A turn of one actor: of the names that it works on, before or after, it  *)
(* is to say how far it is; the rest it leaves alone.                       *)
Turn(h, o, e, n) ==
  /\ WorksOn(e, n) => Stage(e, n)' /\ (WorksOn(o, n) \/ n \notin Busy(h))
  /\ WorksOn(o, n) /\ ~WorksOn(e, n) => AtRest(n)'
  /\ ~WorksOn(o, n) /\ ~WorksOn(e, n) => Same(n)

LEMMA FollowTurn ==
  ASSUME StoreInv, FollowInv, NEW h \in Actors, NEW e, NEW o, o = op[h], op' = [op EXCEPT ![h] = e],
         mixed \subseteq mixed', torn' = torn,
         o.pc \in Writing \/ \A p \in Pipelines : row[p] = None => row'[p] = None,
         \A n \in Names \ mixed' : Turn(h, o, e, n)
  PROVE  FollowInv'
<1>1. /\ op'[h] = e /\ \A g \in Actors \ {h} : op'[g] = op[g]
  BY Changes DEF StoreInv, TypeInv
<1>2. ASSUME NEW n \in Names \ mixed' PROVE Followed(n)'
  <2>t. Turn(h, o, e, n)
    OBVIOUS
  <2>0. /\ Followed(n) /\ \A g \in Actors \ {h} : WorksOn(op[g], n) => n \in Busy(h)
    BY DEF FollowInv, WorksOn, Busy, Actors
  <2>w. \A w : WorksOn(w, n)' <=> WorksOn(w, n)
    BY DEF WorksOn, NamesOf
  <2>1. \A g \in Actors \ {h} : ~(WorksOn(op[g], n) /\ (WorksOn(o, n) \/ WorksOn(e, n)))
    BY <2>t, <2>0 DEF Followed, Turn
  <2>2. \A g, k \in Actors : WorksOn(op'[g], n) /\ WorksOn(op'[k], n) => g = k
    BY <1>1, <2>t, <2>0, <2>1 DEF Followed, Turn
  <2>3. ASSUME NEW g \in Actors, NEW w, w = op'[g], WorksOn(w, n) PROVE Stage(w, n)'
    <3>1. CASE g = h
      BY <1>1, <2>t, <2>3, <3>1 DEF Turn
    <3>2. CASE g # h
      <4>1. w = op[g] /\ Stage(w, n) /\ Same(n)
        BY <1>1, <2>t, <2>0, <2>1, <2>3, <3>2 DEF Followed, Turn
      <4>2. w.pc = "updateRow" /\ row[w.id] = None => row'[w.id] = None
        <5>1. w.pc = "updateRow" => w.pc \in Writing /\ w.id \in Pipelines /\ o.pc \notin Writing
          BY <3>2, <4>1, OneWriter DEF StoreInv, TypeInv, IsOp, Writing
        <5> QED BY <5>1
      <4> QED BY <4>1, <4>2, StageKept
    <3> QED BY <3>1, <3>2
  <2>4. ASSUME \A g \in Actors : ~WorksOn(op'[g], n) PROVE AtRest(n)'
    <3>1. CASE WorksOn(o, n)
      BY <1>1, <2>t, <2>4, <3>1 DEF Turn
    <3>2. CASE ~WorksOn(o, n)
      <4>1. ~WorksOn(e, n) /\ \A g \in Actors : ~WorksOn(op[g], n)
        BY <1>1, <2>4, <3>2
      <4> QED BY <2>t, <2>0, <3>2, <4>1, RestKept DEF Followed, Turn
    <3> QED BY <3>1, <3>2
  <2>5. \A g \in Actors : WorksOn(op'[g], n) => Stage(op[g], n)'
    BY <2>3 DEF Stage, Named, Blank, Fits, Full, Coherent, Record, NoManifest
  <2>6. \A g \in Actors : WorksOn(op[g], n)' <=> WorksOn(op'[g], n)
    BY DEF WorksOn, NamesOf
  <2> QED BY <2>2, <2>4, <2>5, <2>6 DEF Followed
<1> QED BY <1>2 DEF FollowInv

-----------------------------------------------------------------------------
(* The names, where no row takes a name and no file of a row is written.    *)
LEMMA NamesKept ==
  ASSUME StoreInv, AgreeInv, HeldInv, RereadInv,
         NEW h \in Actors, NEW e, op' = [op EXCEPT ![h] = e],
         mixed \subseteq mixed', used \subseteq used', used' \subseteq Pipelines, torn' = torn,
         \A p \in Pipelines : row'[p] # None =>
           row[p] # None /\ row'[p].name = row[p].name /\ file'[p] = file[p],
         e.pc \in Held => e.id \in used', e.pc \in Caching => e.def \in Defs,
         e.pc = "insertRow" => /\ e.id \notin used /\ e.id \in used',
         e.pc = "reread" => /\ e.id \in Pipelines /\ op[h].pc \in Writing
                            /\ row'[e.id] # None => row'[e.id].name = e.def.name
  PROVE  AgreeInv' /\ HeldInv' /\ RereadInv'
<1>1. /\ op'[h] = e /\ \A g \in Actors \ {h} : op'[g] = op[g]
  BY Changes DEF StoreInv, TypeInv
<1>2. AgreeInv'
  BY DEF AgreeInv
<1>3. torn' \subseteq used' /\ used' \subseteq Pipelines
  BY DEF HeldInv
<1>4. ASSUME NEW g \in Actors
      PROVE  /\ op'[g].pc \in Held => op'[g].id \in used'
             /\ op'[g].pc \in Caching => op'[g].def \in Defs
             /\ op'[g].pc = "insertRow" => op'[g].id \notin torn'
  BY <1>1 DEF HeldInv
<1>5. ASSUME NEW f \in Actors, NEW g \in Actors,
             op'[g].pc = "insertRow" /\ op'[f].pc = "reread" /\ op'[f].id = op'[g].id
      PROVE  FALSE
  <2>1. CASE g = h
    <3>1. f # h /\ op[f].pc = "reread" /\ op[f].id = e.id /\ e.id \notin used
      BY <1>1, <1>5, <2>1
    <3> QED BY <3>1 DEF HeldInv, Held
  <2>2. CASE g # h /\ f = h
    <3>1. op[g].pc \in Writing /\ op[h].pc \in Writing
      BY <1>1, <1>5, <2>2 DEF Writing
    <3> QED BY <2>2, <3>1, OneWriter DEF StoreInv
  <2>3. CASE g # h /\ f # h
    BY <1>1, <1>5, <2>3 DEF HeldInv
  <2> QED BY <2>1, <2>2, <2>3
<1>6. HeldInv'
  BY <1>3, <1>4, <1>5 DEF HeldInv
<1>7. ASSUME NEW g \in Actors, op'[g].pc = "reread", row'[op'[g].id] # None
      PROVE  row'[op'[g].id].name \in mixed' \cup {op'[g].def.name}
  <2>1. CASE g = h
    BY <1>1, <1>7, <2>1
  <2>2. CASE g # h
    <3>1. op'[g] = op[g] /\ op[g].id \in Pipelines
      BY <1>1, <1>7, <2>2 DEF HeldInv, Held
    <3> QED BY <1>7, <3>1 DEF RereadInv
  <2> QED BY <2>1, <2>2
<1> QED BY <1>2, <1>6, <1>7 DEF RereadInv

-----------------------------------------------------------------------------
(* A pipeline that is there has a record, whose name is the row's unless    *)
(* the cache of both is given up.                                           *)
LEMMA Recorded ==
  ASSUME StoreInv, CacheInv, NEW p \in Pipelines, row[p] # None
  PROVE  /\ file[p] \in File /\ p \in used
         /\ Record(p) \in Defs /\ Record(p) # None /\ Record(p).name = file[p].name
         /\ Record(p).code = file[p].code
         /\ row[p].name \in Names
         /\ \A n \in Names \ mixed : file[p].name = n <=> row[p].name = n
<1>1. file[p] \in File /\ row[p] \in Row
  BY DEF CacheInv, AgreeInv, StoreInv, TypeInv
<1>2. Record(p) \in Defs /\ Record(p).name = file[p].name /\ Record(p).code = file[p].code
  BY <1>1 DEF Record, File, Defs
<1> QED BY <1>1, <1>2, StoreAssumption DEF CacheInv, AgreeInv, Row, StoreInv, UsedInv

LEMMA Sole == ASSUME StoreInv, NEW n, NEW p \in Named(n) PROVE Named(n) = {p}
BY DEF StoreInv, NamesInv, Named

LEMMA RestsOn == ASSUME StoreInv, NEW n, NEW p \in Named(n), Fits(n, file[p].code) PROVE AtRest(n)
BY Sole DEF AtRest

(* Nobody works on a name that no other request knows. *)
LEMMA Unclaimed ==
  ASSUME CacheInv, NEW h \in Actors, op[h].pc \in {"idle"} \cup Importing,
         NEW n \in Names \ mixed, n \notin Busy(h)
  PROVE  AtRest(n)
BY DEF CacheInv, FollowInv, Followed, WorksOn, Busy, Actors

LEMMA IdleNames == \A n : ~WorksOn(Idle, n)
BY DEF WorksOn, Idle

(* Requests that have got nowhere, or that decide what to do. *)
LEMMA Quiet ==
  ASSUME StoreInv, CacheInv, NEW h \in Actors, NEW e, op' = [op EXCEPT ![h] = e],
         op[h].pc \in {"idle"} \cup Importing, e.pc \in {"idle"} \cup Importing,
         e.pc \in {"importRead", "importUpdate"} => e.id \in used,
         UNCHANGED <<file, row, used, torn, mixed, outputs, manifest>>
  PROVE  CacheInv'
<1>0. PICK o : o = op[h]
  OBVIOUS
<1>1. \A n : ~WorksOn(o, n) /\ ~WorksOn(e, n) /\ Same(n)
  BY <1>0 DEF WorksOn, Same, Named
<1>2. FollowInv'
  <2>1. \A n : Turn(h, o, e, n)
    BY <1>1 DEF Turn
  <2> QED BY <1>0, <2>1, FollowTurn DEF CacheInv
<1>3. AgreeInv' /\ HeldInv' /\ RereadInv'
  <2>1. /\ used \subseteq Pipelines /\ e.pc \notin Caching \cup {"insertRow", "reread"}
        /\ e.pc \in Held => e.id \in used
    BY DEF CacheInv, HeldInv, Caching, Importing, Held
  <2> QED BY <2>1, NamesKept DEF CacheInv
<1>4. CacheTypes'
  BY DEF CacheInv, CacheTypes
<1> QED BY <1>2, <1>3, <1>4 DEF CacheInv

LEMMA CacheImport ==
  ASSUME StoreInv, CacheInv, NEW h \in Actors,
         ImportRead(h) \/ \E d \in Defs, c \in {"reject", "rename", "overwrite"} : Import(h, d, c)
  PROVE  CacheInv'
<1>0. UNCHANGED <<file, row, used, torn, mixed, outputs, manifest>>
  BY DEF ImportRead, Import, stored, cached
<1>1. CASE ImportRead(h)
  <2>1. op[h].pc = "importRead" /\ op[h].id \in used
    BY <1>1 DEF ImportRead, CacheInv, HeldInv, Held
  <2>2. PICK d, update, create, e :
          /\ update = [op[h] EXCEPT !.pc = "importUpdate"]
          /\ create = [Idle EXCEPT !.pc = "importCreate", !.def = d]
          /\ op' = [op EXCEPT ![h] = e] /\ e \in {Idle, update, create}
    BY <1>1 DEF ImportRead
  <2>3. /\ Idle.pc = "idle" /\ create.pc = "importCreate"
        /\ update.pc = "importUpdate" /\ update.id = op[h].id
    <3>1. IsOp(op[h])
      BY DEF StoreInv, TypeInv
    <3>2. update.pc = "importUpdate" /\ update.id = op[h].id
      BY <2>2, <3>1, Steps
    <3> QED BY <2>2, <3>2 DEF Idle
  <2>4. /\ e.pc \in {"idle"} \cup Importing
        /\ e.pc \in {"importRead", "importUpdate"} => e.id \in used
    BY <2>1, <2>2, <2>3 DEF Importing
  <2> QED BY <1>0, <2>1, <2>2, <2>4, Quiet DEF Importing
<1>2. ASSUME NEW d \in Defs, NEW c \in {"reject", "rename", "overwrite"}, Import(h, d, c)
      PROVE  CacheInv'
  <2>1. PICK q, old, create, read :
          /\ q = CHOOSE p \in Named(d.name) : TRUE
          /\ old = IF c = "rename" THEN None ELSE d.name
          /\ create = [Idle EXCEPT !.pc = "importCreate", !.def = d]
          /\ read = [Idle EXCEPT !.pc = "importRead", !.def = d, !.id = q, !.old = old]
    OBVIOUS
  <2>2. PICK e : /\ op' = [op EXCEPT ![h] = e]
                 /\ e \in {Idle, create} \/ (Named(d.name) # {} /\ e = read)
    BY <1>2, <2>1 DEF Import
  <2>3. Named(d.name) # {} => q \in used
    BY <2>1 DEF Named, StoreInv, UsedInv
  <2>4. /\ Idle.pc = "idle" /\ create.pc = "importCreate"
        /\ read.pc = "importRead" /\ read.id = q
    BY <2>1 DEF Idle
  <2>5. /\ e.pc \in {"idle"} \cup Importing
        /\ e.pc \in {"importRead", "importUpdate"} => e.id \in used
    BY <2>2, <2>3, <2>4 DEF Importing
  <2> QED BY <1>0, <1>2, <2>2, <2>5, Quiet DEF Import, Take
<1> QED BY <1>1, <1>2

(* Steps that write no definition: at most they count a run.                *)
Counted ==
  /\ row' \in [Pipelines -> Row \cup {None}]
  /\ \A p \in Pipelines : IF row[p] = None THEN row'[p] = None
                          ELSE row'[p] # None /\ row'[p].name = row[p].name

LEMMA RunCounted == ASSUME StoreInv, NEW p, row' = [row EXCEPT ![p] = CountRun(@)] PROVE Counted
<1>1. \A q \in Pipelines : row[q] \in Row \cup {None}
  BY DEF StoreInv, TypeInv
<1>2. CountRun(None) = None
  BY DEF CountRun
<1>3. ASSUME NEW r \in Row
      PROVE  r # None /\ CountRun(r) # None /\ CountRun(r) \in Row /\ CountRun(r).name = r.name
  <2>1. r # None
    BY StoreAssumption DEF Row
  <2>2. CountRun(r) = [r EXCEPT !.runs = @ + 1]
    BY <2>1 DEF CountRun
  <2>3. CountRun(r) \in Row /\ CountRun(r).name = r.name
    BY <2>2 DEF Row
  <2> QED BY <2>1, <2>3, StoreAssumption DEF Row
<1>4. /\ row' = [q \in Pipelines |-> row'[q]]
      /\ \A q \in Pipelines : row'[q] = row[q] \/ row'[q] = CountRun(row[q])
  BY DEF StoreInv, TypeInv
<1> QED BY <1>1, <1>2, <1>3, <1>4 DEF Counted

LEMMA RowsStay == ASSUME StoreInv, UNCHANGED row PROVE Counted
BY DEF StoreInv, TypeInv, Counted

LEMMA CacheTurn ==
  ASSUME StoreInv, CacheInv, NEW h \in Actors, NEW o, o = op[h], NEW e, op' = [op EXCEPT ![h] = e],
         UNCHANGED <<file, used, torn>>, Counted, mixed \subseteq mixed', CacheTypes',
         e.pc \notin {"insertRow"} \cup Held, e.pc \in Caching => e.def \in Defs,
         \A n \in Names \ mixed' : Turn(h, o, e, n)
  PROVE  CacheInv'
<1>2. FollowInv'
  <2>1. FollowInv /\ \A p \in Pipelines : row[p] = None => row'[p] = None
    BY DEF CacheInv, Counted
  <2> QED BY <2>1, FollowTurn
<1>3. AgreeInv' /\ HeldInv' /\ RereadInv'
  BY NamesKept DEF CacheInv, HeldInv, Held, Counted
<1> QED BY <1>2, <1>3 DEF CacheInv

LEMMA NamedStays == ASSUME Counted, NEW n PROVE Named(n)' = Named(n)
BY DEF Counted, Named

LEMMA Left ==
  ASSUME Counted, UNCHANGED file, NEW n, outputs'[n] = outputs[n], manifest'[n] = manifest[n]
  PROVE  Same(n)
BY NamedStays DEF Same

(* A run reads its record, and then works on its name. *)
LEMMA CacheStart ==
  ASSUME StoreInv, CacheInv, NEW h \in Actors, NEW p \in Pipelines,
         RunPipeline(h, p) \/ (h = Cli /\ CliRun(p))
  PROVE  CacheInv'
<1>0. PICK o, d, pc, e : /\ o = op[h] /\ d = Record(p) /\ pc \in {"running", "executing"}
                         /\ e = [Idle EXCEPT !.pc = pc, !.id = p, !.def = d]
                         /\ op' = [op EXCEPT ![h] = e]
  BY DEF RunPipeline, CliRun
<1>1. /\ row[p] # None /\ o.pc = "idle" /\ mixed' = mixed \cup ({file[p].name} \cap Busy(h))
      /\ UNCHANGED <<file, row, used, torn, outputs, manifest>>
  BY <1>0 DEF RunPipeline, CliRun, Take, Got, stored, cached
<1>2. e.pc = pc /\ e.id = p /\ e.def = d /\ e.old = None
  BY <1>0 DEF Idle
<1>3. /\ d \in Defs /\ d # None /\ d.name = file[p].name /\ d.code = file[p].code
      /\ \A n \in Names \ mixed : file[p].name = n <=> row[p].name = n
  BY <1>0, <1>1, Recorded
<1>4. ASSUME NEW n \in Names \ mixed'
      PROVE  WorksOn(e, n) => Stage(e, n)' /\ n \notin Busy(h)
  <2>1. SUFFICES ASSUME WorksOn(e, n) PROVE Stage(e, n)' /\ n \notin Busy(h)
    OBVIOUS
  <2>2. n = d.name
    BY <1>2, <2>1, StoreAssumption DEF WorksOn, NamesOf
  <2>3. n \notin Busy(h) /\ n \in Names \ mixed
    BY <1>1, <1>3, <2>2
  <2>4. p \in Named(n)
    BY <1>1, <1>3, <2>2, <2>3 DEF Named
  <2>5. Fits(n, d.code)
    BY <1>0, <1>1, <1>3, <2>3, <2>4, Unclaimed DEF AtRest
  <2>6. Same(n)
    BY <1>1 DEF Same, Named
  <2>7. Stage(e, n)
    BY <1>0, <1>2, <2>2, <2>4, <2>5 DEF Stage
  <2> QED BY <1>0, <1>1, <1>2, <2>3, <2>6, <2>7, StageKept
<1>5. \A n \in Names \ mixed' : Turn(h, o, e, n)
  <2>1. \A n : ~WorksOn(o, n) /\ Same(n)
    BY <1>1 DEF WorksOn, Same, Named
  <2> QED BY <1>4, <2>1 DEF Turn
<1>6. e.pc \notin {"insertRow"} \cup Held /\ e.def \in Defs
  BY <1>0, <1>2, <1>3 DEF Held
<1>7. CacheTypes' /\ Counted
  BY <1>1, RowsStay DEF CacheInv, CacheTypes
<1>8. UNCHANGED <<file, used, torn>> /\ mixed \subseteq mixed'
  BY <1>1
<1> QED BY <1>0, <1>5, <1>6, <1>7, <1>8, CacheTurn

(* What is known of the request whose turn it is. *)
LEMMA Own ==
  ASSUME StoreInv, CacheInv, NEW h \in Actors, NEW o, o = op[h]
  PROVE  /\ IsOp(o)
         /\ \A n \in Names \ mixed : WorksOn(o, n) => Stage(o, n)
         /\ o.pc \in Caching => o.def \in Defs /\ o.def.name \in Names /\ WorksOn(o, o.def.name)
<1>1. ASSUME o.pc \in Caching PROVE o.def \in Defs /\ o.def.name \in Names /\ WorksOn(o, o.def.name)
  <2>1. o.def \in Defs /\ o.def # None /\ o.def.name \in Names
    BY <1>1, StoreAssumption DEF CacheInv, HeldInv, Defs
  <2> QED BY <1>1, <2>1 DEF WorksOn, NamesOf, Caching, Importing
<1> QED BY <1>1 DEF StoreInv, TypeInv, CacheInv, FollowInv, Followed

LEMMA Moves ==
  ASSUME NEW o, IsOp(o), NEW pc, NEW e, e = [o EXCEPT !.pc = pc],
         o.pc \notin {"idle"} \cup Importing, pc \notin {"idle"} \cup Importing
  PROVE  /\ e.pc = pc /\ e.id = o.id /\ e.def = o.def /\ e.old = o.old /\ e.n = o.n /\ e.seen = o.seen
         /\ \A n : WorksOn(e, n) <=> WorksOn(o, n)
<1>1. e.pc = pc /\ e.id = o.id /\ e.def = o.def /\ e.old = o.old /\ e.n = o.n /\ e.seen = o.seen
  BY Steps
<1> QED BY <1>1 DEF WorksOn, NamesOf

(* A run that ends has left what its code computes, or nothing. *)
LEMMA RunRests ==
  ASSUME StoreInv, NEW n, NEW o, Stage(o, n), o.pc \in {"running", "executing", "recordRun"}
  PROVE  AtRest(n)
BY RestsOn DEF Stage, Record

LEMMA CacheRunEnds ==
  ASSUME StoreInv, CacheInv, NEW h \in Actors, op[h].pc \in {"running", "executing", "recordRun"},
         Finish(h), Counted, UNCHANGED <<file, used, torn, mixed, outputs, manifest>>
  PROVE  CacheInv'
<1>0. PICK o, e : o = op[h] /\ e = Idle /\ op' = [op EXCEPT ![h] = e]
  BY DEF Finish
<1>1. ASSUME NEW n \in Names \ mixed PROVE Turn(h, o, e, n)
  <2>1. Same(n) /\ ~WorksOn(e, n)
    BY <1>0, Left, IdleNames
  <2>2. WorksOn(o, n) => AtRest(n)'
    BY <1>0, <2>1, Own, RunRests, RestKept
  <2> QED BY <2>1, <2>2 DEF Turn
<1>2. e.pc \notin {"insertRow"} \cup Held \cup Caching
  BY <1>0 DEF Idle, Held, Caching
<1>3. CacheTypes'
  BY DEF CacheInv, CacheTypes
<1> QED BY <1>0, <1>1, <1>2, <1>3, CacheTurn

LEMMA CacheCliRecord ==
  ASSUME StoreInv, CacheInv, Cli \in Actors, CliRecordRun(TRUE)
  PROVE  CacheInv'
<1>0. PICK o, e : o = op[Cli] /\ e = [o EXCEPT !.pc = "running"] /\ op' = [op EXCEPT ![Cli] = e]
  BY GoesTo DEF CliRecordRun, StoreInv
<1>1. /\ o.pc = "executing" /\ Counted
      /\ UNCHANGED <<file, used, torn, mixed, outputs, manifest>>
  BY <1>0, RunCounted DEF CliRecordRun, cached
<1>2. /\ e.pc = "running" /\ e.id = o.id /\ e.def = o.def /\ e.old = o.old
      /\ \A n : WorksOn(e, n) <=> WorksOn(o, n)
  BY <1>0, <1>1, Own, Moves DEF Importing
<1>3. ASSUME NEW n \in Names \ mixed PROVE Turn(Cli, o, e, n)
  <2>1. Same(n)
    BY <1>1, Left
  <2>2. ASSUME WorksOn(o, n) PROVE Stage(e, n)'
    <3>1. Stage(o, n)
      BY <1>0, <2>2, Own
    <3>2. Stage(e, n)
      BY <1>1, <1>2, <3>1 DEF Stage
    <3> QED BY <1>1, <1>2, <2>1, <3>2, StageKept
  <2> QED BY <1>2, <2>1, <2>2 DEF Turn
<1>4. e.pc \notin {"insertRow"} \cup Held /\ e.def \in Defs
  BY <1>0, <1>1, <1>2, Own DEF Held, Caching
<1>5. CacheTypes'
  BY <1>1 DEF CacheInv, CacheTypes
<1> QED BY <1>0, <1>1, <1>3, <1>4, <1>5, CacheTurn

LEMMA CacheFilesStep ==
  ASSUME StoreInv, CacheInv, NEW h \in Actors, CacheFiles(h)
  PROVE  CacheInv'
<1>0. PICK o, e, d, out :
        /\ o = op[h] /\ e = [o EXCEPT !.pc = "cacheManifest"] /\ d = o.def
        /\ out = [x \in CachedNodes |-> <<x, d.code>>] /\ op' = [op EXCEPT ![h] = e]
  BY GoesTo DEF CacheFiles, StoreInv
<1>1. /\ o.pc = "running" /\ UNCHANGED <<file, row, used, torn, mixed, manifest>>
      /\ outputs' = [outputs EXCEPT ![d.name] = out]
  BY <1>0 DEF CacheFiles, stored, Output
<1>2. /\ e.pc = "cacheManifest" /\ e.id = o.id /\ e.def = d
      /\ \A n : WorksOn(e, n) <=> WorksOn(o, n)
  <2>1. IsOp(o) /\ "cacheManifest" \notin {"idle"} \cup Importing /\ o.pc \notin {"idle"} \cup Importing
    BY <1>0, <1>1, Own DEF Importing
  <2> QED BY <1>0, <2>1, Moves
<1>3. d \in Defs /\ d.name \in Names /\ WorksOn(o, d.name)
  BY <1>0, <1>1, Own DEF Caching
<1>4. /\ outputs' = [n \in Names |-> outputs'[n]] /\ outputs'[d.name] = out
      /\ \A n \in Names \ {d.name} : outputs'[n] = outputs[n]
  BY <1>1, <1>3 DEF CacheInv, CacheTypes
<1>5. Counted /\ CacheTypes'
  BY <1>1, <1>4, RowsStay DEF CacheInv, CacheTypes
<1>6. ASSUME NEW n \in Names \ mixed PROVE Turn(h, o, e, n)
  <2>1. ~WorksOn(o, n) => Same(n)
    BY <1>1, <1>3, <1>4, <1>5, Left
  <2>2. ASSUME WorksOn(o, n) PROVE Stage(e, n)'
    <3>1. o.def.name = n /\ o.id \in Named(n) /\ o.def = Record(o.id)
      BY <1>0, <1>1, <2>2, Own DEF Stage
    <3>2. Named(n)' = Named(n) /\ Record(o.id)' = Record(o.id)
      BY <1>1, <1>5, NamedStays DEF Record
    <3> QED BY <1>0, <1>2, <1>4, <3>1, <3>2 DEF Stage
  <2> QED BY <1>2, <2>1, <2>2 DEF Turn
<1>7. e.pc \notin {"insertRow"} \cup Held
  BY <1>2 DEF Held
<1> QED BY <1>0, <1>1, <1>2, <1>3, <1>5, <1>6, <1>7, CacheTurn

LEMMA CacheManifestStep ==
  ASSUME StoreInv, CacheInv, NEW h \in Actors, CacheManifest(h)
  PROVE  CacheInv'
<1>0. PICK o, next, e, d, map :
        /\ o = op[h] /\ next = [o EXCEPT !.pc = "recordRun"] /\ d = o.def
        /\ map = [x \in CachedNodes |-> IF x = "source" THEN d.code ELSE "transform"]
        /\ e \in {Idle, next} /\ op' = [op EXCEPT ![h] = e]
  <2>1. PICK o, next : o = op[h] /\ next = [o EXCEPT !.pc = "recordRun"]
    OBVIOUS
  <2>2. op' = [op EXCEPT ![h] = Idle] \/ op' = [op EXCEPT ![h] = next]
    BY <2>1, GoesTo DEF CacheManifest, StoreInv, Finish
  <2> QED BY <2>1, <2>2
<1>1. /\ o.pc = "cacheManifest" /\ UNCHANGED <<file, row, used, torn, mixed, outputs>>
      /\ manifest' = [manifest EXCEPT ![d.name] = map]
  BY <1>0 DEF CacheManifest, stored, Fingerprint
<1>2. /\ next.pc = "recordRun" /\ next.id = o.id /\ next.def = d
      /\ \A n : WorksOn(next, n) <=> WorksOn(o, n)
  <2>1. IsOp(o) /\ "recordRun" \notin {"idle"} \cup Importing /\ o.pc \notin {"idle"} \cup Importing
    BY <1>0, <1>1, Own DEF Importing
  <2> QED BY <1>0, <2>1, Moves
<1>3. d \in Defs /\ d.name \in Names /\ WorksOn(o, d.name)
  BY <1>0, <1>1, Own DEF Caching
<1>4. /\ manifest' = [n \in Names |-> manifest'[n]] /\ manifest'[d.name] = map
      /\ \A n \in Names \ {d.name} : manifest'[n] = manifest[n]
  BY <1>1, <1>3 DEF CacheInv, CacheTypes
<1>5. Counted /\ CacheTypes'
  BY <1>1, <1>4, RowsStay DEF CacheInv, CacheTypes
<1>6. ASSUME NEW n \in Names \ mixed PROVE Turn(h, o, e, n)
  <2>1. ~WorksOn(o, n) => Same(n)
    BY <1>1, <1>3, <1>4, <1>5, Left
  <2>2. ASSUME WorksOn(o, n) PROVE Stage(next, n)' /\ AtRest(n)'
    <3>1. /\ d.name = n /\ o.id \in Named(n) /\ d = Record(o.id)
          /\ outputs[n] = [x \in CachedNodes |-> <<x, d.code>>]
      <4>1. Stage(o, n)
        BY <1>0, <1>1, <2>2, Own
      <4> QED BY <1>0, <1>1, <4>1 DEF Stage
    <3>2. Named(n)' = Named(n) /\ Record(o.id)' = Record(o.id) /\ Named(n) = {o.id}
      BY <1>1, <1>5, <3>1, NamedStays, Sole DEF Record
    <3>3. Full(n, d.code)'
      BY <1>0, <1>1, <1>4, <3>1 DEF Full
    <3>4. Stage(next, n)'
      BY <1>2, <3>1, <3>2, <3>3 DEF Stage, Fits
    <3>5. d.code = file'[o.id].code
      BY <1>1, <3>1 DEF Record
    <3> QED BY <3>2, <3>3, <3>4, <3>5 DEF AtRest, Fits
  <2>3. CASE e = Idle
    BY <2>1, <2>2, <2>3, IdleNames DEF Turn
  <2>4. CASE e = next
    BY <1>2, <2>1, <2>2, <2>4 DEF Turn
  <2> QED BY <1>0, <2>3, <2>4
<1>7. e.pc \notin {"insertRow"} \cup Held \cup Caching
  <2>1. Idle.pc = "idle"
    BY DEF Idle
  <2> QED BY <1>0, <1>2, <2>1 DEF Held, Caching
<1> QED BY <1>0, <1>1, <1>5, <1>6, <1>7, CacheTurn

LEMMA CacheDrop ==
  ASSUME StoreInv, CacheInv, NEW h \in Actors, DropCache(h)
  PROVE  CacheInv'
<1>0. PICK o, e : o = op[h] /\ e = Idle /\ op' = [op EXCEPT ![h] = e]
  BY DEF DropCache, Finish
<1>1. /\ o.pc = "dropCache" /\ UNCHANGED <<file, row, used, torn, mixed>>
      /\ outputs' = [outputs EXCEPT ![o.old] = NoManifest]
      /\ manifest' = [manifest EXCEPT ![o.old] = None]
  BY <1>0 DEF DropCache, stored
<1>2. \A n \in Names : IF n = o.old THEN outputs'[n] = NoManifest /\ manifest'[n] = None
                       ELSE outputs'[n] = outputs[n] /\ manifest'[n] = manifest[n]
  BY <1>1 DEF CacheInv, CacheTypes
<1>3. Counted /\ CacheTypes'
  BY <1>1, RowsStay DEF CacheInv, CacheTypes
<1>4. ASSUME NEW n \in Names \ mixed PROVE Turn(h, o, e, n)
  <2>1. n = o.old => WorksOn(o, n)
    BY <1>1 DEF WorksOn, NamesOf, Importing
  <2>2. ~WorksOn(o, n) => Same(n)
    BY <1>1, <1>2, <1>3, <2>1, Left
  <2>3. ASSUME WorksOn(o, n) PROVE AtRest(n)'
    <3>1. o.old = n /\ Named(n) = {}
      <4>1. Stage(o, n)
        BY <1>0, <2>3, Own
      <4> QED BY <1>1, <4>1 DEF Stage
    <3>2. Named(n)' = {} /\ outputs'[n] = NoManifest /\ manifest'[n] = None
      BY <1>2, <1>3, <3>1, NamedStays
    <3> QED BY <3>2 DEF AtRest, Blank, NoManifest
  <2> QED BY <1>0, <2>2, <2>3, IdleNames DEF Turn
<1>5. e.pc \notin {"insertRow"} \cup Held \cup Caching
  BY <1>0 DEF Idle, Held, Caching
<1> QED BY <1>0, <1>1, <1>3, <1>4, <1>5, CacheTurn

(* A save drops the nodes that are not what it saved, or keeps them all.    *)
LEMMA Invalidated ==
  ASSUME NEW n, NEW d, NEW seen, NEW gone, seen = manifest[n], seen # None, Coherent(n),
         gone = WithDownstream({x \in CachedNodes : seen[x] # Fingerprint(d, x)}),
         outputs'[n] = [x \in CachedNodes |-> IF x \in gone THEN None ELSE outputs[n][x]],
         manifest'[n] = [x \in CachedNodes |-> IF x \in gone THEN None ELSE seen[x]]
  PROVE  Fits(n, d.code)'
<1>1. PICK c \in Codes : Fits(n, c)
  BY DEF Coherent
<1>2. CASE Blank(n)
  BY <1>2 DEF Blank, Fits, NoManifest
<1>3. CASE Full(n, c)
  <2>1. /\ seen["source"] = c /\ seen["transform"] = "transform"
        /\ outputs[n] = [x \in CachedNodes |-> <<x, c>>]
        /\ seen = [x \in CachedNodes |-> IF x = "source" THEN c ELSE "transform"]
    BY <1>3 DEF Full, CachedNodes
  <2>2. CASE c = d.code
    <3>1. \A x \in CachedNodes : seen[x] = Fingerprint(d, x)
      BY <2>1, <2>2 DEF CachedNodes, Fingerprint
    <3>2. gone = {}
      BY <3>1 DEF WithDownstream
    <3>3. Full(n, d.code)'
      BY <2>1, <2>2, <3>2 DEF Full
    <3> QED BY <3>3 DEF Fits
  <2>3. CASE c # d.code
    <3>1. {x \in CachedNodes : seen[x] # Fingerprint(d, x)} = {"source"}
      BY <2>1, <2>3 DEF CachedNodes, Fingerprint
    <3>2. gone = CachedNodes
      BY <3>1 DEF WithDownstream, CachedNodes
    <3> QED BY <3>2 DEF Fits, Blank, NoManifest
  <2> QED BY <2>2, <2>3
<1> QED BY <1>1, <1>2, <1>3 DEF Fits

LEMMA Settles ==
  ASSUME StoreInv, Counted, UNCHANGED file, NEW n, NEW o, o.id \in Named(n), o.def = Record(o.id),
         Fits(n, o.def.code)'
  PROVE  AtRest(n)'
<1>1. Named(n)' = {o.id} /\ file'[o.id].code = o.def.code
  BY NamedStays, Sole DEF Record
<1> QED BY <1>1 DEF AtRest, Fits, Full, Blank

LEMMA CacheInvalidate ==
  ASSUME StoreInv, CacheInv, NEW h \in Actors, InvalidateChanged(h)
  PROVE  CacheInv'
<1>0. PICK o, e, d, gone :
        /\ o = op[h] /\ e = Idle /\ d = o.def /\ op' = [op EXCEPT ![h] = e]
        /\ gone = WithDownstream({x \in CachedNodes : o.seen[x] # Fingerprint(d, x)})
  BY DEF InvalidateChanged, Finish
<1>1. /\ o.pc = "invalidate" /\ UNCHANGED <<file, row, used, torn, mixed>>
      /\ outputs' = [outputs EXCEPT ![d.name] =
                       [x \in CachedNodes |-> IF x \in gone THEN None ELSE outputs[d.name][x]]]
      /\ manifest' = [manifest EXCEPT ![d.name] =
                       [x \in CachedNodes |-> IF x \in gone THEN None ELSE o.seen[x]]]
  <2>1. d.name \in Names
    BY <1>0, Own DEF InvalidateChanged, Caching
  <2> QED BY <1>0, <2>1 DEF InvalidateChanged, stored, CacheInv, CacheTypes
<1>2. d.name \in Names /\ WorksOn(o, d.name)
  BY <1>0, <1>1, Own DEF Caching
<1>3. /\ outputs'[d.name] = [x \in CachedNodes |-> IF x \in gone THEN None ELSE outputs[d.name][x]]
      /\ manifest'[d.name] = [x \in CachedNodes |-> IF x \in gone THEN None ELSE o.seen[x]]
      /\ \A n \in Names \ {d.name} : outputs'[n] = outputs[n] /\ manifest'[n] = manifest[n]
  BY <1>1, <1>2 DEF CacheInv, CacheTypes
<1>4. Counted /\ CacheTypes'
  BY <1>1, RowsStay DEF CacheInv, CacheTypes
<1>5. ASSUME NEW n \in Names \ mixed PROVE Turn(h, o, e, n)
  <2>1. ~WorksOn(o, n) => Same(n)
    BY <1>1, <1>2, <1>3, <1>4, Left
  <2>2. ASSUME WorksOn(o, n) PROVE AtRest(n)'
    <3>1. Stage(o, n)
      BY <1>0, <2>2, Own
    <3>2. /\ o.def.name = n /\ o.id \in Named(n) /\ o.def = Record(o.id)
          /\ Coherent(n) /\ o.seen = manifest[n] /\ o.seen # None
      BY <1>1, <3>1 DEF Stage
    <3>3. d.name = n /\ Fits(n, d.code)'
      BY <1>0, <1>3, <3>2, Invalidated
    <3> QED BY <1>0, <1>1, <1>4, <3>2, <3>3, Settles
  <2> QED BY <1>0, <2>1, <2>2, IdleNames DEF Turn
<1>6. e.pc \notin {"insertRow"} \cup Held \cup Caching
  BY <1>0 DEF Idle, Held, Caching
<1> QED BY <1>0, <1>1, <1>4, <1>5, <1>6, CacheTurn

LEMMA CacheReread ==
  ASSUME StoreInv, CacheInv, NEW h \in Actors, ReadForSave(h)
  PROVE  CacheInv'
<1>0. PICK o, p, d, read, e :
        /\ o = op[h] /\ p = o.id /\ d = Record(p) /\ op' = [op EXCEPT ![h] = e]
        /\ read = [o EXCEPT !.pc = "invalidate", !.def = d, !.seen = manifest[d.name]]
        /\ IF ~Got(p) \/ manifest[d.name] = None THEN e = Idle ELSE e = read
  <2>1. PICK o, p, d : o = op[h] /\ p = o.id /\ d = Record(p)
    OBVIOUS
  <2>2. op' = [op EXCEPT ![h] = IF ~Got(p) \/ manifest[d.name] = None THEN Idle
                ELSE [o EXCEPT !.pc = "invalidate", !.def = d, !.seen = manifest[d.name]]]
    BY <2>1 DEF ReadForSave, StoreInv, TypeInv
  <2> QED BY <2>1, <2>2
<1>1. o.pc = "reread" /\ Free /\ UNCHANGED <<file, row, used, torn, mixed, outputs, manifest>>
  BY <1>0 DEF ReadForSave, stored, cached
<1>2. p \in Pipelines /\ IsOp(o) /\ o.def \in Defs /\ WorksOn(o, o.def.name)
  BY <1>0, <1>1, Own DEF CacheInv, HeldInv, Held, Caching
<1>3. /\ read.pc = "invalidate" /\ read.id = p /\ read.def = d /\ read.old = o.old
      /\ read.seen = manifest[d.name]
  BY <1>0, <1>2 DEF IsOp
<1>4. Counted /\ CacheTypes'
  BY <1>1, RowsStay DEF CacheInv, CacheTypes
<1>5. ASSUME NEW n \in Names \ mixed PROVE Turn(h, o, e, n)
  <2>0. Same(n)
    BY <1>1, <1>4, Left
  <2>1. ASSUME WorksOn(o, n)
        PROVE  /\ o.def.name = n /\ p \in Named(n) /\ Coherent(n) /\ d.name = n /\ Got(p)
               /\ d.code = file[p].code
    <3>1. o.def.name = n /\ p \in Named(n) /\ Coherent(n)
      BY <1>0, <1>1, <2>1, Own DEF Stage
    <3>2. d.name = n /\ Got(p) /\ d.code = file[p].code
      BY <1>0, <1>1, <1>2, <3>1, Recorded, StoreAssumption DEF Named, Got, File
    <3> QED BY <3>1, <3>2
  <2>2. CASE e = Idle
    <3>1. ASSUME WorksOn(o, n) PROVE AtRest(n)
      <4>1. /\ p \in Named(n) /\ Got(p) /\ d.name = n /\ Coherent(n)
        BY <2>1, <3>1
      <4>2. manifest[n] = None
        BY <1>0, <1>3, <2>2, <4>1 DEF Idle
      <4>3. Blank(n)
        BY <4>1, <4>2, StoreAssumption DEF Coherent, Fits, Full
      <4> QED BY <4>1, <4>3, RestsOn DEF Fits
    <3> QED BY <2>0, <2>2, <3>1, RestKept, IdleNames DEF Turn
  <2>3. CASE e = read /\ Got(p) /\ manifest[d.name] # None
    <3>1. WorksOn(o, n) => WorksOn(e, n) /\ Stage(e, n)
      <4>1. ASSUME WorksOn(o, n) PROVE WorksOn(e, n)
        BY <1>3, <2>1, <2>3, <4>1, <1>1, <1>2, <1>0, Recorded DEF WorksOn, NamesOf, Importing, Got
      <4>2. ASSUME WorksOn(o, n) PROVE Stage(e, n)
        BY <1>0, <1>3, <2>1, <2>3, <4>2 DEF Stage
      <4> QED BY <4>1, <4>2
    <3>2. WorksOn(e, n) => WorksOn(o, n)
      <4>1. ASSUME d.name = n PROVE WorksOn(o, n)
        <5>1. row[p].name = n
          BY <1>0, <1>2, <2>3, <4>1, Recorded DEF Got
        <5>2. o.def.name = n
          BY <1>0, <1>1, <2>3, <5>1 DEF CacheInv, RereadInv, Got
        <5> QED BY <1>2, <5>2
      <4>2. ASSUME o.old = n PROVE WorksOn(o, n)
        BY <1>1, <4>2 DEF WorksOn, NamesOf, Importing
      <4> QED BY <1>3, <2>3, <4>1, <4>2 DEF WorksOn, NamesOf
    <3>3. Stage(e, n) => Stage(e, n)'
      BY <1>1, <1>3, <2>0, <2>3, StageKept
    <3> QED BY <2>0, <3>1, <3>2, <3>3 DEF Turn
  <2> QED BY <1>0, <2>2, <2>3
<1>6. e.pc \notin {"insertRow"} \cup Held /\ (e.pc \in Caching => e.def \in Defs)
  <2>1. Idle.pc = "idle"
    BY DEF Idle
  <2>2. Got(p) => d \in Defs
    BY <1>0, <1>2, Recorded DEF Got
  <2> QED BY <1>0, <1>3, <2>1, <2>2 DEF Held, Caching
<1> QED BY <1>0, <1>1, <1>4, <1>5, <1>6, CacheTurn

-----------------------------------------------------------------------------
(* The writes of the store, which leave the cache alone. *)
LEMMA CacheCreate ==
  ASSUME StoreInv, CacheInv, NEW h \in Actors, op[h].pc \in {"idle"} \cup Importing,
         NEW p \in Pipelines, NEW d \in Defs, Create(h, p, d)
  PROVE  CacheInv'
<1>0. UNCHANGED <<row, torn, outputs, manifest>>
  BY DEF Create, cached
<1>1. CASE Named(d.name) # {}
  <2>1. UNCHANGED <<file, used, mixed>> /\ op' = [op EXCEPT ![h] = Idle] /\ Idle.pc = "idle"
    BY <1>1 DEF Create, Finish, Idle
  <2> QED BY <1>0, <2>1, Quiet
<1>2. CASE Named(d.name) = {}
  <2>0. PICK o, e : /\ o = op[h] /\ op' = [op EXCEPT ![h] = e]
                    /\ e = [Idle EXCEPT !.pc = "insertRow", !.id = p, !.def = d, !.n = 1]
    BY <1>2 DEF Create
  <2>1. /\ p \notin used /\ used' = used \cup {p}
        /\ file' = [file EXCEPT ![p] = [name |-> d.name, code |-> d.code, n |-> 1]]
        /\ mixed' = mixed \cup ({d.name} \cap Busy(h))
    BY <1>2 DEF Create
  <2>2. e.pc = "insertRow" /\ e.id = p /\ e.def = d /\ e.old = None
    BY <2>0 DEF Idle
  <2>3. row[p] = None /\ \A q \in Pipelines \ {p} : file'[q] = file[q]
    BY <2>1 DEF StoreInv, UsedInv, TypeInv
  <2>4. \A n \in Names : Same(n)
    BY <1>0, <2>3 DEF Same, Named
  <2>5. ASSUME NEW n \in Names \ mixed' PROVE Turn(h, o, e, n)
    <3>1. ~WorksOn(o, n)
      BY <2>0 DEF WorksOn
    <3>2. ASSUME WorksOn(e, n) PROVE Stage(e, n)' /\ n \notin Busy(h)
      <4>1. n = d.name
        BY <2>2, <3>2, StoreAssumption DEF WorksOn, NamesOf
      <4>2. n \notin Busy(h)
        BY <2>1, <4>1
      <4>3. Blank(n)
        BY <1>2, <2>1, <4>1, <4>2, Unclaimed DEF AtRest
      <4>4. Stage(e, n)
        BY <2>2, <4>1, <4>3 DEF Stage
      <4> QED BY <1>0, <2>2, <2>4, <4>2, <4>4, StageKept
    <3> QED BY <2>4, <3>1, <3>2 DEF Turn
  <2>6. FollowInv'
    BY <1>0, <2>0, <2>1, <2>5, FollowTurn DEF CacheInv
  <2>7. AgreeInv' /\ HeldInv' /\ RereadInv'
    <3>1. e.pc \notin Held \cup Caching \cup {"reread"} /\ used' \subseteq Pipelines
      BY <2>1, <2>2 DEF Held, Caching, CacheInv, HeldInv
    <3>2. \A q \in Pipelines : row'[q] # None =>
            row[q] # None /\ row'[q].name = row[q].name /\ file'[q] = file[q]
      BY <1>0, <2>3
    <3>3. /\ e.id \notin used /\ e.id \in used' /\ mixed \subseteq mixed' /\ used \subseteq used'
          /\ e.pc # "reread" /\ torn' = torn /\ AgreeInv /\ HeldInv /\ RereadInv
      BY <1>0, <2>1, <2>2 DEF CacheInv
    <3> QED BY <2>0, <3>1, <3>2, <3>3, NamesKept
  <2> QED BY <1>0, <2>6, <2>7 DEF CacheInv, CacheTypes
<1> QED BY <1>1, <1>2

LEMMA CacheInsertRow ==
  ASSUME StoreInv, CacheInv, NEW h \in Actors, InsertRow(h)
  PROVE  CacheInv'
<1>o. PICK o, e : o = op[h] /\ e = [o EXCEPT !.pc = "created"] /\ op' = [op EXCEPT ![h] = e]
  BY GoesTo DEF InsertRow, StoreInv
<1>0. PICK p, d : o = op[h] /\ p = o.id /\ d = o.def /\ e = [o EXCEPT !.pc = "created"]
                  /\ op' = [op EXCEPT ![h] = e]
  BY <1>o
<1>1. /\ o.pc = "insertRow" /\ row' = [row EXCEPT ![p] = [name |-> d.name, runs |-> 0]]
      /\ UNCHANGED <<file, used, torn, mixed, outputs, manifest>>
  BY <1>0 DEF InsertRow, cached
<1>2. IsOp(o) /\ p \in Pipelines /\ d \in Defs /\ row[p] = None /\ Written(o)
  BY <1>0, <1>1 DEF StoreInv, TypeInv, IsOp, SavingInv, Saving, Writing
<1>3. e.pc = "created" /\ e.id = p /\ e.def = d /\ \A n : WorksOn(e, n) <=> WorksOn(o, n)
  <2>1. "created" \notin {"idle"} \cup Importing /\ o.pc \notin {"idle"} \cup Importing
    BY <1>1 DEF Importing
  <2> QED BY <1>0, <1>2, <2>1, Moves
<1>4. /\ row'[p].name = d.name /\ row'[p] # None /\ d.name \in Names /\ d # None
      /\ \A q \in Pipelines \ {p} : row'[q] = row[q]
  <2>1. [name |-> d.name, runs |-> 0] \in [name : Names, runs : Nat] /\ d.name \in Names
    BY <1>2 DEF Defs
  <2> QED BY <1>1, <1>2, <2>1, StoreAssumption DEF StoreInv, TypeInv
<1>5. FollowInv'
  <2>1. ASSUME NEW n \in Names \ mixed PROVE Turn(h, o, e, n)
    <3>1. ASSUME ~WorksOn(o, n) PROVE Same(n)
      <4>1. n # d.name
        BY <1>0, <1>1, <1>4, <3>1 DEF WorksOn, NamesOf, Importing
      <4> QED BY <1>1, <1>2, <1>4, <4>1 DEF Same, Named
    <3>2. ASSUME WorksOn(o, n) PROVE Stage(e, n)'
      <4>1. d.name = n /\ Blank(n)
        BY <1>0, <1>1, <3>2, Own DEF Stage
      <4>2. p \in Named(n)' /\ Blank(n)'
        BY <1>1, <1>2, <1>4, <4>1 DEF Named, Blank, NoManifest
      <4> QED BY <1>3, <4>1, <4>2 DEF Stage
    <3> QED BY <1>3, <3>1, <3>2 DEF Turn
  <2> QED BY <1>0, <1>1, <2>1, FollowTurn DEF CacheInv, Writing
<1>6. /\ op'[h] = e /\ \A g \in Actors \ {h} : op'[g] = op[g]
  BY <1>0, Changes DEF StoreInv, TypeInv
<1>7. AgreeInv'
  <2>1. p \notin torn /\ file[p] # None /\ file[p].name = d.name
    <3>1. file[p] = [name |-> d.name, code |-> d.code, n |-> o.n] /\ o.n \in Nat
      BY <1>0, <1>1, <1>2 DEF Written, IsOp, Writing
    <3>2. file[p] \in [name : Names, code : Codes, n : Nat]
      BY <1>2, <3>1 DEF Defs
    <3> QED BY <1>0, <1>1, <3>1, <3>2, StoreAssumption DEF CacheInv, HeldInv
  <2> QED BY <1>1, <1>4, <2>1 DEF CacheInv, AgreeInv
<1>8. HeldInv'
  BY <1>1, <1>3, <1>6 DEF CacheInv, HeldInv, Held, Caching
<1>9. RereadInv'
  <2>1. ASSUME NEW g \in Actors, op'[g].pc = "reread", row'[op'[g].id] # None
        PROVE  row'[op'[g].id].name \in mixed \cup {op'[g].def.name}
    <3>1. /\ op'[g] = op[g] /\ op[g].id # p /\ op[g].id \in Pipelines
      BY <1>0, <1>1, <1>3, <1>6, <2>1 DEF CacheInv, HeldInv, Held
    <3> QED BY <1>4, <2>1, <3>1 DEF CacheInv, RereadInv
  <2> QED BY <1>1, <2>1 DEF RereadInv
<1> QED BY <1>1, <1>5, <1>7, <1>8, <1>9 DEF CacheInv, CacheTypes

LEMMA CacheUpdate ==
  ASSUME StoreInv, CacheInv, NEW h \in Actors, op[h].pc \in {"idle"} \cup Importing,
         NEW p \in Pipelines, p \in used, NEW d \in Defs,
         NEW after \in {"updateRow", "replaceRow"}, Update(h, p, d, after)
  PROVE  CacheInv'
<1>0. UNCHANGED <<row, used, torn, outputs, manifest>>
  BY DEF Update, cached
<1>1. CASE Named(d.name) \ {p} # {}
  <2>1. UNCHANGED <<file, mixed>> /\ op' = [op EXCEPT ![h] = Idle] /\ Idle.pc = "idle"
    BY <1>1 DEF Update, Finish, Idle
  <2> QED BY <1>0, <2>1, Quiet
<1>2. CASE Named(d.name) \ {p} = {}
  <2>0. PICK o, old, n0, e :
          /\ o = op[h] /\ n0 = NextVersion(p) /\ old = IF row[p] = None THEN None ELSE row[p].name
          /\ e = [Idle EXCEPT !.pc = after, !.id = p, !.def = d, !.old = old, !.n = n0]
          /\ op' = [op EXCEPT ![h] = e]
    BY <1>2 DEF Update
  <2>1. /\ file' = [file EXCEPT ![p] = [name |-> d.name, code |-> d.code, n |-> n0]]
        /\ mixed' = mixed \cup ({d.name, old} \cap Busy(h))
                     \cup (IF old \in Names \ {d.name} THEN {old, d.name} ELSE {})
                     \cup (IF after = "replaceRow" THEN {d.name} ELSE {})
    BY <1>2, <2>0 DEF Update
  <2>2. e.pc = after /\ e.id = p /\ e.def = d /\ e.old = old
    BY <2>0 DEF Idle
  <2>3. /\ \A q \in Pipelines \ {p} : file'[q] = file[q]
        /\ file'[p] = [name |-> d.name, code |-> d.code, n |-> n0]
        /\ file'[p].name = d.name /\ file'[p] # None /\ d.name \in Names /\ d # None
    <3>1. n0 \in Nat
      BY <2>0, NextIsNewest DEF StoreInv
    <3>2. [name |-> d.name, code |-> d.code, n |-> n0] \in [name : Names, code : Codes, n : Nat]
      BY <3>1 DEF Defs
    <3> QED BY <2>1, <3>2, StoreAssumption DEF StoreInv, TypeInv, Defs
  <2>4. row[p] # None => old = row[p].name /\ old \in Names
    BY <2>0, Recorded
  <2>5. ASSUME NEW n \in Names \ mixed' PROVE Turn(h, o, e, n)
    <3>1. ~WorksOn(o, n)
      BY <2>0 DEF WorksOn
    <3>2. WorksOn(e, n) <=> (n = d.name \/ n = old)
      BY <2>2, <2>3 DEF WorksOn, NamesOf, Importing
    <3>3. ASSUME ~WorksOn(e, n) PROVE Same(n)
      <4>1. p \notin Named(n)
        BY <2>4, <3>2, <3>3 DEF Named
      <4> QED BY <1>0, <2>3, <4>1 DEF Same, Named
    <3>4. ASSUME WorksOn(e, n) PROVE Stage(e, n)' /\ n \notin Busy(h)
      <4>1. n = d.name /\ after = "updateRow" /\ n \notin Busy(h) /\ n \notin mixed
        BY <2>1, <3>2, <3>4
      <4>2. AtRest(n)
        BY <4>1, Unclaimed
      <4>3. /\ (row[p] = None => Named(n) = {} /\ Blank(n)) /\ Coherent(n)
            /\ (row[p] # None => p \in Named(n) /\ p \notin torn)
        <5>1. CASE row[p] = None
          <6>1. Named(n) = {}
            BY <1>2, <4>1, <5>1 DEF Named
          <6>2. Blank(n) /\ d.code \in Codes
            BY <4>2, <6>1 DEF AtRest, Defs
          <6> QED BY <5>1, <6>1, <6>2 DEF Coherent, Fits
        <5>2. CASE row[p] # None
          <6>1. p \in Named(n)
            BY <2>1, <2>4, <4>1, <5>2 DEF Named
          <6>2. p \notin torn
            BY <2>4, <4>1, <5>2, <6>1 DEF CacheInv, AgreeInv, Named
          <6>3. Fits(n, file[p].code) /\ file[p].code \in Codes
            BY <4>2, <5>2, <6>1, Recorded DEF AtRest, File
          <6> QED BY <5>2, <6>1, <6>2, <6>3 DEF Coherent
        <5> QED BY <5>1, <5>2
      <4>4. /\ Named(n)' = Named(n) /\ (Blank(n) => Blank(n)') /\ (Coherent(n) => Coherent(n)')
        BY <1>0 DEF Named, Blank, Coherent, Fits, Full, NoManifest
      <4>5. Stage(e, n)'
        BY <1>0, <2>2, <4>1, <4>3, <4>4 DEF Stage
      <4> QED BY <4>1, <4>5
    <3> QED BY <3>1, <3>3, <3>4 DEF Turn
  <2>6. FollowInv'
    <3>1. mixed \subseteq mixed'
      BY <2>1
    <3> QED BY <1>0, <2>0, <2>5, <3>1, FollowTurn DEF CacheInv
  <2>7. /\ op'[h] = e /\ \A g \in Actors \ {h} : op'[g] = op[g]
    BY <2>0, Changes DEF StoreInv, TypeInv
  <2>8. AgreeInv'
    <3>1. ASSUME row[p] # None
          PROVE  /\ file'[p].name = row[p].name \/ {file'[p].name, row[p].name} \subseteq mixed'
                 /\ p \in torn => {file'[p].name, row[p].name} \subseteq mixed'
      <4>1. row[p].name = d.name \/ {d.name, row[p].name} \subseteq mixed'
        BY <2>1, <2>3, <2>4, <3>1
      <4>2. p \in torn => row[p].name \in mixed'
        BY <2>1, <3>1 DEF CacheInv, AgreeInv
      <4> QED BY <2>3, <4>1, <4>2
    <3>2. mixed \subseteq mixed'
      BY <2>1
    <3> QED BY <1>0, <2>3, <3>1, <3>2 DEF CacheInv, AgreeInv
  <2>9. HeldInv' /\ RereadInv'
    <3>1. mixed \subseteq mixed' /\ e.pc \notin Caching \cup {"insertRow", "reread"}
      BY <2>1, <2>2 DEF Caching
    <3>2. HeldInv'
      BY <1>0, <2>2, <2>7, <3>1 DEF CacheInv, HeldInv
    <3>3. RereadInv'
      BY <1>0, <2>7, <3>1 DEF CacheInv, RereadInv
    <3> QED BY <3>2, <3>3
  <2> QED BY <1>0, <2>6, <2>8, <2>9 DEF CacheInv, CacheTypes
<1> QED BY <1>1, <1>2

LEMMA CacheUpdateRow ==
  ASSUME StoreInv, CacheInv, NEW h \in Actors, UpdateRow(h)
  PROVE  CacheInv'
<1>0. PICK o, p, d : o = op[h] /\ p = o.id /\ d = o.def
  OBVIOUS
<1>1. o.pc \in {"updateRow", "replaceRow"} /\ UNCHANGED <<file, used, torn, mixed, outputs, manifest>>
  BY <1>0 DEF UpdateRow, cached
<1>2. /\ IsOp(o) /\ p \in Pipelines /\ d \in Defs /\ o.pc \in Writing
      /\ o.pc \notin {"idle"} \cup Importing /\ d.name \in Names /\ d # None
  BY <1>0, <1>1, StoreAssumption DEF StoreInv, TypeInv, IsOp, Writing, Importing, Defs
<1>3. WorksOn(o, d.name)
  BY <1>0, <1>2 DEF WorksOn, NamesOf
<1>4. \A n \in Names \ mixed : WorksOn(o, n) => Stage(o, n)
  BY <1>0, Own
<1>5. CASE row[p] = None
  <2>1. UNCHANGED row
    BY <1>0, <1>5 DEF UpdateRow
  <2>0. PICK e : e = Idle /\ op' = [op EXCEPT ![h] = e]
    BY <1>0, <1>5 DEF UpdateRow, Finish
  <2>2. ASSUME NEW n \in Names \ mixed PROVE Turn(h, o, e, n)
    <3>1. Same(n)
      BY <1>1, <2>1 DEF Same, Named
    <3>2. WorksOn(o, n) => AtRest(n)
      BY <1>0, <1>1, <1>4, <1>5 DEF Stage, AtRest, Named
    <3> QED BY <2>0, <3>1, <3>2, RestKept, IdleNames DEF Turn
  <2>3. e.pc \notin {"insertRow"} \cup Held \cup Caching
    BY <2>0 DEF Idle, Held, Caching
  <2>4. CacheTypes' /\ Counted
    BY <1>1, <2>1, RowsStay DEF CacheInv, CacheTypes
  <2> QED BY <1>0, <1>1, <2>0, <2>2, <2>3, <2>4, CacheTurn
<1>6. CASE row[p] # None
  <2>1. row' = [row EXCEPT ![p] = [row[p] EXCEPT !.name = d.name]]
    BY <1>0, <1>2, <1>6 DEF UpdateRow, StoreInv, TypeInv
  <2>2. /\ row'[p] # None /\ row'[p].name = d.name
        /\ \A q \in Pipelines \ {p} : row'[q] = row[q]
    <3>1. row[p] \in Row /\ [row[p] EXCEPT !.name = d.name] \in [name : Names, runs : Nat]
      BY <1>2, <1>6 DEF StoreInv, TypeInv, Row
    <3>2. [row[p] EXCEPT !.name = d.name].name = d.name
      BY <3>1 DEF Row
    <3> QED BY <1>2, <2>1, <3>1, <3>2, StoreAssumption DEF StoreInv, TypeInv
  <2>3. PICK pc : pc \in {"saved", "replaced"} /\ (o.pc = "updateRow" <=> pc = "saved") /\ Goto(h, pc)
    BY <1>0, <1>1, <1>6 DEF UpdateRow
  <2>4. PICK e : e = [o EXCEPT !.pc = pc] /\ op' = [op EXCEPT ![h] = e]
    BY <1>0, <2>3, GoesTo DEF StoreInv
  <2>5. e.pc = pc /\ e.id = p /\ e.def = d /\ \A n : WorksOn(e, n) <=> WorksOn(o, n)
    <3>1. pc \notin {"idle"} \cup Importing
      BY <2>3 DEF Importing
    <3> QED BY <1>0, <1>2, <2>4, <3>1, Moves
  <2>6. Written(o)
    BY <1>0, <1>2, <1>6 DEF StoreInv, SavingInv, Saving
  <2>7. file[p].name = d.name /\ file[p] # None
    BY <1>0, <1>2, <1>6, <2>6 DEF Written, CacheInv, AgreeInv
  <2>8. ASSUME NEW n \in Names \ mixed PROVE Turn(h, o, e, n)
    <3>1. ASSUME ~WorksOn(o, n) PROVE Same(n)
      <4>1. n # d.name
        BY <1>3, <3>1
      <4>2. p \notin Named(n)
        BY <2>7, <4>1 DEF CacheInv, AgreeInv, Named
      <4> QED BY <1>1, <2>2, <4>1, <4>2 DEF Same, Named
    <3>2. ASSUME WorksOn(o, n) PROVE Stage(e, n)'
      <4>1. d.name = n /\ pc = "saved" /\ p \in Named(n) /\ p \notin torn /\ Coherent(n)
        BY <1>0, <1>1, <1>4, <1>6, <2>3, <3>2 DEF Stage
      <4>2. p \in Named(n)'
        BY <1>2, <2>2, <4>1 DEF Named
      <4>3. Coherent(n)'
        BY <1>1, <4>1 DEF Coherent, Fits, Full, Blank, NoManifest
      <4> QED BY <1>1, <2>5, <4>1, <4>2, <4>3 DEF Stage
    <3> QED BY <2>5, <3>1, <3>2 DEF Turn
  <2>9. FollowInv'
    BY <1>0, <1>1, <1>2, <2>4, <2>8, FollowTurn DEF CacheInv
  <2>10. /\ op'[h] = e /\ \A g \in Actors \ {h} : op'[g] = op[g]
    BY <2>4, Changes DEF StoreInv, TypeInv
  <2>11. AgreeInv'
    BY <1>1, <1>2, <2>2, <1>6, <2>7 DEF CacheInv, AgreeInv
  <2>12. HeldInv'
    BY <1>1, <2>3, <2>5, <2>10 DEF CacheInv, HeldInv, Held, Caching
  <2>13. RereadInv'
    <3>1. ASSUME NEW g \in Actors, op'[g].pc = "reread", row'[op'[g].id] # None
          PROVE  row'[op'[g].id].name \in mixed \cup {op'[g].def.name}
      <4>1. op'[g] = op[g] /\ op[g].id \in Pipelines
        BY <2>3, <2>5, <2>10, <3>1 DEF CacheInv, HeldInv, Held
      <4>2. CASE op[g].id = p
        <5>1. row[p].name \in mixed \cup {op[g].def.name}
          BY <1>6, <3>1, <4>1, <4>2 DEF CacheInv, RereadInv
        <5>2. d.name = row[p].name \/ d.name \in mixed
          BY <1>2, <1>6, <2>7 DEF CacheInv, AgreeInv
        <5> QED BY <2>2, <4>1, <4>2, <5>1, <5>2
      <4>3. CASE op[g].id # p
        BY <2>2, <3>1, <4>1, <4>3 DEF CacheInv, RereadInv
      <4> QED BY <4>2, <4>3
    <3> QED BY <1>1, <3>1 DEF RereadInv
  <2> QED BY <1>1, <2>9, <2>11, <2>12, <2>13 DEF CacheInv, CacheTypes
<1> QED BY <1>5, <1>6

LEMMA CacheInsertVersion ==
  ASSUME StoreInv, CacheInv, NEW h \in Actors, InsertVersion(h)
  PROVE  CacheInv'
<1>0. PICK o, p, d, next : o = op[h] /\ p = o.id /\ d = o.def /\ next = [o EXCEPT !.pc = "reread"]
  OBVIOUS
<1>1. o.pc \in {"created", "saved", "replaced"} /\ UNCHANGED <<file, row, used, torn, mixed, outputs, manifest>>
  BY <1>0 DEF InsertVersion, cached
<1>2. /\ IsOp(o) /\ p \in Pipelines /\ d \in Defs /\ o.pc \in Writing /\ Saving(o)
      /\ o.pc \notin {"idle"} \cup Importing
  BY <1>0, <1>1 DEF StoreInv, TypeInv, IsOp, Writing, Importing, SavingInv
<1>3. next.pc = "reread" /\ next.id = p /\ next.def = d /\ \A n : WorksOn(next, n) <=> WorksOn(o, n)
  <2>1. "reread" \notin {"idle"} \cup Importing
    BY DEF Importing
  <2> QED BY <1>0, <1>2, <2>1, Moves
<1>4. PICK e : /\ op' = [op EXCEPT ![h] = e]
               /\ e = Idle \/ (e = next /\ o.pc = "saved")
               /\ o.pc = "saved" /\ e = Idle => \E w \in versions[p] : w.n = o.n
  <2>0. next # Idle
    BY <1>3 DEF Idle
  <2>1. CASE \E w \in versions[p] : w.n = o.n
    BY <1>0, <2>1 DEF InsertVersion, Finish
  <2>2. CASE ~(\E w \in versions[p] : w.n = o.n) /\ o.pc = "saved"
    BY <1>0, <2>0, <2>2, GoesTo DEF InsertVersion, StoreInv
  <2>3. CASE ~(\E w \in versions[p] : w.n = o.n) /\ o.pc # "saved"
    BY <1>0, <2>3 DEF InsertVersion, Finish
  <2> QED BY <2>1, <2>2, <2>3
<1>5. ASSUME NEW n \in Names \ mixed PROVE Turn(h, o, e, n)
  <2>1. Same(n)
    BY <1>1 DEF Same, Named
  <2>2. WorksOn(o, n) => Stage(o, n)
    BY <1>0, Own
  <2>3. CASE e = Idle
    <3>1. ASSUME WorksOn(o, n) PROVE AtRest(n)
      <4>1. Stage(o, n)
        BY <2>2, <3>1
      <4>2. o.pc # "saved"
        <5>1. SUFFICES ASSUME o.pc = "saved" PROVE FALSE
          OBVIOUS
        <5>2. row[p] # None /\ p \notin torn
          BY <1>0, <4>1, <5>1 DEF Stage, Named
        <5>3. Greatest(p, o.n) /\ o.n \in Nat
          BY <1>0, <1>2, <5>2 DEF Saving, IsOp
        <5>4. PICK w \in versions[p] : w.n = o.n
          BY <1>4, <2>3, <5>1
        <5> QED BY <5>3, <5>4 DEF Greatest
      <4>3. p \in Named(n) /\ Blank(n)
        BY <1>0, <1>1, <4>1, <4>2 DEF Stage
      <4> QED BY <4>3, RestsOn DEF Fits
    <3> QED BY <2>1, <2>3, <3>1, RestKept, IdleNames DEF Turn
  <2>4. CASE e = next /\ o.pc = "saved"
    <3>1. ASSUME WorksOn(o, n) PROVE Stage(e, n)
      BY <1>0, <1>3, <2>2, <2>4, <3>1 DEF Stage
    <3> QED BY <1>1, <1>3, <2>1, <2>4, <3>1, StageKept DEF Turn
  <2> QED BY <1>4, <2>3, <2>4
<1>6. FollowInv'
  BY <1>0, <1>1, <1>4, <1>5, FollowTurn DEF CacheInv
<1>7. AgreeInv' /\ HeldInv' /\ RereadInv'
  <2>1. p \in used /\ (row'[p] # None => row'[p].name = d.name)
    BY <1>0, <1>1, <1>2 DEF Saving
  <2>2. Idle.pc = "idle"
    BY DEF Idle
  <2>3. /\ e.pc \in Held => e.id \in used'
        /\ e.pc \in Caching => e.def \in Defs
        /\ e.pc = "insertRow" => /\ e.id \notin used /\ e.id \in used'
        /\ e.pc = "reread" => /\ e.id \in Pipelines /\ op[h].pc \in Writing
                              /\ row'[e.id] # None => row'[e.id].name = e.def.name
    BY <1>0, <1>1, <1>2, <1>3, <1>4, <2>1, <2>2 DEF Held, Caching
  <2>4. used' \subseteq Pipelines
    BY <1>1 DEF CacheInv, HeldInv
  <2> QED BY <1>1, <1>4, <2>3, <2>4, NamesKept DEF CacheInv
<1> QED BY <1>1, <1>6, <1>7 DEF CacheInv, CacheTypes

LEMMA CacheDelete ==
  ASSUME StoreInv, CacheInv, NEW h \in Actors, NEW p \in Pipelines, DeletePipeline(h, p)
  PROVE  CacheInv'
<1>0. PICK o, old, e : /\ o = op[h] /\ old = file[p].name /\ op' = [op EXCEPT ![h] = e]
                       /\ e = [Idle EXCEPT !.pc = "unlink", !.id = p, !.old = old]
  BY DEF DeletePipeline
<1>1. /\ o.pc = "idle" /\ row[p] # None /\ row' = [row EXCEPT ![p] = None]
      /\ mixed' = mixed \cup ({old} \cap Busy(h))
      /\ UNCHANGED <<file, used, torn, outputs, manifest>>
  BY <1>0 DEF DeletePipeline, Take, Got, cached
<1>2. e.pc = "unlink" /\ e.id = p /\ e.old = old /\ e.def = None
  BY <1>0 DEF Idle
<1>3. row'[p] = None /\ \A q \in Pipelines \ {p} : row'[q] = row[q]
  BY <1>1 DEF StoreInv, TypeInv
<1>4. \A n \in Names \ mixed : p \in Named(n) <=> n = old
  BY <1>0, <1>1, Recorded DEF Named
<1>5. ASSUME NEW n \in Names \ mixed' PROVE Turn(h, o, e, n)
  <2>1. ~WorksOn(o, n) /\ (WorksOn(e, n) <=> n = old)
    BY <1>1, <1>2 DEF WorksOn, NamesOf, Importing
  <2>2. n # old => Same(n)
    BY <1>1, <1>3, <1>4 DEF Same, Named
  <2>3. ASSUME n = old PROVE Stage(e, n)' /\ n \notin Busy(h)
    <3>1. Named(n) = {p}
      BY <1>1, <1>4, <2>3, Sole
    <3>2. Named(n)' = {}
      BY <1>3, <3>1 DEF Named
    <3>3. Stage(e, n)'
      BY <1>2, <2>3, <3>2 DEF Stage
    <3> QED BY <1>1, <2>3, <3>3
  <2> QED BY <2>1, <2>2, <2>3 DEF Turn
<1>6. FollowInv'
  <2>1. mixed \subseteq mixed' /\ \A q \in Pipelines : row[q] = None => row'[q] = None
    BY <1>1, <1>3
  <2> QED BY <1>0, <1>1, <1>5, <2>1, FollowTurn DEF CacheInv
<1>7. AgreeInv' /\ HeldInv' /\ RereadInv'
  <2>1. mixed \subseteq mixed' /\ used' \subseteq Pipelines /\ used \subseteq used'
    BY <1>1 DEF CacheInv, HeldInv
  <2>2. e.pc \notin Held \cup Caching \cup {"insertRow", "reread"}
    BY <1>2 DEF Held, Caching
  <2>3. \A q \in Pipelines : row'[q] # None =>
          row[q] # None /\ row'[q].name = row[q].name /\ file'[q] = file[q]
    BY <1>1, <1>3
  <2> QED BY <1>0, <1>1, <2>1, <2>2, <2>3, NamesKept DEF CacheInv
<1> QED BY <1>1, <1>6, <1>7 DEF CacheInv, CacheTypes

LEMMA CacheUnlink ==
  ASSUME StoreInv, CacheInv, NEW h \in Actors, Unlink(h)
  PROVE  CacheInv'
<1>o. PICK o, e : o = op[h] /\ e = [o EXCEPT !.pc = "dropCache"] /\ op' = [op EXCEPT ![h] = e]
  BY GoesTo DEF Unlink, StoreInv
<1>0. PICK p : p = o.id
  OBVIOUS
<1>1. /\ o.pc = "unlink" /\ file' = [file EXCEPT ![p] = None]
      /\ UNCHANGED <<row, used, torn, mixed, outputs, manifest>>
  BY <1>o, <1>0 DEF Unlink, cached
<1>2. p \in Pipelines /\ row[p] = None /\ \A q \in Pipelines \ {p} : file'[q] = file[q]
  BY <1>o, <1>0, <1>1 DEF StoreInv, TypeInv, IsOp, UnlinkInv
<1>3. e.pc = "dropCache" /\ e.old = o.old /\ \A n : WorksOn(e, n) <=> WorksOn(o, n)
  <2>1. IsOp(o) /\ "dropCache" \notin {"idle"} \cup Importing /\ o.pc \notin {"idle"} \cup Importing
    BY <1>o, <1>1, Own DEF Importing
  <2> QED BY <1>o, <2>1, Moves
<1>4. \A n : Same(n)
  BY <1>1, <1>2 DEF Same, Named
<1>5. ASSUME NEW n \in Names \ mixed PROVE Turn(h, o, e, n)
  <2>1. ASSUME WorksOn(o, n) PROVE Stage(e, n)'
    <3>1. Stage(o, n)
      BY <1>o, <2>1, Own
    <3>2. Stage(e, n)
      BY <1>1, <1>3, <3>1 DEF Stage
    <3> QED BY <1>1, <1>3, <1>4, <3>2, StageKept
  <2> QED BY <1>3, <1>4, <2>1 DEF Turn
<1>6. FollowInv'
  BY <1>o, <1>1, <1>5, FollowTurn DEF CacheInv
<1>7. AgreeInv' /\ HeldInv' /\ RereadInv'
  <2>1. used' \subseteq Pipelines
    BY <1>1 DEF CacheInv, HeldInv
  <2>2. e.pc \notin Held \cup Caching \cup {"insertRow", "reread"}
    BY <1>3 DEF Held, Caching
  <2>3. \A q \in Pipelines : row'[q] # None =>
          row[q] # None /\ row'[q].name = row[q].name /\ file'[q] = file[q]
    BY <1>1, <1>2
  <2> QED BY <1>o, <1>1, <2>1, <2>2, <2>3, NamesKept DEF CacheInv
<1> QED BY <1>1, <1>6, <1>7 DEF CacheInv, CacheTypes

(* The process ends: what its requests worked on is given up, a command of  *)
(* another process goes on.                                                *)
LEMMA CacheCrash == ASSUME StoreInv, CacheInv, Crash PROVE CacheInv'
<1>1. /\ op' = [h \in Actors |-> IF h = Cli THEN op[h] ELSE Idle]
      /\ torn' = torn \cup {op[h].id : h \in {g \in Handlers : op[g].pc \in Writing}}
      /\ mixed' = mixed \cup UNION {NamesOf(op[h]) : h \in Handlers}
      /\ UNCHANGED <<file, row, used, outputs, manifest>>
  BY DEF Crash, Actors, Writing, cached
<1>2. /\ \A h \in Actors \ {Cli} : op'[h] = Idle /\ h \in Handlers
      /\ Cli \in Actors /\ op'[Cli] = op[Cli] /\ op[Cli].pc \notin Writing
      /\ mixed \subseteq mixed' /\ \A h \in Handlers : h \in Actors /\ NamesOf(op[h]) \subseteq mixed'
  BY <1>1 DEF Actors, StoreInv, MutexInv
<1>3. FollowInv'
  <2>1. ASSUME NEW n \in Names \ mixed' PROVE Followed(n)'
    <3>0. PICK o : o = op[Cli]
      OBVIOUS
    <3>1. Followed(n) /\ Same(n) /\ \A h \in Actors \ {Cli} : ~WorksOn(op[h], n)
      BY <1>1, <1>2 DEF CacheInv, FollowInv, Same, Named, WorksOn
    <3>2. \A w : WorksOn(w, n)' <=> WorksOn(w, n)
      BY DEF WorksOn, NamesOf
    <3>3. \A h \in Actors \ {Cli} : ~WorksOn(op'[h], n)
      BY <1>2, IdleNames
    <3>4. ASSUME WorksOn(o, n) PROVE Stage(o, n)'
      <4>1. Stage(o, n) /\ o.pc \notin {"updateRow", "saved"}
        BY <1>2, <3>0, <3>1, <3>4 DEF Followed, Writing
      <4>2. Named(n)' = Named(n) /\ Record(o.id)' = Record(o.id)
        BY <1>1 DEF Named, Record
      <4>3. (Blank(n) => Blank(n)') /\ (Coherent(n) => Coherent(n)')
            /\ (Fits(n, o.def.code) => Fits(n, o.def.code)')
        BY <1>1 DEF Blank, Coherent, Fits, Full, NoManifest
      <4> QED BY <1>1, <4>1, <4>2, <4>3 DEF Stage
    <3>5. (\A h \in Actors : ~WorksOn(op'[h], n)) => AtRest(n)'
      BY <1>2, <3>1, RestKept DEF Followed
    <3>6. ASSUME NEW h \in Actors, WorksOn(op'[h], n) PROVE h = Cli /\ Stage(op[h], n)'
      <4>1. h = Cli /\ op'[h] = o /\ WorksOn(o, n)
        BY <1>2, <3>0, <3>3, <3>6
      <4> QED BY <3>4, <4>1
            DEF Stage, Named, Blank, Fits, Full, Coherent, Record, NoManifest
    <3>7. \A h \in Actors : WorksOn(op[h], n)' <=> WorksOn(op'[h], n)
      BY DEF WorksOn, NamesOf
    <3> QED BY <3>5, <3>6, <3>7 DEF Followed
  <2> QED BY <2>1 DEF FollowInv
<1>4. AgreeInv'
  <2>1. ASSUME NEW p \in Pipelines, row[p] # None, p \in torn' \ torn
        PROVE  {file[p].name, row[p].name} \subseteq mixed'
    <3>1. PICK h \in Handlers : op[h].pc \in Writing /\ op[h].id = p
      BY <1>1, <2>1
    <3>2. PICK o : o = op[h]
      OBVIOUS
    <3>3. IsOp(o) /\ o.def \in Defs /\ Written(o)
      BY <1>2, <2>1, <3>1, <3>2 DEF StoreInv, TypeInv, IsOp, SavingInv, Saving
    <3>4. file[p].name = o.def.name /\ o.def.name \in Names /\ o.def # None
      BY <3>1, <3>2, <3>3, StoreAssumption DEF Written, Defs
    <3>5. file[p].name \in mixed'
      BY <1>2, <3>2, <3>4 DEF NamesOf
    <3> QED BY <1>2, <2>1, <3>5 DEF CacheInv, AgreeInv
  <2> QED BY <1>1, <1>2, <2>1 DEF CacheInv, AgreeInv
<1>5. HeldInv'
  <2>1. ASSUME NEW h \in Actors, op[h].pc \in Writing PROVE op[h].id \in used
    <3>1. op[h].pc \in {"updateRow", "replaceRow"} => op[h].id \in used
      BY DEF CacheInv, HeldInv, Held
    <3>2. op[h].pc \in {"insertRow", "created", "saved", "replaced"} => op[h].id \in used
      BY <2>1 DEF StoreInv, SavingInv, Saving
    <3> QED BY <2>1, <3>1, <3>2 DEF Writing
  <2>2. torn' \subseteq used
    BY <1>1, <1>2, <2>1 DEF CacheInv, HeldInv
  <2>3. Idle.pc = "idle" /\ "insertRow" \in Writing /\ "idle" \notin Held \cup Caching
    BY DEF Idle, Writing, Held, Caching
  <2> QED BY <1>1, <1>2, <2>2, <2>3 DEF CacheInv, HeldInv
<1>6. RereadInv'
  <2>1. Idle.pc = "idle"
    BY DEF Idle
  <2> QED BY <1>1, <1>2, <2>1 DEF CacheInv, RereadInv
<1> QED BY <1>1, <1>3, <1>4, <1>5, <1>6 DEF CacheInv, CacheTypes

LEMMA StepFollows == StoreInv /\ CacheInv /\ [StoreNext]_storeVars => CacheInv'
<1> SUFFICES ASSUME StoreInv, CacheInv, [StoreNext]_storeVars PROVE CacheInv'
  OBVIOUS
<1>0. Handlers \subseteq Actors /\ Cli \in Actors
  BY DEF Actors
<1>1. ASSUME NEW h \in Handlers, NEW p \in Pipelines, NEW d \in Defs,
             CreatePipeline(h, p, d) \/ UpdatePipeline(h, p, d)
      PROVE  CacheInv'
  BY <1>0, <1>1, CacheCreate, CacheUpdate DEF CreatePipeline, UpdatePipeline, Take
<1>2. ASSUME NEW h \in Handlers, NEW p \in Pipelines, NEW v \in versions[p], RestoreVersion(h, p, v)
      PROVE  CacheInv'
  <2>1. p \in used /\ [name |-> v.name, code |-> v.code] \in Defs
    BY DEF StoreInv, UsedInv, TypeInv, Snapshot, Defs
  <2> QED BY <1>0, <1>2, <2>1, CacheUpdate DEF RestoreVersion, Take
<1>3. ASSUME NEW h \in Handlers, NEW p \in Pipelines,
             ImportCreate(h, p) \/ DeletePipeline(h, p) \/ RunPipeline(h, p)
      PROVE  CacheInv'
  <2>1. CASE ImportCreate(h, p)
    <3>1. op[h].pc = "importCreate" /\ op[h].def \in Defs
      BY <1>0, <2>1 DEF ImportCreate, StoreInv, TypeInv, IsOp, Importing
    <3> QED BY <1>0, <2>1, <3>1, CacheCreate DEF ImportCreate, Importing
  <2> QED BY <1>0, <1>3, <2>1, CacheDelete, CacheStart
<1>4. ASSUME NEW h \in Handlers, ImportUpdate(h) PROVE CacheInv'
  <2>1. op[h].pc = "importUpdate" /\ op[h].def \in Defs /\ op[h].id \in used /\ op[h].id \in Pipelines
    BY <1>0, <1>4 DEF ImportUpdate, StoreInv, TypeInv, IsOp, Importing, CacheInv, HeldInv, Held
  <2> QED BY <1>0, <1>4, <2>1, CacheUpdate DEF ImportUpdate, Importing
<1>5. ASSUME NEW h \in Handlers,
             ImportRead(h) \/ \E d \in Defs, c \in {"reject", "rename", "overwrite"} : Import(h, d, c)
      PROVE  CacheInv'
  BY <1>0, <1>5, CacheImport
<1>6. ASSUME NEW h \in Handlers,
             InsertRow(h) \/ UpdateRow(h) \/ InsertVersion(h) \/ Unlink(h) \/ DropCache(h)
             \/ ReadForSave(h) \/ InvalidateChanged(h)
      PROVE  CacheInv'
  BY <1>0, <1>6, CacheInsertRow, CacheUpdateRow, CacheInsertVersion, CacheUnlink, CacheDrop,
     CacheReread, CacheInvalidate
<1>7. ASSUME NEW h \in Handlers, RunFails(h) \/ RecordRun(h) PROVE CacheInv'
  <2>1. CASE RunFails(h)
    BY <1>0, <2>1, RowsStay, CacheRunEnds DEF RunFails, stored, cached
  <2>2. CASE RecordRun(h)
    BY <1>0, <2>2, RunCounted, CacheRunEnds DEF RecordRun, cached
  <2> QED BY <1>7, <2>1, <2>2
<1>8. ASSUME NEW h \in Handlers \cup {Cli}, CacheFiles(h) \/ CacheManifest(h) PROVE CacheInv'
  BY <1>8, CacheFilesStep, CacheManifestStep DEF Actors
<1>9. ASSUME NEW p \in Pipelines, CliRun(p) PROVE CacheInv'
  BY <1>0, <1>9, CacheStart
<1>10. ASSUME NEW succeeded \in BOOLEAN, CliRecordRun(succeeded) PROVE CacheInv'
  <2>1. CASE succeeded = TRUE
    BY <1>0, <1>10, <2>1, CacheCliRecord
  <2>2. CASE succeeded = FALSE
    BY <1>0, <1>10, <2>2, RunCounted, CacheRunEnds DEF CliRecordRun, cached
  <2> QED BY <2>1, <2>2
<1>11. CASE Crash
  BY <1>11, CacheCrash
<1>12. CASE UNCHANGED storeVars
  <2>1. UNCHANGED <<file, row, used, op, torn, mixed, outputs, manifest>>
    BY <1>12 DEF storeVars
  <2>2. CacheTypes' /\ AgreeInv' /\ HeldInv' /\ RereadInv'
    BY <2>1 DEF CacheInv, CacheTypes, AgreeInv, HeldInv, RereadInv
  <2>3. FollowInv'
    <3>1. PICK o : o = op[Cli] /\ op' = [op EXCEPT ![Cli] = o]
      BY <1>0, <2>1 DEF StoreInv, TypeInv
    <3>2. \A n : Same(n)
      BY <2>1 DEF Same, Named
    <3>3. \A n \in Names \ mixed : WorksOn(o, n) => Stage(o, n)'
      BY <1>0, <2>1, <3>1, <3>2, Own, StageKept
    <3>4. \A n \in Names \ mixed' : Turn(Cli, o, o, n)
      BY <2>1, <3>2, <3>3 DEF Turn
    <3> QED BY <1>0, <2>1, <3>1, <3>4, FollowTurn DEF CacheInv
  <2> QED BY <2>2, <2>3 DEF CacheInv
<1> QED BY <1>1, <1>2, <1>3, <1>4, <1>5, <1>6, <1>7, <1>8, <1>9, <1>10, <1>11, <1>12 DEF StoreNext

LEMMA InitFollows == StoreInit => CacheInv
<1> SUFFICES ASSUME StoreInit PROVE CacheInv
  OBVIOUS
<1>1. op = [h \in Actors |-> Idle] /\ \A h \in Actors : op[h] = Idle
  BY DEF StoreInit, Actors
<1>2. Idle.pc = "idle" /\ "idle" \notin Held \cup Caching
  BY DEF Idle, Held, Caching
<1>3. FollowInv
  BY <1>1, IdleNames DEF StoreInit, FollowInv, Followed, AtRest, Named, Blank
<1>4. CacheTypes /\ AgreeInv /\ HeldInv /\ RereadInv
  BY <1>1, <1>2 DEF StoreInit, CacheTypes, AgreeInv, HeldInv, RereadInv
<1> QED BY <1>3, <1>4 DEF CacheInv

(* What a preview shows of a pipeline is nothing or what its saved          *)
(* definition computes, as long as no two requests worked on its name at    *)
(* once, it was not renamed, restored or overwritten by an import, and no   *)
(* crash cut one off: CacheFollowsSaves, for any number of pipelines,       *)
(* names, codes and requests.                                              *)
THEOREM CacheFollowsSavesHolds == StoreSpec => []CacheFollowsSaves
<1>1. ASSUME StoreInv, CacheInv PROVE CacheFollowsSaves
  <2>1. SUFFICES ASSUME NEW p \in Pipelines, row[p] # None, NEW n, n = row[p].name, n \notin mixed,
                        n \notin UNION {NamesOf(op[h]) : h \in Actors}
                 PROVE  \A x \in CachedNodes :
                          /\ CliPreview(p)[x] \in {None, Output(Record(p), x)}
                          /\ \A y \in CachedNodes : PreviewPipeline(p, y)[x] \in {None, Output(Record(p), x)}
    BY DEF CacheFollowsSaves, Actors
  <2>2. PICK d : d = Record(p)
    OBVIOUS
  <2>3. n \in Names /\ p \in Named(n) /\ d.name = n /\ d.code = file[p].code
    BY <1>1, <2>1, <2>2, Recorded DEF Named
  <2>4. \A h \in Actors : ~WorksOn(op[h], n)
    BY <2>1 DEF WorksOn
  <2>5. Fits(n, d.code)
    BY <1>1, <2>1, <2>3, <2>4 DEF CacheInv, FollowInv, Followed, AtRest
  <2>6. \A x \in CachedNodes : outputs[n][x] \in {None, <<x, d.code>>}
    BY <2>5 DEF Fits, Blank, Full, NoManifest
  <2>7. \A x, y \in CachedNodes : ReExecute(d, x) \in {None, <<x, d.code>>}
    <3>1. outputs[n]["source"] = None \/ outputs[n]["source"] = <<"source", d.code>>
      BY <2>6 DEF CachedNodes
    <3> QED BY <2>3, <3>1 DEF ReExecute, ReadNode, Output
  <2> QED BY <2>2, <2>3, <2>6, <2>7 DEF CliPreview, PreviewPipeline, Preview, ReadNode, Output
<1>2. StoreInv /\ CacheInv /\ [StoreNext]_storeVars => StoreInv' /\ CacheInv'
  BY StepStore, StepFollows, StoreAssumption
<1>3. StoreInit => StoreInv /\ CacheInv
  BY InitStore, InitFollows
<1>4. StoreInv /\ CacheInv => CacheFollowsSaves
  BY <1>1
<1> QED BY <1>2, <1>3, <1>4, PTL DEF StoreSpec

-----------------------------------------------------------------------------
(* The PostgreSQL store.  There is no mutex to argue from: what carries the *)
(* proof is a debt.  A row whose version is not in the history is owed to a *)
(* request that is still at it: the one that wrote it, before its snapshot, *)
(* or one that has deleted the snapshots and not yet the row.  A request    *)
(* ends only by paying, or by being broken off, which tears the pipeline.   *)

PgActive == {"insertRow", "updateRow", "insertVersion", "deleteRow"}

IsPgOp(o) ==
  /\ o = [pc |-> o.pc, id |-> o.id, name |-> o.name, n |-> o.n]
  /\ o.pc \in PgActive => o.id \in Pipelines

PgShaped ==
  /\ pgRow = [p \in Pipelines |-> pgRow[p]]
  /\ pgVersions = [p \in Pipelines |-> pgVersions[p]]
  /\ pgOp = [r \in PgRequests |-> pgOp[r]]
  /\ \A r \in PgRequests : IsPgOp(pgOp[r])

Backed(p) == \E v \in pgVersions[p] : v.n = pgRow[p].n

(* Request r will still write the snapshot of p's row, or delete the row.  *)
Owes(r, p) ==
  /\ pgOp[r].id = p
  /\ \/ pgOp[r].pc = "insertVersion" /\ pgOp[r].n = pgRow[p].n
     \/ pgOp[r].pc = "deleteRow"

Settled(p) == pgRow[p] # None => Backed(p) \/ \E r \in PgRequests : Owes(r, p)

DebtInv == PgShaped /\ \A p \in Pipelines \ pgTorn : Settled(p)

LEMMA InitDebt == PgInit => DebtInv
BY DEF PgInit, DebtInv, PgShaped, IsPgOp, Settled, Waiting, PgActive

-----------------------------------------------------------------------------
(* A request that moves on without touching a row or a snapshot.           *)
LEMMA PgMoves ==
  ASSUME DebtInv, NEW r \in PgRequests, NEW o, Becomes(r, o), IsPgOp(o),
         UNCHANGED <<pgRow, pgVersions, pgTorn>>,
         pgOp[r].pc \notin {"insertVersion", "deleteRow"}
  PROVE  DebtInv'
<1>1. PgShaped'
  BY DEF DebtInv, PgShaped, IsPgOp, Becomes
<1>2. ASSUME NEW p \in Pipelines \ pgTorn PROVE Settled(p)'
  <2>1. Settled(p)
    BY DEF DebtInv
  <2>2. ASSUME NEW q \in PgRequests, Owes(q, p) PROVE Owes(q, p)'
    BY <2>2 DEF DebtInv, PgShaped, Becomes, Owes
  <2> QED BY <2>1, <2>2 DEF Settled, Backed
<1> QED BY <1>1, <1>2 DEF DebtInv

(* A request that writes a row owes its snapshot; the row of every other    *)
(* pipeline is as it was.                                                  *)
LEMMA PgWritesRow ==
  ASSUME DebtInv, NEW r \in PgRequests, pgOp[r].pc \in {"insertRow", "updateRow"},
         pgRow' = [pgRow EXCEPT ![pgOp[r].id] =
                     [name |-> pgOp[r].name, n |-> pgOp[r].n, by |-> r]],
         Becomes(r, [pgOp[r] EXCEPT !.pc = "insertVersion"]),
         UNCHANGED <<pgVersions, pgTorn>>
  PROVE  DebtInv'
<1> DEFINE o == pgOp[r]
<1>1. IsPgOp(o) /\ o.id \in Pipelines
  BY DEF DebtInv, PgShaped, IsPgOp, PgActive
<1>2. pgOp'[r] = [pc |-> "insertVersion", id |-> o.id, name |-> o.name, n |-> o.n]
  <2>1. pgOp'[r] = [o EXCEPT !.pc = "insertVersion"]
    BY DEF DebtInv, PgShaped, Becomes
  <2> QED BY <1>1, <2>1 DEF IsPgOp
<1>3. \A q \in PgRequests \ {r} : pgOp'[q] = pgOp[q]
  BY DEF DebtInv, PgShaped, Becomes
<1>4. PgShaped'
  BY <1>1, <1>2, <1>3 DEF DebtInv, PgShaped, IsPgOp, Becomes, PgActive
<1>5. ASSUME NEW p \in Pipelines \ pgTorn PROVE Settled(p)'
  <2>1. CASE p = o.id
    <3>1. pgRow'[p] = [name |-> o.name, n |-> o.n, by |-> r]
      BY <2>1 DEF DebtInv, PgShaped
    <3>2. Owes(r, p)'
      BY <1>2, <2>1, <3>1 DEF Owes
    <3> QED BY <3>2 DEF Settled
  <2>2. CASE p # o.id
    <3>1. Settled(p) /\ pgRow'[p] = pgRow[p]
      BY <2>2 DEF DebtInv, PgShaped
    <3>2. ASSUME NEW q \in PgRequests, Owes(q, p) PROVE Owes(q, p)'
      BY <1>3, <2>2, <3>1, <3>2 DEF Owes
    <3> QED BY <3>1, <3>2 DEF Settled, Backed
  <2> QED BY <2>1, <2>2
<1> QED BY <1>4, <1>5 DEF DebtInv

LEMMA InsertsVersion == ASSUME DebtInv, NEW r \in PgRequests, PgInsertVersion(r) PROVE DebtInv'
<1> DEFINE o == pgOp[r]
<1>1. o.pc = "insertVersion" /\ o.id \in Pipelines /\ pgOp'[r] = Done
  BY DEF DebtInv, PgShaped, IsPgOp, PgActive, PgInsertVersion, At, Becomes
<1>2. \A q \in PgRequests \ {r} : pgOp'[q] = pgOp[q]
  BY DEF DebtInv, PgShaped, PgInsertVersion, Becomes
<1>3. pgVersions'[o.id] = IF \E v \in pgVersions[o.id] : v.n = o.n THEN pgVersions[o.id]
                          ELSE pgVersions[o.id] \cup {[n |-> o.n, by |-> r]}
  BY <1>1 DEF DebtInv, PgShaped, PgInsertVersion
<1>4. \A p \in Pipelines \ {o.id} : pgVersions'[p] = pgVersions[p]
  BY DEF DebtInv, PgShaped, PgInsertVersion
<1>5. \E v \in pgVersions'[o.id] : v.n = o.n
  BY <1>3
<1>6. PgShaped'
  BY <1>1, <1>2 DEF DebtInv, PgShaped, IsPgOp, PgInsertVersion, Becomes, PgActive, Done, Waiting
<1>7. UNCHANGED <<pgRow, pgTorn>>
  BY DEF PgInsertVersion
<1>8. ASSUME NEW p \in Pipelines \ pgTorn PROVE Settled(p)'
  <2>1. Settled(p)
    BY DEF DebtInv
  <2>2. Backed(p) => Backed(p)'
    BY <1>3, <1>4, <1>7 DEF Backed
  <2>3. ASSUME NEW q \in PgRequests, Owes(q, p) PROVE Backed(p)' \/ Owes(q, p)'
    <3>1. CASE q = r
      BY <1>1, <1>5, <1>7, <2>3, <3>1 DEF Owes, Backed
    <3>2. CASE q # r
      BY <1>2, <1>7, <2>3, <3>2 DEF Owes
    <3> QED BY <3>1, <3>2
  <2> QED BY <1>7, <2>1, <2>2, <2>3 DEF Settled
<1> QED BY <1>6, <1>7, <1>8 DEF DebtInv

LEMMA BeginsDelete ==
  ASSUME DebtInv, NEW r \in PgRequests, NEW d \in Pipelines, BeginDelete(r, d) PROVE DebtInv'
<1>1. pgOp'[r] = [pc |-> "deleteRow", id |-> d, name |-> None, n |-> 0] /\ pgOp[r].pc = "new"
  BY DEF DebtInv, PgShaped, BeginDelete, Becomes, Waiting, Arrives, At
<1>2. \A q \in PgRequests \ {r} : pgOp'[q] = pgOp[q]
  BY DEF DebtInv, PgShaped, BeginDelete, Becomes
<1>3. \A p \in Pipelines \ {d} : pgVersions'[p] = pgVersions[p]
  BY DEF DebtInv, PgShaped, BeginDelete
<1>4. PgShaped'
  <2>1. pgVersions' = [p \in Pipelines |-> pgVersions'[p]] /\ pgOp' = [q \in PgRequests |-> pgOp'[q]]
    BY DEF DebtInv, PgShaped, BeginDelete, Becomes
  <2>2. \A q \in PgRequests : IsPgOp(pgOp'[q])
    BY <1>1, <1>2 DEF DebtInv, PgShaped, IsPgOp
  <2> QED BY <2>1, <2>2 DEF DebtInv, PgShaped, IsPgOp, BeginDelete
<1>5. UNCHANGED <<pgRow, pgTorn>>
  BY DEF BeginDelete
<1>6. ASSUME NEW p \in Pipelines \ pgTorn PROVE Settled(p)'
  <2>1. CASE p = d
    BY <1>1, <2>1 DEF Settled, Owes
  <2>2. CASE p # d
    <3>1. Settled(p)
      BY DEF DebtInv
    <3>2. ASSUME NEW q \in PgRequests, Owes(q, p) PROVE Owes(q, p)'
      BY <1>1, <1>2, <1>5, <3>2 DEF Owes
    <3> QED BY <1>3, <1>5, <2>2, <3>1, <3>2 DEF Settled, Backed
  <2> QED BY <2>1, <2>2
<1> QED BY <1>4, <1>5, <1>6 DEF DebtInv

(* A row that is deleted owes nothing; a pipeline that is torn is left out. *)
LEMMA Ends ==
  ASSUME DebtInv, NEW r \in PgRequests, DeleteRow(r) \/ BreakOff(r) PROVE DebtInv'
<1> DEFINE o == pgOp[r]
<1>1. o.pc \in PgActive /\ o.id \in Pipelines /\ pgOp'[r] = Done
  BY DEF DebtInv, PgShaped, IsPgOp, PgActive, DeleteRow, BreakOff, At, Becomes
<1>2. \A q \in PgRequests \ {r} : pgOp'[q] = pgOp[q]
  BY DEF DebtInv, PgShaped, DeleteRow, BreakOff, Becomes
<1>3. \A p \in Pipelines \ {o.id} : pgRow'[p] = pgRow[p]
  BY DEF DebtInv, PgShaped, DeleteRow, BreakOff
<1>4. pgRow'[o.id] = None \/ o.id \in pgTorn'
  BY <1>1 DEF DebtInv, PgShaped, DeleteRow, BreakOff
<1>5. PgShaped'
  BY <1>1, <1>2 DEF DebtInv, PgShaped, IsPgOp, DeleteRow, BreakOff, Becomes, PgActive, Done, Waiting
<1>6. pgVersions' = pgVersions /\ pgTorn \subseteq pgTorn'
  BY DEF DeleteRow, BreakOff
<1>7. ASSUME NEW p \in Pipelines \ pgTorn' PROVE Settled(p)'
  <2>1. CASE p = o.id
    BY <1>4, <2>1 DEF Settled
  <2>2. CASE p # o.id
    <3>1. Settled(p)
      BY <1>6 DEF DebtInv
    <3>2. ASSUME NEW q \in PgRequests, Owes(q, p) PROVE Owes(q, p)'
      BY <1>2, <1>3, <2>2, <3>2 DEF Owes
    <3> QED BY <1>3, <1>6, <2>2, <3>1, <3>2 DEF Settled, Backed
  <2> QED BY <2>1, <2>2
<1> QED BY <1>5, <1>7 DEF DebtInv

LEMMA StepDebt == DebtInv /\ [PgNext]_pgVars => DebtInv'
<1> SUFFICES ASSUME DebtInv, [PgNext]_pgVars PROVE DebtInv'
  OBVIOUS
<1>0. IsPgOp(Done)
  BY DEF IsPgOp, Done, Waiting, PgActive
<1>1. ASSUME NEW r \in PgRequests, NEW p \in Pipelines, NEW name \in Names, BeginCreate(r, p, name)
      PROVE  DebtInv'
  <2> DEFINE o == IF NameTaken(name, p) THEN Done
                  ELSE [pc |-> "insertRow", id |-> p, name |-> name, n |-> 1]
  <2>1. Becomes(r, o) /\ UNCHANGED <<pgRow, pgVersions, pgTorn>> /\ pgOp[r].pc = "new"
    BY <1>1 DEF BeginCreate, Arrives, At
  <2>2. IsPgOp(o)
    BY <1>0 DEF IsPgOp
  <2> HIDE DEF o
  <2> QED BY <2>1, <2>2, PgMoves
<1>2. ASSUME NEW r \in PgRequests, NEW p \in Pipelines, NEW name \in Names, BeginUpdate(r, p, name)
      PROVE  DebtInv'
  <2> DEFINE o == IF NameTaken(name, p) THEN Done
                  ELSE [pc |-> "updateRow", id |-> p, name |-> name,
                        n |-> IF Newest(p) > 0 THEN Newest(p) + 1 ELSE 2]
  <2>1. Becomes(r, o) /\ UNCHANGED <<pgRow, pgVersions, pgTorn>> /\ pgOp[r].pc = "new"
    BY <1>2 DEF BeginUpdate, Arrives, At
  <2>2. IsPgOp(o)
    BY <1>0 DEF IsPgOp
  <2> HIDE DEF o
  <2> QED BY <2>1, <2>2, PgMoves
<1>3. ASSUME NEW r \in PgRequests, PgInsertRow(r) \/ PgUpdateRow(r) PROVE DebtInv'
  <2>1. pgOp[r].pc \in {"insertRow", "updateRow"} /\ UNCHANGED <<pgVersions, pgTorn>>
    BY <1>3 DEF PgInsertRow, PgUpdateRow, At
  <2>2. CASE Becomes(r, Done) /\ UNCHANGED pgRow
    BY <1>0, <2>1, <2>2, PgMoves
  <2>3. CASE ~(Becomes(r, Done) /\ UNCHANGED pgRow)
    BY <1>3, <2>1, <2>3, PgWritesRow DEF PgInsertRow, PgUpdateRow
  <2> QED BY <2>2, <2>3
<1>4. CASE UNCHANGED pgVars
  BY <1>4 DEF pgVars, DebtInv, PgShaped, Settled, Backed, Owes
<1> QED
  BY <1>1, <1>2, <1>3, <1>4, InsertsVersion, BeginsDelete, Ends DEF PgNext

-----------------------------------------------------------------------------
(* Once the requests on a pipeline have ended, none of them broken off, the *)
(* version its definition names is in the history: RowVersionBacked of the  *)
(* PostgreSQL store, however the statements of any number of requests are   *)
(* interleaved.                                                            *)
THEOREM RowVersionBackedHolds == PgSpec => []RowVersionBacked
<1>1. DebtInv => RowVersionBacked
  BY DEF DebtInv, Settled, Backed, Owes, RowVersionBacked
<1> QED BY <1>1, InitDebt, StepDebt, PTL DEF PgSpec

-----------------------------------------------------------------------------
(* Copies of the metadata.  A record at a time is written, and what has    *)
(* been copied is a matter of how far the command is (Running): of the     *)
(* stage it is in, every listed record whose turn is over is in the target *)
(* or excused, and what belongs to it is there or about to be written; the *)
(* stages before are done.  The source may change meanwhile, but what was  *)
(* listed stays in it (Follows).  Each write keeps the target whole and    *)
(* grows it (Whole, Grown), so that a command cut off anywhere loses       *)
(* nothing, and the next one begins anew with whatever is there.           *)
IsBackend(s) == s = Backend(s.envs, s.overrides, s.rows, s.defs, s.versions, s.runs, s.stats)

(* What a write may do to the target: Preserved, with the kind of copy.     *)
Grown(kind, t, u) ==
  /\ Kept(t.rows, u.rows) /\ Kept(t.versions, u.versions) /\ Kept(t.runs, u.runs)
  /\ t.stats \subseteq u.stats /\ t.overrides \subseteq u.overrides
  /\ DOMAIN t.envs \subseteq DOMAIN u.envs
  /\ kind # "sqlite" => Kept(t.defs, u.defs)

(* Only an import leaves a definition without a row. *)
Paired(kind, t) == kind # "sqlite" => DOMAIN t.defs = DOMAIN t.rows

Whole(kind, t) == IsBackend(t) /\ Closed(t) /\ Paired(kind, t)

(* An environment, a pipeline whose turn is over. *)
EnvDone(kind, todo, t, e, fallback) ==
  \/ e \in DOMAIN t.envs /\ (kind = "traits" \/ t.envs[e] = fallback)
  \/ kind # "export" /\ (e = "prod" \/ Before(EnvOrder, e, fallback) \/ fallback \notin DOMAIN t.envs \cup todo)

Taken(t, p, name) == \E q \in DOMAIN t.rows : q # p /\ t.rows[q] = name

PipeDone(kind, t, p, name) ==
  IF kind = "traits" THEN \E q \in DOMAIN t.rows : t.rows[q] = name
  ELSE \/ p \in DOMAIN t.rows
       \/ kind = "sqlite" /\ p \in DOMAIN t.defs /\ t.defs[p].name = name /\ Taken(t, p, name)

(* What belongs to a record is in the target or about to be written. *)
Due(details, o, x) == \E item \in details : item.op = o /\ item.key = x

EnvsDone(kind, listed, todo, details, t) ==
  /\ \A e \in DOMAIN listed.envs \ todo : EnvDone(kind, todo, t, e, listed.envs[e])
  /\ kind = "export" => \A o \in listed.overrides : o[1] \notin todo => o \in t.overrides \/ Due(details, "override", o)

PipesDone(kind, listed, todo, details, t) ==
  /\ \A p \in DOMAIN listed.rows \ todo : PipeDone(kind, t, p, listed.rows[p])
  /\ kind # "traits" => \A v \in DOMAIN listed.versions : v[1] \notin todo =>
       v \in DOMAIN t.versions \/ Due(details, "version", v)

RunsDone(listed, todo, details, t) ==
  /\ DOMAIN listed.runs \ todo \subseteq DOMAIN t.runs
  /\ \A x \in listed.stats : x[1] \notin todo => x \in t.stats \/ Due(details, "stat", x)

(* How far a stage is; what is being written comes from its listing. *)
StageDone(kind, stage, listed, todo, details, t) ==
  IF stage = "envs" THEN EnvsDone(kind, listed, todo, details, t)
  ELSE IF stage = "pipes" THEN PipesDone(kind, listed, todo, details, t)
  ELSE RunsDone(listed, todo, details, t)

Earlier(stage) == IF stage = "envs" THEN {} ELSE IF stage = "pipes" THEN {"envs"} ELSE {"envs", "pipes"}

IsDetail(kind, stage, listed, todo, t, item) ==
  /\ item = Item(item.op, item.key, item.value)
  /\ \/ item.op = "override" /\ stage = "envs" /\ (kind = "export" => item.key[1] \in DOMAIN t.envs)
     \/ item.op = "version" /\ stage = "pipes" /\ kind # "traits" /\ item.key[1] \in DOMAIN listed.rows \ todo
     \/ item.op = "stat" /\ stage = "runs" /\ item.key[1] \in DOMAIN t.runs

Follows(listed, s) == listed.overrides \subseteq s.overrides /\ DOMAIN listed.versions \subseteq DOMAIN s.versions

(* A command under way. *)
Running(s, t, kind, stage, todo, details, listed) ==
  /\ kind \in Kinds /\ (stage = "runs" => kind # "traits")
  /\ todo \subseteq Listing(stage, listed[stage])
  /\ \A x \in Stages : SoundSource(listed[x]) /\ Follows(listed[x], s)
  /\ \A item \in details : IsDetail(kind, stage, listed[stage], todo, t, item)
  /\ StageDone(kind, stage, listed[stage], todo, details, t)
  /\ \A x \in Earlier(stage) : StageDone(kind, x, listed[x], {}, {}, t)

ExcusedBy(kind, t, item) ==
  \/ item.op = "pipe" /\ Taken(t, item.key, item.value.name)
  \/ item.op = "env" /\ kind = "export" /\ item.value \notin DOMAIN t.envs
  \/ item.op = "version" /\ Taken(t, item.key[1], t.defs[item.key[1]].name)

Finished(t, kind, listed) ==
  /\ kind \in Kinds
  /\ EnvsDone(kind, listed.envs, {}, {}, t) /\ PipesDone(kind, listed.pipes, {}, {}, t)
  /\ kind # "traits" => RunsDone(listed.runs, {}, {}, t)

CopyState(s, t, kind, stage, todo, details, listed, before) ==
  /\ IsBackend(s) /\ SoundSource(s) /\ Whole(kind, t)
  /\ kind \in Kinds \cup {None} /\ listed = [x \in Stages |-> listed[x]]
  /\ Grown(kind, before, t)
  /\ stage \in Stages => Running(s, t, kind, stage, todo, details, listed)
  /\ stage = "done" => Finished(t, kind, listed)
  /\ stage = "failed" => \A item \in details : ExcusedBy(kind, t, item)

IsCopy(kind, stage, todo, details, count, listed, before) ==
  xfCmd = [kind |-> kind, stage |-> stage, todo |-> todo, details |-> details,
           count |-> count, listed |-> listed, before |-> before]

CopyInv ==
  \E kind, stage, todo, details, count, listed, before :
    /\ IsCopy(kind, stage, todo, details, count, listed, before)
    /\ CopyState(xfSource, xfTarget, kind, stage, todo, details, listed, before)

-----------------------------------------------------------------------------
(* One write keeps the target whole and grows it. *)
LEMMA PutEnvFacts ==
  ASSUME NEW kind \in Kinds, NEW t, Whole(kind, t), NEW e, NEW f,
         ~Refused(kind, t, Item("env", e, f)), NEW u, u = PutEnv(kind, t, e, f)
  PROVE  /\ Whole(kind, u) /\ Grown(kind, t, u)
         /\ u.overrides = t.overrides /\ u.rows = t.rows /\ u.defs = t.defs
         /\ DOMAIN u.envs \subseteq DOMAIN t.envs \cup {e}
         /\ \A x \in DOMAIN t.envs : x # e => u.envs[x] = t.envs[x]
<1>1. PICK envs, overrides, rows, defs, dated, runs, stats :
        t = [envs |-> envs, overrides |-> overrides, rows |-> rows, defs |-> defs,
             versions |-> dated, runs |-> runs, stats |-> stats]
  BY DEF Whole, IsBackend, Backend
<1>2. CASE u = t
  BY <1>1, <1>2 DEF Grown, Kept
<1>3. CASE u # t
  <2>1. u = [t EXCEPT !.envs = Put(@, e, f)] /\ (f = e \/ CanFallBack(t, e, f))
    BY <1>3 DEF PutEnv, Refused, Item
  <2>2. u = [envs |-> Put(envs, e, f), overrides |-> overrides, rows |-> rows, defs |-> defs,
             versions |-> dated, runs |-> runs, stats |-> stats]
    BY <1>1, <2>1
  <2>3. /\ DOMAIN Put(envs, e, f) = DOMAIN envs \cup {e}
        /\ \A x \in DOMAIN envs \cup {e} : Put(envs, e, f)[x] = IF x = e THEN f ELSE envs[x]
    BY DEF Put
  <2>4. IsBackend(u)
    BY <2>2 DEF IsBackend, Backend
  <2>5. Closed(u)
    BY <1>1, <2>1, <2>2, <2>3 DEF Whole, Closed, CanFallBack
  <2> QED BY <1>1, <2>2, <2>3, <2>4, <2>5 DEF Whole, Paired, Grown, Kept
<1> QED BY <1>2, <1>3

LEMMA PipeFacts ==
  ASSUME NEW kind, NEW t, Whole(kind, t), NEW p, NEW def, p \notin DOMAIN t.rows,
         kind = "sqlite" \/ p \notin DOMAIN t.defs,
         NEW u, u = AddPipe(t, p, def)
  PROVE  /\ Whole(kind, u) /\ Grown(kind, t, u) /\ u.envs = t.envs /\ u.overrides = t.overrides
         /\ u.versions = t.versions
         /\ DOMAIN u.rows = DOMAIN t.rows \cup {p} /\ u.rows[p] = def.name
         /\ \A x \in DOMAIN t.defs : x # p => x \in DOMAIN u.defs /\ u.defs[x] = t.defs[x]
<1>1. PICK envs, overrides, rows, defs, dated, runs, stats :
        t = [envs |-> envs, overrides |-> overrides, rows |-> rows, defs |-> defs,
             versions |-> dated, runs |-> runs, stats |-> stats]
  BY DEF Whole, IsBackend, Backend
<1>2. u = [envs |-> envs, overrides |-> overrides, rows |-> Put(rows, p, def.name), defs |-> Put(defs, p, def),
           versions |-> dated, runs |-> runs, stats |-> stats]
  BY <1>1 DEF AddPipe
<1>3. /\ DOMAIN Put(rows, p, def.name) = DOMAIN rows \cup {p}
      /\ \A x \in DOMAIN rows \cup {p} : Put(rows, p, def.name)[x] = IF x = p THEN def.name ELSE rows[x]
      /\ DOMAIN Put(defs, p, def) = DOMAIN defs \cup {p}
      /\ \A x \in DOMAIN defs \cup {p} : Put(defs, p, def)[x] = IF x = p THEN def ELSE defs[x]
  BY DEF Put
<1>4. IsBackend(u)
  BY <1>2 DEF IsBackend, Backend
<1>5. Closed(u)
  BY <1>1, <1>2, <1>3 DEF Whole, Closed
<1> QED BY <1>1, <1>2, <1>3, <1>4, <1>5 DEF Whole, Paired, Grown, Kept

(* The file of a pipeline is written whether or not it has a row. *)
WithFile(t, p, def) == [t EXCEPT !.defs = Put(@, p, def)]

LEMMA FileFacts ==
  ASSUME NEW kind, kind = "sqlite", NEW t, Whole(kind, t), NEW p, NEW def, NEW u, u = WithFile(t, p, def)
  PROVE  /\ Whole(kind, u) /\ Grown(kind, t, u) /\ u.envs = t.envs /\ u.overrides = t.overrides /\ u.rows = t.rows
         /\ p \in DOMAIN u.defs /\ u.defs[p] = def
         /\ \A x \in DOMAIN t.defs : x # p => x \in DOMAIN u.defs /\ u.defs[x] = t.defs[x]
<1>1. PICK envs, overrides, rows, defs, dated, runs, stats :
        t = [envs |-> envs, overrides |-> overrides, rows |-> rows, defs |-> defs,
             versions |-> dated, runs |-> runs, stats |-> stats]
  BY DEF Whole, IsBackend, Backend
<1>2. u = [envs |-> envs, overrides |-> overrides, rows |-> rows, defs |-> Put(defs, p, def),
           versions |-> dated, runs |-> runs, stats |-> stats]
  BY <1>1 DEF WithFile
<1>3. /\ DOMAIN Put(defs, p, def) = DOMAIN defs \cup {p}
      /\ \A x \in DOMAIN defs \cup {p} : Put(defs, p, def)[x] = IF x = p THEN def ELSE defs[x]
  BY DEF Put
<1>4. IsBackend(u)
  BY <1>2 DEF IsBackend, Backend
<1>5. Closed(u)
  BY <1>1, <1>2, <1>3 DEF Whole, Closed
<1> QED BY <1>1, <1>2, <1>3, <1>4, <1>5 DEF Whole, Paired, Grown, Kept

LEMMA VersionFacts ==
  ASSUME NEW kind, NEW t, Whole(kind, t), NEW v, v[1] \in DOMAIN t.rows, NEW body, NEW u, u = PutVersion(t, v, body)
  PROVE  /\ Whole(kind, u) /\ Grown(kind, t, u) /\ u.envs = t.envs /\ u.overrides = t.overrides
         /\ u.rows = t.rows /\ u.defs = t.defs /\ v \in DOMAIN u.versions
<1>1. PICK envs, overrides, rows, defs, dated, runs, stats :
        t = [envs |-> envs, overrides |-> overrides, rows |-> rows, defs |-> defs,
             versions |-> dated, runs |-> runs, stats |-> stats]
  BY DEF Whole, IsBackend, Backend
<1>2. u = [envs |-> envs, overrides |-> overrides, rows |-> rows, defs |-> defs,
           versions |-> PutNew(dated, v, body), runs |-> runs, stats |-> stats]
  BY <1>1 DEF PutVersion
<1>3. /\ DOMAIN PutNew(dated, v, body) = DOMAIN dated \cup {v}
      /\ \A x \in DOMAIN dated : PutNew(dated, v, body)[x] = dated[x]
  BY DEF Put, PutNew
<1>4. IsBackend(u)
  BY <1>2 DEF IsBackend, Backend
<1>5. Closed(u)
  BY <1>1, <1>2, <1>3 DEF Whole, Closed
<1> QED BY <1>1, <1>2, <1>3, <1>4, <1>5 DEF Whole, Paired, Grown, Kept

LEMMA RunFacts ==
  ASSUME NEW kind, NEW t, Whole(kind, t), NEW r, NEW run, NEW u, u = ImportRun(t, r, run)
  PROVE  /\ Whole(kind, u) /\ Grown(kind, t, u) /\ u.envs = t.envs /\ u.overrides = t.overrides
         /\ u.rows = t.rows /\ u.defs = t.defs /\ r \in DOMAIN u.runs
<1>1. PICK envs, overrides, rows, defs, dated, runs, stats :
        t = [envs |-> envs, overrides |-> overrides, rows |-> rows, defs |-> defs,
             versions |-> dated, runs |-> runs, stats |-> stats]
  BY DEF Whole, IsBackend, Backend
<1>2. u = [envs |-> envs, overrides |-> overrides, rows |-> rows, defs |-> defs,
           versions |-> dated, runs |-> PutNew(runs, r, run), stats |-> stats]
  BY <1>1 DEF ImportRun
<1>3. /\ DOMAIN PutNew(runs, r, run) = DOMAIN runs \cup {r}
      /\ \A x \in DOMAIN runs : PutNew(runs, r, run)[x] = runs[x]
  BY DEF Put, PutNew
<1>4. IsBackend(u)
  BY <1>2 DEF IsBackend, Backend
<1>5. Closed(u)
  BY <1>1, <1>2, <1>3 DEF Whole, Closed
<1> QED BY <1>1, <1>2, <1>3, <1>4, <1>5 DEF Whole, Paired, Grown, Kept

LEMMA SameTarget ==
  ASSUME NEW kind, NEW t, Whole(kind, t)
  PROVE  Grown(kind, t, t)
BY DEF Grown, Kept

LEMMA OverrideFacts ==
  ASSUME NEW kind, NEW t, Whole(kind, t), NEW o, NEW u, u = PutOverride(t, o)
  PROVE  /\ Whole(kind, u) /\ Grown(kind, t, u) /\ u.envs = t.envs /\ u.rows = t.rows /\ u.defs = t.defs
         /\ o[1] \in DOMAIN t.envs => o \in u.overrides
<1>1. PICK envs, overrides, rows, defs, dated, runs, stats :
        t = [envs |-> envs, overrides |-> overrides, rows |-> rows, defs |-> defs,
             versions |-> dated, runs |-> runs, stats |-> stats]
  BY DEF Whole, IsBackend, Backend
<1>2. CASE o[1] \notin DOMAIN t.envs
  BY <1>2, SameTarget DEF PutOverride
<1>3. CASE o[1] \in DOMAIN t.envs
  <2>1. u = [envs |-> envs, overrides |-> overrides \cup {o}, rows |-> rows, defs |-> defs,
             versions |-> dated, runs |-> runs, stats |-> stats]
    BY <1>1, <1>3 DEF PutOverride
  <2>2. IsBackend(u)
    BY <2>1 DEF IsBackend, Backend
  <2>3. Closed(u)
    BY <1>1, <1>3, <2>1 DEF Whole, Closed
  <2> QED BY <1>1, <2>1, <2>2, <2>3 DEF Whole, Paired, Grown, Kept
<1> QED BY <1>2, <1>3

LEMMA StatFacts ==
  ASSUME NEW kind, NEW t, Whole(kind, t), NEW x, x[1] \in DOMAIN t.runs, NEW u, u = InsertNodeStats(t, x)
  PROVE  /\ Whole(kind, u) /\ Grown(kind, t, u) /\ u.envs = t.envs /\ u.rows = t.rows /\ u.defs = t.defs
         /\ x \in u.stats
<1>1. PICK envs, overrides, rows, defs, dated, runs, stats :
        t = [envs |-> envs, overrides |-> overrides, rows |-> rows, defs |-> defs,
             versions |-> dated, runs |-> runs, stats |-> stats]
  BY DEF Whole, IsBackend, Backend
<1>2. u = [envs |-> envs, overrides |-> overrides, rows |-> rows, defs |-> defs,
           versions |-> dated, runs |-> runs, stats |-> stats \cup {x}]
  BY <1>1 DEF InsertNodeStats
<1>3. IsBackend(u)
  BY <1>2 DEF IsBackend, Backend
<1>4. Closed(u)
  BY <1>1, <1>2 DEF Whole, Closed
<1> QED BY <1>1, <1>2, <1>3, <1>4 DEF Whole, Paired, Grown, Kept

LEMMA GrownOn ==
  ASSUME NEW kind, NEW t, NEW u, NEW v, Grown(kind, t, u), Grown(kind, u, v)
  PROVE  Grown(kind, t, v)
BY DEF Grown, Kept

(* A pipeline gets a new id only if there is one. *)
HasId(kind, t) == kind = "traits" => FreshIds \ DOMAIN t.rows # {}

LEMMA PutPipeFacts ==
  ASSUME NEW kind \in Kinds, NEW t, Whole(kind, t), NEW p, NEW def,
         HasId(kind, t),
         ~Refused(kind, t, Item("pipe", p, def)), NEW u, u = Applied(kind, t, Item("pipe", p, def))
  PROVE  /\ Whole(kind, u) /\ Grown(kind, t, u) /\ u.envs = t.envs /\ u.overrides = t.overrides
         /\ PipeDone(kind, u, p, def.name)
         /\ \A x \in DOMAIN t.defs : x # p => x \in DOMAIN u.defs /\ u.defs[x] = t.defs[x]
<1>0. Grown(kind, t, t)
  BY SameTarget
<1>1. CASE kind = "export"
  <2>1. u = InsertPipeline(t, p, def)
    BY <1>1 DEF Applied, Item
  <2>2. CASE p \in DOMAIN t.rows
    BY <1>0, <1>1, <2>1, <2>2 DEF InsertPipeline, PipeDone
  <2>3. CASE p \notin DOMAIN t.rows
    <3>1. p \notin DOMAIN t.defs /\ u = AddPipe(t, p, def)
      BY <1>1, <2>1, <2>3 DEF Whole, Paired, InsertPipeline
    <3>2. Whole(kind, u) /\ Grown(kind, t, u) /\ u.envs = t.envs /\ u.overrides = t.overrides /\ p \in DOMAIN u.rows
          /\ \A x \in DOMAIN t.defs : x # p => x \in DOMAIN u.defs /\ u.defs[x] = t.defs[x]
      BY <2>3, <3>1, PipeFacts
    <3> QED BY <1>1, <3>2 DEF PipeDone
  <2> QED BY <2>2, <2>3
<1>2. CASE kind = "sqlite"
  <2>1. u = ImportRecord(t, p, def)
    BY <1>2 DEF Applied, Item
  <2>2. CASE p \in DOMAIN t.rows \/ def.name \in Range(t.rows)
    <3>1. u = WithFile(t, p, def)
      BY <2>1, <2>2 DEF ImportRecord, WithFile
    <3>2. /\ Whole(kind, u) /\ Grown(kind, t, u) /\ u.envs = t.envs /\ u.overrides = t.overrides /\ u.rows = t.rows
          /\ p \in DOMAIN u.defs /\ u.defs[p] = def
          /\ \A x \in DOMAIN t.defs : x # p => x \in DOMAIN u.defs /\ u.defs[x] = t.defs[x]
      BY <1>2, <3>1, FileFacts
    <3>3. PipeDone(kind, u, p, def.name)
      <4>1. CASE p \in DOMAIN t.rows
        BY <1>2, <3>2, <4>1 DEF PipeDone
      <4>2. CASE p \notin DOMAIN t.rows
        <5>1. PICK q \in DOMAIN t.rows : t.rows[q] = def.name
          BY <2>2, <4>2 DEF Range
        <5>2. q # p
          BY <4>2
        <5>3. Taken(u, p, def.name)
          BY <3>2, <5>1, <5>2 DEF Taken
        <5> QED BY <1>2, <3>2, <5>3 DEF PipeDone
      <4> QED BY <4>1, <4>2
    <3> QED BY <3>2, <3>3
  <2>3. CASE p \notin DOMAIN t.rows /\ def.name \notin Range(t.rows)
    <3>1. u = AddPipe(t, p, def)
      BY <2>1, <2>3 DEF ImportRecord
    <3>2. Whole(kind, u) /\ Grown(kind, t, u) /\ u.envs = t.envs /\ u.overrides = t.overrides /\ p \in DOMAIN u.rows
          /\ \A x \in DOMAIN t.defs : x # p => x \in DOMAIN u.defs /\ u.defs[x] = t.defs[x]
      BY <1>2, <2>3, <3>1, PipeFacts
    <3> QED BY <1>2, <3>2 DEF PipeDone
  <2> QED BY <2>2, <2>3
<1>3. CASE kind = "traits"
  <2>0. u = CreateUnderNewId(t, def)
    BY <1>3 DEF Applied, Item
  <2>1. CASE def.name \in Range(t.rows)
    <3>1. u = t
      BY <2>0, <2>1 DEF CreateUnderNewId
    <3>2. PICK q \in DOMAIN t.rows : t.rows[q] = def.name
      BY <2>1 DEF Range
    <3>3. PipeDone(kind, t, p, def.name)
      BY <1>3, <3>2 DEF PipeDone
    <3> QED BY <1>0, <3>1, <3>3
  <2>2. CASE def.name \notin Range(t.rows)
    <3>1. PICK id : id = CHOOSE x \in FreshIds : x \notin DOMAIN t.rows
      OBVIOUS
    <3>2. id \notin DOMAIN t.rows
      BY <1>3, <3>1 DEF HasId
    <3>3. id \notin DOMAIN t.defs
      BY <1>3, <3>2 DEF Whole, Paired
    <3>4. PICK w : w = AddPipe(t, id, def)
      OBVIOUS
    <3>5. u = [w EXCEPT !.versions = Put(@, <<id, 1>>, def.body)]
      BY <2>0, <2>2, <3>1, <3>4 DEF CreateUnderNewId
    <3>6. /\ Whole(kind, w) /\ Grown(kind, t, w) /\ w.envs = t.envs /\ w.overrides = t.overrides
          /\ w.versions = t.versions /\ DOMAIN w.rows = DOMAIN t.rows \cup {id} /\ w.rows[id] = def.name
      BY <3>2, <3>3, <3>4, PipeFacts
    <3>7. <<id, 1>> \notin DOMAIN t.versions
      BY <3>2 DEF Whole, Closed
    <3>8. u = PutVersion(w, <<id, 1>>, def.body)
      BY <3>5, <3>6, <3>7 DEF PutVersion, PutNew
    <3>9. PICK v : v = <<id, 1>>
      OBVIOUS
    <3>10. /\ Whole(kind, u) /\ Grown(kind, w, u) /\ u.envs = w.envs /\ u.overrides = w.overrides
           /\ u.rows = w.rows /\ u.defs = w.defs
      <4>1. v[1] \in DOMAIN w.rows /\ u = PutVersion(w, v, def.body)
        BY <3>6, <3>8, <3>9
      <4> HIDE <3>9
      <4> QED BY <3>6, <4>1, VersionFacts
    <3>11. Grown(kind, t, u)
      BY <3>6, <3>10, GrownOn
    <3>12. PipeDone(kind, u, p, def.name)
      BY <1>3, <3>6, <3>10 DEF PipeDone
    <3> QED BY <1>3, <3>6, <3>10, <3>11, <3>12 DEF Grown, Kept
  <2> QED BY <2>1, <2>2
<1> QED BY <1>1, <1>2, <1>3 DEF Kinds

-----------------------------------------------------------------------------
(* What belongs to a record: an override, a version, statistics. *)
LEMMA DetailFacts ==
  ASSUME NEW kind \in Kinds, NEW t, Whole(kind, t), NEW stage, NEW listed, NEW todo,
         NEW item, IsDetail(kind, stage, listed, todo, t, item), ~Refused(kind, t, item),
         NEW u, u = Applied(kind, t, item)
  PROVE  /\ Whole(kind, u) /\ Grown(kind, t, u) /\ u.envs = t.envs /\ u.rows = t.rows /\ u.defs = t.defs
         /\ item.op = "override" /\ kind = "export" => item.key \in u.overrides
         /\ item.op = "version" => item.key \in DOMAIN u.versions
         /\ item.op = "stat" => item.key \in u.stats
<1>1. PICK what, key, value : item = Item(what, key, value)
  BY DEF IsDetail
<1>2. item.op = what /\ item.key = key
  BY <1>1 DEF Item
<1>3. CASE what = "override"
  <2>1. u = PutOverride(t, key)
    BY <1>1, <1>3 DEF Applied, Item
  <2>2. kind = "export" => key[1] \in DOMAIN t.envs
    BY <1>2, <1>3 DEF IsDetail
  <2>3. /\ Whole(kind, u) /\ Grown(kind, t, u) /\ u.envs = t.envs /\ u.rows = t.rows /\ u.defs = t.defs
        /\ key[1] \in DOMAIN t.envs => key \in u.overrides
    BY <2>1, OverrideFacts
  <2> QED BY <1>2, <1>3, <2>2, <2>3
<1>4. CASE what = "version"
  <2>1. u = PutVersion(t, key, value)
    BY <1>1, <1>4 DEF Applied, Item
  <2>2. key[1] \in DOMAIN t.rows
    BY <1>2, <1>4 DEF Refused
  <2> QED BY <1>2, <1>4, <2>1, <2>2, VersionFacts
<1>5. CASE what = "stat"
  <2>1. u = InsertNodeStats(t, key)
    BY <1>1, <1>5 DEF Applied, Item
  <2>2. key[1] \in DOMAIN t.runs
    BY <1>2, <1>5 DEF IsDetail
  <2>3. /\ Whole(kind, u) /\ Grown(kind, t, u) /\ u.envs = t.envs /\ u.rows = t.rows /\ u.defs = t.defs
        /\ key \in u.stats
    BY <2>1, <2>2, StatFacts
  <2> QED BY <1>2, <1>5, <2>3
<1> QED BY <1>2, <1>3, <1>4, <1>5 DEF IsDetail

(* What was done stays done while something else is written. *)
LEMMA EnvsStay ==
  ASSUME NEW kind, NEW listed, NEW todo, NEW details, NEW t, EnvsDone(kind, listed, todo, details, t),
         NEW u, Grown(kind, t, u), u.envs = t.envs, NEW rest,
         \A o : kind = "export" /\ Due(details, "override", o) => Due(rest, "override", o) \/ o \in u.overrides
  PROVE  EnvsDone(kind, listed, todo, rest, u)
BY DEF EnvsDone, EnvDone, Grown

LEMMA PipesStay ==
  ASSUME NEW kind, NEW listed, NEW todo, NEW details, NEW t, PipesDone(kind, listed, todo, details, t),
         NEW u, Grown(kind, t, u), u.rows = t.rows, u.defs = t.defs, NEW rest,
         \A v : Due(details, "version", v) => Due(rest, "version", v) \/ v \in DOMAIN u.versions
  PROVE  PipesDone(kind, listed, todo, rest, u)
BY DEF PipesDone, PipeDone, Taken, Grown, Kept

LEMMA RunsStay ==
  ASSUME NEW kind, NEW listed, NEW todo, NEW details, NEW t, RunsDone(listed, todo, details, t),
         NEW u, Grown(kind, t, u), NEW rest,
         \A x : Due(details, "stat", x) => Due(rest, "stat", x) \/ x \in u.stats
  PROVE  RunsDone(listed, todo, rest, u)
BY DEF RunsDone, Grown, Kept

LEMMA StageStays ==
  ASSUME NEW kind \in Kinds, NEW stage \in Stages, NEW listed, NEW todo, NEW details, NEW t,
         StageDone(kind, stage, listed, todo, details, t),
         NEW u, Grown(kind, t, u), u.envs = t.envs, u.rows = t.rows, u.defs = t.defs, NEW item,
         item.op = "override" /\ kind = "export" => item.key \in u.overrides,
         item.op = "version" => item.key \in DOMAIN u.versions,
         item.op = "stat" => item.key \in u.stats
  PROVE  StageDone(kind, stage, listed, todo, details \ {item}, u)
<1>1. \A o, x : Due(details, o, x) => Due(details \ {item}, o, x) \/ (item.op = o /\ item.key = x)
  BY DEF Due
<1>2. CASE stage = "envs"
  BY <1>1, <1>2, EnvsStay DEF StageDone
<1>3. CASE stage = "pipes"
  BY <1>1, <1>3, PipesStay DEF StageDone
<1>4. CASE stage = "runs"
  BY <1>1, <1>4, RunsStay DEF StageDone
<1> QED BY <1>2, <1>3, <1>4 DEF Stages

-----------------------------------------------------------------------------
(* The records themselves. *)
Writes(kind, t, item, u) == ~Refused(kind, t, item) /\ u = Applied(kind, t, item)

OwesDetails(kind, stage, listed, now, key, details) ==
  Follows(listed, now) /\ details = Details(kind, stage, listed, now, key)

LEMMA EnvStep ==
  ASSUME DOMAIN EnvOrder \subseteq Int, None \notin Kinds \cup {"prod"}, NEW kind \in Kinds,
         NEW t, Whole(kind, t), NEW listed, SoundSource(listed), NEW todo, todo \subseteq DOMAIN listed.envs,
         EnvsDone(kind, listed, todo, {}, t), NEW e \in todo, \A other \in todo : ~Before(EnvOrder, other, e),
         NEW u, Writes(kind, t, Item("env", e, listed.envs[e]), u),
         NEW now, NEW details, OwesDetails(kind, "envs", listed, now, e, details)
  PROVE  /\ Whole(kind, u) /\ Grown(kind, t, u) /\ EnvsDone(kind, listed, todo \ {e}, details, u)
         /\ kind = "export" => e \in DOMAIN u.envs
<1>0. /\ ~Refused(kind, t, Item("env", e, listed.envs[e])) /\ u = Applied(kind, t, Item("env", e, listed.envs[e]))
      /\ Follows(listed, now) /\ details = Details(kind, "envs", listed, now, e)
  BY DEF Writes, OwesDetails
<1>1. PICK f : f = listed.envs[e]
  OBVIOUS
<1>2. /\ f # e /\ (f = None \/ f \in DOMAIN listed.envs)
      /\ e \in Range(EnvOrder) /\ DOMAIN listed.envs \subseteq Range(EnvOrder)
  BY <1>1 DEF SoundSource, Closed
<1>3. u = PutEnv(kind, t, e, f)
  BY <1>0, <1>1 DEF Applied, Item
<1>4. /\ Whole(kind, u) /\ Grown(kind, t, u) /\ DOMAIN u.envs \subseteq DOMAIN t.envs \cup {e}
      /\ \A x \in DOMAIN t.envs : x # e => u.envs[x] = t.envs[x]
  BY <1>0, <1>1, <1>3, PutEnvFacts
<1>5. EnvDone(kind, todo \ {e}, u, e, f) /\ (kind = "export" => e \in DOMAIN u.envs)
  <2>1. CASE u = [t EXCEPT !.envs = Put(@, e, f)]
    <3>1. u.envs = Put(t.envs, e, f)
      BY <2>1 DEF Whole, IsBackend, Backend
    <3> QED BY <3>1 DEF Put, EnvDone
  <2>2. CASE kind # "export" /\ u = t /\ CanFallBack(t, e, f) /\ u # [t EXCEPT !.envs = Put(@, e, f)]
    <3>1. e \in DOMAIN t.envs /\ (kind = "traits" \/ f = e \/ (e = "prod" /\ f # None))
      BY <1>3, <2>2, Zenon DEF PutEnv
    <3> QED BY <1>2, <2>2, <3>1 DEF EnvDone
  <2>3. CASE kind # "export" /\ u = t /\ ~CanFallBack(t, e, f)
    <3>1. f # None /\ f \notin DOMAIN t.envs
      BY <2>3 DEF CanFallBack
    <3>2. f \in todo => Before(EnvOrder, e, f)
      <4> SUFFICES ASSUME f \in todo PROVE Before(EnvOrder, e, f)
        OBVIOUS
      <4>1. PICK i, j \in DOMAIN EnvOrder : EnvOrder[i] = e /\ EnvOrder[j] = f
        BY <1>2 DEF Range
      <4>2. i \in Int /\ j \in Int /\ i # j /\ ~(j < i)
        BY <1>2, <4>1 DEF Before
      <4>3. i < j
        BY <4>2
      <4> QED BY <4>1, <4>3 DEF Before
    <3> QED BY <2>3, <3>1, <3>2 DEF EnvDone
  <2>4. u = [t EXCEPT !.envs = Put(@, e, f)] \/ (kind # "export" /\ u = t)
    <3>1. CASE kind = "export"
      BY <1>3, <3>1 DEF PutEnv
    <3>2. CASE kind # "export"
      BY <1>3, <3>2, Zenon DEF PutEnv
    <3> QED BY <3>1, <3>2
  <2>5. CanFallBack(t, e, f) \/ ~CanFallBack(t, e, f)
    OBVIOUS
  <2> QED BY <2>1, <2>2, <2>3, <2>4, <2>5, Zenon
<1>6. \A x \in DOMAIN listed.envs \ todo : EnvDone(kind, todo \ {e}, u, x, listed.envs[x])
  <2> SUFFICES ASSUME NEW x \in DOMAIN listed.envs \ todo
               PROVE  EnvDone(kind, todo \ {e}, u, x, listed.envs[x])
    OBVIOUS
  <2>1. EnvDone(kind, todo, t, x, listed.envs[x])
    BY DEF EnvsDone
  <2> QED BY <1>4, <2>1 DEF EnvDone, Grown
<1>7. kind = "export" => \A o \in listed.overrides : o[1] \notin todo \ {e} =>
        o \in u.overrides \/ Due(details, "override", o)
  <2> SUFFICES ASSUME kind = "export", NEW o \in listed.overrides, o[1] \notin todo \ {e}
               PROVE  o \in u.overrides \/ Due(details, "override", o)
    OBVIOUS
  <2>1. CASE o[1] = e
    <3>1. o \in now.overrides
      BY <1>0 DEF Follows
    <3>2. Item("override", o, None) \in details
      BY <1>0, <2>1, <3>1 DEF Details
    <3> QED BY <3>2 DEF Due, Item
  <2>2. CASE o[1] # e
    <3>1. o \in t.overrides
      BY <2>2 DEF EnvsDone, Due
    <3> QED BY <1>4, <3>1 DEF Grown
  <2> QED BY <2>1, <2>2
<1>8. \A x \in DOMAIN listed.envs \ (todo \ {e}) : EnvDone(kind, todo \ {e}, u, x, listed.envs[x])
  BY <1>1, <1>5, <1>6
<1> QED BY <1>4, <1>5, <1>7, <1>8 DEF EnvsDone

LEMMA PipeStep ==
  ASSUME NEW kind \in Kinds, NEW t, Whole(kind, t), NEW listed, SoundSource(listed),
         NEW todo, todo \subseteq DOMAIN listed.rows,
         PipesDone(kind, listed, todo, {}, t), NEW p \in todo,
         HasId(kind, t),
         NEW u, Writes(kind, t, Item("pipe", p, listed.defs[p]), u),
         NEW now, NEW details, OwesDetails(kind, "pipes", listed, now, p, details)
  PROVE  /\ Whole(kind, u) /\ Grown(kind, t, u) /\ u.envs = t.envs /\ u.overrides = t.overrides
         /\ PipesDone(kind, listed, todo \ {p}, details, u)
<1>0. /\ ~Refused(kind, t, Item("pipe", p, listed.defs[p])) /\ u = Applied(kind, t, Item("pipe", p, listed.defs[p]))
      /\ Follows(listed, now) /\ details = Details(kind, "pipes", listed, now, p)
  BY DEF Writes, OwesDetails
<1>1. PICK def : def = listed.defs[p]
  OBVIOUS
<1>2. listed.rows[p] = def.name
  BY <1>1 DEF SoundSource
<1>3. /\ Whole(kind, u) /\ Grown(kind, t, u) /\ u.envs = t.envs /\ u.overrides = t.overrides
      /\ PipeDone(kind, u, p, def.name)
      /\ \A x \in DOMAIN t.defs : x # p => x \in DOMAIN u.defs /\ u.defs[x] = t.defs[x]
  BY <1>0, <1>1, PutPipeFacts
<1>4. \A q \in DOMAIN listed.rows \ todo : PipeDone(kind, u, q, listed.rows[q])
  <2> SUFFICES ASSUME NEW q \in DOMAIN listed.rows \ todo
               PROVE  PipeDone(kind, u, q, listed.rows[q])
    OBVIOUS
  <2>1. PipeDone(kind, t, q, listed.rows[q])
    BY DEF PipesDone
  <2> QED BY <1>3, <2>1 DEF PipeDone, Taken, Grown, Kept
<1>5. kind # "traits" => \A v \in DOMAIN listed.versions : v[1] \notin todo \ {p} =>
        v \in DOMAIN u.versions \/ Due(details, "version", v)
  <2> SUFFICES ASSUME kind # "traits", NEW v \in DOMAIN listed.versions, v[1] \notin todo \ {p}
               PROVE  v \in DOMAIN u.versions \/ Due(details, "version", v)
    OBVIOUS
  <2>1. CASE v[1] = p
    <3>1. v \in DOMAIN now.versions
      BY <1>0 DEF Follows
    <3>2. Item("version", v, now.versions[v]) \in details
      BY <1>0, <2>1, <3>1 DEF Details
    <3> QED BY <3>2 DEF Due, Item
  <2>2. CASE v[1] # p
    <3>1. v \in DOMAIN t.versions
      BY <2>2 DEF PipesDone, Due
    <3> QED BY <1>3, <3>1 DEF Grown, Kept
  <2> QED BY <2>1, <2>2
<1>6. \A q \in DOMAIN listed.rows \ (todo \ {p}) : PipeDone(kind, u, q, listed.rows[q])
  BY <1>2, <1>3, <1>4
<1> QED BY <1>3, <1>5, <1>6 DEF PipesDone

LEMMA RunStep ==
  ASSUME NEW kind \in Kinds, kind # "traits", NEW t, Whole(kind, t), NEW listed,
         NEW todo, todo \subseteq DOMAIN listed.runs,
         RunsDone(listed, todo, {}, t), NEW r \in todo,
         NEW u, Writes(kind, t, Item("run", r, listed.runs[r]), u),
         NEW now, NEW details, OwesDetails(kind, "runs", listed, now, r, details)
  PROVE  /\ Whole(kind, u) /\ Grown(kind, t, u) /\ u.envs = t.envs /\ u.overrides = t.overrides
         /\ u.rows = t.rows /\ u.defs = t.defs /\ r \in DOMAIN u.runs
         /\ RunsDone(listed, todo \ {r}, details, u)
<1>0. /\ ~Refused(kind, t, Item("run", r, listed.runs[r])) /\ u = Applied(kind, t, Item("run", r, listed.runs[r]))
      /\ Follows(listed, now) /\ details = Details(kind, "runs", listed, now, r)
  BY DEF Writes, OwesDetails
<1>1. PICK run : u = ImportRun(t, r, run)
  BY <1>0 DEF Applied, Item, Kinds, InsertRun
<1>2. /\ Whole(kind, u) /\ Grown(kind, t, u) /\ u.envs = t.envs /\ u.overrides = t.overrides
      /\ u.rows = t.rows /\ u.defs = t.defs /\ r \in DOMAIN u.runs
  BY <1>1, RunFacts
<1>3. \A x \in listed.stats : x[1] \notin todo \ {r} => x \in u.stats \/ Due(details, "stat", x)
  <2> SUFFICES ASSUME NEW x \in listed.stats, x[1] \notin todo \ {r}
               PROVE  x \in u.stats \/ Due(details, "stat", x)
    OBVIOUS
  <2>1. CASE x[1] = r
    <3>1. Item("stat", x, None) \in details
      BY <1>0, <2>1 DEF Details
    <3> QED BY <3>1 DEF Due, Item
  <2>2. CASE x[1] # r
    <3>1. x \in t.stats
      BY <2>2 DEF RunsDone, Due
    <3> QED BY <1>2, <3>1 DEF Grown
  <2> QED BY <2>1, <2>2
<1> QED BY <1>2, <1>3 DEF RunsDone, Grown, Kept

-----------------------------------------------------------------------------
(* The source, in use while it is copied. *)
CopyAssumption == None \notin Kinds \cup {"prod"} /\ DOMAIN EnvOrder \subseteq Int

LEMMA DefaultsFacts ==
  ASSUME CopyAssumption, NEW kind, NEW t, Whole(kind, t), NEW u, u = WithDefaults(t)
  PROVE  /\ Whole(kind, u) /\ Grown(kind, t, u) /\ u.overrides = t.overrides /\ u.rows = t.rows
         /\ u.defs = t.defs /\ u.versions = t.versions
         /\ SoundSource(t) => SoundSource(u)
<1>1. PICK envs, overrides, rows, defs, dated, runs, stats :
        t = [envs |-> envs, overrides |-> overrides, rows |-> rows, defs |-> defs,
             versions |-> dated, runs |-> runs, stats |-> stats]
  BY DEF Whole, IsBackend, Backend
<1>2. PICK some : some = PutNew(envs, "prod", None)
  OBVIOUS
<1>3. PICK all : all = PutNew(some, "dev", "prod")
  OBVIOUS
<1>4. u = [envs |-> all, overrides |-> overrides, rows |-> rows, defs |-> defs,
           versions |-> dated, runs |-> runs, stats |-> stats]
  BY <1>1, <1>2, <1>3 DEF WithDefaults
<1>5. /\ DOMAIN some = DOMAIN envs \cup {"prod"}
      /\ \A x \in DOMAIN some : some[x] = IF x \in DOMAIN envs THEN envs[x] ELSE None
  BY <1>2 DEF Put, PutNew
<1>6. /\ DOMAIN all = DOMAIN envs \cup {"prod", "dev"}
      /\ \A x \in DOMAIN all : all[x] = IF x \in DOMAIN some THEN some[x] ELSE "prod"
  BY <1>3, <1>5 DEF Put, PutNew
<1>7. IsBackend(u)
  BY <1>4 DEF IsBackend, Backend
<1>8. Closed(u)
  BY <1>1, <1>4, <1>5, <1>6 DEF Whole, Closed
<1>9. Whole(kind, u) /\ Grown(kind, t, u)
  BY <1>1, <1>4, <1>6, <1>7, <1>8 DEF Whole, Paired, Grown, Kept
<1>10. ASSUME SoundSource(t) PROVE SoundSource(u)
  BY <1>1, <1>4, <1>5, <1>6, <1>8, <1>10 DEF SoundSource, CopyAssumption
<1> QED BY <1>1, <1>4, <1>9, <1>10

LEMMA EndRunFacts ==
  ASSUME NEW s, IsBackend(s), SoundSource(s), NEW r \in DOMAIN s.runs,
         NEW u, u = [s EXCEPT !.runs[r].status = "success", !.stats = @ \cup {<<r, "sink">>}]
  PROVE  IsBackend(u) /\ SoundSource(u) /\ Follows(s, u)
<1>1. PICK envs, overrides, rows, defs, dated, runs, stats :
        s = [envs |-> envs, overrides |-> overrides, rows |-> rows, defs |-> defs,
             versions |-> dated, runs |-> runs, stats |-> stats]
  BY DEF IsBackend, Backend
<1>2. PICK ended : ended = [runs EXCEPT ![r].status = "success"]
  OBVIOUS
<1>3. u = [envs |-> envs, overrides |-> overrides, rows |-> rows, defs |-> defs,
           versions |-> dated, runs |-> ended, stats |-> stats \cup {<<r, "sink">>}]
  BY <1>1, <1>2
<1>4. DOMAIN ended = DOMAIN runs
  BY <1>2
<1>5. IsBackend(u)
  BY <1>3 DEF IsBackend, Backend
<1>6. Closed(u)
  BY <1>1, <1>3, <1>4 DEF SoundSource, Closed
<1> QED BY <1>1, <1>3, <1>5, <1>6 DEF SoundSource, Follows

Saved(s, p, def, v, body) == [AddPipe(s, p, def) EXCEPT !.versions = Put(@, v, body)]

LEMMA SaveAsFacts ==
  ASSUME NEW s, IsBackend(s), SoundSource(s), NEW p \in DOMAIN s.rows, NEW def, NEW v, v[1] = p, NEW body,
         NEW u, u = Saved(s, p, def, v, body)
  PROVE  IsBackend(u) /\ SoundSource(u) /\ Follows(s, u)
<1>1. PICK envs, overrides, rows, defs, dated, runs, stats :
        s = [envs |-> envs, overrides |-> overrides, rows |-> rows, defs |-> defs,
             versions |-> dated, runs |-> runs, stats |-> stats]
  BY DEF IsBackend, Backend
<1>2. PICK named, files, newer :
        named = Put(rows, p, def.name) /\ files = Put(defs, p, def) /\ newer = Put(dated, v, body)
  OBVIOUS
<1>3. u = [envs |-> envs, overrides |-> overrides, rows |-> named, defs |-> files,
           versions |-> newer, runs |-> runs, stats |-> stats]
  BY <1>1, <1>2 DEF AddPipe, Saved
<1>4. /\ DOMAIN named = DOMAIN rows \cup {p} /\ named[p] = def.name
      /\ \A x \in DOMAIN rows : x # p => named[x] = rows[x]
      /\ DOMAIN files = DOMAIN defs \cup {p} /\ files[p] = def
      /\ \A x \in DOMAIN defs : x # p => files[x] = defs[x]
      /\ DOMAIN newer = DOMAIN dated \cup {v}
  BY <1>2 DEF Put
<1>5. IsBackend(u)
  BY <1>3 DEF IsBackend, Backend
<1>6. /\ p \in DOMAIN rows /\ DOMAIN rows \subseteq DOMAIN defs
      /\ \A x \in DOMAIN dated : x[1] \in DOMAIN rows
      /\ \A q \in DOMAIN rows : rows[q] = defs[q].name
  BY <1>1 DEF SoundSource, Closed
<1>7. /\ \A x \in DOMAIN newer : x[1] \in DOMAIN named
      /\ DOMAIN named \subseteq DOMAIN files
  BY <1>4, <1>6
<1>8. \A q \in DOMAIN named : named[q] = files[q].name
  <2> SUFFICES ASSUME NEW q \in DOMAIN named PROVE named[q] = files[q].name
    OBVIOUS
  <2>1. CASE q = p
    BY <1>4, <2>1
  <2>2. CASE q # p
    BY <1>4, <1>6, <2>2
  <2> QED BY <2>1, <2>2
<1>9. Closed(u)
  BY <1>1, <1>3, <1>7 DEF SoundSource, Closed
<1>10. SoundSource(u)
  BY <1>1, <1>3, <1>8, <1>9 DEF SoundSource
<1> QED BY <1>1, <1>3, <1>4, <1>5, <1>10 DEF Follows

LEMMA SourceGrows ==
  ASSUME NEW s, NEW t, NEW kind, NEW stage, NEW todo, NEW details, NEW listed, NEW before,
         CopyState(s, t, kind, stage, todo, details, listed, before),
         NEW u, IsBackend(u), SoundSource(u), Follows(s, u)
  PROVE  CopyState(u, t, kind, stage, todo, details, listed, before)
<1>1. Running(s, t, kind, stage, todo, details, listed) => Running(u, t, kind, stage, todo, details, listed)
  BY DEF Running, Follows
<1> QED BY <1>1 DEF CopyState

-----------------------------------------------------------------------------
(* The steps of a copy. *)
LEMMA InitCopy ==
  ASSUME NEW sources, NEW targets, StoresAreSound(sources, targets), TransferInit(sources, targets)
  PROVE  CopyInv
<1>1. PICK listed : listed = [x \in Stages |-> xfSource]
  OBVIOUS
<1>2. IsCopy(None, "idle", {}, {}, 0, listed, xfTarget)
  BY <1>1 DEF TransferInit, IsCopy
<1>3. IsBackend(xfSource) /\ SoundSource(xfSource)
  BY DEF TransferInit, StoresAreSound, IsBackend
<1>4. Whole(None, xfTarget)
  BY DEF TransferInit, StoresAreSound, IsBackend, Whole, Paired
<1>5. Grown(None, xfTarget, xfTarget)
  BY <1>4, SameTarget
<1>6. listed = [x \in Stages |-> listed[x]]
  BY <1>1
<1>7. CopyState(xfSource, xfTarget, None, "idle", {}, {}, listed, xfTarget)
  BY <1>3, <1>4, <1>5, <1>6 DEF CopyState, Stages
<1> QED BY <1>2, <1>7 DEF CopyInv

LEMMA BeginStep ==
  ASSUME CopyAssumption, CopyInv, NEW kind \in Kinds, xfCmd.kind \in {None, kind}, Begin(kind)
  PROVE  CopyInv'
<1>1. PICK old, stage, todo, details, count, listed, before :
        /\ IsCopy(old, stage, todo, details, count, listed, before)
        /\ CopyState(xfSource, xfTarget, old, stage, todo, details, listed, before)
  BY DEF CopyInv
<1>2. PICK s, t : s = xfSource' /\ t = xfTarget'
  OBVIOUS
<1>3. old \in {None, kind}
  BY <1>1 DEF IsCopy
<1>4. Whole(kind, xfTarget) /\ IsBackend(xfSource) /\ SoundSource(xfSource)
  BY <1>1, <1>3 DEF CopyState, Whole, Paired, CopyAssumption, Kinds
<1>5. IsBackend(s) /\ SoundSource(s)
  <2>1. Whole("sqlite", xfSource)
    BY <1>4 DEF Whole, Paired, SoundSource
  <2> QED BY <1>2, <1>4, <2>1, DefaultsFacts DEF Begin, Whole
<1>6. Whole(kind, t)
  BY <1>2, <1>4, DefaultsFacts DEF Begin, Opened
<1>7. PICK news, more : news = [x \in Stages |-> s] /\ more = count + 1
  OBVIOUS
<1>8. IsCopy(kind, "envs", DOMAIN s.envs, {}, more, news, t)'
  BY <1>1, <1>2, <1>7 DEF Begin, Listing, IsCopy
<1>9. EnvsDone(kind, s, DOMAIN s.envs, {}, t)
  BY <1>5 DEF EnvsDone, SoundSource, Closed
<1>10. Running(s, t, kind, "envs", DOMAIN s.envs, {}, news)
  BY <1>5, <1>7, <1>9 DEF Running, Listing, Stages, Follows, StageDone, Earlier
<1>11. Grown(kind, t, t)
  BY <1>6, SameTarget
<1>12. CopyState(s, t, kind, "envs", DOMAIN s.envs, {}, news, t)
  BY <1>5, <1>6, <1>7, <1>10, <1>11 DEF CopyState
<1> QED BY <1>2, <1>8, <1>12 DEF CopyInv

(* Earlier stages stay done. *)
LEMMA EarlierStay ==
  ASSUME NEW kind \in Kinds, NEW stage \in Stages, NEW listed, NEW t,
         \A x \in Earlier(stage) : StageDone(kind, x, listed[x], {}, {}, t),
         NEW u, Grown(kind, t, u), stage # "envs" => u.envs = t.envs,
         stage = "runs" => u.rows = t.rows /\ u.defs = t.defs
  PROVE  \A x \in Earlier(stage) : StageDone(kind, x, listed[x], {}, {}, u)
<1>1. \A o, x : ~Due({}, o, x)
  BY DEF Due
<1>2. ASSUME stage # "envs" PROVE StageDone(kind, "envs", listed["envs"], {}, {}, u)
  <2>1. EnvsDone(kind, listed["envs"], {}, {}, t)
    BY <1>2 DEF Earlier, StageDone, Stages
  <2>2. EnvsDone(kind, listed["envs"], {}, {}, u)
    BY <1>1, <1>2, <2>1, EnvsStay
  <2> QED BY <2>2 DEF StageDone
<1>3. ASSUME stage = "runs" PROVE StageDone(kind, "pipes", listed["pipes"], {}, {}, u)
  <2>1. PipesDone(kind, listed["pipes"], {}, {}, t)
    BY <1>3 DEF Earlier, StageDone
  <2>2. PipesDone(kind, listed["pipes"], {}, {}, u)
    BY <1>1, <1>3, <2>1, PipesStay
  <2> QED BY <2>2 DEF StageDone
<1> QED BY <1>2, <1>3 DEF Earlier, Stages

LEMMA RecordStep ==
  ASSUME CopyAssumption, NEW kind \in Kinds, NEW stage \in Stages, NEW s, NEW t, NEW todo, NEW listed,
         Whole(kind, t), Running(s, t, kind, stage, todo, {}, listed),
         NEW key \in todo, \A other \in todo : ~Before(Order(stage), other, key),
         stage = "pipes" => HasId(kind, t),
         NEW u, Writes(kind, t, RecordOf(stage, listed[stage], key), u),
         NEW details, details = Details(kind, stage, listed[stage], s, key)
  PROVE  /\ Whole(kind, u) /\ Grown(kind, t, u)
         /\ Running(s, u, kind, stage, todo \ {key}, details, listed)
<1>1. PICK list : list = listed[stage]
  OBVIOUS
<1>2. /\ SoundSource(list) /\ Follows(list, s) /\ todo \subseteq Listing(stage, list)
      /\ StageDone(kind, stage, list, todo, {}, t)
  BY <1>1 DEF Running
<1>3. Writes(kind, t, RecordOf(stage, list, key), u) /\ OwesDetails(kind, stage, list, s, key, details)
  BY <1>1, <1>2 DEF OwesDetails
<1>4. ASSUME Whole(kind, u), Grown(kind, t, u), StageDone(kind, stage, list, todo \ {key}, details, u),
             \A x \in details : IsDetail(kind, stage, list, todo \ {key}, u, x),
             stage # "envs" => u.envs = t.envs, stage = "runs" => u.rows = t.rows /\ u.defs = t.defs
      PROVE  Running(s, u, kind, stage, todo \ {key}, details, listed)
  <2>1. \A x \in Earlier(stage) : StageDone(kind, x, listed[x], {}, {}, u)
    <3>1. \A x \in Earlier(stage) : StageDone(kind, x, listed[x], {}, {}, t)
      BY DEF Running
    <3> QED BY <1>4, <3>1, EarlierStay
  <2> QED BY <1>1, <1>2, <1>4, <2>1 DEF Running
<1>5. CASE stage = "envs"
  <2>1. Writes(kind, t, Item("env", key, list.envs[key]), u) /\ OwesDetails(kind, "envs", list, s, key, details)
    BY <1>3, <1>5 DEF RecordOf
  <2>2. /\ todo \subseteq DOMAIN list.envs /\ EnvsDone(kind, list, todo, {}, t)
        /\ \A other \in todo : ~Before(EnvOrder, other, key)
    BY <1>2, <1>5 DEF Listing, StageDone, Order
  <2>3. /\ Whole(kind, u) /\ Grown(kind, t, u) /\ EnvsDone(kind, list, todo \ {key}, details, u)
        /\ kind = "export" => key \in DOMAIN u.envs
    BY <1>2, <2>1, <2>2, EnvStep DEF CopyAssumption
  <2>4. \A x \in details : IsDetail(kind, stage, list, todo \ {key}, u, x)
    BY <1>5, <2>1, <2>3 DEF OwesDetails, Details, IsDetail, Item
  <2> QED BY <1>4, <1>5, <2>3, <2>4 DEF StageDone
<1>6. CASE stage = "pipes"
  <2>1. Writes(kind, t, Item("pipe", key, list.defs[key]), u) /\ OwesDetails(kind, "pipes", list, s, key, details)
    BY <1>3, <1>6 DEF RecordOf
  <2>2. todo \subseteq DOMAIN list.rows /\ PipesDone(kind, list, todo, {}, t)
    BY <1>2, <1>6 DEF Listing, StageDone
  <2>3. /\ Whole(kind, u) /\ Grown(kind, t, u) /\ u.envs = t.envs /\ PipesDone(kind, list, todo \ {key}, details, u)
    <3>1. HasId(kind, t)
      BY <1>6
    <3> QED BY <1>2, <2>1, <2>2, <3>1, PipeStep
  <2>4. \A x \in details : IsDetail(kind, stage, list, todo \ {key}, u, x)
    BY <1>6, <2>1, <2>2 DEF OwesDetails, Details, IsDetail, Item
  <2> QED BY <1>4, <1>6, <2>3, <2>4 DEF StageDone
<1>7. CASE stage = "runs"
  <2>1. Writes(kind, t, Item("run", key, list.runs[key]), u) /\ OwesDetails(kind, "runs", list, s, key, details)
    BY <1>3, <1>7 DEF RecordOf
  <2>2. todo \subseteq DOMAIN list.runs /\ RunsDone(list, todo, {}, t) /\ kind # "traits"
    BY <1>2, <1>7 DEF Listing, StageDone, Running
  <2>3. /\ Whole(kind, u) /\ Grown(kind, t, u) /\ u.envs = t.envs /\ u.rows = t.rows /\ u.defs = t.defs
        /\ key \in DOMAIN u.runs /\ RunsDone(list, todo \ {key}, details, u)
    BY <2>1, <2>2, RunStep
  <2>4. \A x \in details : IsDetail(kind, stage, list, todo \ {key}, u, x)
    <3> SUFFICES ASSUME NEW x \in details PROVE IsDetail(kind, stage, list, todo \ {key}, u, x)
      OBVIOUS
    <3>1. PICK y \in list.stats : y[1] = key /\ x = Item("stat", y, None)
      BY <2>1 DEF OwesDetails, Details
    <3>2. x.op = "stat" /\ x.key = y /\ x.value = None
      BY <3>1 DEF Item
    <3> QED BY <1>7, <2>3, <3>1, <3>2 DEF IsDetail
  <2> QED BY <1>4, <1>7, <2>3, <2>4 DEF StageDone
<1> QED BY <1>5, <1>6, <1>7 DEF Stages

LEMMA DetailStep ==
  ASSUME NEW kind \in Kinds, NEW stage \in Stages, NEW s, NEW t, NEW todo, NEW details, NEW listed,
         Whole(kind, t), Running(s, t, kind, stage, todo, details, listed),
         NEW item \in details, ~Refused(kind, t, item), NEW u, u = Applied(kind, t, item)
  PROVE  /\ Whole(kind, u) /\ Grown(kind, t, u)
         /\ Running(s, u, kind, stage, todo, details \ {item}, listed)
<1>1. PICK list : list = listed[stage]
  OBVIOUS
<1>2. /\ IsDetail(kind, stage, list, todo, t, item) /\ StageDone(kind, stage, list, todo, details, t)
      /\ \A x \in details : IsDetail(kind, stage, list, todo, t, x)
  BY <1>1 DEF Running
<1>3. /\ Whole(kind, u) /\ Grown(kind, t, u) /\ u.envs = t.envs /\ u.rows = t.rows /\ u.defs = t.defs
      /\ item.op = "override" /\ kind = "export" => item.key \in u.overrides
      /\ item.op = "version" => item.key \in DOMAIN u.versions
      /\ item.op = "stat" => item.key \in u.stats
  BY <1>2, DetailFacts
<1>4. StageDone(kind, stage, list, todo, details \ {item}, u)
  BY <1>2, <1>3, StageStays
<1>5. \A x \in details \ {item} : IsDetail(kind, stage, list, todo, u, x)
  BY <1>2, <1>3 DEF IsDetail, Grown, Kept
<1>6. \A x \in Earlier(stage) : StageDone(kind, x, listed[x], {}, {}, u)
  <2>1. \A x \in Earlier(stage) : StageDone(kind, x, listed[x], {}, {}, t)
    BY DEF Running
  <2> QED BY <1>3, <2>1, EarlierStay
<1> QED BY <1>1, <1>3, <1>4, <1>5, <1>6 DEF Running

(* Whatever is refused is excused. *)
LEMMA RefusalExcused ==
  ASSUME NEW kind \in Kinds, NEW stage \in Stages, NEW s, NEW t, NEW todo, NEW details, NEW listed,
         Running(s, t, kind, stage, todo, details, listed), NEW item, Refused(kind, t, item),
         item \in details \/ \E key \in todo : item = RecordOf(stage, listed[stage], key)
  PROVE  ExcusedBy(kind, t, item)
<1>1. PICK list : list = listed[stage]
  OBVIOUS
<1>2. CASE item.op = "env" /\ kind = "export" /\ ~CanFallBack(t, item.key, item.value)
  BY <1>2 DEF CanFallBack, ExcusedBy
<1>3. CASE item.op = "pipe" /\ item.key \notin DOMAIN t.rows /\ item.value.name \in Range(t.rows)
  <2>1. PICK q \in DOMAIN t.rows : t.rows[q] = item.value.name
    BY <1>3 DEF Range
  <2> QED BY <1>3, <2>1 DEF ExcusedBy, Taken
<1>4. CASE item.op = "version" /\ item.key[1] \notin DOMAIN t.rows
  <2>1. item \in details
    BY <1>4 DEF RecordOf, Item
  <2>2. PICK p : p = item.key[1]
    OBVIOUS
  <2>3. stage = "pipes" /\ kind # "traits" /\ p \in DOMAIN list.rows \ todo /\ p \notin DOMAIN t.rows
    BY <1>1, <1>4, <2>1, <2>2 DEF Running, IsDetail
  <2>4. PipeDone(kind, t, p, list.rows[p])
    BY <1>1, <2>3 DEF Running, StageDone, PipesDone
  <2>5. Taken(t, p, t.defs[p].name)
    BY <2>3, <2>4 DEF PipeDone
  <2> QED BY <1>4, <2>2, <2>5 DEF ExcusedBy
<1> QED BY <1>2, <1>3, <1>4 DEF Refused

-----------------------------------------------------------------------------
(* The steps of a command, in terms of its record. *)
LEMMA WriteRecordStep ==
  ASSUME CopyAssumption, CopyInv, NEW key, WriteRecord(key)
  PROVE  CopyInv'
<1>1. PICK kind, stage, todo, details, count, listed, before :
        /\ IsCopy(kind, stage, todo, details, count, listed, before)
        /\ CopyState(xfSource, xfTarget, kind, stage, todo, details, listed, before)
  BY DEF CopyInv
<1>2. PICK item : item = RecordOf(stage, listed[stage], key)
  OBVIOUS
<1>3. /\ stage \in Stages /\ details = {} /\ key \in todo
      /\ \A other \in todo : ~Before(Order(stage), other, key)
      /\ item.op = "pipe" /\ kind = "traits" => FreshIds \ DOMAIN xfTarget.rows # {}
      /\ \/ Fail(item)
         \/ /\ Write(item)
            /\ xfCmd' = [xfCmd EXCEPT !.todo = @ \ {key},
                           !.details = Details(kind, stage, listed[stage], xfSource, key)]
  BY <1>1, <1>2 DEF WriteRecord, IsNext, Active, IsCopy
<1>4. kind \in Kinds /\ Running(xfSource, xfTarget, kind, stage, todo, {}, listed) /\ Whole(kind, xfTarget)
      /\ Grown(kind, before, xfTarget) /\ listed = [x \in Stages |-> listed[x]]
      /\ IsBackend(xfSource) /\ SoundSource(xfSource)
  BY <1>1, <1>3 DEF CopyState, Running
<1>5. CASE Fail(item)
  <2>1. /\ Refused(kind, xfTarget, item) /\ xfSource' = xfSource /\ xfTarget' = xfTarget
        /\ IsCopy(kind, "failed", todo, {item}, count, listed, before)'
    BY <1>1, <1>5 DEF Fail, IsCopy
  <2>2. ExcusedBy(kind, xfTarget, item)
    BY <1>2, <1>3, <1>4, <2>1, RefusalExcused
  <2>3. CopyState(xfSource, xfTarget, kind, "failed", todo, {item}, listed, before)
    BY <1>4, <2>2 DEF CopyState, Stages
  <2> QED BY <2>1, <2>3 DEF CopyInv
<1>6. CASE Write(item) /\ xfCmd' = [xfCmd EXCEPT !.todo = @ \ {key},
                             !.details = Details(kind, stage, listed[stage], xfSource, key)]
  <2>1. PICK u, more, rest :
          u = xfTarget' /\ more = Details(kind, stage, listed[stage], xfSource, key) /\ rest = todo \ {key}
    OBVIOUS
  <2>2. Writes(kind, xfTarget, RecordOf(stage, listed[stage], key), u) /\ xfSource' = xfSource
    BY <1>1, <1>2, <1>6, <2>1 DEF Write, Writes, IsCopy
  <2>3. IsCopy(kind, stage, rest, more, count, listed, before)'
    BY <1>1, <1>6, <2>1 DEF IsCopy
  <2>4. stage = "pipes" => HasId(kind, xfTarget)
    BY <1>2, <1>3 DEF RecordOf, Item, HasId
  <2>5. Whole(kind, u) /\ Grown(kind, xfTarget, u) /\ Running(xfSource, u, kind, stage, rest, more, listed)
    BY <1>3, <1>4, <2>1, <2>2, <2>4, RecordStep
  <2>6. Grown(kind, before, u)
    BY <1>4, <2>5, GrownOn
  <2>7. CopyState(xfSource, u, kind, stage, rest, more, listed, before)
    BY <1>3, <1>4, <2>5, <2>6 DEF CopyState, Stages
  <2> QED BY <2>1, <2>2, <2>3, <2>7 DEF CopyInv
<1> QED BY <1>3, <1>5, <1>6

LEMMA WriteDetailStep ==
  ASSUME CopyAssumption, CopyInv, NEW item \in xfCmd.details, WriteDetail(item)
  PROVE  CopyInv'
<1>1. PICK kind, stage, todo, details, count, listed, before :
        /\ IsCopy(kind, stage, todo, details, count, listed, before)
        /\ CopyState(xfSource, xfTarget, kind, stage, todo, details, listed, before)
  BY DEF CopyInv
<1>2. /\ stage \in Stages /\ item \in details
      /\ Fail(item) \/ (Write(item) /\ xfCmd' = [xfCmd EXCEPT !.details = @ \ {item}])
  BY <1>1 DEF WriteDetail, Active, IsCopy
<1>3. kind \in Kinds /\ Running(xfSource, xfTarget, kind, stage, todo, details, listed) /\ Whole(kind, xfTarget)
      /\ Grown(kind, before, xfTarget) /\ listed = [x \in Stages |-> listed[x]]
      /\ IsBackend(xfSource) /\ SoundSource(xfSource)
  BY <1>1, <1>2 DEF CopyState, Running
<1>4. CASE Fail(item)
  <2>1. /\ Refused(kind, xfTarget, item) /\ xfSource' = xfSource /\ xfTarget' = xfTarget
        /\ IsCopy(kind, "failed", todo, {item}, count, listed, before)'
    BY <1>1, <1>4 DEF Fail, IsCopy
  <2>2. ExcusedBy(kind, xfTarget, item)
    BY <1>2, <1>3, <2>1, RefusalExcused
  <2>3. CopyState(xfSource, xfTarget, kind, "failed", todo, {item}, listed, before)
    BY <1>3, <2>2 DEF CopyState, Stages
  <2> QED BY <2>1, <2>3 DEF CopyInv
<1>5. CASE Write(item) /\ xfCmd' = [xfCmd EXCEPT !.details = @ \ {item}]
  <2>1. PICK u, rest : u = xfTarget' /\ rest = details \ {item}
    OBVIOUS
  <2>2. ~Refused(kind, xfTarget, item) /\ u = Applied(kind, xfTarget, item) /\ xfSource' = xfSource
    BY <1>1, <1>5, <2>1 DEF Write, IsCopy
  <2>3. IsCopy(kind, stage, todo, rest, count, listed, before)'
    BY <1>1, <1>5, <2>1 DEF IsCopy
  <2>4. Whole(kind, u) /\ Grown(kind, xfTarget, u) /\ Running(xfSource, u, kind, stage, todo, rest, listed)
    BY <1>2, <1>3, <2>1, <2>2, DetailStep
  <2>5. Grown(kind, before, u)
    BY <1>3, <2>4, GrownOn
  <2>6. CopyState(xfSource, u, kind, stage, todo, rest, listed, before)
    BY <1>2, <1>3, <2>4, <2>5 DEF CopyState, Stages
  <2> QED BY <2>1, <2>2, <2>3, <2>6 DEF CopyInv
<1> QED BY <1>2, <1>4, <1>5

(* A stage that has just been listed. *)
LEMMA StageBegins ==
  ASSUME NEW kind, NEW stage \in Stages, NEW s, SoundSource(s), NEW t
  PROVE  StageDone(kind, stage, s, Listing(stage, s), {}, t)
<1>1. Closed(s)
  BY DEF SoundSource
<1>2. CASE stage = "envs"
  BY <1>1, <1>2 DEF StageDone, Listing, EnvsDone, Closed
<1>3. CASE stage = "pipes"
  BY <1>1, <1>3 DEF StageDone, Listing, PipesDone, Closed
<1>4. CASE stage = "runs"
  BY <1>1, <1>4 DEF StageDone, Listing, RunsDone, Closed
<1> QED BY <1>2, <1>3, <1>4 DEF Stages

LEMMA EndStageStep ==
  ASSUME CopyAssumption, CopyInv, EndStage
  PROVE  CopyInv'
<1>1. PICK kind, stage, todo, details, count, listed, before :
        /\ IsCopy(kind, stage, todo, details, count, listed, before)
        /\ CopyState(xfSource, xfTarget, kind, stage, todo, details, listed, before)
  BY DEF CopyInv
<1>2. PICK next : next = IF stage = "envs" THEN "pipes"
                         ELSE IF stage = "pipes" /\ kind # "traits" THEN "runs" ELSE "done"
  OBVIOUS
<1>3. /\ stage \in Stages /\ todo = {} /\ details = {} /\ UNCHANGED <<xfSource, xfTarget>>
      /\ xfCmd' = IF next = "done" THEN [xfCmd EXCEPT !.stage = next]
                  ELSE [xfCmd EXCEPT !.stage = next, !.todo = Listing(next, xfSource), !.listed[next] = xfSource]
  BY <1>1, <1>2 DEF EndStage, Active, IsCopy
<1>4. kind \in Kinds /\ Running(xfSource, xfTarget, kind, stage, {}, {}, listed)
      /\ listed = [x \in Stages |-> listed[x]] /\ SoundSource(xfSource)
  BY <1>1, <1>3 DEF CopyState, Running
<1>5. /\ StageDone(kind, stage, listed[stage], {}, {}, xfTarget)
      /\ \A x \in Earlier(stage) : StageDone(kind, x, listed[x], {}, {}, xfTarget)
  BY <1>4 DEF Running
<1>6. CASE next = "done"
  <2>1. IsCopy(kind, "done", todo, details, count, listed, before)'
    BY <1>1, <1>3, <1>6 DEF IsCopy
  <2>2. stage = "runs" \/ (stage = "pipes" /\ kind = "traits")
    BY <1>2, <1>3, <1>6 DEF Stages
  <2>3. Finished(xfTarget, kind, listed)
    BY <1>4, <1>5, <2>2 DEF Finished, Earlier, StageDone
  <2>4. CopyState(xfSource, xfTarget, kind, "done", todo, details, listed, before)
    BY <1>1, <2>3 DEF CopyState, Stages
  <2> QED BY <1>3, <2>1, <2>4 DEF CopyInv
<1>7. CASE next # "done"
  <2>1. PICK list, more : list = [listed EXCEPT ![next] = xfSource] /\ more = Listing(next, xfSource)
    OBVIOUS
  <2>2. IsCopy(kind, next, more, {}, count, list, before)'
    BY <1>1, <1>3, <1>7, <2>1 DEF IsCopy
  <2>3. /\ next \in Stages /\ (next = "runs" => kind # "traits")
        /\ Earlier(next) = Earlier(stage) \cup {stage} /\ next \notin Earlier(next)
    BY <1>2, <1>3, <1>7 DEF Stages, Earlier
  <2>4. list[next] = xfSource /\ list = [x \in Stages |-> list[x]] /\ \A x \in Stages : x # next => list[x] = listed[x]
    BY <1>4, <2>1, <2>3
  <2>5. StageDone(kind, next, list[next], more, {}, xfTarget)
    BY <1>4, <2>1, <2>3, <2>4, StageBegins
  <2>6. \A x \in Earlier(next) : StageDone(kind, x, list[x], {}, {}, xfTarget)
    BY <1>3, <1>5, <2>3, <2>4 DEF Earlier, Stages
  <2>7. \A x \in Stages : SoundSource(list[x]) /\ Follows(list[x], xfSource)
    <3>1. Follows(xfSource, xfSource)
      BY DEF Follows
    <3> QED BY <1>4, <2>4, <3>1 DEF Running
  <2>8. Running(xfSource, xfTarget, kind, next, more, {}, list)
    BY <1>4, <2>1, <2>3, <2>4, <2>5, <2>6, <2>7 DEF Running
  <2>9. CopyState(xfSource, xfTarget, kind, next, more, {}, list, before)
    BY <1>1, <2>3, <2>4, <2>8 DEF CopyState, Stages
  <2> QED BY <1>3, <2>2, <2>9 DEF CopyInv
<1> QED BY <1>6, <1>7

LEMMA InterruptStep ==
  ASSUME CopyInv, Interrupt
  PROVE  CopyInv'
<1>1. PICK kind, stage, todo, details, count, listed, before :
        /\ IsCopy(kind, stage, todo, details, count, listed, before)
        /\ CopyState(xfSource, xfTarget, kind, stage, todo, details, listed, before)
  BY DEF CopyInv
<1>2. IsCopy(kind, "interrupted", todo, details, count, listed, before)' /\ UNCHANGED <<xfSource, xfTarget>>
  BY <1>1 DEF Interrupt, IsCopy
<1>3. CopyState(xfSource, xfTarget, kind, "interrupted", todo, details, listed, before)
  BY <1>1 DEF CopyState, Stages
<1> QED BY <1>2, <1>3 DEF CopyInv

LEMMA UseStep ==
  ASSUME CopyInv, IsBackend(xfSource'), SoundSource(xfSource'),
         Follows(xfSource, xfSource'), UNCHANGED <<xfTarget, xfCmd>>
  PROVE  CopyInv'
<1>1. PICK kind, stage, todo, details, count, listed, before :
        /\ IsCopy(kind, stage, todo, details, count, listed, before)
        /\ CopyState(xfSource, xfTarget, kind, stage, todo, details, listed, before)
  BY DEF CopyInv
<1>2. PICK s : s = xfSource'
  OBVIOUS
<1>3. CopyState(s, xfTarget, kind, stage, todo, details, listed, before)
  BY <1>1, <1>2, SourceGrows
<1> QED BY <1>1, <1>2, <1>3 DEF CopyInv, IsCopy

LEMMA CopyStep ==
  ASSUME CopyAssumption, CopyInv, [Transfer]_xfVars
  PROVE  CopyInv'
<1>1. IsBackend(xfSource) /\ SoundSource(xfSource)
  BY DEF CopyInv, CopyState
<1>2. ASSUME NEW kind \in Kinds, xfCmd.kind \in {None, kind} /\ Begin(kind) PROVE CopyInv'
  BY <1>2, BeginStep
<1>3. ASSUME NEW key \in xfCmd.todo, WriteRecord(key) PROVE CopyInv'
  BY <1>3, WriteRecordStep
<1>4. ASSUME NEW item \in xfCmd.details, WriteDetail(item) PROVE CopyInv'
  BY <1>4, WriteDetailStep
<1>5. ASSUME NEW r, EndRun(r) PROVE CopyInv'
  <2>1. PICK s, u : s = xfSource /\ u = xfSource'
    OBVIOUS
  <2>2. /\ r \in DOMAIN s.runs /\ u = [s EXCEPT !.runs[r].status = "success", !.stats = @ \cup {<<r, "sink">>}]
        /\ UNCHANGED <<xfTarget, xfCmd>>
    BY <1>5, <2>1 DEF EndRun
  <2>3. IsBackend(u) /\ SoundSource(u) /\ Follows(s, u)
    BY <1>1, <2>1, <2>2, EndRunFacts
  <2> QED BY <2>1, <2>2, <2>3, UseStep
<1>6. ASSUME NEW p, NEW name, SaveAs(p, name) PROVE CopyInv'
  <2>1. PICK s, u, def, v : s = xfSource /\ u = xfSource' /\ def = [name |-> name, body |-> "edited"] /\ v = <<p, 2>>
    OBVIOUS
  <2>2. p \in DOMAIN s.rows /\ v[1] = p /\ u = Saved(s, p, def, v, "edited") /\ UNCHANGED <<xfTarget, xfCmd>>
    BY <1>6, <2>1 DEF SaveAs, Saved
  <2>3. IsBackend(u) /\ SoundSource(u) /\ Follows(s, u)
    <3> HIDE <2>1
    <3>1. IsBackend(s) /\ SoundSource(s)
      BY <1>1, <2>1
    <3> QED BY <2>2, <3>1, SaveAsFacts
  <2> QED BY <2>1, <2>2, <2>3, UseStep
<1>7. ASSUME UNCHANGED xfVars PROVE CopyInv'
  BY <1>7 DEF CopyInv, IsCopy, xfVars
<1> QED BY <1>2, <1>3, <1>4, <1>5, <1>6, <1>7, EndStageStep, InterruptStep DEF Transfer

-----------------------------------------------------------------------------
(* What the invariant says of the target. *)
LEMMA CopyKeeps ==
  ASSUME CopyInv
  PROVE  TransferKeeps
<1>1. PICK kind, stage, todo, details, count, listed, before :
        /\ IsCopy(kind, stage, todo, details, count, listed, before)
        /\ CopyState(xfSource, xfTarget, kind, stage, todo, details, listed, before)
  BY DEF CopyInv
<1>2. /\ xfCmd.kind = kind /\ xfCmd.stage = stage /\ xfCmd.details = details
      /\ xfCmd.listed = listed /\ xfCmd.before = before
  BY <1>1 DEF IsCopy
<1>3. Closed(xfTarget) /\ Preserved(before, xfTarget)
  BY <1>1, <1>2 DEF CopyState, Whole, Grown, Preserved
<1>4. ASSUME stage = "failed", NEW item \in details PROVE Excused(item)
  BY <1>1, <1>2, <1>4 DEF CopyState, ExcusedBy, Excused, Taken, NameInUse
<1>5. ASSUME stage = "done" PROVE Copied(listed)
  <2>1. /\ EnvsDone(kind, listed.envs, {}, {}, xfTarget) /\ PipesDone(kind, listed.pipes, {}, {}, xfTarget)
        /\ kind # "traits" => RunsDone(listed.runs, {}, {}, xfTarget)
    BY <1>1, <1>5 DEF CopyState, Finished
  <2>2. \A o, x : ~Due({}, o, x)
    BY DEF Due
  <2>3. \A e \in DOMAIN listed.envs.envs :
          \/ e \in DOMAIN xfTarget.envs /\ (xfCmd.kind = "traits" \/ xfTarget.envs[e] = listed.envs.envs[e])
          \/ xfCmd.kind # "export" /\ (Before(EnvOrder, e, listed.envs.envs[e]) \/
               listed.envs.envs[e] \notin DOMAIN xfTarget.envs \/ e = "prod")
    BY <1>2, <2>1 DEF EnvsDone, EnvDone
  <2>4. \A o \in listed.envs.overrides : o[1] \in DOMAIN xfTarget.envs =>
          o \in xfTarget.overrides \/ xfCmd.kind # "export"
    BY <1>2, <2>1, <2>2 DEF EnvsDone
  <2>5. ASSUME NEW p \in DOMAIN listed.pipes.rows
        PROVE  IF xfCmd.kind = "traits" THEN listed.pipes.rows[p] \in Range(xfTarget.rows)
               ELSE \/ p \in DOMAIN xfTarget.rows
                    \/ xfCmd.kind = "sqlite" /\ NameInUse(p, listed.pipes.rows[p])
    BY <1>2, <2>1 DEF PipesDone, PipeDone, Taken, NameInUse, Range
  <2>6. xfCmd.kind # "traits" =>
          /\ DOMAIN listed.pipes.versions \subseteq DOMAIN xfTarget.versions
          /\ DOMAIN listed.runs.runs \subseteq DOMAIN xfTarget.runs
          /\ listed.runs.stats \subseteq xfTarget.stats
    BY <1>2, <2>1, <2>2 DEF PipesDone, RunsDone
  <2> QED BY <2>3, <2>4, <2>5, <2>6 DEF Copied
<1> QED BY <1>2, <1>3, <1>4, <1>5 DEF TransferKeeps

(* Copies of the metadata: TransferKeeps, wherever a command is cut off,   *)
(* however often it is given and however the source is used meanwhile.     *)
THEOREM TransferAlwaysKeeps ==
  ASSUME NEW sources, NEW targets, StoresAreSound(sources, targets)
  PROVE  TransferSpec(sources, targets) => []TransferKeeps
<1>1. CopyAssumption
  BY DEF StoresAreSound, CopyAssumption
<1>2. TransferInit(sources, targets) => CopyInv
  BY InitCopy
<1>3. CopyInv /\ [Transfer]_xfVars => CopyInv'
  BY <1>1, CopyStep
<1>4. CopyInv => TransferKeeps
  BY CopyKeeps
<1> QED BY <1>2, <1>3, <1>4, PTL DEF TransferSpec
=============================================================================
