---------------------------- MODULE CatalogProofs ---------------------------
(***************************************************************************)
(* Proofs that the catalog answers from what was written, for any          *)
(* resources, files, handlers, requests and changes of lineage.            *)
(*                                                                         *)
(* Annotations survive although nothing locks them: a path on which two    *)
(* writers were at work at once is given up (catLoose), and on any other   *)
(* the one writer finds what was kept (KeptInv) and has built from it what *)
(* its requester wants (PutInv).  What the API and the command line answer *)
(* is computed from the files and from lineage; that it leaves nothing out *)
(* is a fact about these computations.                                     *)
(*                                                                         *)
(* And proofs that the bindings lineage is answered from settle, for any   *)
(* pipelines, definitions, handlers and requests; that the column edges of *)
(* a node are those of one save; and that the traces over them are         *)
(* complete, for any rows, filters and limit.                              *)
(***************************************************************************)
EXTENDS Catalog, Lineage, ColumnLineage, FiniteSetTheorems, WellFoundedInduction, TLAPS

Updating == {"truncate", "write", "rename"}

CatTypes ==
  /\ catBinds \in BindingSets
  /\ catFile \in [Paths -> Annotations \cup {None, Torn}]
  /\ catTmp \in [Paths -> Annotations \cup {None, Torn}]
  /\ catKept \in [Paths -> Annotations \cup {None}]
  /\ catOp \in [Actors -> Puts \cup Searches \cup Scaffolds \cup {None}]

(* An operation works on the paths it has given. *)
Planned(o) ==
  /\ o.step \in Updating \cup {"fill"} => FileOf[o.fp] \in o.paths
  /\ o.step \in {"scaffold", "fill"} => \A r \in o.todo : FileOf[r] \in o.paths

PlanInv == \A h \in Actors : catOp[h] # None => Planned(catOp[h])

(* One operation at most works on a path that is not given up. *)
SoleInv ==
  \A p \in Paths \ catLoose : \A g, h \in Actors :
    p \in OpPaths(g) /\ p \in OpPaths(h) => g = h

Filling(h, p) == AtStep(h, "fill") /\ PathOf(h) = p

KeptInv ==
  \A p \in Paths \ catLoose : (\A h \in Actors : ~Filling(h, p)) => catFile[p] = catKept[p]

Built(h) ==
  LET o == catOp[h]
      p == PathOf(h)
  IN /\ o.ann = Wanted(catKept[p], o.fp, o.body)
     /\ o.step = "write" => catTmp[p] = Torn
     /\ o.step = "rename" => catTmp[p] = o.ann

PutInv ==
  \A h \in Actors : catOp[h] # None /\ catOp[h].step \in Updating /\ PathOf(h) \notin catLoose => Built(h)

CatInv == CatTypes /\ PlanInv /\ SoleInv /\ KeptInv /\ PutInv

-----------------------------------------------------------------------------
(* Annotations and operations *)

LEMMA WantedIsBuilt ==
  ASSUME NEW r \in Resources, NEW body \in Bodies, NEW x \in Annotations \cup {None}
  PROVE  Wanted(x, r, body) = BuildAnnotation(r, body, x) /\ Wanted(x, r, body) \in Annotations
<1>1. PICK old : old = (IF x = None THEN Blank(r) ELSE x)
  OBVIOUS
<1>2. old \in Annotations
  BY <1>1 DEF Blank, Annotations
<1>3. BuildAnnotation(r, body, x) \in Annotations
  BY <1>1, <1>2 DEF BuildAnnotation, Annotations, Given, Said
<1>4. Wanted(x, r, body) = BuildAnnotation(r, body, x)
  <2>1. /\ DOMAIN old = {"fp", "name", "team", "contact", "tags", "cols", "sla"}
        /\ Wanted(x, r, body) = [f \in DOMAIN old |-> Wanted(x, r, body)[f]]
    BY <1>1, <1>2 DEF Wanted, Annotations
  <2>2. DOMAIN Wanted(x, r, body) = DOMAIN old
    BY <1>1 DEF Wanted
  <2>3. \A f \in DOMAIN old : Wanted(x, r, body)[f] =
          IF f = "fp" THEN r ELSE IF f = "sla" THEN old.sla ELSE Given(body[f], old[f])
    BY <1>1 DEF Wanted
  <2>4. BuildAnnotation(r, body, x) =
          [fp |-> r, name |-> Given(body.name, old.name), team |-> Given(body.team, old.team),
           contact |-> Given(body.contact, old.contact), tags |-> Given(body.tags, old.tags),
           cols |-> Given(body.cols, old.cols), sla |-> old.sla]
    BY <1>1 DEF BuildAnnotation
  <2> QED BY <2>1, <2>2, <2>3, <2>4
<1> QED BY <1>3, <1>4

LEMMA OpKinds ==
  ASSUME CatTypes, NEW h \in Actors
  PROVE  /\ catOp[h] = None \/ catOp[h] \in Puts \cup Searches \cup Scaffolds
         /\ catOp[h] # None /\ catOp[h].step \in Updating => catOp[h] \in Puts
         /\ AtStep(h, "fill") => catOp[h] \in Scaffolds
         /\ AtStep(h, "scaffold") => catOp[h] \in Searches \cup Scaffolds
         /\ OpPaths(h) \subseteq Paths
BY DEF CatTypes, Puts, Searches, Scaffolds, Updating, AtStep, OpPaths

LEMMA FilePath == \A r \in Resources : FileOf[r] \in Paths
BY DEF Paths

(* What it takes to have built, after a step. *)
LEMMA BuiltNext ==
  ASSUME NEW h, NEW o, NEW k, NEW t,
         o = catOp'[h], k = catKept'[FileOf[o.fp]], t = catTmp'[FileOf[o.fp]],
         o.ann = Wanted(k, o.fp, o.body), o.step = "write" => t = Torn, o.step = "rename" => t = o.ann
  PROVE  Built(h)'
BY DEF Built, PathOf, Wanted, Blank, Given

(* What known resources are. *)
LEMMA Known ==
  ASSUME CatTypes
  PROVE  /\ DOMAIN DiscoverResources(BuildLineageGraph) \subseteq Resources
         /\ DOMAIN DiscoverResources(catBinds) \subseteq Resources
BY CatalogAssumption DEF CatTypes, DiscoverResources, BuildLineageGraph

-----------------------------------------------------------------------------
(* Steps *)

LEMMA InitCat == CatInit => CatInv
<1> SUFFICES ASSUME CatInit PROVE CatInv
  OBVIOUS
<1>1. CatTypes
  BY DEF CatInit, CatTypes
<1>2. \A h \in Actors : catOp[h] = None
  BY DEF CatInit
<1>3. \A p \in Paths : catFile[p] = catKept[p]
  BY DEF CatInit
<1> QED BY <1>1, <1>2, <1>3 DEF CatInv, PlanInv, SoleInv, KeptInv, PutInv, OpPaths

(* A writer begins: who is on its paths already makes them loose.          *)
LEMMA Begins ==
  ASSUME CatInv, NEW h \in Actors, NEW o \in Puts \cup Searches, Start(h, o), Planned(o),
         o.step \notin {"write", "rename"},
         UNCHANGED <<catBinds, catFile, catTmp, catKept>>,
         o.step \in Updating =>
           /\ o.fp \in Resources /\ o.body \in Bodies
           /\ o.ann = BuildAnnotation(o.fp, o.body, Existing(FileOf[o.fp]))
  PROVE  CatInv'
<1>1. /\ catOp[h] = None /\ catOp' = [catOp EXCEPT ![h] = o] /\ o # None
      /\ catLoose' = catLoose \cup Shared(h, o.paths)
  BY CatalogAssumption DEF Start
<1>2. CatTypes' /\ CatTypes
  BY <1>1 DEF CatInv, CatTypes
<1>3. catOp'[h] = o /\ \A g \in Actors \ {h} : catOp'[g] = catOp[g]
  BY <1>1, <1>2 DEF CatTypes
<1>4. OpPaths(h) = {} /\ OpPaths(h)' = o.paths /\ \A g \in Actors \ {h} : OpPaths(g)' = OpPaths(g)
  BY <1>1, <1>3 DEF OpPaths
<1>5. PlanInv'
  BY <1>3 DEF CatInv, PlanInv, Planned
<1>6. SoleInv'
  BY <1>1, <1>4 DEF CatInv, SoleInv, Shared
<1>7. \A g \in Actors, p \in Paths : Filling(g, p) <=> Filling(g, p)'
  BY <1>1, <1>3 DEF Filling, AtStep, PathOf, Puts, Searches
<1>8. KeptInv'
  BY <1>1, <1>7 DEF CatInv, KeptInv
<1>9. ASSUME o.step \in Updating, FileOf[o.fp] \notin catLoose' PROVE Built(h)'
  <2> DEFINE p == FileOf[o.fp]
  <2>1. p \in o.paths /\ p \in Paths
    BY <1>9, FilePath DEF Planned
  <2>2. \A g \in Actors \ {h} : p \notin OpPaths(g)
    BY <1>1, <1>9, <2>1 DEF Shared
  <2>3. \A g \in Actors : ~Filling(g, p)
    <3> SUFFICES ASSUME NEW g \in Actors, Filling(g, p) PROVE FALSE
      OBVIOUS
    <3>1. g # h
      BY <1>1 DEF Filling, AtStep
    <3>2. p \in OpPaths(g)
      BY DEF Filling, AtStep, PathOf, OpPaths, CatInv, PlanInv, Planned
    <3> QED BY <2>2, <3>1, <3>2
  <2>4. catFile[p] = catKept[p]
    BY <1>1, <1>9, <2>1, <2>3 DEF CatInv, KeptInv
  <2>5. catKept[p] \in Annotations \cup {None} /\ Existing(p) = catKept[p]
    BY <1>2, <2>1, <2>4, CatalogAssumption DEF CatTypes, Existing, Whole
  <2>6. o.ann = Wanted(catKept[p], o.fp, o.body)
    BY <1>9, <2>5, WantedIsBuilt
  <2> QED BY <1>3, <2>6 DEF Built, PathOf, Wanted, Blank
<1>10. PutInv'
  <2> SUFFICES ASSUME NEW g \in Actors, catOp'[g] # None, catOp'[g].step \in Updating,
                      PathOf(g)' \notin catLoose'
               PROVE  Built(g)'
    BY DEF PutInv
  <2>1. CASE g = h
    BY <1>3, <1>9, <2>1 DEF PathOf
  <2>2. CASE g # h
    <3>1. Built(g) /\ catOp'[g] = catOp[g]
      BY <1>1, <1>3, <2>2 DEF CatInv, PutInv, PathOf
    <3> QED BY <1>1, <1>3, <3>1, BuiltNext DEF Built, PathOf
  <2> QED BY <2>1, <2>2
<1> QED BY <1>2, <1>5, <1>6, <1>8, <1>10 DEF CatInv

LEMMA BeginPut ==
  ASSUME CatInv, NEW h \in CatHandlers, NEW r \in Resources, NEW body \in Bodies, PutRead(h, r, body)
  PROVE  CatInv'
<1>1. PICK o : /\ o = [step |-> "truncate", paths |-> {FileOf[r]}, fp |-> r, body |-> body,
                       ann |-> BuildAnnotation(r, body, Existing(FileOf[r]))]
               /\ Start(h, o) /\ UNCHANGED <<catBinds, catFile, catTmp, catKept>>
  BY DEF PutRead
<1>2. FileOf[r] \in Paths
  BY FilePath
<1>3. Existing(FileOf[r]) \in Annotations \cup {None}
  BY <1>2 DEF Existing, Whole, CatInv, CatTypes
<1>4. o.ann \in Annotations
  BY <1>1, <1>3, WantedIsBuilt
<1>5. o \in Puts /\ Planned(o) /\ o.step \notin {"write", "rename"}
  BY <1>1, <1>2, <1>4 DEF Puts, Planned
<1> QED BY <1>1, <1>5, Begins DEF Actors

LEMMA BeginDescribe ==
  ASSUME CatInv, NEW h \in Actors, NEW todo \in SUBSET Resources, NEW all \in BOOLEAN, Describe(h, todo, all)
  PROVE  CatInv'
<1>1. PICK o : /\ o = [step |-> "scaffold", paths |-> {FileOf[r] : r \in todo}, todo |-> todo, all |-> all]
               /\ Start(h, o) /\ UNCHANGED <<catBinds, catFile, catTmp, catKept>>
  BY DEF Describe
<1>2. {FileOf[r] : r \in todo} \subseteq Paths
  BY FilePath
<1>3. o \in Searches /\ Planned(o) /\ o.step \notin Updating
  BY <1>1, <1>2 DEF Searches, Planned, Updating
<1> QED BY <1>1, <1>3, Begins

(* A step of one operation, to another of its kind or to its end, on the    *)
(* paths that it has.                                                      *)
GoesOnTo(h, o) ==
  /\ catOp[h] # None /\ catOp' = [catOp EXCEPT ![h] = o]
  /\ UNCHANGED <<catBinds, catLoose>>
  /\ o # None => o \in Puts \cup Searches \cup Scaffolds /\ o.paths = catOp[h].paths /\ Planned(o)

LEMMA Moving ==
  ASSUME CatInv, NEW h \in Actors, NEW o, GoesOnTo(h, o)
  PROVE  /\ catOp'[h] = o /\ \A g \in Actors \ {h} : catOp'[g] = catOp[g]
         /\ catOp' \in [Actors -> Puts \cup Searches \cup Scaffolds \cup {None}]
         /\ PlanInv' /\ SoleInv'
<1>1. /\ catOp'[h] = o /\ \A g \in Actors \ {h} : catOp'[g] = catOp[g]
      /\ catOp' \in [Actors -> Puts \cup Searches \cup Scaffolds \cup {None}]
  BY DEF GoesOnTo, CatInv, CatTypes
<1>2. PlanInv'
  BY <1>1 DEF GoesOnTo, CatInv, PlanInv, Planned
<1>3. \A g \in Actors : OpPaths(g)' \subseteq OpPaths(g)
  BY <1>1 DEF GoesOnTo, OpPaths
<1>4. SoleInv'
  BY <1>3 DEF GoesOnTo, CatInv, SoleInv
<1> QED BY <1>1, <1>2, <1>4

(* Who is at work on a path has it among its own. *)
LEMMA OwnPath ==
  ASSUME CatInv, NEW h \in Actors, catOp[h] # None, catOp[h].step \in Updating \cup {"fill"}
  PROVE  /\ PathOf(h) \in OpPaths(h) /\ PathOf(h) \in Paths
         /\ \A g \in Actors : PathOf(h) \notin catLoose /\ PathOf(h) \in OpPaths(g) => g = h
<1>1. PathOf(h) \in OpPaths(h)
  BY DEF CatInv, PlanInv, Planned, PathOf, OpPaths
<1>2. PathOf(h) \in Paths
  BY <1>1, OpKinds DEF CatInv
<1> QED BY <1>1, <1>2 DEF CatInv, SoleInv

(* What another one has built is untouched by a step on other paths, or of  *)
(* a path that is given up.                                                *)
LEMMA OthersBuilt ==
  ASSUME CatInv, NEW h \in Actors, catOp[h] # None, NEW g \in Actors \ {h},
         catOp'[g] = catOp[g], catOp'[g] # None, catOp'[g].step \in Updating,
         catLoose' = catLoose, PathOf(g)' \notin catLoose',
         \A p \in Paths : p \notin OpPaths(h) => catKept'[p] = catKept[p] /\ catTmp'[p] = catTmp[p]
  PROVE  Built(g)'
<1>1. Built(g) /\ PathOf(g) \notin catLoose
  BY DEF CatInv, PutInv, PathOf
<1>2. PathOf(g) \in Paths /\ PathOf(g) \notin OpPaths(h)
  BY <1>1, OwnPath
<1>3. catKept'[PathOf(g)] = catKept[PathOf(g)] /\ catTmp'[PathOf(g)] = catTmp[PathOf(g)]
  BY <1>2
<1> QED BY <1>1, <1>3, BuiltNext DEF Built, PathOf

LEMMA StepTruncate ==
  ASSUME CatInv, NEW h \in CatHandlers, PutTruncate(h)
  PROVE  CatInv'
<1>1. PICK o : o = [catOp[h] EXCEPT !.step = "write"] /\ catOp' = [catOp EXCEPT ![h] = o]
  BY DEF PutTruncate, GoesOn, CatInv, CatTypes, Actors
<1>2. h \in Actors /\ catOp[h] # None /\ catOp[h].step = "truncate" /\ catOp[h] \in Puts
  BY OpKinds DEF PutTruncate, AtStep, Updating, Actors, CatInv
<1>3. /\ o \in Puts /\ o.step = "write" /\ o.paths = catOp[h].paths
      /\ o.fp = catOp[h].fp /\ o.body = catOp[h].body /\ o.ann = catOp[h].ann
  BY <1>1, <1>2 DEF Puts
<1>4. Planned(o)
  BY <1>2, <1>3 DEF CatInv, PlanInv, Planned, Updating
<1>5. GoesOnTo(h, o) /\ UNCHANGED <<catFile, catKept>>
      /\ catTmp' = [catTmp EXCEPT ![PathOf(h)] = Torn]
  BY <1>1, <1>2, <1>3, <1>4 DEF GoesOnTo, PutTruncate
<1>6. /\ catOp'[h] = o /\ \A g \in Actors \ {h} : catOp'[g] = catOp[g]
      /\ CatTypes' /\ PlanInv' /\ SoleInv'
  <2>1. catTmp' \in [Paths -> Annotations \cup {None, Torn}]
    BY <1>5 DEF CatInv, CatTypes
  <2> QED BY <1>2, <1>5, <2>1, Moving DEF CatInv, CatTypes, GoesOnTo
<1>7. KeptInv'
  <2>1. \A g \in Actors, p \in Paths : Filling(g, p) <=> Filling(g, p)'
    BY <1>2, <1>3, <1>6 DEF Filling, AtStep, PathOf
  <2> QED BY <1>5, <2>1 DEF CatInv, KeptInv, GoesOnTo
<1>8. PutInv'
  <2> SUFFICES ASSUME NEW g \in Actors, catOp'[g] # None, catOp'[g].step \in Updating,
                      PathOf(g)' \notin catLoose'
               PROVE  Built(g)'
    BY DEF PutInv
  <2>1. CASE g = h
    <3>1. Built(h) /\ catKept'[FileOf[o.fp]] = catKept[PathOf(h)] /\ PathOf(h) \in Paths
      BY <1>2, <1>3, <1>5, <1>6, <2>1, OwnPath DEF CatInv, PutInv, PathOf, Updating, GoesOnTo
    <3>2. catTmp'[FileOf[o.fp]] = Torn
      BY <1>3, <1>5, <3>1 DEF PathOf, CatInv, CatTypes
    <3> QED BY <1>3, <1>6, <2>1, <3>1, <3>2, BuiltNext DEF Built, PathOf
  <2>2. CASE g # h
    <3>1. \A p \in Paths : p \notin OpPaths(h) => catKept'[p] = catKept[p] /\ catTmp'[p] = catTmp[p]
      BY <1>2, <1>5, OwnPath DEF CatInv, CatTypes, Updating
    <3> QED BY <1>2, <1>5, <1>6, <2>2, <3>1, OthersBuilt DEF GoesOnTo
  <2> QED BY <2>1, <2>2
<1> QED BY <1>6, <1>7, <1>8 DEF CatInv

LEMMA StepWrite ==
  ASSUME CatInv, NEW h \in CatHandlers, PutWrite(h)
  PROVE  CatInv'
<1>1. PICK o : o = [catOp[h] EXCEPT !.step = "rename"] /\ catOp' = [catOp EXCEPT ![h] = o]
  BY DEF PutWrite, GoesOn, CatInv, CatTypes, Actors
<1>2. h \in Actors /\ catOp[h] # None /\ catOp[h].step = "write" /\ catOp[h] \in Puts
  BY OpKinds DEF PutWrite, AtStep, Updating, Actors, CatInv
<1>3. /\ o \in Puts /\ o.step = "rename" /\ o.paths = catOp[h].paths
      /\ o.fp = catOp[h].fp /\ o.body = catOp[h].body /\ o.ann = catOp[h].ann
  BY <1>1, <1>2 DEF Puts
<1>4. Planned(o)
  BY <1>2, <1>3 DEF CatInv, PlanInv, Planned, Updating
<1>5. GoesOnTo(h, o) /\ UNCHANGED catKept
  BY <1>1, <1>2, <1>3, <1>4 DEF GoesOnTo, PutWrite
<1>a. PathOf(h) \in Paths /\ catOp[h].ann \in Annotations
  BY <1>2, OwnPath DEF Puts, Updating
<1>b. /\ \A p \in Paths \ {PathOf(h)} : catFile'[p] = catFile[p] /\ catTmp'[p] = catTmp[p]
      /\ catFile' \in [Paths -> Annotations \cup {None, Torn}]
      /\ catTmp' \in [Paths -> Annotations \cup {None, Torn}]
  BY <1>a DEF PutWrite, CatInv, CatTypes
<1>c. ASSUME PathOf(h) \notin catLoose
      PROVE  Built(h) /\ catFile' = catFile /\ catTmp'[PathOf(h)] = catOp[h].ann
  <2>1. Built(h) /\ catTmp[PathOf(h)] = Torn
    BY <1>2, <1>c DEF CatInv, PutInv, Built, Updating
  <2> QED BY <1>a, <2>1, CatalogAssumption DEF PutWrite, CatInv, CatTypes
<1>6. /\ catOp'[h] = o /\ \A g \in Actors \ {h} : catOp'[g] = catOp[g]
      /\ CatTypes' /\ PlanInv' /\ SoleInv'
  BY <1>2, <1>5, <1>b, Moving DEF CatInv, CatTypes, GoesOnTo
<1>7. KeptInv'
  <2>1. \A g \in Actors, p \in Paths : Filling(g, p) <=> Filling(g, p)'
    BY <1>2, <1>3, <1>6 DEF Filling, AtStep, PathOf
  <2>2. \A p \in Paths \ catLoose : catFile'[p] = catFile[p]
    BY <1>b, <1>c
  <2> QED BY <1>5, <2>1, <2>2 DEF CatInv, KeptInv, GoesOnTo
<1>8. PutInv'
  <2> SUFFICES ASSUME NEW g \in Actors, catOp'[g] # None, catOp'[g].step \in Updating,
                      PathOf(g)' \notin catLoose'
               PROVE  Built(g)'
    BY DEF PutInv
  <2>1. CASE g = h
    <3>1. PathOf(h) \notin catLoose /\ PathOf(h) \in Paths
      BY <1>2, <1>3, <1>5, <1>6, <2>1, OwnPath DEF PathOf, GoesOnTo, Updating
    <3>2. Built(h) /\ catTmp'[PathOf(h)] = catOp[h].ann
      BY <1>c, <3>1
    <3>3. catKept'[FileOf[o.fp]] = catKept[PathOf(h)] /\ catTmp'[FileOf[o.fp]] = o.ann
      BY <1>3, <1>5, <3>2 DEF PathOf
    <3> QED BY <1>3, <1>6, <2>1, <3>2, <3>3, BuiltNext DEF Built, PathOf
  <2>2. CASE g # h
    <3>1. \A p \in Paths : p \notin OpPaths(h) => catKept'[p] = catKept[p] /\ catTmp'[p] = catTmp[p]
      BY <1>2, <1>5, <1>b, OwnPath DEF Updating
    <3> QED BY <1>2, <1>5, <1>6, <2>2, <3>1, OthersBuilt DEF GoesOnTo
  <2> QED BY <2>1, <2>2
<1> QED BY <1>6, <1>7, <1>8 DEF CatInv

LEMMA StepRename ==
  ASSUME CatInv, NEW h \in CatHandlers, PutRename(h)
  PROVE  CatInv'
<1>1. h \in Actors /\ catOp[h] # None /\ catOp[h].step = "rename" /\ catOp[h] \in Puts
  BY OpKinds DEF PutRename, AtStep, Updating, Actors, CatInv
<1>2. GoesOnTo(h, None)
  BY <1>1 DEF GoesOnTo, PutRename, Ends
<1>3. /\ catOp'[h] = None /\ \A g \in Actors \ {h} : catOp'[g] = catOp[g]
      /\ catOp' \in [Actors -> Puts \cup Searches \cup Scaffolds \cup {None}]
      /\ PlanInv' /\ SoleInv'
  BY <1>1, <1>2, Moving
<1>4. PathOf(h) \in Paths /\ PathOf(h) \in OpPaths(h)
  BY <1>1, OwnPath DEF Updating
<1> DEFINE p == PathOf(h)
           wanted == Wanted(catKept[p], catOp[h].fp, catOp[h].body)
<1>5. wanted \in Annotations
  <2>1. catKept[p] \in Annotations \cup {None}
    BY <1>4 DEF CatInv, CatTypes
  <2>2. catOp[h].fp \in Resources /\ catOp[h].body \in Bodies
    BY <1>1 DEF Puts
  <2> QED BY <2>1, <2>2, WantedIsBuilt
<1>6. \/ UNCHANGED <<catFile, catTmp, catKept>>
      \/ /\ catFile' = [catFile EXCEPT ![p] = catTmp[p]]
         /\ catTmp' = [catTmp EXCEPT ![p] = None]
         /\ catKept' = [catKept EXCEPT ![p] = wanted]
  BY <1>4 DEF PutRename, CatInv, CatTypes
<1>7. CatTypes'
  <2>1. catTmp[p] \in Annotations \cup {None, Torn}
    BY <1>4 DEF CatInv, CatTypes
  <2> HIDE DEF wanted, p
  <2> QED BY <1>2, <1>3, <1>5, <1>6, <2>1 DEF CatInv, CatTypes, GoesOnTo
<1>8. \A q \in Paths : q # p => catFile'[q] = catFile[q] /\ catKept'[q] = catKept[q] /\ catTmp'[q] = catTmp[q]
  <2> HIDE DEF wanted, p
  <2> QED BY <1>6 DEF CatInv, CatTypes
<1>9. KeptInv'
  <2>1. \A g \in Actors, q \in Paths : Filling(g, q) <=> Filling(g, q)'
    BY <1>1, <1>3 DEF Filling, AtStep, PathOf
  <2>2. ASSUME p \notin catLoose, catFile'[p] # catFile[p] \/ catKept'[p] # catKept[p]
        PROVE  catFile'[p] = catKept'[p]
    <3>1. wanted = catTmp[p]
      BY <1>1, <2>2 DEF CatInv, PutInv, Built, Updating
    <3> HIDE DEF wanted, p
    <3> QED BY <1>4, <1>6, <2>2, <3>1 DEF CatInv, CatTypes, p
  <2> QED BY <1>2, <1>4, <1>8, <2>1, <2>2 DEF CatInv, KeptInv, GoesOnTo
<1>10. PutInv'
  <2> SUFFICES ASSUME NEW g \in Actors, catOp'[g] # None, catOp'[g].step \in Updating,
                      PathOf(g)' \notin catLoose'
               PROVE  Built(g)'
    BY DEF PutInv
  <2>1. g # h
    BY <1>3
  <2>2. \A q \in Paths : q \notin OpPaths(h) => catKept'[q] = catKept[q] /\ catTmp'[q] = catTmp[q]
    BY <1>4, <1>8
  <2> QED BY <1>1, <1>2, <1>3, <2>1, <2>2, OthersBuilt DEF GoesOnTo
<1> QED BY <1>3, <1>7, <1>9, <1>10 DEF CatInv

(* A step of a scaffold builds nothing and leaves temporary files alone.    *)
LEMMA ScaffoldBuilt ==
  ASSUME CatInv, NEW h \in Actors, NEW o, GoesOnTo(h, o), o # None => o.step \notin Updating,
         UNCHANGED catTmp, \A p \in Paths : p \notin OpPaths(h) => catKept'[p] = catKept[p]
  PROVE  PutInv'
<1>1. catOp'[h] = o /\ \A g \in Actors \ {h} : catOp'[g] = catOp[g]
  BY Moving
<1> SUFFICES ASSUME NEW g \in Actors, catOp'[g] # None, catOp'[g].step \in Updating,
                    PathOf(g)' \notin catLoose'
             PROVE  Built(g)'
  BY DEF PutInv
<1>2. g # h
  BY <1>1
<1>3. catOp[h] # None /\ catLoose' = catLoose
  BY DEF GoesOnTo
<1> QED BY <1>1, <1>2, <1>3, OthersBuilt

LEMMA StepScaffoldTruncate ==
  ASSUME CatInv, NEW h \in Actors, ScaffoldTruncate(h)
  PROVE  CatInv'
<1>1. catOp[h] # None /\ catOp[h].step = "scaffold" /\ catOp[h] \in Searches \cup Scaffolds
  BY OpKinds DEF ScaffoldTruncate, AtStep, CatInv
<1>2. PICK r \in catOp[h].todo :
        IF catOp[h].all /\ catFile[FileOf[r]] # None
        THEN catOp' = [catOp EXCEPT ![h].todo = @ \ {r}] /\ UNCHANGED catFile
        ELSE /\ catOp' = [catOp EXCEPT ![h] = [step |-> "fill", fp |-> r, paths |-> @.paths,
                                               todo |-> @.todo \ {r}, all |-> @.all]]
             /\ catFile' = [catFile EXCEPT ![FileOf[r]] = Torn]
  BY DEF ScaffoldTruncate
<1>3. UNCHANGED <<catBinds, catTmp, catKept, catLoose>>
  BY DEF ScaffoldTruncate
<1>4. r \in Resources /\ FileOf[r] \in Paths /\ FileOf[r] \in OpPaths(h)
  BY <1>1, <1>2, FilePath DEF Searches, Scaffolds, CatInv, PlanInv, Planned, OpPaths
<1>5. \A q \in catOp[h].todo : FileOf[q] \in catOp[h].paths
  BY <1>1 DEF CatInv, PlanInv, Planned
<1>6. CASE catOp[h].all /\ catFile[FileOf[r]] # None
  <2>1. PICK o : o = [catOp[h] EXCEPT !.todo = @ \ {r}] /\ catOp' = [catOp EXCEPT ![h] = o]
    BY <1>2, <1>6 DEF CatInv, CatTypes
  <2>2. /\ o \in Searches \cup Scaffolds /\ o.step = "scaffold" /\ o.paths = catOp[h].paths
        /\ o.todo = catOp[h].todo \ {r}
    BY <1>1, <2>1 DEF Searches, Scaffolds
  <2>3. GoesOnTo(h, o)
    BY <1>1, <1>3, <1>5, <2>1, <2>2 DEF GoesOnTo, Planned, Updating
  <2>4. /\ catOp'[h] = o /\ \A g \in Actors \ {h} : catOp'[g] = catOp[g]
        /\ CatTypes' /\ PlanInv' /\ SoleInv'
    BY <1>2, <1>3, <1>6, <2>3, Moving DEF CatInv, CatTypes
  <2>5. \A g \in Actors, p \in Paths : Filling(g, p) <=> Filling(g, p)'
    BY <1>1, <2>2, <2>4 DEF Filling, AtStep, PathOf
  <2>6. KeptInv'
    BY <1>2, <1>3, <1>6, <2>5 DEF CatInv, KeptInv
  <2>7. PutInv'
    BY <1>3, <2>2, <2>3, ScaffoldBuilt DEF Updating
  <2> QED BY <2>4, <2>6, <2>7 DEF CatInv
<1>7. CASE ~ (catOp[h].all /\ catFile[FileOf[r]] # None)
  <2>1. PICK o : /\ o = [step |-> "fill", fp |-> r, paths |-> catOp[h].paths,
                         todo |-> catOp[h].todo \ {r}, all |-> catOp[h].all]
                 /\ catOp' = [catOp EXCEPT ![h] = o]
    BY <1>2, <1>7 DEF CatInv, CatTypes
  <2>2. o \in Scaffolds
    BY <1>1, <1>4, <2>1 DEF Searches, Scaffolds
  <2>3. GoesOnTo(h, o)
    BY <1>1, <1>2, <1>3, <1>5, <2>1, <2>2 DEF GoesOnTo, Planned, Updating
  <2>4. /\ catOp'[h] = o /\ \A g \in Actors \ {h} : catOp'[g] = catOp[g]
        /\ CatTypes' /\ PlanInv' /\ SoleInv'
    <3>1. catFile' \in [Paths -> Annotations \cup {None, Torn}]
      BY <1>2, <1>4, <1>7 DEF CatInv, CatTypes
    <3> QED BY <1>3, <2>3, <3>1, Moving DEF CatInv, CatTypes
  <2>5. Filling(h, FileOf[r])' /\ \A p \in Paths : ~Filling(h, p)
    <3>1. catOp'[h] = o /\ o # None
      BY <2>2, <2>4, CatalogAssumption
    <3>2. catOp'[h] # None /\ catOp'[h].step = "fill" /\ catOp'[h].fp = r
      BY <2>1, <3>1
    <3> QED BY <1>1, <3>2 DEF Filling, AtStep, PathOf
  <2>6. \A g \in Actors \ {h}, p \in Paths : Filling(g, p) <=> Filling(g, p)'
    BY <2>4 DEF Filling, AtStep, PathOf
  <2>7. \A p \in Paths : p # FileOf[r] => catFile'[p] = catFile[p]
    BY <1>2, <1>7 DEF CatInv, CatTypes
  <2>8. KeptInv'
    BY <1>3, <2>5, <2>6, <2>7 DEF CatInv, KeptInv
  <2>9. PutInv'
    BY <1>3, <2>1, <2>3, ScaffoldBuilt DEF Updating
  <2> QED BY <2>4, <2>8, <2>9 DEF CatInv
<1> QED BY <1>6, <1>7

LEMMA StepScaffoldWrite ==
  ASSUME CatInv, NEW h \in Actors, ScaffoldWrite(h)
  PROVE  CatInv'
<1>1. catOp[h] # None /\ catOp[h].step = "fill" /\ catOp[h] \in Scaffolds
  BY OpKinds DEF ScaffoldWrite, AtStep, CatInv
<1>2. PathOf(h) \in Paths /\ PathOf(h) \in OpPaths(h)
  BY <1>1, OwnPath
<1>3. PICK o, p, a : /\ o = [catOp[h] EXCEPT !.step = "scaffold"] /\ catOp' = [catOp EXCEPT ![h] = o]
                     /\ p = PathOf(h) /\ a = ScaffoldAnnotation(catOp[h].fp)
                     /\ catFile' = [catFile EXCEPT ![p] = a] /\ catKept' = [catKept EXCEPT ![p] = a]
                     /\ UNCHANGED <<catBinds, catTmp, catLoose>>
  BY DEF ScaffoldWrite, GoesOn, CatInv, CatTypes
<1>4. a \in Annotations
  BY <1>1, <1>3 DEF ScaffoldAnnotation, Blank, Annotations, Scaffolds
<1>5. /\ o \in Scaffolds /\ o.step = "scaffold" /\ o.paths = catOp[h].paths /\ o.todo = catOp[h].todo
  BY <1>1, <1>3 DEF Scaffolds
<1>6. GoesOnTo(h, o)
  BY <1>1, <1>3, <1>5 DEF GoesOnTo, CatInv, PlanInv, Planned, Updating
<1>7. /\ catOp'[h] = o /\ \A g \in Actors \ {h} : catOp'[g] = catOp[g]
      /\ CatTypes' /\ PlanInv' /\ SoleInv'
  <2>1. /\ catFile' \in [Paths -> Annotations \cup {None, Torn}]
        /\ catKept' \in [Paths -> Annotations \cup {None}]
    BY <1>2, <1>3, <1>4 DEF CatInv, CatTypes
  <2> QED BY <1>3, <1>6, <2>1, Moving DEF CatInv, CatTypes
<1>8. /\ catFile'[p] = a /\ catKept'[p] = a
      /\ \A q \in Paths : q # p => catFile'[q] = catFile[q] /\ catKept'[q] = catKept[q]
  BY <1>2, <1>3 DEF CatInv, CatTypes
<1>9. \A g \in Actors, q \in Paths : q # p /\ Filling(g, q) => Filling(g, q)'
  BY <1>3, <1>7 DEF Filling, AtStep, PathOf
<1>10. KeptInv'
  BY <1>3, <1>8, <1>9 DEF CatInv, KeptInv
<1>11. PutInv'
  BY <1>2, <1>3, <1>5, <1>6, <1>8, ScaffoldBuilt DEF Updating
<1> QED BY <1>7, <1>10, <1>11 DEF CatInv

LEMMA StepDescribeEnd ==
  ASSUME CatInv, NEW h \in Actors, DescribeEnd(h)
  PROVE  CatInv'
<1>1. catOp[h] # None /\ catOp[h].step = "scaffold" /\ UNCHANGED <<catFile, catTmp, catKept, catLoose>>
  BY DEF DescribeEnd, AtStep
<1>2. GoesOnTo(h, None)
  BY <1>1 DEF GoesOnTo, DescribeEnd, Ends
<1>3. /\ catOp'[h] = None /\ \A g \in Actors \ {h} : catOp'[g] = catOp[g]
      /\ CatTypes' /\ PlanInv' /\ SoleInv'
  BY <1>1, <1>2, Moving DEF CatInv, CatTypes, GoesOnTo
<1>4. \A g \in Actors, p \in Paths : Filling(g, p) <=> Filling(g, p)'
  BY <1>1, <1>3 DEF Filling, AtStep, PathOf
<1>5. KeptInv' /\ PutInv'
  BY <1>1, <1>2, <1>4, ScaffoldBuilt DEF CatInv, KeptInv
<1> QED BY <1>3, <1>5 DEF CatInv

LEMMA StepEdit ==
  ASSUME CatInv, NEW p \in Paths, Edit(p)
  PROVE  CatInv'
<1>1. PICK a \in HandWritten :
        catFile' = [catFile EXCEPT ![p] = a] /\ catKept' = [catKept EXCEPT ![p] = a]
  BY DEF Edit
<1>2. /\ UNCHANGED <<catBinds, catTmp, catOp>>
      /\ catLoose' = catLoose \cup ({p} \cap UNION {OpPaths(h) : h \in Actors})
  BY DEF Edit
<1>3. CatTypes'
  BY <1>1, <1>2, CatalogAssumption DEF CatInv, CatTypes
<1>4. /\ catFile'[p] = a /\ catKept'[p] = a
      /\ \A q \in Paths : q # p => catFile'[q] = catFile[q] /\ catKept'[q] = catKept[q]
  BY <1>1 DEF CatInv, CatTypes
<1>5. PlanInv' /\ SoleInv'
  BY <1>2 DEF CatInv, PlanInv, SoleInv, OpPaths
<1>6. KeptInv'
  BY <1>2, <1>4 DEF CatInv, KeptInv, Filling, AtStep, PathOf
<1>7. PutInv'
  <2> SUFFICES ASSUME NEW g \in Actors, catOp'[g] # None, catOp'[g].step \in Updating,
                      PathOf(g)' \notin catLoose'
               PROVE  Built(g)'
    BY DEF PutInv
  <2>1. catOp[g] # None /\ catOp[g].step \in Updating /\ PathOf(g) = PathOf(g)' /\ PathOf(g) \notin catLoose
    BY <1>2 DEF PathOf
  <2>2. PathOf(g) \in OpPaths(g) /\ PathOf(g) \in Paths
    BY <2>1, OwnPath
  <2>3. PathOf(g) # p
    BY <1>2, <2>1, <2>2
  <2>4. Built(g) /\ catKept'[PathOf(g)] = catKept[PathOf(g)]
    BY <1>4, <2>1, <2>2, <2>3 DEF CatInv, PutInv
  <2> QED BY <1>2, <2>1, <2>4 DEF Built, PathOf, Wanted, Blank
<1> QED BY <1>3, <1>5, <1>6, <1>7 DEF CatInv

LEMMA StepDies ==
  ASSUME CatInv, ServerDies
  PROVE  CatInv'
<1>1. /\ catOp' = [h \in Actors |-> IF h = CatCli THEN catOp[h] ELSE None]
      /\ catLoose' = catLoose \cup {PathOf(h) : h \in {g \in CatHandlers : AtStep(g, "fill")}}
      /\ UNCHANGED <<catBinds, catFile, catTmp, catKept>>
  BY DEF ServerDies
<1>2. \A h \in Actors : catOp'[h] \in {catOp[h], None} /\ (catOp'[h] # catOp[h] => h \in CatHandlers)
  BY <1>1 DEF Actors
<1>3. CatTypes'
  BY <1>1 DEF CatInv, CatTypes
<1>4. PlanInv' /\ SoleInv'
  BY <1>1, <1>2 DEF CatInv, PlanInv, SoleInv, OpPaths, Planned
<1>5. KeptInv'
  <2> SUFFICES ASSUME NEW p \in Paths \ catLoose', \A h \in Actors : ~Filling(h, p)'
               PROVE  catFile[p] = catKept[p]
    BY <1>1 DEF KeptInv
  <2>1. \A h \in Actors : ~Filling(h, p)
    BY <1>1, <1>2 DEF Filling, AtStep, PathOf
  <2> QED BY <1>1, <2>1 DEF CatInv, KeptInv
<1>6. PutInv'
  <2> SUFFICES ASSUME NEW g \in Actors, catOp'[g] # None, catOp'[g].step \in Updating,
                      PathOf(g)' \notin catLoose'
               PROVE  Built(g)'
    BY DEF PutInv
  <2>1. catOp'[g] = catOp[g] /\ PathOf(g) \notin catLoose
    BY <1>1, <1>2 DEF PathOf
  <2>2. Built(g)
    BY <2>1 DEF CatInv, PutInv
  <2> QED BY <1>1, <2>1, <2>2 DEF Built, PathOf, Wanted, Blank
<1> QED BY <1>3, <1>4, <1>5, <1>6 DEF CatInv

LEMMA StepCat == CatInv /\ [CatNext]_catVars => CatInv'
<1> SUFFICES ASSUME CatInv, [CatNext]_catVars PROVE CatInv'
  OBVIOUS
<1>1. CASE UNCHANGED <<catFile, catTmp, catOp, catKept, catLoose>> /\ catBinds' \in BindingSets
  BY <1>1 DEF CatInv, CatTypes, PlanInv, Planned, SoleInv, OpPaths, KeptInv, Filling, AtStep, PathOf,
     PutInv, Built, Wanted, Blank
<1>2. CASE UNCHANGED catVars \/ Rebind
  BY <1>1, <1>2 DEF catVars, Rebind, CatInv, CatTypes
<1>3. CASE DescribeCli
  <2>1. CatCli \in Actors
    BY DEF Actors
  <2>2. PICK todo \in SUBSET Resources, all \in BOOLEAN : Describe(CatCli, todo, all)
    BY <1>3, Known DEF DescribeCli, CatInv
  <2> QED BY <2>1, <2>2, BeginDescribe
<1>4. ASSUME NEW h \in CatHandlers, DescribeApi(h) PROVE CatInv'
  <2>1. h \in Actors
    BY DEF Actors
  <2>2. PICK todo \in SUBSET Resources, all \in BOOLEAN : Describe(h, todo, all)
    BY <1>4, Known DEF DescribeApi, CatInv
  <2> QED BY <2>1, <2>2, BeginDescribe
<1>5. ASSUME NEW h \in CatHandlers, PutTruncate(h) \/ PutWrite(h) \/ PutRename(h) PROVE CatInv'
  BY <1>5, StepTruncate, StepWrite, StepRename
<1>6. ASSUME NEW h \in CatHandlers, NEW r \in Resources, NEW body \in Bodies, PutRead(h, r, body) PROVE CatInv'
  BY <1>6, BeginPut
<1>7. ASSUME NEW h \in Actors, ScaffoldTruncate(h) \/ ScaffoldWrite(h) \/ DescribeEnd(h) PROVE CatInv'
  BY <1>7, StepScaffoldTruncate, StepScaffoldWrite, StepDescribeEnd
<1>8. ASSUME NEW p \in Paths, Edit(p) PROVE CatInv'
  BY <1>8, StepEdit
<1>9. CASE ServerDies
  BY <1>9, StepDies
<1> QED BY <1>2, <1>3, <1>4, <1>5, <1>6, <1>7, <1>8, <1>9 DEF CatNext

-----------------------------------------------------------------------------
(* Answers *)

LEMMA PathsFinite == IsFiniteSet(Paths)
<1>1. IsFiniteSet({FileOf[r] : r \in Resources})
  <2> DEFINE T == {FileOf[r] : r \in Resources}
             g == [r \in Resources |-> FileOf[r]]
  <2>1. g \in Surjection(Resources, T)
    BY DEF Surjection
  <2> HIDE DEF g, T
  <2> QED BY <2>1, CatalogAssumption, FS_Surjection DEF T
<1> QED BY <1>1, CatalogAssumption, FS_Union DEF Paths

(* A resource with one file has that one. *)
LEMMA OnlyFile ==
  ASSUME NEW r, NEW p, LoadAnnotations(r) = {p}
  PROVE  AnnotationFile(r) = p
BY DEF AnnotationFile

LEMMA Ignored == CatTypes => NothingIgnored
<1> SUFFICES ASSUME CatTypes, NEW p \in Paths, catFile[p] # None,
                    p \notin ParseErrors, p \notin DetectDangling(catBinds), p \notin DetectDuplicates
             PROVE  \E e \in MergeCatalog(catBinds) : e.file = p
  BY DEF NothingIgnored, Validate
<1> DEFINE r == catFile[p].fp
<1>1. Whole(catFile[p]) /\ p \in LoadAnnotations(r) /\ r \in Annotated
  BY DEF ParseErrors, Whole, LoadAnnotations, Annotated
<1>2. LoadAnnotations(r) = {p}
  <2>1. IsFiniteSet(LoadAnnotations(r))
    BY PathsFinite, FS_Subset DEF LoadAnnotations
  <2>2. Cardinality(LoadAnnotations(r)) \in Nat /\ ~ (Cardinality(LoadAnnotations(r)) > 1)
    BY <1>1, <2>1, FS_CardinalityType DEF DetectDuplicates
  <2>3. Cardinality(LoadAnnotations(r)) # 0
    BY <1>1, <2>1, FS_EmptySet
  <2>4. Cardinality(LoadAnnotations(r)) = 1
    BY <2>2, <2>3
  <2>5. PICK q : LoadAnnotations(r) = {q}
    BY <2>1, <2>4, FS_Singleton
  <2> QED BY <1>1, <2>5
<1>3. r \in DOMAIN DiscoverResources(catBinds)
  BY <1>1, <1>2, OnlyFile DEF DetectDangling
<1>4. BuildEntry(catBinds, r).file = p
  BY <1>1, <1>2, OnlyFile DEF BuildEntry
<1> QED BY <1>3, <1>4 DEF MergeCatalog

(* What an entry says, and what the API makes of it. *)
LEMMA EntryFields ==
  ASSUME NEW graph, NEW r, NEW file, NEW a,
         file = (IF LoadAnnotations(r) = {} THEN None ELSE AnnotationFile(r)),
         a = (IF file = None THEN Blank(r) ELSE catFile[file])
  PROVE  BuildEntry(graph, r) =
           [fp |-> r, name |-> Given(a.name, r), team |-> a.team, tags |-> a.tags, file |-> file,
            cols |-> MergeColumns({}, a.cols), derived |-> DiscoverResources(graph)[r]]
BY DEF BuildEntry

LEMMA Enriched ==
  ASSUME NEW e, e = [fp |-> e.fp, name |-> e.name, team |-> e.team, tags |-> e.tags, file |-> e.file,
                     cols |-> e.cols, derived |-> e.derived]
  PROVE  EnrichSchema(e) =
           [fp |-> e.fp, name |-> e.name, team |-> e.team, tags |-> e.tags, file |-> e.file,
            cols |-> SchemaOf[e.fp] \cup e.cols, derived |-> e.derived]
BY DEF EnrichSchema, MergeColumns

(* The catalog has one entry for a resource. *)
LEMMA Entry ==
  ASSUME NEW e \in BuildCatalog
  PROVE  /\ e.fp \in DOMAIN DiscoverResources(BuildLineageGraph)
         /\ e = EnrichSchema(BuildEntry(BuildLineageGraph, e.fp))
<1>1. PICK r \in DOMAIN DiscoverResources(BuildLineageGraph) : e = EnrichSchema(BuildEntry(BuildLineageGraph, r))
  BY DEF BuildCatalog, MergeCatalog
<1>2. e.fp = r
  BY <1>1 DEF EnrichSchema, BuildEntry
<1> QED BY <1>1, <1>2

LEMMA FirstNumber ==
  ASSUME NEW T \in SUBSET Nat, T # {}
  PROVE  \E m \in T : \A n \in T : m <= n
<1>1. PICK m \in T : \A n \in T : ~ (<<n, m>> \in OpToRel(<, Nat))
  BY NatLessThanWellFounded, WFMin, Zenon
<1>2. \A n \in T : ~ (n < m)
  BY <1>1 DEF OpToRel
<1> QED BY <1>2

LEMMA Dated ==
  ASSUME CatTypes, NEW e \in BuildCatalog, \E p \in e.derived.producers : FinishedAt[p] # None
  PROVE  LastUpdated(e) # None
<1> DEFINE ran == {p \in e.derived.producers : FinishedAt[p] # None}
<1>1. e.derived = DiscoverResources(BuildLineageGraph)[e.fp]
  <2>1. PICK b : b = BuildEntry(BuildLineageGraph, e.fp)
    OBVIOUS
  <2>2. b = [fp |-> b.fp, name |-> b.name, team |-> b.team, tags |-> b.tags, file |-> b.file,
             cols |-> b.cols, derived |-> b.derived]
        /\ b.derived = DiscoverResources(BuildLineageGraph)[e.fp]
    BY <2>1 DEF BuildEntry
  <2>3. e = EnrichSchema(b)
    BY <2>1, Entry
  <2> QED BY <2>2, <2>3, Enriched
<1>2. e.derived.producers = {b.pipe : b \in {x \in BuildLineageGraph : x.fp = e.fp /\ x.dir = "sink"}}
  BY <1>1, Entry DEF DiscoverResources
<1>3. ran \subseteq Nat
  <2>1. \A b \in catBinds \cup Observed : b.pipe \in Nat
    <3>1. catBinds \in BindingSets
      BY DEF CatTypes
    <3> QED BY <3>1, CatalogAssumption
  <2>2. BuildLineageGraph \subseteq catBinds \cup Observed
    BY DEF BuildLineageGraph
  <2>3. \A p \in e.derived.producers : p \in Nat
    BY <1>2, <2>1, <2>2
  <2> QED BY <2>3
<1>4. PICK p \in ran : \A q \in ran : p <= q
  BY <1>3, FirstNumber
<1>5. (CHOOSE x \in ran : \A q \in ran : x <= q) \in ran
  BY <1>4, Zenon
<1> QED BY <1>5 DEF LastUpdated

LEMMA Documented ==
  ASSUME CatInv, Quiet
  PROVE  DocumentedIsFound
<1> SUFFICES ASSUME NEW e \in BuildCatalog, LoadAnnotations(e.fp) = {FileOf[e.fp]}, FileOf[e.fp] \notin catLoose
             PROVE  LET a == catKept[FileOf[e.fp]]
                    IN /\ \A t \in a.tags : e \in ListResources({t}, t, None) /\ t \in ListTags
                       /\ a.team # None => e \in ListResources(None, None, a.team) /\ a.team \in ListOwners
                       /\ a.cols \cup SchemaOf[e.fp] \subseteq e.cols /\ GetResource(e.fp) = {e}
                       /\ a.name # None => e \in Search(BuildCatalog, {a.name})
                       /\ (\E p \in e.derived.producers : FinishedAt[p] # None) => LastUpdated(e) # None
  BY DEF DocumentedIsFound
<1> DEFINE f == FileOf[e.fp]
           a == catKept[f]
           b == BuildEntry(BuildLineageGraph, e.fp)
<1>1. f \in Paths /\ Whole(catFile[f])
  BY DEF LoadAnnotations
<1>2. catFile[f] = a
  BY <1>1 DEF Quiet, CatInv, KeptInv, Filling, AtStep
<1>3. e = EnrichSchema(b)
  BY Entry
<1>4. /\ b.name = Given(a.name, e.fp) /\ b.team = a.team /\ b.tags = a.tags /\ b.cols = a.cols
      /\ b.fp = e.fp
  <2>1. /\ f = (IF LoadAnnotations(e.fp) = {} THEN None ELSE AnnotationFile(e.fp))
        /\ a = (IF f = None THEN Blank(e.fp) ELSE catFile[f])
    BY <1>1, <1>2, OnlyFile, CatalogAssumption
  <2>2. PICK file, ann : file = f /\ ann = a
    OBVIOUS
  <2>3. b = [fp |-> e.fp, name |-> Given(ann.name, e.fp), team |-> ann.team, tags |-> ann.tags, file |-> file,
             cols |-> MergeColumns({}, ann.cols), derived |-> DiscoverResources(BuildLineageGraph)[e.fp]]
    <3> HIDE DEF a, f
    <3>1. /\ file = (IF LoadAnnotations(e.fp) = {} THEN None ELSE AnnotationFile(e.fp))
          /\ ann = (IF file = None THEN Blank(e.fp) ELSE catFile[file])
      BY <2>1, <2>2
    <3> QED BY <3>1, EntryFields
  <2> QED BY <2>2, <2>3 DEF MergeColumns
<1>5. /\ e.name = Given(a.name, e.fp) /\ e.team = a.team /\ e.tags = a.tags
      /\ e.cols = SchemaOf[e.fp] \cup a.cols
  BY <1>3, <1>4 DEF EnrichSchema, BuildEntry, MergeColumns
<1>6. GetResource(e.fp) = {e}
  BY Entry DEF GetResource
<1> HIDE DEF a, b
<1>7. \A t \in a.tags : e \in ListResources({t}, t, None) /\ t \in ListTags
  BY <1>5 DEF ListResources, Search, Tokens, ListTags
<1>8. a.team # None => e \in ListResources(None, None, a.team) /\ a.team \in ListOwners
  BY <1>5 DEF ListResources, ListOwners
<1>9. a.name # None => e \in Search(BuildCatalog, {a.name})
  BY <1>5 DEF Search, Tokens, Given
<1>10. (\E p \in e.derived.producers : FinishedAt[p] # None) => LastUpdated(e) # None
  BY Dated DEF CatInv
<1> QED BY <1>5, <1>6, <1>7, <1>8, <1>9, <1>10 DEF a

LEMMA Agrees == CliAgrees
<1> SUFFICES ASSUME NEW r \in {x.fp : x \in catBinds}, NEW e \in CliShow(r)
             PROVE  /\ \E f \in GetResource(r) : f = EnrichSchema([e EXCEPT !.derived = f.derived])
                    /\ e \in CliList(None, None) /\ e \in CliSearch({e.name})
                    /\ \A t \in e.tags : e \in CliList(t, None)
  BY DEF CliAgrees
<1>1. e \in MergeCatalog(catBinds) /\ e.fp = r
  BY DEF CliShow
<1>2. e = BuildEntry(catBinds, r)
  BY <1>1 DEF MergeCatalog, BuildEntry
<1>3. r \in DOMAIN DiscoverResources(BuildLineageGraph)
  BY DEF DiscoverResources, BuildLineageGraph
<1> DEFINE g == BuildEntry(BuildLineageGraph, r)
<1>4. EnrichSchema(g) \in GetResource(r)
  <2>1. EnrichSchema(g) \in BuildCatalog
    BY <1>3 DEF BuildCatalog, MergeCatalog
  <2>2. EnrichSchema(g).fp = r
    BY DEF EnrichSchema, BuildEntry
  <2> QED BY <2>1, <2>2 DEF GetResource
<1>5. g = [e EXCEPT !.derived = g.derived]
  <2>1. PICK file, a : file = (IF LoadAnnotations(r) = {} THEN None ELSE AnnotationFile(r))
                       /\ a = (IF file = None THEN Blank(r) ELSE catFile[file])
    OBVIOUS
  <2>2. \A graph : BuildEntry(graph, r) =
           [fp |-> r, name |-> Given(a.name, r), team |-> a.team, tags |-> a.tags, file |-> file,
            cols |-> MergeColumns({}, a.cols), derived |-> DiscoverResources(graph)[r]]
    BY <2>1 DEF BuildEntry
  <2> QED BY <1>2, <2>2
<1>6. EnrichSchema(g).derived = g.derived
  BY DEF EnrichSchema, BuildEntry
<1>7. \E f \in GetResource(r) : f = EnrichSchema([e EXCEPT !.derived = f.derived])
  <2> HIDE DEF g
  <2> QED BY <1>4, <1>5, <1>6
<1>8. e \in CliList(None, None) /\ e \in CliSearch({e.name}) /\ \A t \in e.tags : e \in CliList(t, None)
  BY <1>1 DEF CliList, CliSearch, Search, Tokens
<1> QED BY <1>7, <1>8

(* What was written into the catalog survives updates of other fields,     *)
(* interruptions and restarts wherever writers kept apart, no annotation   *)
(* is ignored silently, and the API and the command line find and show     *)
(* what the files say.                                                     *)
THEOREM CatalogAnswersHold == CatSpec => []CatalogAnswers
<1>1. CatInv => CatalogAnswers
  <2>1. CatInv => AnnotationsSurvive
    <3> SUFFICES ASSUME CatInv, NEW p \in Paths \ catLoose, \A h \in Actors : p \notin OpPaths(h)
                 PROVE  catFile[p] = catKept[p]
      BY DEF AnnotationsSurvive
    <3>1. \A h \in Actors : ~Filling(h, p)
      BY OwnPath DEF Filling, AtStep
    <3> QED BY <3>1 DEF CatInv, KeptInv
  <2> QED BY <2>1, Ignored, Documented, Agrees DEF CatalogAnswers, CatInv
<1> QED BY <1>1, InitCat, StepCat, PTL DEF CatSpec

-----------------------------------------------------------------------------
(* Bindings: a pipeline that is worked on lags, and whoever works on it    *)
(* alone holds its definition and has stored all that is not left to store. *)
LineageTypes ==
  /\ def \in [Pipelines -> Definitions \cup {None, Gone}]
  /\ job \in [Handlers -> Jobs \cup {None}]
  /\ lagging \subseteq Pipelines

Stored(p, d) == {b \in bindings : b.pipe = p /\ b.env = d.env}

(* A pipeline that is worked on is behind; on the others nothing is.       *)
BehindInv == \A h \in Handlers : ~Idle(h) => job[h].pipe \in lagging

(* Who has a pipeline alone has its definition, and has stored what is not *)
(* left of its bindings.                                                   *)
Owns(h) ==
  LET p == job[h].pipe
      d == job[h].def
      step == job[h].step
      left == job[h].left
  IN /\ Busy(p) = {h}
     /\ IF step = "delete" THEN def[p] = Gone ELSE def[p] = d
     /\ step \in {"run", "clear"} => left = Bindings(p, d)
     /\ step = "insert" => Stored(p, d) = Bindings(p, d) \ left

AloneInv == \A h \in Handlers : ~Idle(h) /\ job[h].alone => Owns(h)

LeftInv ==
  \A h \in Handlers : ~Idle(h) => job[h].left \subseteq Bindings(job[h].pipe, job[h].def)

Settled(p) ==
  IF Exists(p) THEN Stored(p, def[p]) = Bindings(p, def[p]) ELSE \A b \in bindings : b.pipe # p

SettledInv == \A p \in Pipelines \ lagging : Settled(p)

LineageInv == LineageTypes /\ BehindInv /\ AloneInv /\ LeftInv /\ SettledInv

LEMMA BindingFields ==
  ASSUME NEW p, NEW d
  PROVE  /\ \A b \in Bindings(p, d) : b.pipe = p /\ b.env = d.env
         /\ \A b, c \in Bindings(p, d) : b.node = c.node => b = c
BY DEF Bindings, Binding

LEMMA InitLineage == Distinct /\ Init => LineageInv
BY DEF Init, Distinct, LineageInv, LineageTypes, BehindInv, AloneInv, LeftInv, SettledInv, Settled, Idle, Exists

(* Whoever takes a pipeline makes it lag; the others lose it. *)
LEMMA Takes ==
  ASSUME Distinct, LineageInv, NEW h \in Handlers, NEW p \in Pipelines, NEW d \in Definitions,
         NEW step \in {"run", "clear", "delete"}, Take(h, p, d, step),
         step = "delete" => def'[p] = Gone, step # "delete" => def'[p] = d,
         def' \in [Pipelines -> Definitions \cup {None, Gone}],
         \A q \in Pipelines \ {p} : def'[q] = def[q],
         bindings' = bindings
  PROVE  LineageInv'
<1> DEFINE j == [pipe |-> p, def |-> d, step |-> step, left |-> Bindings(p, d), alone |-> Busy(p) = {}]
<1>1. /\ lagging' = lagging \cup {p} /\ Idle(h)
      /\ job' = [g \in Handlers |-> IF g = h THEN j
                   ELSE IF g \in Busy(p) THEN [job[g] EXCEPT !.alone = FALSE] ELSE job[g]]
  BY DEF Take
<1>2. j \in Jobs
  BY DEF Jobs, AllBindings
<1>3. LineageTypes /\ \A g \in Handlers : ~Idle(g) <=> job[g] \in Jobs
  BY DEF LineageInv, LineageTypes, Idle, Distinct
<1>4. \A g \in Busy(p) : job[g] \in Jobs /\ [job[g] EXCEPT !.alone = FALSE] \in Jobs
  <2> SUFFICES ASSUME NEW g \in Busy(p) PROVE job[g] \in Jobs /\ [job[g] EXCEPT !.alone = FALSE] \in Jobs
    OBVIOUS
  <2>1. job[g] \in Jobs
    BY <1>3 DEF Busy
  <2> QED BY <2>1 DEF Jobs
<1>5. LineageTypes'
  <2>1. job' \in [Handlers -> Jobs \cup {None}]
    BY <1>1, <1>2, <1>3, <1>4 DEF LineageTypes
  <2> QED BY <1>1, <1>3, <2>1 DEF LineageTypes
<1>6. /\ job'[h] = j /\ ~Idle(h)'
      /\ \A g \in Handlers \ {h} :
           /\ Idle(g)' <=> Idle(g)
           /\ ~Idle(g) => /\ job'[g].pipe = job[g].pipe /\ job'[g].def = job[g].def
                          /\ job'[g].step = job[g].step /\ job'[g].left = job[g].left
                          /\ job'[g].alone => job[g].alone /\ job[g].pipe # p
  <2>1. job'[h] = j /\ ~Idle(h)'
    BY <1>1, <1>2 DEF Idle, Distinct
  <2>2. ASSUME NEW g \in Handlers \ {h}, g \in Busy(p)
        PROVE  /\ ~Idle(g)' /\ ~Idle(g)
               /\ job'[g].pipe = job[g].pipe /\ job'[g].def = job[g].def
               /\ job'[g].step = job[g].step /\ job'[g].left = job[g].left
               /\ ~job'[g].alone
    <3>1. job'[g] = [job[g] EXCEPT !.alone = FALSE] /\ job[g] \in Jobs /\ job'[g] \in Jobs
      BY <1>1, <1>4, <2>2
    <3>2. ~Idle(g) /\ ~Idle(g)'
      BY <2>2, <3>1 DEF Busy, Idle, Distinct
    <3> QED BY <3>1, <3>2 DEF Jobs
  <2>3. ASSUME NEW g \in Handlers \ {h}, g \notin Busy(p)
        PROVE  job'[g] = job[g] /\ (~Idle(g) => job[g].pipe # p)
    BY <1>1, <2>3 DEF Busy
  <2> QED BY <2>1, <2>2, <2>3 DEF Idle
<1>7. /\ \A q \in Pipelines \ {p} : Busy(q)' = Busy(q)
      /\ Busy(p)' = Busy(p) \cup {h}
  BY <1>1, <1>6 DEF Busy
<1>8. BehindInv'
  BY <1>1, <1>6 DEF LineageInv, BehindInv
<1>9. LeftInv'
  BY <1>6 DEF LineageInv, LeftInv
<1>10. AloneInv'
  <2>1. job'[h].alone => Owns(h)'
    <3>0. job'[h].alone = (Busy(p) = {})
      BY <1>6
    <3> SUFFICES ASSUME Busy(p) = {} PROVE Owns(h)'
      BY <3>0
    <3>1. Busy(p)' = {h}
      BY <1>7
    <3>2. /\ job'[h].pipe = p /\ job'[h].def = d /\ job'[h].step = step
          /\ job'[h].left = Bindings(p, d)
      BY <1>6
    <3> QED BY <3>1, <3>2 DEF Owns
  <2>2. ASSUME NEW g \in Handlers \ {h}, ~Idle(g)', job'[g].alone
        PROVE  Owns(g)'
    <3>1. /\ ~Idle(g) /\ job[g].alone /\ job[g].pipe # p /\ job[g].pipe \in Pipelines
          /\ job'[g].pipe = job[g].pipe /\ job'[g].def = job[g].def
          /\ job'[g].step = job[g].step /\ job'[g].left = job[g].left
      BY <2>2, <1>3, <1>6 DEF Jobs
    <3>2. Owns(g)
      BY <3>1 DEF LineageInv, AloneInv
    <3>3. /\ Busy(job[g].pipe)' = Busy(job[g].pipe) /\ def'[job[g].pipe] = def[job[g].pipe]
      BY <3>1, <1>7
    <3> QED BY <3>1, <3>2, <3>3 DEF Owns, Stored, Bindings, Binding
  <2> QED BY <2>1, <2>2 DEF AloneInv
<1>11. SettledInv'
  BY <1>1 DEF LineageInv, SettledInv, Settled, Stored, Exists
<1> QED BY <1>5, <1>8, <1>9, <1>10, <1>11 DEF LineageInv

(* One handler goes a step further in its job; def stays. *)
LEMMA JobGoesOn ==
  ASSUME Distinct, LineageInv, NEW h \in Handlers, ~Idle(h), NEW j \in Jobs,
         j.pipe = job[h].pipe, j.def = job[h].def, j.alone = job[h].alone,
         j.left \subseteq Bindings(j.pipe, j.def),
         job' = [job EXCEPT ![h] = j], UNCHANGED <<def, lagging>>,
         \A b : b.pipe # j.pipe => (b \in bindings' <=> b \in bindings),
         j.alone => Owns(h)'
  PROVE  LineageInv'
<1>1. LineageTypes /\ LineageTypes'
  BY DEF LineageInv, LineageTypes
<1>2. job'[h] = j /\ (~Idle(h))' /\ \A g \in Handlers \ {h} : job'[g] = job[g]
  BY <1>1 DEF LineageTypes, Idle, Distinct
<1>3. \A q : Busy(q)' = Busy(q)
  BY <1>2 DEF Busy, Idle
<1>4. BehindInv' /\ LeftInv'
  BY <1>2 DEF LineageInv, BehindInv, LeftInv, Idle
<1>5. j.pipe \in lagging
  BY DEF LineageInv, BehindInv
<1>6. ASSUME NEW g \in Handlers \ {h}, ~Idle(g)', job'[g].alone
      PROVE  Owns(g)'
  <2>1. job'[g] = job[g] /\ Owns(g)
    BY <1>2, <1>6 DEF LineageInv, AloneInv, Idle
  <2>2. job[g].pipe # j.pipe
    <3>1. h \in Busy(j.pipe)
      BY DEF Busy
    <3> QED BY <3>1, <2>1 DEF Owns
  <2>3. Stored(job[g].pipe, job[g].def)' = Stored(job[g].pipe, job[g].def)
    BY <2>1, <2>2 DEF Stored
  <2> QED BY <2>1, <2>3, <1>3 DEF Owns
<1>7. AloneInv'
  BY <1>2, <1>6 DEF AloneInv
<1>8. SettledInv'
  <2> SUFFICES ASSUME NEW p \in Pipelines \ lagging PROVE Settled(p)'
    BY DEF SettledInv
  <2>1. \A b : b.pipe = p => (b \in bindings' <=> b \in bindings)
    BY <1>5
  <2>2. Settled(p)
    BY DEF LineageInv, SettledInv
  <2> QED BY <2>1, <2>2 DEF Settled, Stored, Exists
<1> QED BY <1>1, <1>4, <1>7, <1>8 DEF LineageInv

(* A job ends; who was alone has settled the bindings. *)
LEMMA JobEnds ==
  ASSUME Distinct, LineageInv, NEW h \in Handlers, ~Idle(h), NEW own, own = job[h].pipe,
         job' = [job EXCEPT ![h] = None], def' = def,
         lagging' = lagging \/ (lagging' = lagging \ {own} /\ job[h].alone),
         \A b : b.pipe # own => (b \in bindings' <=> b \in bindings),
         own \notin lagging' => Settled(own)'
  PROVE  LineageInv'
<1>1. LineageTypes /\ LineageTypes'
  BY DEF LineageInv, LineageTypes
<1>2. Idle(h)' /\ \A g \in Handlers \ {h} : job'[g] = job[g]
  BY <1>1 DEF LineageTypes, Idle
<1>3. \A q : q # job[h].pipe => Busy(q)' = Busy(q)
  BY <1>2 DEF Busy, Idle
<1>4. h \in Busy(job[h].pipe)
  BY DEF Busy
<1>5. ASSUME NEW g \in Handlers \ {h}, job[g].pipe = job[h].pipe, ~Idle(g)
      PROVE  ~job[g].alone /\ ~job[h].alone
  <2>1. g \in Busy(job[h].pipe)
    BY <1>5 DEF Busy
  <2> QED BY <2>1, <1>4, <1>5 DEF LineageInv, AloneInv, Owns
<1>6. BehindInv' /\ LeftInv'
  BY <1>2, <1>5 DEF LineageInv, BehindInv, LeftInv, Idle
<1>7. ASSUME NEW g \in Handlers \ {h}, ~Idle(g)', job'[g].alone
      PROVE  Owns(g)'
  <2>1. job'[g] = job[g] /\ Owns(g) /\ ~Idle(g)
    BY <1>2, <1>7 DEF LineageInv, AloneInv, Idle
  <2>2. job[g].pipe # job[h].pipe
    BY <1>2, <1>5, <1>7, <2>1
  <2>3. Stored(job[g].pipe, job[g].def)' = Stored(job[g].pipe, job[g].def)
    BY <2>1, <2>2 DEF Stored
  <2> QED BY <2>1, <2>2, <2>3, <1>3 DEF Owns
<1>8. AloneInv'
  BY <1>2, <1>7 DEF AloneInv
<1>9. SettledInv'
  <2> SUFFICES ASSUME NEW p \in Pipelines \ lagging' PROVE Settled(p)'
    BY DEF SettledInv
  <2>1. CASE p = own
    BY <2>1
  <2>2. CASE p # own
    <3>1. p \notin lagging /\ Settled(p)
      BY <2>2 DEF LineageInv, SettledInv
    <3>2. \A c : c.pipe = p => (c \in bindings' <=> c \in bindings)
      BY <2>2
    <3> QED BY <3>1, <3>2 DEF Settled, Stored, Exists
  <2> QED BY <2>1, <2>2
<1> QED BY <1>1, <1>6, <1>8, <1>9 DEF LineageInv

LEMMA PutStep ==
  ASSUME Distinct, LineageInv, NEW h \in Handlers, NEW p \in Pipelines, NEW d \in Definitions,
         PutPipeline(h, p, d)
  PROVE  LineageInv'
<1>1. Take(h, p, d, "clear") /\ def' = [def EXCEPT ![p] = d] /\ bindings' = bindings
  BY DEF PutPipeline
<1>2. LineageTypes
  BY DEF LineageInv
<1>3. /\ def' \in [Pipelines -> Definitions \cup {None, Gone}] /\ def'[p] = d
      /\ \A q \in Pipelines \ {p} : def'[q] = def[q]
  BY <1>1, <1>2 DEF LineageTypes
<1> QED BY <1>1, <1>3, Takes

LEMMA StartRunStep ==
  ASSUME Distinct, LineageInv, NEW h \in Handlers, NEW p \in Pipelines, StartRun(h, p)
  PROVE  LineageInv'
<1>1. Take(h, p, def[p], "run") /\ def' = def /\ bindings' = bindings /\ def[p] \in Definitions
  BY DEF StartRun, Exists
<1>2. def' \in [Pipelines -> Definitions \cup {None, Gone}]
  BY <1>1 DEF LineageInv, LineageTypes
<1> QED BY <1>1, <1>2, Takes

LEMMA DeletePipelineStep ==
  ASSUME Distinct, LineageInv, NEW h \in Handlers, NEW p \in Pipelines, DeletePipeline(h, p)
  PROVE  LineageInv'
<1>1. /\ Take(h, p, def[p], "delete") /\ def' = [def EXCEPT ![p] = Gone] /\ bindings' = bindings
      /\ def[p] \in Definitions
  BY DEF DeletePipeline, Exists
<1>2. LineageTypes
  BY DEF LineageInv
<1>3. /\ def' \in [Pipelines -> Definitions \cup {None, Gone}] /\ def'[p] = Gone
      /\ \A q \in Pipelines \ {p} : def'[q] = def[q]
  BY <1>1, <1>2 DEF LineageTypes
<1> QED BY <1>1, <1>3, Takes

(* A restored version takes the pipeline from whoever has it.              *)
LEMMA RestoreStep ==
  ASSUME Distinct, LineageInv, NEW p \in Pipelines, NEW d \in Definitions, RestoreVersion(p, d)
  PROVE  LineageInv'
<1>1. /\ def' = [def EXCEPT ![p] = d] /\ lagging' = lagging \cup {p} /\ bindings' = bindings
      /\ job' = [g \in Handlers |-> IF g \in Busy(p) THEN [job[g] EXCEPT !.alone = FALSE] ELSE job[g]]
  BY DEF RestoreVersion
<1>2. LineageTypes /\ \A g \in Handlers : ~Idle(g) <=> job[g] \in Jobs
  BY DEF LineageInv, LineageTypes, Idle, Distinct
<1>3. \A g \in Handlers :
        /\ job'[g] \in Jobs \cup {None} /\ (Idle(g)' <=> Idle(g))
        /\ ~Idle(g) => /\ job'[g].pipe = job[g].pipe /\ job'[g].left = job[g].left
                       /\ job'[g].def = job[g].def
                       /\ job'[g].alone => job'[g] = job[g] /\ job[g].pipe # p
  <2>1. ASSUME NEW g \in Handlers, g \in Busy(p)
        PROVE  /\ job[g] \in Jobs /\ job'[g] \in Jobs /\ job'[g].pipe = job[g].pipe
               /\ job'[g].left = job[g].left /\ job'[g].def = job[g].def /\ ~job'[g].alone
    <3>1. job[g] \in Jobs
      BY <1>2, <2>1 DEF Busy
    <3>2. job'[g] = [job[g] EXCEPT !.alone = FALSE]
      BY <1>1, <2>1
    <3> QED BY <3>1, <3>2 DEF Jobs
  <2>2. ASSUME NEW g \in Handlers, g \notin Busy(p)
        PROVE  job'[g] = job[g] /\ (~Idle(g) => job[g].pipe # p)
    BY <1>1, <2>2 DEF Busy
  <2> QED BY <1>2, <2>1, <2>2 DEF LineageTypes, Idle, Distinct
<1>4. \A q : Busy(q)' = Busy(q)
  BY <1>3 DEF Busy
<1>5. LineageTypes'
  <2>1. job' \in [Handlers -> Jobs \cup {None}]
    BY <1>1, <1>3
  <2> QED BY <1>1, <1>2, <2>1 DEF LineageTypes
<1>6. BehindInv' /\ LeftInv'
  <2> SUFFICES ASSUME NEW g \in Handlers, ~Idle(g)
               PROVE  /\ job'[g].pipe \in lagging'
                      /\ job'[g].left \subseteq Bindings(job'[g].pipe, job'[g].def)
    BY <1>3 DEF BehindInv, LeftInv
  <2>1. job[g].pipe \in lagging /\ job[g].left \subseteq Bindings(job[g].pipe, job[g].def)
    BY DEF LineageInv, BehindInv, LeftInv
  <2> QED BY <1>1, <1>3, <2>1
<1>7. ASSUME NEW g \in Handlers, ~Idle(g)', job'[g].alone
      PROVE  Owns(g)'
  <2>1. job'[g] = job[g] /\ job[g].pipe # p /\ Owns(g) /\ job[g].pipe \in Pipelines
    BY <1>2, <1>3, <1>7 DEF LineageInv, AloneInv, Jobs
  <2>2. def'[job[g].pipe] = def[job[g].pipe]
    BY <1>1, <1>2, <2>1 DEF LineageTypes
  <2> QED BY <1>1, <1>4, <2>1, <2>2 DEF Owns, Stored
<1>8. AloneInv'
  BY <1>7 DEF AloneInv
<1>9. SettledInv'
  <2>1. \A q \in Pipelines \ lagging' : q \notin lagging /\ def'[q] = def[q]
    BY <1>1, <1>2 DEF LineageTypes
  <2> QED BY <1>1, <2>1 DEF LineageInv, SettledInv, Settled, Stored, Exists
<1> QED BY <1>5, <1>6, <1>8, <1>9 DEF LineageInv

LEMMA DieStep == Distinct /\ LineageInv /\ Die => LineageInv'
<1> SUFFICES ASSUME Distinct, LineageInv, Die PROVE LineageInv'
  OBVIOUS
<1>1. /\ job' = [h \in Handlers |-> None] /\ UNCHANGED <<def, lagging>>
      /\ \A p \in Pipelines \ lagging : \A b : b.pipe = p => (b \in bindings' <=> b \in bindings)
  <2>1. ASSUME NEW h \in Handlers, ~Idle(h), NEW part \in SUBSET job[h].left,
               bindings' = Cleared(job[h].pipe, job[h].def) \cup part
        PROVE  \A b : b.pipe # job[h].pipe => (b \in bindings' <=> b \in bindings)
    BY <2>1, BindingFields DEF LineageInv, LeftInv, Cleared
  <2>2. \A h \in Handlers : ~Idle(h) => job[h].pipe \in lagging
    BY DEF LineageInv, BehindInv
  <2> QED BY <2>1, <2>2 DEF Die
<1>2. \A h \in Handlers : Idle(h)'
  BY <1>1 DEF Idle
<1>3. LineageTypes' /\ BehindInv' /\ AloneInv' /\ LeftInv'
  BY <1>1, <1>2 DEF LineageInv, LineageTypes, BehindInv, AloneInv, LeftInv
<1>4. SettledInv'
  <2> SUFFICES ASSUME NEW p \in Pipelines \ lagging PROVE Settled(p)'
    BY <1>1 DEF SettledInv
  <2>1. \A b : b.pipe = p => (b \in bindings' <=> b \in bindings)
    BY <1>1
  <2>2. Settled(p)
    BY DEF LineageInv, SettledInv
  <2> QED BY <1>1, <2>1, <2>2 DEF Settled, Stored, Exists
<1> QED BY <1>3, <1>4 DEF LineageInv

(* What a handler at work is, and that its pipeline is behind. *)
LEMMA AtWork ==
  ASSUME Distinct, LineageInv, NEW h \in Handlers, ~Idle(h)
  PROVE  /\ job[h] \in Jobs /\ job[h].pipe \in Pipelines /\ job[h].def \in Definitions
         /\ job[h].left \subseteq Bindings(job[h].pipe, job[h].def)
         /\ job[h].pipe \in lagging /\ job[h].alone \in BOOLEAN
         /\ job[h].alone => Owns(h)
BY DEF LineageInv, LineageTypes, Idle, Distinct, Jobs, LeftInv, BehindInv, AloneInv

LEMMA RunSteps ==
  ASSUME Distinct, LineageInv, NEW h \in Handlers,
         RecordObservation(h) \/ EndRun(h) \/ FailRun(h) \/ ClearBindings(h)
  PROVE  LineageInv'
<1>0. ~Idle(h)
  BY DEF RecordObservation, EndRun, FailRun, ClearBindings
<1> USE <1>0
<1> DEFINE p == job[h].pipe
           d == job[h].def
<1>1. /\ job[h] \in Jobs /\ p \in lagging /\ job[h].left \subseteq Bindings(p, d)
      /\ job[h].alone => Owns(h)
  BY AtWork
<1>2. CASE RecordObservation(h)
  BY <1>2 DEF RecordObservation, LineageInv, LineageTypes, BehindInv, AloneInv, Owns, LeftInv, Busy, Idle, Stored,
    SettledInv, Settled, Exists
<1>3. CASE FailRun(h)
  <2>1. job' = [job EXCEPT ![h] = None] /\ UNCHANGED <<def, bindings, lagging>>
    BY <1>3 DEF FailRun
  <2>2. PICK own : own = job[h].pipe
    OBVIOUS
  <2> QED BY <1>1, <2>1, <2>2, JobEnds
<1>4. CASE EndRun(h)
  <2> DEFINE j == [job[h] EXCEPT !.step = "clear"]
  <2>1. /\ job' = [job EXCEPT ![h] = j] /\ job[h].step = "run" /\ UNCHANGED <<def, lagging, bindings>>
    BY <1>4 DEF EndRun
  <2>2. /\ j \in Jobs /\ j.pipe = p /\ j.def = d /\ j.alone = job[h].alone /\ j.left = job[h].left
        /\ j.step = "clear"
    BY <1>1 DEF Jobs
  <2>3. j.alone => Owns(h)'
    <3>1. job'[h] = j /\ (Busy(p)' = Busy(p))
      BY <2>1, <2>2 DEF LineageInv, LineageTypes, Busy, Idle, Distinct
    <3> QED BY <1>1, <2>1, <2>2, <3>1 DEF Owns
  <2> HIDE DEF j
  <2> QED BY <1>1, <2>1, <2>2, <2>3, JobGoesOn
<1>5. CASE ClearBindings(h)
  <2> DEFINE j == [job[h] EXCEPT !.step = "insert"]
  <2>1. /\ job' = [job EXCEPT ![h] = j] /\ job[h].step = "clear" /\ UNCHANGED <<def, lagging>>
        /\ bindings' = Cleared(p, d)
    BY <1>5 DEF ClearBindings
  <2>2. /\ j \in Jobs /\ j.pipe = p /\ j.def = d /\ j.alone = job[h].alone /\ j.left = job[h].left
        /\ j.step = "insert"
    BY <1>1 DEF Jobs
  <2>3. j.alone => Owns(h)'
    <3>1. job'[h] = j /\ (Busy(p)' = Busy(p))
      BY <2>1, <2>2 DEF LineageInv, LineageTypes, Busy, Idle, Distinct
    <3>2. Stored(p, d)' = {}
      BY <2>1 DEF Stored, Cleared
    <3>3. j.alone => j.left = Bindings(p, d)
      BY <1>1, <2>1, <2>2 DEF Owns
    <3>4. j.alone => Stored(p, d)' = Bindings(p, d) \ j.left
      BY <3>2, <3>3
    <3> QED BY <1>1, <2>1, <2>2, <3>1, <3>4 DEF Owns
  <2>4. \A b : b.pipe # p => (b \in bindings' <=> b \in bindings)
    BY <2>1 DEF Cleared
  <2> HIDE DEF j
  <2> QED BY <1>1, <2>1, <2>2, <2>3, <2>4, JobGoesOn
<1> QED BY <1>2, <1>3, <1>4, <1>5

LEMMA SaveSteps ==
  ASSUME Distinct, LineageInv, NEW h \in Handlers,
         DeleteBindings(h) \/ SaveBindings(h) \/ EndSave(h)
  PROVE  LineageInv'
<1>0. ~Idle(h)
  BY DEF DeleteBindings, SaveBindings, EndSave
<1> USE <1>0
<1>p. PICK p, d : p = job[h].pipe /\ d = job[h].def
  OBVIOUS
<1> USE <1>p
<1>1. /\ job[h] \in Jobs /\ p \in lagging /\ job[h].left \subseteq Bindings(p, d)
      /\ p \in Pipelines /\ d \in Definitions
      /\ job[h].alone => Owns(h)
  BY AtWork
<1>2. /\ job' = [job EXCEPT ![h] = None] /\ def' = def
      /\ lagging' = lagging \/ (lagging' = lagging \ {p} /\ job[h].alone)
      /\ p \notin lagging' => job[h].alone
  BY <1>1 DEF DeleteBindings, SaveBindings, EndSave, Done
<1>3. \A b : b.pipe # p => (b \in bindings' <=> b \in bindings)
  <2>1. CASE DeleteBindings(h)
    BY <2>1 DEF DeleteBindings
  <2>2. CASE SaveBindings(h)
    <3>1. bindings' = Cleared(p, d) \cup job[h].left
      BY <2>2 DEF SaveBindings
    <3> QED BY <1>1, <3>1, BindingFields DEF Cleared
  <2>3. CASE EndSave(h)
    BY <2>3 DEF EndSave
  <2> QED BY <2>1, <2>2, <2>3
<1>4. ASSUME job[h].alone, Exists(p), job[h].step # "delete", Stored(p, d)' = Bindings(p, d)
      PROVE  Settled(p)'
  BY <1>1, <1>2, <1>4 DEF Owns, Settled, Stored, Exists
<1>5. job[h].alone => Settled(p)'
  <2> SUFFICES ASSUME job[h].alone PROVE Settled(p)'
    OBVIOUS
  <2>1. CASE DeleteBindings(h)
    <3>1. bindings' = {b \in bindings : b.pipe # p} /\ job[h].step = "delete"
      BY <2>1 DEF DeleteBindings
    <3>2. ~Exists(p)'
      BY <1>1, <1>2, <3>1 DEF Owns, Exists, Distinct
    <3>3. ~\E b \in bindings' : b.pipe = p
      BY <3>1
    <3> QED BY <3>2, <3>3 DEF Settled
  <2>2. CASE SaveBindings(h)
    <3>1. bindings' = Cleared(p, d) \cup job[h].left /\ job[h].step = "clear"
      BY <2>2 DEF SaveBindings
    <3>2. def[p] = d /\ Exists(p) /\ job[h].left = Bindings(p, d)
      BY <1>1, <3>1 DEF Owns, Exists
    <3>3. Stored(p, d)' = Bindings(p, d)
      BY <3>1, <3>2, BindingFields DEF Cleared, Stored
    <3> QED BY <1>4, <3>1, <3>2, <3>3
  <2>3. CASE EndSave(h)
    <3>1. bindings' = bindings /\ job[h].step = "insert" /\ job[h].left = {}
      BY <2>3 DEF EndSave
    <3>2. def[p] = d /\ Exists(p) /\ Stored(p, d) = Bindings(p, d)
      BY <1>1, <3>1 DEF Owns, Exists
    <3> QED BY <1>4, <3>1, <3>2 DEF Stored
  <2> QED BY <2>1, <2>2, <2>3
<1> QED BY <1>1, <1>2, <1>3, <1>5, JobEnds

(* Alone on a pipeline, an INSERT meets no other row. *)
LEMMA InsertStep ==
  ASSUME Distinct, LineageInv, NEW h \in Handlers, InsertBinding(h)
  PROVE  LineageInv'
<1>0. ~Idle(h) /\ job[h].step = "insert" /\ def' = def
  BY DEF InsertBinding
<1> USE <1>0
<1> DEFINE p == job[h].pipe
           d == job[h].def
<1>1. /\ job[h] \in Jobs /\ p \in lagging /\ job[h].left \subseteq Bindings(p, d)
      /\ p \in Pipelines /\ d \in Definitions
      /\ job[h].alone => Owns(h)
  BY AtWork
<1>2. PICK b \in job[h].left :
        \/ /\ bindings' = bindings \cup {b} /\ lagging' = lagging
           /\ job' = [job EXCEPT ![h].left = @ \ {b}]
        \/ Conflicts(b) /\ Done(h) /\ bindings' = bindings
  BY DEF InsertBinding
<1>3. b \in Bindings(p, d) /\ b.pipe = p /\ b.env = d.env
  BY <1>1, BindingFields
<1>4. CASE /\ bindings' = bindings \cup {b} /\ lagging' = lagging
           /\ job' = [job EXCEPT ![h].left = @ \ {b}]
  <2> DEFINE j == [job[h] EXCEPT !.left = @ \ {b}]
  <2>1. job' = [job EXCEPT ![h] = j]
    BY <1>4
  <2>2. /\ j \in Jobs /\ j.pipe = p /\ j.def = d /\ j.alone = job[h].alone
        /\ j.left = job[h].left \ {b} /\ j.step = "insert"
    BY <1>1 DEF Jobs
  <2>3. j.alone => Owns(h)'
    <3>1. job'[h] = j /\ (Busy(p)' = Busy(p))
      BY <2>1, <2>2 DEF LineageInv, LineageTypes, Busy, Idle, Distinct
    <3>2. Stored(p, d)' = Stored(p, d) \cup {b}
      BY <1>3, <1>4 DEF Stored
    <3>3. j.alone => Stored(p, d)' = Bindings(p, d) \ j.left
      BY <1>1, <1>2, <1>3, <2>2, <3>2 DEF Owns
    <3> QED BY <1>1, <2>2, <3>1, <3>3 DEF Owns
  <2>4. \A c : c.pipe # p => (c \in bindings' <=> c \in bindings)
    BY <1>3, <1>4
  <2> HIDE DEF j
  <2> QED BY <1>1, <1>4, <2>1, <2>2, <2>3, <2>4, JobGoesOn
<1>5. CASE Conflicts(b) /\ Done(h) /\ bindings' = bindings
  <2>1. ~job[h].alone
    <3> SUFFICES ASSUME job[h].alone PROVE FALSE
      OBVIOUS
    <3>1. PICK c \in bindings : c.pipe = p /\ c.node = b.node /\ c.env = d.env
      BY <1>3, <1>5 DEF Conflicts
    <3>2. c \in Bindings(p, d) \ job[h].left
      BY <1>1, <3>1 DEF Owns, Stored
    <3> QED BY <1>2, <1>3, <3>1, <3>2, BindingFields
  <2>2. job' = [job EXCEPT ![h] = None] /\ lagging' = lagging
    BY <1>5, <2>1 DEF Done
  <2>3. PICK own : own = job[h].pipe
    OBVIOUS
  <2> QED BY <1>1, <1>5, <2>2, <2>3, JobEnds
<1> QED BY <1>2, <1>4, <1>5

(* Where a refresh was not overlapped and ended, the bindings kept are     *)
(* those of the pipeline's definition, for any pipelines, definitions,     *)
(* handlers and requests, whichever store keeps them.                      *)
THEOREM BindingsHold == Distinct => (LineageSpec => []BindingsSettle)
<1> SUFFICES ASSUME Distinct PROVE LineageSpec => []BindingsSettle
  OBVIOUS
<1>1. Init => LineageInv
  BY InitLineage
<1>2. LineageInv /\ [Next]_lineageVars => LineageInv'
  <2> SUFFICES ASSUME LineageInv, [Next]_lineageVars PROVE LineageInv'
    OBVIOUS
  <2>1. CASE UNCHANGED lineageVars
    BY <2>1 DEF lineageVars, LineageInv, LineageTypes, BehindInv, AloneInv, Owns, LeftInv, Busy, Idle, Stored,
      SettledInv, Settled, Exists
  <2>2. ASSUME NEW h \in Handlers, Continue(h) PROVE LineageInv'
    BY <2>2, RunSteps, SaveSteps, InsertStep DEF Continue
  <2>3. ASSUME NEW h \in Handlers, NEW p \in Pipelines, Serve(h, p) PROVE LineageInv'
    BY <2>3, PutStep, StartRunStep, DeletePipelineStep DEF Serve
  <2>4. ASSUME NEW p \in Pipelines, NEW d \in Definitions, RestoreVersion(p, d) PROVE LineageInv'
    BY <2>4, RestoreStep
  <2>5. CASE Die
    BY <2>5, DieStep
  <2> QED BY <2>1, <2>2, <2>3, <2>4, <2>5 DEF Next
<1>3. LineageInv => BindingsSettle
  BY DEF LineageInv, SettledInv, Settled, Stored, BindingsSettle
<1> QED BY <1>1, <1>2, <1>3, PTL DEF LineageSpec

-----------------------------------------------------------------------------
(* Column edges: what a save in progress has left to insert is what its    *)
(* node still lacks, and a pipeline that is not given up has one run at    *)
(* work on it.                                                             *)
ColumnTypes ==
  /\ colRun \in [Runs -> ColumnRuns \cup {None}]
  /\ DOMAIN colSaved = Pipes \X Nodes

SoleRun ==
  \A q, r \in Runs : Underway(q) /\ Underway(r) /\ colRun[q].pipe = colRun[r].pipe =>
    q = r \/ colRun[r].pipe \in colLoose

InSave(r) == Underway(r) /\ colRun[r].left # None

LeftOver == \A r \in Runs : InSave(r) => colRun[r].left \subseteq Saving(r)

Half(p, n, left, save) ==
  RowsOf(p, n) = IF save = {} THEN colSaved[<<p, n>>] ELSE save \ left

HalfSaved ==
  \A r \in Runs : InSave(r) /\ colRun[r].pipe \notin colLoose =>
    Half(colRun[r].pipe, colRun[r].node, colRun[r].left, Saving(r))

ColumnInv == ColumnTypes /\ SoleRun /\ LeftOver /\ HalfSaved /\ RowsOfOneSave

(* Every row of a save is of its node. *)
LEMMA SavedRows ==
  ASSUME ColumnsDistinct, ColumnInv, NEW r \in Runs, Underway(r)
  PROVE  /\ colRun[r] \in ColumnRuns /\ colRun[r].pipe \in Pipes /\ colRun[r].node \in Nodes
         /\ Saving(r) \subseteq EdgeRows /\ \A left \in SUBSET Saving(r) : left # None
         /\ \A x \in Saving(r) : x.pipe = colRun[r].pipe /\ x.node = colRun[r].node
<1> DEFINE run == colRun[r]
           bare == [pipe |-> run.pipe, cols |-> run.cols, mode |-> run.mode, notes |-> run.notes, node |-> run.node]
<1>1. run \in ColumnRuns /\ run.pipe \in Pipes /\ run.node \in Nodes
  BY DEF ColumnInv, ColumnTypes, Underway, ColumnRuns
<1>2. EdgesOf(run, run.node) = EdgesOf(bare, bare.node)
  BY DEF EdgesOf
<1>3. Saving(r) = Marked(r, bare)
  BY <1>2 DEF Saving, Marked
<1>4. bare \in AtNode
  BY <1>1 DEF ColumnRuns, AtNode
<1>5. Saving(r) \subseteq EdgeRows /\ \A left \in SUBSET Saving(r) : left # None
  BY <1>3, <1>4 DEF EdgeRows, ColumnsDistinct
<1>6. \A e \in EdgesOf(run, run.node) : "node" \in DOMAIN e /\ e.node = run.node
  <2>1. CASE run.node = "in"
    BY <2>1 DEF EdgesOf, Boundary, SourceBoundary, Edge
  <2>2. CASE run.node = "fn"
    BY <2>2 DEF EdgesOf, Derived, AnnotatedEdges, Exact, Opaque, Edge
  <2>3. CASE run.node = "out"
    BY <2>3 DEF EdgesOf, Boundary, SinkBoundary, Edge
  <2> QED BY <1>1, <2>1, <2>2, <2>3 DEF Nodes
<1>7. \A x \in Saving(r) : x.pipe = run.pipe /\ x.node = run.node
  BY <1>6 DEF Saving, Marked
<1> QED BY <1>1, <1>5, <1>7

LEMMA InitColumns == ColumnInit => ColumnInv
BY DEF ColumnInit, ColumnInv, ColumnTypes, SoleRun, LeftOver, HalfSaved, InSave, Underway, RowsOfOneSave, RowsOf

(* A run goes on to a node, with rows left to insert; the rows of the others stay. *)
Moved(run, node, left) == [run EXCEPT !.node = node, !.left = left]

Moves(r, node, left) ==
  /\ colRun' \in [Runs -> ColumnRuns \cup {None}] /\ \A q \in Runs \ {r} : colRun'[q] = colRun[q]
  /\ colRun'[r].pipe = colRun[r].pipe /\ colRun'[r].cols = colRun[r].cols
  /\ colRun'[r].mode = colRun[r].mode /\ colRun'[r].notes = colRun[r].notes
  /\ colRun'[r].node = node /\ colRun'[r].left = left /\ colRun'[r] # None

OtherRowsStay(p, n) ==
  \A y \in Pipes \X Nodes : y # <<p, n>> => RowsOf(y[1], y[2])' = RowsOf(y[1], y[2])

OtherSavesStay(p, n) == \A y \in Pipes \X Nodes : y # <<p, n>> => colSaved'[y] = colSaved[y]

(* What a step of run r changes of the rows and of its own place.          *)
LEMMA OwnStep ==
  ASSUME ColumnsDistinct, ColumnInv, NEW r \in Runs, Underway(r),
         NEW p, p = colRun[r].pipe, NEW n, n = colRun[r].node, NEW save, save = Saving(r),
         NEW node, NEW left, Moves(r, node, left),
         colLoose \subseteq colLoose', colLoose' \subseteq colLoose \cup {p},
         DOMAIN colSaved' = Pipes \X Nodes,
         OtherRowsStay(p, n), OtherSavesStay(p, n),
         IF left # None
         THEN node = n /\ left \subseteq save /\ (p \notin colLoose' => Half(p, n, left, save)')
         ELSE p \notin colLoose' => RowsOf(p, n)' = colSaved'[<<p, n>>]
  PROVE  ColumnInv'
<1>1. /\ p \in Pipes /\ n \in Nodes
      /\ \A q \in Runs \ {r} : (Underway(q)' <=> Underway(q)) /\ (InSave(q)' <=> InSave(q)) /\ Saving(q)' = Saving(q)
  BY SavedRows DEF Underway, InSave, Saving, Moves
<1>2. ColumnTypes'
  BY DEF ColumnTypes, Moves
<1>3. SoleRun'
  <2> SUFFICES ASSUME NEW q \in Runs, NEW s \in Runs, Underway(q)', Underway(s)',
                      colRun'[q].pipe = colRun'[s].pipe, colRun'[s].pipe \notin colLoose'
               PROVE  q = s
    BY DEF SoleRun
  <2>1. Underway(q) /\ Underway(s) /\ colRun[q].pipe = colRun[s].pipe /\ colRun[s].pipe \notin colLoose
    BY <1>1 DEF Moves
  <2> QED BY <2>1 DEF ColumnInv, SoleRun
<1>4. \A q \in Runs \ {r} : Underway(q) /\ colRun[q].pipe = p => p \in colLoose
  BY DEF ColumnInv, SoleRun
<1>5. InSave(r)' => left # None /\ Saving(r)' = save
  <2> SUFFICES ASSUME InSave(r)' PROVE left # None /\ Saving(r)' = save
    OBVIOUS
  <2>1. left # None /\ colRun'[r].node = n
    BY DEF InSave, Moves
  <2>2. EdgesOf(colRun'[r], n) = EdgesOf(colRun[r], n)
    BY DEF EdgesOf, Moves
  <2> QED BY <2>1, <2>2 DEF Saving, Marked, Moves
<1>6. LeftOver'
  BY <1>1, <1>5 DEF LeftOver, ColumnInv, Moves
<1>7. HalfSaved'
  <2> SUFFICES ASSUME NEW q \in Runs, InSave(q)', NEW o, o = colRun'[q].pipe, o \notin colLoose',
                      NEW m, m = colRun'[q].node, NEW rest, rest = colRun'[q].left, NEW rows, rows = Saving(q)'
               PROVE  Half(o, m, rest, rows)'
    BY DEF HalfSaved, Half, RowsOf
  <2>1. CASE q = r
    BY <1>5, <2>1 DEF Moves
  <2>2. CASE q # r
    <3>1. InSave(q) /\ Underway(q) /\ colRun'[q] = colRun[q] /\ rows = Saving(q) /\ o \notin colLoose
      BY <1>1, <2>2 DEF InSave, Moves
    <3>2. o # p
      BY <1>4, <2>2, <3>1
    <3>3. o \in Pipes /\ m \in Nodes
      BY <3>1, SavedRows
    <3>4. RowsOf(o, m)' = RowsOf(o, m) /\ colSaved'[<<o, m>>] = colSaved[<<o, m>>]
      <4>1. <<o, m>> \in Pipes \X Nodes /\ <<o, m>> # <<p, n>> /\ <<o, m>>[1] = o /\ <<o, m>>[2] = m
        BY <3>2, <3>3
      <4> QED BY <4>1 DEF OtherRowsStay, OtherSavesStay
    <3>5. Half(o, m, rest, rows)
      BY <3>1 DEF ColumnInv, HalfSaved
    <3> QED BY <3>4, <3>5 DEF Half
  <2> QED BY <2>1, <2>2
<1>8. RowsOfOneSave'
  <2> SUFFICES ASSUME NEW o \in Pipes \ colLoose', NEW m \in Nodes,
                      \A q \in Runs : Underway(q)' => colRun'[q].pipe # o \/ colRun'[q].node # m \/ colRun'[q].left = None
               PROVE  RowsOf(o, m)' = colSaved'[<<o, m>>]
    BY DEF RowsOfOneSave
  <2>1. CASE o = p /\ m = n
    BY <2>1 DEF Underway, Moves
  <2>2. CASE ~(o = p /\ m = n)
    <3>1. \A q \in Runs : Underway(q) => colRun[q].pipe # o \/ colRun[q].node # m \/ colRun[q].left = None
      BY <1>1, <2>2 DEF Moves
    <3>2. RowsOf(o, m) = colSaved[<<o, m>>]
      BY <3>1 DEF ColumnInv, RowsOfOneSave
    <3>3. <<o, m>> \in Pipes \X Nodes /\ <<o, m>> # <<p, n>> /\ <<o, m>>[1] = o /\ <<o, m>>[2] = m
      BY <2>2
    <3> QED BY <3>2, <3>3 DEF OtherRowsStay, OtherSavesStay
  <2> QED BY <2>1, <2>2
<1> QED BY <1>2, <1>3, <1>6, <1>7, <1>8 DEF ColumnInv

(* Rows of one node are replaced and added; those of the others stay.      *)
Replaces(p, n, gone, new) ==
  /\ gone = {} \/ gone = RowsOf(p, n)
  /\ \A x \in new : x.pipe = p /\ x.node = n
  /\ colRows' = (colRows \ gone) \cup new

LEMMA Elsewhere ==
  ASSUME NEW p, NEW n, NEW gone, NEW new, Replaces(p, n, gone, new)
  PROVE  OtherRowsStay(p, n) /\ RowsOf(p, n)' = (RowsOf(p, n) \ gone) \cup new
<1>1. \A o, m : (o # p \/ m # n) => RowsOf(o, m)' = RowsOf(o, m)
  BY DEF RowsOf, Replaces
<1>2. RowsOf(p, n)' = (RowsOf(p, n) \ gone) \cup new
  BY DEF RowsOf, Replaces
<1>3. \A y \in Pipes \X Nodes : y # <<p, n>> => y[1] # p \/ y[2] # n
  OBVIOUS
<1> QED BY <1>1, <1>2, <1>3 DEF OtherRowsStay

LEMMA BeginStep ==
  ASSUME ColumnsDistinct, ColumnInv, NEW r \in Runs, Begin(r)
  PROVE  ColumnInv'
<1>1. PICK p \in Pipes, cols \in Inputs, mode \in {"sql", "python"}, notes \in EdgeNotes :
        StartColumnRun(r, p, cols, mode, notes)
  BY DEF Begin
<1> DEFINE run == [pipe |-> p, cols |-> cols, mode |-> mode, notes |-> notes, node |-> "in", left |-> None]
<1>2. run \in ColumnRuns
  <2>1. "in" \in Nodes \cup {None} /\ None \in (SUBSET EdgeRows) \cup {None}
    BY DEF Nodes
  <2> QED BY <2>1 DEF ColumnRuns
<1>3. /\ colRun[r] = None /\ colRun' = [colRun EXCEPT ![r] = run]
      /\ colLoose' = IF Peers(r, p) # {} THEN colLoose \cup {p} ELSE colLoose
      /\ UNCHANGED <<colStore, colRows, colSaved>>
  BY <1>1 DEF StartColumnRun
<1>4. ColumnTypes' /\ colRun'[r] = run /\ \A q \in Runs \ {r} : colRun'[q] = colRun[q]
  BY <1>2, <1>3 DEF ColumnInv, ColumnTypes
<1>5. /\ \A q \in Runs \ {r} : (Underway(q)' <=> Underway(q)) /\ (InSave(q)' <=> InSave(q)) /\ Saving(q)' = Saving(q)
      /\ ~InSave(r)' /\ ~Underway(r)
  BY <1>3, <1>4 DEF Underway, InSave, Saving
<1>6. SoleRun'
  <2> SUFFICES ASSUME NEW q \in Runs, NEW s \in Runs, Underway(q)', Underway(s)', q # s,
                      colRun'[q].pipe = colRun'[s].pipe
               PROVE  colRun'[s].pipe \in colLoose'
    BY DEF SoleRun
  <2>1. CASE q # r /\ s # r
    BY <2>1, <1>3, <1>4, <1>5 DEF ColumnInv, SoleRun
  <2>2. CASE s = r
    <3>1. q \in Peers(r, p)
      BY <1>4, <1>5, <2>2 DEF Peers
    <3> QED BY <1>3, <1>4, <2>2, <3>1
  <2>3. CASE q = r
    <3>1. s \in Peers(r, p)
      BY <1>4, <1>5, <2>3 DEF Peers
    <3> QED BY <1>3, <1>4, <2>3, <3>1
  <2> QED BY <2>1, <2>2, <2>3
<1>7. \A o, m : RowsOf(o, m)' = RowsOf(o, m)
  BY <1>3 DEF RowsOf
<1>8. LeftOver'
  BY <1>4, <1>5 DEF LeftOver, ColumnInv
<1>9. HalfSaved'
  <2> SUFFICES ASSUME NEW q \in Runs, InSave(q)', NEW o, o = colRun'[q].pipe, o \notin colLoose',
                      NEW m, m = colRun'[q].node, NEW rest, rest = colRun'[q].left, NEW rows, rows = Saving(q)'
               PROVE  Half(o, m, rest, rows)'
    BY DEF HalfSaved, Half, RowsOf
  <2>1. q # r /\ InSave(q) /\ colRun'[q] = colRun[q] /\ o \notin colLoose /\ rows = Saving(q)
    BY <1>3, <1>4, <1>5
  <2>2. Half(o, m, rest, rows)
    BY <2>1 DEF ColumnInv, HalfSaved
  <2> QED BY <1>3, <1>7, <2>2 DEF Half
<1>10. RowsOfOneSave'
  <2> SUFFICES ASSUME NEW o \in Pipes \ colLoose', NEW m \in Nodes,
                      \A q \in Runs : Underway(q)' => colRun'[q].pipe # o \/ colRun'[q].node # m \/ colRun'[q].left = None
               PROVE  RowsOf(o, m)' = colSaved'[<<o, m>>]
    BY DEF RowsOfOneSave
  <2>1. \A q \in Runs : Underway(q) => colRun[q].pipe # o \/ colRun[q].node # m \/ colRun[q].left = None
    BY <1>4, <1>5
  <2> QED BY <1>3, <1>7, <2>1 DEF ColumnInv, RowsOfOneSave
<1> QED BY <1>4, <1>6, <1>8, <1>9, <1>10 DEF ColumnInv

(* What changes of a run that goes on or ends.                             *)
LEMMA Goes ==
  ASSUME ColumnsDistinct, ColumnInv, NEW r \in Runs, Underway(r),
         NEW node \in Nodes \cup {None}, NEW left \in (SUBSET EdgeRows) \cup {None},
         NEW run, run = Moved(colRun[r], node, left), colRun' = [colRun EXCEPT ![r] = run]
  PROVE  Moves(r, node, left)
<1>1. colRun[r] \in ColumnRuns
  BY SavedRows
<1>2. /\ run \in ColumnRuns /\ run.pipe = colRun[r].pipe /\ run.cols = colRun[r].cols
      /\ run.mode = colRun[r].mode /\ run.notes = colRun[r].notes /\ run.node = node /\ run.left = left
  BY <1>1 DEF ColumnRuns, Moved
<1>3. colRun'[r] = run /\ \A q \in Runs \ {r} : colRun'[q] = colRun[q]
  BY DEF ColumnInv, ColumnTypes
<1>4. colRun' \in [Runs -> ColumnRuns \cup {None}]
  BY <1>2 DEF ColumnInv, ColumnTypes
<1> QED BY <1>2, <1>3, <1>4 DEF ColumnsDistinct, Moves

(* A step that does not move it to another node keeps its node.            *)
LEMMA Stays ==
  ASSUME NEW run \in ColumnRuns, NEW left
  PROVE  [run EXCEPT !.left = left] = Moved(run, run.node, left)
BY DEF ColumnRuns, Moved

LEMMA NextNode == ASSUME NEW n \in Nodes, ColumnsDistinct PROVE Following(n) \in Nodes \cup {None} /\ Following(n) # n
BY DEF Following, Nodes, ColumnsDistinct

(* What the rows of a node are before its save.                            *)
LEMMA BeforeSave ==
  ASSUME ColumnsDistinct, ColumnInv, NEW r \in Runs, Underway(r), colRun[r].left = None, colRun[r].pipe \notin colLoose
  PROVE  RowsOf(colRun[r].pipe, colRun[r].node) = colSaved[<<colRun[r].pipe, colRun[r].node>>]
<1>1. colRun[r].pipe \in Pipes /\ colRun[r].node \in Nodes
  BY SavedRows
<1>2. \A q \in Runs : Underway(q) => colRun[q].pipe # colRun[r].pipe \/ colRun[q].node # colRun[r].node \/ colRun[q].left = None
  BY DEF ColumnInv, SoleRun
<1> QED BY <1>1, <1>2 DEF ColumnInv, RowsOfOneSave

(* The last step of a save.                                                *)
Completes(p, n, save, gone, new) ==
  /\ Replaces(p, n, gone, new)
  /\ p \notin colLoose => (RowsOf(p, n) \ gone) \cup new = IF save = {} THEN colSaved[<<p, n>>] ELSE save

LEMMA AdvanceStep ==
  ASSUME ColumnsDistinct, ColumnInv, NEW r \in Runs, Underway(r), Advance(r), UNCHANGED colLoose,
         NEW p, p = colRun[r].pipe, NEW n, n = colRun[r].node, NEW save, save = Saving(r),
         NEW gone, NEW new, Completes(p, n, save, gone, new)
  PROVE  ColumnInv'
<1>1. p \in Pipes /\ n \in Nodes
  BY SavedRows
<1>2. PICK node \in Nodes \cup {None} : node = Following(n)
  BY <1>1, NextNode
<1>3. <<p, n>> \in Pipes \X Nodes /\ DOMAIN colRun = Runs
  BY <1>1 DEF ColumnInv, ColumnTypes
<1>4. Moves(r, node, None)
  <2>1. PICK run : run = Moved(colRun[r], node, None)
    OBVIOUS
  <2>2. colRun' = [colRun EXCEPT ![r] = run]
    BY <1>2, <1>3, <2>1 DEF Advance, Moved
  <2>3. None \in (SUBSET EdgeRows) \cup {None}
    OBVIOUS
  <2> QED BY <2>1, <2>2, <2>3, Goes
<1>5. /\ DOMAIN colSaved' = Pipes \X Nodes
      /\ colSaved'[<<p, n>>] = IF save = {} THEN colSaved[<<p, n>>] ELSE save
      /\ OtherSavesStay(p, n)
  BY <1>3 DEF Advance, ColumnInv, ColumnTypes, OtherSavesStay
<1>6. OtherRowsStay(p, n) /\ RowsOf(p, n)' = (RowsOf(p, n) \ gone) \cup new
  BY Elsewhere DEF Completes
<1>7. colLoose \subseteq colLoose' /\ colLoose' \subseteq colLoose \cup {p}
  OBVIOUS
<1>8. p \notin colLoose' => RowsOf(p, n)' = colSaved'[<<p, n>>]
  BY <1>5, <1>6 DEF Completes
<1> QED BY <1>4, <1>5, <1>6, <1>7, <1>8, OwnStep

LEMMA SaveStep ==
  ASSUME ColumnsDistinct, ColumnInv, NEW r \in Runs, SaveEdges(r) \/ EndEdges(r)
  PROVE  ColumnInv'
<1>1. Underway(r) /\ Advance(r) /\ UNCHANGED colLoose
  BY DEF SaveEdges, EndEdges
<1>2. PICK p, n, save : p = colRun[r].pipe /\ n = colRun[r].node /\ save = Saving(r)
  OBVIOUS
<1>3. InSave(r) /\ p \notin colLoose => RowsOf(p, n) = IF save = {} THEN colSaved[<<p, n>>] ELSE save \ colRun[r].left
  BY <1>1, <1>2 DEF ColumnInv, HalfSaved, Half
<1>4. ~InSave(r) /\ p \notin colLoose => RowsOf(p, n) = colSaved[<<p, n>>]
  BY <1>1, <1>2, BeforeSave DEF InSave
<1>5. \A x \in save : x.pipe = p /\ x.node = n
  BY <1>1, <1>2, SavedRows
<1>6. CASE SaveEdges(r)
  <2>1. PICK gone : gone = Replaced(p, n, save)
    OBVIOUS
  <2>2. gone = IF save = {} THEN {} ELSE RowsOf(p, n)
    BY <2>1 DEF Replaced
  <2>3. colRows' = (colRows \ gone) \cup save
    BY <1>2, <1>6, <2>1 DEF SaveEdges
  <2>4. p \notin colLoose => (RowsOf(p, n) \ gone) \cup save = IF save = {} THEN colSaved[<<p, n>>] ELSE save
    BY <1>3, <1>4, <2>2
  <2>5. Completes(p, n, save, gone, save)
    BY <1>5, <2>2, <2>3, <2>4 DEF Completes, Replaces
  <2> QED BY <1>1, <1>2, <2>5, AdvanceStep
<1>7. CASE EndEdges(r)
  <2>1. PICK gone : gone = {}
    OBVIOUS
  <2>2. colRun[r].left = {} /\ colRows' = (colRows \ gone) \cup gone
    BY <1>7, <2>1 DEF EndEdges
  <2>3. InSave(r)
    BY <1>1, <2>2, SavedRows DEF InSave
  <2>4. p \notin colLoose => (RowsOf(p, n) \ gone) \cup gone = IF save = {} THEN colSaved[<<p, n>>] ELSE save
    BY <1>3, <2>1, <2>2, <2>3
  <2>5. Completes(p, n, save, gone, gone)
    BY <2>1, <2>2, <2>4 DEF Completes, Replaces
  <2> QED BY <1>1, <1>2, <2>5, AdvanceStep
<1> QED BY <1>6, <1>7

LEMMA DeleteStep ==
  ASSUME ColumnsDistinct, ColumnInv, NEW r \in Runs, DeleteEdges(r)
  PROVE  ColumnInv'
<1>1. PICK p, n, save, gone, none : /\ p = colRun[r].pipe /\ n = colRun[r].node /\ save = Saving(r)
                                    /\ gone = Replaced(p, n, save) /\ none = {}
  OBVIOUS
<1>2. /\ Underway(r) /\ colRun[r].left = None /\ colRows' = (colRows \ gone) \cup none
      /\ UNCHANGED <<colStore, colSaved, colLoose>>
  BY <1>1 DEF DeleteEdges
<1>3. /\ p \in Pipes /\ n \in Nodes /\ save \in SUBSET EdgeRows /\ colRun[r] \in ColumnRuns /\ DOMAIN colRun = Runs
  BY <1>1, <1>2, SavedRows DEF ColumnInv, ColumnTypes
<1>4. gone = IF save = {} THEN {} ELSE RowsOf(p, n)
  BY <1>1 DEF Replaced
<1>5. Moves(r, n, save)
  <2>1. PICK run : run = Moved(colRun[r], n, save)
    OBVIOUS
  <2>2. run = [colRun[r] EXCEPT !.left = save]
    BY <1>1, <1>3, <2>1, Stays
  <2>3. colRun' = [colRun EXCEPT ![r] = run]
    BY <1>1, <1>3, <2>2 DEF DeleteEdges
  <2> QED BY <1>2, <1>3, <2>1, <2>3, Goes
<1>6. p \notin colLoose => RowsOf(p, n) = colSaved[<<p, n>>]
  BY <1>1, <1>2, BeforeSave
<1>7. OtherRowsStay(p, n) /\ RowsOf(p, n)' = (RowsOf(p, n) \ gone) \cup none
  <2>1. Replaces(p, n, gone, none)
    BY <1>1, <1>2, <1>4 DEF Replaces
  <2> QED BY <2>1, Elsewhere
<1>8. DOMAIN colSaved' = Pipes \X Nodes /\ OtherSavesStay(p, n) /\ colSaved' = colSaved /\ colLoose' = colLoose
  BY <1>2 DEF ColumnInv, ColumnTypes, OtherSavesStay
<1>9. p \notin colLoose => Half(p, n, save, save)'
  BY <1>1, <1>4, <1>6, <1>7, <1>8 DEF Half
<1>10. save # None
  BY <1>1, <1>2, SavedRows
<1> QED BY <1>1, <1>2, <1>5, <1>7, <1>8, <1>9, <1>10, OwnStep

LEMMA InsertEdgeStep ==
  ASSUME ColumnsDistinct, ColumnInv, NEW r \in Runs, InsertEdge(r)
  PROVE  ColumnInv'
<1>1. PICK x \in colRun[r].left : colRows' = colRows \cup {x} /\ colRun' = [colRun EXCEPT ![r].left = @ \ {x}]
  BY DEF InsertEdge
<1>2. Underway(r) /\ InSave(r) /\ UNCHANGED <<colStore, colSaved, colLoose>>
  BY DEF InsertEdge, InSave
<1>3. PICK p, n, save, left, gone, new :
        /\ p = colRun[r].pipe /\ n = colRun[r].node /\ save = Saving(r) /\ left = colRun[r].left \ {x}
        /\ gone = {} /\ new = {x}
  OBVIOUS
<1>4. /\ p \in Pipes /\ n \in Nodes /\ colRun[r] \in ColumnRuns /\ DOMAIN colRun = Runs
      /\ save \subseteq EdgeRows /\ \A y \in save : y.pipe = p /\ y.node = n
  BY <1>2, <1>3, SavedRows DEF ColumnInv, ColumnTypes
<1>5. colRun[r].left \subseteq save
  BY <1>2, <1>3 DEF ColumnInv, LeftOver
<1>6. x \in save /\ left \subseteq save /\ left \in SUBSET EdgeRows
  BY <1>1, <1>3, <1>4, <1>5
<1>7. Moves(r, n, left)
  <2>1. PICK run : run = Moved(colRun[r], n, left)
    OBVIOUS
  <2>2. run = [colRun[r] EXCEPT !.left = left]
    BY <1>3, <1>4, <2>1, Stays
  <2>3. colRun' = [colRun EXCEPT ![r] = run]
    BY <1>1, <1>3, <1>4, <2>2
  <2> QED BY <1>2, <1>4, <1>6, <2>1, <2>3, Goes
<1>8. DOMAIN colSaved' = Pipes \X Nodes /\ OtherSavesStay(p, n) /\ colSaved' = colSaved /\ colLoose' = colLoose
  BY <1>2 DEF ColumnInv, ColumnTypes, OtherSavesStay
<1>9. OtherRowsStay(p, n) /\ RowsOf(p, n)' = (RowsOf(p, n) \ gone) \cup new
  <2>1. Replaces(p, n, gone, new)
    BY <1>1, <1>3, <1>4, <1>6 DEF Replaces
  <2> QED BY <2>1, Elsewhere
<1>10. p \notin colLoose => Half(p, n, colRun[r].left, save)
  BY <1>2, <1>3 DEF ColumnInv, HalfSaved
<1>11. p \notin colLoose => Half(p, n, left, save)'
  BY <1>1, <1>3, <1>5, <1>6, <1>8, <1>9, <1>10 DEF Half
<1>12. left # None
  BY <1>2, <1>3, <1>6, SavedRows
<1> QED BY <1>2, <1>3, <1>6, <1>7, <1>8, <1>9, <1>11, <1>12, OwnStep

(* A run that stops inside a save gives its pipeline up.                   *)
LEMMA StopStep ==
  ASSUME ColumnsDistinct, ColumnInv, NEW r \in Runs, Fail(r) \/ DieInSave(r)
  PROVE  ColumnInv'
<1>1. PICK p, n, save, none : p = colRun[r].pipe /\ n = colRun[r].node /\ save = Saving(r) /\ none = {}
  OBVIOUS
<1>2. Underway(r) /\ Over(r) /\ colSaved' = colSaved
  BY DEF Fail, DieInSave
<1>3. p \in Pipes /\ n \in Nodes /\ DOMAIN colRun = Runs /\ \A y \in save : y.pipe = p /\ y.node = n
  BY <1>1, <1>2, SavedRows DEF ColumnInv, ColumnTypes
<1>4. Moves(r, None, None)
  <2>1. PICK run : run = Moved(colRun[r], None, None)
    OBVIOUS
  <2>2. colRun' = [colRun EXCEPT ![r] = run]
    BY <1>2, <1>3, <2>1 DEF Over, Moved
  <2>3. None \in Nodes \cup {None} /\ None \in (SUBSET EdgeRows) \cup {None}
    OBVIOUS
  <2> QED BY <1>2, <2>1, <2>2, <2>3, Goes
<1>5. DOMAIN colSaved' = Pipes \X Nodes /\ OtherSavesStay(p, n)
  BY <1>2 DEF ColumnInv, ColumnTypes, OtherSavesStay
<1>6. CASE Fail(r)
  <2>1. /\ colRows' = (colRows \ none) \cup none
        /\ colLoose' = IF colRun[r].left = None THEN colLoose ELSE colLoose \cup {p}
    BY <1>1, <1>6 DEF Fail
  <2>2. OtherRowsStay(p, n) /\ RowsOf(p, n)' = (RowsOf(p, n) \ none) \cup none
    <3>1. Replaces(p, n, none, none)
      BY <1>1, <2>1 DEF Replaces
    <3> QED BY <3>1, Elsewhere
  <2>3. p \notin colLoose' => RowsOf(p, n) = colSaved[<<p, n>>]
    BY <1>1, <1>2, <2>1, BeforeSave
  <2>4. p \notin colLoose' => RowsOf(p, n)' = colSaved'[<<p, n>>]
    BY <1>1, <1>2, <2>2, <2>3
  <2> QED BY <1>1, <1>2, <1>4, <1>5, <2>1, <2>2, <2>4, OwnStep
<1>7. CASE DieInSave(r)
  <2>1. PICK part \in SUBSET save : colRows' = (colRows \ Replaced(p, n, save)) \cup part
    BY <1>1, <1>7 DEF DieInSave
  <2>2. PICK gone : gone = Replaced(p, n, save)
    OBVIOUS
  <2>3. gone = {} \/ gone = RowsOf(p, n)
    BY <2>2 DEF Replaced
  <2>4. colRows' = (colRows \ gone) \cup part /\ \A y \in part : y.pipe = p /\ y.node = n
    BY <1>3, <2>1, <2>2
  <2>5. OtherRowsStay(p, n)
    <3>1. Replaces(p, n, gone, part)
      BY <2>3, <2>4 DEF Replaces
    <3> QED BY <3>1, Elsewhere
  <2>6. colLoose' = colLoose \cup {p}
    BY <1>1, <1>7 DEF DieInSave
  <2> QED BY <1>1, <1>2, <1>4, <1>5, <2>5, <2>6, OwnStep
<1> QED BY <1>6, <1>7

LEMMA ColumnInvHolds == ColumnsDistinct => (ColumnSpec => []ColumnInv)
<1> SUFFICES ASSUME ColumnsDistinct PROVE ColumnSpec => []ColumnInv
  OBVIOUS
<1>1. ColumnInv /\ [ColumnNext]_columnVars => ColumnInv'
  <2> SUFFICES ASSUME ColumnInv, [ColumnNext]_columnVars PROVE ColumnInv'
    OBVIOUS
  <2>1. CASE UNCHANGED columnVars
    BY <2>1 DEF columnVars, ColumnInv, ColumnTypes, SoleRun, LeftOver, HalfSaved, Half, RowsOfOneSave, RowsOf,
      InSave, Underway, Saving
  <2>2. CASE ColumnNext
    BY <2>2, BeginStep, SaveStep, DeleteStep, InsertEdgeStep, StopStep DEF ColumnNext
  <2> QED BY <2>1, <2>2
<1> QED BY <1>1, InitColumns, PTL DEF ColumnSpec

-----------------------------------------------------------------------------
(* The least of some numbers.                                              *)
LEMMA LeastOf ==
  ASSUME NEW S, S \subseteq Nat, S # {}
  PROVE  \E m \in S : \A n \in S : m <= n
<1>1. PICK m \in S : \A n \in S : ~ (<<n, m>> \in OpToRel(<, Nat))
  BY NatLessThanWellFounded, WFMin, Zenon
<1>2. \A n \in S : ~ (n < m)
  BY <1>1 DEF OpToRel
<1> QED BY <1>2

(* Traces.  A level of the search: the keys at a distance, those seen, and *)
(* the arcs from nearer keys, each with its distance.                      *)
Allowed(arcs, opts) == {a \in arcs : Follows(opts, a)}
From(arcs, way, opts, keys) == {a \in Allowed(arcs, opts) : Near(way, a) \in keys}
FirstLevel(start) == [at |-> {start}, visited |-> {start}, edges |-> {}]
NextLevel(arcs, way, opts, q, n) ==
  LET seen == {Far(way, a) : a \in From(arcs, way, opts, q.at)}
  IN [at |-> seen \ q.visited, visited |-> q.visited \cup seen,
      edges |-> q.edges \cup {[arc |-> a, depth |-> n] : a \in From(arcs, way, opts, q.at)}]

Levels(f, d, arcs, start, way, opts) ==
  f = [n \in 0..d |-> IF n = 0 THEN FirstLevel(start) ELSE NextLevel(arcs, way, opts, f[n - 1], n)]

LEMMA LevelsExist ==
  ASSUME NEW arcs, NEW start, NEW way, NEW opts, NEW d \in Nat
  PROVE  \E f : Levels(f, d, arcs, start, way, opts)
<1> DEFINE S == {n \in Nat : ~\E f : Levels(f, n, arcs, start, way, opts)}
<1>1. SUFFICES S = {}
  OBVIOUS
<1>2. SUFFICES ASSUME S # {} PROVE FALSE
  OBVIOUS
<1>3. PICK m \in S : \A n \in S : m <= n
  BY <1>2, LeastOf
<1>4. m # 0
  <2>1. Levels([n \in 0..0 |-> FirstLevel(start)], 0, arcs, start, way, opts)
    BY DEF Levels
  <2> QED BY <1>3, <2>1
<1>5. m - 1 \in Nat /\ m - 1 \notin S
  BY <1>3, <1>4
<1>6. PICK f : Levels(f, m - 1, arcs, start, way, opts)
  BY <1>5
<1> DEFINE top == NextLevel(arcs, way, opts, f[m - 1], m)
           g == [n \in 0..m |-> IF n = m THEN top ELSE f[n]]
<1>7. Levels(g, m, arcs, start, way, opts)
  <2>1. \A n \in 0..m : g[n] = IF n = 0 THEN FirstLevel(start) ELSE NextLevel(arcs, way, opts, g[n - 1], n)
    <3> SUFFICES ASSUME NEW n \in 0..m
                 PROVE  g[n] = IF n = 0 THEN FirstLevel(start) ELSE NextLevel(arcs, way, opts, g[n - 1], n)
      OBVIOUS
    <3> HIDE DEF top
    <3>1. CASE n = m
      <4>1. g[n] = top /\ n # 0 /\ g[n - 1] = f[m - 1]
        BY <1>4, <1>5, <3>1
      <4> QED BY <3>1, <4>1 DEF top
    <3>2. CASE n # m
      <4>1. n \in 0..(m - 1) /\ g[n] = f[n] /\ (n # 0 => n - 1 \in 0..(m - 1) /\ g[n - 1] = f[n - 1])
        BY <1>5, <3>2
      <4>2. f[n] = IF n = 0 THEN FirstLevel(start) ELSE NextLevel(arcs, way, opts, f[n - 1], n)
        BY <1>6, <4>1 DEF Levels
      <4> QED BY <4>1, <4>2
    <3> QED BY <3>1, <3>2
  <2>2. g = [n \in 0..m |-> g[n]]
    OBVIOUS
  <2> HIDE DEF g
  <2> QED BY <2>1, <2>2 DEF Levels
<1> QED BY <1>3, <1>7

(* What is known of the n-th level.                                        *)
LevelInv(q, n, arcs, start, way, opts) ==
  /\ q.visited = {start} \cup {Far(way, e.arc) : e \in q.edges}
  /\ \A e \in q.edges :
       /\ e.arc \in Allowed(arcs, opts) /\ e.depth \in 1..n
       /\ IF e.depth = 1 THEN Near(way, e.arc) = start
          ELSE \E f \in q.edges : f.depth = e.depth - 1 /\ Far(way, f.arc) = Near(way, e.arc)
  /\ \A a \in Allowed(arcs, opts) : Near(way, a) \in q.visited \ q.at => \E e \in q.edges : e.arc = a
  /\ q.at \subseteq q.visited
  /\ IF n = 0 THEN q.at = {start} ELSE \A k \in q.at : \E e \in q.edges : e.depth = n /\ Far(way, e.arc) = k

LEMMA LevelStep ==
  ASSUME NEW arcs, NEW start, NEW way, NEW opts, NEW q, NEW n \in Nat, LevelInv(q, n, arcs, start, way, opts)
  PROVE  LevelInv(NextLevel(arcs, way, opts, q, n + 1), n + 1, arcs, start, way, opts)
<1> DEFINE leaving == From(arcs, way, opts, q.at)
           seen == {Far(way, a) : a \in leaving}
           new == {[arc |-> a, depth |-> n + 1] : a \in leaving}
           r == NextLevel(arcs, way, opts, q, n + 1)
<1>1. r.at = seen \ q.visited /\ r.visited = q.visited \cup seen /\ r.edges = q.edges \cup new
  BY DEF NextLevel
<1>2. \A a \in leaving : a \in Allowed(arcs, opts) /\ Near(way, a) \in q.at
  BY DEF From
<1>4. \A a \in Allowed(arcs, opts) : Near(way, a) \in q.at => a \in leaving
  BY DEF From
<1> HIDE DEF leaving, r
<1>3. /\ \A e \in new : e.arc \in leaving /\ e.depth = n + 1
      /\ \A a \in leaving : \E e \in new : e.arc = a /\ e.depth = n + 1
  <2>1. \A a \in leaving : [arc |-> a, depth |-> n + 1] \in new
    OBVIOUS
  <2>2. \A a : [arc |-> a, depth |-> n + 1].arc = a /\ [arc |-> a, depth |-> n + 1].depth = n + 1
    OBVIOUS
  <2> QED BY <2>1, <2>2
<1> HIDE DEF new
<1>5. r.visited = {start} \cup {Far(way, e.arc) : e \in r.edges}
  <2>1. q.visited = {start} \cup {Far(way, e.arc) : e \in q.edges}
    BY DEF LevelInv
  <2>2. seen = {Far(way, e.arc) : e \in new}
    BY <1>3
  <2> HIDE DEF seen
  <2> QED BY <1>1, <2>1, <2>2
<1>6. ASSUME NEW e \in r.edges
      PROVE  /\ e.arc \in Allowed(arcs, opts) /\ e.depth \in 1..(n + 1)
             /\ IF e.depth = 1 THEN Near(way, e.arc) = start
                ELSE \E f \in r.edges : f.depth = e.depth - 1 /\ Far(way, f.arc) = Near(way, e.arc)
  <2>1. CASE e \in q.edges
    BY <1>1, <2>1 DEF LevelInv
  <2>2. CASE e \in new
    <3>1. e.arc \in Allowed(arcs, opts) /\ e.depth = n + 1 /\ Near(way, e.arc) \in q.at
      BY <1>2, <1>3, <2>2
    <3>2. CASE n = 0
      BY <3>1, <3>2 DEF LevelInv
    <3>3. CASE n # 0
      <4>1. PICK f \in q.edges : f.depth = n /\ Far(way, f.arc) = Near(way, e.arc)
        BY <3>1, <3>3 DEF LevelInv
      <4>2. f \in r.edges /\ f.depth = e.depth - 1 /\ e.depth # 1
        BY <1>1, <3>1, <3>3, <4>1
      <4> QED BY <3>1, <4>1, <4>2
    <3> QED BY <3>2, <3>3
  <2> QED BY <1>1, <2>1, <2>2
<1>7. ASSUME NEW a \in Allowed(arcs, opts), Near(way, a) \in r.visited \ r.at
      PROVE  \E e \in r.edges : e.arc = a
  <2>1. Near(way, a) \in q.visited
    BY <1>1, <1>7
  <2>2. CASE Near(way, a) \in q.at
    BY <1>1, <1>3, <1>4, <2>2
  <2>3. CASE Near(way, a) \notin q.at
    BY <1>1, <2>1, <2>3 DEF LevelInv
  <2> QED BY <2>2, <2>3
<1>8. ASSUME NEW k \in r.at
      PROVE  \E e \in r.edges : e.depth = n + 1 /\ Far(way, e.arc) = k
  <2>1. PICK a \in leaving : k = Far(way, a)
    BY <1>1
  <2>2. PICK e \in new : e.arc = a /\ e.depth = n + 1
    BY <1>3
  <2> QED BY <1>1, <2>1, <2>2
<1>9. r.at \subseteq r.visited /\ n + 1 # 0
  BY <1>1
<1>10. LevelInv(r, n + 1, arcs, start, way, opts)
  BY <1>5, <1>6, <1>7, <1>8, <1>9 DEF LevelInv
<1> QED BY <1>10 DEF r

(* The levels of a trace, and what they make of it.                        *)
LEMMA TraceLevels ==
  ASSUME NEW arcs, NEW start, NEW way, NEW opts, opts.depth \in Nat
  PROVE  \E q : /\ LevelInv(q, opts.depth, arcs, start, way, opts)
                /\ Trace(arcs, start, way, opts) = [edges |-> q.edges, truncated |-> q.at # {}]
<1> DEFINE allowed == {a \in arcs : Follows(opts, a)}
           Leaving(keys) == {a \in allowed : Near(way, a) \in keys}
           queue[n \in 0..opts.depth] ==
             IF n = 0 THEN [at |-> {start}, visited |-> {start}, edges |-> {}]
             ELSE LET q == queue[n - 1]
                      seen == {Far(way, a) : a \in Leaving(q.at)}
                  IN [at |-> seen \ q.visited, visited |-> q.visited \cup seen,
                      edges |-> q.edges \cup {[arc |-> a, depth |-> n] : a \in Leaving(q.at)}]
<1>1. Trace(arcs, start, way, opts) = [edges |-> queue[opts.depth].edges, truncated |-> queue[opts.depth].at # {}]
  BY DEF Trace
<1>2. queue = CHOOSE f : Levels(f, opts.depth, arcs, start, way, opts)
  BY DEF Levels, FirstLevel, NextLevel, From, Allowed
<1> HIDE DEF queue
<1>3. Levels(queue, opts.depth, arcs, start, way, opts)
  BY <1>2, LevelsExist
<1>4. \A n \in 0..opts.depth :
        queue[n] = IF n = 0 THEN FirstLevel(start) ELSE NextLevel(arcs, way, opts, queue[n - 1], n)
  BY <1>3, Zenon DEF Levels
<1>5. LevelInv(FirstLevel(start), 0, arcs, start, way, opts)
  BY DEF LevelInv, FirstLevel
<1> DEFINE Bad == {n \in 0..opts.depth : ~LevelInv(queue[n], n, arcs, start, way, opts)}
<1>6. Bad = {}
  <2> SUFFICES ASSUME Bad # {} PROVE FALSE
    OBVIOUS
  <2>1. Bad \subseteq Nat
    OBVIOUS
  <2>2. PICK m \in Bad : \A n \in Bad : m <= n
    BY <2>1, LeastOf
  <2>3. m # 0
    BY <1>4, <1>5, <2>2
  <2>4. m - 1 \in 0..opts.depth /\ m - 1 \in Nat /\ m - 1 \notin Bad /\ (m - 1) + 1 = m
    BY <2>2, <2>3
  <2>5. LevelInv(queue[m - 1], m - 1, arcs, start, way, opts)
    BY <2>4
  <2>6. queue[m] = NextLevel(arcs, way, opts, queue[m - 1], m)
    BY <1>4, <2>2, <2>3
  <2>7. LevelInv(NextLevel(arcs, way, opts, queue[m - 1], (m - 1) + 1), (m - 1) + 1, arcs, start, way, opts)
    BY <2>4, <2>5, LevelStep
  <2>8. LevelInv(queue[m], m, arcs, start, way, opts)
    BY <2>4, <2>6, <2>7
  <2> QED BY <2>2, <2>8
<1>7. LevelInv(queue[opts.depth], opts.depth, arcs, start, way, opts)
  BY <1>6
<1> QED BY <1>1, <1>7

(* A trace that is not truncated is closed; one that is got to the limit;  *)
(* and it leads from its start arc by arc.                                 *)
Reached(way, t, start) == {start} \cup {Far(way, e.arc) : e \in t.edges}

LEMMA TraceFacts ==
  ASSUME NEW arcs, NEW start, NEW way, NEW opts, opts.depth \in Nat, NEW t, t = Trace(arcs, start, way, opts)
  PROVE  /\ ~t.truncated =>
              \A a \in Allowed(arcs, opts) : Near(way, a) \in Reached(way, t, start) => \E e \in t.edges : e.arc = a
         /\ t.truncated => opts.depth = 0 \/ \E e \in t.edges : e.depth = opts.depth
         /\ \A e \in t.edges :
              /\ e.arc \in Allowed(arcs, opts) /\ e.depth \in Nat \ {0}
              /\ IF e.depth = 1 THEN Near(way, e.arc) = start
                 ELSE \E f \in t.edges : f.depth = e.depth - 1 /\ Far(way, f.arc) = Near(way, e.arc)
<1>1. PICK q : LevelInv(q, opts.depth, arcs, start, way, opts) /\ t = [edges |-> q.edges, truncated |-> q.at # {}]
  BY TraceLevels
<1>2. t.edges = q.edges /\ t.truncated = (q.at # {})
  BY <1>1
<1>3. ~t.truncated =>
        \A a \in Allowed(arcs, opts) : Near(way, a) \in Reached(way, t, start) => \E e \in t.edges : e.arc = a
  BY <1>1, <1>2 DEF LevelInv, Reached
<1>4. t.truncated => opts.depth = 0 \/ \E e \in t.edges : e.depth = opts.depth
  BY <1>1, <1>2 DEF LevelInv
<1>5. \A e \in t.edges :
        /\ e.arc \in Allowed(arcs, opts) /\ e.depth \in Nat \ {0}
        /\ IF e.depth = 1 THEN Near(way, e.arc) = start
           ELSE \E f \in t.edges : f.depth = e.depth - 1 /\ Far(way, f.arc) = Near(way, e.arc)
  BY <1>1, <1>2 DEF LevelInv
<1> QED BY <1>3, <1>4, <1>5

(* What is upstream has its start downstream.                              *)
LEMMA ThereAndBack ==
  ASSUME NEW arcs, NEW k, NEW l, NEW opts, opts.depth \in Nat,
         NEW up, up = Trace(arcs, k, "up", opts), NEW down, down = Trace(arcs, l, "down", opts), ~down.truncated,
         NEW x \in up.edges, l = Far("up", x.arc)
  PROVE  k \in {Far("down", e.arc) : e \in down.edges}
<1> DEFINE below == {Far("down", e.arc) : e \in down.edges}
           Bad == {n \in Nat : \E e \in up.edges : e.depth = n /\ Far("up", e.arc) \in below \cup {l}}
<1>1. \A a \in Allowed(arcs, opts) : Near("down", a) \in below \cup {l} => Far("down", a) \in below
  BY TraceFacts DEF Reached
<1>2. \A a : Near("down", a) = Far("up", a) /\ Far("down", a) = Near("up", a)
  BY DEF Near, Far
<1>3. \A e \in up.edges : e.arc \in Allowed(arcs, opts) /\ e.depth \in Nat \ {0}
  BY TraceFacts
<1>4. x.depth \in Bad
  BY <1>3
<1>5. PICK m \in Bad : \A n \in Bad : m <= n
  BY <1>4, LeastOf
<1>6. PICK e \in up.edges : e.depth = m /\ Far("up", e.arc) \in below \cup {l}
  BY <1>5
<1>7. Near("up", e.arc) \in below
  BY <1>1, <1>2, <1>3, <1>6
<1>8. CASE m = 1
  BY <1>6, <1>7, <1>8, TraceFacts
<1>9. CASE m # 1
  <2>1. PICK f \in up.edges : f.depth = m - 1 /\ Far("up", f.arc) = Near("up", e.arc)
    BY <1>6, <1>9, TraceFacts
  <2>2. m - 1 \in Bad
    BY <1>3, <1>7, <2>1
  <2> QED BY <1>5, <2>2
<1> QED BY <1>8, <1>9

LEMMA TracesComplete ==
  ASSUME NEW opts, opts.depth \in Nat
  PROVE  TracesAreComplete(opts)
<1> DEFINE keys == Keys(Arcs)
           trace == [x \in keys \X {"up", "down"} |-> Trace(Arcs, x[1], x[2], opts)]
           Found(k, way) == {Far(way, e.arc) : e \in trace[<<k, way>>].edges}
<1>1. \A k \in keys, way \in {"up", "down"} : trace[<<k, way>>] = Trace(Arcs, k, way, opts)
  OBVIOUS
<1> HIDE DEF trace
<1>2. ASSUME NEW k \in keys, NEW way \in {"up", "down"}, NEW t, t = trace[<<k, way>>]
      PROVE  /\ ~t.truncated =>
                  \A a \in Arcs : Follows(opts, a) /\ Near(way, a) \in Found(k, way) \cup {k} =>
                    \E e \in t.edges : e.arc = a
             /\ t.truncated => opts.depth = 0 \/ \E e \in t.edges : e.depth = opts.depth
             /\ \A e \in t.edges :
                  /\ Follows(opts, e.arc)
                  /\ IF e.depth = 1 THEN Near(way, e.arc) = k
                     ELSE \E f \in t.edges :
                            f.depth = e.depth - 1 /\ Far(way, f.arc) = Near(way, e.arc)
  <2>1. t = Trace(Arcs, k, way, opts)
    BY <1>1, <1>2
  <2>2. Found(k, way) \cup {k} = Reached(way, t, k)
    BY <1>2 DEF Reached
  <2> HIDE DEF Found, keys
  <2>3. \A a : a \in Allowed(Arcs, opts) <=> a \in Arcs /\ Follows(opts, a)
    BY DEF Allowed
  <2> QED BY <2>1, <2>2, <2>3, TraceFacts
<1>3. ASSUME NEW k \in keys, NEW l \in Found(k, "up"), ~trace[<<l, "down">>].truncated
      PROVE  k \in Found(l, "down")
  <2>1. PICK x \in trace[<<k, "up">>].edges : l = Far("up", x.arc)
    OBVIOUS
  <2>2. trace[<<k, "up">>] = Trace(Arcs, k, "up", opts)
    BY <1>1
  <2>3. x.arc \in Arcs
    <3>1. x.arc \in Allowed(Arcs, opts)
      BY <2>1, <2>2, TraceFacts
    <3> QED BY <3>1 DEF Allowed
  <2>4. l \in keys
    BY <2>1, <2>3 DEF Keys, Far
  <2>5. trace[<<l, "down">>] = Trace(Arcs, l, "down", opts)
    BY <1>1, <2>4
  <2> QED BY <1>3, <2>1, <2>2, <2>5, ThereAndBack
<1>4. ASSUME NEW k \in keys
      PROVE  /\ \A way \in {"up", "down"} :
                  LET t == trace[<<k, way>>]
                  IN /\ ~t.truncated =>
                          \A a \in Arcs : Follows(opts, a) /\ Near(way, a) \in Found(k, way) \cup {k} =>
                            \E e \in t.edges : e.arc = a
                     /\ t.truncated => opts.depth = 0 \/ \E e \in t.edges : e.depth = opts.depth
                     /\ \A e \in t.edges :
                          /\ Follows(opts, e.arc)
                          /\ IF e.depth = 1 THEN Near(way, e.arc) = k
                             ELSE \E f \in t.edges :
                                    f.depth = e.depth - 1 /\ Far(way, f.arc) = Near(way, e.arc)
             /\ ~trace[<<k, "up">>].truncated => \A l \in Found(k, "up") :
                  ~trace[<<l, "down">>].truncated => k \in Found(l, "down")
  <2> HIDE DEF Found, keys
  <2> QED BY <1>2, <1>3, <1>4
<1> QED BY <1>4, Zenon DEF TracesAreComplete, trace

(* The two ways to ask agree, and the search finds what they start from.   *)
LEMMA AskedAlike == \A opts : AnswersAgree(opts)
BY DEF AnswersAgree, CliColumnImpact, ColumnImpact, CliTrace, ColumnUpstream, ColumnDownstream

LEMMA SearchComplete == SearchFinds
<1>1. \A x \in colRows : DownKey(x) \in Keys(Arcs) /\ UpKey(x) \in Keys(Arcs)
  <2> SUFFICES ASSUME NEW x \in colRows PROVE DownKey(x) \in Keys(Arcs) /\ UpKey(x) \in Keys(Arcs)
    OBVIOUS
  <2> DEFINE arc == [up |-> UpKey(x), down |-> DownKey(x), kind |-> x.kind, conf |-> x.conf]
  <2>1. arc \in Arcs
    BY DEF Arcs
  <2>2. arc.up = UpKey(x) /\ arc.down = DownKey(x)
    OBVIOUS
  <2> HIDE DEF arc
  <2> QED BY <2>1, <2>2 DEF Keys
<1>2. \A x : DownKey(x).col = x.col /\ UpKey(x).col = x.upCol
  BY DEF DownKey, UpKey, Key
<1>3. \A fp \in Written, col \in Columns : ResolveByFingerprint(fp, col) \subseteq ColumnSearch(col)
  BY <1>1, <1>2 DEF ResolveByFingerprint, ColumnSearch
<1> QED BY <1>3 DEF SearchFinds

(* Where no two runs of a pipeline overlap and none stops inside a save,   *)
(* its nodes have the rows of the last save that had any; and a trace that *)
(* is not truncated has every arc it can follow, one that is truncated got *)
(* to its limit, what is upstream has its start downstream, and the API    *)
(* and the command line answer alike: for any pipelines, columns, runs and *)
(* rows, whichever store keeps them.                                       *)
THEOREM ColumnAnswersHold == ColumnsDistinct => (ColumnSpec => []ColumnAnswers)
<1> SUFFICES ASSUME ColumnsDistinct PROVE ColumnSpec => []ColumnAnswers
  OBVIOUS
<1>1. \A opts \in Options : opts.depth \in Nat
  BY DEF Options
<1>2. \A opts \in Options : TracesAreComplete(opts) /\ AnswersAgree(opts)
  BY <1>1, TracesComplete, AskedAlike
<1>3. ColumnInv => ColumnAnswers
  BY <1>2, SearchComplete DEF ColumnInv, ColumnAnswers
<1> QED BY <1>3, ColumnInvHolds, PTL
=============================================================================
