------------------------------ MODULE Catalog ------------------------------
(***************************************************************************)
(* The resource catalog: annotation files, which users edit and the API    *)
(* and the command line write, over the resources that lineage knows.      *)
(*                                                                         *)
(* An update reads the file when its handler starts and replaces it        *)
(* through one temporary file per annotation, which every handler shares;  *)
(* scaffolding writes the file itself.                                     *)
(***************************************************************************)
EXTENDS Absent, Integers, FiniteSets

CONSTANTS
  FileOf,       \* resource -> its annotation's file name
  Strays,       \* other files of the directory, written by users
  BindingSets,  \* what lineage may know: sets of [pipe, node, dir, fp]
  Observed,     \* bindings runs observed
  SchemaOf,     \* resource -> the columns of its stored column edges
  FinishedAt,   \* pipeline -> the end of its last successful run
  Bodies,       \* update requests [name, team, contact, tags, cols]
  HandWritten,  \* annotations a user writes by hand
  CatHandlers, CatCli, \* handlers of the API; the command line
  MaxWrites,    \* bound: requests, edits and changes of lineage
  Torn          \* a file that does not parse

VARIABLES
  catBinds,     \* the stored bindings of environment "dev"
  catFile,      \* path -> None, Torn or an annotation
  catTmp,       \* the same for <path>.tmp
  catWrites,    \* requests, edits and changes so far
  catOp,        \* handler or CatCli -> None or what it is doing
  catKept,      \* ghost: path -> the annotation its writers asked for
  catLoose      \* ghost: paths two writers worked on at once, or one died on

catVars == <<catBinds, catFile, catTmp, catWrites, catOp, catKept, catLoose>>

Resources == DOMAIN FileOf
Paths == {FileOf[r] : r \in Resources} \cup Strays
Actors == CatHandlers \cup {CatCli}
Whole(x) == x # None /\ x # Torn

(* Everything an annotation may say: what a request or a user says, what a  *)
(* scaffold says, or nothing.                                               *)
Said == Bodies \cup HandWritten
Annotations ==
  [fp      : Resources \cup {a.fp : a \in HandWritten},
   name    : {a.name : a \in Said} \cup Resources \cup {None},
   team    : {a.team : a \in Said} \cup {"", None},
   contact : {a.contact : a \in Said} \cup {"", None},
   tags    : {a.tags : a \in Said} \cup {{}},
   cols    : {a.cols : a \in Said} \cup {{}},
   sla     : {a.sla : a \in HandWritten} \cup {None}]

(* What a handler does: it updates, it looks for something to scaffold, or  *)
(* it has scaffolded.                                                       *)
Puts == [step : {"truncate", "write", "rename"}, paths : SUBSET Paths, fp : Resources,
         body : Bodies, ann : Annotations]
Searches == [step : {"scaffold"}, paths : SUBSET Paths, todo : SUBSET Resources, all : BOOLEAN]
Scaffolds == [step : {"fill", "scaffold"}, fp : Resources, paths : SUBSET Paths,
              todo : SUBSET Resources, all : BOOLEAN]

(* Absence is no path, annotation or operation, and a torn file is neither  *)
(* absent nor an annotation; lineage knows resources, which have a file, by *)
(* pipelines that are numbered.                                             *)
ASSUME CatalogAssumption ==
  /\ None # Torn /\ None \notin Paths
  /\ None \notin Annotations /\ Torn \notin Annotations /\ HandWritten \subseteq Annotations
  /\ None \notin Puts /\ None \notin Searches /\ None \notin Scaffolds
  /\ IsFiniteSet(Resources) /\ IsFiniteSet(Strays)
  /\ \A graph \in BindingSets \cup {Observed} :
       \A b \in graph : b.fp \in Resources /\ b.pipe \in Nat

CatInit ==
  /\ catBinds \in BindingSets
  /\ catFile = [p \in Paths |-> None] /\ catTmp = [p \in Paths |-> None]
  /\ catWrites = 0 /\ catOp = [h \in Actors |-> None]
  /\ catKept = [p \in Paths |-> None] /\ catLoose = {}

-----------------------------------------------------------------------------
(* What lineage knows.  The API adds what runs observed of nodes without a *)
(* stored binding.                                                         *)
BuildLineageGraph ==
  catBinds \cup {b \in Observed : \A x \in catBinds : <<x.pipe, x.node>> # <<b.pipe, b.node>>}

DiscoverResources(graph) ==
  [r \in {b.fp : b \in graph} |->
     [producers |-> {b.pipe : b \in {x \in graph : x.fp = r /\ x.dir = "sink"}},
      consumers |-> {b.pipe : b \in {x \in graph : x.fp = r /\ x.dir = "source"}}]]

CountWrite == catWrites < MaxWrites /\ catWrites' = catWrites + 1

Rebind ==
  /\ CountWrite
  /\ catBinds' \in BindingSets \ {catBinds}
  /\ UNCHANGED <<catFile, catTmp, catOp, catKept, catLoose>>

-----------------------------------------------------------------------------
(* PUT /catalog/resources/metadata *)
Blank(r) ==
  [fp |-> r, name |-> None, team |-> None, contact |-> None, tags |-> {}, cols |-> {}, sla |-> None]

Given(new, old) == IF new = None THEN old ELSE new

BuildAnnotationMutant(r, body, existing) ==   \* what the request leaves out is cleared
  LET base == IF existing = None THEN Blank(r) ELSE existing
  IN [fp |-> r, name |-> Given(body.name, base.name), team |-> body.team,
      contact |-> body.contact, tags |-> Given(body.tags, base.tags),
      cols |-> Given(body.cols, base.cols), sla |-> base.sla]

BuildAnnotation(r, body, existing) ==
  LET base == IF existing = None THEN Blank(r) ELSE existing
  IN [fp |-> r, name |-> Given(body.name, base.name), team |-> Given(body.team, base.team),
      contact |-> Given(body.contact, base.contact), tags |-> Given(body.tags, base.tags),
      cols |-> Given(body.cols, base.cols), sla |-> base.sla]

Existing(p) == IF Whole(catFile[p]) THEN catFile[p] ELSE None

OpPaths(h) == IF catOp[h] = None THEN {} ELSE catOp[h].paths
Shared(h, paths) == paths \cap UNION {OpPaths(g) : g \in Actors \ {h}}

Start(h, op) ==
  /\ catOp[h] = None /\ CountWrite
  /\ catOp' = [catOp EXCEPT ![h] = op]
  /\ catLoose' = catLoose \cup Shared(h, op.paths)

PutRead(h, r, body) ==
  /\ Start(h, [step |-> "truncate", paths |-> {FileOf[r]}, fp |-> r, body |-> body,
               ann |-> BuildAnnotation(r, body, Existing(FileOf[r]))])
  /\ UNCHANGED <<catBinds, catFile, catTmp, catKept>>

PathOf(h) == FileOf[catOp[h].fp]
AtStep(h, step) == catOp[h] # None /\ catOp[h].step = step
GoesOn(h, step) == catOp' = [catOp EXCEPT ![h].step = step]
Ends(h) == catOp' = [catOp EXCEPT ![h] = None]

PutTruncate(h) ==
  /\ AtStep(h, "truncate") /\ GoesOn(h, "write")
  /\ catTmp' = [catTmp EXCEPT ![PathOf(h)] = Torn]
  /\ UNCHANGED <<catBinds, catFile, catKept, catLoose, catWrites>>

(* Another handler may have written the temporary file since, and leaves a *)
(* mixture, or renamed it: what is written then lands in the annotation,   *)
(* or in a file that another one has replaced.                             *)
PutWrite(h) ==
  /\ AtStep(h, "write") /\ GoesOn(h, "rename")
  /\ LET p == PathOf(h) IN
     IF catTmp[p] = None
     THEN catFile' \in {catFile, [catFile EXCEPT ![p] = catOp[h].ann]} /\ UNCHANGED catTmp
     ELSE /\ \E c \in {catOp[h].ann} \cup IF catTmp[p] = Torn THEN {} ELSE {Torn} :
               catTmp' = [catTmp EXCEPT ![p] = c]
          /\ UNCHANGED catFile
  /\ UNCHANGED <<catBinds, catKept, catLoose, catWrites>>

(* What the requester may rely on: a value for each field it named. *)
Wanted(kept, r, body) ==
  LET old == IF kept = None THEN Blank(r) ELSE kept
  IN [f \in DOMAIN old |->
        IF f = "fp" THEN r ELSE IF f = "sla" THEN old.sla ELSE Given(body[f], old[f])]

(* The rename fails when another handler has taken the file away. *)
PutRename(h) ==
  /\ AtStep(h, "rename") /\ Ends(h)
  /\ IF catTmp[PathOf(h)] = None
     THEN UNCHANGED <<catFile, catTmp, catKept>>
     ELSE /\ catFile' = [catFile EXCEPT ![PathOf(h)] = catTmp[PathOf(h)]]
          /\ catTmp' = [catTmp EXCEPT ![PathOf(h)] = None]
          /\ catKept' = [catKept EXCEPT ![PathOf(h)] = Wanted(@, catOp[h].fp, catOp[h].body)]
  /\ UNCHANGED <<catBinds, catLoose, catWrites>>

-----------------------------------------------------------------------------
(* POST /catalog/describe and `catalog describe': scaffolds. *)
ScaffoldAnnotation(r) ==
  [Blank(r) EXCEPT !.name = r, !.team = "", !.contact = ""]

Describe(h, todo, all) ==
  /\ todo # {}
  /\ Start(h, [step |-> "scaffold", paths |-> {FileOf[r] : r \in todo}, todo |-> todo, all |-> all])
  /\ UNCHANGED <<catBinds, catFile, catTmp, catKept>>

(* One resource, overwriting what is there, or all without a file. *)
DescribeApi(h) ==
  LET known == DOMAIN DiscoverResources(BuildLineageGraph)
  IN \/ \E r \in known : Describe(h, {r}, FALSE)
     \/ Describe(h, known, TRUE)

(* The command line refuses a resource that has its file, and skips those  *)
(* annotated in any file it could load when it started.                    *)
Annotated == {catFile[p].fp : p \in {q \in Paths : Whole(catFile[q])}}

DescribeCli ==
  LET known == DOMAIN DiscoverResources(catBinds)
  IN \/ \E r \in known : catFile[FileOf[r]] = None /\ Describe(CatCli, {r}, FALSE)
     \/ Describe(CatCli, known \ Annotated, TRUE)

ScaffoldTruncate(h) ==
  /\ AtStep(h, "scaffold")
  /\ \E r \in catOp[h].todo :
       IF catOp[h].all /\ catFile[FileOf[r]] # None
       THEN /\ catOp' = [catOp EXCEPT ![h].todo = @ \ {r}]
            /\ UNCHANGED catFile
       ELSE /\ catOp' = [catOp EXCEPT ![h] = [step |-> "fill", fp |-> r, paths |-> @.paths,
                                              todo |-> @.todo \ {r}, all |-> @.all]]
            /\ catFile' = [catFile EXCEPT ![FileOf[r]] = Torn]
  /\ UNCHANGED <<catBinds, catTmp, catKept, catLoose, catWrites>>

ScaffoldWrite(h) ==
  /\ AtStep(h, "fill") /\ GoesOn(h, "scaffold")
  /\ catFile' = [catFile EXCEPT ![PathOf(h)] = ScaffoldAnnotation(catOp[h].fp)]
  /\ catKept' = [catKept EXCEPT ![PathOf(h)] = ScaffoldAnnotation(catOp[h].fp)]
  /\ UNCHANGED <<catBinds, catTmp, catLoose, catWrites>>

DescribeEnd(h) ==
  /\ AtStep(h, "scaffold") /\ catOp[h].todo = {} /\ Ends(h)
  /\ UNCHANGED <<catBinds, catFile, catTmp, catKept, catLoose, catWrites>>

(* A user saves an annotation in an editor. *)
Edit(p) ==
  /\ CountWrite
  /\ \E a \in HandWritten :
       /\ catFile' = [catFile EXCEPT ![p] = a] /\ catKept' = [catKept EXCEPT ![p] = a]
  /\ catLoose' = catLoose \cup ({p} \cap UNION {OpPaths(h) : h \in Actors})
  /\ UNCHANGED <<catBinds, catTmp, catOp>>

(* The server dies: an update under way leaves the annotation as it was, a *)
(* scaffold that is being written does not.                                *)
ServerDies ==
  /\ \E h \in CatHandlers : catOp[h] # None
  /\ catOp' = [h \in Actors |-> IF h = CatCli THEN catOp[h] ELSE None]
  /\ catLoose' = catLoose \cup {PathOf(h) : h \in {g \in CatHandlers : AtStep(g, "fill")}}
  /\ UNCHANGED <<catBinds, catFile, catTmp, catKept, catWrites>>

CatNext ==
  \/ Rebind \/ DescribeCli \/ ServerDies
  \/ \E p \in Paths : Edit(p)
  \/ \E h \in CatHandlers : DescribeApi(h) \/ PutTruncate(h) \/ PutWrite(h) \/ PutRename(h)
                         \/ \E r \in Resources, body \in Bodies : PutRead(h, r, body)
  \/ \E h \in Actors : ScaffoldTruncate(h) \/ ScaffoldWrite(h) \/ DescribeEnd(h)

CatSpec == CatInit /\ [][CatNext]_catVars

-----------------------------------------------------------------------------
(* The catalog over the files: duplicates are resolved by the order of the *)
(* directory.                                                              *)
LoadAnnotations(r) == {p \in Paths : Whole(catFile[p]) /\ catFile[p].fp = r}
AnnotationFile(r) == CHOOSE p \in LoadAnnotations(r) : TRUE
ParseErrors == {p \in Paths : catFile[p] = Torn}

DetectDangling(graph) ==
  {AnnotationFile(r) : r \in {x \in Annotated : x \notin DOMAIN DiscoverResources(graph)}}

DetectDuplicates == UNION {LoadAnnotations(r) : r \in {x \in Annotated : Cardinality(LoadAnnotations(x)) > 1}}

MergeColumns(schema, cols) == schema \cup cols

BuildEntry(graph, r) ==
  LET file == IF LoadAnnotations(r) = {} THEN None ELSE AnnotationFile(r)
      a == IF file = None THEN Blank(r) ELSE catFile[file]
  IN [fp |-> r, name |-> Given(a.name, r), team |-> a.team, tags |-> a.tags, file |-> file,
      cols |-> MergeColumns({}, a.cols), derived |-> DiscoverResources(graph)[r]]

MergeCatalog(graph) == {BuildEntry(graph, r) : r \in DOMAIN DiscoverResources(graph)}

(* The API adds the columns of the stored column edges and the end of the  *)
(* last successful run of a producer, the first that has one.              *)
EnrichSchema(e) ==
  [e EXCEPT !.cols = IF SchemaOf[e.fp] = {} THEN @ ELSE MergeColumns(SchemaOf[e.fp], @)]

LastUpdated(e) ==
  LET ran == {p \in e.derived.producers : FinishedAt[p] # None}
  IN IF ran = {} THEN None ELSE FinishedAt[CHOOSE p \in ran : \A q \in ran : p <= q]

BuildCatalog == {EnrichSchema(e) : e \in MergeCatalog(BuildLineageGraph)}

Tokens(e) == {e.name, e.fp} \cup e.tags \cup e.cols \cup ({e.team} \ {None})
Search(entries, query) == IF query = {} THEN {} ELSE {e \in entries : query \subseteq Tokens(e)}

ListResources(query, tag, owner) ==
  {e \in (IF query = None THEN BuildCatalog ELSE Search(BuildCatalog, query)) :
     (tag = None \/ tag \in e.tags) /\ (owner = None \/ e.team = owner)}

GetResource(r) == {e \in BuildCatalog : e.fp = r}
ListTags == UNION {e.tags : e \in BuildCatalog}
ListOwners == {e.team : e \in BuildCatalog} \ {None}

(* The command line: one filter at most, stored bindings only. *)
CliList(tag, owner) ==
  {e \in MergeCatalog(catBinds) :
     IF tag # None THEN tag \in e.tags ELSE owner = None \/ e.team = owner}

CliShow(r) == {e \in MergeCatalog(catBinds) : e.fp = r}
CliSearch(query) == Search(MergeCatalog(catBinds), query)
Validate == [errors |-> ParseErrors, dangling |-> DetectDangling(catBinds), duplicates |-> DetectDuplicates]

-----------------------------------------------------------------------------
Quiet == \A h \in Actors : catOp[h] = None

(* A field keeps the value of the last writer that named it: through       *)
(* updates that name other fields, interrupted ones, restarts and edits by *)
(* hand, wherever no two writers worked on the file at once and no         *)
(* scaffold was cut short.  Such a file always parses.                     *)
AnnotationsSurvive ==
  \A p \in Paths \ catLoose :
    (\A h \in Actors : p \notin OpPaths(h)) => catFile[p] = catKept[p]

(* No annotation is ignored silently: `validate' names the file, or the    *)
(* entry shows it.                                                         *)
NothingIgnored ==
  \A p \in {q \in Paths : catFile[q] # None} :
    \/ p \in Validate.errors \cup Validate.dangling \cup Validate.duplicates
    \/ \E e \in MergeCatalog(catBinds) : e.file = p

(* What an unshared annotation says is found by every route. *)
DocumentedIsFound ==
  \A e \in BuildCatalog : LoadAnnotations(e.fp) = {FileOf[e.fp]} /\ FileOf[e.fp] \notin catLoose =>
    LET a == catKept[FileOf[e.fp]]
    IN /\ \A t \in a.tags : e \in ListResources({t}, t, None) /\ t \in ListTags
       /\ a.team # None => e \in ListResources(None, None, a.team) /\ a.team \in ListOwners
       /\ a.cols \cup SchemaOf[e.fp] \subseteq e.cols /\ GetResource(e.fp) = {e}
       /\ a.name # None => e \in Search(BuildCatalog, {a.name})
       /\ (\E p \in e.derived.producers : FinishedAt[p] # None) => LastUpdated(e) # None

(* The command line shows what the API shows of a resource that has a      *)
(* stored binding, but for what the API adds from runs.                    *)
CliAgrees ==
  \A r \in {b.fp : b \in catBinds} : \A e \in CliShow(r) :
    /\ \E f \in GetResource(r) : f = EnrichSchema([e EXCEPT !.derived = f.derived])
    /\ e \in CliList(None, None) /\ e \in CliSearch({e.name})
    /\ \A t \in e.tags : e \in CliList(t, None)

(* Annotations keep what was said of them, and every route shows it.       *)
CatalogAnswers ==
  AnnotationsSurvive /\ (Quiet => NothingIgnored /\ DocumentedIsFound /\ CliAgrees)
=============================================================================
