--------------------------- MODULE PipelineStore ---------------------------
(***************************************************************************)
(* Pipelines at rest: the JSON file, the metadata row and the version      *)
(* snapshots of the SQLite store, the HTTP handlers that change them, and  *)
(* the output cache that saves invalidate and runs fill.                   *)
(*                                                                         *)
(* A store operation holds the connection's mutex and writes file, row and *)
(* snapshot one after the other, outside a transaction; reads of the cache *)
(* manifest and the writes that follow hold no lock at all.  A pipeline is *)
(* two nodes: a source, whose code saves change, and a transform that is   *)
(* fed by it.                                                              *)
(***************************************************************************)
EXTENDS PipelineIds, Integers, FiniteSets, FiniteSetsExt

CONSTANTS
  Codes,      \* code of the source node
  Handlers,   \* requests of the one server process
  Cli,        \* a command of another process, which has a mutex of its own
  MaxRequests \* bound: requests that are served

VARIABLES
  file,     \* file[p]: the definition in <id>.json, None if there is none
  row,      \* row[p]: the pipelines row, its name and run count
  versions, \* versions[p]: pipeline_versions, snapshots by version number
  used,     \* ids that were given out
  lock,     \* the handler that holds the connection's mutex
  op,       \* op[h]: what a handler is doing
  served,   \* requests taken so far
  outputs,  \* outputs[n]: the Arrow file of each node cached under a name
  manifest, \* manifest[n]: the fingerprint of each cached node, or None
  torn,     \* ghost: ids whose operation was cut off between two writes
  mixed     \* ghost: names whose cache no longer follows the saves

storeVars == <<file, row, versions, used, lock, op, served, outputs, manifest, torn, mixed>>
stored == <<file, row, versions, used, torn>>
cached == <<outputs, manifest>>

CachedNodes == {"source", "transform"}
Defs == [name : Names, code : Codes]

(* Absence is no request, and no value that is stored where a value may be  *)
(* missing; the command is a process of its own.                            *)
ASSUME StoreAssumption ==
  /\ None \notin Handlers /\ Cli \notin Handlers
  /\ None \notin Names /\ None \notin Defs
  /\ None \notin [name : Names, runs : Nat] /\ None \notin [name : Names, code : Codes, n : Nat]
  /\ None \notin [CachedNodes -> Codes \cup {"transform"}]

Idle == [pc |-> "idle", id |-> None, def |-> None, old |-> None, n |-> 0, seen |-> None]

(* What a node is hashed to: its own config and code and the ids of its    *)
(* upstream nodes, never the upstream's code.                              *)
Fingerprint(d, x) == IF x = "source" THEN d.code ELSE "transform"

(* The transitive downstream of a set of nodes. *)
WithDownstreamMutant(changed) == changed \* nodes below a changed one are kept
WithDownstream(changed) == changed \cup IF changed = {} THEN {} ELSE {"transform"}

(* What a run of d computes for either node: both depend on the source.    *)
Output(d, x) == <<x, d.code>>

NoManifest == [x \in CachedNodes |-> None]
Named(n) == {p \in Pipelines : row[p] # None /\ row[p].name = n}
Latest(p) == Max({v.n : v \in versions[p]} \cup {0})

(* The number of a save: one more than the newest snapshot's, or than the   *)
(* definition's own version (1, as sent) when no snapshot is there.         *)
NextVersionMutant(p) == 2 \* the version field that was sent is believed
NextVersion(p) == IF Latest(p) > 0 THEN Latest(p) + 1 ELSE 2

StoreInit ==
  /\ file = [p \in Pipelines |-> None] /\ row = [p \in Pipelines |-> None]
  /\ versions = [p \in Pipelines |-> {}] /\ used = {}
  /\ lock = None
  /\ op = [h \in Handlers \cup {Cli} |-> Idle] /\ served = 0
  /\ outputs = [n \in Names |-> NoManifest]
  /\ manifest = [n \in Names |-> None]
  /\ torn = {} /\ mixed = {}

Free == lock = None

(* An idle handler takes a request. *)
Take(h) == op[h].pc = "idle" /\ served < MaxRequests /\ served' = served + 1
Goto(h, pc) == op' = [op EXCEPT ![h].pc = pc]
Finish(h) == op' = [op EXCEPT ![h] = Idle]

(* The names a request works on, and those of the others in flight.        *)
NamesOf(o) == {n \in Names : \/ o.old = n
                             \/ o.def # None /\ o.def.name = n}
Busy(h) == UNION {NamesOf(op[g]) : g \in (Handlers \cup {Cli}) \ {h}}

-----------------------------------------------------------------------------
(* Store operations.                                                        *)

(* create: refuse a name in use; version 1; write the file under the lock.  *)
Create(h, p, d) ==
  /\ Free
  /\ IF Named(d.name) # {}
     THEN Finish(h) /\ UNCHANGED <<file, lock, used, mixed>>
     ELSE /\ p \notin used
          /\ file' = [file EXCEPT ![p] = [name |-> d.name, code |-> d.code, n |-> 1]]
          /\ used' = used \cup {p} /\ lock' = h
          /\ op' = [op EXCEPT ![h] = [Idle EXCEPT !.pc = "insertRow", !.id = p, !.def = d, !.n = 1]]
          /\ mixed' = mixed \cup ({d.name} \cap Busy(h))
  /\ UNCHANGED <<row, versions, torn>> /\ UNCHANGED cached

(* create: INSERT INTO pipelines.                                           *)
InsertRow(h) ==
  /\ op[h].pc = "insertRow"
  /\ row' = [row EXCEPT ![op[h].id] = [name |-> op[h].def.name, runs |-> 0]]
  /\ Goto(h, "created")
  /\ UNCHANGED <<served, file, versions, used, lock, torn, mixed>> /\ UNCHANGED cached

(* update: refuse the name of another pipeline; number the save; overwrite  *)
(* the file, before it is known that the row exists.                        *)
Update(h, p, d, after) ==
  /\ Free
  /\ LET n   == NextVersion(p)
         old == IF row[p] = None THEN None ELSE row[p].name
     IN  IF Named(d.name) \ {p} # {}
         THEN Finish(h) /\ UNCHANGED <<file, lock, mixed>>
         ELSE /\ n <= MaxVersion
              /\ file' = [file EXCEPT ![p] = [name |-> d.name, code |-> d.code, n |-> n]]
              /\ lock' = h
              /\ op' = [op EXCEPT ![h] =
                         [Idle EXCEPT !.pc = after, !.id = p, !.def = d, !.old = old, !.n = n]]
              /\ mixed' = mixed
                   \cup ({d.name, old} \cap Busy(h))
                   \cup (IF old \in Names \ {d.name} THEN {old, d.name} ELSE {})
                   \cup (IF after = "replaceRow" THEN {d.name} ELSE {})
  /\ UNCHANGED <<row, versions, used, torn>> /\ UNCHANGED cached

(* update: UPDATE pipelines; no row is NotFound, with the file written.     *)
UpdateRow(h) ==
  /\ op[h].pc \in {"updateRow", "replaceRow"}
  /\ LET p == op[h].id IN
     IF row[p] = None
     THEN lock' = None /\ Finish(h) /\ UNCHANGED row
     ELSE /\ row' = [row EXCEPT ![p].name = op[h].def.name]
          /\ Goto(h, IF op[h].pc = "updateRow" THEN "saved" ELSE "replaced")
          /\ UNCHANGED lock
  /\ UNCHANGED <<served, file, versions, used, torn, mixed>> /\ UNCHANGED cached

(* create and update: INSERT INTO pipeline_versions, which a second row of  *)
(* the same number fails; the mutex is released.  An update re-reads the    *)
(* record next.                                                             *)
InsertVersion(h) ==
  /\ op[h].pc \in {"created", "saved", "replaced"}
  /\ LET p == op[h].id
         v == [n |-> op[h].n, name |-> op[h].def.name, code |-> op[h].def.code]
     IN  IF \E w \in versions[p] : w.n = v.n
         THEN Finish(h) /\ UNCHANGED versions
         ELSE /\ versions' = [versions EXCEPT ![p] = @ \cup {v}]
              /\ IF op[h].pc = "saved" THEN Goto(h, "reread") ELSE Finish(h)
  /\ lock' = None
  /\ UNCHANGED <<served, file, row, used, torn, mixed>> /\ UNCHANGED cached

(* get: row and file are read under one hold of the mutex.                  *)
Got(p) == Free /\ row[p] # None /\ file[p] # None
Record(p) == [name |-> file[p].name, code |-> file[p].code]

(* list: the rows, then (after the mutex) their files; one that is missing  *)
(* fails the whole list.                                                    *)
Listed == {p \in Pipelines : row[p] # None}
ListFails == \E p \in Listed : file[p] = None
List == {Record(p) : p \in Listed}

-----------------------------------------------------------------------------
(* The HTTP handlers.                                                       *)

ListPipelines == IF ListFails THEN {} ELSE List

(* bulk_export: an object keyed by the names in the definitions.            *)
BulkExport == {d.name : d \in ListPipelines}

CreatePipeline(h, p, d) == Take(h) /\ Create(h, p, d)
UpdatePipeline(h, p, d) == Take(h) /\ p \in used /\ Update(h, p, d, "updateRow")

(* restore_version: the snapshot is saved as a new version; the cache is    *)
(* left alone.                                                              *)
RestoreVersion(h, p, v) ==
  /\ Take(h)
  /\ v \in versions[p]
  /\ Update(h, p, [name |-> v.name, code |-> v.code], "replaceRow")

(* import_pipeline: get_by_name decides between a new pipeline, a refusal,  *)
(* a copy under another name and an overwrite.  It has let go of the mutex  *)
(* when it reads the file and when the store is called again.               *)
Import(h, d, conflict) ==
  /\ Take(h) /\ Free
  /\ op' = [op EXCEPT ![h] =
       IF Named(d.name) = {} THEN [Idle EXCEPT !.pc = "importCreate", !.def = d]
       ELSE IF conflict = "reject" THEN Idle
       ELSE LET p == CHOOSE q \in Named(d.name) : TRUE IN
            [Idle EXCEPT !.pc = "importRead", !.def = d, !.id = p,
                         !.old = IF conflict = "rename" THEN None ELSE d.name]]
  /\ UNCHANGED <<stored, lock, mixed>> /\ UNCHANGED cached

(* get_by_name, after the lock: the file may be gone by now, an error.      *)
ImportRead(h) ==
  /\ op[h].pc = "importRead"
  /\ op' = [op EXCEPT ![h] =
       IF file[op[h].id] = None THEN Idle
       ELSE IF op[h].old = op[h].def.name THEN [@ EXCEPT !.pc = "importUpdate"]
       ELSE LET free == {n \in Names : Named(n) = {}} IN
            IF free = {} THEN Idle
            ELSE [Idle EXCEPT !.pc = "importCreate",
                    !.def = [name |-> CHOOSE n \in free : TRUE, code |-> op[h].def.code]]]
  /\ UNCHANGED <<served, stored, lock, mixed>> /\ UNCHANGED cached

ImportCreate(h, p) == op[h].pc = "importCreate" /\ UNCHANGED served /\ Create(h, p, op[h].def)
ImportUpdate(h) == op[h].pc = "importUpdate" /\ UNCHANGED served /\ Update(h, op[h].id, op[h].def, "replaceRow")

(* delete_pipeline: the name is read for the cache; delete removes the      *)
(* snapshots and the row under the mutex, the file after it.                *)
DeletePipeline(h, p) ==
  /\ Take(h) /\ Got(p)
  /\ versions' = [versions EXCEPT ![p] = {}]
  /\ row' = [row EXCEPT ![p] = None]
  /\ op' = [op EXCEPT ![h] = [Idle EXCEPT !.pc = "unlink", !.id = p, !.old = file[p].name]]
  /\ mixed' = mixed \cup ({file[p].name} \cap Busy(h))
  /\ UNCHANGED <<file, used, lock, torn>> /\ UNCHANGED cached

Unlink(h) ==
  /\ op[h].pc = "unlink"
  /\ file' = [file EXCEPT ![op[h].id] = None]
  /\ Goto(h, "dropCache")
  /\ UNCHANGED <<served, row, versions, used, lock, torn, mixed>> /\ UNCHANGED cached

(* OutputCache::delete_pipeline: the directory of the name.                 *)
DropCache(h) ==
  /\ op[h].pc = "dropCache"
  /\ outputs' = [outputs EXCEPT ![op[h].old] = NoManifest]
  /\ manifest' = [manifest EXCEPT ![op[h].old] = None]
  /\ Finish(h)
  /\ UNCHANGED <<served, stored, lock, mixed>>

-----------------------------------------------------------------------------
(* The output cache.                                                        *)

(* update: self.get; update_pipeline: invalidate_changed reads the manifest *)
(* of the saved name, and stops when there is none.                         *)
ReadForSave(h) ==
  /\ op[h].pc = "reread" /\ Free
  /\ op' = [op EXCEPT ![h] =
       IF ~Got(op[h].id) \/ manifest[Record(op[h].id).name] = None THEN Idle
       ELSE [@ EXCEPT !.pc = "invalidate", !.def = Record(op[h].id),
                      !.seen = manifest[Record(op[h].id).name]]]
  /\ UNCHANGED <<served, stored, lock, mixed>> /\ UNCHANGED cached

(* invalidate_changed: nodes whose fingerprint is not the one read, and all *)
(* that is downstream of them, lose their file and their entry; what was    *)
(* read, without them, is written back.                                     *)
InvalidateChanged(h) ==
  /\ op[h].pc = "invalidate"
  /\ LET d    == op[h].def
         gone == WithDownstream({x \in CachedNodes : op[h].seen[x] # Fingerprint(d, x)})
     IN  /\ outputs' = [outputs EXCEPT ![d.name] = [x \in CachedNodes |-> IF x \in gone THEN None ELSE @[x]]]
         /\ manifest' = [manifest EXCEPT ![d.name] =
                          [x \in CachedNodes |-> IF x \in gone THEN None ELSE op[h].seen[x]]]
  /\ Finish(h)
  /\ UNCHANGED <<served, stored, lock, mixed>>

(* run_pipeline: the record is read once, and the run works on it.          *)
RunPipeline(h, p) ==
  /\ Take(h) /\ Got(p)
  /\ op' = [op EXCEPT ![h] = [Idle EXCEPT !.pc = "running", !.id = p, !.def = Record(p)]]
  /\ mixed' = mixed \cup ({file[p].name} \cap Busy(h))
  /\ UNCHANGED <<stored, lock>> /\ UNCHANGED cached

(* The executor fails the run: nothing is cached and nothing is recorded.   *)
RunFails(h) ==
  /\ op[h].pc = "running" /\ h # Cli
  /\ Finish(h)
  /\ UNCHANGED <<served, stored, lock, mixed>> /\ UNCHANGED cached

(* cache_pipeline_outputs: the manifest is read, a file is written for each *)
(* node that is no sink, and the manifest with their fingerprints is        *)
(* written back.                                                            *)
CacheFiles(h) ==
  /\ op[h].pc = "running"
  /\ outputs' = [outputs EXCEPT ![op[h].def.name] = [x \in CachedNodes |-> Output(op[h].def, x)]]
  /\ Goto(h, "cacheManifest")
  /\ UNCHANGED <<served, stored, lock, manifest, mixed>>

CacheManifest(h) ==
  /\ op[h].pc = "cacheManifest"
  /\ manifest' = [manifest EXCEPT ![op[h].def.name] =
                   [x \in CachedNodes |-> Fingerprint(op[h].def, x)]]
  /\ IF h = Cli THEN Finish(h) ELSE Goto(h, "recordRun")
  /\ UNCHANGED <<served, stored, lock, outputs, mixed>>

(* record_run: run_count + 1; a pipeline that is gone is only logged.       *)
CountRun(r) == IF r = None THEN None ELSE [r EXCEPT !.runs = @ + 1]

RecordRun(h) ==
  /\ op[h].pc = "recordRun" /\ Free
  /\ row' = [row EXCEPT ![op[h].id] = CountRun(@)]
  /\ Finish(h)
  /\ UNCHANGED <<served, file, versions, used, lock, torn, mixed>> /\ UNCHANGED cached

(* armillary run: the record is read beside the server, whatever it is      *)
(* writing; the run is recorded when it ends, failed or not, and its        *)
(* outputs are cached after that.                                           *)
CliRun(p) ==
  /\ Take(Cli) /\ row[p] # None /\ file[p] # None
  /\ op' = [op EXCEPT ![Cli] = [Idle EXCEPT !.pc = "executing", !.id = p, !.def = Record(p)]]
  /\ mixed' = mixed \cup ({file[p].name} \cap Busy(Cli))
  /\ UNCHANGED <<stored, lock>> /\ UNCHANGED cached

CliRecordRun(succeeded) ==
  /\ op[Cli].pc = "executing"
  /\ row' = [row EXCEPT ![op[Cli].id] = CountRun(@)]
  /\ IF succeeded THEN Goto(Cli, "running") ELSE Finish(Cli)
  /\ UNCHANGED <<served, file, versions, used, lock, torn, mixed>> /\ UNCHANGED cached

(* read_node: a file is taken as it is; the manifest is not asked whether   *)
(* its fingerprint is still the node's.                                     *)
ReadNode(n, x) == outputs[n][x]

(* re_execute_node: a source is scanned again; a transform runs on what is  *)
(* cached of its upstream, and has no result when that is missing.          *)
ReExecute(d, x) ==
  IF x = "source" THEN Output(d, x)
  ELSE IF ReadNode(d.name, "source") = None THEN None
  ELSE <<x, ReadNode(d.name, "source")[2]>>

(* PipelineExecutor::preview: every node from its cache, one at most from   *)
(* a new execution that is not cached.                                      *)
Preview(d, again) == [x \in CachedNodes |-> IF x = again THEN ReExecute(d, x) ELSE ReadNode(d.name, x)]

PreviewPipeline(p, again) == Preview(Record(p), again)
CliPreview(p) == Preview(Record(p), None)

-----------------------------------------------------------------------------
(* The process ends between two writes, and starts again.                   *)
Crash ==
  /\ \E h \in Handlers : op[h].pc # "idle"
  /\ torn' = torn \cup {op[h].id : h \in {g \in Handlers :
       op[g].pc \in {"insertRow", "created", "updateRow", "replaceRow", "saved", "replaced"}}}
  /\ mixed' = mixed \cup UNION {NamesOf(op[h]) : h \in Handlers}
  /\ op' = [h \in Handlers \cup {Cli} |-> IF h = Cli THEN op[h] ELSE Idle] /\ lock' = None
  /\ UNCHANGED <<served, file, row, versions, used>> /\ UNCHANGED cached

StoreNext ==
  \/ \E h \in Handlers, p \in Pipelines :
       \/ \E d \in Defs : CreatePipeline(h, p, d) \/ UpdatePipeline(h, p, d)
       \/ \E v \in versions[p] : RestoreVersion(h, p, v)
       \/ ImportCreate(h, p) \/ DeletePipeline(h, p) \/ RunPipeline(h, p)
  \/ \E h \in Handlers :
       \/ \E d \in Defs, c \in {"reject", "rename", "overwrite"} : Import(h, d, c)
       \/ InsertRow(h) \/ UpdateRow(h) \/ InsertVersion(h)
       \/ ImportRead(h) \/ ImportUpdate(h) \/ Unlink(h) \/ DropCache(h)
       \/ ReadForSave(h) \/ InvalidateChanged(h)
       \/ RunFails(h) \/ RecordRun(h)
  \/ \E h \in Handlers \cup {Cli} : CacheFiles(h) \/ CacheManifest(h)
  \/ \E p \in Pipelines : CliRun(p)
  \/ \E succeeded \in BOOLEAN : CliRecordRun(succeeded)
  \/ Crash

StoreSpec == StoreInit /\ [][StoreNext]_storeVars

-----------------------------------------------------------------------------
(* Between two store operations, a pipeline that no crash has torn has a    *)
(* file, its row has the file's name, and its newest snapshot is the file:  *)
(* three writes without a transaction, kept together by the mutex alone.    *)
(* So, without a crash, an export has as many pipelines as there are rows.  *)
SnapshotMatchesFile ==
  Free => \A p \in Pipelines \ torn : row[p] # None =>
    /\ file[p] # None
    /\ file[p].name = row[p].name
    /\ file[p].n = Latest(p)
    /\ [n |-> file[p].n, name |-> file[p].name, code |-> file[p].code] \in versions[p]
    /\ torn = {} => Cardinality(BulkExport) = Cardinality(Listed)

(* What a preview shows of a pipeline is what its saved definition computes *)
(* as long as no two requests worked on its name at once, it was not        *)
(* renamed, restored or overwritten by an import, and no crash cut one off: *)
(* after a save, nothing of an older source is left, in either node.        *)
CacheFollowsSaves ==
  \A p \in Pipelines : row[p] # None /\ Free =>
    LET n == row[p].name IN
    \/ n \in mixed
    \/ n \in UNION {NamesOf(op[h]) : h \in Handlers \cup {Cli}}
    \/ \A x \in CachedNodes : /\ CliPreview(p)[x] \in {None, Output(Record(p), x)}
                       /\ \A y \in CachedNodes : PreviewPipeline(p, y)[x] \in {None, Output(Record(p), x)}
=============================================================================
