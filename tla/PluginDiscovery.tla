---------------------------- MODULE PluginDiscovery ---------------------------
(***************************************************************************)
(* Discovery of plugins: the directories of each scan root are loaded in   *)
(* the order the file system gives them, later roots shadow earlier ones,  *)
(* and each sink type is indexed to the plugin that provides it.  The      *)
(* connectors of a process are built from the first scan; a reload scans   *)
(* again while the directories are being changed.                          *)
(***************************************************************************)
EXTENDS Absent, Integers, Sequences, FiniteSets, FiniteSetsExt, Functions

CONSTANTS
  Manifests,      \* what a plugin.toml may hold
  Builtins,       \* sink types with a connector of their own
  Types, Strategies,
  MaxScans, MaxEdits

VARIABLES
  pdRoots,        \* root -> directory -> manifest
  pdScan,         \* [stage, root, left, count]
  pdReg,          \* the registry being built
  pdListed,       \* the registry of the server's state
  pdUsed,         \* the registry the plugin sink was built with
  pdConnectors,   \* sink type -> builtin or plugin
  pdEdits

pdVars == <<pdRoots, pdScan, pdReg, pdListed, pdUsed, pdConnectors, pdEdits>>

Nothing == [x \in {} |-> None]

(* plugins: name -> [sinks, caps, status, root]; index: sink type -> name;  *)
(* displaced: a good plugin was replaced by a copy that is not.            *)
EmptyRegistry == [plugins |-> Nothing, index |-> Nothing, displaced |-> FALSE]

Put(f, x, y) == [z \in DOMAIN f \cup {x} |-> IF z = x THEN y ELSE f[z]]

(* Manifest::from_str and validate: its fields, versions and protocol are    *)
(* right, and it declares a sink.                                          *)
WellFormed(manifest) == manifest.parses /\ manifest.sinks # {}

(* load_plugin: the entry is named after its directory.                    *)
Loaded(dir, manifest, root) ==
  [name |-> dir, root |-> root,
   sinks |-> IF WellFormed(manifest) THEN manifest.sinks ELSE {},
   caps |-> manifest.caps,
   status |-> IF WellFormed(manifest) /\ manifest.name = dir THEN "ok" ELSE "invalid"]

-----------------------------------------------------------------------------
(* PluginRegistry::install                                                 *)
Collides(reg, p) ==
  p.status = "ok" /\ \E t \in p.sinks : t \in DOMAIN reg.index /\ reg.index[t] # p.name

(* A colliding plugin replaces its namesake, whose index entries stay.     *)
Downgrade(reg, p) ==
  [reg EXCEPT !.plugins = Put(@, p.name, [p EXCEPT !.status = "invalid"]),
              !.displaced = @ \/ (p.name \in DOMAIN reg.plugins /\ p.name \in Range(reg.index))]

ForgetSinksMutant(reg, name) == reg.index      \* the shadowed copy's types stay

ForgetSinks(reg, name) ==
  IF name \notin DOMAIN reg.plugins THEN reg.index
  ELSE Restrict(reg.index, {t \in DOMAIN reg.index :
         ~(t \in reg.plugins[name].sinks /\ reg.index[t] = name)})

Replace(reg, p) ==
  LET kept == ForgetSinks(reg, p.name)
      added == IF p.status = "ok" THEN p.sinks ELSE {}
  IN [reg EXCEPT !.plugins = Put(@, p.name, p),
                 !.index = [t \in DOMAIN kept \cup added |-> IF t \in added THEN p.name ELSE kept[t]]]

Install(reg, p) == IF Collides(reg, p) THEN Downgrade(reg, p) ELSE Replace(reg, p)

(* default_registry_with_plugins: built-in sinks win.                      *)
Connectors(reg) ==
  LET provided == UNION {reg.plugins[n].sinks : n \in {m \in DOMAIN reg.plugins : reg.plugins[m].status = "ok"}}
  IN [t \in Builtins \cup provided |-> IF t \in Builtins THEN "builtin" ELSE "plugin"]

-----------------------------------------------------------------------------
(* discover_plugins, entry by entry                                        *)
BeginScan ==
  /\ pdScan.stage = "idle" /\ pdScan.count < MaxScans
  /\ pdScan' = [stage |-> "scan", root |-> 1, left |-> DOMAIN pdRoots[1], count |-> pdScan.count + 1]
  /\ pdReg' = EmptyRegistry
  /\ UNCHANGED <<pdRoots, pdListed, pdUsed, pdConnectors, pdEdits>>

ScanDir(dir) ==
  /\ pdScan.stage = "scan" /\ dir \in pdScan.left
  /\ pdScan' = [pdScan EXCEPT !.left = @ \ {dir}]
  /\ pdReg' = IF dir \notin DOMAIN pdRoots[pdScan.root] THEN pdReg
              ELSE Install(pdReg, Loaded(dir, pdRoots[pdScan.root][dir], pdScan.root))
  /\ UNCHANGED <<pdRoots, pdListed, pdUsed, pdConnectors, pdEdits>>

NextRoot ==
  /\ pdScan.stage = "scan" /\ pdScan.left = {} /\ pdScan.root < Len(pdRoots)
  /\ pdScan' = [pdScan EXCEPT !.root = @ + 1, !.left = DOMAIN pdRoots[pdScan.root + 1]]
  /\ UNCHANGED <<pdRoots, pdReg, pdListed, pdUsed, pdConnectors, pdEdits>>

(* A reload replaces what the API lists, and nothing else.                 *)
Publish ==
  /\ pdScan.stage = "scan" /\ pdScan.left = {} /\ pdScan.root = Len(pdRoots)
  /\ pdScan' = [pdScan EXCEPT !.stage = "idle"]
  /\ pdListed' = pdReg
  /\ IF pdScan.count = 1
     THEN pdUsed' = pdReg /\ pdConnectors' = Connectors(pdReg)
     ELSE UNCHANGED <<pdUsed, pdConnectors>>
  /\ UNCHANGED <<pdRoots, pdReg, pdEdits>>

(* Somebody installs, changes or removes a plugin.                         *)
Edit(root, dir, manifest) ==
  /\ pdEdits < MaxEdits /\ pdScan.count > 0
  /\ pdEdits' = pdEdits + 1
  /\ pdRoots' = [pdRoots EXCEPT ![root] =
                   IF manifest = None THEN Restrict(@, DOMAIN @ \ {dir}) ELSE Put(@, dir, manifest)]
  /\ UNCHANGED <<pdScan, pdReg, pdListed, pdUsed, pdConnectors>>

(* validate_pipeline for a sink node, with PluginSink::validate_config and   *)
(* the check of the materialization against the declared capabilities; a   *)
(* plugin that declares none only appends.                                 *)
Supports(p, strategy) ==
  strategy = None \/ strategy \in (IF p.caps = {} THEN {"append"} ELSE p.caps)

SinkError(type, strategy) ==
  IF type \notin DOMAIN pdConnectors THEN "not registered"
  ELSE IF pdConnectors[type] = "builtin" THEN None
  ELSE IF type \notin DOMAIN pdUsed.index THEN "no plugin"
  ELSE LET p == pdUsed.plugins[pdUsed.index[type]] IN
    IF p.status # "ok" THEN "not loadable"
    ELSE IF type \notin p.sinks THEN "not declared"
    ELSE IF ~Supports(p, strategy) THEN "strategy" ELSE None

(* An override may only name fields of a connector the program knows.      *)
OverrideError(type, key) == type \in Builtins /\ key = "unknown"

ValidSink(type, strategy, key) ==
  SinkError(type, strategy) = None /\ ~OverrideError(type, key)

DiscoveryInit(roots) ==
  /\ pdRoots \in roots
  /\ pdScan = [stage |-> "idle", root |-> 1, left |-> {}, count |-> 0]
  /\ pdReg = EmptyRegistry /\ pdListed = EmptyRegistry /\ pdUsed = None
  /\ pdConnectors = Nothing /\ pdEdits = 0

DiscoveryNext ==
  \/ BeginScan \/ NextRoot \/ Publish
  \/ \E dir \in pdScan.left : ScanDir(dir)
  \/ \E root \in DOMAIN pdRoots, m \in Manifests \cup {None} : Edit(root, "b", m)

DiscoverySpec(roots) == DiscoveryInit(roots) /\ [][DiscoveryNext]_pdVars

(* Scan roots are a list that is not empty, and None is no error.          *)
RootsAreLists(roots) == \A r \in roots : r \in Seq(Range(r)) /\ Len(r) > 0
ErrorsDistinct == None \notin {"not registered", "no plugin", "not loadable", "not declared", "strategy"}

-----------------------------------------------------------------------------
(* In a registry every name has one plugin, the one of the last root that    *)
(* has it; no two good plugins provide the same sink type, and each type   *)
(* leads to the good plugin that provides it, unless a copy that collided  *)
(* with another plugin took the place of a good one.                       *)
Owners(reg, t) == {n \in DOMAIN reg.plugins : reg.plugins[n].status = "ok" /\ t \in reg.plugins[n].sinks}

RegistryIsSound(reg) ==
  /\ \A t \in Types : Cardinality(Owners(reg, t)) <= 1
  /\ \A n \in DOMAIN reg.plugins : reg.plugins[n].status = "ok" =>
       \A t \in reg.plugins[n].sinks : t \in DOMAIN reg.index /\ reg.index[t] = n
  /\ Range(reg.index) \subseteq DOMAIN reg.plugins
  /\ ~reg.displaced => \A t \in DOMAIN reg.index : Owners(reg, t) = {reg.index[t]}

LastRoot(dir) == Max({r \in DOMAIN pdRoots : dir \in DOMAIN pdRoots[r]})

(* What a scan of unchanging directories finds; and a sink that passes       *)
(* validation is a built-in one or belongs to a good plugin that declared  *)
(* its type and its strategy when the process started, reloaded or not.    *)
DiscoveryHolds ==
  /\ RegistryIsSound(pdReg) /\ RegistryIsSound(pdListed)
  /\ pdEdits = 0 /\ pdScan.count > 0 /\ pdScan.stage = "idle" =>
       /\ DOMAIN pdListed.plugins = UNION {DOMAIN pdRoots[r] : r \in DOMAIN pdRoots}
       /\ \A n \in DOMAIN pdListed.plugins : pdListed.plugins[n].root = LastRoot(n)
  /\ pdUsed # None =>
       \A t \in Types, s \in Strategies \cup {None}, k \in {"known", "unknown"} : ValidSink(t, s, k) =>
         \/ t \in Builtins /\ pdConnectors[t] = "builtin"
         \/ \E p \in Range(pdUsed.plugins) : p.status = "ok" /\ t \in p.sinks /\ Supports(p, s)
=============================================================================
