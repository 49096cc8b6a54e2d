----------------------------- MODULE PipelineLoad ----------------------------
(***************************************************************************)
(* Loading a pipeline file: legacy sinks are migrated, snippet calls are   *)
(* expanded from a directory of definitions, and the result is validated.  *)
(* An identifier is the sequence of names its dots separate; a text (code, *)
(* config, parameter value) is a sequence of tokens: a table reference, a  *)
(* template variable, or a literal.                                        *)
(***************************************************************************)
EXTENDS Integers, Sequences, FiniteSets, SequencesExt, FiniteSetsExt

CONSTANTS
  MaxDepth,     \* MAX_DEPTH of nested expansion
  None

VARIABLES
  ldInput,      \* [file, lib]: a pipeline and the snippets directory
  ldStage,      \* file, migrated, registered, expanded, loaded or refused
  ldPipe,       \* the pipeline so far
  ldError       \* why it was refused

ldVars == <<ldInput, ldStage, ldPipe, ldError>>

Ref(id) == [tok |-> "ref", id |-> id]
Var(name) == [tok |-> "var", id |-> <<name>>]
Lit(text) == [tok |-> "lit", id |-> <<text>>]

Transform(id, code) ==
  [id |-> id, kind |-> "transform", code |-> code, call |-> None, given |-> <<>>, write |-> None]
Source(id, code) == [Transform(id, code) EXCEPT !.kind = "source"]
Sink(id, write) == [Transform(id, <<>>) EXCEPT !.kind = "sink", !.write = write]
Call(id, name, given) ==
  [Transform(id, <<>>) EXCEPT !.kind = "call", !.call = name, !.given = given]

(* A pipeline; a snippet also declares parameters, name -> type.           *)
Pipe(params, nodes, edges) == [params |-> params, nodes |-> nodes, edges |-> edges, error |-> None]

Value(type, text) == [type |-> type, text |-> text]

Ids(nodes) == {n.id : n \in ToSet(nodes)}
HasCalls(p) == \E n \in ToSet(p.nodes) : n.call # None
Fail(why) == [Pipe(<<>>, <<>>, <<>>) EXCEPT !.error = why]

-----------------------------------------------------------------------------
(* migrate_legacy_sinks: a legacy write mode becomes a policy; an unknown   *)
(* mode stays, and a sink inside a snippet is not looked at.               *)
Migrated(n) ==
  IF n.write \in {"insert", "upsert", "truncate_insert"} THEN [n EXCEPT !.write = "policy"]
  ELSE IF n.write = "upsert_no_keys" THEN [n EXCEPT !.write = "policy_no_keys"] ELSE n

(* SnippetRegistry::load_from_dir and validate_definition                   *)
Registers(lib) ==
  \A s \in DOMAIN lib : \A o \in lib[s].outputs : Len(o) > 1 \/ o \in Ids(lib[s].def.nodes)

(* The checks of a call, in the order they are made.                       *)
CallError(call, lib, stack) ==
  IF call.call \notin DOMAIN lib THEN "unknown snippet"
  ELSE LET params == lib[call.call].def.params IN
    IF call.call \in ToSet(stack) THEN "cycle"
    ELSE IF \E p \in DOMAIN params : p \notin DOMAIN call.given THEN "missing parameter"
    ELSE IF \E p \in DOMAIN params : call.given[p].type # params[p] THEN "parameter type"
    ELSE IF DOMAIN call.given # DOMAIN params THEN "unknown parameter"
    ELSE None

(* interpolate with the call's parameters: any other variable is erased.   *)
Interpolate(text, given) ==
  FlattenSeq([i \in DOMAIN text |->
    IF text[i].tok # "var" THEN <<text[i]>>
    ELSE IF text[i].id[1] \in DOMAIN given THEN given[text[i].id[1]].text ELSE <<>>])

(* The pairs of old and new identifiers are applied one after the other.    *)
RenameMutant(id, pairs) == id     \* edges keep the snippet's own names

Rename(id, pairs) == FoldLeft(LAMBDA x, pair : IF x = pair[1] THEN pair[2] ELSE x, id, pairs)

RewriteSql(text, pairs) ==
  [i \in DOMAIN text |->
    IF text[i].tok = "ref" THEN [text[i] EXCEPT !.id = Rename(@, pairs)] ELSE text[i]]

(* One call site's inner nodes, renamed and with its parameters filled in.  *)
Placed(n, site, pairs) ==
  LET text == Interpolate(n.code, site.given) IN
  [n EXCEPT !.id = site.id \o @,
            !.code = IF n.kind = "transform" THEN RewriteSql(text, pairs) ELSE text]

Collides(ids, taken) == ~IsInjective(ids) \/ ToSet(ids) \cap taken # {}

RECURSIVE Expand(_, _, _, _)
(* expand_rec: calls are replaced in order, nested ones first.             *)
Expand(p, lib, depth, stack) ==
  IF depth > MaxDepth THEN Fail("too deep")
  ELSE IF ~HasCalls(p) THEN p
  ELSE LET
    Step(acc, n) ==
      IF acc.error # None THEN acc
      ELSE IF n.call = None THEN [acc EXCEPT !.nodes = Append(@, n)]
      ELSE IF CallError(n, lib, stack) # None THEN Fail(CallError(n, lib, stack))
      ELSE LET inner == Expand(lib[n.call].def, lib, depth + 1, Append(stack, n.call))
               ids == [i \in DOMAIN inner.nodes |-> n.id \o inner.nodes[i].id]
               pairs == [i \in DOMAIN inner.nodes |-> <<inner.nodes[i].id, ids[i]>>]
           IN IF inner.error # None THEN inner
              ELSE IF Collides(ids, Ids(p.nodes) \cup acc.fresh) THEN Fail("collision")
              ELSE [acc EXCEPT
                     !.nodes = @ \o [i \in DOMAIN ids |-> Placed(inner.nodes[i], n, pairs)],
                     !.edges = @ \o [i \in DOMAIN inner.edges |->
                        <<Rename(inner.edges[i][1], pairs), Rename(inner.edges[i][2], pairs)>>],
                     !.fresh = @ \cup ToSet(ids)]
    done == FoldLeft(Step, [nodes |-> <<>>, edges |-> p.edges, fresh |-> {}, error |-> None], p.nodes)
    IN IF done.error # None THEN Fail(done.error) ELSE [p EXCEPT !.nodes = done.nodes, !.edges = done.edges]

-----------------------------------------------------------------------------
(* validate_import with dag::validate                                      *)
RECURSIVE Peel(_, _)
Peel(ids, edges) ==
  LET ready == {n \in ids : \A e \in edges : e[2] = n => e[1] \notin ids}
  IN IF ready = {} THEN ids ELSE Peel(ids \ ready, edges)

Upstream(n, p) == \E e \in ToSet(p.edges) : e[2] = n.id
Downstream(n, p) == \E e \in ToSet(p.edges) : e[1] = n.id

SoundNode(n, p) ==
  /\ n.kind = "source" => ~Upstream(n, p)
  /\ n.kind = "transform" => Upstream(n, p)
  /\ n.kind = "sink" => Upstream(n, p) /\ ~Downstream(n, p)
  /\ Len(p.nodes) > 1 => Upstream(n, p) \/ Downstream(n, p)
  /\ n.write # "policy_no_keys"

SoundDagMutant(p) ==              \* cycles are not looked for
  /\ IsInjective([i \in DOMAIN p.nodes |-> p.nodes[i].id])
  /\ \A e \in ToSet(p.edges) : {e[1], e[2]} \subseteq Ids(p.nodes)

SoundDag(p) ==
  /\ IsInjective([i \in DOMAIN p.nodes |-> p.nodes[i].id])
  /\ IsInjective(p.edges)
  /\ \A e \in ToSet(p.edges) : {e[1], e[2]} \subseteq Ids(p.nodes)
  /\ Peel(Ids(p.nodes), ToSet(p.edges)) = {}

(* validate_policy is in SoundNode as the one rule a migration can break.  *)
ValidImport(p) == SoundDag(p) /\ \A n \in ToSet(p.nodes) : SoundNode(n, p)

-----------------------------------------------------------------------------
Refuse(why) == ldStage' = "refused" /\ ldError' = why /\ UNCHANGED ldPipe

Become(stage, p) == ldStage' = stage /\ ldPipe' = p /\ UNCHANGED ldError

(* Pipeline::from_json_at_path, step by step.                              *)
Migrate ==
  /\ ldStage = "file"
  /\ Become("migrated", [ldPipe EXCEPT !.nodes = [i \in DOMAIN @ |-> Migrated(@[i])]])
  /\ UNCHANGED ldInput

(* The directory is read only for a pipeline with a call, and all of it.   *)
Register ==
  /\ ldStage = "migrated"
  /\ IF HasCalls(ldPipe) /\ ~Registers(ldInput.lib) THEN Refuse("definition")
     ELSE Become("registered", ldPipe)
  /\ UNCHANGED ldInput

ExpandSnippets ==
  /\ ldStage = "registered"
  /\ LET p == Expand(ldPipe, ldInput.lib, 0, <<>>)
     IN IF p.error # None THEN Refuse(p.error) ELSE Become("expanded", p)
  /\ UNCHANGED ldInput

ValidateImport ==
  /\ ldStage = "expanded"
  /\ IF ValidImport(ldPipe) THEN Become("loaded", ldPipe) ELSE Refuse("invalid")
  /\ UNCHANGED ldInput

Init(inputs) ==
  /\ ldInput \in inputs
  /\ ldStage = "file" /\ ldPipe = ldInput.file /\ ldError = None

Next == Migrate \/ Register \/ ExpandSnippets \/ ValidateImport

-----------------------------------------------------------------------------
(* What a file means: every call is the snippet's nodes under the call's   *)
(* name, with names and variables of the snippet's own scope.              *)
RECURSIVE Nesting(_, _, _)
Nesting(p, lib, seen) ==
  Max({0} \cup {IF n.call \in DOMAIN lib /\ n.call \notin seen
                THEN 1 + Nesting(lib[n.call].def, lib, seen \cup {n.call}) ELSE 0 :
                n \in {m \in ToSet(p.nodes) : m.call # None}})

RECURSIVE Callable(_, _, _)
Callable(p, lib, seen) ==
  \A n \in ToSet(p.nodes) : n.call # None =>
    /\ CallError(n, lib, seen) = None
    /\ Callable(lib[n.call].def, lib, Append(seen, n.call))

Scoped(text, env) == IF env = None THEN text ELSE Interpolate(text, env)

RECURSIVE Paths(_, _)
Paths(p, lib) ==
  UNION {IF n.call = None THEN {n.id} ELSE {n.id \o x : x \in Paths(lib[n.call].def, lib)} :
         n \in ToSet(p.nodes)}

Under(prefix, id, p, lib) == IF id \in Paths(p, lib) THEN prefix \o id ELSE id

RECURSIVE Meaning(_, _, _, _)
Meaning(p, lib, prefix, env) ==
  UNION {IF n.call = None
         THEN {<<prefix \o n.id,
                 LET text == Scoped(n.code, env) IN
                 [i \in DOMAIN text |-> IF text[i].tok = "ref" /\ n.kind = "transform"
                    THEN Ref(Under(prefix, text[i].id, p, lib)) ELSE text[i]]>>}
         ELSE Meaning(lib[n.call].def, lib, prefix \o n.id,
                [x \in DOMAIN n.given |->
                   [n.given[x] EXCEPT !.text = Scoped(@, env)]]) :
         n \in ToSet(p.nodes)}

RECURSIVE Flow(_, _, _)
Flow(p, lib, prefix) ==
  {<<Under(prefix, e[1], p, lib), Under(prefix, e[2], p, lib)>> : e \in ToSet(p.edges)} \cup
  UNION {Flow(lib[n.call].def, lib, prefix \o n.id) : n \in {m \in ToSet(p.nodes) : m.call # None}}

(* A call named like a call inside what it calls.                          *)
Echoes(id) == \E k \in 1..(Len(id) - 2) : id[k] = id[k + 1]

(* A file whose calls can all be made loads with exactly the nodes, texts    *)
(* and edges it means, unless a call is named like one nested in it; the    *)
(* expansion refuses every other file, also when snippets call each other  *)
(* in a circle; and what loads has an order to run in.                     *)
LoadKeepsMeaning ==
  LET f == ldInput.file  lib == ldInput.lib IN
  /\ ldStage \in {"expanded", "loaded"} =>
       /\ Callable(f, lib, <<>>) /\ Nesting(f, lib, {}) <= MaxDepth
       /\ (\A id \in Paths(f, lib) : ~Echoes(id)) =>
            /\ {<<n.id, n.code>> : n \in ToSet(ldPipe.nodes)} = Meaning(f, lib, <<>>, None)
            /\ ToSet(ldPipe.edges) = Flow(f, lib, <<>>)
  /\ ldError \in {"unknown snippet", "cycle", "missing parameter", "parameter type",
                  "unknown parameter"} => ~Callable(f, lib, <<>>)
  /\ ldStage = "loaded" =>
       /\ Cardinality(Ids(ldPipe.nodes)) = Len(ldPipe.nodes)
       /\ Peel(Ids(ldPipe.nodes), ToSet(ldPipe.edges)) = {}
       /\ \A n \in ToSet(f.nodes) : n.write \in {"insert", "upsert"} =>
            \E m \in ToSet(ldPipe.nodes) : m.id = n.id /\ m.write = "policy"
=============================================================================
