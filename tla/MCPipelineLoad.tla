--------------------------- MODULE MCPipelineLoad --------------------------
(***************************************************************************)
(* The files PipelineLoad is checked on: a pipeline that calls snippet a,  *)
(* which calls b, which may call c or a.                                   *)
(***************************************************************************)
EXTENDS PipelineLoad

Str(text) == Value("string", text)

(* Snippet b: a source with a parameter, two nodes, a call back, or one     *)
(* level more than fits; a is called by the pipeline and calls b.          *)
SnippetB ==
  {Pipe([p |-> "string"], <<Source(<<"x">>, <<Var("p"), Lit("k")>>)>>, <<>>),
   Pipe(<<>>, <<Source(<<"x">>, <<Var("q")>>),
                     Transform(<<"y">>, <<Ref(<<"x">>)>>)>>, << << <<"x">>, <<"y">> >> >>),
   Pipe(<<>>, <<Call(<<"x">>, "a", [q |-> Str(<<>>)])>>, <<>>),
   Pipe(<<>>, <<Call(<<"u">>, "c", <<>>)>>, <<>>)}

SnippetA(site, first, given) ==
  LET source == Source(<<"x">>, <<Var("q")>>)
      inner == Call(<<site>>, "b", given)
      last == Transform(<<"z">>, <<Ref(<<"x">>), Ref(<<site, "x">>), Var("r")>>)
  IN Pipe([q |-> "string"],
       IF first THEN <<inner, source, last>> ELSE <<source, inner, last>>,
       << << <<"x">>, <<"z">> >>, << <<site, "x">>, <<"z">> >> >>)

Library(b, site, first, given, outputs) ==
  [s \in {"a", "b", "c"} |->
     CASE s = "a" -> [def |-> SnippetA(site, first, given), outputs |-> outputs]
       [] s = "b" -> [def |-> b, outputs |-> {}]
       [] s = "c" -> [def |-> Pipe(<<>>, <<Source(<<"x">>, <<>>)>>, <<>>), outputs |-> {}]]

Pipeline(value, write, more) ==
  Pipe(<<>>,
    <<Call(<<"s">>, "a", [q |-> Str(value)]),
      Transform(<<"w">>, <<Ref(<<"s", "z">>), Var("v")>>),
      Sink(<<"k">>, write)>> \o more.nodes,
    << << <<"s", "z">>, <<"w">> >>, << <<"w">>, <<"k">> >> >> \o more.edges)

Additions ==
  {[nodes |-> <<>>, edges |-> <<>>],
   [nodes |-> <<>>, edges |-> << << <<"w">>, <<"s", "z">> >> >>],
   [nodes |-> <<Transform(<<"s", "x">>, <<>>)>>, edges |-> << << <<"w">>, <<"s", "x">> >> >>],
   [nodes |-> <<Call(<<"t">>, "missing", <<>>)>>, edges |-> <<>>],
   [nodes |-> <<Call(<<"t">>, "c", <<>>)>>, edges |-> << << <<"t", "x">>, <<"w">> >> >>]}

LoadInputs ==
  {[file |-> Pipeline(value, write, more), lib |-> Library(b, site, first, given, outputs)] :
     value \in {<<Lit("l")>>, <<Var("v")>>}, write \in {"upsert", "upsert_no_keys"},
     more \in Additions, b \in SnippetB, site \in {"s", "t"}, first \in BOOLEAN,
     given \in {<<>>, [p |-> Str(<<Var("q")>>)], [p |-> Value("column_list", <<>>)],
               [p |-> Str(<<>>), r |-> Str(<<>>)]},
     outputs \in {{<<"z">>}, {<<"nope">>}}}

Plain == [file |-> Pipeline(<<>>, "upsert", [nodes |-> <<>>, edges |-> <<>>]),
          lib |-> Library(Pipe(<<>>, <<>>, <<>>), "t", TRUE, <<>>, {})]
=============================================================================
