-------------------------- MODULE MCCaseGenerator --------------------------
(* Sources that reach every branch of CaseGenerator.                        *)
EXTENDS Sequences
CONSTANTS ABSENT, NONE, EMPTY, FAILS, BAD

L(k) == [kind |-> k]
Op(n) == [kind |-> "op", name |-> n]
I(key, a, v) == [kind |-> "info", key |-> key, attr |-> a, value |-> v]
In0 == <<"input", 0>>
Out0 == <<"output", 0>>
Attr == <<"attr", "a">>
Named(key, n) == <<I(key, "name", n), I(key, "paramType", "required")>>
Typed(key, t, f) == <<I(key, "dtype", t), I(key, "format", f)>>
TwoTypes == <<"f16", "f32">>

Src == [kind |-> "ini", paths_valid |-> TRUE, writes |-> TRUE, lines |-> <<>>, ms |-> ABSENT,
        proto |-> ABSENT, model |-> ABSENT]
Ini(ls) == [Src EXCEPT !.lines = ls]

Aicore == <<Op("Add")>> \o Named(In0, "x") \o Typed(In0, TwoTypes, <<"ND", "ND">>)
          \o Named(Out0, "y") \o Typed(Out0, TwoTypes, <<"ND", "NC">>)
AttrLines(t, d) == <<I(Attr, "type", t), I(Attr, "defaultValue", d)>>
Aicpu == <<Op("Add"), I(<<"opInfo", 0>>, "kernelSo", "so")>>

Layer(n, s, a) == [layer |-> n, input_dtype |-> <<"f16">>, input_shape |-> <<s>>,
                   output_dtype |-> <<"f32">>, output_shape |-> <<s>>, attr |-> a]
Other == [Layer("other", "s1", <<>>) EXCEPT !.input_shape = <<>>, !.input_dtype = <<>>]
Format == [name |-> "data_format", value |-> "NC"]
Given(v) == [name |-> "a", value |-> v]
Models ==
  {ABSENT, FAILS, <<>>, <<Other>>, <<Layer("l1", "s1", <<>>), Other, Layer("l2", "s2", <<Format, Given("v")>>)>>,
   <<Layer("l1", "s1", <<Format>>), Layer("l2", "s2", <<>>)>>, <<Layer("l1", BAD, <<>>)>>, <<Layer("l1", "s1", <<Given(BAD)>>)>>}

Clause(k, n, t) == [kind |-> k, name |-> n, type |-> t, default |-> ABSENT]
Protos ==
  {ABSENT,
   <<Clause("input", ABSENT, <<"DT">>), Clause("input", "x", <<"DT", "DX">>), Clause("output", "y", <<"DT">>),
     [Clause("attr", "a", "int") EXCEPT !.default = "1"]>>,
   <<Clause("input", "x", <<EMPTY>>)>>}

MsInfo == [imports |-> TRUE, op_name |-> "Add", inputs |-> <<[name |-> "x", param_type |-> "required"]>>,
           outputs |-> <<[name |-> "y", param_type |-> "required"]>>, dtypes |-> <<TwoTypes, TwoTypes>>,
           attr |-> <<[name |-> "a", info |-> [type |-> "int", defaultValue |-> "1"]]>>]

IniFiles ==
  {Aicore, Aicore \o AttrLines("int", "1"), Aicore \o AttrLines("int", BAD), Aicore \o AttrLines("listInt", EMPTY),
   Aicore \o <<I(Attr, "defaultValue", "1")>>,
   <<L("blank")>> \o Aicore, <<L("bad")>>, <<>>, <<Op("Mul")>> \o Aicore,
   Named(In0, "z") \o Aicore, Aicore \o <<Op("Add")>> \o Named(Out0, "y") \o Typed(Out0, <<"f16">>, <<"ND">>),
   <<Op("Add")>> \o Named(In0, "x"), <<Op("Add")>> \o Named(Out0, "y"),
   <<Op("Add"), I(Out0, "name", "y")>>,
   <<Op("Add"), I(Out0, "name", "y"), I(Out0, "paramType", "required")>> \o Typed(Out0, TwoTypes, <<"ND">>),
   Aicore \o <<I(In0, "paramType", "optional")>>, Aicore \o <<I(In0, "paramType", "dynamic")>>,
   Aicore \o <<I(Out0, "dtype", <<"f16">>), I(Out0, "format", <<"ND">>)>>,
   Aicpu, Aicpu \o Named(In0, "x") \o <<I(In0, "type", <<"DT", "DT">>)>>,
   Aicpu \o <<I(In0, "type", <<EMPTY>>)>>, Aicpu \o AttrLines("listInt", EMPTY)}

MCSources ==
  {[Ini(ls) EXCEPT !.model = m, !.proto = p] : ls \in IniFiles, m \in Models, p \in Protos}
  \cup {[Src EXCEPT !.kind = "py", !.ms = ms, !.model = m] :
          ms \in {MsInfo, [MsInfo EXCEPT !.imports = FALSE], [MsInfo EXCEPT !.op_name = NONE],
                  [MsInfo EXCEPT !.dtypes = <<TwoTypes>>], [MsInfo EXCEPT !.dtypes = <<ABSENT, TwoTypes>>]},
          m \in Models}
  \cup {[Ini(Aicore) EXCEPT !.paths_valid = FALSE], [Src EXCEPT !.kind = "other"], [Ini(Aicore) EXCEPT !.writes = FALSE]}
=============================================================================
