---------------------------- MODULE MCCaseDesign ----------------------------
(* Objects that reach every branch of CaseDesign, alone and two by two.     *)
CONSTANTS ABSENT, UNDEFINED, FUZZ, INVALID, BAD, ALL

D == [format |-> <<"ND">>, shape |-> <<"s1">>, type |-> <<"f16">>, data_distribute |-> ABSENT,
      value_range |-> ABSENT, ori_format |-> ABSENT, ori_shape |-> ABSENT, typical_shape |-> ABSENT,
      shape_range |-> ABSENT, value |-> ABSENT, is_const |-> ABSENT, name |-> ABSENT]
Two == [D EXCEPT !.format = <<"ND", "NC">>, !.shape = <<"s1", "s2">>, !.type = <<"f16", "f32">>]
Three == [Two EXCEPT !.type = <<"f16", "f32", "i8">>]
Ori == [Two EXCEPT !.ori_format = <<"ND", "ND">>, !.ori_shape = <<"s2", "s2">>]
Ranges(d) == [d EXCEPT !.value_range = <<"r1", "r2">>]
Dyn(s) == [D EXCEPT !.shape = <<s>>, !.typical_shape = <<"s1">>, !.shape_range = <<"r1">>]
OptionalOne == [Two EXCEPT !.format = <<UNDEFINED, "NC">>]
F == [D EXCEPT !.type = FUZZ, !.shape = FUZZ, !.name = "x"]

O == [compile_flag |-> FALSE, keys |-> {"op", "input_desc", "output_desc", "case_name"},
      case_name |-> <<"a">>, ms |-> FALSE, fuzz_impl |-> ABSENT, fuzz_case_num |-> 2,
      inputs |-> <<D>>, outputs |-> <<D>>, attr |-> ABSENT, expect |-> ABSENT, error_threshold |-> ABSENT]
IO(i, o) == [O EXCEPT !.inputs = i, !.outputs = o]
Named(n, o) == [o EXCEPT !.case_name = n]
MS(o) == [o EXCEPT !.ms = TRUE, !.keys = @ \cup {"st_mode"}]
FZ(o) == [o EXCEPT !.fuzz_impl = "f"]
Attr(t, v) == <<[name |-> "k", type |-> t, value |-> v]>>
V(k) == [kind |-> k, items |-> <<>>]

First ==
  {O, IO(<<Two, Two>>, <<Two, Two>>), IO(<<Ori>>, <<Ori>>), IO(<<Three, Three>>, <<Three>>),
   IO(<<Ranges(Two)>>, <<Two>>), IO(<<Ranges(D), Ranges(D)>>, <<D, D>>),
   IO(<<Ranges(Two), Ranges(Two)>>, <<Two, Two, Two>>), IO(<<>>, <<Two>>),
   IO(<<>>, <<[D EXCEPT !.type = <<"f16", "f32">>], [D EXCEPT !.shape = <<"s1", "s2">>]>>),
   IO(<<Two>>, <<D>>), IO(<<Two, D>>, <<Two>>), IO(<<D>>, <<>>),
   IO(<<Dyn("m1")>>, <<Dyn("m2")>>), IO(<<[D EXCEPT !.shape = <<"m1">>]>>, <<D>>),
   IO(<<OptionalOne, Two>>, <<Two>>), IO(<<[Ori EXCEPT !.ori_shape = ABSENT]>>, <<Two>>),
   IO(<<[D EXCEPT !.value = <<"v">>, !.is_const = <<TRUE>>]>>, <<D>>),
   IO(<<[Two EXCEPT !.value = <<"v">>]>>, <<Two>>),
   IO(<<[D EXCEPT !.type = <<BAD>>]>>, <<D>>), IO(<<[D EXCEPT !.shape = INVALID]>>, <<D>>),
   MS(IO(<<Two, Two>>, <<Two>>)), MS(IO(<<>>, <<Two>>)),
   [O EXCEPT !.compile_flag = TRUE], [O EXCEPT !.keys = @ \ {"op"}], [O EXCEPT !.case_name = INVALID],
   [O EXCEPT !.attr = Attr("int", V("bool"))], [O EXCEPT !.attr = Attr("bool", V("int"))],
   [O EXCEPT !.attr = Attr("list_int", [kind |-> "list", items |-> <<V("int")>>])],
   [O EXCEPT !.expect = <<"e">>, !.error_threshold = "t"], [O EXCEPT !.error_threshold = INVALID],
   FZ(IO(<<F>>, <<F>>)), FZ(IO(<<F, D>>, <<D>>)), FZ([IO(<<F>>, <<F>>) EXCEPT !.fuzz_case_num = 0]),
   FZ(MS(IO(<<F>>, <<F>>))), FZ([IO(<<[D EXCEPT !.value = FUZZ, !.name = "x"]>>, <<D>>) EXCEPT !.attr = Attr("int", FUZZ)])}

Second ==
  {Named(<<"b">>, O), O, Named(<<"a", "sub">>, O), Named(<<"a", "fuzz">>, O), Named(<<"b">>, MS(O)),
   Named(<<"b">>, FZ(IO(<<F>>, <<F>>))), Named(<<"b">>, IO(<<Two>>, <<Two>>))}

File(os) == [valid |-> TRUE, loads |-> TRUE, objs |-> os]
MCInputs ==
  {<<File(<<o>>)>> : o \in First}
  \cup {<<File(<<o, p>>)>> : o \in First, p \in Second}
  \cup {<<File(<<O>>), f>> : f \in {[File(<<O>>) EXCEPT !.valid = FALSE], [File(<<O>>) EXCEPT !.loads = FALSE],
                                    File(<<Named(<<"b">>, O)>>)}}
MCCaseNameLists == {ALL, {<<"b">>}}

Dict(t, s) == [names |-> {"x"}, values |-> [type |-> <<t>>, shape |-> <<s>>, value |-> <<"v">>, attr |-> V("int")]]
MCFuzzReturns ==
  {<<Dict("f16", "s1")>>, <<Dict("f32", "s2")>>, <<Dict("f16", "s2"), Dict("f32", "s1")>>, <<>>,
   <<[Dict("f16", "s1") EXCEPT !.names = {"y"}]>>, <<Dict(BAD, "s1")>>}

MCRequired == <<"op", "input_desc", "output_desc", "case_name">>
=============================================================================
