-------------------------- MODULE MCMsOpGenerator --------------------------
(* Operators with inputs of every kind, and cases with more and fewer.       *)
EXTENDS Integers
CONSTANT NONE

MCParamTypes == { <<"required", "required">>, <<"dynamic">>, <<"dynamic", "required">>, <<"required", "dynamic", "optional">> }
MCCase(name, n, attr) == [name |-> name, inputs |-> n, outputs |-> 1, attr |-> attr]
MCCaseLists ==
  { <<MCCase("a", n, at)>> : n \in 1 .. 5, at \in {NONE, "axis"} }
    \cup { <<MCCase("a", n, NONE), MCCase("b", n, "axis")>> : n \in 2 .. 4 }
    \cup { <<[MCCase("a", 2, NONE) EXCEPT !.outputs = 0], MCCase("b", 2, NONE)>> }
=============================================================================
