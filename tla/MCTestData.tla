----------------------------- MODULE MCTestData -----------------------------
(* Case lists that reach every branch of TestData.                         *)
EXTENDS Integers, Sequences
CONSTANT NONE

In0 == [name |-> "x", type |-> "float16", integer |-> FALSE, dist |-> "uniform", is_const |-> FALSE,
        value |-> NONE, value_size |-> 4, shape |-> 4, typical_shape |-> NONE]

\* Plain, constant, given and optional inputs, and those that fail.
MCInputs ==
  { In0,
    [In0 EXCEPT !.name = NONE],
    [In0 EXCEPT !.dist = "tanh"],
    [In0 EXCEPT !.dist = "bogus"],
    [In0 EXCEPT !.is_const = TRUE],
    [In0 EXCEPT !.is_const = TRUE, !.typical_shape = 2],
    [In0 EXCEPT !.is_const = TRUE, !.type = "int32", !.integer = TRUE, !.dist = "tanh"],
    [In0 EXCEPT !.is_const = TRUE, !.type = "float", !.shape = 0],
    [In0 EXCEPT !.is_const = TRUE, !.type = "float", !.value = "path"],
    [In0 EXCEPT !.is_const = TRUE, !.value = "empty"],
    [In0 EXCEPT !.is_const = TRUE, !.value = "list"],
    [In0 EXCEPT !.is_const = TRUE, !.value = "path"],
    [In0 EXCEPT !.value = "list", !.value_size = 3],
    [In0 EXCEPT !.value = "path", !.typical_shape = 4],
    [In0 EXCEPT !.type = "UNDEFINED"] }
MCSecond == { [In0 EXCEPT !.name = "y"], [In0 EXCEPT !.is_const = TRUE], [In0 EXCEPT !.name = "y", !.is_const = TRUE] }

Case0(ins, func) == [inputs |-> ins, outputs |-> 2, output_name |-> "z", func |-> func, attr |-> "float"]
MCCaseLists ==
  { <<Case0(<<i>>, TRUE), Case0(<<j>>, f)>> : i \in MCInputs, j \in MCSecond, f \in BOOLEAN }
    \cup { <<Case0(<<i, j>>, TRUE)>> : i \in MCInputs, j \in MCSecond }
    \cup { <<[Case0(<<In0, i>>, TRUE) EXCEPT !.output_name = "x"]>> : i \in MCSecond }
    \cup { <<Case0(<<>>, TRUE), Case0(<<In0>>, TRUE)>> }

MCWidths == [t \in {"float", "float32", "float16", "int32", "UNDEFINED"} |->
               CASE t = "float" -> 8 [] t = "float16" -> 2 [] OTHER -> 4]
=============================================================================
