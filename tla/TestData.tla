------------------------------ MODULE TestData ------------------------------
(***************************************************************************)
(* The data of a system test, from acl_op.json to the comparison: the        *)
(* constants that AtcTransformOm puts into the model of a case (ConstInput), *)
(* the input and expected data of DataGenerator, and the files that          *)
(* ResultCompare compares.  The steps share one directory.                   *)
(*                                                                         *)
(* Data is [id, n, width]: id tells random draws apart (0 is a value of the   *)
(* case file, -1 what a read with another width gives), n is the number of    *)
(* elements, width the bytes of one.  The commands, the expect functions and   *)
(* the test binary are external.  A command that failed may be given again,    *)
(* in a directory that was cleaned or not.                                    *)
(***************************************************************************)
EXTENDS Integers, Sequences, FiniteSets

CONSTANTS NONE,
          CaseLists,       \* the case lists a command may be given
          Widths,          \* type -> bytes of an element
          Optional,        \* OPTIONAL_TYPE_LIST
          Distributions,   \* the ones gen_data knows
          MaxCommands      \* bound

VARIABLES cases,           \* the case list
          attr,            \* case -> the value of its attribute, which changes
          disk,            \* file -> data, of the files that exist
          acl,             \* case -> what acl_op.json has of it
          phase, case, input,      \* the stage, and the case and input it is at
          params,          \* case -> what its expect function was called with
          expect_data_paths,       \* case -> its files, in the report
          result_txt,      \* case -> "[pass]" or "[fail]"
          compared,        \* case -> the pairs of data that were compared
          drawn,           \* the number of random draws
          commands, error

vars == <<cases, attr, disk, acl, phase, case, input, params, expect_data_paths, result_txt,
          compared, drawn, commands, error>>

\* What a new process starts with.
Fresh(cs) ==
  /\ attr' = [c \in DOMAIN cs |-> cs[c].attr]
  /\ acl' = [c \in DOMAIN cs |-> NONE] /\ params' = [c \in DOMAIN cs |-> NONE]
  /\ expect_data_paths' = [c \in DOMAIN cs |-> <<>>]
  /\ result_txt' = [c \in DOMAIN cs |-> NONE] /\ compared' = [c \in DOMAIN cs |-> {}]
  /\ phase' = "acl" /\ case' = 1 /\ input' = 1 /\ error' = NONE

Init ==
  /\ cases \in CaseLists /\ disk = <<>> /\ drawn = 0 /\ commands = 1
  /\ attr = [c \in DOMAIN cases |-> cases[c].attr]
  /\ acl = [c \in DOMAIN cases |-> NONE] /\ params = [c \in DOMAIN cases |-> NONE]
  /\ expect_data_paths = [c \in DOMAIN cases |-> <<>>]
  /\ result_txt = [c \in DOMAIN cases |-> NONE] /\ compared = [c \in DOMAIN cases |-> {}]
  /\ phase = "acl" /\ case = 1 /\ input = 1 /\ error = NONE

InputFile(c, k) == <<"input", c, k>>
ExpectFile(c, o) == <<"expect", c, o>>
OutputFile(c, o) == <<"output", c, o>>

Write(d, f, data) == [g \in DOMAIN d \cup {f} |-> IF g = f THEN data ELSE d[g]]
\* numpy.fromfile.
FromFile(data, width) ==
  IF width = data.width THEN data
  ELSE [id |-> -1, n |-> (data.n * data.width) \div width, width |-> width]

map_type_to_expect_type(type) == IF type = "float" THEN "float32" ELSE type
Width(type) == Widths[map_type_to_expect_type(type)]

\* gen_data: the last three distributions compute with exp, which gives an
\* array of integers as doubles, and the result is not converted back.
Activations == {"sigmoid", "softmax", "tanh"}
gen_data(in, n, id) ==
  [id |-> id, n |-> n,
   width |-> IF in.dist \in Activations /\ in.integer THEN 8 ELSE Width(in.type)]

\* replace_shape_to_typical_shape.
Shape(in) == IF in.typical_shape # NONE THEN in.typical_shape ELSE in.shape

-----------------------------------------------------------------------------
(* acl_op.json                                                             *)

\* A value the case file gives: a list, or the path of a file of the user.
Given(in, width) ==
  IF in.value = "path" THEN FromFile([id |-> 0, n |-> in.value_size, width |-> Width(in.type)], width)
  ELSE [id |-> 0, n |-> in.value_size, width |-> width]

HasValue(in) == in.value \notin {NONE, "empty"}
Draws(in) == in.is_const /\ ~HasValue(in)

\* add_const_info_in_acl_json: the user's file is read with the type's own
\* name.
ConstValue(in, id) ==
  CASE ~in.is_const -> NONE
    [] HasValue(in) -> Given(in, IF in.value = "path" THEN Widths[in.type] ELSE Width(in.type))
    [] OTHER -> gen_data(in, in.shape, id)

\* _get_testcase_dict puts the value into the case itself.
AclAttr(value) == IF value = "float" THEN "DT_FLOAT" ELSE value

\* _get_desc_dic: the constants of a case, and the first input it fails at;
\* the file of a constant is written before its name is checked.  A constant of
\* a dynamic shape is drawn with that shape, and numpy refuses its -1.
Constants(ins) ==
  [k \in DOMAIN ins |-> ConstValue(ins[k], drawn + Cardinality({j \in 1 .. k : Draws(ins[j])}))]
Undrawable(ins) ==
  {k \in DOMAIN ins : Draws(ins[k]) /\ (ins[k].dist \notin Distributions \/ ins[k].typical_shape # NONE)}
Again(ins) == {k \in DOMAIN ins : ins[k].name # NONE /\ \E j \in 1 .. k - 1 : ins[j].name = ins[k].name}

\* create_acl_op_json_content, for one case.
CreateAclOp ==
  /\ phase = "acl"
  /\ LET ins == cases[case].inputs
         draws == {k \in DOMAIN ins : Draws(ins[k])}
         values == Constants(ins)
         undrawable == Undrawable(ins)
         again == Again(ins)
         files == {InputFile(case, k) : k \in {k \in draws : \A j \in undrawable \cup again :
                                                 k < j \/ (k = j /\ j \notin undrawable)}}
     IN  /\ disk' = [f \in DOMAIN disk \cup files |-> IF f \in files THEN values[f[3]] ELSE disk[f]]
         /\ drawn' = drawn + Cardinality(draws)
         /\ IF undrawable \cup again # {}
            THEN /\ \E k \in undrawable \cup again :
                      /\ \A j \in undrawable \cup again : k <= j
                      /\ error' = CASE k \notin undrawable -> "InvalidInputName"
                                   [] k \in undrawable /\ ins[k].dist \in Distributions -> "ValueError"
                                   [] OTHER -> "WriteFile"
                 /\ phase' = "failed" /\ UNCHANGED <<attr, acl, case>>
            ELSE /\ attr' = [attr EXCEPT ![case] = AclAttr(@)]
                 /\ acl' = [acl EXCEPT ![case] = [values |-> values, attr |-> AclAttr(attr[case])]]
                 /\ IF case < Len(cases) THEN case' = case + 1 /\ UNCHANGED phase
                                         ELSE case' = 1 /\ phase' = "data"
                 /\ UNCHANGED error
  /\ UNCHANGED <<cases, input, params, expect_data_paths, result_txt, compared, commands>>

-----------------------------------------------------------------------------
(* DataGenerator                                                           *)

Fails(e) ==
  /\ error' = e /\ phase' = "failed"
  /\ UNCHANGED <<cases, attr, disk, acl, case, input, params, expect_data_paths, result_txt, compared, drawn, commands>>

InCase == phase = "data" /\ case <= Len(cases)
In == cases[case].inputs[input]
File == InputFile(case, input)

\* A case without inputs ends the generation, of the later cases too.
NoInputs ==
  /\ InCase /\ cases[case].inputs = <<>>
  /\ phase' = "run"
  /\ UNCHANGED <<cases, attr, disk, acl, case, input, params, expect_data_paths, result_txt, compared, drawn, commands, error>>

SkipOptional ==
  /\ InCase /\ input <= Len(cases[case].inputs) /\ In.type \in Optional
  /\ input' = input + 1
  /\ UNCHANGED <<cases, attr, disk, acl, phase, case, params, expect_data_paths, result_txt, compared, drawn, commands, error>>

\* calc_func_params_tmp: what the expect function is given, by name; an
\* output of the same name takes the place of an input.
Update(dict, name, value) ==
  IF name = NONE THEN dict
  ELSE [n \in (IF dict = NONE THEN {} ELSE DOMAIN dict) \cup {name} |-> IF n = name THEN value ELSE dict[n]]

Generated(data, d) ==
  /\ disk' = d
  /\ params' = [params EXCEPT ![case] = Update(@, In.name, data)]
  /\ input' = input + 1
  /\ UNCHANGED <<cases, attr, acl, phase, case, expect_data_paths, result_txt, compared, commands, error>>

IsConstDistribute(in) == in.is_const /\ in.dist # NONE /\ in.value = NONE

\* _get_const_data_input_dict: the file CreateAclOp has written is read.
ConstData ==
  /\ InCase /\ input <= Len(cases[case].inputs) /\ In.type \notin Optional
  /\ IsConstDistribute(In)
  /\ LET data == FromFile(disk[File], Widths[In.type])
     IN  IF data.n = Shape(In) THEN Generated(data, disk) /\ UNCHANGED drawn
                               ELSE Fails("ConstSize")

FileExists_Ignored == FALSE
FileExists == File \in DOMAIN disk

\* _get_trans_data_input_dict, gen_data_with_value; MemoryError and OSError
\* are external, and the latter may leave a file.
TransData ==
  /\ InCase /\ input <= Len(cases[case].inputs) /\ In.type \notin Optional
  /\ ~IsConstDistribute(In)
  /\ LET data == IF HasValue(In) THEN Given(In, Width(In.type))
                 ELSE gen_data(In, Shape(In), drawn + 1)
     IN  CASE FileExists -> Fails("FileExists")
           [] ~FileExists /\ HasValue(In) /\ In.value_size # Shape(In) -> Fails("WriteFile")
           [] ~FileExists /\ ~HasValue(In) /\ In.dist \notin Distributions -> Fails("WriteFile")
           [] OTHER -> \/ /\ Generated(data, Write(disk, File, data))
                          /\ drawn' = IF HasValue(In) THEN drawn ELSE drawn + 1
                       \/ Fails("Memory")
                       \/ /\ error' = "OS" /\ phase' = "failed" /\ disk' = Write(disk, File, data)
                          /\ drawn' = drawn + 1
                          /\ UNCHANGED <<cases, attr, acl, case, input, params, expect_data_paths, result_txt, compared, commands>>

\* _generate_expect_data and the report; the function may raise, and may
\* return more tensors than the case has outputs.
ExpectData ==
  /\ InCase /\ cases[case].inputs # <<>> /\ input > Len(cases[case].inputs)
  /\ LET outs == 1 .. cases[case].outputs
         data(o) == [id |-> drawn + 1, n |-> o, width |-> Width("float")]
     IN  IF cases[case].func
         THEN \/ Fails("InvalidParam")
              \/ Fails("IndexError")
              \/ \E n \in outs :
                   /\ disk' = [f \in DOMAIN disk \cup {ExpectFile(case, o) : o \in 1 .. n} |->
                                 IF f[1] = "expect" /\ f[2] = case /\ f[3] <= n THEN data(f[3]) ELSE disk[f]]
                   /\ expect_data_paths' = [expect_data_paths EXCEPT ![case] = [o \in 1 .. n |-> ExpectFile(case, o)]]
                   /\ params' = [params EXCEPT ![case] = Update(Update(@, cases[case].output_name, "output"), "attr", attr[case])]
                   /\ drawn' = drawn + 1 /\ case' = case + 1 /\ input' = 1
                   /\ UNCHANGED <<cases, attr, acl, phase, result_txt, compared, commands, error>>
         ELSE /\ case' = case + 1 /\ input' = 1
              /\ UNCHANGED <<cases, attr, disk, acl, phase, params, expect_data_paths, result_txt, compared, drawn, commands, error>>

GenerateEnds ==
  /\ phase = "data" /\ case > Len(cases)
  /\ phase' = "run"
  /\ UNCHANGED <<cases, attr, disk, acl, case, input, params, expect_data_paths, result_txt, compared, drawn, commands, error>>

-----------------------------------------------------------------------------
(* The run and the comparison                                              *)

\* External: a case that passes has written its outputs, one that fails some.
RunAcl ==
  /\ phase = "run"
  /\ \E passes \in SUBSET DOMAIN cases :
       LET files == UNION {{OutputFile(c, o) : o \in 1 .. cases[c].outputs} : c \in passes}
       IN  /\ result_txt' = [c \in DOMAIN cases |-> IF c \in passes THEN "[pass]" ELSE "[fail]"]
           /\ disk' = [f \in DOMAIN disk \cup files |->
                         IF f \in files THEN [id |-> drawn + 1, n |-> f[3], width |-> 4] ELSE disk[f]]
  /\ drawn' = drawn + 1 /\ phase' = "compare" /\ case' = 1
  /\ UNCHANGED <<cases, attr, acl, input, params, expect_data_paths, compared, commands, error>>

Compares_Always(c) == cases[c].func /\ expect_data_paths[c] # <<>>
\* compare, _get_compare_stage_result, _get_case_info.
Compares(c) == cases[c].func /\ result_txt[c] = "[pass]" /\ expect_data_paths[c] # <<>>

\* _check_isfile.
BothFiles(c, o) == {OutputFile(c, o), ExpectFile(c, o)} \subseteq DOMAIN disk

\* _get_compare_result_list: the file of an output with the expected data of
\* the same index, when both are there.
CompareCase ==
  /\ phase = "compare" /\ case <= Len(cases)
  /\ compared' = IF ~Compares(case) THEN compared
                 ELSE [compared EXCEPT ![case] =
                         {<<disk[OutputFile(case, o)], disk[ExpectFile(case, o)]>> :
                            o \in {o \in DOMAIN expect_data_paths[case] : BothFiles(case, o)}}]
  /\ case' = case + 1
  /\ UNCHANGED <<cases, attr, disk, acl, phase, input, params, expect_data_paths, result_txt, drawn, commands, error>>

\* The user gives the command again, after deleting the data or not.
NextCommand ==
  /\ commands < MaxCommands
  /\ phase = "failed" \/ (phase = "compare" /\ case > Len(cases))
  /\ disk' \in {disk, <<>>} /\ commands' = commands + 1
  /\ Fresh(cases)
  /\ UNCHANGED <<cases, drawn>>

Next ==
  \/ CreateAclOp
  \/ NoInputs \/ SkipOptional \/ ConstData \/ TransData \/ ExpectData \/ GenerateEnds
  \/ RunAcl \/ CompareCase \/ NextCommand

Spec == Init /\ [][Next]_vars

-----------------------------------------------------------------------------
(* Properties                                                              *)

\* Without elements data is the same whatever drew it.
Same(d, e) == d = e \/ (d.n = 0 /\ e.n = 0)

\* The expected data of a case is computed from the data its run reads: for
\* every input that the expect function was given (and no output or attribute
\* of the same name has replaced), the file holds the same data, and a constant,
\* like the attribute, is the same in acl_op.json; also when a command was given
\* again over the files of another (_get_input_dict_with_data,
\* add_const_info_in_acl_json).  Not so a constant in a file of the user, of the
\* type that the two places read with different widths.
SameData ==
  \A c \in DOMAIN cases : params[c] # NONE =>
    /\ \A k \in DOMAIN cases[c].inputs :
         LET in == cases[c].inputs[k]
             read == in.value = "path" => Widths[in.type] = Width(in.type)
         IN  in.name \in DOMAIN params[c] \ {cases[c].output_name, "attr"} =>
               /\ InputFile(c, k) \in DOMAIN disk
               /\ Same(disk[InputFile(c, k)], params[c][in.name])
               /\ in.is_const /\ read => Same(acl[c].values[k], params[c][in.name])
    /\ "attr" \in DOMAIN params[c] \ {cases[c].inputs[k].name : k \in DOMAIN cases[c].inputs} =>
         params[c]["attr"] = acl[c].attr

\* What is compared was made by this command: neither an output nor expected
\* data of an earlier one takes part (_get_compare_stage_result,
\* _get_compare_result_list).
ComparesOwnRun ==
  \A c \in DOMAIN cases : \A p \in compared[c] :
    /\ p[1].id = drawn
    /\ \A k \in DOMAIN cases[c].inputs :
         InputFile(c, k) \in DOMAIN disk => p[2].id > disk[InputFile(c, k)].id

=============================================================================
