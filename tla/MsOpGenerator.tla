--------------------------- MODULE MsOpGenerator ---------------------------
(***************************************************************************)
(* MsOpGenerator (ms_op_generator.py): the test script of a MindSpore         *)
(* operator, appended to a file below the output path, for commands that may   *)
(* fail and be given again.  The script has a net, which passes the inputs of   *)
(* a test on to the operator, and a test function for each case.               *)
(*                                                                         *)
(* The inputs of a test are numbers.  The operator's registration is           *)
(* external: it has the kinds of the inputs.                                  *)
(***************************************************************************)
EXTENDS Integers, Sequences, SequencesExt

CONSTANTS NONE,
          ParamTypes,      \* lists of "required", "dynamic", "optional"
          CaseLists,       \* lists of cases [name, inputs, outputs, attr]
          MaxCommands      \* bound

VARIABLES types,           \* the param_type of each input of the operator
          cases, machine_type,     \* of the command
          src,             \* the src directory exists
          file,            \* src/test_<op>.py: NONE or what was written to it
          planned_output_data_paths,   \* case -> its paths in the report
          phase, error, commands

vars == <<types, cases, machine_type, src, file, planned_output_data_paths, phase, error, commands>>

Init ==
  /\ types \in ParamTypes /\ cases \in CaseLists /\ machine_type \in BOOLEAN
  /\ src = FALSE /\ file = NONE /\ planned_output_data_paths = <<>>
  /\ phase = "path" /\ error = NONE /\ commands = 1

-----------------------------------------------------------------------------
(* The script                                                              *)

Inputs(n) == [i \in 1 .. n |-> i]

\* A Python slice s[a:b], of indices from 0.
Slice(s, a, b) == SubSeq(s, a + 1, IF b < 0 THEN Len(s) + b ELSE b)

\* _get_dynamic_input_info: what the net passes on, a sequence for a dynamic
\* input; the inputs it takes are all, or any number of them.
DynamicInputInfo(n) ==
  LET dynamic_input_count == n - Len(types)
      step(acc, type) ==
        IF type = "dynamic"
        THEN [index |-> acc.index + dynamic_input_count + 1,
              passed |-> Append(acc.passed, Slice(Inputs(n), acc.index, acc.index + dynamic_input_count))]
        ELSE [index |-> acc.index + 1,
              passed |-> Append(acc.passed, SubSeq(Inputs(n), acc.index + 1, acc.index + 1))]
  IN  IF Len(types) = 1 THEN <<Inputs(n)>>
      ELSE FoldLeft(step, [index |-> 0, passed |-> <<>>], types).passed

\* _get_no_attr_input_args.
NoAttrInputArgs(n) ==
  IF "dynamic" \in ToSet(types) THEN DynamicInputInfo(n)
  ELSE [i \in 1 .. n |-> <<i>>]

\* _generate_net_content: of the attributes of the first case and the inputs
\* of the last.
NetContent ==
  LET n == Last(cases).inputs
      attr == cases[1].attr
  IN  IF attr = NONE \/ "dynamic" \in ToSet(types)
      THEN [takes |-> n, passes |-> NoAttrInputArgs(n), attr |-> NONE]
      ELSE [takes |-> n, passes |-> [i \in 1 .. n |-> <<i>>], attr |-> attr]

\* _generate_function_content, with the paths of _mkdir_input_data_path.
InputPaths(c) == [i \in 1 .. c.inputs |-> <<c.name, i - 1>>]
FunctionContent(c) == [name |-> c.name, reads |-> InputPaths(c)]

\* _generate_output_content: a case without outputs has no test.
Tested(c) == c.outputs > 0

\* _generate_test_function.
TestFunction ==
  [net |-> NetContent, tests |-> {FunctionContent(cases[i]) : i \in {i \in DOMAIN cases : Tested(cases[i])}}]

\* _append_content_to_file truncates nothing.
Appended(content) == Append(IF file = NONE THEN <<>> ELSE file, content)

-----------------------------------------------------------------------------
(* The steps                                                               *)

Fails(e) ==
  /\ error' = e /\ phase' = "failed"
  /\ UNCHANGED <<types, cases, machine_type, src, file, planned_output_data_paths, commands>>

CheckOutputPath_Reuses == phase' = "mkdir" /\ UNCHANGED error
\* check_output_path: a directory of the operator that already has sources is
\* refused, unless the IDE gave the command.
CheckOutputPath ==
  IF ~machine_type /\ src THEN phase' = "failed" /\ error' = "InvalidPath"
                          ELSE phase' = "mkdir" /\ UNCHANGED error

NewGenerator ==
  /\ phase = "path"
  /\ \/ CheckOutputPath /\ UNCHANGED <<types, cases, machine_type, src, file, planned_output_data_paths, commands>>
     \/ Fails("InvalidPath")

\* _mkdir_output_dir.
MkdirOutputDir ==
  /\ phase = "mkdir"
  /\ \/ /\ src' = TRUE /\ phase' = "content"
        /\ UNCHANGED <<types, cases, machine_type, file, planned_output_data_paths, error, commands>>
     \/ Fails("MakeDirs")

\* _rewrite_files_for_output_dir: the module of the operator may not be
\* found (_get_mindspore_input_param_type), nor the file be written.
RewriteFiles ==
  /\ phase = "content"
  /\ \/ Fails("InvalidData")
     \/ /\ planned_output_data_paths' = [i \in DOMAIN cases |-> InputPaths(cases[i])]
        /\ \/ /\ file' = Appended(TestFunction)
              /\ phase' = "done" /\ UNCHANGED error
           \/ error' = "WriteFile" /\ phase' = "failed" /\ UNCHANGED file
        /\ UNCHANGED <<types, cases, machine_type, src, commands>>

\* Another command, of other cases; the user may have deleted the directory.
NextCommand ==
  /\ phase \in {"done", "failed"} /\ commands < MaxCommands
  /\ cases' \in CaseLists /\ machine_type' = machine_type
  /\ \/ src' = FALSE /\ file' = NONE
     \/ UNCHANGED <<src, file>>
  /\ planned_output_data_paths' = <<>> /\ phase' = "path" /\ error' = NONE
  /\ commands' = commands + 1
  /\ UNCHANGED types

Next == NewGenerator \/ MkdirOutputDir \/ RewriteFiles \/ NextCommand
Spec == Init /\ [][Next]_vars

-----------------------------------------------------------------------------
(* Properties                                                              *)

\* However many commands failed or succeeded before in the directory, the
\* script of a `run' holds the tests of its own cases and no others, each
\* reading the paths the report has for it (check_output_path,
\* _append_content_to_file).
OwnTests ==
  phase = "done" /\ ~machine_type =>
    /\ Len(file) = 1
    /\ file[1].tests =
         {[name |-> cases[i].name, reads |-> planned_output_data_paths[i]] :
            i \in {i \in DOMAIN cases : cases[i].outputs > 0}}

=============================================================================
