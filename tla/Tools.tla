-------------------------------- MODULE Tools --------------------------------
(***************************************************************************)
(* The Python programs beside the kernels, side by side: the parts of the   *)
(* system-test tool, the runtime interface of the kernel tests, the scripts *)
(* that choose what a change builds and tests, and the code that emits a    *)
(* conversion of layouts.  A behaviour is one of any of them.  They have no *)
(* variable in common; what one leaves on the disk for another is among the *)
(* inputs of the other's module.  A name that several modules use stands    *)
(* for the variable of the program that runs, and what this program does    *)
(* not have is OFF.                                                        *)
(***************************************************************************)
EXTENDS Integers, Sequences, FiniteSets

CONSTANTS Programs,        \* the ones that may be started
          OFF

\* Of the programs, as in their modules.
CONSTANTS NONE, ABSENT, EMPTY, UNDEFINED, FAILS, BAD, FUZZ, INVALID, SCALAR,
          UNIFORM, RANGE, RESERVED, ALL, NULL, NAN, INF, OK, MaxCommands
CONSTANTS Argvs, Inis, CaseThresholds, Disk
CONSTANTS Sources, GenAttrTypes, ListTypes, IrTypes
CONSTANTS DynamicOne, DynamicTwo, DesignInputs, CaseNameLists, FuzzReturns,
          MAX_FUZZ_CASE_NUM, Required, MaxAlternatives
CONSTANTS ParamTypes, MsCaseLists
CONSTANTS CaseLists, Widths, OptionalTypes, Distributions
CONSTANTS OutputLists, LaterLists, WithoutPandas, Commands, Unit, DiffThd, PctThd,
          MaxDiff, CsvMaxLine
CONSTANTS Modes, ErrorCodes, Contexts, Streams, Binaries, Names, Buffers, MaxRetries,
          UserPaths, MaxFailures, MaxLoads, MaxResets
CONSTANTS Cases
CONSTANTS Lists, MaxRuns
CONSTANTS C0, UB_SIZE, Shapes, Ops, JUNK, ZERO

VARIABLE program
\* Of several modules, then of one module each, in the order of their modules.
VARIABLES phase, at, compared, src, pc, file, cases, error, commands,
          expect_data_paths, result_txt, command
VARIABLES argv, ini, args, opts, made, environ, atc_cmd, outcome
VARIABLES tbe_ops_info, op_type, op_info, base_case, base_case_list
VARIABLES json_path_list, case_name_list, REQUIRED_KEYS,
          case_name_to_json_file_map, total_case_list, compile_flag, sub,
          returned, refused
VARIABLES types, machine_type, planned_output_data_paths
VARIABLES attr, disk, acl, case, input, params, drawn
VARIABLES outputs, error_report, results, rows, part, files
VARIABLES api, ld_paths, kernel_name_cache, rt, copy, raised, loads, resets,
          failures
VARIABLES want, func, objects, trace, status, expect, expect_dict, cnt, line,
          saved, printed, latest
VARIABLES list, relate, uts, ut_exit, run, passed, run_exit, sch_cov, cov_path,
          runs
VARIABLES shape, op, output, input_ub, output_ub, output_head_ub, block

ownArgs == <<argv, ini, args, opts, made, environ, atc_cmd, outcome>>
ownGen == <<tbe_ops_info, op_type, op_info, base_case, base_case_list>>
ownDes == <<json_path_list, case_name_list, REQUIRED_KEYS,
            case_name_to_json_file_map, total_case_list, compile_flag, sub,
            returned, refused>>
ownMs == <<types, machine_type, planned_output_data_paths>>
ownData == <<attr, disk, acl, case, input, params, drawn>>
ownCmp == <<outputs, error_report, results, rows, part, files>>
ownRts == <<api, ld_paths, kernel_name_cache, rt, copy, raised, loads, resets,
            failures>>
ownRep == <<want, func, objects, trace, status, expect, expect_dict, cnt, line,
            saved, printed, latest>>
ownCi == <<list, relate, uts, ut_exit, run, passed, run_exit, sch_cov, cov_path,
           runs>>
ownDim == <<shape, op, output, input_ub, output_ub, output_head_ub, block>>
shared == <<phase, at, compared, src, pc, file, cases, error, commands,
            expect_data_paths, result_txt, command>>
vars == <<program, shared, ownArgs, ownGen, ownDes, ownMs, ownData, ownCmp,
          ownRts, ownRep, ownCi, ownDim>>

Args == INSTANCE Msopst
Gen == INSTANCE CaseGenerator WITH AttrTypes <- GenAttrTypes
Des == INSTANCE CaseDesign WITH Inputs <- DesignInputs
Ms == INSTANCE MsOpGenerator WITH CaseLists <- MsCaseLists
Data == INSTANCE TestData WITH Optional <- OptionalTypes
Cmp == INSTANCE CompareData
Rts == INSTANCE RtsApi
Rep == INSTANCE StReport
Ci == INSTANCE ChangedFiles
Dim == INSTANCE DimConv

\* No handle, no code and no object of the runtime interface is None or 0.
ASSUME RtsAssumption ==
  /\ NONE \notin Rts!Apis /\ OK \notin ErrorCodes
  /\ MaxRetries \in Nat

\* Operands and attributes are lists; a layer has a type for each shape
\* (model_parser.py).
ASSUME GenAssumption ==
  LET List(l) == l \in Seq({l[i] : i \in 1 .. Len(l)})
  IN  \A s \in Sources :
        /\ s.kind = "py" => List(s.ms.inputs) /\ List(s.ms.outputs) /\ List(s.ms.attr)
        /\ s.model \notin {ABSENT, FAILS} =>
             /\ List(s.model)
             /\ \A k \in DOMAIN s.model :
                  LET n == s.model[k]
                  IN  /\ Len(n.input_shape) \in Nat /\ Len(n.input_dtype) = Len(n.input_shape)
                      /\ Len(n.output_shape) \in Nat /\ Len(n.output_dtype) = Len(n.output_shape)

\* Files of objects, whose tensors have a value, ABSENT perhaps, for each key;
\* those of a case to be combined are lists, no longer than the bound.
ASSUME DesAssumption ==
  LET List(l) == l \in Seq({l[i] : i \in 1 .. Len(l)})
      Alternatives == {"format", "shape", "type", "data_distribute", "value_range"}
  IN
  /\ MaxAlternatives \in Nat \ {0}
  /\ FuzzReturns \subseteq Seq(UNION {{ds[i] : i \in 1 .. Len(ds)} : ds \in FuzzReturns})
  /\ \A fs \in DesignInputs :
       /\ Len(fs) \in Nat
       /\ \A f \in 1 .. Len(fs) :
            /\ Len(fs[f].objs) \in Nat
            /\ \A i \in 1 .. Len(fs[f].objs) :
                 LET o == fs[f].objs[i] IN
                 /\ ~o.compile_flag => o.ms \in BOOLEAN
                 /\ ~o.compile_flag /\ Des!ParserOf(o) = "fuzz" =>
                      \A ds \in {o.inputs, o.outputs} :
                        /\ Len(ds) \in Nat
                        /\ \A k \in 1 .. Len(ds) : {"format", "shape", "type"} \subseteq DOMAIN ds[k]
                 /\ ~o.compile_flag /\ Des!ParserOf(o) = "cross" =>
                      \A ds \in {o.inputs, o.outputs} :
                        /\ List(ds)
                        /\ \A j \in 1 .. Len(ds) : \A k \in Alternatives :
                             Des!IsList(ds[j][k]) => List(ds[j][k]) /\ Len(ds[j][k]) <= MaxAlternatives

\* CaseDesign ends without a list when it has no case (design); the widths are
\* those of numpy, and no name stands for none.
ASSUME DataAssumption ==
  /\ NONE \notin Distributions \cup {"attr"}
  /\ \A cs \in CaseLists :
       /\ Len(cs) \in Nat \ {0} /\ DOMAIN cs = 1 .. Len(cs)
       /\ \A c \in DOMAIN cs :
            /\ cs[c].outputs \in Nat /\ Len(cs[c].inputs) \in Nat
            /\ DOMAIN cs[c].inputs = 1 .. Len(cs[c].inputs)
            /\ \A k \in DOMAIN cs[c].inputs :
                 LET in == cs[c].inputs[k]
                 IN  in.shape \in Nat /\ {Widths[in.type], Data!Width(in.type)} \subseteq {1, 2, 4, 8, 16}

\* The elements of a list of numbers, which ast.literal_eval makes of the text.
ASSUME ArgsAssumption ==
  LET Numbers(thr) == thr.parse = "list" => thr.vals \in Seq([float : BOOLEAN, v : Int])
  IN  /\ \A a \in Argvs : "-err_thr" \in DOMAIN a.opts => Numbers(a.opts["-err_thr"])
      /\ \A thr \in CaseThresholds \ {NONE} : Numbers(thr)

\* A run has a case (CaseDesign), and a stage without a result has no status.
ASSUME RepAssumption ==
  /\ Cases \in Seq(Rep!Case) /\ Cases # <<>>
  /\ NULL \notin Rep!Status

\* Outputs are numbers, NAN or INF; a threshold of 0 ends in a ZeroDivisionError.
ASSUME CmpAssumption ==
  /\ {NAN, INF} \cap (Int \cup (Int \X Int)) = {}
  /\ OutputLists \cup LaterLists \subseteq Seq([real : Seq(Cmp!Numbers), expect : Seq(Cmp!Numbers)])
  /\ Unit \in Nat \ {0} /\ DiffThd \in Nat \ {0} /\ PctThd \in Nat /\ MaxDiff \in Nat
  /\ CsvMaxLine \in Nat \ {0}

\* The unified buffer holds whole cubes, at least two of each tensor; a tensor
\* has elements.
ASSUME DimAssumption ==
  /\ C0 \in Nat \ {0} /\ UB_SIZE \in Nat
  /\ UB_SIZE % (4 * (C0 * C0)) = 0 /\ UB_SIZE >= 8 * (C0 * C0)
  /\ Shapes \subseteq [n : Nat \ {0}, c : Nat \ {0}, hw : Nat \ {0}]
  /\ Ops \subseteq {"four2five", "five2four"}

\* No exit status and no count of runs stands for none.
ASSUME CiAssumption == NONE \notin Nat

OffArgs ==
  /\ argv = OFF /\ ini = OFF /\ args = OFF /\ opts = OFF /\ made = OFF
  /\ environ = OFF /\ atc_cmd = OFF /\ outcome = OFF
OffGen ==
  /\ tbe_ops_info = OFF /\ op_type = OFF /\ op_info = OFF /\ base_case = OFF
  /\ base_case_list = OFF
OffDes ==
  /\ json_path_list = OFF /\ case_name_list = OFF /\ REQUIRED_KEYS = OFF
  /\ case_name_to_json_file_map = OFF /\ total_case_list = OFF
  /\ compile_flag = OFF /\ sub = OFF /\ returned = OFF /\ refused = OFF
OffMs ==
  /\ types = OFF /\ machine_type = OFF /\ planned_output_data_paths = OFF
OffData ==
  /\ attr = OFF /\ disk = OFF /\ acl = OFF /\ case = OFF /\ input = OFF
  /\ params = OFF /\ drawn = OFF
OffCmp ==
  /\ outputs = OFF /\ error_report = OFF /\ results = OFF /\ rows = OFF
  /\ part = OFF /\ files = OFF
OffRts ==
  /\ api = OFF /\ ld_paths = OFF /\ kernel_name_cache = OFF /\ rt = OFF
  /\ copy = OFF /\ raised = OFF /\ loads = OFF /\ resets = OFF
  /\ failures = OFF
OffRep ==
  /\ want = OFF /\ func = OFF /\ objects = OFF /\ trace = OFF /\ status = OFF
  /\ expect = OFF /\ expect_dict = OFF /\ cnt = OFF /\ line = OFF
  /\ saved = OFF /\ printed = OFF /\ latest = OFF
OffCi ==
  /\ list = OFF /\ relate = OFF /\ uts = OFF /\ ut_exit = OFF /\ run = OFF
  /\ passed = OFF /\ run_exit = OFF /\ sch_cov = OFF /\ cov_path = OFF
  /\ runs = OFF
OffDim ==
  /\ shape = OFF /\ op = OFF /\ output = OFF /\ input_ub = OFF
  /\ output_ub = OFF /\ output_head_ub = OFF /\ block = OFF

Init ==
  \/ /\ "args" \in Programs /\ program = "args" /\ Args!Init
     /\ OffGen /\ OffDes /\ OffMs /\ OffData /\ OffCmp /\ OffRts /\ OffRep /\ OffCi /\ OffDim
     /\ src = OFF /\ pc = OFF /\ file = OFF /\ cases = OFF /\ error = OFF
     /\ commands = OFF /\ expect_data_paths = OFF /\ result_txt = OFF /\ command = OFF
  \/ /\ "generate" \in Programs /\ program = "generate" /\ Gen!Init
     /\ OffArgs /\ OffDes /\ OffMs /\ OffData /\ OffCmp /\ OffRts /\ OffRep /\ OffCi /\ OffDim
     /\ phase = OFF /\ compared = OFF /\ file = OFF /\ cases = OFF /\ error = OFF
     /\ commands = OFF /\ expect_data_paths = OFF /\ result_txt = OFF /\ command = OFF
  \/ /\ "design" \in Programs /\ program = "design" /\ Des!Init
     /\ OffArgs /\ OffGen /\ OffMs /\ OffData /\ OffCmp /\ OffRts /\ OffRep /\ OffCi /\ OffDim
     /\ phase = OFF /\ compared = OFF /\ src = OFF /\ cases = OFF /\ error = OFF
     /\ commands = OFF /\ expect_data_paths = OFF /\ result_txt = OFF /\ command = OFF
  \/ /\ "mindspore" \in Programs /\ program = "mindspore" /\ Ms!Init
     /\ OffArgs /\ OffGen /\ OffDes /\ OffData /\ OffCmp /\ OffRts /\ OffRep /\ OffCi /\ OffDim
     /\ at = OFF /\ compared = OFF /\ pc = OFF /\ expect_data_paths = OFF
     /\ result_txt = OFF /\ command = OFF
  \/ /\ "data" \in Programs /\ program = "data" /\ Data!Init
     /\ OffArgs /\ OffGen /\ OffDes /\ OffMs /\ OffCmp /\ OffRts /\ OffRep /\ OffCi /\ OffDim
     /\ at = OFF /\ src = OFF /\ pc = OFF /\ file = OFF /\ command = OFF
  \/ /\ "compare" \in Programs /\ program = "compare" /\ Cmp!Init
     /\ OffArgs /\ OffGen /\ OffDes /\ OffMs /\ OffData /\ OffRts /\ OffRep /\ OffCi /\ OffDim
     /\ phase = OFF /\ compared = OFF /\ src = OFF /\ pc = OFF /\ file = OFF
     /\ cases = OFF /\ expect_data_paths = OFF /\ result_txt = OFF
  \/ /\ "rts" \in Programs /\ program = "rts" /\ Rts!Init
     /\ OffArgs /\ OffGen /\ OffDes /\ OffMs /\ OffData /\ OffCmp /\ OffRep /\ OffCi /\ OffDim
     /\ phase = OFF /\ at = OFF /\ compared = OFF /\ src = OFF /\ pc = OFF
     /\ file = OFF /\ cases = OFF /\ error = OFF /\ commands = OFF
     /\ expect_data_paths = OFF /\ result_txt = OFF /\ command = OFF
  \/ /\ "report" \in Programs /\ program = "report" /\ Rep!Init
     /\ OffArgs /\ OffGen /\ OffDes /\ OffMs /\ OffData /\ OffCmp /\ OffRts /\ OffCi /\ OffDim
     /\ at = OFF /\ compared = OFF /\ src = OFF /\ pc = OFF /\ file = OFF
     /\ cases = OFF /\ error = OFF /\ commands = OFF
  \/ /\ "changes" \in Programs /\ program = "changes" /\ Ci!Init
     /\ OffArgs /\ OffGen /\ OffDes /\ OffMs /\ OffData /\ OffCmp /\ OffRts /\ OffRep /\ OffDim
     /\ phase = OFF /\ at = OFF /\ compared = OFF /\ src = OFF /\ pc = OFF
     /\ file = OFF /\ cases = OFF /\ error = OFF /\ commands = OFF
     /\ expect_data_paths = OFF /\ result_txt = OFF /\ command = OFF
  \/ /\ "convert" \in Programs /\ program = "convert" /\ Dim!Init
     /\ OffArgs /\ OffGen /\ OffDes /\ OffMs /\ OffData /\ OffCmp /\ OffRts /\ OffRep /\ OffCi
     /\ phase = OFF /\ at = OFF /\ compared = OFF /\ src = OFF /\ file = OFF
     /\ cases = OFF /\ error = OFF /\ commands = OFF /\ expect_data_paths = OFF
     /\ result_txt = OFF /\ command = OFF

\* A step of the program, which keeps what is not its own.
Next ==
  \/ /\ program = "args" /\ Args!Next
     /\ UNCHANGED <<program, ownGen, ownDes, ownMs, ownData, ownCmp, ownRts, ownRep,
                    ownCi, ownDim, src, pc, file, cases, error, commands,
                    expect_data_paths, result_txt, command>>
  \/ /\ program = "generate" /\ Gen!Next
     /\ UNCHANGED <<program, ownArgs, ownDes, ownMs, ownData, ownCmp, ownRts, ownRep,
                    ownCi, ownDim, phase, compared, file, cases, error, commands,
                    expect_data_paths, result_txt, command>>
  \/ /\ program = "design" /\ Des!Next
     /\ UNCHANGED <<program, ownArgs, ownGen, ownMs, ownData, ownCmp, ownRts, ownRep,
                    ownCi, ownDim, phase, compared, src, cases, error, commands,
                    expect_data_paths, result_txt, command>>
  \/ /\ program = "mindspore" /\ Ms!Next
     /\ UNCHANGED <<program, ownArgs, ownGen, ownDes, ownData, ownCmp, ownRts, ownRep,
                    ownCi, ownDim, at, compared, pc, expect_data_paths, result_txt,
                    command>>
  \/ /\ program = "data" /\ Data!Next
     /\ UNCHANGED <<program, ownArgs, ownGen, ownDes, ownMs, ownCmp, ownRts, ownRep,
                    ownCi, ownDim, at, src, pc, file, command>>
  \/ /\ program = "compare" /\ Cmp!Next
     /\ UNCHANGED <<program, ownArgs, ownGen, ownDes, ownMs, ownData, ownRts, ownRep,
                    ownCi, ownDim, phase, compared, src, pc, file, cases,
                    expect_data_paths, result_txt>>
  \/ /\ program = "rts" /\ Rts!Next
     /\ UNCHANGED <<program, ownArgs, ownGen, ownDes, ownMs, ownData, ownCmp, ownRep,
                    ownCi, ownDim, phase, at, compared, src, pc, file, cases, error,
                    commands, expect_data_paths, result_txt, command>>
  \/ /\ program = "report" /\ Rep!Next
     /\ UNCHANGED <<program, ownArgs, ownGen, ownDes, ownMs, ownData, ownCmp, ownRts,
                    ownCi, ownDim, at, compared, src, pc, file, cases, error, commands>>
  \/ /\ program = "changes" /\ Ci!Next
     /\ UNCHANGED <<program, ownArgs, ownGen, ownDes, ownMs, ownData, ownCmp, ownRts,
                    ownRep, ownDim, phase, at, compared, src, pc, file, cases, error,
                    commands, expect_data_paths, result_txt, command>>
  \/ /\ program = "convert" /\ Dim!Next
     /\ UNCHANGED <<program, ownArgs, ownGen, ownDes, ownMs, ownData, ownCmp, ownRts,
                    ownRep, ownCi, phase, at, compared, src, file, cases, error, commands,
                    expect_data_paths, result_txt, command>>

Spec == Init /\ [][Next]_vars

-----------------------------------------------------------------------------
(* Properties: those of the modules, of the program that runs.              *)

\* In a sub-case, inputs and outputs take the same position of their lists of
\* formats, shapes and types (_cross_tensor, _get_sub_test_cases).
Paired == program = "design" => Des!Paired

\* Every combination that the outputs of a case list is in one of its
\* sub-cases (_get_count, _get_sub_test_cases).
EveryCombination == program = "design" => Des!EveryCombination

\* A sub-case holds, in place of "fuzz", the values of one call of the fuzz
\* function made for it (subcase_generate, _replace_fuzz_param).
FuzzOwnCall == program = "design" => Des!FuzzOwnCall

\* A case with all the keys const_manager.py requires is not refused for a
\* missing key (check_required_key_valid).
OnlyRequiredKeys == program = "design" => Des!OnlyRequiredKeys

\* A case made from a layer of a model has the shapes of this layer alone
\* (_get_new_base_case).
LayersApart == program = "generate" => Gen!LayersApart

\* The context the object takes for the current one is the one the runtime
\* has, until the device is reset (create_context, destroy_context).
CurrentAgrees == program = "rts" => Rts!CurrentAgrees

\* The memory whose address the runtime was given, of binaries and of names,
\* is kept (register_device_binary_kernel, register_function).
AddressesKept == program = "rts" => Rts!AddressesKept

\* A copy takes at most four calls and gives up only after all of them, but
\* for one simulator (memcpy).
CopyAttempts == program = "rts" => Rts!CopyAttempts

\* The expected data of a case was computed from the data its run reads
\* (_get_input_dict_with_data, add_const_info_in_acl_json).
SameData == program = "data" => Data!SameData

\* No output and no expected data of an earlier command is compared
\* (_get_compare_stage_result, _get_compare_result_list).
ComparesOwnRun == program = "data" => Data!ComparesOwnRun

\* An output passes if and only if it is as close to the expected data as the
\* thresholds ask, unless these are very small (_get_error_percent,
\* _cal_relative_diff_np).
VerdictSound == program = "compare" => Cmp!VerdictSound

\* The csv files of an output hold its errors, each once and in order, also
\* where files of an earlier comparison are there (_save_data_to_multi_csv).
ReportComplete == program = "compare" => Cmp!ReportComplete

\* The MindSpore script of a `run' holds the tests of its own cases and no
\* others (check_output_path, _append_content_to_file).
OwnTests == program = "mindspore" => Ms!OwnTests

\* Every comparison has a valid threshold, and the one of the command line
\* wherever that gave one (get_error_threshold, _check_error_threshold).
ThresholdInForce == program = "args" => Args!ThresholdInForce

\* The status of a case in the summary is failed if and only if the last
\* result of one of its stages is (OpSTCaseTrace, OpSTCaseReport).
VerdictFromLatest == program = "report" => Rep!VerdictFromLatest

\* The summary of `run' counts as successes the cases that went as their json
\* says (OpSTReport.add_case_report, console_print).
RunCountsMatch == program = "report" => Rep!RunCountsMatch
\* What the build compiles because of a change, the unit-test build tests
\* (parse_changed_files.py, parse_compile_changed_files.py, build.sh).
RebuiltIsTested == program = "changes" => Ci!RebuiltIsTested

\* A Python test run that ends with status 0 has passed the suite of every
\* changed file and reports its own coverage (run_ut.py).
GreenMeansTested == program = "changes" => Ci!GreenMeansTested

\* The emitted copies and transpositions put every element where it belongs
\* (_four2five_ir, _five2four_ir).
Converted == program = "convert" => Dim!Converted

\* They do for the shapes whose blocks and bursts are regular.
ConvertedWhereRegular == program = "convert" => Dim!ConvertedWhereRegular
=============================================================================
