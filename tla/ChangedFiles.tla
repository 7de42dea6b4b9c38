---------------------------- MODULE ChangedFiles ----------------------------
(***************************************************************************)
(* What the continuous integration builds and tests of a pull request: the   *)
(* list of changed files that git gives, parse_compile_changed_files.py and  *)
(* build.sh -f for the build, parse_changed_files.py and build.sh -u -f for   *)
(* the C++ unit tests, run_test.sh and run_ut.py for the Python ones.         *)
(*                                                                         *)
(* A line of the list is [dir, ext]: the directory that the scripts'          *)
(* prefixes tell apart, and the extension.  Compilers and test programs are   *)
(* external.  The build directory outlives a pull request.                    *)
(***************************************************************************)
EXTENDS Naturals, Sequences, FiniteSets

CONSTANTS NONE,
          Lists,           \* sets of lines; NONE where the file is missing
          MaxRuns          \* bound

VARIABLES list,            \* the list of this pull request
          relate,          \* what build.sh -f compiles, "full" for everything
          uts,             \* the C++ tests build.sh -u -f runs
          ut_exit,         \* its exit status
          run,             \* run_ut.py: [stage, all, sch_tag, ops_tag]
          passed,          \* the Python suites that passed in this run
          run_exit,
          sch_cov,         \* the run whose coverage sch_run_ut.py left
          cov_path,        \* the run whose .coverage.sch is in the report
          runs

vars == <<list, relate, uts, ut_exit, run, passed, run_exit, sch_cov, cov_path, runs>>

Idle == [stage |-> "idle", all |-> FALSE, sch_tag |-> FALSE, ops_tag |-> FALSE]

Init ==
  /\ list \in Lists /\ relate = NONE /\ uts = NONE /\ ut_exit = NONE
  /\ run = Idle /\ passed = {} /\ run_exit = NONE
  /\ sch_cov = NONE /\ cov_path = NONE /\ runs = 0

-----------------------------------------------------------------------------
(* The two parsers                                                         *)

Source == {"cc", "h", "cpp"}
Tests == {"aicpu_test", "tests_utils", "graph_fusion", "binary_om_test", "ops_test", "op_tiling_test",
          "plugin_test_tf", "plugin_test_common", "plugin_test_onnx", "tests_other"}
AutoSchedule == {"auto_schedule_python", "auto_schedule_other"}
Tools == {"tools_sch_test_frame", "tools_other"}
NotCompileFile == {"root_document"}      \* not_compile_file

\* A chain of elifs: the first rule that takes the line.
FirstRule(rules, line) ==
  LET takes == {k \in DOMAIN rules : line.dir \in rules[k][2]}
  IN  IF takes = {} THEN "OTHER_FILE" ELSE rules[CHOOSE k \in takes : \A j \in takes : k <= j][1]

\* parse_changed_files.py.
UtRules(line) ==
  << <<"CPU_UT", {"aicpu", "aicpu_test", "tests_utils"}>>,
     <<"PASS_UT", {"fusion_pass", "graph_fusion"}>>,
     <<"OM_UT", IF line.ext \in Source THEN {"binary_config_utils", "binary_om_test"} ELSE {}>>,
     <<"PROTO_UT", {"op_proto", "ops_test"}>>,
     <<"TILING_UT", {"op_tiling", "op_tiling_test"}>>,
     <<"PLUGIN_UT", {"tf_plugin", "plugin_test_tf", "plugin_test_common"}>>,
     <<"ONNX_PLUGIN_UT", {"onnx_plugin", "plugin_test_onnx", "plugin_test_common"}>> >>

UtChanges(lines) == {FirstRule(UtRules(l), l) : l \in {l \in lines : l.ext # "py"}}

\* A change of op_proto replaces what was found before it.
RelateUt_Replaces(lines) ==
  IF "PROTO_UT" \in UtChanges(lines) THEN {"PROTO_UT", "PASS_UT", "PLUGIN_UT"} ELSE UtChanges(lines) \ {"OTHER_FILE"}

\* _get_relate_ut_list_by_file_change, without other_file: build.sh does not
\* use it.
RelateUt(lines) ==
  LET changes == UtChanges(lines)
  IN  (changes \ {"OTHER_FILE"}) \cup (IF "PROTO_UT" \in changes THEN {"PASS_UT", "PLUGIN_UT"} ELSE {})

\* parse_compile_changed_files.py: the rules that end in "continue",
\* the lines that are skipped, and the other rules.
EarlyRules ==
  << <<"SCHEDULE", AutoSchedule>>, <<"TBE", {"tbe"}>>, <<"FUSION_RULES", {"fusion_rules"}>>, <<"TOOLS", Tools>> >>
CompileRules ==
  << <<"CPU", {"aicpu"}>>, <<"PASS", {"fusion_pass"}>>, <<"PROTO", {"op_proto"}>>, <<"TILING", {"op_tiling"}>>,
     <<"TF_PLUGIN", {"tf_plugin"}>>, <<"ONNX_PLUGIN", {"onnx_plugin"}>>, <<"CAFFE_PLUGIN", {"caffe_plugin"}>> >>

Skipped(line) == line.dir \in {"scripts"} \cup Tests \cup NotCompileFile \/ line.ext = "py"

RelateOf(line) ==
  LET early == FirstRule(EarlyRules, line)
  IN  CASE early # "OTHER_FILE" -> {early}
        [] early = "OTHER_FILE" /\ Skipped(line) -> {}
        [] OTHER -> {FirstRule(CompileRules, line)}

Relate(lines) == UNION {RelateOf(l) : l \in lines}

-----------------------------------------------------------------------------
(* build.sh                                                                *)

\* build.sh -f: "cat" of a missing list ends the script.  A file of no
\* component compiles everything.
BuildCi ==
  /\ relate = NONE /\ list # NONE
  /\ relate' = IF "OTHER_FILE" \in Relate(list) THEN {"full"} ELSE Relate(list)
  /\ UNCHANGED <<list, uts, ut_exit, run, passed, run_exit, sch_cov, cov_path, runs>>

\* The matches of "$related_ut" are matches of substrings.
Triggered(relate_ut) == relate_ut \cup (IF "ONNX_PLUGIN_UT" \in relate_ut THEN {"PLUGIN_UT"} ELSE {})

\* build.sh -u -f.  Nothing to run is status 200, a missing list 1.
BuildUt ==
  /\ ut_exit = NONE
  /\ IF list = NONE
     THEN uts' = {} /\ ut_exit' = 1
     ELSE /\ uts' = Triggered(RelateUt(list))
          /\ ut_exit' = IF RelateUt(list) = {} THEN 200 ELSE 0
  /\ UNCHANGED <<list, relate, run, passed, run_exit, sch_cov, cov_path, runs>>

-----------------------------------------------------------------------------
(* run_ut.py, as run_test.sh runs it                                       *)

ScheduleDirs == {"auto_schedule_python", "tools_sch_test_frame"}

\* run_test.sh removes the report of the ops tests, then the tags are set; a
\* list that cannot be opened raises.  "all" gives run_ut.py no list.
StartRunUt(all) ==
  /\ run.stage = "idle" /\ run_exit = NONE /\ runs < MaxRuns
  /\ runs' = runs + 1 /\ cov_path' = NONE /\ passed' = {}
  /\ IF ~all /\ list = NONE
     THEN run_exit' = 1 /\ UNCHANGED run
     ELSE /\ run' = [stage |-> "schedule", all |-> all,
                     sch_tag |-> ~all /\ \E l \in list : l.dir \in ScheduleDirs,
                     ops_tag |-> all \/ \E l \in list : l.dir \notin ScheduleDirs]
          /\ UNCHANGED run_exit
  /\ UNCHANGED <<list, relate, uts, ut_exit, sch_cov>>

\* The result of the schedule tests is not looked at.
RunSchedule_Unchecked(ok, covered) ==
  /\ run.stage = "schedule"
  /\ run' = [run EXCEPT !.stage = "ops"]
  /\ sch_cov' = IF run.sch_tag /\ covered THEN runs ELSE sch_cov
  /\ passed' = IF run.sch_tag /\ ok THEN passed \cup {"sch"} ELSE passed
  /\ UNCHANGED <<list, relate, uts, ut_exit, run_exit, cov_path, runs>>

\* The schedule tests; a suite that fails may leave its coverage too.
RunSchedule(ok, covered) ==
  /\ run.stage = "schedule"
  /\ IF ~run.sch_tag
     THEN run' = [run EXCEPT !.stage = "ops"] /\ UNCHANGED <<passed, run_exit, sch_cov>>
     ELSE /\ sch_cov' = IF covered THEN runs ELSE sch_cov
          /\ ok => covered
          /\ IF ok THEN run' = [run EXCEPT !.stage = "ops"] /\ passed' = passed \cup {"sch"} /\ UNCHANGED run_exit
                   ELSE run' = Idle /\ run_exit' = 1 /\ UNCHANGED passed
  /\ UNCHANGED <<list, relate, uts, ut_exit, cov_path, runs>>

RunOps(ok) ==
  /\ run.stage = "ops"
  /\ IF run.ops_tag /\ ~ok
     THEN run' = Idle /\ run_exit' = 1 /\ UNCHANGED passed
     ELSE /\ run' = [run EXCEPT !.stage = "move"] /\ UNCHANGED run_exit
          /\ passed' = passed \cup (IF run.ops_tag THEN {"ops"} ELSE {})
  /\ UNCHANGED <<list, relate, uts, ut_exit, sch_cov, cov_path, runs>>

\* The coverage of the schedule tests is moved into the report, whichever
\* run left it.
MoveCoverage ==
  /\ run.stage = "move"
  /\ IF sch_cov # NONE THEN cov_path' = sch_cov /\ sch_cov' = NONE ELSE UNCHANGED <<sch_cov, cov_path>>
  /\ run' = [run EXCEPT !.stage = "idle"] /\ run_exit' = 0
  /\ UNCHANGED <<list, relate, uts, ut_exit, passed, runs>>

\* The next pull request, in the same build directory.
NextPullRequest(l) ==
  /\ run_exit # NONE /\ runs < MaxRuns
  /\ list' = l /\ relate' = NONE /\ uts' = NONE /\ ut_exit' = NONE
  /\ run' = Idle /\ passed' = {} /\ run_exit' = NONE
  /\ UNCHANGED <<sch_cov, cov_path, runs>>

Next ==
  \/ BuildCi \/ BuildUt \/ MoveCoverage
  \/ \E all \in BOOLEAN : StartRunUt(all)
  \/ \E ok, covered \in BOOLEAN : RunSchedule(ok, covered)
  \/ \E ok \in BOOLEAN : RunOps(ok)
  \/ \E l \in Lists : NextPullRequest(l)

Spec == Init /\ [][Next]_vars

-----------------------------------------------------------------------------
(* Properties                                                              *)

\* What the build compiles because its own files changed, the unit-test build
\* tests: the two scripts classify a file by chains of prefixes of their own,
\* and build.sh reads their answers by substring.  caffe_plugin has no tests.
RebuiltIsTested ==
  relate # NONE /\ ut_exit # NONE =>
    \A pair \in { <<"CPU", "CPU_UT">>, <<"PASS", "PASS_UT">>, <<"PROTO", "PROTO_UT">>,
                  <<"TILING", "TILING_UT">>, <<"TF_PLUGIN", "PLUGIN_UT">>, <<"ONNX_PLUGIN", "ONNX_PLUGIN_UT">> } :
      pair[1] \in relate => pair[2] \in uts /\ ut_exit = 0

\* A Python run that ends with status 0 has passed the suite of every file
\* that changed, and the schedule coverage in its report, where the schedule
\* suite was one of them, is that of this run and not one that an earlier
\* failed run left in the build directory.
GreenMeansTested ==
  run_exit = 0 =>
    /\ ~run.all => \A l \in list : (IF l.dir \in ScheduleDirs THEN "sch" ELSE "ops") \in passed
    /\ run.all => "ops" \in passed
    /\ "sch" \in passed => cov_path = runs

=============================================================================
