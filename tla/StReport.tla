------------------------------ MODULE StReport ------------------------------
(***************************************************************************)
(* The report of a system-test run: what OpSTCaseTrace, OpSTCaseReport and  *)
(* OpSTReport keep, and the stages that write to it (AtcTransformOm,        *)
(* MsOpGenerator and MsOpRunner, ResultTxtParser, ResultCompare).  A stage  *)
(* result is an object; one object may be in the traces of several cases,   *)
(* and add_stage_result overwrites earlier objects of the same name where   *)
(* they are.  Saving and loading the report copies every object.           *)
(*                                                                         *)
(* The commands that call the stages, and the binary that writes           *)
(* result.txt, are external: `run' goes through all the stages, `compare'   *)
(* starts from a saved report.  An exception ends the stages; what follows  *)
(* is the summary and the save, in either order, or nothing.               *)
(***************************************************************************)
EXTENDS Naturals, Sequences, SequencesExt, FiniteSets

CONSTANTS Cases,           \* the cases of the run, in the order of report_list,
                           \* no two of one name
          MaxCommands,     \* bound: `run', then MaxCommands - 1 times `compare'
          NULL

Case == ToSet(Cases)
Status == {"success", "failed"}
Stages == {"atc_single_op_convert", "gen_ms_code", "run_ms_op_test_code",
           "run_acl_code", "compare_data"}
Results == {"[pass]", "[fail]", "unsupported"}

VARIABLES want,        \* case -> "expect" of its json
          func,        \* case -> it has a calc_expect_func_file_func
          expect_data_paths,   \* case -> DataGenerator has set them
          objects,     \* the OpSTStageResult objects, [stage, status], by the case
                       \* and the index of the list they first were in
          trace,       \* case -> its stage_result
          status, expect,      \* case -> as in its OpSTCaseReport
          expect_dict,         \* case -> expect, or empty
          cnt,         \* total_cnt, success_cnt, failed_cnt
          result_txt,  \* NULL, or its lines [case, result]
          line,        \* the line compare is at
          saved,       \* the json file: NULL, or case -> its stages, with latest
          command, phase, printed,
          latest       \* history: case -> stage -> what was last added, or NULL

given == <<want, func>>
verdict == <<status, expect, expect_dict, cnt, printed>>
traces == <<objects, trace, latest>>
vars == <<want, func, expect_data_paths, objects, trace, status, expect, expect_dict,
          cnt, result_txt, line, saved, command, phase, printed, latest>>

Init ==
  /\ want \in [Case -> Status] /\ func \in [Case -> BOOLEAN]
  /\ expect_data_paths = [c \in Case |-> FALSE]
  /\ objects = <<>> /\ trace = [c \in Case |-> <<>>]
  /\ status = [c \in Case |-> "success"] /\ expect = [c \in Case |-> "success"]
  /\ expect_dict = want /\ cnt = [total |-> 0, success |-> 0, failed |-> 0]
  /\ result_txt = NULL /\ line = 1 /\ saved = NULL
  /\ command = 1 /\ phase = "data" /\ printed = FALSE
  /\ latest = [c \in Case |-> [s \in Stages |-> NULL]]

-----------------------------------------------------------------------------
(* add_stage_result                                                        *)

Memory == [objects |-> objects, trace |-> trace, latest |-> latest]

\* One new object for all of cs: objects of the same name in their traces take
\* its values, then it is appended to each.
Add(mem, cs, stage, st) ==
  LET old == {k \in DOMAIN mem.objects :
                mem.objects[k].stage = stage /\ \E c \in cs : k \in ToSet(mem.trace[c])}
      first == CHOOSE c \in cs : TRUE
      new == <<first, Len(mem.trace[first]) + 1>>
  IN  [objects |-> [k \in DOMAIN mem.objects \cup {new} |->
                      IF k \in old \cup {new} THEN [stage |-> stage, status |-> st] ELSE mem.objects[k]],
       trace |-> [c \in Case |-> IF c \in cs THEN Append(mem.trace[c], new) ELSE mem.trace[c]],
       latest |-> [c \in Case |-> IF c \in cs THEN [mem.latest[c] EXCEPT ![stage] = st]
                                              ELSE mem.latest[c]]]

Becomes(mem) == objects' = mem.objects /\ trace' = mem.trace /\ latest' = mem.latest

-----------------------------------------------------------------------------
(* The stages of `run'                                                     *)

\* DataGenerator: a case with an expect function gets expected data, unless
\* the function fails to give any.
GenerateData ==
  /\ phase = "data"
  /\ expect_data_paths' \in {p \in [Case -> BOOLEAN] : \A c \in Case : p[c] => func[c]}
  /\ phase' \in {"atc", "ms"}
  /\ UNCHANGED <<given, verdict, traces, result_txt, line, saved, command>>

Atc == "atc_single_op_convert"

AtcSucceeds ==
  /\ phase = "atc"
  /\ Becomes(Add(Add(Memory, Case, Atc, "success"), Case, Atc, "success"))
  /\ phase' = "acl"
  /\ UNCHANGED <<given, expect_data_paths, verdict, result_txt, line, saved, command>>

\* A failed conversion goes on when a case is expected to fail or some models
\* are there, and then records success over the failure.
AtcFails(models) ==
  /\ phase = "atc"
  /\ IF (\A c \in Case : expect_dict[c] # "failed") /\ ~models
     THEN Becomes(Add(Memory, Case, Atc, "failed")) /\ phase' = "report"
     ELSE /\ Becomes(Add(Add(Memory, Case, Atc, "failed"), Case, Atc, "success"))
          /\ phase' = "acl"
  /\ UNCHANGED <<given, expect_data_paths, verdict, result_txt, line, saved, command>>

\* MsOpGenerator, then MsOpRunner, whose test script may fail.
RunMs(st) ==
  /\ phase = "ms"
  /\ Becomes(Add(Add(Memory, Case, "gen_ms_code", "success"), Case, "run_ms_op_test_code", st))
  /\ phase' = "report"
  /\ UNCHANGED <<given, expect_data_paths, verdict, result_txt, line, saved, command>>

\* External: the compiled test writes a line for each case it gets to.
Lines == UNION {[1 .. n -> Results] : n \in 0 .. Len(Cases)}
RunAcl ==
  /\ phase = "acl"
  /\ \/ result_txt' = NULL
     \/ \E r \in Lines : result_txt' = [i \in DOMAIN r |-> [case |-> Cases[i], result |-> r[i]]]
  /\ phase' = "check"
  /\ UNCHANGED <<given, expect_data_paths, verdict, traces, line, saved, command>>

-----------------------------------------------------------------------------
(* ResultCompare                                                           *)

\* ResultTxtParser._check_result_txt
CheckResultTxt ==
  /\ phase = "check"
  /\ IF result_txt = NULL
     THEN Becomes(Add(Memory, Case, "run_acl_code", "failed")) /\ phase' = "report"
     ELSE phase' = "compare" /\ UNCHANGED traces
  /\ line' = 1
  /\ UNCHANGED <<given, expect_data_paths, verdict, result_txt, saved, command>>

\* The outputs compared, each "Pass" or "Failed"; an output without a file or
\* a type is skipped.
CompareStatus(outputs) == IF outputs = {"Pass"} THEN "success" ELSE "failed"

\* _get_compare_stage_result and _get_run_stage_result
LineResult(c, result, outputs) ==
  LET run(st) == Add(Memory, {c}, "run_acl_code", st)
  IN  CASE result = "[fail]" -> run("failed")
        [] result = "[pass]" /\ func[c] ->
             Add(run("success"), {c}, "compare_data",
                 IF expect_data_paths[c] THEN CompareStatus(outputs) ELSE "failed")
        [] result = "[pass]" /\ ~func[c] -> run("success")
        [] OTHER -> Memory

CompareLine(outputs) ==
  /\ phase = "compare" /\ line <= Len(result_txt)
  /\ Becomes(LineResult(result_txt[line].case, result_txt[line].result, outputs))
  /\ line' = line + 1
  /\ UNCHANGED <<given, expect_data_paths, verdict, result_txt, saved, command, phase>>

CompareEnds ==
  /\ phase = "compare" /\ line > Len(result_txt)
  /\ phase' = "report"
  /\ UNCHANGED <<given, expect_data_paths, verdict, traces, result_txt, line, saved, command>>

-----------------------------------------------------------------------------
(* The report                                                              *)

Entries(c) == [i \in DOMAIN trace[c] |-> objects[trace[c][i]]]

UpdatedStatus_Last(c) ==
  IF trace[c] # <<>> /\ objects[Last(trace[c])].status # "success" THEN "failed" ELSE status[c]
\* OpSTCaseReport.update_case_status
UpdatedStatus(c) ==
  IF \E i \in DOMAIN trace[c] : objects[trace[c][i]].status # "success"
  THEN "failed" ELSE status[c]

\* OpSTCaseReport.update_case_expect
UpdatedExpect(c) ==
  IF c \in DOMAIN expect_dict THEN IF expect_dict[c] = "failed" THEN "failed" ELSE expect[c]
                              ELSE expect[c]

Counted(st, ex) ==
  LET good == {c \in Case : st[c] = ex[c]}
  IN  [total |-> cnt.total + Len(Cases),
       success |-> cnt.success + Cardinality(good),
       failed |-> cnt.failed + Len(Cases) - Cardinality(good)]

ConsolePrint_CountsFirst ==
  /\ phase = "report" /\ ~printed
  /\ status' = [c \in Case |-> UpdatedStatus(c)]
  /\ expect' = [c \in Case |-> UpdatedExpect(c)]
  /\ cnt' = Counted(status, expect)
  /\ printed' = TRUE
  /\ UNCHANGED <<given, expect_data_paths, traces, expect_dict, result_txt, line, saved, command, phase>>
\* console_print
ConsolePrint ==
  /\ phase = "report" /\ ~printed
  /\ status' = [c \in Case |-> UpdatedStatus(c)]
  /\ expect' = [c \in Case |-> UpdatedExpect(c)]
  /\ cnt' = Counted(status', expect')
  /\ printed' = TRUE
  /\ UNCHANGED <<given, expect_data_paths, traces, expect_dict, result_txt, line, saved, command, phase>>

Save ==
  /\ phase = "report"
  /\ saved' = [c \in Case |-> [stages |-> Entries(c), latest |-> latest[c]]]
  /\ UNCHANGED <<given, expect_data_paths, verdict, traces, result_txt, line, command, phase>>

-----------------------------------------------------------------------------
(* `compare': a new process loads the report.                              *)

\* The entries of the file, each of which becomes an object.
Loaded == UNION {{<<c, i>> : i \in DOMAIN saved[c].stages} : c \in Case}

\* load: the stages are kept; the status, the expectations and the counts of the
\* file are not read.
Load ==
  /\ phase = "report" /\ saved # NULL /\ command < MaxCommands
  /\ objects' = [k \in Loaded |-> saved[k[1]].stages[k[2]]]
  /\ trace' = [c \in Case |-> [i \in DOMAIN saved[c].stages |-> <<c, i>>]]
  /\ latest' = [c \in Case |-> saved[c].latest]
  /\ status' = [c \in Case |-> "success"] /\ expect' = [c \in Case |-> "success"]
  /\ expect_dict' = <<>> /\ cnt' = [total |-> 0, success |-> 0, failed |-> 0]
  /\ printed' = FALSE
  /\ command' = command + 1 /\ phase' \in {"acl", "check"}
  /\ UNCHANGED <<given, expect_data_paths, result_txt, line, saved>>

Next ==
  \/ GenerateData \/ AtcSucceeds \/ \E models \in BOOLEAN : AtcFails(models)
  \/ \E st \in Status : RunMs(st)
  \/ RunAcl \/ CheckResultTxt \/ \E outputs \in SUBSET {"Pass", "Failed"} : CompareLine(outputs)
  \/ CompareEnds \/ ConsolePrint \/ Save \/ Load
Spec == Init /\ [][Next]_vars

-----------------------------------------------------------------------------

\* The status in the summary is failed if and only if the last report of some
\* stage is, in the command that ran the stages and in those that loaded it.
VerdictFromLatest ==
  printed => \A c \in Case : status[c] = "failed" <=> \E s \in Stages : latest[c][s] = "failed"

\* `run' counts as successes the cases that went as their json says, and the
\* rest as failures.
RunCountsMatch ==
  printed /\ command = 1 =>
    /\ cnt.success = Cardinality({c \in Case :
                        want[c] = "failed" <=> \E s \in Stages : latest[c][s] = "failed"})
    /\ cnt.success + cnt.failed = Len(Cases) /\ cnt.total = Len(Cases)

=============================================================================
