------------------------------- MODULE Msopst -------------------------------
(***************************************************************************)
(* The command line of msopst (MsopstArgParser), the options of msopst.ini   *)
(* (AdvanceIniParser), and where they take effect: the environment and the    *)
(* command line of ATC, and the error threshold of a comparison.              *)
(*                                                                         *)
(* A command line is [cmd, opts]: the command, or subcommand of mi, and the   *)
(* values of the options that were given.  An error threshold is [parse,       *)
(* vals]: what ast.literal_eval makes of the text, and its elements             *)
(* [float, v], v in hundredths.  Names, paths and values of ini options are     *)
(* told apart as far as the checks do.  The program that calls the two          *)
(* parsers is external.                                                      *)
(***************************************************************************)
EXTENDS Integers, Sequences, FiniteSets

CONSTANTS NONE,
          Argvs,           \* the command lines
          Inis,            \* the contents of the ini file, NONE where there is none
          CaseThresholds,  \* the ERROR_THRESHOLD that a case file may have
          Disk             \* path -> its kind, for the paths that are checked

VARIABLES argv, ini, phase,
          args,            \* the fields of MsopstArgParser that are set
          opts,            \* AdvanceIniArgs
          at,              \* the option of the ini file that is next
          made,            \* the directories that check_path_valid made
          environ, atc_cmd,
          compared,        \* the thresholds of comparisons: [own, used]
          outcome          \* "ok", an error code, "usage" or an exception

vars == <<argv, ini, phase, args, opts, at, made, environ, atc_cmd, compared, outcome>>

AdvanceIniArgs ==
  [only_gen_without_run |-> "False", only_run_without_gen |-> "False", ascend_global_log_level |-> "3",
   ascend_slog_print_to_stdout |-> "0", atc_singleop_advance_option |-> "", performance_mode |-> "False",
   host_arch |-> NONE, tool_chain |-> NONE]

Init ==
  /\ argv \in Argvs /\ ini \in (IF "-conf" \in DOMAIN argv.opts THEN Inis ELSE {NONE})
  /\ phase = "argv" /\ args = <<>> /\ opts = AdvanceIniArgs /\ at = 1
  /\ made = {} /\ environ = NONE /\ atc_cmd = NONE /\ compared = {} /\ outcome = "ok"

-----------------------------------------------------------------------------
(* MsopstArgParser                                                         *)

create_parser == [required |-> {"-i"}, optional |-> {"-out", "-m", "-q"}]
run_parser == [required |-> {"-i", "-soc"}, optional |-> {"-out", "-c", "-d", "-conf", "-err_thr", "-err_report"}]
mi_gen_parser == [required |-> {"-i"}, optional |-> {"-out", "-c"}]
gen_testcase_parser == [required |-> {"-i"}, optional |-> {"-out", "-d"}]
mi_compare_parser == [required |-> {}, optional |-> {"-i", "-out", "-err_thr", "-err_report"}]
compare_by_path_parser == [required |-> {"-result", "-expect"}, optional |-> {"-err_report"}]
get_shape_parser == [required |-> {"-m"}, optional |-> {"-out"}]
change_shape_parser == [required |-> {"-m", "-i"}, optional |-> {"-out"}]

Parser ==
  [create |-> create_parser, run |-> run_parser, get_shape |-> get_shape_parser, change_shape |-> change_shape_parser,
   gen |-> mi_gen_parser, gen_testcase |-> gen_testcase_parser, compare |-> mi_compare_parser,
   compare_by_path |-> compare_by_path_parser]

Float(v) == [float |-> TRUE, v |-> v]
DEFAULT_ERROR_THRESHOLD == <<Float(1), Float(5)>>
CompareDefault == [parse |-> "list", vals |-> DEFAULT_ERROR_THRESHOLD]

Default(cmd, option) ==
  CASE option = "-c" -> "all" [] option = "-d" -> "0" [] option = "-err_report" -> "false"
    [] option = "-err_thr" -> IF cmd = "compare" THEN CompareDefault ELSE NONE
    [] OTHER -> ""
Arg(option) == IF option \in DOMAIN argv.opts THEN argv.opts[option] ELSE Default(argv.cmd, option)

\* argparse: the options that must be there, and the choices of -err_report.
Parses ==
  /\ Parser[argv.cmd].required \subseteq DOMAIN argv.opts
  /\ DOMAIN argv.opts \subseteq Parser[argv.cmd].required \cup Parser[argv.cmd].optional
  /\ "-err_report" \in DOMAIN argv.opts => argv.opts["-err_report"] \in {"false", "true"}

check_name_valid(name) == IF name \in {"", "long", "bad!"} THEN "InvalidParam" ELSE "ok"
check_case_name_valid(name) == IF name = "" THEN "ok" ELSE check_name_valid(name)
check_device_id(id) == IF id \in {"0", "1"} THEN "ok" ELSE "InvalidDeviceId"

\* Accepts two numbers that need not be in range.
check_list_float_Unranged(list) ==
  IF \A k \in DOMAIN list : list[k].float THEN "ok" ELSE "InvalidErrorThreshold"

check_list_float(list) ==
  IF \A k \in DOMAIN list : list[k].float /\ list[k].v >= 0 /\ list[k].v <= 100 THEN "ok" ELSE "InvalidErrorThreshold"

check_error_threshold(thr) ==
  IF thr.parse = "list" /\ Len(thr.vals) = 0 THEN "ok"
  ELSE IF thr.parse = "list" /\ Len(thr.vals) = 2 THEN check_list_float(thr.vals)
  ELSE "InvalidErrorThreshold"

\* A text that is no expression raises SyntaxError, which nobody catches.
gen_error_threshold(thr) ==
  CASE thr = NONE -> "ok"
    [] thr # NONE /\ thr.parse = "SyntaxError" -> "SyntaxError"
    [] OTHER -> check_error_threshold(thr)
ErrThr(thr) == IF thr = NONE THEN <<>> ELSE thr.vals

\* check_path_valid: a directory that is missing is made; what it returns of
\* a path, and of which it makes a directory.
CheckPathValid(path, isdir) ==
  LET kind == IF path = "" THEN "null" ELSE Disk[path]
  IN  CASE kind = "null" -> "InvalidParam"
        [] kind = "missing" /\ isdir -> "ok"
        [] kind = (IF isdir THEN "dir" ELSE "file") -> "ok"
        [] OTHER -> "InvalidPath"
Makes(path) == path # "" /\ Disk[path] = "missing"

\* The checks of a command, in the order of _check_run_args and _check_mi_args.
Checks ==
  CASE argv.cmd = "run" -> <<check_case_name_valid(Arg("-c")), check_name_valid(Arg("-soc")), check_device_id(Arg("-d")),
                             gen_error_threshold(Arg("-err_thr"))>>
    [] argv.cmd = "gen" -> <<check_case_name_valid(Arg("-c"))>>
    [] argv.cmd = "gen_testcase" -> <<check_device_id(Arg("-d"))>>
    [] argv.cmd = "compare" -> <<gen_error_threshold(Arg("-err_thr"))>>
    [] argv.cmd = "compare_by_path" -> <<CheckPathValid(Arg("-result"), TRUE), CheckPathValid(Arg("-expect"), TRUE)>>
    [] OTHER -> <<>>

FirstError(checks) ==
  LET bad == {k \in DOMAIN checks : checks[k] # "ok"}
  IN  IF bad = {} THEN "ok" ELSE checks[CHOOSE k \in bad : \A j \in bad : k <= j]

Made ==
  IF argv.cmd # "compare_by_path" THEN {}
  ELSE {p \in {Arg("-result")} \cup (IF Checks[1] = "ok" THEN {Arg("-expect")} ELSE {}) : Makes(p)}

\* The names that were set are in args; a command without a subcommand
\* prints the usage.
Ends(e) == outcome' = e /\ phase' = "end" /\ UNCHANGED <<args, made>>
ParseArgs ==
  /\ phase = "argv"
  /\ IF argv.cmd \in {NONE, "mi"} THEN Ends("InvalidParam")
     ELSE IF ~Parses THEN Ends("usage")
     ELSE /\ made' = Made /\ outcome' = FirstError(Checks)
          /\ IF outcome' = "ok"
             THEN /\ args' = [err_thr |-> IF argv.cmd \in {"run", "compare"} THEN ErrThr(Arg("-err_thr")) ELSE <<>>,
                              config_file |-> argv.cmd = "run" /\ Arg("-conf") # "",
                              report_path |-> argv.cmd = "compare" /\ Arg("-i") # ""]
                  /\ phase' = CASE argv.cmd = "run" -> IF Arg("-conf") # "" THEN "ini" ELSE "atc"
                                [] argv.cmd = "compare" -> "compare"
                                [] OTHER -> "end"
             ELSE phase' = "end" /\ UNCHANGED args
  /\ UNCHANGED <<argv, ini, opts, at, environ, atc_cmd, compared>>

-----------------------------------------------------------------------------
(* AdvanceIniParser                                                        *)

Flags == {"only_gen_without_run", "only_run_without_gen", "performance_mode"}
Duplicate == \E j, k \in DOMAIN ini : j < k /\ ini[j].key = ini[k].key

\* get_advance_args_option: the reading, whose own errors are not of the type
\* that is caught, and the loop over the options.
ReadConfigFile ==
  /\ phase = "ini" /\ at = 1
  /\ \/ ini = NONE /\ outcome' = "FileNotFoundError"
     \/ ini # NONE /\ Duplicate /\ outcome' = "DuplicateOptionError"
     \/ ini = <<>> /\ outcome' = "GenAndRun"
  /\ phase' = "end"
  /\ UNCHANGED <<argv, ini, args, opts, at, made, environ, atc_cmd, compared>>

\* The options without "=" have the value NONE, which has no strip.
OptionError(o) ==
  CASE o.key \in {"atc_singleop_advance_option", "host_arch", "tool_chain"} /\ o.value = NONE -> "AttributeError"
    [] o.key = "atc_singleop_advance_option" /\ o.value \in {"long", "inject"} -> "InvalidParam"
    [] o.key = "host_arch" /\ o.value \notin {NONE, "", "x86_64", "aarch64"} -> "InvalidParam"
    [] o.key = "tool_chain" /\ o.value \notin {NONE, ""} /\ (o.value = "gcc" \/ CheckPathValid(o.value, FALSE) # "ok") -> "InvalidParam"
    [] OTHER -> "ok"

Taken(o) ==
  CASE o.key \in Flags -> o.value \in {"True", "False"}
    [] o.key = "ascend_global_log_level" -> o.value \in {"0", "1", "2", "3", "4"}
    [] o.key = "ascend_slog_print_to_stdout" -> o.value \in {"0", "1"}
    [] OTHER -> o.key \in DOMAIN AdvanceIniArgs

Applied(o) == IF Taken(o) THEN [opts EXCEPT ![o.key] = o.value] ELSE opts

InitOption ==
  /\ phase = "ini" /\ ini # NONE /\ ~Duplicate /\ at <= Len(ini)
  /\ outcome' = OptionError(ini[at])
  /\ IF outcome' = "ok"
     THEN /\ opts' = Applied(ini[at]) /\ at' = at + 1
          /\ phase' = IF at = Len(ini) THEN "atc" ELSE "ini"
     ELSE phase' = "end" /\ UNCHANGED <<opts, at>>
  /\ UNCHANGED <<argv, ini, args, made, environ, atc_cmd, compared>>

get_mode_flag ==
  CASE opts.only_gen_without_run = "True" -> "ONLY_GEN"
    [] opts.only_gen_without_run = "False" /\ opts.only_run_without_gen = "True" ->
         IF opts.performance_mode = "True" THEN "ONLY_RUN_PERFORMANCE" ELSE "ONLY_RUN"
    [] OTHER -> IF opts.performance_mode = "True" THEN "BOTH_PERFORMANCE" ELSE "BOTH"
get_performance_mode_flag == opts.performance_mode = "True"

-----------------------------------------------------------------------------
(* Where they take effect                                                  *)

\* _set_log_level_env and _get_atc_cmd: without an ini file nothing is set.
Transform ==
  /\ phase = "atc" /\ phase' = "compare"
  /\ environ' = IF args.config_file THEN <<opts.ascend_global_log_level, opts.ascend_slog_print_to_stdout>> ELSE NONE
  /\ atc_cmd' = IF args.config_file THEN opts.atc_singleop_advance_option ELSE ""
  /\ UNCHANGED <<argv, ini, args, opts, at, made, compared, outcome>>

\* _check_set_error_threshold of a case file: NONE where it has none.
CaseThresholdOk(thr) ==
  thr # NONE => thr.parse = "list" /\ Len(thr.vals) = 2 /\ check_list_float(thr.vals) = "ok"

get_err_thr(own) ==
  IF args.err_thr # <<>> THEN args.err_thr
  ELSE IF own # NONE THEN own.vals ELSE DEFAULT_ERROR_THRESHOLD

\* A case is compared; one whose threshold is not accepted was never designed.
Compare(own) ==
  /\ phase = "compare" /\ CaseThresholdOk(own)
  /\ compared' = compared \cup {[own |-> own, used |-> get_err_thr(own)]}
  /\ UNCHANGED <<argv, ini, phase, args, opts, at, made, environ, atc_cmd, outcome>>

Next == ParseArgs \/ ReadConfigFile \/ InitOption \/ Transform \/ \E own \in CaseThresholds : Compare(own)

Spec == Init /\ [][Next]_vars

-----------------------------------------------------------------------------
(* Properties                                                              *)

\* Every comparison has a pair of shares between 0 and 1, wherever it came
\* from, and the cases of one command that have no threshold of their own have
\* the same one, which is that of every case where the command line gave one.
ThresholdInForce ==
  \A c \in compared :
    /\ Len(c.used) = 2 /\ \A k \in 1 .. 2 : c.used[k].v \in 0 .. 100
    /\ \A d \in compared : c.own = NONE /\ (d.own = NONE \/ args.err_thr # <<>>) => c.used = d.used
    /\ c.own # NONE /\ args.err_thr = <<>> => c.used = c.own.vals

=============================================================================
