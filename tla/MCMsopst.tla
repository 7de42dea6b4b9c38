------------------------------ MODULE MCMsopst ------------------------------
(* An instance of Msopst: every command with each of its checks passing and    *)
(* failing, and ini files of up to three options in any order.                *)
EXTENDS Integers, Sequences, TLC
CONSTANT NONE

Float(v) == [float |-> TRUE, v |-> v]
Whole(v) == [float |-> FALSE, v |-> v]
List(vals) == [parse |-> "list", vals |-> vals]
Thresholds ==
  {List(<<>>), List(<<Float(2)>>), List(<<Float(2), Float(3)>>), List(<<Float(0), Float(100)>>), List(<<Float(2), Float(101)>>),
   List(<<Float(-1), Float(2)>>), List(<<Whole(0), Whole(1)>>),
   [parse |-> "other", vals |-> <<>>], [parse |-> "ValueError", vals |-> <<>>], [parse |-> "SyntaxError", vals |-> <<>>]}
MCCaseThresholds == {NONE, List(<<Float(4), Float(4)>>), List(<<Float(0), Float(101)>>), List(<<>>), List(<<Whole(0), Whole(1)>>)}

\* Nothing, or one of the values of an option.
May(option, values) == {<<>>} \cup {option :> v : v \in values}
Line(cmd, parts) == {[cmd |-> cmd, opts |-> o] : o \in parts}
With(A, B) == {a @@ b : a \in A, b \in B}

MCDisk == ("dir" :> "dir") @@ ("new" :> "missing") @@ ("file" :> "file") @@ ("closed" :> "no access")
            @@ ("g++" :> "file") @@ ("lost/g++" :> "missing")
Dirs == {"dir", "new", "file", "closed", ""}

MCArgvs ==
  Line(NONE, {<<>>}) \cup Line("mi", {<<>>})
    \cup Line("create", With(May("-i", {"f"}), With(May("-q", {"yes"}), May("-d", {"1"}))))
    \cup Line("run", With({"-i" :> "f"}, With(May("-soc", {"soc", "bad!", ""}), With(May("-c", {"", "case0", "long"}),
                                                With(May("-d", {"1", "x"}), May("-err_thr", Thresholds))))))
    \cup Line("run", With({("-i" :> "f") @@ ("-soc" :> "soc") @@ ("-conf" :> "msopst.ini")}, May("-err_thr", {List(<<Float(2), Float(3)>>)})))
    \cup Line("gen", With(May("-i", {"f"}), May("-c", {"", "case0", "bad!"})))
    \cup Line("gen_testcase", With(May("-i", {"f"}), May("-d", {"1", "x"})))
    \cup Line("get_shape", May("-m", {"f"}))
    \cup Line("change_shape", With(May("-m", {"f"}), May("-i", {"f"})))
    \cup Line("compare", With(May("-i", {"f"}), With(May("-err_thr", Thresholds), May("-err_report", {"true", "maybe"}))))
    \cup Line("compare_by_path", With(May("-result", Dirs), May("-expect", Dirs)))

Option(key, value) == [key |-> key, value |-> value]
Options ==
  {Option(k, v) : k \in {"only_gen_without_run", "only_run_without_gen", "performance_mode"}, v \in {"True", "maybe"}}
    \cup {Option("ascend_global_log_level", v) : v \in {"0", "5", NONE}}
    \cup {Option("ascend_slog_print_to_stdout", v) : v \in {"1", "2"}}
    \cup {Option("atc_singleop_advance_option", v) : v \in {"--debug", "inject", NONE}}
    \cup {Option("host_arch", v) : v \in {"aarch64", "arm", ""}}
    \cup {Option("tool_chain", v) : v \in {"g++", "gcc", "lost/g++"}}
    \cup {Option("other", "1")}
MCInis ==
  {NONE, <<>>} \cup {<<o>> : o \in Options} \cup {<<o, p>> : o, p \in Options}
    \cup {s \in {<<o, p, q>> : o, p, q \in {o \in Options : o.value \in {"True", "0", "1", "--debug"}}} : ~(s[1] = s[2] \/ s[2] = s[3] \/ s[1] = s[3])}
=============================================================================
