----------------------------- MODULE CaseDesign -----------------------------
(***************************************************************************)
(* CaseDesign.design (case_design.py): from the case json files to the list *)
(* of sub-cases, by SubCaseDesignCross or SubCaseDesignFuzz.  It runs once    *)
(* in a process, on one thread, and any check that fails ends it; the fuzz   *)
(* function is the user's.  The report gets one entry for each sub-case      *)
(* as it is made, and StReport takes over from there.                       *)
(***************************************************************************)
EXTENDS CaseFields, FiniteSets

CONSTANTS Inputs,          \* the lists of json files a user may pass
          CaseNameLists,   \* the values of -c: ALL, or a set of case names
          ALL,
          FuzzReturns,     \* what a call of the fuzz function may return
          MAX_FUZZ_CASE_NUM,
          Required,        \* REQUIRED_KEYS as const_manager.py declares it
          MaxAlternatives  \* bound: alternatives listed for one field

VARIABLES json_path_list,              \* the files: [valid, loads, objs]
          case_name_list,
          file, at,                    \* the file and the object it is at
          REQUIRED_KEYS,
          case_name_to_json_file_map,  \* its domain
          total_case_list, compile_flag,
          sub,                         \* the SubCaseDesign object and its locals
          pc,
          returned,                    \* history: dicts of each call for this object
          refused                      \* history: objects refused for missing keys

given_to == <<json_path_list, case_name_list>>
progress == <<file, at>>
shared == <<REQUIRED_KEYS, case_name_to_json_file_map, compile_flag, refused>>
vars == <<json_path_list, case_name_list, file, at, REQUIRED_KEYS,
          case_name_to_json_file_map, total_case_list, compile_flag, sub, pc,
          returned, refused>>

NoSub == [multi |-> FALSE, inputs |-> <<>>, outputs |-> <<>>, attr |-> ABSENT,
          count |-> 0, index |-> 0, case_idx |-> 1, loops |-> 0, dicts |-> <<>>]

Init ==
  /\ json_path_list \in Inputs /\ case_name_list \in CaseNameLists
  /\ file = 1 /\ at = 0
  /\ REQUIRED_KEYS = Required /\ case_name_to_json_file_map = {}
  /\ total_case_list = <<>> /\ compile_flag = FALSE
  /\ sub = NoSub /\ pc = "check" /\ returned = <<>> /\ refused = {}

obj == json_path_list[file].objs[at]
Goto(l) == pc' = l
Raise == Goto("raised")

-----------------------------------------------------------------------------
CheckArgumentValid ==
  /\ pc = "check"
  /\ IF \A i \in 1..Len(json_path_list) : json_path_list[i].valid THEN Goto("load") ELSE Raise
  /\ UNCHANGED <<given_to, progress, shared, total_case_list, sub, returned>>

\* generate_cases: the next file.
LoadJsonFile ==
  /\ pc = "load" /\ file <= Len(json_path_list)
  /\ IF json_path_list[file].loads THEN Goto("next") ELSE Raise
  /\ UNCHANGED <<given_to, progress, shared, total_case_list, sub, returned>>

NextObject ==
  /\ pc = "next"
  /\ IF at < Len(json_path_list[file].objs)
     THEN at' = at + 1 /\ Goto("object") /\ UNCHANGED file
     ELSE at' = 0 /\ file' = file + 1 /\ Goto("load")
  /\ sub' = NoSub /\ returned' = <<>>
  /\ UNCHANGED <<given_to, shared, total_case_list>>

\* design: at least one case.
Finish ==
  /\ pc = "load" /\ file > Len(json_path_list)
  /\ IF total_case_list = <<>> THEN Raise ELSE Goto("done")
  /\ UNCHANGED <<given_to, progress, shared, total_case_list, sub, returned>>

CompileFlag ==
  /\ pc = "object" /\ obj.compile_flag
  /\ compile_flag' = TRUE /\ Goto("next")
  /\ UNCHANGED <<given_to, progress, REQUIRED_KEYS, case_name_to_json_file_map, refused,
                 total_case_list, sub, returned>>

\* required_key_list is the list of ConstManager itself.
RequiredWith(ms) == IF ms THEN Append(REQUIRED_KEYS, "st_mode") ELSE REQUIRED_KEYS

HasKeys(o, keys) == ToSet(keys) \subseteq o.keys
Selected(o) == case_name_list # ALL => o.case_name \in case_name_list
ParserOf(o) == IF o.fuzz_impl \in {ABSENT, NONE} THEN "cross" ELSE "fuzz"

\* check_required_key_valid, also of a case that is not selected; then
\* _get_total_case up to the choice of the parser.
StartCase ==
  /\ pc = "object" /\ ~obj.compile_flag
  /\ REQUIRED_KEYS' = RequiredWith(obj.ms)
  /\ refused' = IF HasKeys(obj, REQUIRED_KEYS') THEN refused ELSE refused \cup {<<file, at>>}
  /\ \/ /\ ~HasKeys(obj, REQUIRED_KEYS') \/ obj.case_name = INVALID
        /\ Raise /\ UNCHANGED case_name_to_json_file_map
     \/ /\ HasKeys(obj, REQUIRED_KEYS') /\ obj.case_name # INVALID
        /\ \/ ~Selected(obj) /\ Goto("next") /\ UNCHANGED case_name_to_json_file_map
           \/ /\ Selected(obj) /\ obj.case_name \in case_name_to_json_file_map
              /\ Raise /\ UNCHANGED case_name_to_json_file_map
           \/ /\ Selected(obj) /\ obj.case_name \notin case_name_to_json_file_map
              /\ case_name_to_json_file_map' = case_name_to_json_file_map \cup {obj.case_name}
              /\ Goto(ParserOf(obj))
  /\ UNCHANGED <<given_to, progress, compile_flag, total_case_list, sub, returned>>

-----------------------------------------------------------------------------
(* Of both kinds of sub-case                                               *)

check_expect_output_param(o) == o.expect # INVALID
check_set_error_threshold(o) == o.error_threshold # INVALID

\* Without a file and a function the case has neither them nor the threshold.
parse_expect_output_param(o) ==
  IF IsList(o.expect)
  THEN [expect |-> Head(o.expect), error_threshold |-> o.error_threshold]
  ELSE [expect |-> NONE, error_threshold |-> NONE]

Suffix(outs, ms) ==
  IF ms THEN <<outs[1].type>> ELSE <<outs[1].format, outs[1].type>>

add_case_to_total_case(prefix, ins, outs, attr, dict) ==
  total_case_list' = Append(total_case_list,
    [case_name |-> [prefix |-> prefix, idx |-> sub.case_idx, suffix |-> Suffix(outs, obj.ms)],
     ms |-> obj.ms, input_desc |-> ins, output_desc |-> outs, attr |-> attr, src |-> <<file, at>>,
     dicts |-> dict, expected |-> parse_expect_output_param(obj)])

-----------------------------------------------------------------------------
(* SubCaseDesignCross.subcase_generate                                     *)

MakeList(descs, input) == [i \in 1..Len(descs) |-> make_desc(descs[i], input, obj.ms)]

DescListsValid(o) ==
  /\ o.ms => o.inputs # <<>>
  /\ o.outputs # <<>>
  /\ \A i \in 1..Len(o.inputs) : make_desc_valid(o.inputs[i], TRUE, o.ms)
  /\ \A i \in 1..Len(o.outputs) : make_desc_valid(o.outputs[i], FALSE, o.ms)

\* _check_value_number_valid(_ms): as many formats, types and shapes in each.
check_value_number_valid(ins, outs) ==
  ins = <<>> \/
  \A k \in {"format", "type", "shape"} \cap DOMAIN ins[1] :
    \A i \in 1..Len(ins \o outs) : Len((ins \o outs)[i][k]) = Len(ins[1][k])

SameLength(lists) == \A i \in 1..Len(lists) : Len(lists[i]) = Len(lists[1])

get_count_valid(ins, outs) == SameLength(IF Len(ins) > 1 THEN ins ELSE outs)
get_count_Last(ins, outs) == IF Len(ins) > 1 THEN Len(ins[1]) - 1 ELSE Len(outs[1]) - 1
get_count(ins, outs) == IF Len(ins) > 1 THEN Len(ins[1]) ELSE Len(outs[1])

SeveralAlternatives(one) == \E k \in DOMAIN one : Len(one[k]) > 1

\* subcase_generate as far as the lists of each tensor.
Cross ==
  /\ pc = "cross"
  /\ IF DescListsValid(obj) /\ check_attr_valid(obj.attr)
     THEN LET ins == MakeList(obj.inputs, TRUE)
              outs == MakeList(obj.outputs, FALSE)
          IN  /\ sub' = [sub EXCEPT
                   !.multi = \E i \in 1..Len(ins \o outs) : SeveralAlternatives((ins \o outs)[i]),
                   !.inputs = ins, !.outputs = outs, !.attr = obj.attr]
              /\ Goto("tensors")
     ELSE Raise /\ UNCHANGED sub
  /\ UNCHANGED <<given_to, progress, shared, total_case_list, returned>>

CrossAll(lists, input) == [i \in 1..Len(lists) |-> cross_tensor(lists[i], input, obj.ms)]

\* The rest of it: the combinations of each tensor, and how many cases.
CrossTensor ==
  /\ pc = "tensors"
  /\ LET in_cases == CrossAll(sub.inputs, TRUE)
         out_cases == CrossAll(sub.outputs, FALSE)
     IN IF /\ check_value_number_valid(sub.inputs, sub.outputs)
           /\ \A i \in 1..Len(sub.inputs) : cross_tensor_valid(sub.inputs[i])
           /\ \A i \in 1..Len(sub.outputs) : cross_tensor_valid(sub.outputs[i])
           /\ get_count_valid(in_cases, out_cases)
           /\ check_expect_output_param(obj) /\ check_set_error_threshold(obj)
        THEN /\ sub' = [sub EXCEPT !.inputs = in_cases, !.outputs = out_cases,
                                   !.count = get_count(in_cases, out_cases)]
             /\ Goto("cases")
        ELSE Raise /\ UNCHANGED sub
  /\ UNCHANGED <<given_to, progress, shared, total_case_list, returned>>

CrossPrefix ==
  obj.case_name \o (CASE sub.multi /\ obj.ms -> <<"sub">>
                      [] sub.multi /\ ~obj.ms -> <<"sub", "case">>
                      [] OTHER -> <<"case">>)

append_input_desc_to_case(i) == [x \in 1..Len(sub.inputs) |-> sub.inputs[x][i]]

\* Past the cases of the outputs: modulo the number of outputs.
OutputIndex(index) ==
  IF index >= Len(sub.outputs[1]) THEN index % Len(sub.outputs) ELSE index

NextIdx == sub.case_idx + 1

\* _get_sub_test_cases, one case.  An index past the end of a list is an
\* IndexError; the name of an output is stored at the case's own index.
SubCase ==
  /\ pc = "cases" /\ sub.index < sub.count
  /\ LET i == sub.index + 1
         o == OutputIndex(sub.index) + 1
         Named(d) == given(d.name)
     IN IF \/ \E x \in ToSet(sub.inputs) : i > Len(x)
           \/ \E x \in 1..Len(sub.outputs) :
                o > Len(sub.outputs[x]) \/ (Named(obj.outputs[x]) /\ i > Len(sub.outputs[x]))
        THEN Goto("crashed") /\ UNCHANGED <<total_case_list, sub>>
        ELSE /\ add_case_to_total_case(CrossPrefix,
                  append_input_desc_to_case(i),
                  [x \in 1..Len(sub.outputs) |-> sub.outputs[x][o]], sub.attr, {})
             /\ sub' = [sub EXCEPT !.index = i, !.case_idx = NextIdx]
             /\ UNCHANGED pc
  /\ UNCHANGED <<given_to, progress, shared, returned>>

CrossEnds ==
  /\ pc = "cases" /\ sub.index = sub.count
  /\ Goto("next")
  /\ UNCHANGED <<given_to, progress, shared, total_case_list, sub, returned>>

-----------------------------------------------------------------------------
(* SubCaseDesignFuzz.subcase_generate                                      *)

check_fuzz_valid(o) == o.fuzz_impl # INVALID
check_fuzz_case_num_valid(o) == o.fuzz_case_num \in 1..MAX_FUZZ_CASE_NUM

Fuzz ==
  /\ pc = "fuzz"
  /\ IF /\ check_fuzz_valid(obj) /\ check_fuzz_case_num_valid(obj)
        /\ check_expect_output_param(obj) /\ check_set_error_threshold(obj)
     THEN Goto("loop") /\ sub' = [sub EXCEPT !.loops = obj.fuzz_case_num,
                                             !.inputs = obj.inputs, !.outputs = obj.outputs,
                                             !.attr = obj.attr]
     ELSE Raise /\ UNCHANGED sub
  /\ UNCHANGED <<given_to, progress, shared, total_case_list, returned>>

OriJson_Kept == [inputs |-> sub.inputs, outputs |-> sub.outputs, attr |-> sub.attr]
\* ori_json, a copy of the case as it is in the file.
OriJson == [inputs |-> obj.inputs, outputs |-> obj.outputs, attr |-> obj.attr]

\* One iteration of the loop: a copy of the case and a call of the function.
FuzzCall ==
  /\ pc = "loop" /\ sub.loops > 0
  /\ \/ /\ Raise /\ UNCHANGED <<sub, returned>>
     \/ \E dicts \in FuzzReturns :
          /\ sub' = [sub EXCEPT !.loops = @ - 1, !.dicts = dicts, !.inputs = OriJson.inputs,
                                !.outputs = OriJson.outputs, !.attr = OriJson.attr]
          /\ returned' = Append(returned, dicts)
          /\ Goto("dicts")
  /\ UNCHANGED <<given_to, progress, shared, total_case_list>>

FuzzedAttr(attr, dict) ==
  IF attr \in {ABSENT, INVALID} THEN attr
  ELSE [i \in 1..Len(attr) |->
          IF attr[i].value # FUZZ THEN attr[i] ELSE [attr[i] EXCEPT !.value = FuzzValue(dict, "attr")]]

\* The next dict.  What it replaces stays replaced for those that follow.
FuzzCase ==
  /\ pc = "dicts" /\ sub.dicts # <<>>
  /\ LET dict == Head(sub.dicts)
         ins == [i \in 1..Len(sub.inputs) |-> fuzzed(sub.inputs[i], dict, TRUE, obj.ms)]
         outs == [i \in 1..Len(sub.outputs) |-> fuzzed(sub.outputs[i], dict, FALSE, obj.ms)]
         attr == FuzzedAttr(sub.attr, dict)
     IN IF /\ obj.ms => sub.inputs # <<>>
           /\ sub.outputs # <<>>
           /\ \A i \in 1..Len(ins) : make_desc_fuzz_valid(sub.inputs[i], dict, TRUE, obj.ms)
           /\ \A i \in 1..Len(outs) : make_desc_fuzz_valid(sub.outputs[i], dict, FALSE, obj.ms)
           /\ check_attr_valid(attr)
        THEN /\ add_case_to_total_case(obj.case_name \o <<"fuzz", "case">>,
                  [i \in 1..Len(ins) |-> make_desc_fuzz(ins[i], TRUE, obj.ms)],
                  [i \in 1..Len(outs) |-> make_desc_fuzz(outs[i], FALSE, obj.ms)],
                  attr, ToSet(Last(returned)))
             /\ sub' = [sub EXCEPT !.dicts = Tail(@), !.inputs = ins, !.outputs = outs,
                                   !.attr = attr, !.case_idx = NextIdx]
             /\ UNCHANGED pc
        ELSE Raise /\ UNCHANGED <<total_case_list, sub>>
  /\ UNCHANGED <<given_to, progress, shared, returned>>

DictsEnd ==
  /\ pc = "dicts" /\ sub.dicts = <<>>
  /\ Goto("loop")
  /\ UNCHANGED <<given_to, progress, shared, total_case_list, sub, returned>>

FuzzEnds ==
  /\ pc = "loop" /\ sub.loops = 0
  /\ Goto("next")
  /\ UNCHANGED <<given_to, progress, shared, total_case_list, sub, returned>>

-----------------------------------------------------------------------------
Next ==
  \/ CheckArgumentValid \/ LoadJsonFile \/ NextObject \/ Finish
  \/ CompileFlag \/ StartCase
  \/ Cross \/ CrossTensor \/ SubCase \/ CrossEnds
  \/ Fuzz \/ FuzzCall \/ FuzzCase \/ DictsEnd \/ FuzzEnds

Spec == Init /\ [][Next]_vars
-----------------------------------------------------------------------------
(* Properties                                                              *)

ObjOf(c) == json_path_list[c.src[1]].objs[c.src[2]]
CasesOf(f, a) == {c \in ToSet(total_case_list) : c.src = <<f, a>>}

OneDistribution(o) ==
  \A d \in ToSet(o.inputs) :
    Len(get_data_distribute_list(d)) = 1 /\ Len(get_value_range_list(d)) = 1

\* r is the tensor that lists pos[k]-th of each field k of d.
TakenAt(r, d, pos) ==
  \A k \in {"format", "shape", "type"} \cap DOMAIN r :
    LET l == IF k = "shape" THEN list_list(d[k]) ELSE d[k]
    IN  pos[k] \in 1..Len(l) /\ r[k] = l[pos[k]]

Optional(r) == r.type = UNDEFINED

\* In a sub-case that is a combination, every input and every output takes
\* the same position of the lists of formats, shapes and types of its own
\* description: what const_manager.py calls the orthogonal combination
\* pairs the tensors of a case as the json file pairs them, although
\* inputs and outputs are multiplied out separately (_cross_tensor,
\* _get_sub_test_cases).  Only for inputs with one distribution and range,
\* and of a case that has inputs: without any, _check_value_number_valid
\* accepts outputs whose lists differ in length.
Paired ==
  \A c \in ToSet(total_case_list) :
    LET o == ObjOf(c) IN
    ParserOf(o) = "cross" /\ o.inputs # <<>> /\ OneDistribution(o) =>
      \E pos \in [{"format", "shape", "type"} -> 1..MaxAlternatives] :
        /\ \A i \in 1..Len(o.inputs) :
             Optional(c.input_desc[i]) \/ TakenAt(c.input_desc[i], o.inputs[i], pos)
        /\ \A i \in 1..Len(o.outputs) :
             Optional(c.output_desc[i]) \/ TakenAt(c.output_desc[i], o.outputs[i], pos)

\* Once a case with "fuzz_impl" absent is designed, every combination of
\* the formats, shapes and types of each of its outputs is in a sub-case,
\* whatever the number of inputs that decides how many there are
\* (_get_count, _get_sub_test_cases).
EveryCombination ==
  pc = "next" /\ sub.count > 0 =>
    \A i \in 1..Len(obj.outputs) : \A r \in ToSet(sub.outputs[i]) :
      \E c \in CasesOf(file, at) : c.output_desc[i] = r

TakesFrom(r, d, dict) ==
  \A k \in {"format", "shape", "type"} \cap DOMAIN r :
    d[k] = FUZZ => r[k] = Head(list_list(FuzzValue(dict, k)))

\* What a sub-case has in place of "fuzz" is one dict that the call made for
\* it returned: the copy of the case is taken anew for each call, since
\* the replacement writes into it (subcase_generate, _replace_fuzz_param).
FuzzOwnCall ==
  \A c \in ToSet(total_case_list) :
    LET o == ObjOf(c) IN
    ParserOf(o) = "fuzz" =>
      \E dict \in c.dicts :
        /\ \A i \in 1..Len(o.inputs) : TakesFrom(c.input_desc[i], o.inputs[i], dict)
        /\ \A i \in 1..Len(o.outputs) : TakesFrom(c.output_desc[i], o.outputs[i], dict)

\* REQUIRED_KEYS of const_manager.py names the keys a case must have: one
\* that has them all is not refused for a missing key
\* (check_required_key_valid).
OnlyRequiredKeys ==
  \A r \in refused : LET o == json_path_list[r[1]].objs[r[2]] IN
    ~HasKeys(o, Required) \/ (o.ms /\ "st_mode" \notin o.keys)

=============================================================================
