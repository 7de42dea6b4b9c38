----------------------------- MODULE CaseFields -----------------------------
(***************************************************************************)
(* The fields of a test case in a case json file: what SubCaseDesign checks *)
(* of them, the combinations SubCaseDesignCross makes of them, and what      *)
(* SubCaseDesignFuzz puts in place of "fuzz".                                *)
(*                                                                         *)
(* The value of a field is ABSENT (no such key), NONE (null), FUZZ (the      *)
(* string "fuzz"), INVALID (of a type the check refuses) or the sequence of  *)
(* the alternatives it lists, of which one outside the supported ones, or    *)
(* malformed, is BAD.  A single string or shape is a list of one.  Every     *)
(* check that fails raises the same OpTestGenException, which nothing in     *)
(* between catches: the checks of one handler are one predicate.             *)
(***************************************************************************)
EXTENDS Integers, Sequences, SequencesExt

CONSTANTS ABSENT, NONE, FUZZ, INVALID, BAD,
          SCALAR,                  \* the shape []
          DynamicOne, DynamicTwo,  \* the shapes with a -1, and with a -2
          UNIFORM, RANGE,          \* the default data_distribute, value_range
          UNDEFINED, RESERVED      \* formats and types of an optional tensor

given(f) == f \notin {ABSENT, NONE}
IsList(f) == f \notin {ABSENT, NONE, FUZZ, INVALID}
Good(f) == BAD \notin ToSet(f)

-----------------------------------------------------------------------------
(* Checks of one field                                                     *)

check_list_str_valid(f) == IsList(f) /\ f # <<>> /\ Good(f)

check_list_list_valid(f) == IsList(f)

\* [] is one shape without dimensions.
list_list(f) == IF f = <<>> THEN <<SCALAR>> ELSE f

check_shape_valid(f) == check_list_list_valid(f) /\ Good(f)

check_range_value_valid(f) == check_list_list_valid(f) /\ Good(f)

Dynamic == DynamicOne \cup DynamicTwo
check_not_dynamic_shape(f) == \E s \in ToSet(f) : s \in Dynamic

\* Fields that are read only if there is no value.
Reads(d, k) == d[k] # ABSENT /\ d.value = ABSENT

get_data_distribute_list(d) ==
  IF Reads(d, "data_distribute") THEN d.data_distribute ELSE <<UNIFORM>>

get_value_range_list(d) ==
  IF Reads(d, "value_range") THEN list_list(d.value_range) ELSE <<RANGE>>

check_ori_format_list_str_valid(f) ==
  CASE IsList(f) -> f
    [] f = FUZZ -> <<FUZZ>>
    [] OTHER -> <<>>

\* ori_format and ori_shape go together and pair with format and shape.
get_ori_filed_data_valid(d) ==
  /\ given(d.ori_format) =>
       Len(check_ori_format_list_str_valid(d.ori_format)) = Len(d.format)
  /\ given(d.ori_shape) =>
       check_list_list_valid(d.ori_shape) /\ Len(list_list(d.ori_shape)) = Len(list_list(d.shape))
  /\ given(d.ori_format) <=> given(d.ori_shape)

UsesTypical(d) == given(d.typical_shape) /\ check_not_dynamic_shape(d.shape)
HasRange(d) == given(d.shape_range) /\ d.shape_range # <<>>

get_dynamic_shape_info_valid(d) ==
  UsesTypical(d) =>
    /\ check_shape_valid(d.typical_shape)
    /\ HasRange(d) => check_range_value_valid(d.shape_range)

check_is_const(f) == f \in {ABSENT, NONE} \/ f \in {<<TRUE>>, <<FALSE>>}

-----------------------------------------------------------------------------
(* Attributes                                                              *)

\* Python: a bool is an int.
fits(fe_type, v) ==
  CASE fe_type = "int" -> v.kind \in {"int", "bool"}
    [] fe_type = "bool" -> v.kind = "bool"
    [] fe_type = "string" -> v.kind = "str"
    [] fe_type = "float" -> v.kind = "float"
    [] fe_type = "data_type" -> v.kind = "str" /\ v.items = <<>>
    [] fe_type = "list_int" ->
         v.kind = "list" /\ v.items # <<>> /\ \A i \in 1..Len(v.items) : v.items[i].kind \in {"int", "bool"}
    [] OTHER -> v.kind \in {"int", "bool"}

ListOf == [list_int |-> "int", list_bool |-> "bool", list_string |-> "string", list_float |-> "float",
           list_data_type |-> "data_type", list_list_int |-> "list_int"]

check_attr_value_valid(a) ==
  IF a.type \in DOMAIN ListOf
  THEN a.value.kind = "list" /\ \A i \in 1..Len(a.value.items) : fits(ListOf[a.type], a.value.items[i])
  ELSE fits(a.type, a.value)

AttrTypes == DOMAIN ListOf \cup {"int", "bool", "string", "float", "data_type"}

\* The attributes of a case: distinct non-empty names, a type of the list.
check_attr_valid(attr) ==
  \/ attr = ABSENT
  \/ /\ attr # INVALID
     /\ \A i, j \in 1..Len(attr) : attr[i].name = attr[j].name => i = j
     /\ \A i \in 1..Len(attr) :
          /\ attr[i].name \notin {ABSENT, INVALID}
          /\ attr[i].type \in AttrTypes
          /\ \/ attr[i].value = FUZZ /\ attr[i].type = "string"
             \/ attr[i].value \notin {FUZZ, NONE} /\ check_attr_value_valid(attr[i])

-----------------------------------------------------------------------------
(* SubCaseDesignCross: the lists of one tensor, then their product.         *)

\* The list of alternatives of key k.
Alternatives(d, k) ==
  CASE k \in {"shape", "ori_shape", "typical_shape"} -> list_list(d[k])
    [] k = "data_distribute" -> get_data_distribute_list(d)
    [] k = "value_range" -> get_value_range_list(d)
    [] k = "ori_format" -> check_ori_format_list_str_valid(d[k])
    [] k \in {"value", "shape_range"} -> <<d[k]>>
    [] OTHER -> d[k]

BasicKeys(input, ms) ==
  {"type", "shape"}
  \cup (IF ms THEN {} ELSE {"format"})
  \cup (IF input THEN {"data_distribute", "value_range"} ELSE {})

\* _make_input_desc_list, _make_output_desc_list and their _ms forms.
one_desc(d, input, ms) ==
  [k \in BasicKeys(input, ms)
         \cup (IF ms \/ ~given(d.ori_format) THEN {} ELSE {"ori_format", "ori_shape"})
         \cup (IF ms \/ ~UsesTypical(d) THEN {}
               ELSE {"typical_shape"} \cup (IF HasRange(d) THEN {"shape_range"} ELSE {}))
     |-> Alternatives(d, k)]

ValueKeys(d) == {k \in {"value", "is_const"} : given(d[k])}

deal_with_value(d, one) ==
  [k \in DOMAIN one \cup ValueKeys(d) |-> Alternatives(d, k)]

\* With a value, every other field has one alternative.
check_value_valid(d, one) ==
  given(d.value) => IsList(d.value) /\ \A k \in DOMAIN one : Len(one[k]) <= 1

make_desc_valid(d, input, ms) ==
  /\ ms \/ check_list_str_valid(d.format)
  /\ check_list_str_valid(d.type)
  /\ check_shape_valid(d.shape)
  /\ ms \/ get_ori_filed_data_valid(d)
  /\ ms \/ get_dynamic_shape_info_valid(d)
  /\ input =>
       /\ Reads(d, "data_distribute") => check_list_str_valid(d.data_distribute)
       /\ Reads(d, "value_range") => check_range_value_valid(d.value_range)
       /\ check_value_valid(d, one_desc(d, input, ms))
       /\ check_is_const(d.is_const)

make_desc(d, input, ms) ==
  IF input THEN deal_with_value(d, one_desc(d, input, ms)) ELSE one_desc(d, input, ms)

CrossList_TypeFirst(input, ms) ==
  (IF ms \/ input THEN <<"type", "shape">> ELSE <<"shape", "type">>)
  \o (IF ms THEN <<>> ELSE <<"format">>)
  \o (IF input THEN <<"data_distribute", "value_range">> ELSE <<>>)
\* The keys to combine; the last varies fastest.
CrossList(input, ms) ==
  (IF ms THEN <<"type", "shape">> ELSE <<"format", "shape", "type">>)
  \o (IF input THEN <<"data_distribute", "value_range">> ELSE <<>>)

add_new_key_to_cross_list(one, keys) ==
  LET IfHas(k) == IF k \in DOMAIN one THEN <<k>> ELSE <<>>
  IN  keys \o IfHas("shape_range") \o IfHas("value") \o IfHas("is_const")

\* How many combinations the lists after the k-th have.
after(lens) ==
  LET count[k \in 1..Len(lens)] == IF k = Len(lens) THEN 1 ELSE lens[k + 1] * count[k + 1]
  IN  count

\* itertools.product, of the positions in each list.
product(lens) ==
  [c \in 1 .. lens[1] * after(lens)[1] |->
     [k \in 1..Len(lens) |-> (((c - 1) \div after(lens)[k]) % lens[k]) + 1]]

check_cur_params_undefined(r) ==
  IF \/ "format" \in DOMAIN r /\ r.format \in {UNDEFINED, RESERVED}
     \/ r.type = UNDEFINED
  THEN [k \in DOMAIN r \cup {"format"} |-> IF k \in {"type", "format"} THEN UNDEFINED ELSE r[k]]
  ELSE r

set_typical_shape_in_cur_params(r, one) ==
  IF r.shape \notin Dynamic THEN r
  ELSE [k \in (DOMAIN r \cup {"typical_shape"}) \ (IF r.shape \in DynamicTwo THEN {"shape_range"} ELSE {}) |->
          IF k = "typical_shape" THEN Head(one.typical_shape) ELSE r[k]]

cross_tensor_valid(one) ==
  (\E s \in ToSet(one.shape) : s \in Dynamic) => "typical_shape" \in DOMAIN one

\* The key at whose position k is taken: ori_format is zipped with format,
\* and ori_shape with shape.
combine_ori_field_to_cross(k) ==
  CASE k = "ori_format" -> "format" [] k = "ori_shape" -> "shape" [] OTHER -> k

\* The cases of one tensor.
cross_tensor(one, input, ms) ==
  LET keys == add_new_key_to_cross_list(one, CrossList(input, ms))
      combos == product([i \in 1..Len(keys) |-> Len(one[keys[i]])])
      Params(combo) ==
        [k \in ToSet(keys) \cup ({"ori_format", "ori_shape"} \cap DOMAIN one) |->
           one[k][combo[CHOOSE i \in 1..Len(keys) : keys[i] = combine_ori_field_to_cross(k)]]]
  IN [c \in 1..Len(combos) |->
        set_typical_shape_in_cur_params(check_cur_params_undefined(Params(combos[c])), one)]

-----------------------------------------------------------------------------
(* SubCaseDesignFuzz: one value for each key, from the case or the fuzz     *)
(* function's dict [names, values]: the tensors it knows, and the value of   *)
(* each key.                                                                *)

FuzzKeys(d, input, ms) ==
  {"type", "shape"}
  \cup (IF ms THEN {} ELSE {"format", "ori_format", "ori_shape"})
  \cup (IF input THEN {"value"} ELSE {})
  \cup {k \in {"data_distribute", "value_range"} : input /\ Reads(d, k)}

FuzzValue(dict, k) == IF k \in DOMAIN dict.values THEN dict.values[k] ELSE NONE

replace_fuzz_param_valid(d, dict, keys) ==
  (\E k \in keys : d[k] = FUZZ) => d.name # ABSENT /\ d.name \in dict.names

\* Replaced where it stands, in the copy of the case.
replace_fuzz_param(d, dict, keys) ==
  [k \in DOMAIN d |-> IF k \in keys /\ d[k] = FUZZ THEN FuzzValue(dict, k) ELSE d[k]]

check_fuzz_value_valid(f) == IsList(f) /\ Len(f) = 1 /\ Good(f)
check_fuzz_shape_valid(f) == IsList(f) /\ Len(f) <= 1 /\ Good(f)

TypicalKeys(d, ms) ==
  IF ~ms /\ IsList(d.shape) /\ UsesTypical(d) THEN {"typical_shape", "shape_range"} ELSE {}

\* Both rounds of replacement, of which the second looks at the new shape.
fuzzed(d, dict, input, ms) ==
  LET e == replace_fuzz_param(d, dict, FuzzKeys(d, input, ms))
  IN  replace_fuzz_param(e, dict, TypicalKeys(e, ms))

make_desc_fuzz_valid(d, dict, input, ms) ==
  LET e == fuzzed(d, dict, input, ms) IN
  /\ replace_fuzz_param_valid(d, dict, FuzzKeys(d, input, ms))
  /\ check_fuzz_value_valid(e.type) /\ check_fuzz_shape_valid(e.shape)
  /\ input => /\ Reads(d, "data_distribute") => check_fuzz_value_valid(e.data_distribute)
              /\ Reads(d, "value_range") => check_fuzz_value_valid(e.value_range)
              /\ given(e.value) => IsList(e.value)
              /\ check_is_const(e.is_const)
  /\ ~ms => /\ check_fuzz_value_valid(e.format)
            /\ IsList(e.ori_format) => Len(e.ori_format) = 1
            /\ given(e.ori_shape) => check_fuzz_shape_valid(e.ori_shape)
            /\ TypicalKeys(e, ms) # {} =>
                 /\ replace_fuzz_param_valid(d, dict, TypicalKeys(e, ms))
                 /\ check_fuzz_shape_valid(e.typical_shape)
                 /\ check_range_value_valid(e.shape_range)

\* The description of e, a tensor in which nothing is left to replace.
make_desc_fuzz(e, input, ms) ==
  [k \in BasicKeys(input, ms)
         \cup (IF input THEN ValueKeys(e) ELSE {})
         \cup (IF ms \/ ~IsList(e.ori_format) \/ e.ori_shape \in {ABSENT, NONE, <<>>} THEN {}
               ELSE {"ori_format", "ori_shape"})
         \cup TypicalKeys(e, ms)
     |-> Head(Alternatives(e, k))]
=============================================================================
