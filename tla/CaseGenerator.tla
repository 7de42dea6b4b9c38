--------------------------- MODULE CaseGenerator ---------------------------
(***************************************************************************)
(* CaseGenerator.generate (case_generator.py): a case json file from the    *)
(* description of an operator, an .ini or a MindSpore .py file, from the      *)
(* op_proto header of an AI CPU operator, and from the layers of a model.     *)
(*                                                                         *)
(* A comma-separated value is the sequence of its tokens, the empty string   *)
(* EMPTY.  Where the code takes list(set(...)) the order of the result is     *)
(* that of a hash: such a list is [of, number], its values and how many.      *)
(* The readers of model files are external: a sequence of layers, or FAILS.   *)
(***************************************************************************)
EXTENDS Integers, Sequences, SequencesExt, FiniteSets

CONSTANTS Sources,       \* what the user may pass
          ABSENT, NONE, EMPTY, UNDEFINED, FAILS, BAD,
          AttrTypes,     \* the keys of ATTR_TYPE_MAP
          ListTypes,     \* those that start with "list"
          IrTypes        \* the keys of aicpu_ir2ini_type_map

VARIABLES src,           \* the arguments and the files behind them
          at,            \* the line of the file, or the layer, it is at
          tbe_ops_info,  \* the names of the operators met
          op_type,
          op_info,       \* in order: [key, info]
          base_case, base_case_list,
          pc

vars == <<src, at, tbe_ops_info, op_type, op_info, base_case, base_case_list, pc>>

Init ==
  /\ src \in Sources /\ at = 1
  /\ tbe_ops_info = {} /\ op_type = NONE /\ op_info = <<>>
  /\ base_case = NONE /\ base_case_list = <<>>
  /\ pc = "check"

Goto(l) == pc' = l
Raise == Goto("raised")

Keys(oi) == {oi[i].key : i \in 1..Len(oi)}
EntryAt(oi, key) == CHOOSE i \in 1..Len(oi) : oi[i].key = key
Get(info, k) == IF k \in DOMAIN info THEN info[k] ELSE ABSENT

\* op_info[key].update(info), of a new entry if there is none.
Put(oi, key, info) ==
  IF key \in Keys(oi) THEN [oi EXCEPT ![EntryAt(oi, key)].info = info @@ @]
  ELSE Append(oi, [key |-> key, info |-> info])

IsAicpuOp == \E i \in 1..Len(op_info) : op_info[i].key[1] = "opInfo" /\ Get(op_info[i].info, "kernelSo") # ABSENT

\* An unsupported value is only warned of.
check_op_info_list_valid(list) == list # <<>> /\ EMPTY \notin ToSet(list)

-----------------------------------------------------------------------------
(* The .ini file and the .py file                                          *)

CheckArgumentValid ==
  /\ pc = "check"
  /\ IF src.paths_valid /\ src.kind \in {"ini", "py"} THEN Goto(src.kind) ELSE Raise
  /\ UNCHANGED <<src, at, tbe_ops_info, op_type, op_info, base_case, base_case_list>>

\* A section starts without entries, those of an earlier one are gone.
SectionInfo == <<>>

line == src.lines[at]

IniLine ==
  /\ pc = "ini" /\ at <= Len(src.lines)
  /\ at' = at + 1
  /\ \/ line.kind = "blank" /\ UNCHANGED <<pc, tbe_ops_info, op_type, op_info>>
     \/ /\ line.kind = "op"       \* _get_tbe_ops_info: [Add]
        /\ op_type' = line.name /\ tbe_ops_info' = tbe_ops_info \cup {line.name}
        /\ op_info' = SectionInfo
        /\ UNCHANGED pc
     \/ /\ line.kind = "info"     \* _get_op_info: input0.name=x
        /\ op_info' = Put(op_info, line.key, [k \in {line.attr} |-> line.value])
        /\ UNCHANGED <<pc, tbe_ops_info, op_type>>
     \/ line.kind = "bad" /\ Raise /\ UNCHANGED <<tbe_ops_info, op_type, op_info>>
  /\ UNCHANGED <<src, base_case, base_case_list>>

IniEnds ==
  /\ pc = "ini" /\ at > Len(src.lines)
  /\ IF Cardinality(tbe_ops_info) # 1 THEN Raise
     ELSE Goto(IF IsAicpuOp THEN "aicpu" ELSE "op_info")
  /\ UNCHANGED <<src, at, tbe_ops_info, op_type, op_info, base_case, base_case_list>>

\* _get_basic_op_info_mindspore: one count for inputs and outputs.
MsEntries(ms) ==
  LET both == ms.inputs \o ms.outputs
  IN  [i \in 1..Len(both) |->
         [key |-> <<IF i <= Len(ms.inputs) THEN "input" ELSE "output", i - 1>>,
          info |-> [name |-> both[i].name, paramType |-> both[i].param_type, dtype |-> ms.dtypes[i]]]]
      \o [i \in 1..Len(ms.attr) |-> [key |-> <<"attr", ms.attr[i].name>>, info |-> ms.attr[i].info]]

\* A null name or type of an operand.
MsNull(ms) ==
  \E i \in 1..Len(ms.inputs \o ms.outputs) :
    (ms.inputs \o ms.outputs)[i].name = ABSENT \/ (i <= Len(ms.dtypes) /\ ms.dtypes[i] = ABSENT)

ParsePy ==
  /\ pc = "py"
  /\ IF ~src.ms.imports \/ MsNull(src.ms) THEN Raise /\ UNCHANGED <<op_type, op_info>>
     ELSE IF Len(src.ms.inputs \o src.ms.outputs) > Len(src.ms.dtypes)
     THEN Goto("crashed") /\ UNCHANGED <<op_type, op_info>>
     ELSE /\ op_type' = src.ms.op_name /\ op_info' = MsEntries(src.ms)
          /\ Goto("op_info")
  /\ UNCHANGED <<src, at, tbe_ops_info, base_case, base_case_list>>

-----------------------------------------------------------------------------
(* AI Core                                                                 *)

Operand(e) == e.key[1] \in {"input", "output"}

DtypeCount(info) == IF "dtype" \in DOMAIN info THEN Len(info.dtype) ELSE 0

\* _check_basic_filed_vaild.  It is passed dtype_count = 0 for every operand,
\* since the count it takes from the first is not returned: the comparison
\* of the numbers of the inputs and outputs compares a number with itself.
check_basic_filed_vaild(info, dtype_count) ==
  LET expected == IF dtype_count = 0 THEN DtypeCount(info) ELSE dtype_count IN
  /\ check_op_info_list_valid(<<info.paramType>>)
  /\ "dtype" \in DOMAIN info =>
       check_op_info_list_valid(info.dtype) /\ expected = DtypeCount(info)
  /\ "format" \in DOMAIN info =>
       check_op_info_list_valid(info.format) /\ DtypeCount(info) = Len(info.format)

CheckOpInfo ==
  /\ pc = "op_info"
  /\ IF \A i \in 1..Len(op_info) : Operand(op_info[i]) =>
          /\ {"paramType", "name"} \subseteq DOMAIN op_info[i].info
          /\ check_basic_filed_vaild(op_info[i].info, 0)
     THEN /\ op_info' = [i \in 1..Len(op_info) |->
               IF Operand(op_info[i])
               THEN [op_info[i] EXCEPT !.info = @ @@ [dtype |-> <<>>, format |-> <<>>]]
               ELSE op_info[i]]
          /\ Goto("aicore")
     ELSE Raise /\ UNCHANGED op_info
  /\ UNCHANGED <<src, at, tbe_ops_info, op_type, base_case, base_case_list>>

Distinct(tokens) == [of |-> ToSet(tokens), number |-> Cardinality(ToSet(tokens))]
undefined(list) == [of |-> IF list.number = 0 THEN {} ELSE {UNDEFINED}, number |-> list.number]

\* _generate_input_desc, _generate_output_desc.
generate_desc(e) ==
  LET optional == e.key[1] = "input" /\ e.info.paramType = "optional"
      Of(tokens) == IF optional THEN undefined(Distinct(tokens)) ELSE Distinct(tokens)
  IN [name |-> <<e.info.name, e.key[1] = "input" /\ e.info.paramType = "dynamic">>,
      type |-> Of(e.info.dtype),
      format |-> IF src.kind = "py" THEN ABSENT ELSE Of(e.info.format), shape |-> <<>>]

\* Without a type that is known the value is null.
get_default_attr_value(info) ==
  IF "defaultValue" \in DOMAIN info /\ Get(info, "type") \in AttrTypes /\ info.defaultValue # BAD
  THEN info.defaultValue ELSE NONE

make_attr_valid(info) ==
  ~IsAicpuOp => "type" \in DOMAIN info /\ check_op_info_list_valid(<<info.type>>)

\* default_value_str[0] of an empty string.
make_attr_crashes(info) == Get(info, "type") \in ListTypes /\ Get(info, "defaultValue") = EMPTY

make_attr(e) ==
  [name |-> e.key[2],
   type |-> IF Get(e.info, "type") \in AttrTypes THEN e.info.type ELSE NONE,
   value |-> get_default_attr_value(e.info)]

EntriesOf(kind) ==
  LET found == {i \in 1..Len(op_info) : op_info[i].key[1] = kind}
      nth(k) == CHOOSE i \in found : Cardinality({j \in found : j <= i}) = k
  IN  [k \in 1..Cardinality(found) |-> op_info[nth(k)]]

BaseCase(input_desc, output_desc) ==
  LET attrs == EntriesOf("attr")
  IN [case_name |-> op_type, st_mode |-> src.kind = "py", input_desc |-> input_desc, output_desc |-> output_desc,
      attr |-> [i \in 1..Len(attrs) |-> make_attr(attrs[i])]]
AicoreBaseDescs(kind) == LET es == EntriesOf(kind) IN [i \in 1..Len(es) |-> generate_desc(es[i])]

\* A case from the model for each of its layers, or the base case.
ToModel(base) ==
  /\ base_case' = base /\ at' = 1
  /\ IF src.model = ABSENT THEN base_case_list' = <<base>> /\ Goto("write")
     ELSE /\ UNCHANGED base_case_list
          /\ IF src.model = FAILS THEN Raise ELSE Goto("model")

GenerateAicoreBaseCase ==
  /\ pc = "aicore"
  /\ LET attrs == EntriesOf("attr")
         None == /\ UNCHANGED <<at, base_case, base_case_list>>
     IN IF op_type = NONE \/ \E i \in 1..Len(attrs) : make_attr_valid(attrs[i].info) /\ make_attr_crashes(attrs[i].info)
        THEN Goto("crashed") /\ None
        ELSE IF (\A i \in 1..Len(attrs) : make_attr_valid(attrs[i].info)) /\ EntriesOf("output") # <<>>
             THEN ToModel(BaseCase(AicoreBaseDescs("input"), AicoreBaseDescs("output")))
             ELSE Raise /\ None
  /\ UNCHANGED <<src, tbe_ops_info, op_type, op_info>>

-----------------------------------------------------------------------------
(* AI CPU                                                                  *)

\* _get_aicpu_op_info_from_ini_file.
CheckIniTypes ==
  /\ pc = "aicpu"
  /\ LET typed == {i \in 1..Len(op_info) : Operand(op_info[i]) /\ "type" \in DOMAIN op_info[i].info}
     IN IF \E i \in typed : ~check_op_info_list_valid(op_info[i].info.type) THEN Raise
        ELSE Goto(IF typed = {} THEN "proto" ELSE "aicpu_case")
  /\ UNCHANGED <<src, at, tbe_ops_info, op_type, op_info, base_case, base_case_list>>

NthOf(proto, i, kind) ==
  Cardinality({j \in 1..(i - 1) : proto[j].kind = kind /\ proto[j].name # ABSENT})

\* What a clause of REG_OP says.
ProtoEntry(proto, i) ==
  LET c == proto[i] IN
  IF c.kind = "attr"
  THEN [key |-> <<"attr", c.name>>,
        info |-> IF c.default = ABSENT THEN [type |-> c.type] ELSE [type |-> c.type, defaultValue |-> c.default]]
  ELSE [key |-> <<c.kind, NthOf(proto, i, c.kind)>>,
        info |-> [name |-> c.name, type |-> c.type, format |-> <<>>]]

clause_valid(c) == check_op_info_list_valid(IF c.kind = "attr" THEN <<c.type>> ELSE c.type)

\* _find_aicpu_op_proto_path: a header that is missing or has no REG_OP is
\* only warned of.
FindAicpuOpProto ==
  /\ pc = "proto"
  /\ at' = 1 /\ Goto(IF src.proto = ABSENT THEN "aicpu_case" ELSE "clause")
  /\ UNCHANGED <<src, tbe_ops_info, op_type, op_info, base_case, base_case_list>>

clause == src.proto[at]

\* A name that is not found skips the operand.
ParseClause ==
  /\ pc = "clause" /\ at <= Len(src.proto)
  /\ at' = at + 1
  /\ \/ clause.kind # "attr" /\ clause.name = ABSENT /\ UNCHANGED <<pc, op_info>>
     \/ /\ clause.kind = "attr" \/ clause.name # ABSENT
        /\ LET entry == ProtoEntry(src.proto, at)
           IN  IF clause_valid(clause) THEN op_info' = Put(op_info, entry.key, entry.info) /\ UNCHANGED pc
                                       ELSE Raise /\ UNCHANGED op_info
  /\ UNCHANGED <<src, tbe_ops_info, op_type, base_case, base_case_list>>

ClausesEnd ==
  /\ pc = "clause" /\ at > Len(src.proto)
  /\ Goto("aicpu_case")
  /\ UNCHANGED <<src, at, tbe_ops_info, op_type, op_info, base_case, base_case_list>>

\* A type without a translation is left out.
generate_aicpu_op_desc(e) ==
  LET type == Get(e.info, "type")
      format == Get(e.info, "format")
  IN [name |-> <<Get(e.info, "name"), FALSE>>,
      type |-> Distinct(IF type \in {ABSENT, <<>>} THEN <<>>
                        ELSE SelectSeq(type, LAMBDA t : t \in IrTypes)),
      format |-> Distinct(IF format = ABSENT THEN <<>> ELSE format), shape |-> <<>>]

EmptyDesc == [name |-> <<ABSENT, FALSE>>, type |-> Distinct(<<>>), format |-> Distinct(<<>>), shape |-> <<>>]
AicpuBaseDescs(kind) ==
  LET es == EntriesOf(kind)
  IN  IF es = <<>> THEN <<EmptyDesc>> ELSE [i \in 1..Len(es) |-> generate_aicpu_op_desc(es[i])]

GenerateAicpuBaseCase ==
  /\ pc = "aicpu_case"
  /\ IF \E i \in 1..Len(op_info) : op_info[i].key[1] = "attr" /\ make_attr_crashes(op_info[i].info)
     THEN Goto("crashed") /\ UNCHANGED <<at, base_case, base_case_list>>
     ELSE ToModel(BaseCase(AicpuBaseDescs("input"), AicpuBaseDescs("output")))
  /\ UNCHANGED <<src, tbe_ops_info, op_type, op_info>>

-----------------------------------------------------------------------------
(* The layers of the model                                                 *)

node == src.model[at]
One(v) == [of |-> {v}, number |-> 1]

\* _update_aicpu_io_from_model: nothing of the base case.
AicpuDescs(dtypes, shapes) ==
  [i \in 1..Len(dtypes) |->
     [name |-> <<ABSENT, FALSE>>, type |-> One(dtypes[i]), format |-> One("ND"), shape |-> <<shapes[i]>>]]

\* _modify_new_base_case_dict, on a copy of the descriptions.
LayerDescs(descs, dtypes, shapes) ==
  [i \in 1..Len(descs) |-> [descs[i] EXCEPT !.shape = Append(@, shapes[i]), !.type = One(dtypes[i])]]

BaseAfter_Shared(new) == [base_case EXCEPT !.input_desc = new.input_desc, !.output_desc = new.output_desc]
\* copy.deepcopy: the base case keeps its own descriptions.
BaseAfter(new) == base_case

NodeFormat == SelectSeq(node.attr, LAMBDA item : item.name = "data_format")

update_format_from_model(descs, apply) ==
  IF NodeFormat = <<>> \/ ~apply THEN descs
  ELSE [i \in 1..Len(descs) |->
          IF descs[i].format = ABSENT THEN descs[i]
          ELSE [descs[i] EXCEPT !.format = One(Last(NodeFormat).value)]]

\* _update_aicore_attr_from_model: an attribute the layer does not give is
\* left out.
NodeAttrs ==
  LET Given(a) == SelectSeq(node.attr, LAMBDA item : item.name = a.name)
      Value(a) == [a EXCEPT !.value = Given(a)[1].value]
  IN  [i \in 1..Len(SelectSeq(base_case.attr, LAMBDA a : Given(a) # <<>>)) |->
         Value(SelectSeq(base_case.attr, LAMBDA a : Given(a) # <<>>)[i])]

\* check_attr_value_valid, of an attribute the layer gives.
NodeAttrsValid == \A i \in 1..Len(NodeAttrs) : NodeAttrs[i].value # BAD

Skipped ==
  ~IsAicpuOp /\ (\/ Len(node.input_shape) # Len(base_case.input_desc)
                 \/ Len(node.output_shape) # Len(base_case.output_desc))

ModelLayer ==
  /\ pc = "model" /\ at <= Len(src.model)
  /\ at' = at + 1
  /\ IF Skipped THEN UNCHANGED <<pc, base_case, base_case_list>>
     ELSE IF IsAicpuOp
     THEN /\ base_case_list' = Append(base_case_list,
               [case_name |-> node.layer, st_mode |-> FALSE, attr |-> <<>>,
                input_desc |-> update_format_from_model(AicpuDescs(node.input_dtype, node.input_shape), TRUE),
                output_desc |-> update_format_from_model(AicpuDescs(node.output_dtype, node.output_shape), TRUE)])
          /\ UNCHANGED <<pc, base_case>>
     ELSE IF BAD \in ToSet(node.input_shape) \cup ToSet(node.output_shape) \/ ~NodeAttrsValid
     THEN Raise /\ UNCHANGED <<base_case, base_case_list>>
     ELSE LET new == [case_name |-> node.layer, st_mode |-> FALSE, attr |-> NodeAttrs,
                      input_desc |-> LayerDescs(base_case.input_desc, node.input_dtype, node.input_shape),
                      output_desc |-> LayerDescs(base_case.output_desc, node.output_dtype, node.output_shape)]
              any == base_case.attr # <<>>
          IN  /\ base_case_list' = Append(base_case_list,
                   [new EXCEPT !.input_desc = update_format_from_model(@, any),
                               !.output_desc = update_format_from_model(@, any)])
              /\ base_case' = BaseAfter(new)
              /\ UNCHANGED pc
  /\ UNCHANGED <<src, tbe_ops_info, op_type, op_info>>

\* No layer of this operator, or none that matches: the base case.
ModelEnds ==
  /\ pc = "model" /\ at > Len(src.model)
  /\ base_case_list' = IF base_case_list = <<>> THEN <<base_case>> ELSE base_case_list
  /\ Goto("write")
  /\ UNCHANGED <<src, at, tbe_ops_info, op_type, op_info, base_case>>

Write ==
  /\ pc = "write"
  /\ IF src.writes THEN Goto("written") ELSE Raise
  /\ UNCHANGED <<src, at, tbe_ops_info, op_type, op_info, base_case, base_case_list>>

-----------------------------------------------------------------------------
Next ==
  \/ CheckArgumentValid \/ IniLine \/ IniEnds \/ ParsePy
  \/ CheckOpInfo \/ GenerateAicoreBaseCase
  \/ CheckIniTypes \/ FindAicpuOpProto \/ ParseClause \/ ClausesEnd \/ GenerateAicpuBaseCase
  \/ ModelLayer \/ ModelEnds \/ Write

Spec == Init /\ [][Next]_vars

-----------------------------------------------------------------------------
(* Properties                                                              *)

\* The shapes of a case made from a layer are those of this layer alone,
\* whatever layers came before it (_get_new_base_case appends them to a copy
\* of the base case), and no case is made of a layer that was skipped.
LayersApart ==
  \A i \in 1..Len(base_case_list) :
    LET c == base_case_list[i] IN
    c # base_case =>
      \E n \in ToSet(src.model) :
        /\ c.case_name = n.layer
        /\ Len(c.input_desc) = Len(n.input_shape) /\ Len(c.output_desc) = Len(n.output_shape)
        /\ \A j \in 1..Len(c.input_desc) : c.input_desc[j].shape = <<n.input_shape[j]>>
        /\ \A j \in 1..Len(c.output_desc) : c.output_desc[j].shape = <<n.output_shape[j]>>

=============================================================================
