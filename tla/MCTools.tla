------------------------------- MODULE MCTools -------------------------------
(* Instances of the programs of Tools, each with its inputs.                 *)
EXTENDS Tools, TLC
CONSTANTS c1, c2

ArgsMC == INSTANCE MCMsopst
GenMC == INSTANCE MCCaseGenerator
DesMC == INSTANCE MCCaseDesign
MsMC == INSTANCE MCMsOpGenerator
DataMC == INSTANCE MCTestData
CmpMC == INSTANCE MCCompareData

MCArgvs == ArgsMC!MCArgvs
MCInis == ArgsMC!MCInis
MCCaseThresholds == ArgsMC!MCCaseThresholds
MCDisk == ArgsMC!MCDisk
MCSources == GenMC!MCSources
MCInputs == DesMC!MCInputs
MCCaseNameLists == DesMC!MCCaseNameLists
MCFuzzReturns == DesMC!MCFuzzReturns
MCRequired == DesMC!MCRequired
MCParamTypes == MsMC!MCParamTypes
MCMsCaseLists == MsMC!MCCaseLists
MCCaseLists == DataMC!MCCaseLists
MCWidths == DataMC!MCWidths
MCOutputLists == CmpMC!MCOutputLists
MCLater == CmpMC!MCLater

\* A device and two simulators; errors of the context, of a type that is known
\* and of another.
MCModes == {NONE, "ca", "pv"}
Error(null, type) == [null_context |-> null, type_known |-> type]
MCErrorCodes == {Error(FALSE, TRUE), Error(FALSE, FALSE), Error(TRUE, FALSE)}
MCSymmetry == Permutations({c1, c2})

\* Two cases: enough for one to be written through the other's objects.
MCCases == <<"case_1", "case_2">>

\* The lists of at most two lines, one line per directory and of the
\* extensions that the rules of ChangedFiles tell apart.
Dirs == {"aicpu_test", "tests_utils", "graph_fusion", "binary_om_test", "ops_test", "op_tiling_test",
         "plugin_test_tf", "plugin_test_common", "plugin_test_onnx", "tests_other",
         "auto_schedule_python", "auto_schedule_other", "tools_sch_test_frame", "tools_other", "root_document"}
          \cup {"aicpu", "fusion_pass", "op_proto", "op_tiling", "tf_plugin", "onnx_plugin", "caffe_plugin",
                "binary_config_utils", "tbe", "fusion_rules", "scripts", "elsewhere"}
Files == {[dir |-> d, ext |-> "cc"] : d \in Dirs \ {"root_document", "scripts"}}
           \cup {[dir |-> d, ext |-> "py"] : d \in {"aicpu", "tbe", "scripts", "auto_schedule_python", "tests_other"}}
           \cup {[dir |-> d, ext |-> "json"] : d \in {"binary_om_test", "root_document", "fusion_rules"}}
MCLists == {NONE, {}} \cup {{f, g} : f, g \in Files}

\* Channels and pixels on both sides of every multiple of C0 and of a block;
\* and several images of two blocks.
ShapesOf(N, C, HW) == [n : N, c : C, hw : HW]
MCShapes == ShapesOf(1 .. 2, {1, 2, 3, 5}, {1, 2, 3, 8, 9, 10, 11, 13, 14, 15, 18})
MCBatch == ShapesOf({2}, {3}, {10})
=============================================================================
