--------------------------- MODULE MCLaunchParams ---------------------------
(***************************************************************************)
(* Parameter blocks for TLC: every type of entry, well and badly sized,     *)
(* with the payloads the parser tells apart, in every order.               *)
(***************************************************************************)
EXTENDS LaunchParams

Entry(type, ok, arg) == [type |-> type, ok |-> ok, arg |-> arg]

\* Inputs = 2 and Outputs = 1: right and wrong numbers of shapes.
AllEntries ==
  {Entry("SHAPE_TYPE", TRUE, 0), Entry("BITMAP", TRUE, 0), Entry("BITMAP", TRUE, 1),
   Entry("INPUT_SHAPE", TRUE, 2), Entry("INPUT_SHAPE", TRUE, 1), Entry("INPUT_SHAPE", FALSE, 2),
   Entry("OUTPUT_SHAPE", TRUE, 1), Entry("SESSION_INFO", TRUE, 7), Entry("SESSION_INFO", FALSE, 7),
   Entry("TOPIC_TYPE", TRUE, 1), Entry("ASYNCWAIT", TRUE, 1), Entry("ASYNCWAIT", TRUE, 2),
   Entry("UNKNOWN_SHAPE_INPUT_INDEX", TRUE, 0), Entry("UNKNOWN_SHAPE_OUTPUT_INDEX", TRUE, 0),
   Entry("OTHER", FALSE, 0)}
MCEntries == AllEntries

\* Below sizeof(AicpuParamHead) = 20, around what three addresses need, 20 + 24 + 4,
\* and above the limit of 15360.
MCLengths == {19, 47, 48, 15361}
MCIoAddrNums == {3, 4}
=============================================================================
