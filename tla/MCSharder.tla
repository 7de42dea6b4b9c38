------------------------------ MODULE MCSharder ------------------------------
(***************************************************************************)
(* Requests for TLC: nothing to do, sizes of a unit that are zero, small,   *)
(* between and larger than the range, on both devices.                     *)
(***************************************************************************)
EXTENDS Sharder

ParallelFor(device, total, per) ==
  [op |-> "ParallelFor", device |-> device, total |-> total, per |-> per]
GetCPUNum(device) == [op |-> "GetCPUNum", device |-> device, total |-> 0, per |-> 0]

MCRequests ==
  {ParallelFor("HOST", 0, 1), ParallelFor("HOST", 3, 0), ParallelFor("HOST", 3, 1),
   ParallelFor("HOST", 3, 2), ParallelFor("HOST", 3, 3), ParallelFor("DEVICE", 0, 1),
   ParallelFor("DEVICE", 3, 1), ParallelFor(NULL, 3, 1),
   GetCPUNum("HOST"), GetCPUNum("DEVICE"), GetCPUNum(NULL)}
=============================================================================
