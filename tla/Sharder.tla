------------------------------- MODULE Sharder -------------------------------
(***************************************************************************)
(* CpuKernelUtils::ParallelFor and GetCPUNum: kernels on several threads    *)
(* ask for a range of work to be split.  HostSharder gives it to the        *)
(* process-wide EigenThreadPool, created by the first call that finds how   *)
(* many cores there are; DeviceSharder gives it to libaicpu_sharder.so, or  *)
(* does it itself when the library has no ParallelFor.                     *)
(*                                                                         *)
(* Eigen and libaicpu_sharder are external: they cut the range into blocks, *)
(* run each on some thread, and return when all have run.                  *)
(***************************************************************************)
EXTENDS Integers, FiniteSets

CONSTANTS Call,        \* the calls, each on a thread of its own
          Requests,    \* what a call may ask: [op, device, total, per]
          Nprocs,      \* what get_nprocs may answer
          NULL

ASSUME RequestsAssumption ==
  /\ Requests \subseteq [op : {"ParallelFor", "GetCPUNum"},
                         device : {"HOST", "DEVICE", NULL},
                         total : Nat, per : Int]
  /\ Nprocs \subseteq Int
  /\ NULL \notin {"HOST", "DEVICE", "OK"}

kMaxOverShardingFactor == 4

VARIABLES req,           \* call -> request
          parallel_for_, \* libaicpu_sharder.so has the function
          init_flag_, core_num_,   \* EigenThreadPool
          pc,
          ret,           \* a status; for GetCPUNum, where its number comes from
          pending,       \* call -> blocks <<first, last>> not yet run
          count          \* call -> unit -> how often work was called on it

vars == <<req, parallel_for_, init_flag_, core_num_, pc, ret, pending, count>>
pool == <<init_flag_, core_num_>>
given == <<req, parallel_for_>>

Units(c) == 0 .. req[c].total - 1

Init ==
  /\ req \in [Call -> Requests]
  /\ parallel_for_ \in BOOLEAN
  /\ init_flag_ = FALSE /\ core_num_ = 0
  /\ pc = [c \in Call |-> "start"] /\ ret = [c \in Call |-> NULL]
  /\ pending = [c \in Call |-> {}]
  /\ count = [c \in Call |-> [u \in Units(c) |-> 0]]

Goto(c, label) == pc' = [pc EXCEPT ![c] = label]
Return(c, r) == Goto(c, "done") /\ ret' = [ret EXCEPT ![c] = r]

\* The two null checks of CpuKernelUtils, then the sharder of the device.
Dispatch(c) ==
  /\ pc[c] = "start"
  /\ CASE req[c].device = NULL ->
            Return(c, IF req[c].op = "ParallelFor" THEN "INNER_ERROR" ELSE "NO_CPU")
       [] req[c].device = "HOST" -> Goto(c, "instance") /\ UNCHANGED ret
       [] OTHER -> Goto(c, "device") /\ UNCHANGED ret
  /\ UNCHANGED <<given, pool, pending, count>>

\* ParallelFor returns OK whatever the sharder did.
ReturnFrom(c, cpus) == Return(c, IF req[c].op = "ParallelFor" THEN "OK" ELSE cpus)

\* EigenThreadPool::GetInstance, under mutex_.  A call that cannot find the
\* number of cores leaves the creation of the pool to the next.
GetInstance(c) ==
  /\ pc[c] = "instance"
  /\ \/ init_flag_ /\ Goto(c, "pool") /\ UNCHANGED <<pool, ret>>
     \/ \E n \in Nprocs :
          /\ ~init_flag_
          /\ core_num_' = n /\ init_flag_' = (n > 0)
          /\ IF n <= 0 THEN ReturnFrom(c, "NO_CPU") ELSE Goto(c, "pool") /\ UNCHANGED ret
  /\ UNCHANGED <<given, pending, count>>

\* The blocks a range is cut into at the given points.
Blocks(total, cuts) ==
  {b \in ({0} \cup cuts) \X (cuts \cup {total}) :
     b[1] < b[2] /\ \A x \in cuts : ~(b[1] < x /\ x < b[2])}

Split(total, most) ==
  {Blocks(total, cuts) : cuts \in {s \in SUBSET (1 .. total - 1) : s = {} \/ Cardinality(s) < most}}

\* The cost of a unit that EigenThreadPool computes asks for one block on the
\* calling thread, for the most blocks, or for slices of per_unit_size.
MaxShards(total, per) ==
  CASE per >= total -> 1
    [] per < total /\ per <= total \div core_num_ -> kMaxOverShardingFactor * core_num_
    [] OTHER -> (kMaxOverShardingFactor * total) \div per

HostParallelFor_OneUnit(c) ==
  /\ pc[c] = "pool" /\ req[c].op = "ParallelFor"
  /\ IF req[c].total <= 0 \/ req[c].per <= 0 \/ req[c].per >= req[c].total
     THEN ReturnFrom(c, "NO_CPU") /\ UNCHANGED pending
     ELSE /\ \E blocks \in Split(req[c].total, MaxShards(req[c].total, req[c].per)) :
               pending' = [pending EXCEPT ![c] = blocks]
          /\ Goto(c, "barrier") /\ UNCHANGED ret
  /\ UNCHANGED <<given, pool, count>>
\* EigenThreadPool::ParallelFor up to the parallelFor of Eigen; core_num_ is
\* read without the lock.
HostParallelFor(c) ==
  /\ pc[c] = "pool" /\ req[c].op = "ParallelFor"
  /\ IF req[c].total <= 0 \/ req[c].per <= 0
     THEN ReturnFrom(c, "NO_CPU") /\ UNCHANGED pending
     ELSE /\ \E blocks \in Split(req[c].total, MaxShards(req[c].total, req[c].per)) :
               pending' = [pending EXCEPT ![c] = blocks]
          /\ Goto(c, "barrier") /\ UNCHANGED ret
  /\ UNCHANGED <<given, pool, count>>

HostGetCPUNum(c) ==
  /\ pc[c] = "pool" /\ req[c].op = "GetCPUNum"
  /\ ReturnFrom(c, "CORES")
  /\ UNCHANGED <<given, pool, pending, count>>

DeviceParallelFor_NoReturn(c) ==
  /\ pc[c] = "device" /\ req[c].op = "ParallelFor"
  /\ \E blocks \in Split(req[c].total, IF parallel_for_ THEN req[c].total ELSE 1) :
       pending' = [pending EXCEPT ![c] = blocks \cup {<<0, req[c].total>>}]
  /\ Goto(c, "barrier")
  /\ UNCHANGED <<given, pool, ret, count>>
DeviceParallelFor_OneUnit(c) ==
  /\ pc[c] = "device" /\ req[c].op = "ParallelFor"
  /\ \E blocks \in Split(req[c].total, req[c].total) :
       pending' = [pending EXCEPT ![c] = IF parallel_for_ THEN blocks ELSE {<<0, req[c].per>>}]
  /\ Goto(c, "barrier")
  /\ UNCHANGED <<given, pool, ret, count>>
\* libaicpu_sharder cuts as it likes; without it, one block on this thread.
DeviceParallelFor(c) ==
  /\ pc[c] = "device" /\ req[c].op = "ParallelFor"
  /\ \E blocks \in Split(req[c].total, IF parallel_for_ THEN req[c].total ELSE 1) :
       pending' = [pending EXCEPT ![c] = blocks]
  /\ Goto(c, "barrier")
  /\ UNCHANGED <<given, pool, ret, count>>

\* get_cpu_num_ is taken to be there when parallel_for_ is.
DeviceGetCPUNum(c) ==
  /\ pc[c] = "device" /\ req[c].op = "GetCPUNum"
  /\ ReturnFrom(c, IF parallel_for_ THEN "CORES" ELSE "ONE_CPU")
  /\ UNCHANGED <<given, pool, pending, count>>

\* work(first, last) on some thread.
RunBlock(c, block) ==
  /\ block \in pending[c]
  /\ pending' = [pending EXCEPT ![c] = @ \ {block}]
  /\ count' = [count EXCEPT ![c] =
       [u \in Units(c) |-> IF block[1] <= u /\ u < block[2] THEN @[u] + 1 ELSE @[u]]]
  /\ UNCHANGED <<given, pool, pc, ret>>

Barrier_AwaitsWork(c) ==
  /\ pc[c] = "barrier" /\ pending[c] = {} /\ \E u \in Units(c) : count[c][u] = 1
  /\ ReturnFrom(c, "NO_CPU")
  /\ UNCHANGED <<given, pool, pending, count>>
\* parallelFor returns when all blocks have run: they refer to the caller's work.
Barrier(c) ==
  /\ pc[c] = "barrier" /\ pending[c] = {}
  /\ ReturnFrom(c, "NO_CPU")
  /\ UNCHANGED <<given, pool, pending, count>>

Step(c) ==
  \/ Dispatch(c) \/ GetInstance(c) \/ HostParallelFor(c) \/ HostGetCPUNum(c)
  \/ DeviceParallelFor(c) \/ DeviceGetCPUNum(c) \/ Barrier(c)
Work(c) == \E block \in pending[c] : RunBlock(c, block)

Next == \E c \in Call : Step(c) \/ Work(c)
Spec == Init /\ [][Next]_vars

\* Threads are preemptive and the pool's workers run whatever is queued.
FairSpec == Spec /\ \A c \in Call : WF_vars(Step(c)) /\ WF_vars(Work(c))

-----------------------------------------------------------------------------
\* The work of a call is done: each unit once.
Done(c) == \A u \in Units(c) : count[c][u] = 1

\* ParallelFor that returns OK has done all of its work or, on the host, none.
AllOrNothing ==
  \A c \in Call :
    ret[c] = "OK" =>
      \/ Done(c)
      \/ req[c].device = "HOST" /\ \A u \in Units(c) : count[c][u] = 0

\* Once some call has created the pool, OK means done for a positive size of
\* unit: the calls before it that found no core leave nothing behind.
PoolServes ==
  [][\A c \in Call :
       init_flag_ /\ ret[c] = NULL /\ ret'[c] = "OK" /\ req[c].per > 0 => Done(c)']_vars

\* However the range is cut, no unit is worked on twice: count is at most 1 and
\* a block still to run has not been begun.
UnitOnce ==
  \A c \in Call : \A u \in Units(c) :
    count[c][u] + Cardinality({b \in pending[c] : b[1] <= u /\ u < b[2]}) <= 1

\* Every call returns, whoever creates the pool and however often that fails.
Returns == <>(\A c \in Call : pc[c] = "done")

\* cpu_kernel_utils.cc, ParallelFor: "0->sucess other->failed".
OkMeansDone == \A c \in Call : ret[c] = "OK" => Done(c)

=============================================================================
