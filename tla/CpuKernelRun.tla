---------------------------- MODULE CpuKernelRun ----------------------------
(***************************************************************************)
(* Kernel launches on the device: RunCpuKernel and RunCpuKernelWithBlock of *)
(* device_cpu_kernel.cc, through SessionCache (session_cache.h), one         *)
(* CpuKernelCache per stream or session (cpu_kernel_cache.cc) and the        *)
(* kernel registry (cpu_kernel_register.cc), to the launch's return and, for *)
(* an asynchronous kernel, to its notification.                            *)
(*                                                                         *)
(* A task is one launch, run by a thread of its own.  Its CpuKernelContext, *)
(* and the NodeDef and CpuCacheData that go with it, are named after the    *)
(* task that created them.  A step ends where another thread can see the    *)
(* state: at a mutex, or between two accesses to a context.                *)
(*                                                                         *)
(* The runtime is external.  It starts the tasks of a stream in order, each *)
(* when those before it have returned and notified; the blocks of one       *)
(* launch share a place in the order and run at the same time.             *)
(***************************************************************************)
EXTENDS KernelCacheOps, FiniteSets

CONSTANTS Info,            \* what each task's parameters say
          Ids,             \* session and stream ids, numbers of one type
          MaxErrors        \* bound on the launches that return an error

\* What a cache holds is named after the task that made it.
Tasks == Data
NoTask == NoData
Kernels == Keys

\* A task with the parameters of AicpuParamHead, SessionInfo and BlkDimInfo
\* that matter, and its place `seq` on its stream.
Launches ==
  [stream : Ids, seq : Nat, has_sess_info : BOOLEAN, sess_flag : BOOLEAN,
   session : Ids, kernel : Kernels, blockNum : Nat \ {0}, blockId : Nat,
   async : BOOLEAN]

Blocks(t) == Info[t].blockNum # 1

\* Whose kernels a cache holds: a session's, or a stream's outside sessions.
SameScope(t, u) ==
  /\ Info[t].sess_flag = Info[u].sess_flag
  /\ IF Info[t].sess_flag THEN Info[t].session = Info[u].session
                          ELSE Info[t].stream = Info[u].stream

SameLaunch(t, u) ==
  /\ Info[t].stream = Info[u].stream /\ Info[t].seq = Info[u].seq

\* What the runtime promises: blocks are numbered from 0, tasks of one launch
\* are the blocks of one kernel, and a kernel id belongs to one stream and
\* keeps its block count.
InfoAssumption ==
  /\ Info \in [Tasks -> Launches]
  /\ \A t \in Tasks : Info[t].blockId < Info[t].blockNum
  /\ \A t, u \in Tasks : t # u /\ SameLaunch(t, u) =>
       /\ [Info[t] EXCEPT !.blockId = 0] = [Info[u] EXCEPT !.blockId = 0]
       /\ Blocks(t) /\ Info[t].blockId # Info[u].blockId
  /\ \A t, u \in Tasks : SameScope(t, u) /\ Info[t].kernel = Info[u].kernel =>
       /\ Info[t].stream = Info[u].stream
       /\ Info[t].blockNum = Info[u].blockNum
ASSUME InfoAssumption

VARIABLES pc,              \* where each task is
          status,          \* what it returned
          caches,          \* the KernelCache objects made so far
          maps,            \* session_kernel_cache_ and stream_kernel_cache_
          mine,            \* the KernelCache of each task (`kernel`)
          raw,             \* the CpuCacheData* GetCache gave it
          ctx,             \* its CpuKernelContext (by creator)
          ctxs,            \* the contents of the contexts
          out,             \* whose output shape its extend info received
          async,           \* where its asynchronous computation is
          notified         \* the retCodes NotifyWait was given for it

vars == <<pc, status, caches, maps, mine, raw, ctx, ctxs, out, async, notified>>

NewContext(b) == [block |-> b, inputs |-> NoTask, outputs |-> NoTask, shape |-> NoTask]

Init ==
  /\ pc = [t \in Tasks |-> "start"] /\ status = [t \in Tasks |-> "none"]
  /\ caches = <<>> /\ maps = [key \in BOOLEAN \X Ids |-> 0]
  /\ mine = [t \in Tasks |-> 0]
  /\ raw = [t \in Tasks |-> NoTask] /\ ctx = [t \in Tasks |-> NoTask]
  /\ ctxs = [t \in Tasks |-> NewContext(0)]
  /\ out = [t \in Tasks |-> NoTask]
  /\ async = [t \in Tasks |-> "none"] /\ notified = [t \in Tasks |-> <<>>]

Complete(t) ==
  pc[t] = "returned" /\ (async[t] # "none" => async[t] = "notified")

Before(u, t) == Info[u].stream = Info[t].stream /\ Info[u].seq < Info[t].seq

Ready(t) == pc[t] = "start" /\ \A u \in Tasks : Before(u, t) => Complete(u)

Goto(t, l) == pc' = [pc EXCEPT ![t] = l]
Return(t, s) == Goto(t, "returned") /\ status' = [status EXCEPT ![t] = s]
Fail(t) ==
  /\ Cardinality({u \in Tasks : status[u] = "error"}) < MaxErrors
  /\ Return(t, "error")

-----------------------------------------------------------------------------
\* The checks before anything is looked up refuse the parameters: lengths,
\* ParseExtSessionInfo, ParseIoAddr, ParseExtMsg.
Reject(t) ==
  /\ \/ Ready(t) \/ pc[t] = "context"
  /\ Fail(t)
  /\ UNCHANGED <<caches, maps, mine, raw, ctx, ctxs, out, async, notified>>

\* Without session info a task has a CpuKernelCache of its own, on the stack,
\* which nothing is ever put in.
RunDirectly(t) ==
  /\ Ready(t) /\ ~Info[t].has_sess_info
  /\ Goto(t, "context")
  /\ UNCHANGED <<status, caches, maps, mine, raw, ctx, ctxs, out, async, notified>>

MapKey_OneMap(t) ==
  <<TRUE, IF Info[t].sess_flag THEN Info[t].session ELSE Info[t].stream>>
MapKey(t) ==
  <<Info[t].sess_flag, IF Info[t].sess_flag THEN Info[t].session ELSE Info[t].stream>>

\* Under session_mutex_ or stream_mutex_; a failed allocation returns an error.
Inserted(sess) == Append(caches, NewCache(sess))

GetOrCreateKernelCache(t) ==
  /\ Ready(t) /\ Info[t].has_sess_info
  /\ IF maps[MapKey(t)] # 0
     THEN /\ mine' = [mine EXCEPT ![t] = maps[MapKey(t)]]
          /\ UNCHANGED <<caches, maps>>
     ELSE /\ caches' = Inserted(Info[t].sess_flag)
          /\ maps' = [maps EXCEPT ![MapKey(t)] = Len(caches) + 1]
          /\ mine' = [mine EXCEPT ![t] = Len(caches) + 1]
  /\ Goto(t, "context")
  /\ UNCHANGED <<status, raw, ctx, ctxs, out, async, notified>>

UsesCache_Blocks(t) == Info[t].has_sess_info
UsesCache(t) == Info[t].has_sess_info /\ ~Blocks(t)

\* GetCpuKernelContext, GetCpuKernelContextWithBlock: the lookup, under
\* kernel_mutex_; what it returns points into the cache.
LookUp(t) ==
  /\ pc[t] = "context" /\ UsesCache(t)
  /\ raw' = [raw EXCEPT ![t] = GetResult(caches[mine[t]], Info[t].kernel)]
  /\ \E c \in AfterGet(caches[mine[t]], Info[t].kernel) :
       caches' = [caches EXCEPT ![mine[t]] = c]
  /\ Goto(t, IF Found(caches[mine[t]], Info[t].kernel) THEN "hit" ELSE "create")
  /\ UNCHANGED <<status, maps, mine, ctx, ctxs, out, async, notified>>

SkipLookUp(t) ==
  /\ pc[t] = "context" /\ ~UsesCache(t) /\ Goto(t, "create")
  /\ UNCHANGED <<status, caches, maps, mine, raw, ctx, ctxs, out, async, notified>>

\* return cache->context, after the mutex is released.
UseCached(t) ==
  /\ pc[t] = "hit" /\ ctx' = [ctx EXCEPT ![t] = raw[t]] /\ Goto(t, "inputs")
  /\ UNCHANGED <<status, caches, maps, mine, raw, ctxs, out, async, notified>>

\* A new context from the NodeDef, with the block's attributes; SetCache.
CreateContext(t) ==
  /\ pc[t] = "create"
  /\ ctx' = [ctx EXCEPT ![t] = t]
  /\ ctxs' = [ctxs EXCEPT ![t] = NewContext(Info[t].blockId)]
  /\ IF Info[t].has_sess_info
     THEN \E c \in AfterSet(caches[mine[t]], Info[t].kernel, t) :
            caches' = [caches EXCEPT ![mine[t]] = c]
     ELSE UNCHANGED caches
  /\ Goto(t, "inputs")
  /\ UNCHANGED <<status, maps, mine, raw, out, async, notified>>

\* The NodeDef does not parse, or the context does not initialise.
CreateFails(t) ==
  /\ pc[t] = "create" /\ Fail(t)
  /\ UNCHANGED <<caches, maps, mine, raw, ctx, ctxs, out, async, notified>>

-----------------------------------------------------------------------------
\* UpdateTensor: the addresses, sizes and shapes of the inputs, then of the
\* outputs.  A tensor that fails a check leaves those before it updated.
UpdateInputs(t) ==
  /\ pc[t] = "inputs"
  /\ \/ /\ ctxs' = [ctxs EXCEPT ![ctx[t]].inputs = t]
        /\ Goto(t, "outputs") /\ UNCHANGED status
     \/ /\ \E torn \in {ctxs[ctx[t]].inputs, NoTask} :
             ctxs' = [ctxs EXCEPT ![ctx[t]].inputs = torn]
        /\ Fail(t)
  /\ UNCHANGED <<caches, maps, mine, raw, ctx, out, async, notified>>

UpdateOutputs_IgnoresError(t) ==
  /\ pc[t] = "outputs"
  /\ \E o \in {t, NoTask} : ctxs' = [ctxs EXCEPT ![ctx[t]].outputs = o]
  /\ Goto(t, "compute")
  /\ UNCHANGED <<status, caches, maps, mine, raw, ctx, out, async, notified>>
UpdateOutputs(t) ==
  /\ pc[t] = "outputs"
  /\ \/ /\ ctxs' = [ctxs EXCEPT ![ctx[t]].outputs = t]
        /\ Goto(t, "compute") /\ UNCHANGED status
     \/ /\ ctxs' = [ctxs EXCEPT ![ctx[t]].outputs = NoTask]
        /\ Fail(t)
  /\ UNCHANGED <<caches, maps, mine, raw, ctx, out, async, notified>>

\* CpuKernelRegister::RunCpuKernel: no such kernel, an error, or the outputs'
\* shapes are set in the context.
RunCpuKernel(t) ==
  /\ pc[t] = "compute" /\ ~Info[t].async
  /\ \/ /\ ctxs' = [ctxs EXCEPT ![ctx[t]].shape = t]
        /\ Goto(t, "shape") /\ UNCHANGED status
     \/ Fail(t) /\ UNCHANGED ctxs
  /\ UNCHANGED <<caches, maps, mine, raw, ctx, out, async, notified>>

UpdateFWKOutputShape(t) ==
  /\ pc[t] = "shape"
  /\ \/ out' = [out EXCEPT ![t] = ctxs[ctx[t]].shape] /\ Return(t, "ok")
     \/ UNCHANGED out /\ Fail(t)
  /\ UNCHANGED <<caches, maps, mine, raw, ctx, ctxs, async, notified>>

\* RunCpuKernelAsync: no such kernel or not an asynchronous one, refused by
\* ComputeAsync, or left to run; the thread then returns.
RunCpuKernelAsync(t) ==
  /\ pc[t] = "compute" /\ Info[t].async
  /\ \/ /\ async' = [async EXCEPT ![t] = "running"]
        /\ Goto(t, "launched") /\ UNCHANGED status
     \/ Fail(t) /\ UNCHANGED async
  /\ UNCHANGED <<caches, maps, mine, raw, ctx, ctxs, out, notified>>

ReturnLaunched(t) ==
  /\ pc[t] = "launched" /\ Return(t, "ok")
  /\ UNCHANGED <<caches, maps, mine, raw, ctx, ctxs, out, async, notified>>

\* The kernel finishes and calls done: with OK, or with an error.
AsyncCompute(t) ==
  /\ async[t] = "running"
  /\ \/ /\ ctxs' = [ctxs EXCEPT ![ctx[t]].shape = t]
        /\ async' = [async EXCEPT ![t] = "done"]
     \/ async' = [async EXCEPT ![t] = "error"] /\ UNCHANGED ctxs
  /\ UNCHANGED <<pc, status, caches, maps, mine, raw, ctx, out, notified>>

\* cb(), the UpdateFWKOutputShape of the launch, whose status is the retCode.
AsyncCallback_IgnoresError(t) ==
  /\ async[t] = "done" /\ async' = [async EXCEPT ![t] = "ok"]
  /\ \E o \in {ctxs[ctx[t]].shape, out[t]} : out' = [out EXCEPT ![t] = o]
  /\ UNCHANGED <<pc, status, caches, maps, mine, raw, ctx, ctxs, notified>>
AsyncCallback(t) ==
  /\ async[t] = "done"
  /\ \/ /\ out' = [out EXCEPT ![t] = ctxs[ctx[t]].shape]
        /\ async' = [async EXCEPT ![t] = "ok"]
     \/ async' = [async EXCEPT ![t] = "error"] /\ UNCHANGED out
  /\ UNCHANGED <<pc, status, caches, maps, mine, raw, ctx, ctxs, notified>>

NotifyWait_OnlyOk(t) ==
  /\ async[t] = "ok" /\ async' = [async EXCEPT ![t] = "notified"]
  /\ notified' = [notified EXCEPT ![t] = Append(@, async[t])]
  /\ UNCHANGED <<pc, status, caches, maps, mine, raw, ctx, ctxs, out>>
NotifyWait(t) ==
  /\ async[t] \in {"ok", "error"} /\ async' = [async EXCEPT ![t] = "notified"]
  /\ notified' = [notified EXCEPT ![t] = Append(@, async[t])]
  /\ UNCHANGED <<pc, status, caches, maps, mine, raw, ctx, ctxs, out>>

Run(t) ==
  \/ Reject(t) \/ RunDirectly(t) \/ GetOrCreateKernelCache(t)
  \/ LookUp(t) \/ SkipLookUp(t) \/ UseCached(t) \/ CreateContext(t) \/ CreateFails(t)
  \/ UpdateInputs(t) \/ UpdateOutputs(t)
  \/ RunCpuKernel(t) \/ UpdateFWKOutputShape(t) \/ RunCpuKernelAsync(t) \/ ReturnLaunched(t)

RunAsync(t) == AsyncCompute(t) \/ AsyncCallback(t) \/ NotifyWait(t)

Next == \E t \in Tasks : Run(t) \/ RunAsync(t)
Spec == Init /\ [][Next]_vars
FairSpec == Spec /\ \A t \in Tasks : WF_vars(Run(t)) /\ WF_vars(RunAsync(t))

-----------------------------------------------------------------------------
Resident(c) == \E i \in DOMAIN caches :
  \E j \in DOMAIN caches[i].list : caches[i].list[j].data = c

\* A thread that is about to read the context of the entry it found, no
\* longer under the cache's mutex, finds the entry there: neither an eviction
\* nor another thread's SetCache has freed it.
EntryAlive == \A t \in Tasks : pc[t] = "hit" => Resident(raw[t])

\* The context of a task in which it fills in tensors, computes or reads
\* shapes, on its own thread or asynchronously.
Uses(t) == pc[t] \in {"inputs", "outputs", "compute", "shape"} \/ async[t] \in {"running", "done"}

\* Two launches, or two blocks of one, never work in one context at once.
ContextIsolation ==
  \A t, u \in Tasks : t # u /\ Uses(t) /\ Uses(u) => ctx[t] # ctx[u]

\* A cached context is reused only for its own kernel id, in its own session
\* or on its own stream: equal ids of a session and a stream do not meet.
ContextOfKernel ==
  \A t \in Tasks : Uses(t) =>
    /\ Info[ctx[t]].kernel = Info[t].kernel
    /\ SameScope(t, ctx[t])

\* A kernel computes on the tensors and the block of its own launch: nothing
\* an earlier, perhaps failed, launch left in the context is still there.
ComputesOnOwnData ==
  \A t \in Tasks : pc[t] = "compute" \/ async[t] = "running" =>
    /\ ctxs[ctx[t]].inputs = t /\ ctxs[ctx[t]].outputs = t
    /\ ctxs[ctx[t]].block = Info[t].blockId

\* A launch, or the notification of an asynchronous one, that reports success
\* has put the output shape of its own computation in its extend info.
SuccessHasOwnShape ==
  \A t \in Tasks :
    /\ out[t] \in {NoTask, t}
    /\ (~Info[t].async /\ status[t] = "ok") \/ notified[t] = <<"ok">> => out[t] = t

\* Every launch returns and, if asynchronous and accepted, is notified.
AllComplete == <>(\A t \in Tasks : Complete(t))
=============================================================================
