------------------------- MODULE CpuKernelRunProofs -------------------------
(***************************************************************************)
(* Theorems about kernel launches for every set of tasks, streams, sessions *)
(* and kernels, whatever their parameters say and however they interleave.  *)
(***************************************************************************)
EXTENDS CpuKernelRun, KernelCacheOpsProofs

\* A task before it has a context, and after.
Early == {"start", "context", "hit", "create"}
Late == {"inputs", "outputs", "compute", "shape", "launched", "returned"}

\* What a context contains.
Contexts == [block : Nat, inputs : Tasks \cup {NoTask},
             outputs : Tasks \cup {NoTask}, shape : Tasks \cup {NoTask}]

\* The types.
TypeOK ==
  /\ pc \in [Tasks -> Early \cup Late]
  /\ status \in [Tasks -> {"none", "ok", "error"}]
  /\ caches \in Seq(Caches) /\ maps \in [BOOLEAN \X Ids -> Nat]
  /\ mine \in [Tasks -> Nat]
  /\ raw \in [Tasks -> Tasks \cup {NoTask}] /\ ctx \in [Tasks -> Tasks \cup {NoTask}]
  /\ ctxs \in [Tasks -> Contexts]
  /\ out \in [Tasks -> Tasks \cup {NoTask}]
  /\ async \in [Tasks -> {"none", "running", "done", "ok", "error", "notified"}]
  /\ notified \in [Tasks -> Seq({"ok", "error"})]

\* The maps lead to as many caches as they have entries, each of its key's kind.
MapsSound ==
  /\ \A key \in BOOLEAN \X Ids :
       /\ maps[key] \in 0 .. Len(caches)
       /\ maps[key] # 0 => caches[maps[key]].sess_flag = key[1]
  /\ \A k1, k2 \in BOOLEAN \X Ids : maps[k1] # 0 /\ maps[k1] = maps[k2] => k1 = k2

\* A cache is well formed; what it holds under a key are contexts for that
\* kernel, of the session or stream whose cache it is, finished by their task.
CachesSound ==
  \A i \in 1 .. Len(caches) :
    /\ WellFormed(caches[i])
    /\ \A e \in Holding(caches[i]) :
         Info[e[2]].kernel = e[1] /\ maps[MapKey(e[2])] = i /\ ctx[e[2]] = e[2]

\* The tasks before one that has been started are through.
StreamOrder == \A t, u \in Tasks : Before(u, t) /\ pc[t] # "start" => Complete(u)

\* Where a task is tells what it has found, whose context it works in and what
\* that context holds.
HasCache(t) ==
  pc[t] \in {"context", "hit", "create"} /\ Info[t].has_sess_info =>
    mine[t] # 0 /\ mine[t] = maps[MapKey(t)]

HasEntry(t) ==
  pc[t] = "hit" => UsesCache(t) /\ <<Info[t].kernel, raw[t]>> \in Holding(caches[mine[t]])

HasContext(t) ==
  /\ ctx[t] # NoTask => pc[t] \in Late
  /\ ctx[t] = t => ctxs[t].block = Info[t].blockId
  /\ ctx[t] \notin {t, NoTask} =>
       /\ ctx[ctx[t]] = ctx[t] /\ ~Blocks(t)
       /\ SameScope(t, ctx[t]) /\ Info[ctx[t]].kernel = Info[t].kernel
  /\ pc[t] \in {"inputs", "outputs", "compute", "shape", "launched"} \/ async[t] # "none" =>
       ctx[t] # NoTask

HasData(t) ==
  /\ pc[t] \in {"outputs", "compute"} \/ async[t] = "running" => ctxs[ctx[t]].inputs = t
  /\ pc[t] = "compute" \/ async[t] = "running" => ctxs[ctx[t]].outputs = t
  /\ pc[t] = "shape" \/ async[t] = "done" => ctxs[ctx[t]].shape = t

IsAsync(t) ==
  /\ async[t] # "none" => pc[t] \in {"launched", "returned"} /\ Info[t].async
  /\ pc[t] = "launched" => async[t] # "none"

HasShape(t) ==
  /\ out[t] \in {NoTask, t}
  /\ async[t] = "ok" => out[t] = t
  /\ async[t] # "notified" => notified[t] = <<>>
  /\ notified[t] = <<"ok">> => out[t] = t
  /\ ~Info[t].async /\ status[t] = "ok" => out[t] = t

TaskInv(t) ==
  HasCache(t) /\ HasEntry(t) /\ HasContext(t) /\ HasData(t) /\ IsAsync(t) /\ HasShape(t)

\* The inductive invariant: who may work in which context follows from the order
\* of the streams and from what the caches hold.
IInv == TypeOK /\ MapsSound /\ CachesSound /\ StreamOrder /\ \A t \in Tasks : TaskInv(t)

\* What a step of t leaves of the others, and of what has been made so far.
Frame(t) ==
  /\ \A u \in Tasks \ {t} :
       /\ pc'[u] = pc[u] /\ status'[u] = status[u] /\ mine'[u] = mine[u] /\ raw'[u] = raw[u]
       /\ ctx'[u] = ctx[u] /\ out'[u] = out[u] /\ async'[u] = async[u]
       /\ notified'[u] = notified[u]
  /\ \A key \in BOOLEAN \X Ids : maps[key] # 0 => maps'[key] = maps[key]
  /\ \A u \in Tasks : ctx[u] # NoTask => ctx'[u] = ctx[u]
  /\ \A u \in Tasks : ctx[u] = u => ctxs'[u].block = ctxs[u].block
  /\ \A u \in Tasks \ {t} : Uses(u) => ctxs'[ctx[u]] = ctxs[ctx[u]]
  /\ \A u \in Tasks \ {t} :
       pc[u] = "hit" => \A k \in Kernels : \A d \in Tasks :
         k = Info[u].kernel /\ <<k, d>> \in Holding(caches[mine[u]]) =>
           <<k, d>> \in Holding(caches'[mine[u]])

USE DEF Tasks, NoTask, Kernels

\* The parameters of a task.
LEMMA InfoFacts ==
  ASSUME NEW t \in Tasks
  PROVE  /\ Info[t].stream \in Ids /\ Info[t].session \in Ids /\ Info[t].seq \in Nat
         /\ Info[t].has_sess_info \in BOOLEAN /\ Info[t].sess_flag \in BOOLEAN
         /\ Info[t].kernel \in Kernels /\ Info[t].async \in BOOLEAN
         /\ Info[t].blockNum \in Nat \ {0} /\ Info[t].blockId \in Nat
         /\ MapKey(t) \in BOOLEAN \X Ids /\ MapKey(t)[1] = Info[t].sess_flag
  BY InfoAssumption DEF InfoAssumption, Launches, MapKey

\* Tasks of one cache are of one scope.
LEMMA KeyIsScope ==
  ASSUME NEW t \in Tasks, NEW u \in Tasks, MapKey(t) = MapKey(u)
  PROVE  SameScope(t, u)
  BY DEF MapKey, SameScope

\* Two tasks that a stream has started and that are not through are blocks of
\* one launch.
LEMMA OneAtATime ==
  ASSUME IInv, NEW t \in Tasks, NEW u \in Tasks, t # u, Info[t].stream = Info[u].stream,
         pc[t] # "start", ~Complete(t), pc[u] # "start", ~Complete(u)
  PROVE  Blocks(t) /\ Blocks(u)
  <1>1. ~Before(t, u) /\ ~Before(u, t)
    BY DEF IInv, StreamOrder
  <1>2. Info[t].seq = Info[u].seq
    BY <1>1, InfoFacts DEF Before
  <1> QED BY <1>2, InfoAssumption DEF InfoAssumption, SameLaunch

\* So are two of one kernel in one scope.
LEMMA OneOfKernel ==
  ASSUME IInv, NEW t \in Tasks, NEW u \in Tasks, t # u, SameScope(t, u),
         Info[t].kernel = Info[u].kernel,
         pc[t] # "start", ~Complete(t), pc[u] # "start", ~Complete(u)
  PROVE  Blocks(t) /\ Blocks(u)
  <1>1. Info[t].stream = Info[u].stream
    BY InfoAssumption DEF InfoAssumption
  <1> QED BY <1>1, OneAtATime

\* A task that works in a context has been started and is not through.
LEMMA UsesIsLive ==
  ASSUME IInv, NEW t \in Tasks, Uses(t)
  PROVE  pc[t] # "start" /\ ~Complete(t) /\ ctx[t] \in Tasks
  BY NullAssumption DEF IInv, TypeOK, TaskInv, IsAsync, HasContext, Uses, Complete

\* Two launches, or two blocks of one, never work in one context at once.
LEMMA Isolated == IInv => ContextIsolation
  <1> SUFFICES ASSUME IInv, NEW t \in Tasks, NEW u \in Tasks, t # u, Uses(t), Uses(u),
                      ctx[t] = ctx[u]
               PROVE  FALSE
    BY DEF ContextIsolation
  <1>1. /\ pc[t] # "start" /\ ~Complete(t) /\ ctx[t] \in Tasks
        /\ pc[u] # "start" /\ ~Complete(u) /\ ctx[u] \in Tasks
    BY UsesIsLive
  <1>2. HasContext(t) /\ HasContext(u)
    BY DEF IInv, TaskInv
  <1>3. ctx[t] = t \/ /\ ~Blocks(t) /\ SameScope(t, ctx[t])
                      /\ Info[ctx[t]].kernel = Info[t].kernel
    BY <1>1, <1>2, NullAssumption DEF HasContext
  <1>4. ctx[u] = u \/ /\ ~Blocks(u) /\ SameScope(u, ctx[u])
                      /\ Info[ctx[u]].kernel = Info[u].kernel
    BY <1>1, <1>2, NullAssumption DEF HasContext
  <1>5. SameScope(t, u) /\ Info[t].kernel = Info[u].kernel /\ (~Blocks(t) \/ ~Blocks(u))
    BY <1>3, <1>4 DEF SameScope
  <1> QED BY <1>1, <1>5, OneOfKernel

\* Every other task keeps its part of the invariant.
LEMMA OtherTask ==
  ASSUME IInv, NEW t \in Tasks, Frame(t), NEW u \in Tasks, u # t
  PROVE  TaskInv(u)'
  <1>0. TypeOK /\ TaskInv(u)
    BY DEF IInv
  <1>1. /\ pc'[u] = pc[u] /\ status'[u] = status[u] /\ mine'[u] = mine[u] /\ raw'[u] = raw[u]
        /\ ctx'[u] = ctx[u] /\ out'[u] = out[u] /\ async'[u] = async[u]
        /\ notified'[u] = notified[u]
    BY DEF Frame
  <1>2. HasCache(u)'
    BY <1>0, <1>1, InfoFacts DEF TaskInv, HasCache, Frame
  <1>3. HasEntry(u)'
    <2> SUFFICES ASSUME pc[u] = "hit"
                 PROVE  UsesCache(u) /\ <<Info[u].kernel, raw[u]>> \in Holding(caches'[mine[u]])
      BY <1>1 DEF HasEntry, UsesCache, Blocks
    <2>1. UsesCache(u) /\ <<Info[u].kernel, raw[u]>> \in Holding(caches[mine[u]])
      BY <1>0 DEF TaskInv, HasEntry
    <2>2. raw[u] \in Tasks
      <3>1. mine[u] = maps[MapKey(u)] /\ mine[u] # 0
        BY <1>0, <2>1 DEF TaskInv, HasCache, UsesCache
      <3>2. mine[u] \in 1 .. Len(caches) /\ caches \in Seq(Caches)
        BY <1>0, <3>1, InfoFacts DEF IInv, TypeOK, MapsSound
      <3>3. caches[mine[u]] \in Caches
        BY <3>2
      <3>4. Holding(caches[mine[u]]) \in SUBSET (Keys \X Data)
        BY <3>3, HoldingFacts
      <3> QED BY <2>1, <3>4
    <2> QED BY <2>1, <2>2, InfoFacts DEF Frame
  <1>4. HasContext(u)'
    <2>1. ctx[u] # NoTask => ctx[u] \in Tasks
      BY <1>0 DEF TypeOK
    <2>2. ctx[u] \notin {u, NoTask} => ctx'[ctx[u]] = ctx[u]
      BY <1>0, <2>1, NullAssumption DEF TaskInv, HasContext, Frame
    <2>3. ctx[u] = u => ctxs'[u].block = ctxs[u].block
      BY DEF Frame
    <2> QED BY <1>0, <1>1, <2>2, <2>3 DEF TaskInv, HasContext, SameScope, Blocks
  <1>5. HasData(u)'
    <2>1. Uses(u) => ctxs'[ctx[u]] = ctxs[ctx[u]]
      BY DEF Frame
    <2> QED BY <1>0, <1>1, <2>1 DEF TaskInv, HasData, Uses
  <1>6. IsAsync(u)' /\ HasShape(u)'
    BY <1>0, <1>1 DEF TaskInv, IsAsync, HasShape
  <1> QED BY <1>2, <1>3, <1>4, <1>5, <1>6 DEF TaskInv

\* A step of t is not taken once it is through, nor begun before its turn.
LEMMA InTurn ==
  ASSUME NEW t \in Tasks, Run(t) \/ RunAsync(t), IInv
  PROVE  ~Complete(t) /\ (pc[t] = "start" => Ready(t))
  <1>0. IsAsync(t)
    BY DEF IInv, TaskInv
  <1>1. CASE Run(t)
    BY <1>1 DEF Run, Reject, RunDirectly, GetOrCreateKernelCache, LookUp, SkipLookUp, UseCached,
        CreateContext, CreateFails, UpdateInputs, UpdateOutputs, RunCpuKernel,
        UpdateFWKOutputShape, RunCpuKernelAsync, ReturnLaunched, Complete, Ready
  <1>2. CASE RunAsync(t)
    BY <1>0, <1>2 DEF RunAsync, AsyncCompute, AsyncCallback, NotifyWait, Complete, IsAsync
  <1> QED BY <1>1, <1>2

\* A stream starts a task when those before it are through, and these stay so.
LEMMA OrderStep ==
  ASSUME NEW t \in Tasks, Run(t) \/ RunAsync(t), IInv, Frame(t)
  PROVE  StreamOrder'
  <1> SUFFICES ASSUME NEW v \in Tasks, NEW u \in Tasks, Before(u, v), pc'[v] # "start"
               PROVE  Complete(u)'
    BY DEF StreamOrder, Before
  <1>1. Complete(u)
    <2>1. CASE pc[v] # "start"
      BY <2>1 DEF IInv, StreamOrder
    <2>2. CASE pc[v] = "start"
      <3>1. v = t
        BY <2>2 DEF Frame
      <3> QED BY <2>2, <3>1, InTurn DEF Ready
    <2> QED BY <2>1, <2>2
  <1>2. u # t
    BY <1>1, InTurn
  <1> QED BY <1>1, <1>2 DEF Frame, Complete

\* It is enough to look at the task that takes the step.
LEMMA StepSuffices ==
  ASSUME NEW t \in Tasks, Run(t) \/ RunAsync(t), IInv, Frame(t), TypeOK', MapsSound',
         CachesSound', TaskInv(t)'
  PROVE  IInv'
  BY OtherTask, OrderStep DEF IInv

\* As long as the maps and the caches stay as they are, so does what they hold.
LEMMA CachesAlone ==
  ASSUME IInv, caches' = caches, maps' = maps,
         \A u \in Tasks : ctx[u] # NoTask => ctx'[u] = ctx[u]
  PROVE  MapsSound' /\ CachesSound'
  <1>1. MapsSound'
    BY DEF IInv, MapsSound
  <1>2. CachesSound'
    <2> SUFFICES ASSUME NEW i \in 1 .. Len(caches), NEW e \in Holding(caches[i])
                 PROVE  ctx'[e[2]] = e[2]
      BY DEF IInv, CachesSound, MapKey
    <2>1. ctx[e[2]] = e[2]
      BY DEF IInv, CachesSound
    <2>2. e[2] \in Tasks
      <3>1. caches[i] \in Caches
        BY DEF IInv, TypeOK
      <3> QED BY <3>1, HoldingFacts
    <2> QED BY <2>1, <2>2, NullAssumption
  <1> QED BY <1>1, <1>2

\* A step that touches no cache and no context.
LEMMA QuietFrame ==
  ASSUME IInv, NEW t \in Tasks, UNCHANGED <<caches, maps, mine, raw, ctx, ctxs>>,
         \A u \in Tasks \ {t} :
           /\ pc'[u] = pc[u] /\ status'[u] = status[u] /\ out'[u] = out[u]
           /\ async'[u] = async[u] /\ notified'[u] = notified[u]
  PROVE  Frame(t) /\ MapsSound' /\ CachesSound'
  BY CachesAlone DEF Frame

\* Parameters refused before anything is looked up: no trace is left.
LEMMA RejectStep ==
  ASSUME IInv, NEW t \in Tasks, Reject(t)
  PROVE  IInv'
  <1>0. TypeOK /\ TaskInv(t)
    BY DEF IInv
  <1>1. Frame(t) /\ MapsSound' /\ CachesSound'
    BY <1>0, QuietFrame DEF Reject, Goto, Return, Fail, TypeOK
  <1>2. TypeOK'
    BY <1>0 DEF Reject, Goto, Return, Fail, TypeOK, Early, Late
  <1>3. TaskInv(t)'
    BY <1>0 DEF Reject, Goto, Return, Fail, TypeOK, Early, Late, Ready,
        UsesCache, Blocks, SameScope,
        TaskInv, HasCache, HasEntry, HasContext, HasData, IsAsync, HasShape
  <1> QED BY <1>1, <1>2, <1>3, StepSuffices DEF Run, RunAsync

\* Without session info a task needs no shared cache.
LEMMA RunDirectlyStep ==
  ASSUME IInv, NEW t \in Tasks, RunDirectly(t)
  PROVE  IInv'
  <1>0. TypeOK /\ TaskInv(t)
    BY DEF IInv
  <1>1. Frame(t) /\ MapsSound' /\ CachesSound'
    BY <1>0, QuietFrame DEF RunDirectly, Goto, Return, Fail, TypeOK
  <1>2. TypeOK'
    BY <1>0 DEF RunDirectly, Goto, Return, Fail, TypeOK, Early, Late
  <1>3. TaskInv(t)'
    BY <1>0 DEF RunDirectly, Goto, Return, Fail, TypeOK, Early, Late, Ready,
        UsesCache, Blocks, SameScope,
        TaskInv, HasCache, HasEntry, HasContext, HasData, IsAsync, HasShape
  <1> QED BY <1>1, <1>2, <1>3, StepSuffices DEF Run, RunAsync

\* Blocks, and tasks without session info, go straight to a new context.
LEMMA SkipLookUpStep ==
  ASSUME IInv, NEW t \in Tasks, SkipLookUp(t)
  PROVE  IInv'
  <1>0. TypeOK /\ TaskInv(t)
    BY DEF IInv
  <1>1. Frame(t) /\ MapsSound' /\ CachesSound'
    BY <1>0, QuietFrame DEF SkipLookUp, Goto, Return, Fail, TypeOK
  <1>2. TypeOK'
    BY <1>0 DEF SkipLookUp, Goto, Return, Fail, TypeOK, Early, Late
  <1>3. TaskInv(t)'
    BY <1>0 DEF SkipLookUp, Goto, Return, Fail, TypeOK, Early, Late, Ready,
        UsesCache, Blocks, SameScope,
        TaskInv, HasCache, HasEntry, HasContext, HasData, IsAsync, HasShape
  <1> QED BY <1>1, <1>2, <1>3, StepSuffices DEF Run, RunAsync

\* A context that cannot be made is put in no cache.
LEMMA CreateFailsStep ==
  ASSUME IInv, NEW t \in Tasks, CreateFails(t)
  PROVE  IInv'
  <1>0. TypeOK /\ TaskInv(t)
    BY DEF IInv
  <1>1. Frame(t) /\ MapsSound' /\ CachesSound'
    BY <1>0, QuietFrame DEF CreateFails, Goto, Return, Fail, TypeOK
  <1>2. TypeOK'
    BY <1>0 DEF CreateFails, Goto, Return, Fail, TypeOK, Early, Late
  <1>3. TaskInv(t)'
    BY <1>0 DEF CreateFails, Goto, Return, Fail, TypeOK, Early, Late, Ready,
        UsesCache, Blocks, SameScope,
        TaskInv, HasCache, HasEntry, HasContext, HasData, IsAsync, HasShape
  <1> QED BY <1>1, <1>2, <1>3, StepSuffices DEF Run, RunAsync

\* The shapes a task reads from its context are its own.
LEMMA UpdateFWKOutputShapeStep ==
  ASSUME IInv, NEW t \in Tasks, UpdateFWKOutputShape(t)
  PROVE  IInv'
  <1>0. TypeOK /\ TaskInv(t)
    BY DEF IInv
  <1>1. Frame(t) /\ MapsSound' /\ CachesSound'
    BY <1>0, QuietFrame DEF UpdateFWKOutputShape, Goto, Return, Fail, TypeOK
  <1>4. ctxs[ctx[t]].shape = t
    BY <1>0 DEF UpdateFWKOutputShape, TaskInv, HasData
  <1>5. out' \in [Tasks -> Tasks \cup {NoTask}]
    <2>1. out' = out \/ out' = [out EXCEPT ![t] = t]
      BY <1>4 DEF UpdateFWKOutputShape
    <2>2. out \in [Tasks -> Tasks \cup {NoTask}]
      BY <1>0 DEF TypeOK
    <2> QED BY <2>1, <2>2
  <1>2. TypeOK'
    BY <1>0, <1>5 DEF UpdateFWKOutputShape, Goto, Return, Fail, TypeOK, Early, Late
  <1>3. TaskInv(t)'
    BY <1>0 DEF UpdateFWKOutputShape, Goto, Return, Fail, TypeOK, Early, Late, Ready,
        UsesCache, Blocks, SameScope,
        TaskInv, HasCache, HasEntry, HasContext, HasData, IsAsync, HasShape
  <1> QED BY <1>1, <1>2, <1>3, StepSuffices DEF Run, RunAsync

\* An asynchronous computation starts on the data of its task.
LEMMA RunCpuKernelAsyncStep ==
  ASSUME IInv, NEW t \in Tasks, RunCpuKernelAsync(t)
  PROVE  IInv'
  <1>0. TypeOK /\ TaskInv(t)
    BY DEF IInv
  <1>1. Frame(t) /\ MapsSound' /\ CachesSound'
    BY <1>0, QuietFrame DEF RunCpuKernelAsync, Goto, Return, Fail, TypeOK
  <1>2. TypeOK'
    BY <1>0 DEF RunCpuKernelAsync, Goto, Return, Fail, TypeOK, Early, Late
  <1>3. TaskInv(t)'
    BY <1>0 DEF RunCpuKernelAsync, Goto, Return, Fail, TypeOK, Early, Late, Ready,
        UsesCache, Blocks, SameScope,
        TaskInv, HasCache, HasEntry, HasContext, HasData, IsAsync, HasShape
  <1> QED BY <1>1, <1>2, <1>3, StepSuffices DEF Run, RunAsync

\* The thread of an asynchronous launch returns; the context is still in use.
LEMMA ReturnLaunchedStep ==
  ASSUME IInv, NEW t \in Tasks, ReturnLaunched(t)
  PROVE  IInv'
  <1>0. TypeOK /\ TaskInv(t)
    BY DEF IInv
  <1>1. Frame(t) /\ MapsSound' /\ CachesSound'
    BY <1>0, QuietFrame DEF ReturnLaunched, Goto, Return, Fail, TypeOK
  <1>2. TypeOK'
    BY <1>0 DEF ReturnLaunched, Goto, Return, Fail, TypeOK, Early, Late
  <1>3. TaskInv(t)'
    BY <1>0 DEF ReturnLaunched, Goto, Return, Fail, TypeOK, Early, Late, Ready,
        UsesCache, Blocks, SameScope,
        TaskInv, HasCache, HasEntry, HasContext, HasData, IsAsync, HasShape
  <1> QED BY <1>1, <1>2, <1>3, StepSuffices DEF Run, RunAsync

\* The callback reads the shapes of its own computation.
LEMMA AsyncCallbackStep ==
  ASSUME IInv, NEW t \in Tasks, AsyncCallback(t)
  PROVE  IInv'
  <1>0. TypeOK /\ TaskInv(t)
    BY DEF IInv
  <1>1. Frame(t) /\ MapsSound' /\ CachesSound'
    BY <1>0, QuietFrame DEF AsyncCallback, Goto, Return, Fail, TypeOK
  <1>4. ctxs[ctx[t]].shape = t
    BY <1>0 DEF AsyncCallback, TaskInv, HasData
  <1>5. out' \in [Tasks -> Tasks \cup {NoTask}]
    <2>1. out' = out \/ out' = [out EXCEPT ![t] = t]
      BY <1>4 DEF AsyncCallback
    <2>2. out \in [Tasks -> Tasks \cup {NoTask}]
      BY <1>0 DEF TypeOK
    <2> QED BY <2>1, <2>2
  <1>2. TypeOK'
    BY <1>0, <1>5 DEF AsyncCallback, Goto, Return, Fail, TypeOK, Early, Late
  <1>3. TaskInv(t)'
    BY <1>0 DEF AsyncCallback, Goto, Return, Fail, TypeOK, Early, Late, Ready,
        UsesCache, Blocks, SameScope,
        TaskInv, HasCache, HasEntry, HasContext, HasData, IsAsync, HasShape
  <1> QED BY <1>1, <1>2, <1>3, StepSuffices DEF Run, RunAsync

\* One notification, with the status of the callback.
LEMMA NotifyWaitStep ==
  ASSUME IInv, NEW t \in Tasks, NotifyWait(t)
  PROVE  IInv'
  <1>0. TypeOK /\ TaskInv(t)
    BY DEF IInv
  <1>1. Frame(t) /\ MapsSound' /\ CachesSound'
    BY <1>0, QuietFrame DEF NotifyWait, Goto, Return, Fail, TypeOK
  <1>2. TypeOK'
    BY <1>0 DEF NotifyWait, Goto, Return, Fail, TypeOK, Early, Late
  <1>4. /\ notified'[t] = <<async[t]>> /\ async'[t] = "notified"
        /\ async[t] = "ok" => out[t] = t
    <2>1. notified[t] = <<>> /\ Append(<<>>, async[t]) = <<async[t]>>
      BY <1>0 DEF NotifyWait, TaskInv, HasShape
    <2> QED BY <1>0, <2>1 DEF NotifyWait, TypeOK, TaskInv, HasShape
  <1>5. <<async[t]>> = <<"ok">> => async[t] = "ok"
    OBVIOUS
  <1>3. TaskInv(t)'
    BY <1>0, <1>4, <1>5 DEF NotifyWait, Goto, Return, Fail, TypeOK, Early, Late, Ready,
        UsesCache, Blocks, SameScope,
        TaskInv, HasCache, HasEntry, HasContext, HasData, IsAsync, HasShape
  <1> QED BY <1>1, <1>2, <1>3, StepSuffices DEF Run, RunAsync

\* A step of t writes to the context it works in: to no other's, to no block.
LEMMA WriteFrame ==
  ASSUME IInv, NEW t \in Tasks, Uses(t), UNCHANGED <<caches, maps, mine, raw, ctx, out, notified>>,
         \A u \in Tasks \ {t} : pc'[u] = pc[u] /\ status'[u] = status[u] /\ async'[u] = async[u],
         \A c \in Tasks \ {ctx[t]} : ctxs'[c] = ctxs[c],
         ctxs'[ctx[t]].block = ctxs[ctx[t]].block
  PROVE  Frame(t) /\ MapsSound' /\ CachesSound'
  <1>1. \A u \in Tasks \ {t} : Uses(u) => ctx[u] \in Tasks \ {ctx[t]}
    BY Isolated, UsesIsLive DEF ContextIsolation
  <1>2. \A u \in Tasks \ {t} : Uses(u) => ctxs'[ctx[u]] = ctxs[ctx[u]]
    BY <1>1
  <1> QED BY <1>2, CachesAlone DEF Frame

\* A field of a context written: it is a context still.
LEMMA ContextWritten ==
  ASSUME ctxs \in [Tasks -> Contexts], NEW c \in Tasks, NEW v \in Tasks \cup {NoTask}
  PROVE  /\ [ctxs EXCEPT ![c].inputs = v] \in [Tasks -> Contexts]
         /\ [ctxs EXCEPT ![c].outputs = v] \in [Tasks -> Contexts]
         /\ [ctxs EXCEPT ![c].shape = v] \in [Tasks -> Contexts]
  <1>1. ctxs[c] \in Contexts
    OBVIOUS
  <1>2. /\ [ctxs[c] EXCEPT !.inputs = v] \in Contexts
        /\ [ctxs[c] EXCEPT !.outputs = v] \in Contexts
        /\ [ctxs[c] EXCEPT !.shape = v] \in Contexts
    BY <1>1 DEF Contexts
  <1> QED BY <1>2

\* Inputs are written to a context nobody else works in, torn ones too.
LEMMA UpdateInputsStep ==
  ASSUME IInv, NEW t \in Tasks, UpdateInputs(t)
  PROVE  IInv'
  <1>0. TypeOK /\ TaskInv(t) /\ Uses(t)
    BY DEF IInv, UpdateInputs, Uses
  <1>1. ctx[t] \in Tasks
    BY <1>0, UsesIsLive
  <1>2. Frame(t) /\ MapsSound' /\ CachesSound'
    <2>1. /\ \A c \in Tasks \ {ctx[t]} : ctxs'[c] = ctxs[c]
          /\ ctxs'[ctx[t]].block = ctxs[ctx[t]].block
      BY <1>0, <1>1 DEF UpdateInputs, TypeOK, Contexts
    <2> QED BY <1>0, <2>1, WriteFrame DEF UpdateInputs, Goto, Return, Fail, TypeOK
  <1>3. TypeOK'
    <2>1. ctxs[ctx[t]].inputs \in Tasks \cup {NoTask}
      BY <1>0, <1>1 DEF TypeOK, Contexts
    <2>2. ctxs' \in [Tasks -> Contexts]
      <3>1. \/ ctxs' = ctxs
            \/ \E c \in Tasks : \E v \in Tasks \cup {NoTask} : ctxs' = [ctxs EXCEPT ![c].inputs = v]
        BY <1>1, <2>1 DEF UpdateInputs
      <3>2. ctxs \in [Tasks -> Contexts]
        BY <1>0 DEF TypeOK
      <3>3. ASSUME NEW c \in Tasks, NEW v \in Tasks \cup {NoTask},
                   ctxs' = [ctxs EXCEPT ![c].inputs = v]
            PROVE  ctxs' \in [Tasks -> Contexts]
        <4>1. [ctxs EXCEPT ![c].inputs = v] \in [Tasks -> Contexts]
          BY <3>2, ContextWritten
        <4> QED BY <3>3, <4>1
      <3> QED BY <3>1, <3>2, <3>3
    <2> QED BY <1>0, <2>2 DEF UpdateInputs, Goto, Return, Fail, TypeOK, Early, Late
  <1>4. TaskInv(t)'
    BY <1>0, <1>1 DEF UpdateInputs, Goto, Return, Fail, TypeOK, Contexts, Early, Late, UsesCache,
        Blocks, TaskInv, HasCache, HasEntry, HasContext, HasData, IsAsync, HasShape, SameScope
  <1> QED BY <1>2, <1>3, <1>4, StepSuffices DEF Run, RunAsync

\* Outputs are written to a context nobody else works in.
LEMMA UpdateOutputsStep ==
  ASSUME IInv, NEW t \in Tasks, UpdateOutputs(t)
  PROVE  IInv'
  <1>0. TypeOK /\ TaskInv(t) /\ Uses(t)
    BY DEF IInv, UpdateOutputs, Uses
  <1>1. ctx[t] \in Tasks
    BY <1>0, UsesIsLive
  <1>2. Frame(t) /\ MapsSound' /\ CachesSound'
    <2>1. /\ \A c \in Tasks \ {ctx[t]} : ctxs'[c] = ctxs[c]
          /\ ctxs'[ctx[t]].block = ctxs[ctx[t]].block
      BY <1>0, <1>1 DEF UpdateOutputs, TypeOK, Contexts
    <2> QED BY <1>0, <2>1, WriteFrame DEF UpdateOutputs, Goto, Return, Fail, TypeOK
  <1>3. TypeOK'
    <2>1. ctxs' \in [Tasks -> Contexts]
      <3>1. \/ ctxs' = ctxs
            \/ \E c \in Tasks : \E v \in Tasks \cup {NoTask} : ctxs' = [ctxs EXCEPT ![c].outputs = v]
        BY <1>1 DEF UpdateOutputs
      <3>2. ctxs \in [Tasks -> Contexts]
        BY <1>0 DEF TypeOK
      <3>3. ASSUME NEW c \in Tasks, NEW v \in Tasks \cup {NoTask},
                   ctxs' = [ctxs EXCEPT ![c].outputs = v]
            PROVE  ctxs' \in [Tasks -> Contexts]
        <4>1. [ctxs EXCEPT ![c].outputs = v] \in [Tasks -> Contexts]
          BY <3>2, ContextWritten
        <4> QED BY <3>3, <4>1
      <3> QED BY <3>1, <3>2, <3>3
    <2> QED BY <1>0, <2>1 DEF UpdateOutputs, Goto, Return, Fail, TypeOK, Early, Late
  <1>4. TaskInv(t)'
    BY <1>0, <1>1 DEF UpdateOutputs, Goto, Return, Fail, TypeOK, Contexts, Early, Late, UsesCache,
        Blocks, TaskInv, HasCache, HasEntry, HasContext, HasData, IsAsync, HasShape, SameScope
  <1> QED BY <1>2, <1>3, <1>4, StepSuffices DEF Run, RunAsync

\* A computation leaves its shapes in the context of its task.
LEMMA RunCpuKernelStep ==
  ASSUME IInv, NEW t \in Tasks, RunCpuKernel(t)
  PROVE  IInv'
  <1>0. TypeOK /\ TaskInv(t) /\ Uses(t)
    BY DEF IInv, RunCpuKernel, Uses
  <1>1. ctx[t] \in Tasks
    BY <1>0, UsesIsLive
  <1>2. Frame(t) /\ MapsSound' /\ CachesSound'
    <2>1. /\ \A c \in Tasks \ {ctx[t]} : ctxs'[c] = ctxs[c]
          /\ ctxs'[ctx[t]].block = ctxs[ctx[t]].block
      BY <1>0, <1>1 DEF RunCpuKernel, TypeOK, Contexts
    <2> QED BY <1>0, <2>1, WriteFrame DEF RunCpuKernel, Goto, Return, Fail, TypeOK
  <1>3. TypeOK'
    <2>1. ctxs' \in [Tasks -> Contexts]
      <3>1. \/ ctxs' = ctxs
            \/ \E c \in Tasks : \E v \in Tasks \cup {NoTask} : ctxs' = [ctxs EXCEPT ![c].shape = v]
        BY <1>1 DEF RunCpuKernel
      <3>2. ctxs \in [Tasks -> Contexts]
        BY <1>0 DEF TypeOK
      <3>3. ASSUME NEW c \in Tasks, NEW v \in Tasks \cup {NoTask},
                   ctxs' = [ctxs EXCEPT ![c].shape = v]
            PROVE  ctxs' \in [Tasks -> Contexts]
        <4>1. [ctxs EXCEPT ![c].shape = v] \in [Tasks -> Contexts]
          BY <3>2, ContextWritten
        <4> QED BY <3>3, <4>1
      <3> QED BY <3>1, <3>2, <3>3
    <2> QED BY <1>0, <2>1 DEF RunCpuKernel, Goto, Return, Fail, TypeOK, Early, Late
  <1>4. TaskInv(t)'
    BY <1>0, <1>1 DEF RunCpuKernel, Goto, Return, Fail, TypeOK, Contexts, Early, Late, UsesCache,
        Blocks, TaskInv, HasCache, HasEntry, HasContext, HasData, IsAsync, HasShape, SameScope
  <1> QED BY <1>2, <1>3, <1>4, StepSuffices DEF Run, RunAsync

\* An asynchronous computation, when the thread may have returned, does too.
LEMMA AsyncComputeStep ==
  ASSUME IInv, NEW t \in Tasks, AsyncCompute(t)
  PROVE  IInv'
  <1>0. TypeOK /\ TaskInv(t) /\ Uses(t)
    BY DEF IInv, AsyncCompute, Uses
  <1>1. ctx[t] \in Tasks
    BY <1>0, UsesIsLive
  <1>2. Frame(t) /\ MapsSound' /\ CachesSound'
    <2>1. /\ \A c \in Tasks \ {ctx[t]} : ctxs'[c] = ctxs[c]
          /\ ctxs'[ctx[t]].block = ctxs[ctx[t]].block
      BY <1>0, <1>1 DEF AsyncCompute, TypeOK, Contexts
    <2> QED BY <1>0, <2>1, WriteFrame DEF AsyncCompute, Goto, Return, Fail, TypeOK
  <1>3. TypeOK'
    <2>1. ctxs' \in [Tasks -> Contexts]
      <3>1. \/ ctxs' = ctxs
            \/ \E c \in Tasks : \E v \in Tasks \cup {NoTask} : ctxs' = [ctxs EXCEPT ![c].shape = v]
        BY <1>1 DEF AsyncCompute
      <3>2. ctxs \in [Tasks -> Contexts]
        BY <1>0 DEF TypeOK
      <3>3. ASSUME NEW c \in Tasks, NEW v \in Tasks \cup {NoTask},
                   ctxs' = [ctxs EXCEPT ![c].shape = v]
            PROVE  ctxs' \in [Tasks -> Contexts]
        <4>1. [ctxs EXCEPT ![c].shape = v] \in [Tasks -> Contexts]
          BY <3>2, ContextWritten
        <4> QED BY <3>3, <4>1
      <3> QED BY <3>1, <3>2, <3>3
    <2> QED BY <1>0, <2>1 DEF AsyncCompute, Goto, Return, Fail, TypeOK, Early, Late
  <1>4. TaskInv(t)'
    BY <1>0, <1>1 DEF AsyncCompute, Goto, Return, Fail, TypeOK, Contexts, Early, Late, UsesCache,
        Blocks, TaskInv, HasCache, HasEntry, HasContext, HasData, IsAsync, HasShape, SameScope
  <1> QED BY <1>2, <1>3, <1>4, StepSuffices DEF Run, RunAsync

\* A task that has found an entry: the entry is there, and is for its kernel, in
\* its scope, by another task.
LEMMA HitFacts ==
  ASSUME IInv, NEW t \in Tasks, pc[t] = "hit"
  PROVE  /\ raw[t] \in Tasks /\ raw[t] # t /\ ctx[raw[t]] = raw[t]
         /\ SameScope(t, raw[t]) /\ Info[raw[t]].kernel = Info[t].kernel /\ ~Blocks(t)
         /\ mine[t] \in 1 .. Len(caches) /\ mine[t] = maps[MapKey(t)]
         /\ <<Info[t].kernel, raw[t]>> \in Holding(caches[mine[t]])
  <1>1. UsesCache(t) /\ <<Info[t].kernel, raw[t]>> \in Holding(caches[mine[t]])
    BY DEF IInv, TaskInv, HasEntry
  <1>2. mine[t] # 0 /\ mine[t] = maps[MapKey(t)]
    BY <1>1 DEF IInv, TaskInv, HasCache, UsesCache
  <1>3. mine[t] \in 1 .. Len(caches) /\ caches[mine[t]] \in Caches
    BY <1>2, InfoFacts DEF IInv, TypeOK, MapsSound
  <1>4. raw[t] \in Tasks
    BY <1>1, <1>3, HoldingFacts
  <1>5. /\ Info[raw[t]].kernel = Info[t].kernel /\ maps[MapKey(raw[t])] = mine[t]
        /\ ctx[raw[t]] = raw[t]
    BY <1>1, <1>3 DEF IInv, CachesSound
  <1>6. MapKey(raw[t]) = MapKey(t)
    BY <1>2, <1>4, <1>5, InfoFacts DEF IInv, MapsSound
  <1>7. SameScope(t, raw[t])
    BY <1>4, <1>6, KeyIsScope
  <1>8. raw[t] # t
    BY <1>4, <1>5, NullAssumption DEF IInv, TaskInv, HasContext, Late
  <1> QED BY <1>1, <1>2, <1>3, <1>4, <1>5, <1>7, <1>8 DEF UsesCache

\* After a hit the task works in the context of an earlier task of its kernel, in
\* its scope, which is through.
LEMMA UseCachedStep ==
  ASSUME IInv, NEW t \in Tasks, UseCached(t)
  PROVE  IInv'
  <1>0. TypeOK /\ TaskInv(t) /\ pc[t] = "hit"
    BY DEF IInv, UseCached
  <1>1. /\ raw[t] \in Tasks /\ raw[t] # t /\ ctx[raw[t]] = raw[t]
        /\ SameScope(t, raw[t]) /\ Info[raw[t]].kernel = Info[t].kernel /\ ~Blocks(t)
    BY <1>0, HitFacts
  <1>2. ctx[t] = NoTask
    BY <1>0 DEF TaskInv, HasContext, Late
  <1>3. Frame(t) /\ MapsSound' /\ CachesSound'
    <2>1. \A u \in Tasks : ctx[u] # NoTask => ctx'[u] = ctx[u]
      BY <1>0, <1>2 DEF UseCached, TypeOK
    <2> QED BY <1>0, <2>1, CachesAlone DEF UseCached, Goto, Frame, TypeOK
  <1>4. TypeOK'
    BY <1>0, <1>1 DEF UseCached, Goto, TypeOK, Early, Late
  <1>5. TaskInv(t)'
    <2>1. /\ ctx'[t] = raw[t] /\ ctx'[raw[t]] = raw[t] /\ pc'[t] = "inputs"
          /\ UNCHANGED <<status, out, async, notified>> /\ async[t] = "none"
      BY <1>0, <1>1 DEF UseCached, Goto, TypeOK, TaskInv, IsAsync
    <2>2. HasContext(t)'
      BY <1>1, <2>1, NullAssumption DEF HasContext, Late, SameScope, Blocks
    <2> QED BY <1>0, <2>1, <2>2 DEF TaskInv, HasCache, HasEntry, HasData, IsAsync, HasShape
  <1> QED BY <1>3, <1>4, <1>5, StepSuffices DEF Run

\* The cache of a task.
LEMMA MineFacts ==
  ASSUME IInv, NEW t \in Tasks, pc[t] \in {"context", "hit", "create"}, Info[t].has_sess_info
  PROVE  /\ mine[t] \in 1 .. Len(caches) /\ mine[t] = maps[MapKey(t)]
         /\ caches[mine[t]] \in Caches /\ WellFormed(caches[mine[t]])
         /\ caches[mine[t]].sess_flag = Info[t].sess_flag
  <1>1. mine[t] # 0 /\ mine[t] = maps[MapKey(t)]
    BY DEF IInv, TaskInv, HasCache
  <1>2. mine[t] \in 1 .. Len(caches) /\ caches[mine[t]].sess_flag = Info[t].sess_flag
    BY <1>1, InfoFacts DEF IInv, TypeOK, MapsSound
  <1> QED BY <1>1, <1>2 DEF IInv, TypeOK, CachesSound

\* A cache that takes at most the pair of the task.
LEMMA CacheReplaced ==
  ASSUME IInv, NEW t \in Tasks, pc[t] \in {"context", "create"}, Info[t].has_sess_info,
         NEW q \in Caches, WellFormed(q), SameMode(caches[mine[t]], q),
         caches' = [caches EXCEPT ![mine[t]] = q], maps' = maps,
         \A u \in Tasks : ctx[u] # NoTask => ctx'[u] = ctx[u],
         \A e \in Holding(q) : \/ e \in Holding(caches[mine[t]])
                               \/ e = <<Info[t].kernel, t>> /\ ctx'[t] = t
  PROVE  MapsSound' /\ CachesSound' /\ caches' \in Seq(Caches)
  <1>0. TypeOK /\ MapsSound /\ CachesSound
    BY DEF IInv
  <1>1. /\ mine[t] \in 1 .. Len(caches) /\ mine[t] = maps[MapKey(t)]
        /\ caches[mine[t]] \in Caches
    BY MineFacts
  <1>2. /\ caches' \in Seq(Caches) /\ Len(caches') = Len(caches) /\ caches'[mine[t]] = q
        /\ \A i \in 1 .. Len(caches) : i # mine[t] => caches'[i] = caches[i]
    BY <1>0, <1>1 DEF TypeOK
  <1>3. MapsSound'
    <2>1. \A i \in 1 .. Len(caches) : caches'[i].sess_flag = caches[i].sess_flag
      BY <1>2 DEF SameMode
    <2>2. \A key \in BOOLEAN \X Ids : maps[key] \in 0 .. Len(caches) /\ Len(caches) \in Nat
      BY <1>0 DEF MapsSound, TypeOK
    <2> QED BY <1>0, <1>2, <2>1, <2>2 DEF MapsSound
  <1>4. CachesSound'
    <2>1. ASSUME NEW i \in 1 .. Len(caches), NEW e \in Holding(caches'[i])
          PROVE  \/ e \in Holding(caches[i])
                 \/ e = <<Info[t].kernel, t>> /\ ctx'[t] = t /\ i = mine[t]
      BY <1>2, <2>1
    <2>2. ASSUME NEW i \in 1 .. Len(caches), NEW e \in Holding(caches[i])
          PROVE  e[2] \in Tasks /\ ctx'[e[2]] = e[2]
      <3>1. e[2] \in Tasks
        <4>1. caches[i] \in Caches
          BY <1>0 DEF TypeOK
        <4> QED BY <4>1, HoldingFacts
      <3>2. ctx[e[2]] = e[2]
        BY <1>0 DEF CachesSound
      <3> QED BY <3>1, <3>2, NullAssumption
    <2>3. ASSUME NEW i \in 1 .. Len(caches) PROVE WellFormed(caches'[i])
      BY <1>0, <1>2 DEF CachesSound
    <2>4. ASSUME NEW i \in 1 .. Len(caches), NEW e \in Holding(caches'[i])
          PROVE  Info[e[2]].kernel = e[1] /\ maps[MapKey(e[2])] = i /\ ctx'[e[2]] = e[2]
      <3>1. CASE e \in Holding(caches[i])
        BY <1>0, <2>2, <3>1 DEF CachesSound
      <3>2. CASE e = <<Info[t].kernel, t>> /\ ctx'[t] = t /\ i = mine[t]
        BY <1>1, <3>2
      <3> QED BY <2>1, <3>1, <3>2
    <2> QED BY <1>2, <2>3, <2>4 DEF CachesSound, MapKey
  <1> QED BY <1>2, <1>3, <1>4

\* A lookup takes no entry away from a thread that has found it, though it may
\* move it; what it returns is for the kernel asked for.
LEMMA LookUpStep ==
  ASSUME IInv, NEW t \in Tasks, LookUp(t)
  PROVE  IInv'
  <1> DEFINE c == caches[mine[t]]
             k == Info[t].kernel
  <1>0. TypeOK /\ TaskInv(t) /\ pc[t] = "context" /\ UsesCache(t) /\ Info[t].has_sess_info
    BY DEF IInv, LookUp, UsesCache
  <1>1. mine[t] \in 1 .. Len(caches) /\ c \in Caches /\ WellFormed(c) /\ k \in Kernels
    BY <1>0, MineFacts, InfoFacts
  <1>2. PICK q \in AfterGet(c, k) : caches' = [caches EXCEPT ![mine[t]] = q]
    BY DEF LookUp
  <1>3. /\ raw' = [raw EXCEPT ![t] = GetResult(c, k)]
        /\ pc' = [pc EXCEPT ![t] = IF Found(c, k) THEN "hit" ELSE "create"]
        /\ UNCHANGED <<status, maps, mine, ctx, ctxs, out, async, notified>>
    BY DEF LookUp, Goto
  <1> HIDE DEF c, k
  <1>4. q \in Caches /\ WellFormed(q) /\ SameMode(c, q) /\ Holding(q) = Holding(c)
    BY <1>1, <1>2, GetKeeps
  <1>5. Found(c, k) => GetResult(c, k) \in Tasks /\ <<k, GetResult(c, k)>> \in Holding(c)
    BY <1>1, GetIsHeld, HoldingFacts
  <1>6. MapsSound' /\ CachesSound' /\ caches' \in Seq(Caches)
    <2>1. \A e \in Holding(q) : \/ e \in Holding(caches[mine[t]])
                                \/ e = <<Info[t].kernel, t>> /\ ctx'[t] = t
      BY <1>4 DEF c
    <2>2. SameMode(caches[mine[t]], q) /\ pc[t] \in {"context", "create"} /\ maps' = maps
      BY <1>0, <1>3, <1>4 DEF c
    <2>3. \A u \in Tasks : ctx[u] # NoTask => ctx'[u] = ctx[u]
      BY <1>3
    <2> QED BY <1>0, <1>2, <1>4, <2>1, <2>2, <2>3, CacheReplaced
  <1>7. \A i \in 1 .. Len(caches) : Holding(caches'[i]) = Holding(caches[i])
    BY <1>0, <1>1, <1>2, <1>4 DEF c, TypeOK
  <1>8. Frame(t)
    <2>1. \A u \in Tasks \ {t} : pc[u] = "hit" => mine[u] \in 1 .. Len(caches)
      BY HitFacts
    <2> QED BY <1>0, <1>3, <1>7, <2>1 DEF Frame, TypeOK
  <1>9. TypeOK'
    <2>1. GetResult(c, k) \in Tasks \cup {NoTask}
      BY <1>5 DEF GetResult
    <2> QED BY <1>0, <1>3, <1>6, <2>1 DEF TypeOK, Early, Late
  <1>10. TaskInv(t)'
    <2>1. /\ pc'[t] = (IF Found(c, k) THEN "hit" ELSE "create")
          /\ raw'[t] = GetResult(c, k) /\ caches'[mine[t]] = q
      BY <1>0, <1>1, <1>2, <1>3 DEF TypeOK
    <2>2. HasEntry(t)'
      BY <1>0, <1>3, <1>4, <1>5, <2>1 DEF HasEntry, UsesCache, Blocks, k
    <2>3. HasCache(t)'
      BY <1>0, <1>3 DEF TaskInv, HasCache, MapKey
    <2> QED BY <1>0, <1>3, <2>1, <2>2, <2>3
            DEF TaskInv, HasContext, HasData, IsAsync, HasShape, Late
  <1> QED BY <1>6, <1>8, <1>9, <1>10, StepSuffices DEF Run

\* A new context enters the task's cache. What it evicts or replaces no thread
\* is about to read: that would take another task of the stream, or of the kernel.
LEMMA CreateContextStep ==
  ASSUME IInv, NEW t \in Tasks, CreateContext(t)
  PROVE  IInv'
  <1> DEFINE c == caches[mine[t]]
             k == Info[t].kernel
  <1>0. TypeOK /\ TaskInv(t) /\ pc[t] = "create" /\ k \in Kernels
    BY InfoFacts DEF IInv, CreateContext
  <1>1. /\ ctx' = [ctx EXCEPT ![t] = t] /\ pc' = [pc EXCEPT ![t] = "inputs"]
        /\ ctxs' = [ctxs EXCEPT ![t] = NewContext(Info[t].blockId)]
        /\ UNCHANGED <<status, maps, mine, raw, out, async, notified>>
    BY DEF CreateContext, Goto
  <1>2. ctx[t] = NoTask /\ async[t] = "none"
    BY <1>0 DEF TaskInv, HasContext, IsAsync, Late
  <1>3. \A u \in Tasks : ctx[u] # NoTask => ctx'[u] = ctx[u]
    BY <1>0, <1>1, <1>2 DEF TypeOK
  <1>4. \A u \in Tasks : Uses(u) => ctx[u] # t
    <2> SUFFICES ASSUME NEW u \in Tasks, Uses(u), ctx[u] = t PROVE FALSE
      OBVIOUS
    <2>1. u # t
      BY <1>2, NullAssumption
    <2> QED BY <1>2, <2>1, NullAssumption DEF IInv, TaskInv, HasContext
  <1>5. /\ MapsSound' /\ CachesSound' /\ caches' \in Seq(Caches)
        /\ \A u \in Tasks \ {t} : pc[u] = "hit" => \A d \in Tasks :
             <<Info[u].kernel, d>> \in Holding(caches[mine[u]]) =>
               <<Info[u].kernel, d>> \in Holding(caches'[mine[u]])
    <2>1. CASE ~Info[t].has_sess_info
      <3>1. caches' = caches
        BY <2>1 DEF CreateContext
      <3> QED BY <1>0, <1>1, <1>3, <3>1, CachesAlone DEF TypeOK
    <2>2. CASE Info[t].has_sess_info
      <3>1. /\ mine[t] \in 1 .. Len(caches) /\ mine[t] = maps[MapKey(t)]
            /\ c \in Caches /\ WellFormed(c) /\ c.sess_flag = Info[t].sess_flag
        BY <1>0, <2>2, MineFacts
      <3>2. PICK q \in AfterSet(c, k, t) : caches' = [caches EXCEPT ![mine[t]] = q]
        BY <2>2 DEF CreateContext
      <3> HIDE DEF c, k
      <3>3. /\ q \in Caches /\ WellFormed(q) /\ SameMode(c, q)
            /\ Holding(q) \subseteq Holding(c) \cup {<<k, t>>}
            /\ c.sess_flag => \A e \in Holding(c) : e[1] # k => e \in Holding(q)
        BY <1>0, <3>1, <3>2, SetKeeps
      <3>4. ctx'[t] = t
        BY <1>0, <1>1 DEF TypeOK
      <3>5. MapsSound' /\ CachesSound' /\ caches' \in Seq(Caches)
        BY <1>0, <1>1, <1>3, <2>2, <3>2, <3>3, <3>4, CacheReplaced DEF c, k
      <3>6. ASSUME NEW u \in Tasks \ {t}, pc[u] = "hit", NEW d \in Tasks,
                   <<Info[u].kernel, d>> \in Holding(caches[mine[u]])
            PROVE  <<Info[u].kernel, d>> \in Holding(caches'[mine[u]])
        <4>1. mine[u] \in 1 .. Len(caches) /\ mine[u] = maps[MapKey(u)] /\ ~Blocks(u)
          BY <3>6, HitFacts
        <4>2. CASE mine[u] # mine[t]
          <5>1. caches'[mine[u]] = caches[mine[u]]
            BY <1>0, <3>2, <4>1, <4>2 DEF TypeOK
          <5> QED BY <3>6, <5>1
        <4>3. CASE mine[u] = mine[t]
          <5>1. SameScope(u, t)
            <6>1. MapKey(u) = MapKey(t)
              <7>1. maps[MapKey(u)] # 0 /\ maps[MapKey(u)] = maps[MapKey(t)]
                BY <3>1, <4>1, <4>3
              <7>2. MapKey(u) \in BOOLEAN \X Ids /\ MapKey(t) \in BOOLEAN \X Ids
                BY InfoFacts
              <7> QED BY <7>1, <7>2 DEF IInv, MapsSound
            <6> QED BY <6>1, KeyIsScope
          <5>2. pc[u] # "start" /\ ~Complete(u) /\ pc[t] # "start" /\ ~Complete(t)
            BY <1>0, <3>6 DEF Complete
          <5>3. Info[u].kernel # k
            BY <4>1, <5>1, <5>2, OneOfKernel DEF k
          <5>4. c.sess_flag
            BY <3>1, <4>1, <5>1, <5>2, OneAtATime, InfoFacts DEF SameScope
          <5>5. <<Info[u].kernel, d>> \in Holding(c)
            BY <3>6, <4>3 DEF c
          <5>6. caches'[mine[u]] = q
            BY <1>0, <3>1, <3>2, <4>3 DEF TypeOK
          <5> QED BY <3>3, <5>3, <5>4, <5>5, <5>6
        <4> QED BY <4>2, <4>3
      <3> QED BY <3>5, <3>6
    <2> QED BY <2>1, <2>2
  <1>6. Frame(t)
    <2>1. \A u \in Tasks : ctx[u] = u => u # t
      BY <1>2, NullAssumption
    <2>2. \A u \in Tasks : u # t => ctxs'[u] = ctxs[u]
      BY <1>0, <1>1 DEF TypeOK
    <2>3. \A u \in Tasks \ {t} : Uses(u) => ctxs'[ctx[u]] = ctxs[ctx[u]]
      BY <1>4, <2>2, UsesIsLive
    <2> QED BY <1>0, <1>1, <1>3, <1>5, <2>1, <2>2, <2>3 DEF Frame, TypeOK
  <1>7. TypeOK'
    <2>1. NewContext(Info[t].blockId) \in Contexts
      BY InfoFacts DEF NewContext, Contexts
    <2> QED BY <1>0, <1>1, <1>5, <2>1 DEF TypeOK, Early, Late
  <1>8. TaskInv(t)'
    <2>1. /\ ctx'[t] = t /\ pc'[t] = "inputs" /\ ctxs'[t].block = Info[t].blockId
      BY <1>0, <1>1 DEF TypeOK, NewContext
    <2> QED BY <1>0, <1>1, <1>2, <2>1, NullAssumption
            DEF TaskInv, HasCache, HasEntry, HasContext, HasData, IsAsync, HasShape, Late
  <1> QED BY <1>5, <1>6, <1>7, <1>8, StepSuffices DEF Run

\* Two sessions or streams never get one cache, nor does a session get that of a
\* stream.
LEMMA GetOrCreateStep ==
  ASSUME IInv, NEW t \in Tasks, GetOrCreateKernelCache(t)
  PROVE  IInv'
  <1> DEFINE i == Len(caches) + 1
             key == MapKey(t)
             sess == Info[t].sess_flag
  <1>0. /\ TypeOK /\ MapsSound /\ CachesSound /\ TaskInv(t)
        /\ pc[t] = "start" /\ Info[t].has_sess_info
        /\ key \in BOOLEAN \X Ids /\ key[1] = sess /\ sess \in BOOLEAN
    BY InfoFacts DEF IInv, GetOrCreateKernelCache, Ready
  <1>1. /\ pc' = [pc EXCEPT ![t] = "context"]
        /\ UNCHANGED <<status, raw, ctx, ctxs, out, async, notified>>
    BY DEF GetOrCreateKernelCache, Goto
  <1>2. /\ \A x \in BOOLEAN \X Ids : maps[x] # 0 => maps'[x] = maps[x]
        /\ caches' \in Seq(Caches) /\ maps' \in [BOOLEAN \X Ids -> Nat]
        /\ \A j \in 1 .. Len(caches) : caches'[j] = caches[j]
        /\ MapsSound' /\ CachesSound'
        /\ mine' = [mine EXCEPT ![t] = maps'[key]] /\ maps'[key] # 0
    <2>1. CASE maps[key] # 0
      <3>1. UNCHANGED <<caches, maps>> /\ mine' = [mine EXCEPT ![t] = maps[key]]
        BY <2>1 DEF GetOrCreateKernelCache
      <3> QED BY <1>0, <1>1, <2>1, <3>1, CachesAlone DEF TypeOK
    <2>2. CASE maps[key] = 0
      <3>1. /\ caches' = Append(caches, NewCache(sess)) /\ maps' = [maps EXCEPT ![key] = i]
            /\ mine' = [mine EXCEPT ![t] = i]
        BY <2>2 DEF GetOrCreateKernelCache, Inserted
      <3>2. /\ NewCache(sess) \in Caches /\ WellFormed(NewCache(sess))
            /\ NewCache(sess).sess_flag = sess /\ Holding(NewCache(sess)) = {}
        BY <1>0, NewCacheFacts
      <3> HIDE DEF key, sess
      <3>3. /\ caches' \in Seq(Caches) /\ Len(caches') = i /\ i \in Nat
            /\ \A j \in 1 .. Len(caches) : caches'[j] = caches[j]
            /\ caches'[i] = NewCache(sess)
        BY <1>0, <3>1, <3>2 DEF TypeOK
      <3>4. /\ maps' \in [BOOLEAN \X Ids -> Nat] /\ maps'[key] = i
            /\ \A x \in BOOLEAN \X Ids : x # key => maps'[x] = maps[x]
        BY <1>0, <3>1, <3>3 DEF TypeOK
      <3>5. MapsSound'
        <4>1. \A x \in BOOLEAN \X Ids : maps[x] \in 0 .. Len(caches) /\ Len(caches) \in Nat
          BY <1>0 DEF MapsSound, TypeOK
        <4>2. ASSUME NEW x \in BOOLEAN \X Ids
              PROVE  /\ maps'[x] \in 0 .. i
                     /\ maps'[x] # 0 => caches'[maps'[x]].sess_flag = x[1]
          <5>1. CASE x = key
            BY <1>0, <3>2, <3>3, <3>4, <5>1 DEF key, sess
          <5>2. CASE x # key
            BY <1>0, <3>3, <3>4, <4>1, <5>2 DEF MapsSound
          <5> QED BY <5>1, <5>2
        <4>3. ASSUME NEW x \in BOOLEAN \X Ids, NEW y \in BOOLEAN \X Ids,
                     maps'[x] # 0, maps'[x] = maps'[y]
              PROVE  x = y
          BY <1>0, <3>3, <3>4, <4>1, <4>3 DEF MapsSound
        <4> QED BY <3>3, <4>2, <4>3 DEF MapsSound
      <3>6. CachesSound'
        <4>1. ASSUME NEW j \in 1 .. i PROVE WellFormed(caches'[j])
          BY <1>0, <3>2, <3>3, <4>1 DEF CachesSound
        <4>2. ASSUME NEW j \in 1 .. i, NEW e \in Holding(caches'[j])
              PROVE  Info[e[2]].kernel = e[1] /\ maps'[MapKey(e[2])] = j /\ ctx'[e[2]] = e[2]
          <5>1. j \in 1 .. Len(caches) /\ e \in Holding(caches[j])
            BY <3>2, <3>3, <4>2
          <5>2. Info[e[2]].kernel = e[1] /\ maps[MapKey(e[2])] = j /\ ctx[e[2]] = e[2]
            BY <1>0, <5>1 DEF CachesSound
          <5>3. e[2] \in Tasks
            <6>1. caches[j] \in Caches
              BY <1>0, <5>1 DEF TypeOK
            <6> QED BY <5>1, <6>1, HoldingFacts
          <5>4. MapKey(e[2]) \in BOOLEAN \X Ids /\ MapKey(e[2]) # key
            BY <2>2, <5>1, <5>2, <5>3, InfoFacts DEF key
          <5> QED BY <1>1, <3>4, <5>2, <5>4
        <4> QED BY <3>3, <4>1, <4>2 DEF CachesSound, MapKey
      <3>7. \A x \in BOOLEAN \X Ids : maps[x] # 0 => maps'[x] = maps[x]
        BY <2>2, <3>4
      <3> QED BY <3>1, <3>3, <3>4, <3>5, <3>6, <3>7
    <2> QED BY <2>1, <2>2
  <1>3. Frame(t)
    <2>1. \A u \in Tasks \ {t} : pc[u] = "hit" => mine[u] \in 1 .. Len(caches)
      BY HitFacts
    <2> QED BY <1>0, <1>1, <1>2, <2>1 DEF Frame, TypeOK
  <1>4. TypeOK'
    <2>1. maps'[key] \in Nat
      BY <1>0, <1>2
    <2> HIDE DEF key
    <2> QED BY <1>0, <1>1, <1>2, <2>1 DEF TypeOK, Early, Late
  <1>5. TaskInv(t)'
    <2>1. pc'[t] = "context" /\ mine'[t] = maps'[key]
      BY <1>0, <1>1, <1>2 DEF TypeOK
    <2>2. HasCache(t)'
      BY <1>2, <2>1 DEF HasCache, MapKey
    <2> QED BY <1>0, <1>1, <2>1, <2>2
            DEF TaskInv, HasEntry, HasContext, HasData, IsAsync, HasShape, Late
  <1> QED BY <1>2, <1>3, <1>4, <1>5, StepSuffices DEF Run

-----------------------------------------------------------------------------
\* No task has started, no cache has been made.
LEMMA InitInv == Init => IInv
  <1> SUFFICES ASSUME Init PROVE IInv
    OBVIOUS
  <1>1. TypeOK
    BY DEF Init, TypeOK, NewContext, Contexts, Early, Late
  <1>2. MapsSound /\ CachesSound /\ StreamOrder
    BY DEF Init, MapsSound, CachesSound, StreamOrder
  <1>3. \A t \in Tasks : TaskInv(t)
    BY NullAssumption DEF Init, TaskInv, HasCache, HasEntry, HasContext, HasData, IsAsync, HasShape
  <1> QED BY <1>1, <1>2, <1>3 DEF IInv

\* The invariant is inductive.
LEMMA NextInv == IInv /\ [Next]_vars => IInv'
  <1>1. CASE UNCHANGED vars
    <2> SUFFICES ASSUME IInv PROVE IInv'
      OBVIOUS
    <2>1. TypeOK' /\ StreamOrder'
      BY <1>1 DEF vars, IInv, TypeOK, StreamOrder, Complete, Before
    <2>2. MapsSound' /\ CachesSound'
      BY <1>1, CachesAlone DEF vars
    <2>3. ASSUME NEW t \in Tasks PROVE TaskInv(t)'
      <3>1. TaskInv(t)
        BY DEF IInv
      <3>2. HasCache(t)' /\ HasEntry(t)' /\ IsAsync(t)' /\ HasShape(t)'
        BY <1>1, <3>1 DEF vars, TaskInv, HasCache, HasEntry, IsAsync, HasShape, MapKey,
            UsesCache, Blocks
      <3>3. HasContext(t)' /\ HasData(t)'
        BY <1>1, <3>1 DEF vars, TaskInv, HasContext, HasData, SameScope, Blocks
      <3> QED BY <3>2, <3>3 DEF TaskInv
    <2> QED BY <2>1, <2>2, <2>3 DEF IInv
  <1>2. ASSUME IInv, NEW t \in Tasks, Run(t) \/ RunAsync(t) PROVE IInv'
    BY <1>2, RejectStep, RunDirectlyStep, GetOrCreateStep, LookUpStep, SkipLookUpStep,
        UseCachedStep, CreateContextStep, CreateFailsStep, UpdateInputsStep, UpdateOutputsStep,
        RunCpuKernelStep, UpdateFWKOutputShapeStep, RunCpuKernelAsyncStep, ReturnLaunchedStep,
        AsyncComputeStep, AsyncCallbackStep, NotifyWaitStep DEF Run, RunAsync
  <1> QED BY <1>1, <1>2 DEF Next

\* Whatever the launches, streams and sessions: the entry a thread has found is
\* there when it reads it; no two launches or blocks work in one context; a
\* cached context is reused for its own kernel in its own scope; a kernel computes
\* on the data of its launch; and success comes with its own output shape.
THEOREM Safety ==
  Spec => [](EntryAlive /\ ContextIsolation /\ ContextOfKernel /\ ComputesOnOwnData
             /\ SuccessHasOwnShape)
  <1>1. IInv => EntryAlive
    <2> SUFFICES ASSUME IInv, NEW t \in Tasks, pc[t] = "hit" PROVE Resident(raw[t])
      BY DEF EntryAlive
    <2>1. mine[t] \in 1 .. Len(caches) /\ <<Info[t].kernel, raw[t]>> \in Holding(caches[mine[t]])
      BY HitFacts
    <2>2. DOMAIN caches = 1 .. Len(caches)
      BY DEF IInv, TypeOK
    <2> QED BY <2>1, <2>2 DEF Resident, Holding
  <1>2. IInv => ContextOfKernel
    BY UsesIsLive, NullAssumption DEF IInv, TaskInv, HasContext, ContextOfKernel, SameScope
  <1>3. IInv => ComputesOnOwnData
    <2> SUFFICES ASSUME IInv, NEW t \in Tasks, pc[t] = "compute" \/ async[t] = "running"
                 PROVE  /\ ctxs[ctx[t]].inputs = t /\ ctxs[ctx[t]].outputs = t
                        /\ ctxs[ctx[t]].block = Info[t].blockId
      BY DEF ComputesOnOwnData
    <2>1. HasData(t) /\ HasContext(t) /\ ctx[t] \in Tasks
      BY UsesIsLive DEF IInv, TaskInv, Uses
    <2>2. CASE ctx[t] = t
      BY <2>1, <2>2 DEF HasData, HasContext
    <2>3. CASE ctx[t] # t
      <3>1. /\ ctx[ctx[t]] = ctx[t] /\ ~Blocks(t)
            /\ SameScope(t, ctx[t]) /\ Info[ctx[t]].kernel = Info[t].kernel
        BY <2>1, <2>3, NullAssumption DEF HasContext
      <3>2. ctxs[ctx[t]].block = Info[ctx[t]].blockId
        BY <2>1, <3>1 DEF IInv, TaskInv, HasContext
      <3>3. Info[ctx[t]].blockNum = 1 /\ Info[t].blockNum = 1
        BY <2>1, <3>1, InfoAssumption DEF InfoAssumption, Blocks
      <3>4. Info[ctx[t]].blockId = 0 /\ Info[t].blockId = 0
        BY <2>1, <3>3, InfoFacts, InfoAssumption DEF InfoAssumption
      <3> QED BY <2>1, <3>2, <3>4 DEF HasData
    <2> QED BY <2>2, <2>3
  <1>4. IInv => SuccessHasOwnShape
    BY DEF IInv, TaskInv, HasShape, SuccessHasOwnShape
  <1> QED BY InitInv, NextInv, Isolated, <1>1, <1>2, <1>3, <1>4, PTL DEF Spec
=============================================================================
