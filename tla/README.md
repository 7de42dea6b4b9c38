# TLA+ models of HW-EFAT

HW-EFAT holds the CPU-kernel framework that runs operators on an Ascend device
(`ops/built-in`, C++), the tool that generates and runs system tests of
operators (`main`, Python), the Python front end of a DSL for operators
(`auto_schedule/python`), and the scripts of its continuous integration.  This
directory models the parts of it that have state or an algorithm of their own,
checks them with TLC on small instances and proves, with TLAPS, what can be
proved for every instance.

1. [Inventory](#inventory)
2. [Modules and the code](#modules-and-the-code)
3. [Runs](#runs)
4. [Assumptions about what is external](#assumptions-about-what-is-external)
5. [Fairness](#fairness)
6. [Proofs](#proofs)
7. [Findings](#findings)
8. [What is not modelled](#what-is-not-modelled)
9. [What could follow](#what-could-follow)

## Inventory

### The CPU-kernel framework, `ops/built-in`

| Component | State | Operations | Used by, and how | Correct when |
|---|---|---|---|---|
| `KernelCache` (`kernel_cache.h`) | list of entries, index from kernel id to list node, capacity, session flag; a mutex | `GetCache`, `SetCache`, `Init` | `CpuKernelCache` derives from it; the launches of a scope call it concurrently | list and index agree, a hit returns what was stored last, eviction is least-recently-used, a session loses nothing |
| `SessionCache` (`session_cache.h`) | a map from session id and one from stream id to a kernel cache; a mutex each | `RunCpuKernel`, `RunCpuKernelWithBlock`, `GetOrCreateKernelCache` | every launch with session info | two launches of a scope get the same cache, two scopes never do |
| Launch (`device_cpu_kernel.cc`, `cpu_kernel_cache.cc`) | a `CpuKernelContext` and its `NodeDef`, cached or the launch's own | parse the parameter block, find or make the context, put the tensors in, compute, write output shapes back | called by the device's scheduler, on several threads | a launch computes on its own data with its own kernel; what it read lay in its block; raw pointers are alive |
| Registry (`cpu_kernel_register.cc`) | map from operator type to constructor | register, `RunCpuKernel`, `RunCpuKernelAsync` with its `done` callback | launches, and kernels' callbacks on other threads | a callback finds the context alive, writes the shape, then notifies, once |
| `AsyncCpuKernel`, `Notification` | mutex, condition variable, atomic flag, all on the frame of `Compute` | `Compute`, `Notify`, `WaitForNotification` | the thread of `Compute` and the one that calls `done` | `Compute` returns after `done`; the frame is not touched afterwards; no wakeup is lost |
| Sharder (`cpu_kernel_utils.cc`, `host_sharder.cc`, `device_sharder.cc`, `eigen_threadpool.cc`) | the process-wide pool and its number of cores | `ParallelFor`, `GetCPUNum`, creation of the pool | kernels on any thread | each unit of work is done once, before the call returns; the pool is made once |
| `AsyncEventUtil` | function pointers of a library | `NotifyWait`, registration of events | the `done` callback | forwards |
| Contexts, tensors, attributes, `NodeDef` | protobuf messages | getters and setters | everywhere | hold what is put in |

Hard here: threads of several streams in one session's cache; callbacks that
run after the launch has returned; contexts that are re-used with what an
earlier, perhaps failed, launch left in them; 32-bit lengths from outside.

### The system-test tool, `main`

| Component | State | Operations | Correct when |
|---|---|---|---|
| Report (`st_report.py`, `op_st_case_info.py`) | cases, stage results (shared objects), status, expectation, counts, the saved file | `add_stage_result`, `update_case_status`, `update_case_expect`, `update_cnt`, `save`, `load` | the verdict follows from the latest result of every stage, and the counts from the verdicts |
| Stages (`atc_transform_om.py`, `ms_op_generator.py`, `ms_op_runner.py`, `data_generator.py`, `result_comparer.py`) | files; the report | convert, generate, run, parse `result.txt`, compare | a line of `result.txt` decides its own case and no other |
| `DataGenerator`, `ConstInput` (`data_generator.py`, `utils.py`) | the files of a test directory; random draws | draw, cast, save, compute expected data, put constants into `acl_op.json` | a test's run, its expected data and its model use the same data |
| `CompareData` (`compare_data.py`) | the rows and files of an error report | compare two arrays under thresholds, write csv files | the verdict is what the thresholds say; a report has every error once |
| `MsOpGenerator` (`ms_op_generator.py`) | the script below the output path | generate a net and a test for each case | the script has the tests of its own command, and a net passes on what it takes |
| `AscendOpKernelRunner`, `AscendOpKernelParam`, `AscendOpKernel` (`ascend_tbe_op.py`) | device pointers and host data of parameters, the runner's list, a kernel's registration | build parameters, `run`, `get_data`, leave the runner | pointers are alive and not shared, results are not overwritten, device memory is given back |
| `AscendRTSApi` (`rts_api.py`) | contexts, registered binaries and names; the runtime library | one method per runtime call, `parse_error`, retries of `memcpy` | what the runtime was given is kept alive; object and runtime agree on the context; errors become exceptions |
| Case design (`case_design.py`, `subcase_design*.py`) | cases so far, required keys, sub-case numbers | read case files, cross product or fuzz, add cases to the report | all combinations once, tensors paired as in the file, one case's reading does not change another's |
| Case generator (`case_generator.py`, `model_parser.py`) | operator description, base case | read `.ini`, `.py`, header and model, write a case file | a case has the operands of its operator and the shapes of its own layer |
| Argument and ini parsers (`arg_parser.py`, `advance_ini_parser.py`) | options | checks, defaults | what is in force was asked for and has been checked |
| Utilities, tables | none | checks | as documented |

Hard here: every step may fail and leave the rest undone; objects shared
between cases; the order of writing, counting and saving; commands that start
from an old report or an old directory; parameters and kernels that outlive the
runner they were used in; lists that are multiplied out on one path and indexed
on another.

### The rest

`auto_schedule/python` is a front end that forwards to the `tbe` package.
`dim_conv.py` is an algorithm of its own: it emits the program that converts a
tensor between the formats NCHW and NC1HWC0, block by block through a buffer,
with bursts that write past their end.  It is correct when it computes what the
plain definition beside it does.

`scripts` and `build.sh` map the files a pull request changes to what is built
and tested.  They are correct when what is built is tested, and when a green
run tested what changed.  `third_party` is vendored declarations.

`PROJECT.json` lists every component with its status, and under `hazards` the
places where this code is hard to test; the properties below were chosen from
that list.

## Modules and the code

Every definition that models code has its lines in `PROJECT.json` under `map`.
Names are the source's where TLA+ allows it.  A definition `F_Mistake` before a
definition `F` is `F` with a plausible mistake in it (a dropped guard, a missing
reset); replacing `F` by it breaks the property that `PROJECT.json` names under
`mutants`, and shows that the property depends on that code.

**`LruCache`** is the abstract specification of a cache: the order of use, the
last value stored under each key, and which keys a bounded cache holds.

**`KernelCacheOps`** has the operations of `kernel_cache.h` as operators on a
cache, a record of a list of nodes and an index of iterators; `AfterGet` and
`AfterSet` are sets because the address of a new list node is any free one.
**`KernelCache`** is one cache as a state machine.  `kernel_mutex_` makes a call
a step.  Two history variables say what the cache should hold, and are also the
refinement mapping to `LruCache`.

**`CpuKernelRun`** is a launch from `RunCpuKernel` to its return and
notification.  It extends `KernelCacheOps` for the caches.  A task is a
launch on a thread of its own; a step ends where another thread can see the
state.  `caches` and `maps` are the kernel caches and the two maps of
`SessionCache`; `raw` is the pointer `GetCache` returned, used after the lock
is dropped; `ctx` and `ctxs` are the contexts, of which the model keeps whose
data was put in last and by how far a failed update got; `async` and
`notified` follow the callback.  Parsing is one step that may fail:
**`LaunchParams`** has it in detail, for one block on one thread, entry by
entry, with lengths as numbers modulo the size of a word.

**`AsyncNotification`** is `AsyncCpuKernel::Compute` and `Notification` at the
grain of lock, flag, wait and wake, with spurious wakeups, callbacks inside
`ComputeAsync` or later, and the next call's `Notification` on the same frame.

**`Sharder`** is `ParallelFor` and `GetCPUNum` on both devices, with the
creation of the pool under its mutex.

**`StReport`** is the report and the stages that write to it.  Stage results
are objects with identity, since `add_stage_result` overwrites them in place
and stages put one object into many traces; an object is named by the case and
the position at which it was first put into a trace.  Loading a saved report
makes an object of its own for each entry.  The history `latest`, of what was
last added to a case for a stage, is saved and loaded with the report.

**`OpKernelRunner`** is the device memory behind a runner: parameters with
pointer, host data and device; the runner's list; the locals of `run`.  A step
is one runtime call.  Each may fail, and the exception leaves behind what
Python would leave.  Addresses are re-used as soon as they are free, so a
pointer that was kept too long meets another parameter's buffer.  A kernel's
`input_params` may refer to outputs by position, from the end too when the
position is negative.

**`RtsApi`** is the object under the runner: one action per method, in any
order.  `rt` is what the runtime holds, `api` what the object remembers
(`context`, `context_storage`, the binaries and names it keeps alive), `copy`
the `memcpy` under way with its attempts.  `OpKernelRunner` uses the same calls
with the errors reduced to one.

**`CaseFields`** has, as operators, what the sub-case designers check and make
of the fields of a case: every check as a predicate, the cross product, the
replacement of `"fuzz"`.  **`CaseDesign`** is `CaseDesign.design` over the case
files: the shared list of required keys, one action for each step of the two
designers and one for each sub-case.  **`CaseGenerator`** is the way from an
operator's description to a case file, line by line, clause by clause of a header
and layer by layer.

**`TestData`** follows the data of a test: `disk` is the directory, `acl` the
constants and attributes in `acl_op.json`, `params` what the expect function was
given, `compared` the pairs of outputs.  Data has an identity, a number of
elements and a width.  A later command finds the files of an earlier one.
**`CompareData`** has the verdict over multiples of a thousandth, `NAN` and
`INF`, and the error reports as files of bounded length.  **`MsOpGenerator`** is
the generated script as the set of the tests it has and the inputs each passes
on.

**`Msopst`** is the command line and the ini file up to where they take effect:
ATC's environment and command, the mode of the run, the threshold of each
comparison.  **`ChangedFiles`** is the list of changed files through the two
parsing scripts, `build.sh` and the stages of `run_ut.py`; the build directory,
with its coverage file, outlives a pull request.

**`DimConv`** runs the program that `dim_conv.py` emits: `ub` is the unified
buffer and `output` the tensor in memory, whose cells hold the number of the
input element they have the value of.  A step is one block: copy in, transpose,
copy out, with the backup and the restoring of the head that a burst would
overwrite.  `Reference` is the plain definition in the same file.

**`Tools`** puts the ten Python programs side by side (`Msopst`,
`CaseGenerator`, `CaseDesign`, `MsOpGenerator`, `TestData`, `CompareData`,
`RtsApi`, `StReport`, `ChangedFiles`, `DimConv`): a behaviour is one of any of
them, chosen by `program`, and a step is a step of that module.  It adds no
behaviour; it lets one configuration check them all.  They are separate
processes, or separate stages of one, that meet through files only, and these
files are inputs of the module that reads them.

Proofs are in modules of their own, which extend the module they are about:
`KernelCacheOpsProofs` (lemmas about the operations of a cache),
`KernelCacheProofs`, `CpuKernelRunProofs`, `LaunchProofs` (of `LaunchParams` and
`AsyncNotification`), `SharderProofs`, `OpKernelRunnerProofs`, and two about
`Tools`: `DesignProofs` for `CaseDesign` and `DimConv`, `ToolsProofs` for the
other programs.
Modules named `MC...` give constants their values.

## Runs

Each run is one configuration file.  Sizes are distinct states.

| Run | Shows | Instance | Why it is enough |
|---|---|---|---|
| `kernel_cache` | `LruOrder`, and the inductive invariant `IInv` of the proof: types, `CacheWellFormed`, `ResidentIsLastStored`, `SessionKeepsAll`; `LruSpec`: it implements `LruCache` | 4 kernels, 2 values, capacity 2, both modes; symmetric | three of four kernels fit, so hits, updates, evictions and re-insertions occur in every order, and list nodes are re-used; the proofs remove the bounds |
| `kernel_cache_limit` | `DocumentedSizeBound` fails: finding 1 | the same | |
| `async_notification` | `NoUseAfterFree`, the inductive `IInv` with `ReturnsAfterDone` and `NoLostWakeup`; `AcceptedReturns` under fairness | 4 calls in a row, each refused, deferred or inline; 153 | a call meets only its predecessor's callback; the proofs remove the bound |
| `cpu_kernel_streams` | `ContextOfKernel`, `ComputesOnOwnData`, `SuccessHasOwnShape`; `AllComplete` under fairness | 7 launches on 2 streams, cache of 2, 1 failure; 281 thousand | a kernel is run, re-run, evicted and run again; another stream has the same kernel id in a session, and one kernel has no session info; launches wait for asynchronous ones that may fail in each place |
| `cpu_kernel_session` | `EntryAlive`, `ContextIsolation` | an asynchronous kernel twice and three blocks of another, one session, 1 failure; 1.3 million | all five run at once in one cache whose limit, outside a session, they would exceed |
| `launch_params` | `WalksAgree`, `Understood`, `InsideBlock` | all lists of up to 5 entries, in every order, good and bad; lengths and numbers next to each limit; 3.6 million | one entry of each type that can affect another, and one more than the limit on the list, which is 4 entries here; all three are proved for all lists and values |
| `sharder` | `AllOrNothing`, `UnitOnce`, `PoolServes`; `Returns` under fairness | 3 calls, 0 or 2 cores found; 963 thousand | two calls race for the pool while a third finds it made or not |
| `sharder_result` | `OkMeansDone` fails: finding 2 | 2 calls | |
| `op_kernel_runner` | `PointersLive`, `NoLeak`, `HoldsLatest` | 2 runners, the second with profiling, 2 runs of 2 kernels, 4 parameters, 5 buffers, 1 failing runtime call besides exhausted memory and wrong arguments; 6.0 million | a parameter and a kernel are used in both runners; a failure hits any one call, the release in `__exit__` included; temporary buffers and outputs compete for memory |
| `tools` | the properties of the ten programs, in the table below | each program with inputs of its own; 459 thousand in all, the contexts of `RtsApi` symmetric | see below |
| `case_keys` | `OnlyRequiredKeys` fails: finding 3 | `CaseDesign` alone | |
| `dim_conv_batch` | `Converted` fails: finding 4 | `DimConv` alone, two images of two blocks | |

The programs of the run `tools`:

| Program | Properties | Instance, and why it is enough |
|---|---|---|
| `CaseDesign` | `Paired`, `EveryCombination`, `FuzzOwnCall` | every kind of case alone and before each of seven others, two files, with and without a filter of names; lists of up to three alternatives, equal and different in length; the fuzz function returns one dict, two, none or a bad one.  A case is affected by the ones before it only through the required keys and the names, so two are enough |
| `CaseGenerator` | `LayersApart` | 22 ini files, three headers, eight models of up to three layers, and Python modules: two layers of the operator with another between them |
| `MsOpGenerator` | `OwnTests` | two commands in a directory, cases with one to five inputs for operators of every mixture of kinds, each step failing or not: the second command meets everything the first can leave |
| `TestData` | `SameData`, `ComparesOwnRun` | two commands in a directory, one or two cases with each kind of input (drawn, constant, given, optional, bad), each step failing or not |
| `CompareData` | `VerdictSound`, `ReportComplete` | outputs of up to four elements with numbers on both sides of each threshold, `NAN` and `INF`; reports of up to six rows in files of two, before and after another comparison |
| `RtsApi` | `CurrentAgrees`, `AddressesKept`, `CopyAttempts` | two contexts and one of everything else, four failing calls, as many as a copy with its three retries can have, one reset |
| `StReport` | `VerdictFromLatest`, `RunCountsMatch` | two cases, a `run` and a `compare`: two cases are needed to share an object, a second command to load a report |
| `Msopst` | `ThresholdInForce` | every command with each check passing and failing, thresholds inside, at and outside their limits from all three places; ini files of up to three options in any order |
| `ChangedFiles` | `RebuiltIsTested`, `GreenMeansTested` | two pull requests of up to two files, one directory for each rule, each Python suite failing or not: rules are for one file each, and two answers are joined |
| `DimConv` | `ConvertedWhereRegular` | both conversions, one and two images, channels and pixels on both sides of the multiples of `C0 = 3` and of a block |

Bounds have names: `MaxCalls`, `MaxErrors`, `MaxEntries`, `MaxCommands`,
`MaxRunners`, `MaxRuns`, `MaxFailures`, `MaxLoads`, `MaxResets`,
`MaxAlternatives`, and the sets of keys, nodes, tasks, parameters, buffers and
inputs.  `LaunchParams` takes the size of a word as the
constant `Word` because TLC's integers have 32 bits; the proof is for every
`Word` that the limits fit in.  Where a property is proved its theorem does
without these bounds; the run then shows that the cases the property is about
occur, and that the assumptions are met.  Deadlock is not checked where the system may
stop: launches, calls and commands end, and a client may do nothing more.

What the properties say, beyond their names:

- `ComputesOnOwnData`: when a kernel computes, both the inputs and the outputs
  of its context were put there by this launch, though the context may be one
  that an earlier launch failed half-way through updating.
- `EntryAlive`: the pointer used after the cache's lock is dropped still points
  to an entry.  In a session nothing is evicted; outside one, a stream's
  launches do not overlap.  Both facts are needed.
- `ContextIsolation`: no two launches, or their callbacks, use a context at the
  same time.  This is why blocks of one kernel do not use the cache.
- `WalksAgree`: the two walks over the extend info find the same session.
- `PointersLive` and `HoldsLatest` hold after failures too, also after an
  `__exit__` that raised; they are claimed no longer only once another runner
  has reset the device after such an `__exit__`, since `release_device` was
  then skipped for some parameters and their pointers are stale.
- `Paired`: sub-cases are numbered over inputs and outputs that are multiplied
  out separately, yet each takes one position of all lists.  Where an input has
  several distributions or ranges this is not claimed, as inputs are then more
  than outputs; nor of a case without inputs, whose outputs may have lists of
  different lengths.
- `CurrentAgrees` and `AddressesKept` hold through failures of every call, and
  for contexts that are destroyed but still in `context_storage`.
- `CopyAttempts`: a copy gives up only after four calls, but for the simulator
  `ca`, where an error of an unknown type raises another exception.
- `SameData`: the expected data was computed from what the run reads, although
  an input may be drawn in one place, written in another, read back in a third
  and put into `acl_op.json` in a fourth, over files that lay there before.
- `VerdictSound` has both directions: the filters for the absolute and the
  relative difference are applied one after the other to shrinking arrays, and
  together are the plain condition over all elements.  It is claimed for a
  `diff_thd` above 0.0025 (`LowFloor`).  Below it the least denominator of the
  relative difference, `1/16384/diff_thd` (`compare_data.py:58`), makes small
  numbers pass that are relatively far off.
- `ConvertedWhereRegular` excludes three kinds of shapes for which the emitted
  program is wrong: finding 4 and the observations after it.

## Assumptions about what is external

- *The device's scheduler* (`InfoAssumption`): tasks of a stream start in order,
  each after those before it have returned and notified; the blocks of one
  launch run at the same time; a kernel id belongs to one stream in its scope
  and keeps its number of blocks; the number of a block is below the number of
  blocks.
- *`FWKAdapter`*, which lays out the extend info, puts at most one entry of a
  type into a list (`Unique`), and gives a kernel without inputs, or without
  outputs, no shapes of any (`EntriesAssumption`).
- *Kernels*: `ComputeAsync` either refuses or calls `done` once, at once or
  later, on any thread.
- *Eigen and `libaicpu_sharder.so`* cut a range into blocks, run each once and
  return after the last.
- *The test binary* writes one line for each case or stops early; *the commands*
  of the tool call the stages in order.  They are not in the repository.
- *The unified buffer* (`DimAssumption`): `get_soc_spec("UB_SIZE")` is a number of
  bytes that two tensors share in whole cubes of `C0` by `C0` elements of two
  bytes, at least two cubes each: a multiple of 1024 for the `C0` of 16 in the
  code.  Tensors have at least one element in each dimension.
- *The runtime library* under `AscendRTSApi`: a call that reports an error has
  done nothing, except that a failed launch may have written its outputs;
  `rtDeviceReset` takes back all memory of the device.  One runner is open at a
  time, on one device.
- *numpy* draws numbers that differ from one draw to the next; *pandas* may be
  missing; *ATC*, *TensorFlow* and *the fuzz function* of a case return any
  result that their callers tell apart, or fail.
- *The inputs of the Python programs* are what the stage before gives them
  (`Tools`): lists of cases are not empty (`DataAssumption`, `RepAssumption`),
  the elements of a threshold that is a list are numbers (`ArgsAssumption`),
  `OK` is no error code (`RtsAssumption`); outputs are lists of numbers, `NAN`
  or `INF`, and `diff_thd` is not 0 (`CmpAssumption`); the fuzz function returns
  a list of dicts, a tensor of a fuzz case has a value, perhaps none, for each of
  its keys, and tensors and alternatives of a cross case are lists
  (`DesAssumption`).  `ConstantsAssumption` of
  `OpKernelRunner` gives parameters and buffers numbers other than that of
  `NULL`.  The other conjuncts of these assumptions, with `NullAssumption`,
  `RequestsAssumption` and `CiAssumption`, are types, or say that what stands
  for "none" is not a value.
- *git* gives `build.sh` the list of changed files, one line for each; *cmake*
  and the test suites pass or fail.
- *The AI core* executes the instructions `dim_conv.py` emits in order; a copy
  moves whole bursts of `C0` elements.

## Fairness

- `AsyncNotification`: weak fairness of the caller's and of the callbacks'
  steps, since threads inside a call are scheduled and a kernel that accepted
  calls `done`; strong fairness of the callback's lock, which a caller that is
  woken for nothing again and again could otherwise keep busy.  No fairness of
  spurious wakeups or new calls.
- `CpuKernelRun`: weak fairness of the steps of each launch and of each
  callback.  A failure is a possible outcome of a step and never required.
- `Sharder`: weak fairness of the steps of each call and of its blocks: the pool
  has threads, or the work is done on the calling one.  No step needs the pool
  to be created successfully.

The Python parts are sequential, and their runs check safety.

## Proofs

The theorems hold for every value of the constants that satisfies the named
assumptions of the modules.

**`KernelCacheProofs`.**  `Invariant` proves `Spec => []IInv`; `Safety` derives
`CacheWellFormed`, `ResidentIsLastStored`, `LruOrder` and `SessionKeepsAll`;
`Implements` proves `Spec => LruSpec`, for every set of kernels and values and
every capacity.  `LruOrder` is not inductive: that an insertion keeps the most
recent keys needs that no key is in the history twice and that resident keys
are in it (`HistorySound`), that the list and the index agree
(`CacheWellFormed`), and that the capacity is the one `Init` set.  The argument
follows the code: lemmas about removing a node, pushing one and dropping the
last, then what `AfterGet` and `AfterSet` do to each conjunct, then one case per
action.  For the refinement, a step of the cache maps to the step of `LruCache`
of the same name, and the result of a lookup agrees because the list is a
prefix of the order of use.

**`LaunchProofs`.**  Of `LaunchParams`, `ReadsInsideBlock`: what `ParseIoAddr`
reads lies in the parameter block, for every size of word, limits, length and number of
addresses.  The invariant adds that the length has been compared with the size
of the head before the differences are taken (without that they wrap around),
and a lemma shows that the limit on the number of addresses keeps the product
exact.  `ListUnderstood`: `WalksAgree` and `Understood`, for every list.  The
invariant `ListInv` says that the message means what the entries before the
current one say (`Meant`).  As a type is at most once in the list, an entry
adds to what was there and contradicts nothing.  A shape entry can be dropped
without an error; that it was not is seen only at the end, from the number of
shapes (`CountsMatch`), which cannot tell for a kernel without inputs or
outputs: hence `EntriesAssumption`.

Of `AsyncNotification`, `AsyncInvariant` and `AsyncSafety`: `NoUseAfterFree`,
`ReturnsAfterDone` and `NoLostWakeup`, for any number of calls.  The
strengthening says who holds the mutex at which point of the code
(`MutexHeld`), that only the current call has a callback under way
(`CallbacksOfCalls`), and what the flag says of it (`FlagSound`).  `MutexHeld`
carries the argument: the destructor can take the lock only when no callback is
between its lock and its unlock, and the caller that went to sleep did so
before the flag was set.

**`KernelCacheOpsProofs`** has what `AfterGet` and `AfterSet` do to a cache: it
stays well formed, a hit returns what is held under the key, and what is held
afterwards was held before or is what was set; in a session, nothing goes.
`KernelCacheProofs` and `CpuKernelRunProofs` cite these.

**`CpuKernelRunProofs`.**  `Safety`: `EntryAlive`, `ContextIsolation`,
`ContextOfKernel`, `ComputesOnOwnData` and `SuccessHasOwnShape`, for every set of
tasks, however they interleave and fail.  `ContextIsolation` says that no two
tasks use a context at once; it follows from which contexts a task can have
(`HasContext`: its own, or one made for the same kernel in the same scope and
not for a block), and from the order in which a stream's tasks run
(`StreamOrder`).  `CachesSound` carries that through the caches: what a cache
holds under a kernel is the context of a task of this kernel and scope that has
finished making it.  `HasEntry` says that the entry a task has seen in the cache
stays until it takes it, which needs that a step of another task on the same
cache either belongs to a session, which evicts nothing, or cannot happen now.
What one task leaves of the others is one formula, `Frame`, shown for each
action; the rest is about the task that moves.

**`SharderProofs`.**  `Safety`: `AllOrNothing` and `UnitOnce`.  Until the split
nothing is done, after the barrier nothing is left, and in between a unit is
either done or in exactly one of the blocks that are left (`CallInv`).  That
the cuts of a range put each unit into one block is a lemma about the greatest
cut below a unit and the least above it.  `PoolServesAll`: `PoolServes` needs
no invariant besides the types.

**`OpKernelRunnerProofs`.**  `Safety`: `PointersLive`, `NoLeak` and `HoldsLatest`,
for every number of parameters, buffers, runners and runs, and failures of any
call.  Every parameter that is on the device has a buffer to itself with its
latest contents (`Pointers`); workspace and tiling data have buffers of their
own (`TempsSound`), and as long as nothing has failed, that is all that is
allocated.  That nothing is left at the end needs to be known from the start:
a parameter on the device is in the list of the open runner or of one whose
`__exit__` failed (`Kept`), and while a runner releases, is still to be
released or in the list of a failed one (`Due`).  So a leak implies a failure
before it.  All of it is claimed until a device reset after a failed `__exit__`
leaves stale pointers (`lost`).

**`ToolsProofs`** proves each program by itself, from an invariant over its own
variables, and carries the result to `Tools`.

- `RtsSafety`: `CurrentAgrees`, `AddressesKept`, `CopyAttempts`.  Added are the
  types, that the runtime has nothing before the first object is made, and that
  a copy that still runs has a call left.
- `CiSafety`: `RebuiltIsTested` and `GreenMeansTested`.  A lemma shows that a file
  is taken by one rule only of each chain of `elif`, and so that what one script
  answers for it covers what the other does.  `BuildInv` says that both answers
  are about the list that is still there, `StagesInv` which tags, results and
  coverage each stage of `run_ut.py` has behind it.
- `DataSafety`: `ComparesOwnRun`.  Data is numbered in the order in which it is
  drawn.  The expected data that the report names is newer than the inputs of
  its case (`ExpectedInv`), which are not written again afterwards; outputs of
  a case that passed are of the last run (`WrittenInv`); an older file of either
  kind may be there but is not read.
- `SameSafety`: `SameData`.  The cases before the one that `acl_op.json` is at, and
  all of them when the data is generated, are prepared (`Prepared`): a constant
  that was drawn is in its file with as many elements as the shape has, the
  attribute in `acl_op.json` is that of the case, and no two inputs have a name
  in common.  Then an input that passes the check of its size was read with the
  width it was written with, or has no elements (`ReadSame`; the widths are
  powers of two), and any other is written to a file that was not there, so the
  files of those before it stay what they were.
- `ArgsSafety`: `ThresholdInForce`.  After the checks, a threshold is a pair of
  numbers within the limits or there is none.
- `MsSafety`: `OwnTests`.  A directory without sources has no script, and a `run`
  that got past the check of its path has one without.
- `RepSafety`: `VerdictFromLatest` and `RunCountsMatch`.  The objects in the trace
  of a case have what was last added to it (`Recorded`), although they are
  overwritten in place and shared between cases.  That needs that the stages
  that write for one case at a time share no object between cases until the
  report is made (`Own`), and that a report that was saved has what was known of
  each case then (`SavedInv`).
- `GenSafety`: `LayersApart`.  There is no case before the model is read, and
  while it is read the base case's descriptions have no shapes (`GenInv`): the
  layers get copies of them.  So the one shape of each description in a case is
  the layer's.  `GenAssumption` says that operands, attributes and layers are
  lists, and that a layer has a type for each shape.
- `CmpSafety`: `VerdictSound` and `ReportComplete`.  `ElementOff` shows that an
  element is among those that both filters leave if and only if its difference
  is relatively too large, whatever the denominator was raised to, which is where
  `LowFloor` is needed; the verdict then follows from the share of such elements.
  `ReportInv` says that the parts of the report before the current one are
  written, each to the file of its number, and that the rows are those of the
  comparison that writes them.

**`DesignProofs`.**  `DesSafety`: `FuzzOwnCall`, `Paired` and `EveryCombination`,
for every list of case files that satisfies `DesAssumption`.  It says that
tensors have a value, `ABSENT` perhaps, for each key, that what is to be combined
are lists, and that `MaxAlternatives` bounds them; the check of lengths is the
program's and is part of the proof.

- `FuzzOwnCall`.  A dict replaces what is `"fuzz"` in the copy of the case that
  all dicts of a call share, so that only the first has an effect.  `DictsInv`
  says so: before the first dict the copy is the case of the file, afterwards it
  is what one dict of this call made of it (`ReplacedBy`), and nothing is left to
  replace, since a value that is still `"fuzz"` is refused.
- `Paired`, `EveryCombination`.  `product` gives the c-th combination by
  division and remainder over how many combinations the later lists have
  (`after`).  That every `after` is the product of the lengths behind it, and so
  what each combination takes of each list, is shown by an induction over the
  positions, written out over the set of positions at which it holds
  (`AllNaturals`).  `SizeAndPlace` gives the place of a combination in closed form,
  and `TensorCases` that this is so for what `cross_tensor` makes of it.  The
  check of lengths makes the lists of a field as long as the first input's in
  every tensor of a case with inputs (`AllLists`), so that all tensors have the
  same place at the same number (`SamePlace`).  `CrossInv` says that the lists, and
  then the combinations, are those of the object at hand, and that the first
  `sub.index` combinations of each output are in sub-cases.  Inputs with several
  distributions give more sub-cases than an output has combinations, never fewer
  (`EnoughCases`), and an index past the last is taken modulo the number of
  outputs and repeats combinations: each output is complete when the loop ends.

- `DimSafety`: `ConvertedWhereRegular`, for tensors of every size, every `C0` and
  every buffer that `DimAssumption` admits.  `ConvInv` says, of a regular tensor,
  that every pixel of a block that is done is in its place (`PlacedBelow`) and,
  between two instructions, that the block at hand is in the buffer in the order
  of the input (`InBlock`) or of the output (`OutBlock`).  It is inductive only
  with what a burst destroys: a column whose length is no multiple of `C0` is
  copied out with up to `C0 - 1` cells too many.  Those cells belong to columns
  that follow in the same copy, and are written again, or to the heads of the next
  channels, which `HeadsKept` has in `output_head_ub` from the backup to the
  restoring; in between, `PlacedButHeads` says that all but these heads are in
  place.  `Sizes` shows that the sizes of the blocks add up to the pixels, which
  needs the tail of several blocks not to be empty; `Order4` and `Order5` that no
  two pixels share a cell, so that a copy of one block leaves the blocks before it
  alone.  When the blocks are done, `AllPlaced` gives each pixel its block, and
  `FourToFiveReference` and `FiveToFourReference` compare quotients and remainders
  of `Reference` with where the blocks went.

Only model-checked is liveness under fairness: `AcceptedReturns`, `AllComplete` and
`Returns`.

## Findings

1. `kernel_cache_limit`: `SetCache` compares the size with the capacity before
   it inserts and evicts only when it is larger (`kernel_cache.h:105`), so a
   stream's cache grows to 257 kernels; the comment at
   `cpu_kernel_cache.cc:33` says "max LRU cache number is 256".  The models and
   proofs use what the code does, `kMaxLRUCacheNum + 1`.
2. `sharder_result`: `ParallelFor` returns success whatever the sharder did
   (`cpu_kernel_utils.cc:216`); when the pool cannot be had or `perUnitSize` is
   not positive, none of the work is done.  The comment at line 203 says
   "0->sucess other->failed".  `AllOrNothing` is what holds.

3. `case_keys`: `check_required_key_valid` appends `st_mode` to the list it is
   given, which is `ConstManager.REQUIRED_KEYS` itself (`case_design.py:30`):
   after one MindSpore case, a case with the four keys that
   `const_manager.py:215` requires is refused.
4. `dim_conv_batch`: a block that is not the last of several is read at
   `idx_n*shape_n*shape_n*shape_n` (`dim_conv.py:424`), where lines 458 and 494
   have `idx_n*shape_c*shape_h*shape_w`: the images after the first get pixels
   of another place.

Observations made while the code was translated; the models have them as the
code does, and the properties are stated so as to hold beside them:

- a kernel that refuses `ComputeAsync` under the blocking `Compute` leaves it
  waiting for ever (`async_cpu_kernel.cc:23`);
- `output_idx` is not advanced (`ascend_tbe_op.py:511`);
- a case without a line in `result.txt` counts as passed
  (`result_comparer.py:167`);
- `_check_op_info` passes an integer as the count that its callee compares
  with, so different numbers of types of inputs and outputs are accepted
  (`case_generator.py:443`);
- outputs of a case without inputs may have lists of different lengths
  (`subcase_design_cross.py:244`), as said of `Paired`;
- on the simulator `ca`, an error of a type that `parse_error` does not know
  raises `KeyError`, and `memcpy` does not retry (`rts_api.py:560`);
- a random constant of type `float` is written as float32 and read as float64,
  and refused for its size (`data_generator.py:266`); one that the user gives as
  a file is read as float32 for the expect function (`data_generator.py:160`) and
  as float64 for `acl_op.json` (`utils.py:687`), which `SameData` leaves out; one
  of a dynamic shape, drawn with that shape, ends in numpy's `ValueError`
  (`utils.py:696`); integers drawn with
  `sigmoid`, `softmax` or `tanh` are saved as doubles (`data_generator.py:107`);
  a case without inputs ends the generation for the cases after it
  (`data_generator.py:182`);
- thresholds up to 0.0025, the help's example `[0.001, 0.001]`
  (`arg_parser.py:121`) among them, are laxer than asked for small numbers, as
  said of `VerdictSound`; a first threshold of 0.0 is accepted (`utils.py:574`) and
  ends in a `ZeroDivisionError` (`compare_data.py:58`);
- the error report of a case's second failed output replaces that of the first
  (`compare_data.py:252`), and `compare_by_path` with error reports ends in an
  `AttributeError` (`result_comparer.py:122`);
- a net with a dynamic and other inputs drops the last of the dynamic ones
  (`ms_op_generator.py:115`);
- `build.sh -u -f` with a missing list runs no C++ test (`build.sh:582`), and a
  Python run without a list leaves the schedule tests out (`run_ut.py:31`);
- a threshold that is no expression ends in a `SyntaxError`
  (`arg_parser.py:314`), and `mi compare` accepts a command without the report
  its help calls required (`arg_parser.py:159`);
- blocks without a tail leave the last one unconverted (`dim_conv.py:329`), the
  last C1 of an image writes over the head of the next (`dim_conv.py:763`), and
  channels behind the last are not zero (`dim_conv.py:518`).

## What is not modelled

- `ops/common`, the protobuf wrappers, registration of kernels and events: no
  state of their own, or state that is fixed before the first launch.
- The text of generated scripts, case files and reports, the tables of
  constants, logging, and the esl simulator's log files: the models keep which
  test, case or row is there.
- The model parser's own reading of TensorFlow graphs, which is done by
  TensorFlow in a child process; its layers are inputs of `CaseGenerator`.
- Random numbers and floating-point rounding: data has an identity in
  `TestData` and is a multiple of a thousandth in `CompareData`.
- The DSL besides `dim_conv.py`: entry points that check arguments and forward
  to `tbe`, which is not in the repository, schedules and tables.
- The interface checker, which works by reflection; packaging; third-party
  headers.

## What could follow

- One behaviour of the system-test tool from the case file to the report, with
  the files between `CaseDesign`, `TestData`, `CompareData` and `StReport` as
  state, once their instances are small enough together.
