--------------------------- MODULE OpKernelRunner ---------------------------
(***************************************************************************)
(* Device memory under AscendOpKernelRunner and AscendOpKernelParam          *)
(* (ascend_tbe_op.py) over AscendRTSApi (rts_api.py).                        *)
(*                                                                         *)
(* One client thread opens a runner at a time, builds parameters, runs       *)
(* kernels, fetches results and leaves the runner; parameters and kernels    *)
(* outlive a runner.  The runtime library is external: any call of it may    *)
(* return an error, of which parse_error makes an exception.  A copy fails   *)
(* here when memcpy has tried it four times.  A step is one runtime call.    *)
(* Host buffers of get_data_from_hbm are never freed and not modelled.       *)
(***************************************************************************)
EXTENDS Integers, Sequences, FiniteSets

CONSTANTS Params,         \* 1..n, AscendOpKernelParam objects in order of creation
          Buffers,        \* 1..m, places in device memory
          Kernels,
          Info,           \* what each kernel's json file and compilation say
          Profiled,       \* runners made with profiling
          profiling_times,
          Inputs,         \* the lists of inputs a client passes
          RAW,            \* stands for data that is not an AscendOpKernelParam
          Refs,           \* the values of output_input_ref
          MaxRunners, MaxRuns, MaxFailures

NULL == 0                 \* no pointer, no runner
JUNK == -1                \* unspecified bytes; for a parameter, no data
ZERO == -2                \* what memset leaves
HOST == 0                 \* the data the client gave; run n's result is n

ASSUME ConstantsAssumption ==
  /\ Params \subseteq Nat \ {0} /\ Buffers \subseteq Nat \ {0}
  /\ MaxRunners \in Nat /\ MaxRuns \in Nat /\ MaxFailures \in Nat
  /\ profiling_times \in Nat \ {0}
  /\ Profiled \subseteq 1..MaxRunners
  /\ Info \in [Kernels -> [outputs : Nat, workspace : Nat, need_do_tiling : BOOLEAN]]
  /\ RAW \notin Params
  /\ Inputs \subseteq Seq(Params \cup {RAW})
  /\ \A refs \in Refs : 0 \in DOMAIN refs => refs[0] \in Int

VARIABLES
  live,                   \* the allocated buffers
  mem,                    \* what each buffer holds
  param,                  \* the parameters: _hbm_pointer, _np_data, _ascend_device
  made,                   \* those constructed so far
  runner,                 \* number of runners made, the last of which may be open
  open,                   \* whether it is
  _kernel_params,         \* of each runner
  binaries,               \* registrations of each kernel's binary
  stub_func_p,            \* whether each kernel believes it is registered
  profiling,              \* whether profiling is started on the stream
  pc, run,                \* where the client is, and the locals of run
  runs, failures,         \* counted for the bounds
  raised,                 \* history: an exception since the device was last reset
  failed,                 \* history: runners whose __exit__ raised
  lost,                   \* history: a reset after one did
  latest                  \* history: what was last written to a parameter

vars == <<live, mem, param, made, runner, open, _kernel_params, binaries, stub_func_p,
          profiling, pc, run, runs, failures, raised, failed, lost, latest>>

device  == <<live, mem>>
objects == <<param, made, latest>>
runners == <<runner, open, _kernel_params, failed, lost>>
kernels == <<binaries, stub_func_p, profiling>>

NoRun == [kernel |-> NULL, todo |-> <<>>, refs |-> <<>>, outputs |-> 0, input_params |-> <<>>,
          output_params |-> <<>>, kernel_args |-> <<>>, workspace |-> <<>>, tiling |-> <<>>,
          times |-> 0]

Init ==
  /\ live = {} /\ mem = [b \in Buffers |-> JUNK]
  /\ param = [p \in Params |-> [ptr |-> NULL, data |-> JUNK, dev |-> NULL]]
  /\ made = {} /\ latest = [p \in Params |-> JUNK]
  /\ runner = 0 /\ open = FALSE /\ _kernel_params = [r \in 1..MaxRunners |-> <<>>]
  /\ binaries = [k \in Kernels |-> 0] /\ stub_func_p = [k \in Kernels |-> FALSE]
  /\ profiling = FALSE
  /\ pc = "idle" /\ run = NoRun /\ runs = 0 /\ failures = 0
  /\ raised = FALSE /\ failed = {} /\ lost = FALSE

Elements(s) == {s[i] : i \in 1..Len(s)}
Fresh(S) == CHOOSE x \in S : \A y \in S : x <= y
Unused == Buffers \ live
NewParam == Fresh(Params \ made)

Goto(l) == pc' = l
Quiet == UNCHANGED <<failures, raised>>

\* An exception ends the operation; the client catches it or leaves the runner.
Throw == raised' = TRUE /\ Goto("idle") /\ run' = NoRun

\* A runtime call fails, of which parse_error makes an exception.
Raise == failures < MaxFailures /\ failures' = failures + 1 /\ Throw

\* malloc, and what the caller puts there.
Malloc(v) ==
  /\ Unused # {}
  /\ live' = live \cup {Fresh(Unused)} /\ mem' = [mem EXCEPT ![Fresh(Unused)] = v]

\* malloc fails, for want of memory or otherwise; or it succeeds and the copy
\* or fill of the new buffer fails: then nothing refers to the buffer.
MallocFails ==
  /\ Raise \/ (Unused = {} /\ Throw /\ UNCHANGED failures)
  /\ UNCHANGED device
FillFails   == Raise /\ Malloc(JUNK)

Listed(p) ==
  IF p \in Elements(_kernel_params[runner]) THEN _kernel_params[runner]
  ELSE Append(_kernel_params[runner], p)

KeepParam(p) == _kernel_params' = [_kernel_params EXCEPT ![runner] = Listed(p)]

-----------------------------------------------------------------------------
\* The constructor: set_device and create_stream.  If one fails there is no
\* runner, and nothing of this state has changed.
Open ==
  /\ pc = "idle" /\ ~open /\ runner < MaxRunners
  /\ runner' = runner + 1 /\ open' = TRUE /\ profiling' = FALSE
  /\ UNCHANGED <<device, objects, _kernel_params, binaries, stub_func_p, pc, run, runs,
                 failures, raised, failed, lost>>

\* build_op_param_by_np_data, build_op_param_by_data_file: on the host only.
MakeParam ==
  /\ pc = "idle" /\ made # Params
  /\ made' = made \cup {NewParam}
  /\ param' = [param EXCEPT ![NewParam].data = HOST]
  /\ UNCHANGED <<device, latest, runners, kernels, pc, run, runs, failures, raised>>

\* sync_to_device of p, whose np_data is on the host.  What is on the device
\* already is not to be copied over.
SyncToDevice(p) ==
  /\ Malloc(param[p].data)
  /\ param' = [param EXCEPT ![p].ptr = Fresh(Unused), ![p].dev = runner]
  /\ latest' = [latest EXCEPT ![p] = IF param[p].ptr = NULL THEN param[p].data ELSE @]

\* build_kernel_param, by the client or for raw data among the inputs: the
\* new parameter is listed once it is on the device.
BuildParam ==
  /\ made # Params
  /\ made' = made \cup {NewParam}
  /\ Malloc(HOST)
  /\ param' = [param EXCEPT ![NewParam] =
                 [ptr |-> Fresh(Unused), data |-> HOST, dev |-> runner]]
  /\ latest' = [latest EXCEPT ![NewParam] = HOST]
  /\ KeepParam(NewParam)

BuildKernelParam ==
  /\ pc = "idle" /\ open
  /\ \/ BuildParam /\ Quiet /\ UNCHANGED <<pc, run>>
     \/ (MallocFails \/ FillFails) /\ UNCHANGED <<objects, _kernel_params>>
  /\ UNCHANGED <<runner, open, failed, lost, kernels, runs>>

-----------------------------------------------------------------------------
\* run, up to _fill_inputs.
StartRun(k, ins, refs) ==
  /\ pc = "idle" /\ open /\ runs < MaxRuns
  /\ Elements(ins) \subseteq made \cup {RAW}
  /\ runs' = runs + 1 /\ Goto("inputs")
  /\ run' = [NoRun EXCEPT !.kernel = k, !.todo = ins, !.refs = refs]
  /\ UNCHANGED <<device, objects, runners, kernels, failures, raised>>

AddInput(p, ptr, passed) ==
  run' = [run EXCEPT !.todo = Tail(@), !.kernel_args = Append(@, ptr),
                     !.input_params = IF passed THEN Append(@, p) ELSE @]

IsInDevice_Never(p) == FALSE
is_in_device(p) == param[p].ptr # NULL

\* _fill_inputs, one input: a parameter is listed, and copied unless it is on
\* the device; one whose only data was on the device has none left to copy.
FillInput ==
  /\ pc = "inputs" /\ run.todo # <<>>
  /\ LET p == Head(run.todo) IN
     \/ /\ p = RAW
        /\ \/ /\ BuildParam /\ AddInput(NewParam, Fresh(Unused), FALSE)
              /\ Quiet /\ UNCHANGED pc
           \/ (MallocFails \/ FillFails) /\ UNCHANGED <<objects, _kernel_params>>
     \/ /\ p # RAW /\ is_in_device(p)
        /\ KeepParam(p) /\ AddInput(p, param[p].ptr, TRUE)
        /\ Quiet /\ UNCHANGED <<device, objects, pc>>
     \/ /\ p # RAW /\ ~is_in_device(p) /\ param[p].data # JUNK
        /\ KeepParam(p) /\ UNCHANGED made
        /\ \/ /\ SyncToDevice(p) /\ AddInput(p, Fresh(Unused), TRUE)
              /\ Quiet /\ UNCHANGED pc
           \/ /\ MallocFails \/ FillFails
              /\ param' = [param EXCEPT ![p].dev = runner] /\ UNCHANGED latest
     \/ /\ p # RAW /\ ~is_in_device(p) /\ param[p].data = JUNK
        /\ KeepParam(p) /\ Throw
        /\ param' = [param EXCEPT ![p].dev = runner]
        /\ UNCHANGED <<device, made, latest, failures>>
  /\ UNCHANGED <<runner, open, failed, lost, kernels, runs>>

\* The input a new output refers to: output_idx is 0 for every output.
RefOf(refs) == IF 0 \in DOMAIN refs THEN {refs[0]} ELSE {}

\* What index i means in a list of n, a negative one from its end.
InList(i, n) == -n <= i /\ i < n
Position(i, n) == IF i < 0 THEN n + i + 1 ELSE i + 1

AddOutput(p, ptr) ==
  run' = [run EXCEPT !.outputs = @ + 1, !.output_params = Append(@, p),
                     !.kernel_args = Append(@, ptr)]

\* _fill_outputs, one output: an input again, or a new buffer filled with 0.
FillOutput ==
  /\ pc = "inputs" /\ run.todo = <<>> /\ run.outputs < Info[run.kernel].outputs
  /\ \/ \E i \in RefOf(run.refs) :
          \/ /\ InList(i, Len(run.input_params))
             /\ LET p == run.input_params[Position(i, Len(run.input_params))] IN
                  AddOutput(p, param[p].ptr) /\ KeepParam(p)
             /\ Quiet /\ UNCHANGED <<device, objects, pc>>
          \/ /\ ~InList(i, Len(run.input_params))
             /\ Throw /\ UNCHANGED <<device, objects, _kernel_params, failures>>
     \/ /\ RefOf(run.refs) = {} /\ made # Params
        /\ Malloc(ZERO) /\ made' = made \cup {NewParam}
        /\ param' = [param EXCEPT ![NewParam] =
                       [ptr |-> Fresh(Unused), data |-> JUNK, dev |-> runner]]
        /\ latest' = [latest EXCEPT ![NewParam] = ZERO]
        /\ AddOutput(NewParam, Fresh(Unused)) /\ KeepParam(NewParam)
        /\ Quiet /\ UNCHANGED pc
     \/ /\ RefOf(run.refs) = {}
        /\ (MallocFails \/ FillFails) /\ UNCHANGED <<objects, _kernel_params>>
  /\ UNCHANGED <<runner, open, failed, lost, kernels, runs>>

FilledOutputs ==
  pc = "inputs" /\ run.todo = <<>> /\ run.outputs = Info[run.kernel].outputs

\* _fill_workspace, one buffer.
FillWorkspace ==
  /\ FilledOutputs /\ Len(run.workspace) < Info[run.kernel].workspace
  /\ \/ /\ Malloc(JUNK) /\ Quiet /\ UNCHANGED pc
        /\ run' = [run EXCEPT !.workspace = Append(@, Fresh(Unused)),
                              !.kernel_args = Append(@, Fresh(Unused))]
     \/ MallocFails
  /\ UNCHANGED <<objects, runners, kernels, runs>>

Launches == IF runner \in Profiled THEN profiling_times ELSE 1

\* _fill_tiling.  The client may have given no tiling data.
FillTiling ==
  /\ FilledOutputs /\ Len(run.workspace) = Info[run.kernel].workspace
  /\ \/ /\ ~Info[run.kernel].need_do_tiling
        /\ run' = [run EXCEPT !.times = Launches]
        /\ Goto("execute") /\ Quiet /\ UNCHANGED device
     \/ /\ Info[run.kernel].need_do_tiling /\ Malloc(HOST)
        /\ run' = [run EXCEPT !.tiling = <<Fresh(Unused)>>,
                              !.kernel_args = Append(@, Fresh(Unused)),
                              !.times = Launches]
        /\ Goto("execute") /\ Quiet
     \/ /\ Info[run.kernel].need_do_tiling
        /\ \/ MallocFails \/ FillFails
           \/ Throw /\ UNCHANGED <<device, failures>>
  /\ UNCHANGED <<objects, runners, kernels, runs>>

-----------------------------------------------------------------------------
\* _execute_kernel: profiling, registration, launches, profiling data.
StartProfiling ==
  /\ pc = "execute"
  /\ \/ /\ profiling' = (profiling \/ runner \in Profiled)
        /\ Goto("register") /\ Quiet /\ UNCHANGED run
     \/ runner \in Profiled /\ Raise /\ UNCHANGED profiling
  /\ UNCHANGED <<device, objects, runners, binaries, stub_func_p, runs>>

is_registered_to_device(k) == stub_func_p[k]

\* The function is registered after the binary: when it fails, the binary
\* stays registered and the kernel does not know of it.
Register ==
  /\ pc = "register"
  /\ \/ /\ is_registered_to_device(run.kernel)
        /\ Goto("launch") /\ Quiet /\ UNCHANGED <<run, binaries, stub_func_p>>
     \/ /\ ~is_registered_to_device(run.kernel)
        /\ binaries' = [binaries EXCEPT ![run.kernel] = @ + 1]
        /\ \/ /\ stub_func_p' = [stub_func_p EXCEPT ![run.kernel] = TRUE]
              /\ Goto("launch") /\ Quiet /\ UNCHANGED run
           \/ Raise /\ UNCHANGED stub_func_p
     \/ /\ ~is_registered_to_device(run.kernel)
        /\ Raise /\ UNCHANGED <<binaries, stub_func_p>>
  /\ UNCHANGED <<device, objects, runners, profiling, runs>>

OutputBuffers == {param[p].ptr : p \in Elements(run.output_params)}

Written ==
  /\ mem' = [b \in Buffers |-> IF b \in OutputBuffers THEN runs ELSE mem[b]]
  /\ latest' = [p \in Params |->
                  IF p \in Elements(run.output_params) THEN runs ELSE latest[p]]

\* launch_kernel and synchronize_with_stream.  A kernel writes its outputs; if
\* the launch or the wait fails it may have, or not.
Launch ==
  /\ pc = "launch" /\ run.times > 0
  /\ \/ /\ Written /\ run' = [run EXCEPT !.times = @ - 1] /\ Quiet /\ UNCHANGED pc
     \/ Raise /\ (Written \/ UNCHANGED <<mem, latest>>)
  /\ UNCHANGED <<live, param, made, runners, kernels, runs>>

StopProfiling ==
  /\ pc = "launch" /\ run.times = 0
  /\ \/ /\ profiling' = (profiling /\ runner \notin Profiled)
        /\ Goto("free") /\ Quiet /\ UNCHANGED run
     \/ runner \in Profiled /\ Raise /\ UNCHANGED profiling
  /\ UNCHANGED <<device, objects, runners, binaries, stub_func_p, runs>>

Temporary_NoTiling == run.workspace
Temporary == run.workspace \o run.tiling

\* The frees at the end of run, one buffer each; after the last it returns.
FreeTemporary ==
  /\ pc = "free" /\ Temporary # <<>>
  /\ \/ /\ live' = live \ {Head(Temporary)} /\ Quiet /\ UNCHANGED pc
        /\ run' = IF run.workspace # <<>> THEN [run EXCEPT !.workspace = Tail(@)]
                                         ELSE [run EXCEPT !.tiling = Tail(@)]
     \/ Raise /\ UNCHANGED live
  /\ UNCHANGED <<mem, objects, runners, kernels, runs>>

Return ==
  /\ pc = "free" /\ Temporary = <<>>
  /\ Goto("idle") /\ run' = NoRun
  /\ UNCHANGED <<device, objects, runners, kernels, runs, failures, raised>>

-----------------------------------------------------------------------------
\* get_data and sync_from_device: whoever holds the parameter may ask for its
\* data, during a runner's life or after.
GetData(p) ==
  /\ pc = "idle" /\ p \in made
  /\ param[p].dev # NULL /\ param[p].ptr # NULL
  /\ \/ /\ param' = [param EXCEPT ![p].data = mem[param[p].ptr]]
        /\ Quiet /\ UNCHANGED <<pc, run>>
     \/ Raise /\ UNCHANGED param
  /\ UNCHANGED <<device, made, latest, runners, kernels, runs>>

Exit ==
  /\ pc = "idle" /\ open
  /\ run' = [NoRun EXCEPT !.todo = _kernel_params[runner]] /\ Goto("release")
  /\ UNCHANGED <<device, objects, runners, kernels, runs, failures, raised>>

\* An exception from __exit__: what comes after it is not done.
ExitRaises == Raise /\ open' = FALSE /\ failed' = failed \cup {runner}

Released_KeepPointer(x) == [x EXCEPT !.dev = NULL]
Released(x) == [x EXCEPT !.ptr = NULL, !.dev = NULL]

\* release_device of the next parameter.
ReleaseDevice ==
  /\ pc = "release" /\ run.todo # <<>>
  /\ LET p == Head(run.todo)
         frees == param[p].dev # NULL /\ param[p].ptr # NULL IN
     \/ /\ live' = IF frees THEN live \ {param[p].ptr} ELSE live
        /\ param' = [param EXCEPT ![p] = Released(@)]
        /\ run' = [run EXCEPT !.todo = Tail(@)]
        /\ Quiet /\ UNCHANGED <<pc, open, failed>>
     \/ frees /\ ExitRaises /\ UNCHANGED <<live, param>>
  /\ UNCHANGED <<mem, made, latest, runner, _kernel_params, lost, kernels, runs>>

\* destroy_stream, then reset, by which the device takes all its memory back.
Reset ==
  /\ pc = "release" /\ run.todo = <<>>
  /\ \/ /\ live' = {} /\ raised' = FALSE /\ open' = FALSE /\ profiling' = FALSE
        /\ Goto("idle") /\ run' = NoRun /\ lost' = (lost \/ failed # {})
        /\ UNCHANGED <<failures, failed>>
     \/ ExitRaises /\ UNCHANGED <<live, profiling, lost>>
  /\ UNCHANGED <<mem, objects, runner, _kernel_params, binaries, stub_func_p, runs>>

-----------------------------------------------------------------------------
Next ==
  \/ Open \/ MakeParam \/ BuildKernelParam
  \/ \E k \in Kernels, ins \in Inputs, refs \in Refs : StartRun(k, ins, refs)
  \/ FillInput \/ FillOutput \/ FillWorkspace \/ FillTiling
  \/ StartProfiling \/ Register \/ Launch \/ StopProfiling
  \/ FreeTemporary \/ Return
  \/ \E p \in Params : GetData(p)
  \/ Exit \/ ReleaseDevice \/ Reset

Spec == Init /\ [][Next]_vars

-----------------------------------------------------------------------------
OnDevice == {p \in made : param[p].ptr # NULL}

\* A parameter that says it is on the device has a buffer there, its own, and
\* is listed by a runner that will release it or has failed to, through failed
\* runs, releases and runners that raise when they are left.  Only a reset
\* after such a failure leaves pointers to memory that is gone.
PointersLive ==
  ~lost => \A p \in OnDevice :
    /\ param[p].ptr \in live
    /\ \A q \in OnDevice \ {p} : param[q].ptr # param[p].ptr
    /\ \E r \in failed \cup {runner} :
         (r = runner => open \/ r \in failed) /\ p \in Elements(_kernel_params[r])

\* Between operations the device holds the buffers of parameters and no
\* other, and profiling has stopped; before the reset it holds none; unless
\* something has failed.
NoLeak ==
  ~raised /\ ~lost =>
    /\ pc = "idle" => ~profiling /\ live = {param[p].ptr : p \in OnDevice}
    /\ pc = "release" /\ run.todo = <<>> => live = {}

\* A parameter's buffer holds what was last copied or computed into it:
\* neither another parameter's copy, nor a kernel that does not have it
\* among its outputs, nor a re-used address changes it.
HoldsLatest ==
  ~lost => \A p \in OnDevice : mem[param[p].ptr] = latest[p]

=============================================================================
