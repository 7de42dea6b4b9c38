------------------------------- MODULE RtsApi -------------------------------
(***************************************************************************)
(* AscendRTSApi (rts_api.py): the calls of the Ascend runtime through one    *)
(* object, made in any order on one thread.  Every call hands the code the    *)
(* runtime returns to parse_error, which raises unless it is 0.               *)
(*                                                                         *)
(* The runtime is external (a shared library, or a simulator): rt is what it  *)
(* holds.  It refuses a handle it does not hold, and at most MaxFailures       *)
(* other calls fail.                                                        *)
(***************************************************************************)
EXTENDS Integers, Sequences, FiniteSets

CONSTANTS Modes,         \* NONE (a device), "ca" or another simulator
          NONE, OK,
          ErrorCodes,    \* the codes a failing call may return
          Contexts, Streams, Binaries, Names, Buffers,  \* handles
          MaxRetries,    \* 3 in memcpy
          UserPaths,     \* entries of LD_LIBRARY_PATH before the first load
          MaxFailures, MaxLoads, MaxResets   \* bounds

VARIABLES api,           \* the object; NONE until an __init__ succeeds
          ld_paths,      \* the number of entries of LD_LIBRARY_PATH
          kernel_name_cache,
          rt,            \* the runtime
          copy,          \* the memcpy that runs, or the last one
          raised,        \* the exception of the last call, or NONE
          loads, resets, failures

counts == <<loads, resets>>
vars == <<api, ld_paths, kernel_name_cache, rt, copy, raised, loads, resets, failures>>

NoCopy == [runs |-> FALSE, attempts |-> 0, buffer |-> NONE, written |-> FALSE]

\* What the object holds, what the runtime holds, and a copy.
Apis ==
  [simulator_mode : Modes, device_id : {NONE, 0}, context : Contexts \cup {NONE},
   context_storage : SUBSET Contexts, kernel_binary_storage : SUBSET Binaries,
   kernel_name_storage : SUBSET (Binaries \X Names)]
Runtimes ==
  [contexts : SUBSET Contexts, current : Contexts \cup {NONE}, streams : SUBSET Streams,
   binaries : SUBSET Binaries, functions : SUBSET (Binaries \X Names),
   buffers : SUBSET Buffers, profiled : SUBSET Streams]
Copies ==
  [runs : BOOLEAN, attempts : Nat, buffer : Buffers \cup {NONE}, written : BOOLEAN]

Init ==
  /\ api = NONE /\ ld_paths = UserPaths /\ kernel_name_cache = {}
  /\ rt = [contexts |-> {}, current |-> NONE, streams |-> {}, binaries |-> {},
           functions |-> {}, buffers |-> {}, profiled |-> {}]
  /\ copy = NoCopy /\ raised = NONE /\ loads = 0 /\ resets = 0 /\ failures = 0

Idle == api # NONE /\ ~copy.runs

-----------------------------------------------------------------------------
(* Errors                                                                  *)

\* parse_error, _parse_error_code: a code outside the table of its type is a
\* RuntimeError too.  A simulator "ca" skips the checks of the magic and of
\* the type, so that a type without a table is a KeyError.
parse_error(e) ==
  CASE e = OK -> NONE
    [] api.simulator_mode # "ca" -> "RuntimeError"
    [] e.null_context \/ e.type_known -> "RuntimeError"
    [] OTHER -> "KeyError"

\* A call that succeeds if it may, and takes the runtime to after.
Call(may, after, result) ==
  \/ may /\ rt' = after /\ raised' = NONE /\ result /\ UNCHANGED failures
  \/ \E e \in ErrorCodes :
       /\ may => failures < MaxFailures
       /\ failures' = IF may THEN failures + 1 ELSE failures
       /\ raised' = parse_error(e)
       /\ UNCHANGED <<rt, api>>

-----------------------------------------------------------------------------
(* __init__ and reset                                                      *)

NewApi(mode) ==
  [simulator_mode |-> mode, device_id |-> NONE, context |-> NONE, context_storage |-> {},
   kernel_binary_storage |-> {}, kernel_name_storage |-> {}]

\* _load_runtime_so.
LoadRuntimeSo ==
  /\ api = NONE /\ NONE \in Modes /\ loads < MaxLoads
  /\ loads' = loads + 1
  /\ \/ api' = NewApi(NONE) /\ raised' = NONE
     \/ UNCHANGED api /\ raised' = "RuntimeError"
  /\ UNCHANGED <<ld_paths, kernel_name_cache, rt, copy, resets, failures>>

\* _load_simulator_so: the two directories are added before the libraries
\* are loaded, and stay when one of them cannot be.
LoadSimulatorSo ==
  /\ api = NONE /\ loads < MaxLoads
  /\ loads' = loads + 1
  /\ \/ /\ \E mode \in Modes \ {NONE} : api' = NewApi(mode)
        /\ ld_paths' = ld_paths + 2 /\ raised' = NONE
     \/ UNCHANGED api /\ ld_paths' = ld_paths + 2 /\ raised' = "RuntimeError"
     \/ UNCHANGED <<api, ld_paths>> /\ raised' \in {"RuntimeError", "TypeError", "ValueError"}
  /\ UNCHANGED <<kernel_name_cache, rt, copy, resets, failures>>

\* _clear_env.
ClearEnv == IF api.simulator_mode # NONE /\ ld_paths > 2 THEN ld_paths - 2 ELSE ld_paths

\* The runtime drops what belonged to the device.
Reset ==
  /\ Idle /\ api.device_id # NONE /\ resets < MaxResets
  /\ resets' = resets + 1
  /\ Call(TRUE,
          [rt EXCEPT !.contexts = {}, !.current = NONE, !.streams = {}, !.buffers = {}, !.profiled = {}],
          ld_paths' = ClearEnv /\ UNCHANGED api)
  /\ raised' # NONE => UNCHANGED ld_paths
  /\ UNCHANGED <<kernel_name_cache, copy, loads>>

SetDevice ==
  /\ Idle
  /\ Call(TRUE, rt, api' = [api EXCEPT !.device_id = 0])
  /\ UNCHANGED <<ld_paths, kernel_name_cache, copy, counts>>

-----------------------------------------------------------------------------
(* Contexts and streams                                                    *)

CreateContext ==
  /\ Idle /\ api.device_id # NONE
  /\ \E c \in Contexts \ (rt.contexts \cup api.context_storage) :
       Call(TRUE, [rt EXCEPT !.contexts = @ \cup {c}, !.current = c],
            api' = [api EXCEPT !.context = c, !.context_storage = @ \cup {c}])
  /\ UNCHANGED <<ld_paths, kernel_name_cache, copy, counts>>

ContextAfterDestroy_Kept == api.context
ContextAfterDestroy == NONE

\* Without an argument, of the current context.  A destroyed context stays
\* in context_storage, and the current one is forgotten whichever is
\* destroyed.
DestroyContext ==
  /\ Idle
  /\ \E c \in Contexts \cup {NONE} :
       IF c \notin api.context_storage
       THEN raised' = "ValueError" /\ UNCHANGED <<api, rt, failures>>
       ELSE Call(c \in rt.contexts,
                 [rt EXCEPT !.contexts = @ \ {c}, !.current = IF @ = c THEN NONE ELSE @],
                 api' = [api EXCEPT !.context = ContextAfterDestroy])
  /\ UNCHANGED <<ld_paths, kernel_name_cache, copy, counts>>

SetContext ==
  /\ Idle
  /\ \E c \in Contexts :
       IF c \notin api.context_storage
       THEN raised' = "ValueError" /\ UNCHANGED <<api, rt, failures>>
       ELSE Call(c \in rt.contexts, [rt EXCEPT !.current = c], api' = [api EXCEPT !.context = c])
  /\ UNCHANGED <<ld_paths, kernel_name_cache, copy, counts>>

CreateStream ==
  /\ Idle
  /\ \E s \in Streams \ rt.streams :
       Call(TRUE, [rt EXCEPT !.streams = @ \cup {s}], UNCHANGED api)
  /\ UNCHANGED <<ld_paths, kernel_name_cache, copy, counts>>

DestroyStream ==
  /\ Idle
  /\ \E s \in rt.streams : Call(TRUE, [rt EXCEPT !.streams = @ \ {s}, !.profiled = @ \ {s}], UNCHANGED api)
  /\ UNCHANGED <<ld_paths, kernel_name_cache, copy, counts>>

SynchronizeWithStream ==
  /\ Idle
  /\ \E s \in rt.streams : Call(TRUE, rt, UNCHANGED api)
  /\ UNCHANGED <<ld_paths, kernel_name_cache, copy, counts>>

\* start_online_profiling; stopping and reading need a stream that is profiled.
Profile ==
  /\ Idle
  /\ \E s \in rt.streams : \E on \in BOOLEAN :
       Call(on \/ s \in rt.profiled,
            [rt EXCEPT !.profiled = IF on THEN @ \cup {s} ELSE @ \ {s}], UNCHANGED api)
  /\ UNCHANGED <<ld_paths, kernel_name_cache, copy, counts>>

GetDeviceInfo ==
  /\ Idle
  /\ Call(TRUE, rt, UNCHANGED api)
  /\ UNCHANGED <<ld_paths, kernel_name_cache, copy, counts>>

GetMemoryInfoEx ==
  /\ Idle
  /\ Call(TRUE, rt, UNCHANGED api)
  /\ UNCHANGED <<ld_paths, kernel_name_cache, copy, counts>>

-----------------------------------------------------------------------------
(* Binaries and functions                                                  *)

RegisterDeviceBinaryKernel ==
  /\ Idle
  /\ \E h \in Binaries \ rt.binaries :
       Call(TRUE, [rt EXCEPT !.binaries = @ \cup {h}],
            api' = [api EXCEPT !.kernel_binary_storage = @ \cup {h}])
  /\ UNCHANGED <<ld_paths, kernel_name_cache, copy, counts>>

Unregistered(h) ==
  [api EXCEPT !.kernel_binary_storage = @ \ {h},
              !.kernel_name_storage = {p \in @ : p[1] # h}]

UnregisterFails_Dropped(h) == Unregistered(h)
\* The runtime still has the binary, so its bytes and names are kept.
UnregisterFails(h) == api

UnregisterDeviceBinaryKernel ==
  /\ Idle
  /\ \E h \in api.kernel_binary_storage :
       \/ /\ rt' = [rt EXCEPT !.binaries = @ \ {h}, !.functions = {f \in @ : f[1] # h}]
          /\ api' = Unregistered(h) /\ raised' = NONE /\ UNCHANGED failures
       \/ /\ failures < MaxFailures /\ failures' = failures + 1
          /\ \E e \in ErrorCodes : raised' = parse_error(e)
          /\ api' = UnregisterFails(h) /\ UNCHANGED rt
  /\ UNCHANGED <<ld_paths, kernel_name_cache, copy, counts>>

\* The name is in the cache of the process before the call.
RegisterFunction ==
  /\ Idle
  /\ \E h \in api.kernel_binary_storage : \E name \in Names :
       /\ kernel_name_cache' = kernel_name_cache \cup {<<h, name>>}
       /\ Call(h \in rt.binaries, [rt EXCEPT !.functions = @ \cup {<<h, name>>}],
               api' = [api EXCEPT !.kernel_name_storage = @ \cup {<<h, name>>}])
  /\ UNCHANGED <<ld_paths, copy, counts>>

LaunchKernel ==
  /\ Idle
  /\ \E f \in rt.functions : Call(f[1] \in rt.binaries, rt, UNCHANGED api)
  /\ UNCHANGED <<ld_paths, kernel_name_cache, copy, counts>>

-----------------------------------------------------------------------------
(* Memory                                                                  *)

Malloc ==
  /\ Idle
  /\ \E b \in Buffers \ rt.buffers : Call(TRUE, [rt EXCEPT !.buffers = @ \cup {b}], UNCHANGED api)
  /\ UNCHANGED <<ld_paths, kernel_name_cache, copy, counts>>

\* host_malloc, host_free: of memory that is not the device's.
HostMemory ==
  /\ Idle
  /\ Call(TRUE, rt, UNCHANGED api)
  /\ UNCHANGED <<ld_paths, kernel_name_cache, copy, counts>>

\* copy_bin_to_hbm: a failing malloc is logged with what get_memory_info_ex
\* returns, which may raise in its place.
CopyBinToHbm ==
  /\ Idle
  /\ \/ \E b \in Buffers \ rt.buffers :
          /\ rt' = [rt EXCEPT !.buffers = @ \cup {b}] /\ raised' = NONE
          /\ copy' = [NoCopy EXCEPT !.runs = TRUE, !.buffer = b]
          /\ UNCHANGED failures
     \/ /\ failures < MaxFailures /\ failures' = failures + 1
        /\ \E e \in ErrorCodes : raised' = parse_error(e)
        /\ UNCHANGED <<rt, copy>>
     \/ raised' = "TypeError" /\ UNCHANGED <<rt, copy, failures>>
  /\ UNCHANGED <<api, ld_paths, kernel_name_cache, counts>>

\* get_data_from_hbm, of a buffer into host memory it allocates.
GetDataFromHbm ==
  /\ Idle
  /\ \/ /\ \E b \in rt.buffers : copy' = [NoCopy EXCEPT !.runs = TRUE, !.buffer = b]
        /\ raised' = NONE /\ UNCHANGED failures
     \/ /\ failures < MaxFailures /\ failures' = failures + 1
        /\ \E e \in ErrorCodes : raised' = parse_error(e)
        /\ UNCHANGED copy
  /\ UNCHANGED <<api, ld_paths, kernel_name_cache, rt, counts>>

Retries_Lost(attempts) == TRUE
\* retry_count, passed on to the call that is made from the handler.
Retries(attempts) == attempts - 1 < MaxRetries

\* memcpy: one call of rtMemcpy.  Only a RuntimeError is retried.
MemcpyAttempt ==
  /\ copy.runs
  /\ \/ /\ copy' = [copy EXCEPT !.runs = FALSE, !.attempts = @ + 1, !.written = TRUE]
        /\ raised' = NONE /\ UNCHANGED failures
     \/ /\ failures < MaxFailures /\ failures' = failures + 1
        /\ \E e \in ErrorCodes :
             IF parse_error(e) = "RuntimeError" /\ Retries(copy.attempts + 1)
             THEN copy' = [copy EXCEPT !.attempts = @ + 1] /\ UNCHANGED raised
             ELSE copy' = [copy EXCEPT !.runs = FALSE, !.attempts = @ + 1] /\ raised' = parse_error(e)
  /\ UNCHANGED <<api, ld_paths, kernel_name_cache, rt, counts>>

Memset ==
  /\ Idle /\ rt.buffers # {}
  /\ Call(TRUE, rt, UNCHANGED api)
  /\ UNCHANGED <<ld_paths, kernel_name_cache, copy, counts>>

Free ==
  /\ Idle
  /\ \E b \in rt.buffers : Call(TRUE, [rt EXCEPT !.buffers = @ \ {b}], UNCHANGED api)
  /\ UNCHANGED <<ld_paths, kernel_name_cache, copy, counts>>

-----------------------------------------------------------------------------
Next ==
  \/ LoadRuntimeSo \/ LoadSimulatorSo \/ SetDevice \/ Reset
  \/ CreateContext \/ DestroyContext \/ SetContext
  \/ CreateStream \/ DestroyStream \/ SynchronizeWithStream \/ Profile \/ GetDeviceInfo \/ GetMemoryInfoEx
  \/ RegisterDeviceBinaryKernel \/ UnregisterDeviceBinaryKernel \/ RegisterFunction \/ LaunchKernel
  \/ CopyBinToHbm \/ GetDataFromHbm \/ MemcpyAttempt \/ Memset
  \/ Malloc \/ HostMemory \/ Free

Spec == Init /\ [][Next]_vars

-----------------------------------------------------------------------------
(* Properties                                                              *)

\* Until the device is reset, the context the object takes for the current
\* one is the one the runtime has made current, through creations, switches
\* and destructions of which any may fail, and of contexts that are gone
\* but still in context_storage (create_context, destroy_context,
\* set_context).
CurrentAgrees ==
  api # NONE /\ resets = 0 => api.context \in {NONE, rt.current}

\* The bytes of every binary the runtime holds are kept, and the names of
\* every function: the runtime has their addresses
\* (register_device_binary_kernel, unregister_device_binary_kernel,
\* register_function).
AddressesKept ==
  /\ api # NONE => rt.binaries \subseteq api.kernel_binary_storage
  /\ rt.functions \subseteq kernel_name_cache
  /\ api # NONE => rt.functions \subseteq api.kernel_name_storage

\* A copy takes at most 1 + 3 calls, succeeds exactly if the last of them
\* does, and raises "After three retrys,memcpy still fails" only after all
\* of them (memcpy).
CopyAttempts ==
  /\ copy.attempts <= 1 + MaxRetries
  /\ ~copy.runs /\ copy.attempts > 0 /\ ~copy.written =>
       copy.attempts = 1 + MaxRetries \/ api.simulator_mode = "ca"
=============================================================================
