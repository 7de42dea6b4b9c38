----------------------------- MODULE ToolsProofs -----------------------------
(***************************************************************************)
(* The properties of the Python programs that hold for every handle, every  *)
(* input and every bound: each is proved of the program by itself, from an   *)
(* inductive invariant over its own variables, and carried over to Tools.   *)
(***************************************************************************)
EXTENDS Tools, FiniteSetTheorems, SequenceTheorems, TLAPS

-----------------------------------------------------------------------------
(* AscendRTSApi                                                             *)

\* The three properties with what makes them inductive: the types, that before
\* the first __init__ the runtime has been given nothing, and that a copy that
\* still runs has a call left.
RtsInv ==
  /\ api \in Rts!Apis \cup {NONE}
  /\ rt \in Rts!Runtimes
  /\ copy \in Rts!Copies /\ resets \in Nat
  /\ api = NONE => rt.binaries = {} /\ rt.functions = {} /\ copy = Rts!NoCopy
  /\ copy.runs => copy.attempts <= MaxRetries
  /\ Rts!CurrentAgrees /\ Rts!AddressesKept /\ Rts!CopyAttempts

\* What a call made while no copy runs must leave of the object and the runtime.
Agrees ==
  /\ api' \in Rts!Apis /\ rt' \in Rts!Runtimes
  /\ api'.simulator_mode = api.simulator_mode
  /\ resets' = 0 => api'.context \in {NONE, rt'.current}
  /\ rt'.binaries \subseteq api'.kernel_binary_storage
  /\ rt'.functions \subseteq kernel_name_cache'
  /\ rt'.functions \subseteq api'.kernel_name_storage

\* It is enough for the invariant: the copy is that of before.
LEMMA AgreesKeeps ==
  ASSUME RtsInv, Rts!Idle, Agrees, UNCHANGED copy, resets' \in Nat
  PROVE  RtsInv'
  BY RtsAssumption
      DEF RtsInv, Agrees, Rts!Idle, Rts!CurrentAgrees, Rts!AddressesKept, Rts!CopyAttempts

\* A call the runtime refuses leaves both as they were; register_function has
\* put its name in the cache by then.
LEMMA FailingCall ==
  ASSUME RtsInv, Rts!Idle, UNCHANGED <<rt, api, copy, resets>>,
         kernel_name_cache \subseteq kernel_name_cache'
  PROVE  RtsInv'
  <1>1. Agrees
    BY DEF Agrees, RtsInv, Rts!Idle, Rts!CurrentAgrees, Rts!AddressesKept
  <1> QED BY <1>1, AgreesKeeps DEF RtsInv

\* Streams, buffers and profiling are no business of the object.
LEMMA HandlesCall ==
  ASSUME RtsInv, Rts!Idle, UNCHANGED <<api, copy, resets, kernel_name_cache>>,
         rt' \in Rts!Runtimes, rt'.current = rt.current,
         rt'.binaries = rt.binaries, rt'.functions = rt.functions
  PROVE  RtsInv'
  <1>1. Agrees
    BY DEF Agrees, RtsInv, Rts!Idle, Rts!CurrentAgrees, Rts!AddressesKept
  <1> QED BY <1>1, AgreesKeeps DEF RtsInv

\* A context the runtime makes current, or none, is what the object notes.
LEMMA ContextCall ==
  ASSUME RtsInv, Rts!Idle, UNCHANGED <<copy, resets, kernel_name_cache>>,
         NEW S \in SUBSET Contexts, NEW c \in Contexts \cup {NONE},
         NEW K \in SUBSET Contexts, NEW d \in {NONE, c},
         rt' = [rt EXCEPT !.contexts = S, !.current = c],
         api' = [api EXCEPT !.context = d, !.context_storage = K]
  PROVE  RtsInv'
  <1>1. /\ rt' \in Rts!Runtimes /\ rt'.current = c
        /\ rt'.binaries = rt.binaries /\ rt'.functions = rt.functions
    BY DEF RtsInv, Rts!Runtimes
  <1>2. /\ api' \in Rts!Apis /\ api'.context = d
        /\ api'.kernel_binary_storage = api.kernel_binary_storage
        /\ api'.kernel_name_storage = api.kernel_name_storage
        /\ api'.simulator_mode = api.simulator_mode
    BY DEF RtsInv, Rts!Apis, Rts!Idle
  <1>3. Agrees
    BY <1>1, <1>2 DEF Agrees, RtsInv, Rts!Idle, Rts!AddressesKept
  <1> QED BY <1>3, AgreesKeeps DEF RtsInv

\* The fields of a copy after a call of rtMemcpy that is its last.
LEMMA CopyFields ==
  ASSUME NEW c \in Rts!Copies, NEW n \in Nat
  PROVE  /\ LET d == [c EXCEPT !.runs = FALSE, !.attempts = n] IN
              d \in Rts!Copies /\ d.runs = FALSE /\ d.attempts = n
         /\ LET d == [c EXCEPT !.runs = FALSE, !.attempts = n, !.written = TRUE] IN
              d \in Rts!Copies /\ d.runs = FALSE /\ d.attempts = n /\ d.written = TRUE
  BY DEF Rts!Copies

\* A copy starts with all its calls before it.
LEMMA CopyStarts ==
  ASSUME RtsInv, Rts!Idle, UNCHANGED <<api, resets, kernel_name_cache>>,
         rt' \in Rts!Runtimes, rt'.current = rt.current,
         rt'.binaries = rt.binaries, rt'.functions = rt.functions,
         NEW b \in Buffers, copy' = [Rts!NoCopy EXCEPT !.runs = TRUE, !.buffer = b]
  PROVE  RtsInv'
  <1>1. copy' \in Rts!Copies /\ copy'.runs = TRUE /\ copy'.attempts = 0
    BY DEF Rts!Copies, Rts!NoCopy
  <1>2. Rts!CopyAttempts' /\ (copy.runs => copy.attempts <= MaxRetries)'
    BY <1>1, RtsAssumption DEF Rts!CopyAttempts
  <1> QED BY <1>1, <1>2 DEF RtsInv, Rts!Idle, Rts!CurrentAgrees, Rts!AddressesKept

\* No runtime call has been made before the first __init__.
LEMMA RtsInit == Rts!Init => RtsInv
  BY RtsAssumption DEF Rts!Init, RtsInv, Rts!Apis, Rts!Runtimes, Rts!Copies, Rts!NoCopy,
    Rts!CurrentAgrees, Rts!AddressesKept, Rts!CopyAttempts

\* One case for each method of AscendRTSApi.
LEMMA RtsNext == RtsInv /\ Rts!Next => RtsInv'
  <1> SUFFICES ASSUME RtsInv PROVE Rts!Next => RtsInv'
    OBVIOUS
  <1> USE DEF Rts!counts
  <1>1. CASE Rts!LoadRuntimeSo \/ Rts!LoadSimulatorSo
    <2>1. /\ api = NONE /\ UNCHANGED <<kernel_name_cache, rt, copy, resets>>
          /\ UNCHANGED api \/ \E mode \in Modes : api' = Rts!NewApi(mode)
      BY <1>1 DEF Rts!LoadRuntimeSo, Rts!LoadSimulatorSo
    <2>2. CASE UNCHANGED api
      BY <2>1, <2>2 DEF RtsInv, Rts!CurrentAgrees, Rts!AddressesKept, Rts!CopyAttempts
    <2>3. ASSUME NEW mode \in Modes, api' = Rts!NewApi(mode)
          PROVE  RtsInv'
      <3>1. api' \in Rts!Apis /\ api'.context = NONE
        BY <2>3 DEF Rts!NewApi, Rts!Apis
      <3>2. copy.attempts = 0 /\ rt.binaries = {} /\ rt.functions = {}
        BY <2>1 DEF RtsInv, Rts!NoCopy
      <3> QED BY <2>1, <3>1, <3>2, RtsAssumption DEF RtsInv, Rts!NoCopy, Rts!CurrentAgrees,
            Rts!AddressesKept, Rts!CopyAttempts
    <2> QED BY <2>1, <2>2, <2>3
  <1>2. CASE Rts!SetDevice
    <2>1. /\ Rts!Idle /\ UNCHANGED <<rt, copy, resets, kernel_name_cache>>
          /\ api' = [api EXCEPT !.device_id = 0] \/ UNCHANGED api
      BY <1>2 DEF Rts!SetDevice, Rts!Call
    <2>2. CASE UNCHANGED api
      BY <2>1, <2>2, FailingCall
    <2>3. CASE api' = [api EXCEPT !.device_id = 0]
      <3>1. Agrees
        BY <2>1, <2>3 DEF Agrees, RtsInv, Rts!Apis, Rts!Idle, Rts!CurrentAgrees,
          Rts!AddressesKept
      <3> QED BY <2>1, <3>1, AgreesKeeps DEF RtsInv
    <2> QED BY <2>1, <2>2, <2>3
  <1>3. CASE Rts!Reset
    <2>1. /\ Rts!Idle /\ UNCHANGED <<api, copy, kernel_name_cache>>
          /\ resets' = resets + 1
          /\ \/ UNCHANGED rt
             \/ rt' = [rt EXCEPT !.contexts = {}, !.current = NONE, !.streams = {},
                                 !.buffers = {}, !.profiled = {}]
      BY <1>3 DEF Rts!Reset, Rts!Call
    <2>2. rt' \in Rts!Runtimes /\ rt'.binaries = rt.binaries /\ rt'.functions = rt.functions
      BY <2>1 DEF RtsInv, Rts!Runtimes
    <2>3. Agrees
      BY <2>1, <2>2 DEF Agrees, RtsInv, Rts!Idle, Rts!AddressesKept
    <2> QED BY <2>1, <2>3, AgreesKeeps DEF RtsInv
  <1>4. CASE Rts!CreateContext
    <2>1. Rts!Idle /\ UNCHANGED <<copy, resets, kernel_name_cache>>
      BY <1>4, SMTT(30) DEF Rts!CreateContext
    <2>2. PICK c \in Contexts :
            \/ UNCHANGED <<rt, api>>
            \/ /\ rt' = [rt EXCEPT !.contexts = @ \cup {c}, !.current = c]
               /\ api' = [api EXCEPT !.context = c, !.context_storage = @ \cup {c}]
      BY <1>4 DEF Rts!CreateContext, Rts!Call
    <2>3. /\ rt.contexts \cup {c} \in SUBSET Contexts 
          /\ api.context_storage \cup {c} \in SUBSET Contexts
      BY <2>1, SMTT(30) DEF RtsInv, Rts!Runtimes, Rts!Apis, Rts!Idle
    <2> QED BY <2>1, <2>2, <2>3, FailingCall, ContextCall
  <1>5. CASE Rts!DestroyContext
    <2>1. Rts!Idle /\ UNCHANGED <<copy, resets, kernel_name_cache>>
      BY <1>5 DEF Rts!DestroyContext
    <2>2. PICK c \in Contexts \cup {NONE} :
            \/ UNCHANGED <<rt, api>>
            \/ /\ rt' = [rt EXCEPT !.contexts = @ \ {c}, !.current = IF @ = c THEN NONE ELSE @]
               /\ api' = [api EXCEPT !.context = NONE]
      BY <1>5 DEF Rts!DestroyContext, Rts!Call, Rts!ContextAfterDestroy
    <2>3. /\ rt.contexts \ {c} \in SUBSET Contexts
          /\ (IF rt.current = c THEN NONE ELSE rt.current) \in Contexts \cup {NONE}
          /\ api.context_storage \in SUBSET Contexts
          /\ [api EXCEPT !.context = NONE] =
               [api EXCEPT !.context = NONE, !.context_storage = api.context_storage]
      BY <2>1 DEF RtsInv, Rts!Runtimes, Rts!Apis, Rts!Idle
    <2> QED BY <2>1, <2>2, <2>3, FailingCall, ContextCall
  <1>6. CASE Rts!SetContext
    <2>1. Rts!Idle /\ UNCHANGED <<copy, resets, kernel_name_cache>>
      BY <1>6 DEF Rts!SetContext
    <2>2. PICK c \in Contexts :
            \/ UNCHANGED <<rt, api>>
            \/ /\ rt' = [rt EXCEPT !.current = c]
               /\ api' = [api EXCEPT !.context = c]
      BY <1>6 DEF Rts!SetContext, Rts!Call
    <2>3. /\ rt.contexts \in SUBSET Contexts /\ api.context_storage \in SUBSET Contexts
          /\ [rt EXCEPT !.current = c] = [rt EXCEPT !.contexts = rt.contexts, !.current = c]
          /\ [api EXCEPT !.context = c] =
               [api EXCEPT !.context = c, !.context_storage = api.context_storage]
      BY <2>1 DEF RtsInv, Rts!Runtimes, Rts!Apis, Rts!Idle
    <2>4. CASE UNCHANGED <<rt, api>>
      BY <2>1, <2>4, FailingCall
    <2>5. CASE ~UNCHANGED <<rt, api>>
      <3>1. /\ rt' = [rt EXCEPT !.contexts = rt.contexts, !.current = c]
            /\ api' = [api EXCEPT !.context = c, !.context_storage = api.context_storage]
        BY <2>2, <2>3, <2>5
      <3>2. c \in Contexts \cup {NONE} /\ c \in {NONE, c}
        OBVIOUS
      <3> QED BY <2>1, <2>3, <3>1, <3>2, ContextCall
    <2> QED BY <2>4, <2>5
  <1>7. CASE Rts!CreateStream \/ Rts!DestroyStream \/ Rts!Profile
    <2>1. /\ Rts!Idle /\ UNCHANGED <<api, copy, resets, kernel_name_cache>>
          /\ \/ UNCHANGED rt
             \/ \E s \in Streams : rt' = [rt EXCEPT !.streams = @ \cup {s}]
             \/ \E s \in rt.streams : rt' = [rt EXCEPT !.streams = @ \ {s}, !.profiled = @ \ {s}]
             \/ \E s \in rt.streams : rt' = [rt EXCEPT !.profiled = @ \cup {s}]
             \/ \E s \in rt.streams : rt' = [rt EXCEPT !.profiled = @ \ {s}]
      <3>1. CASE Rts!CreateStream BY <3>1 DEF Rts!CreateStream, Rts!Call
      <3>2. CASE Rts!DestroyStream BY <3>2 DEF Rts!DestroyStream, Rts!Call
      <3>3. CASE Rts!Profile 
        <4>1. PICK s \in rt.streams, on \in BOOLEAN : 
                 Rts!Call(on \/ s \in rt.profiled,
            [rt EXCEPT !.profiled = IF on THEN @ \cup {s} ELSE @ \ {s}], UNCHANGED api)
          BY <3>3 DEF Rts!Profile
        <4>2. rt' = [rt EXCEPT !.profiled = IF on THEN @ \cup {s} ELSE @ \ {s}] \/ UNCHANGED rt
          BY <4>1 DEF Rts!Call
        <4>3. /\ Rts!Idle /\ UNCHANGED <<api, copy, resets, kernel_name_cache>>
          BY <3>3 DEF Rts!Profile, Rts!Call
        <4> QED BY <4>2, <4>3
      <3> QED BY <1>7, <3>1, <3>2, <3>3
    <2>2. ASSUME NEW s \in Streams, NEW P \in SUBSET Streams
          PROVE  /\ [rt EXCEPT !.streams = @ \cup {s}] \in Rts!Runtimes
                 /\ [rt EXCEPT !.streams = @ \ {s}, !.profiled = @ \ {s}] \in Rts!Runtimes
                 /\ [rt EXCEPT !.profiled = P] \in Rts!Runtimes
      BY DEF RtsInv, Rts!Runtimes
    <2>3. ASSUME NEW S, NEW P,
                 \/ rt' = [rt EXCEPT !.streams = S, !.profiled = P]
                 \/ rt' = [rt EXCEPT !.streams = S]
                 \/ rt' = [rt EXCEPT !.profiled = P]
          PROVE  /\ rt'.current = rt.current
                 /\ rt'.binaries = rt.binaries /\ rt'.functions = rt.functions
      BY <2>3 DEF RtsInv, Rts!Runtimes
    <2>4. rt' \in Rts!Runtimes
      <3>1. rt \in Rts!Runtimes /\ rt.streams \subseteq Streams /\ rt.profiled \subseteq Streams
        BY DEF RtsInv, Rts!Runtimes
      <3> QED BY <2>1, <2>2, <3>1
    <2>5. rt'.current = rt.current /\ rt'.binaries = rt.binaries /\ rt'.functions = rt.functions
      BY <2>1, <2>3
    <2> QED BY <2>1, <2>4, <2>5, HandlesCall
  <1>8. CASE \/ Rts!SynchronizeWithStream \/ Rts!GetDeviceInfo \/ Rts!GetMemoryInfoEx
             \/ Rts!LaunchKernel \/ Rts!HostMemory \/ Rts!Memset
    BY <1>8, FailingCall DEF Rts!SynchronizeWithStream, Rts!GetDeviceInfo,
      Rts!GetMemoryInfoEx, Rts!LaunchKernel, Rts!HostMemory, Rts!Memset, Rts!Call
  <1>9. CASE Rts!Malloc \/ Rts!Free
    <2>1. /\ Rts!Idle /\ UNCHANGED <<api, copy, resets, kernel_name_cache>>
          /\ \/ UNCHANGED rt
             \/ \E b \in Buffers : rt' = [rt EXCEPT !.buffers = @ \cup {b}]
             \/ \E b \in rt.buffers : rt' = [rt EXCEPT !.buffers = @ \ {b}]
      BY <1>9 DEF Rts!Malloc, Rts!Free, Rts!Call
    <2>2. /\ rt' \in Rts!Runtimes /\ rt'.current = rt.current
          /\ rt'.binaries = rt.binaries /\ rt'.functions = rt.functions
      BY <2>1 DEF RtsInv, Rts!Runtimes
    <2> QED BY <2>1, <2>2, HandlesCall
  <1>10. CASE Rts!RegisterDeviceBinaryKernel
    <2>1. /\ Rts!Idle /\ UNCHANGED <<copy, resets, kernel_name_cache>>
          /\ \/ UNCHANGED <<rt, api>>
             \/ \E h \in Binaries :
                  /\ rt' = [rt EXCEPT !.binaries = @ \cup {h}]
                  /\ api' = [api EXCEPT !.kernel_binary_storage = @ \cup {h}]
      BY <1>10 DEF Rts!RegisterDeviceBinaryKernel, Rts!Call
    <2>2. ASSUME NEW h \in Binaries, rt' = [rt EXCEPT !.binaries = @ \cup {h}],
                 api' = [api EXCEPT !.kernel_binary_storage = @ \cup {h}]
          PROVE  Agrees
      <3>1. /\ rt' \in Rts!Runtimes /\ rt'.current = rt.current
            /\ rt'.binaries = rt.binaries \cup {h} /\ rt'.functions = rt.functions
        BY <2>2 DEF RtsInv, Rts!Runtimes
      <3>2. /\ api' \in Rts!Apis /\ api'.context = api.context
            /\ api'.kernel_binary_storage = api.kernel_binary_storage \cup {h}
            /\ api'.kernel_name_storage = api.kernel_name_storage
            /\ api'.simulator_mode = api.simulator_mode
        BY <2>1, <2>2 DEF RtsInv, Rts!Apis, Rts!Idle
      <3> QED BY <2>1, <3>1, <3>2
          DEF Agrees, RtsInv, Rts!Idle, Rts!AddressesKept, Rts!CurrentAgrees
    <2> QED BY <2>1, <2>2, FailingCall, AgreesKeeps DEF RtsInv
  <1>11. CASE Rts!UnregisterDeviceBinaryKernel
    <2>1. /\ Rts!Idle /\ UNCHANGED <<copy, resets, kernel_name_cache>>
      BY <1>11 DEF Rts!UnregisterDeviceBinaryKernel
    <2>2. \/ UNCHANGED <<rt, api>>
          \/ \E h : rt' = [rt EXCEPT !.binaries = @ \ {h}, !.functions = {f \in @ : f[1] # h}]
                    /\ api' = Rts!Unregistered(h)
      BY <1>11 DEF Rts!UnregisterDeviceBinaryKernel, Rts!UnregisterFails
    <2>3. ASSUME NEW h, rt' = [rt EXCEPT !.binaries = @ \ {h}, !.functions = {f \in @ : f[1] # h}],
                 api' = Rts!Unregistered(h)
          PROVE  Agrees
      <3>1. /\ rt' \in Rts!Runtimes /\ rt'.current = rt.current
            /\ rt'.binaries = rt.binaries \ {h}
            /\ rt'.functions = {f \in rt.functions : f[1] # h}
        BY <2>3 DEF RtsInv, Rts!Runtimes
      <3>2. /\ api' \in Rts!Apis /\ api'.context = api.context
            /\ api'.kernel_binary_storage = api.kernel_binary_storage \ {h}
            /\ api'.kernel_name_storage = {p \in api.kernel_name_storage : p[1] # h}
            /\ api'.simulator_mode = api.simulator_mode
        BY <2>1, <2>3 DEF RtsInv, Rts!Apis, Rts!Idle, Rts!Unregistered
      <3> QED BY <2>1, <3>1, <3>2
          DEF Agrees, RtsInv, Rts!Idle, Rts!AddressesKept, Rts!CurrentAgrees
    <2> QED BY <2>1, <2>2, <2>3, FailingCall, AgreesKeeps DEF RtsInv
  <1>12. CASE Rts!RegisterFunction
    <2>1. /\ Rts!Idle /\ UNCHANGED <<copy, resets>>
      BY <1>12 DEF Rts!RegisterFunction
    <2>2. PICK h \in api.kernel_binary_storage, name \in Names :
       /\ kernel_name_cache' = kernel_name_cache \cup {<<h, name>>}
       /\ Rts!Call(h \in rt.binaries, [rt EXCEPT !.functions = @ \cup {<<h, name>>}],
               api' = [api EXCEPT !.kernel_name_storage = @ \cup {<<h, name>>}])
      BY <1>12 DEF Rts!RegisterFunction
    <2>3. <<h, name>> \in Binaries \X Names
      BY <2>1 DEF RtsInv, Rts!Apis, Rts!Idle
    <2>4. \/ UNCHANGED <<rt, api>>
          \/ /\ rt' = [rt EXCEPT !.functions = @ \cup {<<h, name>>}]
             /\ api' = [api EXCEPT !.kernel_name_storage = @ \cup {<<h, name>>}]
      BY <2>2 DEF Rts!Call
    <2>5. CASE /\ rt' = [rt EXCEPT !.functions = @ \cup {<<h, name>>}]
               /\ api' = [api EXCEPT !.kernel_name_storage = @ \cup {<<h, name>>}]
      <3>1. /\ rt' \in Rts!Runtimes /\ rt'.current = rt.current
            /\ rt'.binaries = rt.binaries
            /\ rt'.functions = rt.functions \cup {<<h, name>>}
        BY <2>3, <2>5 DEF RtsInv, Rts!Runtimes
      <3>2. /\ api' \in Rts!Apis /\ api'.context = api.context
            /\ api'.kernel_binary_storage = api.kernel_binary_storage
            /\ api'.kernel_name_storage = api.kernel_name_storage \cup {<<h, name>>}
            /\ api'.simulator_mode = api.simulator_mode
        BY <2>1, <2>3, <2>5 DEF RtsInv, Rts!Apis, Rts!Idle
      <3>3. Agrees
        BY <2>1, <2>2, <3>1, <3>2
            DEF Agrees, RtsInv, Rts!Idle, Rts!AddressesKept, Rts!CurrentAgrees
      <3> QED BY <2>1, <3>3, AgreesKeeps DEF RtsInv
    <2> QED BY <2>1, <2>2, <2>4, <2>5, FailingCall
  <1>13. CASE Rts!CopyBinToHbm
    <2>1. Rts!Idle /\ UNCHANGED <<api, resets, kernel_name_cache>>
      BY <1>13 DEF Rts!CopyBinToHbm
    <2>2. CASE UNCHANGED <<rt, copy>>
      BY <2>1, <2>2, FailingCall
    <2>3. CASE ~UNCHANGED <<rt, copy>>
      <3>1. PICK b \in Buffers : /\ rt' = [rt EXCEPT !.buffers = @ \cup {b}]
                                 /\ copy' = [Rts!NoCopy EXCEPT !.runs = TRUE, !.buffer = b]
        BY <1>13, <2>3 DEF Rts!CopyBinToHbm
      <3>2. /\ rt' \in Rts!Runtimes /\ rt'.current = rt.current
            /\ rt'.binaries = rt.binaries /\ rt'.functions = rt.functions
        BY <3>1 DEF RtsInv, Rts!Runtimes
      <3> QED BY <2>1, <3>1, <3>2, CopyStarts
    <2> QED BY <2>2, <2>3
  <1>14. CASE Rts!GetDataFromHbm
    <2>1. Rts!Idle /\ UNCHANGED <<api, rt, resets, kernel_name_cache>>
      BY <1>14 DEF Rts!GetDataFromHbm
    <2>2. CASE UNCHANGED copy
      BY <2>1, <2>2, FailingCall
    <2>3. CASE ~UNCHANGED copy
      <3>1. PICK b \in rt.buffers : copy' = [Rts!NoCopy EXCEPT !.runs = TRUE, !.buffer = b]
        BY <1>14, <2>3 DEF Rts!GetDataFromHbm
      <3>2. rt \in Rts!Runtimes /\ b \in Buffers
        BY DEF RtsInv, Rts!Runtimes
      <3> QED BY <2>1, <3>1, <3>2, CopyStarts
    <2> QED BY <2>2, <2>3
  <1>15. CASE Rts!MemcpyAttempt
    <2>1. copy.runs /\ api # NONE /\ UNCHANGED <<api, rt, resets, kernel_name_cache>>
      BY <1>15 DEF Rts!MemcpyAttempt, RtsInv, Rts!NoCopy
    <2>2. copy \in Rts!Copies /\ copy.attempts <= MaxRetries /\ copy.attempts \in Nat
          /\ copy.attempts + 1 \in Nat
      BY <2>1 DEF RtsInv, Rts!Copies
    <2>3. CASE copy' = [copy EXCEPT !.runs = FALSE, !.attempts = @ + 1, !.written = TRUE]
      <3>1. /\ copy' \in Rts!Copies /\ copy'.attempts = copy.attempts + 1
            /\ copy'.runs = FALSE /\ copy'.written = TRUE
        BY <2>2, <2>3, CopyFields
      <3> QED BY <2>1, <2>2, <3>1, RtsAssumption, SMTT(30)
          DEF RtsInv, Rts!CurrentAgrees, Rts!AddressesKept, Rts!CopyAttempts
    <2>4. CASE copy' # [copy EXCEPT !.runs = FALSE, !.attempts = @ + 1, !.written = TRUE]
      <3>1. PICK e \in ErrorCodes :
              IF Rts!parse_error(e) = "RuntimeError" /\ Rts!Retries(copy.attempts + 1)
             THEN copy' = [copy EXCEPT !.attempts = @ + 1] /\ UNCHANGED raised
             ELSE /\ copy' = [copy EXCEPT !.runs = FALSE, !.attempts = @ + 1]
                  /\ raised' = Rts!parse_error(e)
        BY <1>15, <2>4 DEF Rts!MemcpyAttempt
      <3>2. e # OK BY RtsAssumption
      <3>3. Rts!parse_error(e) = "RuntimeError" \/ api.simulator_mode = "ca"
        BY <3>2 DEF Rts!parse_error
      <3>4. CASE Rts!parse_error(e) = "RuntimeError" /\ copy.attempts < MaxRetries
        <4>1. copy' = [copy EXCEPT !.attempts = @ + 1]
          BY <2>2, <3>1, <3>4, RtsAssumption DEF Rts!Retries
        <4>2. copy' \in Rts!Copies /\ copy'.attempts = copy.attempts + 1 /\ copy'.runs = copy.runs
          BY <2>2, <4>1 DEF Rts!Copies
        <4> QED BY <2>1, <2>2, <3>4, <4>2, RtsAssumption
            DEF RtsInv, Rts!CurrentAgrees, Rts!AddressesKept, Rts!CopyAttempts
      <3>5. CASE ~(Rts!parse_error(e) = "RuntimeError" /\ copy.attempts < MaxRetries)
        <4>1. copy' = [copy EXCEPT !.runs = FALSE, !.attempts = @ + 1]
          BY <2>2, <3>1, <3>5, RtsAssumption, SMTT(30) DEF Rts!Retries
        <4>2. copy' \in Rts!Copies /\ copy'.attempts = copy.attempts + 1 /\ copy'.runs = FALSE
          BY <2>2, <4>1, CopyFields
        <4> QED BY <2>1, <2>2, <3>3, <3>5, <4>2, RtsAssumption
            DEF RtsInv, Rts!CurrentAgrees, Rts!AddressesKept, Rts!CopyAttempts
      <3> QED BY <3>4, <3>5
    <2> QED BY <2>3, <2>4
  <1> QED
    BY <1>1, <1>2, <1>3, <1>4, <1>5, <1>6, <1>7, <1>8, <1>9, <1>10, <1>11, <1>12, <1>13,
       <1>14, <1>15 DEF Rts!Next

\* A step of another program leaves the runtime interface alone, and no step
\* changes the program.
LEMMA RtsStep ==
  ASSUME program = "rts" => RtsInv, [Next]_vars
  PROVE  (program = "rts" => RtsInv)'
  <1>1. CASE UNCHANGED vars
    BY <1>1 DEF vars, ownRts, RtsInv, Rts!CurrentAgrees, Rts!AddressesKept, Rts!CopyAttempts
  <1>2. CASE Next
    BY <1>2, RtsNext DEF Next
  <1> QED BY <1>1, <1>2

\* For all handles and any number of calls, failures and devices: until a reset
\* the object and the runtime agree on the current context, what the runtime
\* has the address of is kept, and memcpy gives up only after its last call.
THEOREM RtsSafety == Spec => [](CurrentAgrees /\ AddressesKept /\ CopyAttempts)
  <1>1. Init => (program = "rts" => RtsInv)
    BY RtsInit DEF Init
  <1>2. (program = "rts" => RtsInv) =>
          CurrentAgrees /\ AddressesKept /\ CopyAttempts
    BY DEF RtsInv, CurrentAgrees, AddressesKept, CopyAttempts
  <1> QED BY <1>1, <1>2, RtsStep, PTL DEF Spec
-----------------------------------------------------------------------------
(* Changed files and unit-test stages                                       *)

\* What build.sh -f and build.sh -u -f found, they found in the list that is
\* there still.
BuildInv ==
  /\ relate # NONE =>
       /\ list # NONE
       /\ relate = IF "OTHER_FILE" \in Ci!Relate(list) THEN {"full"} ELSE Ci!Relate(list)
  /\ ut_exit # NONE /\ list # NONE =>
       /\ uts = Ci!Triggered(Ci!RelateUt(list))
       /\ ut_exit = IF Ci!RelateUt(list) = {} THEN 200 ELSE 0

\* run_ut.py between its stages: what the tags ask for and a stage has behind
\* it has passed, and the coverage that sch_run_ut.py left is that of this run.
StagesInv ==
  run.stage # "idle" =>
    /\ run_exit = NONE
    /\ ~run.all => \A l \in list : IF l.dir \in Ci!ScheduleDirs THEN run.sch_tag ELSE run.ops_tag
    /\ run.all => run.ops_tag
    /\ IF run.stage = "schedule"
       THEN passed = {}
       ELSE /\ "sch" \in passed <=> run.sch_tag
            /\ run.sch_tag => sch_cov = runs
            /\ run.stage = "move" /\ run.ops_tag => "ops" \in passed

CiInv ==
  /\ run \in [stage : {"idle", "schedule", "ops", "move"}, all : BOOLEAN, sch_tag : BOOLEAN, ops_tag : BOOLEAN]
  /\ runs \in Nat
  /\ BuildInv
  /\ StagesInv
  /\ Ci!GreenMeansTested

\* A chain of elifs in which one rule takes the line.
LEMMA OnlyRule ==
  ASSUME NEW rules, NEW l, NEW k \in DOMAIN rules, k \in Int,
         \A j \in DOMAIN rules : l.dir \in rules[j][2] <=> j = k
  PROVE  Ci!FirstRule(rules, l) = rules[k][1]
  <1> DEFINE takes == {j \in DOMAIN rules : l.dir \in rules[j][2]}
  <1>1. takes = {k}
    OBVIOUS
  <1>2. (CHOOSE j \in takes : \A i \in takes : j <= i) = k
    BY <1>1
  <1> QED BY <1>1, <1>2 DEF Ci!FirstRule

\* No file is built by a component of its own unless its directory is that of
\* the component, and a file the build skips is not built.
LEMMA BuiltDirectory ==
  ASSUME NEW l,
         NEW c \in {"CPU", "PASS", "PROTO", "TILING", "TF_PLUGIN", "ONNX_PLUGIN"},
         c \in Ci!RelateOf(l)
  PROVE  /\ l.ext # "py"
         /\ l.dir = CASE c = "CPU" -> "aicpu" [] c = "PASS" -> "fusion_pass"
                      [] c = "PROTO" -> "op_proto" [] c = "TILING" -> "op_tiling"
                      [] c = "TF_PLUGIN" -> "tf_plugin" [] c = "ONNX_PLUGIN" -> "onnx_plugin"
  <1> DEFINE early == Ci!FirstRule(Ci!EarlyRules, l)
             rule == Ci!FirstRule(Ci!CompileRules, l)
  <1>1. early \in {"SCHEDULE", "TBE", "FUSION_RULES", "TOOLS", "OTHER_FILE"}
    <2> DEFINE R == Ci!EarlyRules
               takes == {j \in DOMAIN R : l.dir \in R[j][2]}
    <2>1. CASE takes = {}
      BY <2>1 DEF Ci!FirstRule
    <2>2. CASE \E j \in takes : \A i \in takes : j <= i
      <3>1. PICK k \in DOMAIN R : early = R[k][1]
        BY <2>2 DEF Ci!FirstRule
      <3> QED BY <3>1 DEF Ci!EarlyRules
    <2>3. takes = {} \/ \E j \in takes : \A i \in takes : j <= i
      <3>1. DOMAIN R = 1 .. 4
        BY DEF Ci!EarlyRules
      <3>2. takes \subseteq 1 .. 4
        BY <3>1
      <3> HIDE DEF takes
      <3>3. CASE 1 \in takes BY <3>2, <3>3
      <3>4. CASE 1 \notin takes /\ 2 \in takes BY <3>2, <3>4
      <3>5. CASE 1 \notin takes /\ 2 \notin takes /\ 3 \in takes BY <3>2, <3>5
      <3>6. CASE 1 \notin takes /\ 2 \notin takes /\ 3 \notin takes BY <3>2, <3>6
      <3> QED BY <3>3, <3>4, <3>5, <3>6
    <2> QED BY <2>1, <2>2, <2>3
  <1>2. early = "OTHER_FILE" /\ ~Ci!Skipped(l) /\ rule = c
    <2>1. early = "OTHER_FILE"
      BY <1>1 DEF Ci!RelateOf
    <2> QED BY <2>1 DEF Ci!RelateOf
  <1>3. /\ l.dir \in {"aicpu"} => rule = "CPU"
        /\ l.dir \in {"fusion_pass"} => rule = "PASS"
        /\ l.dir \in {"op_proto"} => rule = "PROTO"
        /\ l.dir \in {"op_tiling"} => rule = "TILING"
        /\ l.dir \in {"tf_plugin"} => rule = "TF_PLUGIN"
        /\ l.dir \in {"onnx_plugin"} => rule = "ONNX_PLUGIN"
        /\ l.dir \in {"caffe_plugin"} => rule = "CAFFE_PLUGIN"
    <2> DEFINE R == Ci!CompileRules
    <2>1. DOMAIN R = 1 .. 7
      BY DEF Ci!CompileRules
    <2>2. /\ R[1] = <<"CPU", {"aicpu"}>> /\ R[2] = <<"PASS", {"fusion_pass"}>>
          /\ R[3] = <<"PROTO", {"op_proto"}>> /\ R[4] = <<"TILING", {"op_tiling"}>>
          /\ R[5] = <<"TF_PLUGIN", {"tf_plugin"}>> /\ R[6] = <<"ONNX_PLUGIN", {"onnx_plugin"}>>
          /\ R[7] = <<"CAFFE_PLUGIN", {"caffe_plugin"}>>
      BY DEF Ci!CompileRules
    <2> HIDE DEF R
    <2>3. \A j \in DOMAIN R : j \in {1, 2, 3, 4, 5, 6, 7}
      BY <2>1
    <2>4. ASSUME NEW k \in DOMAIN R, l.dir \in R[k][2]
          PROVE  rule = R[k][1]
      <3>1. \A j \in DOMAIN R : l.dir \in R[j][2] <=> j = k
        BY <2>2, <2>3, <2>4
      <3>2. k \in Int
        BY <2>1
      <3>3. Ci!FirstRule(R, l) = R[k][1]
        BY <3>1, <3>2, OnlyRule
      <3> QED BY <3>3 DEF R
    <2> QED BY <2>1, <2>2, <2>4
  <1>4. l.dir \notin {"aicpu", "fusion_pass", "op_proto", "op_tiling", "tf_plugin",
                      "onnx_plugin", "caffe_plugin"} => rule = "OTHER_FILE"
    BY DEF Ci!FirstRule, Ci!CompileRules
  <1> QED BY <1>2, <1>3, <1>4 DEF Ci!Skipped

\* Of the directories of these components, each has a rule of its own among
\* those of the unit tests.
LEMMA TestOfDirectory ==
  ASSUME NEW l
  PROVE  LET rule == Ci!FirstRule(Ci!UtRules(l), l) IN
           /\ l.dir = "aicpu" => rule = "CPU_UT"
           /\ l.dir = "fusion_pass" => rule = "PASS_UT"
           /\ l.dir = "op_proto" => rule = "PROTO_UT"
           /\ l.dir = "op_tiling" => rule = "TILING_UT"
           /\ l.dir = "tf_plugin" => rule = "PLUGIN_UT"
           /\ l.dir = "onnx_plugin" => rule = "ONNX_PLUGIN_UT"
  <1> DEFINE R == Ci!UtRules(l)
             om == IF l.ext \in Ci!Source THEN {"binary_config_utils", "binary_om_test"} ELSE {}
  <1>1. DOMAIN R = 1 .. 7
    BY DEF Ci!UtRules
  <1>2. /\ R[1] = <<"CPU_UT", {"aicpu", "aicpu_test", "tests_utils"}>>
        /\ R[2] = <<"PASS_UT", {"fusion_pass", "graph_fusion"}>>
        /\ R[3] = <<"OM_UT", om>>
        /\ R[4] = <<"PROTO_UT", {"op_proto", "ops_test"}>>
        /\ R[5] = <<"TILING_UT", {"op_tiling", "op_tiling_test"}>>
        /\ R[6] = <<"PLUGIN_UT", {"tf_plugin", "plugin_test_tf", "plugin_test_common"}>>
        /\ R[7] = <<"ONNX_PLUGIN_UT", {"onnx_plugin", "plugin_test_onnx", "plugin_test_common"}>>
    BY DEF Ci!UtRules
  <1>3. om \subseteq {"binary_config_utils", "binary_om_test"}
    OBVIOUS
  <1> HIDE DEF R, om
  <1>4. \A j \in DOMAIN R : j \in {1, 2, 3, 4, 5, 6, 7}
    BY <1>1
  <1>5. ASSUME NEW k \in {1, 2, 4, 5, 6, 7}, l.dir \in R[k][2],
               l.dir \in {"aicpu", "fusion_pass", "op_proto", "op_tiling", "tf_plugin", "onnx_plugin"}
        PROVE  Ci!FirstRule(R, l) = R[k][1]
    <2>1. \A j \in DOMAIN R : l.dir \in R[j][2] <=> j = k
      BY <1>2, <1>3, <1>4, <1>5
    <2>2. k \in DOMAIN R /\ k \in Int
      BY <1>1
    <2> QED BY <2>1, <2>2, OnlyRule
  <1>6. /\ l.dir = "aicpu" => l.dir \in R[1][2]
        /\ l.dir = "fusion_pass" => l.dir \in R[2][2]
        /\ l.dir = "op_proto" => l.dir \in R[4][2]
        /\ l.dir = "op_tiling" => l.dir \in R[5][2]
        /\ l.dir = "tf_plugin" => l.dir \in R[6][2]
        /\ l.dir = "onnx_plugin" => l.dir \in R[7][2]
    BY <1>2
  <1>7. /\ R[1][1] = "CPU_UT" /\ R[2][1] = "PASS_UT" /\ R[4][1] = "PROTO_UT"
        /\ R[5][1] = "TILING_UT" /\ R[6][1] = "PLUGIN_UT" /\ R[7][1] = "ONNX_PLUGIN_UT"
    BY <1>2
  <1>8. /\ l.dir = "aicpu" => Ci!FirstRule(R, l) = "CPU_UT"
        /\ l.dir = "fusion_pass" => Ci!FirstRule(R, l) = "PASS_UT"
        /\ l.dir = "op_proto" => Ci!FirstRule(R, l) = "PROTO_UT"
        /\ l.dir = "op_tiling" => Ci!FirstRule(R, l) = "TILING_UT"
        /\ l.dir = "tf_plugin" => Ci!FirstRule(R, l) = "PLUGIN_UT"
        /\ l.dir = "onnx_plugin" => Ci!FirstRule(R, l) = "ONNX_PLUGIN_UT"
    BY <1>5, <1>6, <1>7
  <1> QED BY <1>8 DEF R

\* A file has its own tests run, whatever else is in the list.
LEMMA FileTested ==
  ASSUME NEW lines, NEW l \in lines, l.ext # "py",
         NEW t, t = Ci!FirstRule(Ci!UtRules(l), l), t # "OTHER_FILE"
  PROVE  t \in Ci!Triggered(Ci!RelateUt(lines)) /\ Ci!RelateUt(lines) # {}
  BY DEF Ci!Triggered, Ci!RelateUt, Ci!UtChanges

\* Both scripts read the same list.
LEMMA BuiltTested == BuildInv => Ci!RebuiltIsTested
  <1> SUFFICES ASSUME BuildInv, relate # NONE, ut_exit # NONE,
                      NEW pair \in { <<"CPU", "CPU_UT">>, <<"PASS", "PASS_UT">>, <<"PROTO", "PROTO_UT">>,
                        <<"TILING", "TILING_UT">>, <<"TF_PLUGIN", "PLUGIN_UT">>,
                        <<"ONNX_PLUGIN", "ONNX_PLUGIN_UT">> },
                      pair[1] \in relate
               PROVE  pair[2] \in uts /\ ut_exit = 0
    BY DEF Ci!RebuiltIsTested
  <1>1. PICK l \in list : pair[1] \in Ci!RelateOf(l)
    <2>1. pair[1] # "full"
      OBVIOUS
    <2> QED BY <2>1 DEF BuildInv, Ci!Relate
  <1>2. pair[1] \in {"CPU", "PASS", "PROTO", "TILING", "TF_PLUGIN", "ONNX_PLUGIN"}
    OBVIOUS
  <1>3. /\ l.ext # "py"
        /\ l.dir = CASE pair[1] = "CPU" -> "aicpu" [] pair[1] = "PASS" -> "fusion_pass"
                     [] pair[1] = "PROTO" -> "op_proto" [] pair[1] = "TILING" -> "op_tiling"
                     [] pair[1] = "TF_PLUGIN" -> "tf_plugin" [] pair[1] = "ONNX_PLUGIN" -> "onnx_plugin"
    BY <1>1, <1>2, BuiltDirectory
  <1>4. pair[2] = Ci!FirstRule(Ci!UtRules(l), l) /\ pair[2] # "OTHER_FILE"
    BY <1>3, TestOfDirectory
  <1>5. pair[2] \in Ci!Triggered(Ci!RelateUt(list)) /\ Ci!RelateUt(list) # {}
    BY <1>3, <1>4, FileTested
  <1> QED BY <1>5 DEF BuildInv

\* No pull request has been built or tested.
LEMMA CiInit == Ci!Init => CiInv
  BY CiAssumption DEF Ci!Init, CiInv, BuildInv, StagesInv, Ci!Idle, Ci!GreenMeansTested

\* One case for each script and each stage of run_ut.py.
LEMMA CiNext == CiInv /\ Ci!Next => CiInv'
  <1> SUFFICES ASSUME CiInv, Ci!Next PROVE CiInv'
    OBVIOUS
  <1>1. ASSUME UNCHANGED <<list, run, passed, run_exit, sch_cov, cov_path, runs>>
        PROVE  UNCHANGED <<run, runs>> /\ (StagesInv /\ Ci!GreenMeansTested)'
    BY <1>1 DEF CiInv, StagesInv, Ci!GreenMeansTested
  <1>2. ASSUME UNCHANGED <<list, relate, uts, ut_exit>>
        PROVE  BuildInv'
    BY <1>2 DEF CiInv, BuildInv
  <1>3. CASE Ci!BuildCi
    BY <1>1, <1>3 DEF Ci!BuildCi, CiInv, BuildInv
  <1>4. CASE Ci!BuildUt
    BY <1>1, <1>4 DEF Ci!BuildUt, CiInv, BuildInv
  <1>5. CASE Ci!MoveCoverage
    <2>1. /\ run.stage = "move" /\ UNCHANGED <<list, relate, uts, ut_exit, passed, runs>>
          /\ run' = [run EXCEPT !.stage = "idle"] /\ run_exit' = 0
      BY <1>5 DEF Ci!MoveCoverage
    <2>2. run' \in [stage : {"idle", "schedule", "ops", "move"}, all : BOOLEAN,
                    sch_tag : BOOLEAN, ops_tag : BOOLEAN]
          /\ run'.stage = "idle" /\ run'.all = run.all
      BY <2>1 DEF CiInv
    <2>3. sch_cov # NONE => cov_path' = sch_cov
      BY <1>5 DEF Ci!MoveCoverage
    <2>4. run.sch_tag => sch_cov = runs /\ sch_cov # NONE
      BY <2>1, CiAssumption DEF CiInv, StagesInv
    <2>5. Ci!GreenMeansTested'
      BY <2>1, <2>2, <2>3, <2>4 DEF CiInv, StagesInv, Ci!GreenMeansTested
    <2> QED BY <1>2, <2>1, <2>2, <2>5 DEF CiInv, StagesInv
  <1>6. ASSUME NEW all \in BOOLEAN, Ci!StartRunUt(all)
        PROVE  CiInv'
    <2>1. run.stage = "idle" /\ run_exit = NONE /\ UNCHANGED <<list, relate, uts, ut_exit>>
          /\ runs' = runs + 1 /\ runs' \in Nat /\ passed' = {}
      BY <1>6 DEF Ci!StartRunUt, CiInv
    <2>2. CASE run_exit' = 1 /\ UNCHANGED run
      BY <1>2, <2>1, <2>2 DEF CiInv, StagesInv, Ci!GreenMeansTested
    <2>3. CASE UNCHANGED run_exit /\
               run' = [stage |-> "schedule", all |-> all,
                       sch_tag |-> ~all /\ \E l \in list : l.dir \in Ci!ScheduleDirs,
                       ops_tag |-> all \/ \E l \in list : l.dir \notin Ci!ScheduleDirs]
      <3>1. /\ run'.stage = "schedule" /\ run'.all = all
            /\ run'.sch_tag = (~all /\ \E l \in list : l.dir \in Ci!ScheduleDirs)
            /\ run'.ops_tag = (all \/ \E l \in list : l.dir \notin Ci!ScheduleDirs)
            /\ run' \in [stage : {"idle", "schedule", "ops", "move"}, all : BOOLEAN,
                         sch_tag : BOOLEAN, ops_tag : BOOLEAN]
        BY <2>3
      <3>2. StagesInv'
        BY <2>1, <2>3, <3>1 DEF StagesInv
      <3>3. Ci!GreenMeansTested'
        BY <2>1, <2>3, CiAssumption DEF Ci!GreenMeansTested
      <3> QED BY <1>2, <2>1, <3>1, <3>2, <3>3 DEF CiInv
    <2> QED BY <1>6, <2>2, <2>3 DEF Ci!StartRunUt
  <1>7. ASSUME NEW ok \in BOOLEAN, NEW covered \in BOOLEAN, Ci!RunSchedule(ok, covered)
        PROVE  CiInv'
    <2>1. run.stage = "schedule" /\ run_exit = NONE /\ passed = {}
          /\ UNCHANGED <<list, relate, uts, ut_exit, cov_path, runs>>
      BY <1>7 DEF Ci!RunSchedule, CiInv, StagesInv
    <2> DEFINE n == [run EXCEPT !.stage = "ops"]
    <2>2. /\ n.stage = "ops" /\ n.all = run.all /\ n.sch_tag = run.sch_tag /\ n.ops_tag = run.ops_tag
          /\ n \in [stage : {"idle", "schedule", "ops", "move"}, all : BOOLEAN,
                    sch_tag : BOOLEAN, ops_tag : BOOLEAN]
      BY DEF CiInv
    <2> HIDE DEF n
    <2>3. CASE run' = Ci!Idle /\ run_exit' = 1
      BY <1>2, <2>1, <2>3 DEF CiInv, StagesInv, Ci!GreenMeansTested, Ci!Idle
    <2>4. CASE /\ run' = n /\ UNCHANGED run_exit
               /\ IF run.sch_tag THEN sch_cov' = runs /\ passed' = passed \cup {"sch"}
                                 ELSE UNCHANGED <<sch_cov, passed>>
      <3>1. StagesInv'
        BY <2>1, <2>2, <2>4 DEF CiInv, StagesInv
      <3>2. Ci!GreenMeansTested'
        BY <2>1, <2>4, CiAssumption DEF Ci!GreenMeansTested
      <3> QED BY <1>2, <2>1, <2>2, <2>4, <3>1, <3>2 DEF CiInv
    <2>5. \/ run' = Ci!Idle /\ run_exit' = 1
          \/ /\ run' = n /\ UNCHANGED run_exit
             /\ IF run.sch_tag THEN sch_cov' = runs /\ passed' = passed \cup {"sch"}
                               ELSE UNCHANGED <<sch_cov, passed>>
      BY <1>7 DEF Ci!RunSchedule, n
    <2> QED BY <2>3, <2>4, <2>5
  <1>8. ASSUME NEW ok \in BOOLEAN, Ci!RunOps(ok)
        PROVE  CiInv'
    <2>1. run.stage = "ops" /\ run_exit = NONE
          /\ UNCHANGED <<list, relate, uts, ut_exit, sch_cov, cov_path, runs>>
      BY <1>8 DEF Ci!RunOps, CiInv, StagesInv
    <2> DEFINE n == [run EXCEPT !.stage = "move"]
    <2>2. /\ n.stage = "move" /\ n.all = run.all /\ n.sch_tag = run.sch_tag /\ n.ops_tag = run.ops_tag
          /\ n \in [stage : {"idle", "schedule", "ops", "move"}, all : BOOLEAN,
                    sch_tag : BOOLEAN, ops_tag : BOOLEAN]
      BY DEF CiInv
    <2> HIDE DEF n
    <2>3. CASE run' = Ci!Idle /\ run_exit' = 1
      BY <1>2, <2>1, <2>3 DEF CiInv, StagesInv, Ci!GreenMeansTested, Ci!Idle
    <2>4. CASE /\ run' = n /\ UNCHANGED run_exit
               /\ passed' = passed \cup (IF run.ops_tag THEN {"ops"} ELSE {})
      <3>1. StagesInv'
        BY <2>1, <2>2, <2>4 DEF CiInv, StagesInv
      <3>2. Ci!GreenMeansTested'
        BY <2>1, <2>4, CiAssumption DEF Ci!GreenMeansTested
      <3> QED BY <1>2, <2>1, <2>2, <2>4, <3>1, <3>2 DEF CiInv
    <2> QED BY <1>8, <2>3, <2>4 DEF Ci!RunOps, n
  <1>9. ASSUME NEW l \in Lists, Ci!NextPullRequest(l)
        PROVE  CiInv'
    BY <1>9, CiAssumption DEF Ci!NextPullRequest, Ci!Idle, CiInv, BuildInv, StagesInv, Ci!GreenMeansTested
  <1> QED BY <1>3, <1>4, <1>5, <1>6, <1>7, <1>8, <1>9 DEF Ci!Next

\* A step of another program leaves the variables of the scripts alone.
LEMMA CiStep ==
  ASSUME program = "changes" => CiInv, [Next]_vars
  PROVE  (program = "changes" => CiInv)'
  <1>1. CASE UNCHANGED vars
    BY <1>1 DEF vars, ownCi, CiInv, BuildInv, StagesInv, Ci!GreenMeansTested
  <1>2. CASE Next
    BY <1>2, CiNext DEF Next
  <1> QED BY <1>1, <1>2

\* For all lists of changed files, in any number of pull requests and runs of
\* the tests: what the build compiles because its own files changed, the unit
\* tests test, and run_ut.py ends with status 0 only after the suite of every
\* changed file has passed, with the coverage of this run in its report.
THEOREM CiSafety == Spec => [](RebuiltIsTested /\ GreenMeansTested)
  <1>1. Init => (program = "changes" => CiInv)
    BY CiInit DEF Init
  <1>2. (program = "changes" => CiInv) => RebuiltIsTested /\ GreenMeansTested
    BY BuiltTested DEF CiInv, RebuiltIsTested, GreenMeansTested
  <1> QED BY <1>1, <1>2, CiStep, PTL DEF Spec
-----------------------------------------------------------------------------
(* The data of a system test                                                *)

\* No file has data that was not drawn yet.
DrawnInv ==
  drawn \in Nat /\ \A f \in DOMAIN disk : disk[f].id \in Int /\ disk[f].id <= drawn

\* The expected data that the report has for a case is on the disk, and was
\* computed after the inputs of the case were written.
ExpectedInv ==
  \A c \in DOMAIN cases : \A o \in DOMAIN expect_data_paths[c] :
    /\ phase # "acl" /\ (phase = "data" => c < case)
    /\ o \in 1 .. cases[c].outputs
    /\ Data!ExpectFile(c, o) \in DOMAIN disk
    /\ \A k \in DOMAIN cases[c].inputs :
         Data!InputFile(c, k) \in DOMAIN disk =>
           disk[Data!ExpectFile(c, o)].id > disk[Data!InputFile(c, k)].id

\* What a case that passed has written, it wrote in the last draw.
WrittenInv ==
  IF phase = "compare"
  THEN \A c \in DOMAIN cases : result_txt[c] = "[pass]" =>
         \A o \in 1 .. cases[c].outputs :
           Data!OutputFile(c, o) \in DOMAIN disk /\ disk[Data!OutputFile(c, o)].id = drawn
  ELSE \A c \in DOMAIN cases : compared[c] = {}

DataInv ==
  /\ cases \in CaseLists /\ case \in Nat \ {0}
  /\ phase = "acl" => case \in DOMAIN cases
  /\ expect_data_paths = [c \in DOMAIN cases |-> expect_data_paths[c]]
  /\ compared = [c \in DOMAIN cases |-> compared[c]]
  /\ DrawnInv /\ ExpectedInv /\ WrittenInv
  /\ Data!ComparesOwnRun

\* A command that ends, or goes on with the next stage, has written nothing.
LEMMA StageEnds ==
  ASSUME DataInv, UNCHANGED <<cases, disk, drawn, expect_data_paths, compared>>,
         phase # "compare", phase' \notin {"acl", "compare"}, phase' = "data" => phase = "data",
         case' \in Nat, case' >= case
  PROVE  DataInv'
  <1>1. DrawnInv' /\ WrittenInv' /\ Data!ComparesOwnRun'
    BY DEF DataInv, DrawnInv, WrittenInv, Data!ComparesOwnRun
  <1>2. ExpectedInv'
    <2> SUFFICES ASSUME NEW c \in DOMAIN cases, NEW o \in DOMAIN expect_data_paths[c]
                 PROVE  /\ phase' # "acl" /\ (phase' = "data" => c < case')
                        /\ o \in 1 .. cases[c].outputs
                        /\ Data!ExpectFile(c, o) \in DOMAIN disk
                        /\ \A k \in DOMAIN cases[c].inputs :
                             Data!InputFile(c, k) \in DOMAIN disk =>
                               disk[Data!ExpectFile(c, o)].id > disk[Data!InputFile(c, k)].id
      BY DEF ExpectedInv, Data!ExpectFile, Data!InputFile
    <2>1. c \in Nat
      BY DataAssumption DEF DataInv
    <2> QED BY <2>1 DEF DataInv, ExpectedInv
  <1> QED BY <1>1, <1>2 DEF DataInv

\* Input files of the case the generation is at are written before its
\* expected data is there; those of the other cases stay as they are.
LEMMA InputsWritten ==
  ASSUME DataInv, UNCHANGED <<cases, expect_data_paths, compared>>,
         phase \in {"acl", "data"}, phase' \notin {"acl", "compare"} \/ phase' = phase,
         phase' = "data" => phase = "acl" \/ case' >= case,
         phase' = "acl" => case' \in DOMAIN cases,
         case' \in Nat \ {0}, drawn' \in Nat, drawn' >= drawn,
         NEW S, \A f \in S : \E k : f = Data!InputFile(case, k),
         DOMAIN disk' = DOMAIN disk \cup S,
         \A f \in DOMAIN disk' : IF f \in S THEN disk'[f].id \in Int /\ disk'[f].id <= drawn'
                                            ELSE disk'[f] = disk[f]
  PROVE  DataInv'
  <1>1. DrawnInv'
    BY DEF DataInv, DrawnInv
  <1>2. WrittenInv' /\ Data!ComparesOwnRun'
    BY DEF DataInv, WrittenInv, Data!ComparesOwnRun
  <1>3. ExpectedInv'
    <2> SUFFICES ASSUME NEW c \in DOMAIN cases, NEW o \in DOMAIN expect_data_paths[c]
                 PROVE  /\ phase' # "acl" /\ (phase' = "data" => c < case')
                        /\ o \in 1 .. cases[c].outputs
                        /\ Data!ExpectFile(c, o) \in DOMAIN disk'
                        /\ \A k \in DOMAIN cases[c].inputs :
                             Data!InputFile(c, k) \in DOMAIN disk' =>
                               disk'[Data!ExpectFile(c, o)].id > disk'[Data!InputFile(c, k)].id
      BY DEF ExpectedInv, Data!ExpectFile, Data!InputFile
    <2>1. c \in Nat /\ case \in Nat
      BY DataAssumption DEF DataInv
    <2>2. phase = "data" /\ c < case
      BY DEF DataInv, ExpectedInv
    <2>3. Data!ExpectFile(c, o) \notin S /\ \A k : Data!InputFile(c, k) \notin S
      BY <2>1, <2>2 DEF Data!ExpectFile, Data!InputFile
    <2> QED BY <2>1, <2>2, <2>3 DEF DataInv, ExpectedInv
  <1> QED BY <1>1, <1>2, <1>3 DEF DataInv

\* The data of an input that has a value was not drawn.
LEMMA GivenId ==
  ASSUME NEW in, NEW w
  PROVE  Data!Given(in, w).id \in {0, -1}
  BY DEF Data!Given, Data!FromFile

\* Counting is the same in all the modules.
LEMMA SameCardinality == \A S : Data!Cardinality(S) = Cardinality(S)
  BY DEF Data!Cardinality, Cardinality

\* The positions of a list are finitely many.
LEMMA FiniteOfInterval ==
  ASSUME NEW n \in Nat, NEW T \in SUBSET (1 .. n)
  PROVE  IsFiniteSet(T) /\ Cardinality(T) \in Nat
  <1>1. IsFiniteSet(1 .. n)
    BY FS_Interval
  <1>2. IsFiniteSet(T)
    BY <1>1, FS_Subset
  <1> QED BY <1>2, FS_CardinalityType

\* A constant of acl_op.json has the number of its draw.
LEMMA ConstantDrawn ==
  ASSUME drawn \in Nat, NEW ins, Len(ins) \in Nat, DOMAIN ins = 1 .. Len(ins),
         NEW k \in DOMAIN ins, Data!Draws(ins[k])
  PROVE  LET all == Cardinality({j \in DOMAIN ins : Data!Draws(ins[j])})
         IN  /\ all \in Nat
             /\ Data!Constants(ins)[k].id \in Int
             /\ Data!Constants(ins)[k].id <= drawn + all
  <1> DEFINE draws == {j \in DOMAIN ins : Data!Draws(ins[j])}
             before == {j \in 1 .. k : Data!Draws(ins[j])}
  <1>1. draws \subseteq 1 .. Len(ins)
    OBVIOUS
  <1>2. IsFiniteSet(draws) /\ Cardinality(draws) \in Nat
    BY <1>1, FiniteOfInterval
  <1>3. before \subseteq draws
    OBVIOUS
  <1>4. Cardinality(before) \in Nat /\ Cardinality(before) <= Cardinality(draws)
    BY <1>2, <1>3, FS_Subset, FS_CardinalityType
  <1>5. Data!Constants(ins)[k].id = drawn + Cardinality(before)
    BY SameCardinality DEF Data!Constants, Data!ConstValue, Data!Draws, Data!gen_data
  <1> DEFINE b == Cardinality(before)
             d == Cardinality(draws)
             id == Data!Constants(ins)[k].id
  <1>6. b \in Nat /\ d \in Nat /\ b <= d /\ id = drawn + b
    BY <1>2, <1>4, <1>5
  <1> HIDE DEF b, d, id
  <1>7. d \in Nat /\ id \in Int /\ id <= drawn + d
    BY <1>6
  <1> QED BY <1>7, Zenon DEF d, id, draws

\* No stage has begun.
LEMMA DataInit == Data!Init => DataInv
  BY DataAssumption DEF Data!Init, DataInv, DrawnInv, ExpectedInv, WrittenInv, Data!ComparesOwnRun

\* acl_op.json, one case of it.
LEMMA AclStep == DataInv /\ Data!CreateAclOp => DataInv'
  <1> SUFFICES ASSUME DataInv, Data!CreateAclOp PROVE DataInv'
    OBVIOUS
  <1> DEFINE ins == cases[case].inputs
             draws == {k \in DOMAIN ins : Data!Draws(ins[k])}
             bad == Data!Undrawable(ins) \cup Data!Again(ins)
             inputFiles == {Data!InputFile(case, k) : k \in {k \in draws : \A j \in bad :
                         k < j \/ (k = j /\ j \notin Data!Undrawable(ins))}}
  <1>1. /\ phase = "acl" /\ UNCHANGED <<cases, expect_data_paths, compared>>
        /\ disk' = [f \in DOMAIN disk \cup inputFiles |->
                      IF f \in inputFiles THEN Data!Constants(ins)[f[3]] ELSE disk[f]]
        /\ drawn' = drawn + Cardinality(draws)
        /\ \/ phase' = "failed" /\ UNCHANGED case
           \/ UNCHANGED phase /\ case < Len(cases) /\ case' = case + 1
           \/ phase' = "data" /\ case' = 1
    <2>1. drawn' = drawn + Cardinality(draws)
      BY SameCardinality DEF Data!CreateAclOp
    <2>2. phase = "acl" /\ UNCHANGED <<cases, expect_data_paths, compared>>
      BY DEF Data!CreateAclOp
    <2>3. disk' = [f \in DOMAIN disk \cup inputFiles |->
                     IF f \in inputFiles THEN Data!Constants(ins)[f[3]] ELSE disk[f]]
      BY DEF Data!CreateAclOp
    <2>4. \/ phase' = "failed" /\ UNCHANGED case
          \/ UNCHANGED phase /\ case < Len(cases) /\ case' = case + 1
          \/ phase' = "data" /\ case' = 1
      <3> HIDE DEF draws, bad, inputFiles, ins
      <3> QED BY DEF Data!CreateAclOp
    <2> QED BY <2>1, <2>2, <2>3, <2>4
  <1>2. /\ case \in DOMAIN cases /\ DOMAIN cases = 1 .. Len(cases) /\ Len(cases) \in Nat
        /\ Len(ins) \in Nat /\ DOMAIN ins = 1 .. Len(ins) /\ drawn \in Nat
    BY <1>1, DataAssumption DEF DataInv, DrawnInv
  <1>3. Cardinality(draws) \in Nat
    <2>1. Len(ins) \in Nat /\ draws \subseteq 1 .. Len(ins)
      BY <1>2
    <2> HIDE DEF draws, ins
    <2> QED BY <2>1, FiniteOfInterval
  <1>4. ASSUME NEW f \in inputFiles
        PROVE  disk'[f].id \in Int /\ disk'[f].id <= drawn'
    <2>1. PICK k \in draws : f = Data!InputFile(case, k)
      OBVIOUS
    <2>2. f[3] = k
      BY <2>1 DEF Data!InputFile
    <2>3. disk'[f] = Data!Constants(ins)[k]
      BY <1>1, <2>2
    <2> HIDE DEF inputFiles
    <2> QED BY <1>1, <1>2, <2>1, <2>3, ConstantDrawn
  <1>5. \A f \in inputFiles : \E k : f = Data!InputFile(case, k)
    OBVIOUS
  <1>6. DOMAIN disk' = DOMAIN disk \cup inputFiles
    BY <1>1, SMTT(30)
  <1>7. \A f \in DOMAIN disk' : IF f \in inputFiles THEN disk'[f].id \in Int /\ disk'[f].id <= drawn'
                                               ELSE disk'[f] = disk[f]
    BY <1>1, <1>4, <1>6
  <1> HIDE DEF inputFiles, draws, ins
  <1>8. /\ drawn' \in Nat /\ drawn' >= drawn /\ case' \in Nat \ {0}
        /\ phase' = "acl" => case' \in DOMAIN cases
        /\ phase' \notin {"acl", "compare"} \/ phase' = phase
    BY <1>1, <1>2, <1>3
  <1> QED BY <1>1, <1>5, <1>6, <1>7, <1>8, InputsWritten

\* An input of DataGenerator: its file is written, or left as an error leaves
\* it.
LEMMA TransStep == DataInv /\ Data!TransData => DataInv'
  <1> SUFFICES ASSUME DataInv, Data!TransData PROVE DataInv'
    OBVIOUS
  <1> DEFINE in == Data!In
             target == Data!File
             data == IF Data!HasValue(in) THEN Data!Given(in, Data!Width(in.type))
                     ELSE Data!gen_data(in, Data!Shape(in), drawn + 1)
  <1>1. phase = "data" /\ case <= Len(cases)
    BY DEF Data!TransData, Data!InCase
  <1>2. \/ /\ UNCHANGED <<cases, disk, drawn, expect_data_paths, compared, case>>
           /\ phase' = "failed"
        \/ /\ UNCHANGED <<cases, expect_data_paths, compared, case>>
           /\ phase' \in {"data", "failed"}
           /\ disk' = Data!Write(disk, target, data)
           /\ drawn' = drawn + 1 \/ (Data!HasValue(in) /\ drawn' = drawn)
    <2> HIDE DEF data, target, in
    <2> QED BY <1>1 DEF Data!TransData, Data!Fails, Data!Generated, data, target, in
  <1>3. CASE UNCHANGED <<cases, disk, drawn, expect_data_paths, compared, case>> /\ phase' = "failed"
    BY <1>1, <1>3, StageEnds DEF DataInv
  <1>4. CASE /\ UNCHANGED <<cases, expect_data_paths, compared, case>>
             /\ phase' \in {"data", "failed"}
             /\ disk' = Data!Write(disk, target, data)
             /\ drawn' = drawn + 1 \/ (Data!HasValue(in) /\ drawn' = drawn)
    <2>1. drawn \in Nat /\ case \in Nat \ {0}
      BY DEF DataInv, DrawnInv
    <2>2. data.id \in Int /\ data.id <= drawn'
      <3>1. CASE Data!HasValue(in)
        BY <1>4, <2>1, <3>1, GivenId
      <3>2. CASE ~Data!HasValue(in)
        BY <1>4, <2>1, <3>2 DEF Data!gen_data
      <3> QED BY <3>1, <3>2
    <2>3. DOMAIN disk' = DOMAIN disk \cup {target}
      BY <1>4 DEF Data!Write
    <2>4. \A f \in DOMAIN disk' : disk'[f] = IF f = target THEN data ELSE disk[f]
      BY <1>4 DEF Data!Write
    <2>5. \A f \in {target} : \E k : f = Data!InputFile(case, k)
      BY DEF Data!File
    <2> DEFINE S == {target}
    <2>6. \A f \in DOMAIN disk' : IF f \in S THEN disk'[f].id \in Int /\ disk'[f].id <= drawn'
                                             ELSE disk'[f] = disk[f]
      BY <2>2, <2>4
    <2>7. DOMAIN disk' = DOMAIN disk \cup S /\ \A f \in S : \E k : f = Data!InputFile(case, k)
      BY <2>3, <2>5
    <2>8. drawn' \in Nat /\ drawn' >= drawn /\ case' \in Nat \ {0} /\ case' >= case
      BY <1>4, <2>1
    <2>9. /\ phase' \notin {"acl", "compare"}
          /\ phase' = "acl" => case' \in DOMAIN cases
          /\ UNCHANGED <<cases, expect_data_paths, compared>>
      BY <1>4
    <2> HIDE DEF S, data, target, in
    <2> QED BY <1>1, <2>6, <2>7, <2>8, <2>9, InputsWritten
  <1> QED BY <1>2, <1>3, <1>4

\* The expected data of a case, with the next number; its inputs are written.
LEMMA ExpectStep == DataInv /\ Data!ExpectData => DataInv'
  <1> SUFFICES ASSUME DataInv, Data!ExpectData PROVE DataInv'
    OBVIOUS
  <1> DEFINE data(f) == [id |-> drawn + 1, n |-> f[3], width |-> Data!Width("float")]
  <1>1. /\ phase = "data" /\ case \in DOMAIN cases /\ UNCHANGED <<cases, compared>>
        /\ case \in Nat \ {0} /\ drawn \in Nat
        /\ \A c \in DOMAIN cases : c \in Nat /\ cases[c].outputs \in Nat
    <2>1. phase = "data" /\ case <= Len(cases)
      BY DEF Data!ExpectData, Data!InCase
    <2>2. UNCHANGED <<cases, compared>>
      BY DEF Data!ExpectData, Data!Fails
    <2>3. /\ case \in Nat \ {0} /\ drawn \in Nat
          /\ Len(cases) \in Nat /\ DOMAIN cases = 1 .. Len(cases)
          /\ \A c \in DOMAIN cases : cases[c].outputs \in Nat
      BY DataAssumption DEF DataInv, DrawnInv
    <2> QED BY <2>1, <2>2, <2>3
  <1>2. CASE UNCHANGED <<disk, drawn, expect_data_paths>> /\ case' \in {case, case + 1}
             /\ phase' \in {phase, "failed"}
    <2>1. /\ case' \in Nat /\ case' >= case /\ phase # "compare"
          /\ phase' \notin {"acl", "compare"} /\ (phase' = "data" => phase = "data")
      BY <1>1, <1>2
    <2> QED BY <1>1, <1>2, <2>1, StageEnds
  <1>3. ASSUME NEW n \in 1 .. cases[case].outputs,
               disk' = [f \in DOMAIN disk \cup {Data!ExpectFile(case, o) : o \in 1 .. n} |->
                          IF f[1] = "expect" /\ f[2] = case /\ f[3] <= n THEN data(f) ELSE disk[f]],
               expect_data_paths' = [expect_data_paths EXCEPT
                                       ![case] = [o \in 1 .. n |-> Data!ExpectFile(case, o)]],
               drawn' = drawn + 1, case' = case + 1, phase' = phase
        PROVE  DataInv'
    <2>1. /\ DOMAIN disk \subseteq DOMAIN disk'
          /\ \A f \in DOMAIN disk' : disk'[f].id = drawn + 1 \/ (f \in DOMAIN disk /\ disk'[f] = disk[f])
      <3>1. DOMAIN disk' = DOMAIN disk \cup {Data!ExpectFile(case, o) : o \in 1 .. n}
        BY <1>3
      <3>2. ASSUME NEW f \in DOMAIN disk'
            PROVE  disk'[f].id = drawn + 1 \/ (f \in DOMAIN disk /\ disk'[f] = disk[f])
        <4>1. CASE f \in DOMAIN disk
          BY <1>3, <3>1, <4>1
        <4>2. CASE f \notin DOMAIN disk
          BY <1>1, <1>3, <3>1, <4>2 DEF Data!ExpectFile
        <4> QED BY <4>1, <4>2
      <3> QED BY <3>1, <3>2
    <2>2. ASSUME NEW o \in 1 .. n
          PROVE  Data!ExpectFile(case, o) \in DOMAIN disk' /\ disk'[Data!ExpectFile(case, o)].id = drawn + 1
      BY <1>3 DEF Data!ExpectFile
    <2>3. ASSUME NEW c, NEW k, Data!InputFile(c, k) \in DOMAIN disk'
          PROVE  /\ Data!InputFile(c, k) \in DOMAIN disk
                 /\ disk'[Data!InputFile(c, k)] = disk[Data!InputFile(c, k)]
      BY <1>3, <2>3 DEF Data!ExpectFile, Data!InputFile
    <2>4. ASSUME NEW c, c # case, NEW o, Data!ExpectFile(c, o) \in DOMAIN disk
          PROVE  /\ Data!ExpectFile(c, o) \in DOMAIN disk'
                 /\ disk'[Data!ExpectFile(c, o)] = disk[Data!ExpectFile(c, o)]
      BY <1>3, <2>1, <2>4 DEF Data!ExpectFile
    <2>5. /\ expect_data_paths' = [c \in DOMAIN cases |-> expect_data_paths'[c]]
          /\ DOMAIN expect_data_paths'[case] = 1 .. n
          /\ \A c \in DOMAIN cases : c # case => expect_data_paths'[c] = expect_data_paths[c]
      BY <1>1, <1>3 DEF DataInv
    <2> DEFINE Right(c, o) ==
          /\ c < case'
          /\ o \in 1 .. cases[c].outputs
          /\ Data!ExpectFile(c, o) \in DOMAIN disk'
          /\ \A k \in DOMAIN cases[c].inputs :
               Data!InputFile(c, k) \in DOMAIN disk' =>
                 disk'[Data!ExpectFile(c, o)].id > disk'[Data!InputFile(c, k)].id
    <2>6. ASSUME NEW o \in DOMAIN expect_data_paths'[case]
          PROVE  Right(case, o)
      <3>1. o \in 1 .. n /\ n \in Nat /\ o \in 1 .. cases[case].outputs
        BY <1>1, <2>5, <2>6
      <3>2. ASSUME NEW k, Data!InputFile(case, k) \in DOMAIN disk'
            PROVE  drawn + 1 > disk'[Data!InputFile(case, k)].id
        BY <1>1, <2>3, <3>2 DEF DataInv, DrawnInv
      <3>3. case < case'
        BY <1>1, <1>3
      <3>4. \A k \in DOMAIN cases[case].inputs :
              Data!InputFile(case, k) \in DOMAIN disk' =>
                disk'[Data!ExpectFile(case, o)].id > disk'[Data!InputFile(case, k)].id
        BY <2>2, <3>1, <3>2 DEF Data!InputFile, Data!ExpectFile
      <3> QED BY <2>2, <3>1, <3>3, <3>4
    <2>7. ASSUME NEW c \in DOMAIN cases, c # case, NEW o \in DOMAIN expect_data_paths'[c]
          PROVE  Right(c, o)
      <3>1. /\ o \in DOMAIN expect_data_paths[c] /\ c < case /\ o \in 1 .. cases[c].outputs
            /\ Data!ExpectFile(c, o) \in DOMAIN disk
            /\ \A k \in DOMAIN cases[c].inputs :
                 Data!InputFile(c, k) \in DOMAIN disk =>
                   disk[Data!ExpectFile(c, o)].id > disk[Data!InputFile(c, k)].id
        BY <1>1, <2>5, <2>7 DEF DataInv, ExpectedInv
      <3>2. c < case'
        BY <1>1, <1>3, <3>1
      <3> QED BY <2>3, <2>4, <2>7, <3>1, <3>2
    <2>8. ExpectedInv'
      <3> HIDE DEF Right
      <3>1. \A c \in DOMAIN cases : \A o \in DOMAIN expect_data_paths'[c] : Right(c, o)
        BY <2>6, <2>7
      <3>2. cases' = cases /\ phase' = "data"
        BY <1>1, <1>3
      <3> QED BY <3>1, <3>2 DEF ExpectedInv, Right, Data!ExpectFile, Data!InputFile
    <2>9. DrawnInv'
      <3>1. drawn' = drawn + 1 /\ drawn \in Nat
        BY <1>1, <1>3
      <3>2. \A f \in DOMAIN disk : disk[f].id \in Int /\ disk[f].id <= drawn
        BY DEF DataInv, DrawnInv
      <3>3. \A f \in DOMAIN disk' : disk'[f].id = drawn + 1 \/ (disk'[f].id \in Int /\ disk'[f].id <= drawn)
        BY <2>1, <3>2
      <3> QED BY <3>1, <3>3 DEF DrawnInv
    <2>10. WrittenInv' /\ Data!ComparesOwnRun'
      BY <1>1, <1>3 DEF DataInv, WrittenInv, Data!ComparesOwnRun
    <2> QED BY <1>1, <1>3, <2>5, <2>8, <2>9, <2>10 DEF DataInv
  <1>4. \/ /\ UNCHANGED <<disk, drawn, expect_data_paths>> /\ case' \in {case, case + 1}
           /\ phase' \in {phase, "failed"}
        \/ \E n \in 1 .. cases[case].outputs :
             /\ disk' = [f \in DOMAIN disk \cup {Data!ExpectFile(case, o) : o \in 1 .. n} |->
                           IF f[1] = "expect" /\ f[2] = case /\ f[3] <= n THEN data(f) ELSE disk[f]]
             /\ expect_data_paths' = [expect_data_paths EXCEPT
                                        ![case] = [o \in 1 .. n |-> Data!ExpectFile(case, o)]]
             /\ drawn' = drawn + 1 /\ case' = case + 1 /\ phase' = phase
    BY DEF Data!ExpectData, Data!Fails
  <1> QED BY <1>2, <1>3, <1>4

\* The test binary: a case that passes has written its outputs.
LEMMA RunStep == DataInv /\ Data!RunAcl => DataInv'
  <1> SUFFICES ASSUME DataInv, Data!RunAcl PROVE DataInv'
    OBVIOUS
  <1>1. PICK passes \in SUBSET DOMAIN cases :
          /\ result_txt' = [c \in DOMAIN cases |-> IF c \in passes THEN "[pass]" ELSE "[fail]"]
          /\ LET outputFiles == UNION {{Data!OutputFile(c, o) : o \in 1 .. cases[c].outputs} : c \in passes}
             IN  disk' = [f \in DOMAIN disk \cup outputFiles |->
                            IF f \in outputFiles THEN [id |-> drawn + 1, n |-> f[3], width |-> 4] ELSE disk[f]]
    BY DEF Data!RunAcl
  <1> DEFINE outputFiles == UNION {{Data!OutputFile(c, o) : o \in 1 .. cases[c].outputs} : c \in passes}
  <1>2. /\ phase = "run" /\ phase' = "compare" /\ drawn' = drawn + 1 /\ case' = 1 /\ drawn \in Nat
        /\ UNCHANGED <<cases, expect_data_paths, compared>>
    BY DEF Data!RunAcl, DataInv, DrawnInv
  <1>3. \A f : f \in outputFiles <=> \E c \in passes : \E o \in 1 .. cases[c].outputs : f = Data!OutputFile(c, o)
    OBVIOUS
  <1>4. /\ DOMAIN disk' = DOMAIN disk \cup outputFiles
        /\ \A f \in DOMAIN disk' :
             IF f \in outputFiles THEN disk'[f].id = drawn + 1 ELSE f \in DOMAIN disk /\ disk'[f] = disk[f]
    <2> HIDE DEF outputFiles
    <2> QED BY <1>1 DEF outputFiles
  <1> HIDE DEF outputFiles
  <1>5. DrawnInv'
    BY <1>2, <1>4 DEF DataInv, DrawnInv
  <1>6. \A c, k : Data!InputFile(c, k) \notin outputFiles /\ Data!ExpectFile(c, k) \notin outputFiles
    BY <1>3 DEF Data!InputFile, Data!ExpectFile, Data!OutputFile
  <1>7. ExpectedInv'
    <2> SUFFICES ASSUME NEW c \in DOMAIN cases, NEW o \in DOMAIN expect_data_paths[c]
                 PROVE  /\ o \in 1 .. cases[c].outputs
                        /\ Data!ExpectFile(c, o) \in DOMAIN disk'
                        /\ \A k \in DOMAIN cases[c].inputs :
                             Data!InputFile(c, k) \in DOMAIN disk' =>
                               disk'[Data!ExpectFile(c, o)].id > disk'[Data!InputFile(c, k)].id
      BY <1>2 DEF ExpectedInv, Data!ExpectFile, Data!InputFile
    <2> QED BY <1>4, <1>6 DEF DataInv, ExpectedInv
  <1>8. WrittenInv'
    <2> SUFFICES ASSUME NEW c \in DOMAIN cases, result_txt'[c] = "[pass]",
                        NEW o \in 1 .. cases[c].outputs
                 PROVE  Data!OutputFile(c, o) \in DOMAIN disk' /\ disk'[Data!OutputFile(c, o)].id = drawn'
      BY <1>2 DEF WrittenInv, Data!OutputFile
    <2>1. c \in passes
      BY <1>1
    <2>2. Data!OutputFile(c, o) \in outputFiles
      BY <1>3, <2>1
    <2> QED BY <1>2, <1>4, <2>2
  <1>9. Data!ComparesOwnRun'
    BY <1>2 DEF DataInv, WrittenInv, Data!ComparesOwnRun
  <1>10. phase' # "acl" /\ case' \in Nat \ {0}
    BY <1>2
  <1> QED BY <1>2, <1>5, <1>7, <1>8, <1>9, <1>10 DEF DataInv

\* The comparison of a case takes the outputs the last draw wrote and the
\* expected data the report has.
LEMMA CompareStep == DataInv /\ Data!CompareCase => DataInv'
  <1> SUFFICES ASSUME DataInv, Data!CompareCase PROVE DataInv'
    OBVIOUS
  <1>1. /\ phase = "compare" /\ case \in DOMAIN cases /\ case' = case + 1 /\ case \in Nat
        /\ UNCHANGED <<cases, disk, phase, expect_data_paths, result_txt, drawn>>
    BY DataAssumption DEF Data!CompareCase, DataInv
  <1>2. DrawnInv' /\ ExpectedInv' /\ WrittenInv'
    BY <1>1 DEF DataInv, DrawnInv, ExpectedInv, WrittenInv
  <1>3. /\ compared' = [c \in DOMAIN cases |-> compared'[c]]
        /\ Data!ComparesOwnRun'
    <2>1. CASE ~Data!Compares(case)
      BY <1>1, <2>1 DEF Data!CompareCase, DataInv, Data!ComparesOwnRun
    <2>2. CASE Data!Compares(case)
      <3> DEFINE outs == {o \in DOMAIN expect_data_paths[case] : Data!BothFiles(case, o)}
                 pairs == {<<disk[Data!OutputFile(case, o)], disk[Data!ExpectFile(case, o)]>> : o \in outs}
      <3>1. compared' = [compared EXCEPT ![case] = pairs]
        BY <2>2 DEF Data!CompareCase
      <3>2. ASSUME NEW p \in pairs
            PROVE  /\ p[1].id = drawn
                   /\ \A k \in DOMAIN cases[case].inputs :
                        Data!InputFile(case, k) \in DOMAIN disk => p[2].id > disk[Data!InputFile(case, k)].id
        <4>1. PICK o \in outs : p = <<disk[Data!OutputFile(case, o)], disk[Data!ExpectFile(case, o)]>>
          OBVIOUS
        <4>2. p[1] = disk[Data!OutputFile(case, o)] /\ p[2] = disk[Data!ExpectFile(case, o)]
          BY <4>1
        <4>3. o \in 1 .. cases[case].outputs
          BY <1>1 DEF DataInv, ExpectedInv
        <4>4. disk[Data!OutputFile(case, o)].id = drawn
          BY <1>1, <2>2, <4>3 DEF DataInv, WrittenInv, Data!Compares
        <4> QED BY <1>1, <4>2, <4>4 DEF DataInv, ExpectedInv
      <3> HIDE DEF pairs
      <3>3. /\ compared' = [c \in DOMAIN cases |-> compared'[c]]
            /\ compared'[case] = pairs
            /\ \A c \in DOMAIN cases : c # case => compared'[c] = compared[c]
        BY <1>1, <3>1 DEF DataInv
      <3> QED BY <1>1, <3>2, <3>3 DEF DataInv, Data!ComparesOwnRun, Data!InputFile
    <2> QED BY <2>1, <2>2
  <1> QED BY <1>1, <1>2, <1>3 DEF DataInv

\* Another command starts without a report, on what is on the disk.
LEMMA AgainStep == DataInv /\ Data!NextCommand => DataInv'
  <1> SUFFICES ASSUME DataInv, Data!NextCommand PROVE DataInv'
    OBVIOUS
  <1>1. /\ UNCHANGED <<cases, drawn>> /\ disk' \in {disk, <<>>} /\ phase' = "acl" /\ case' = 1
        /\ expect_data_paths' = [c \in DOMAIN cases |-> <<>>]
        /\ compared' = [c \in DOMAIN cases |-> {}]
    BY DEF Data!NextCommand, Data!Fresh
  <1>2. DrawnInv' /\ 1 \in DOMAIN cases
    BY <1>1, DataAssumption DEF DataInv, DrawnInv
  <1> QED BY <1>1, <1>2 DEF DataInv, ExpectedInv, WrittenInv, Data!ComparesOwnRun

\* One case for each step of a command.
LEMMA DataNext == DataInv /\ Data!Next => DataInv'
  <1> SUFFICES ASSUME DataInv, Data!Next PROVE DataInv'
    OBVIOUS
  <1>1. CASE Data!NoInputs \/ Data!SkipOptional \/ Data!ConstData \/ Data!GenerateEnds
    <2>1. /\ UNCHANGED <<cases, disk, drawn, expect_data_paths, compared, case>>
          /\ phase = "data" /\ phase' \in {"data", "run", "failed"}
      BY <1>1 DEF Data!NoInputs, Data!SkipOptional, Data!ConstData, Data!GenerateEnds, Data!InCase,
        Data!Generated, Data!Fails
    <2> QED BY <2>1, StageEnds DEF DataInv
  <1> QED BY <1>1, AclStep, TransStep, ExpectStep, RunStep, CompareStep, AgainStep DEF Data!Next

\* A step of another program leaves the data alone.
LEMMA DataStep ==
  ASSUME program = "data" => DataInv, [Next]_vars
  PROVE  (program = "data" => DataInv)'
  <1>1. CASE UNCHANGED vars
    BY <1>1 DEF vars, shared, ownData, DataInv, DrawnInv, ExpectedInv, WrittenInv, Data!ComparesOwnRun
  <1>2. CASE Next
    BY <1>2, DataNext DEF Next
  <1> QED BY <1>1, <1>2

\* For all case lists and any number of commands, failed or not, in a directory
\* that was cleaned or not: what is compared are outputs of the last run of the
\* test binary, with expected data that was computed from the inputs there.
THEOREM DataSafety == Spec => []ComparesOwnRun
  <1>1. Init => (program = "data" => DataInv)
    BY DataInit DEF Init
  <1>2. (program = "data" => DataInv) => ComparesOwnRun
    BY DEF DataInv, ComparesOwnRun
  <1> QED BY <1>1, <1>2, DataStep, PTL DEF Spec

-----------------------------------------------------------------------------
(* The data that the expect function is given.                              *)

\* An input as acl_op.json has it: a constant that was drawn is in its file,
\* with the elements of the shape.
PreparedInput(c, k) ==
  LET in == cases[c].inputs[k]
      target == Data!InputFile(c, k)
  IN  IF Data!Draws(in)
      THEN /\ in.dist \in Distributions /\ target \in DOMAIN disk
           /\ acl[c].values[k] = disk[target]
           /\ disk[target].n = Data!Shape(in) /\ disk[target].n \in Nat
           /\ disk[target].width \in {1, 2, 4, 8, 16}
      ELSE in.is_const => acl[c].values[k] = Data!ConstValue(in, 0)

Prepared(c) ==
  /\ acl[c].attr = attr[c]
  /\ \A k \in DOMAIN cases[c].inputs : PreparedInput(c, k)
  /\ Data!Again(cases[c].inputs) = {}

\* The two parts of SameData, of an input and of the attribute.
SameInput(c, k) ==
  LET in == cases[c].inputs[k]
      read == in.value = "path" => Widths[in.type] = Data!Width(in.type)
  IN  in.name \in DOMAIN params[c] \ {cases[c].output_name, "attr"} =>
        /\ Data!InputFile(c, k) \in DOMAIN disk
        /\ Data!Same(disk[Data!InputFile(c, k)], params[c][in.name])
        /\ in.is_const /\ read => Data!Same(acl[c].values[k], params[c][in.name])

SameAttr(c) ==
  "attr" \in DOMAIN params[c] \ {cases[c].inputs[k].name : k \in DOMAIN cases[c].inputs} =>
    params[c]["attr"] = acl[c].attr

SameCase(c) ==
  params[c] # NONE => SameAttr(c) /\ \A k \in DOMAIN cases[c].inputs : SameInput(c, k)

\* The cases before the one acl_op.json is at are prepared, and all of them
\* when the data is generated.
SameInv ==
  /\ cases \in CaseLists /\ input \in Nat \ {0}
  /\ DOMAIN attr = DOMAIN cases /\ DOMAIN acl = DOMAIN cases /\ DOMAIN params = DOMAIN cases
  /\ phase = "acl" => /\ case \in DOMAIN cases
                      /\ \A c \in DOMAIN cases : params[c] = NONE /\ (c < case => Prepared(c))
  /\ phase = "data" => /\ case \in Nat \ {0}
                       /\ \A c \in DOMAIN cases : Prepared(c)
  /\ \A c \in DOMAIN cases : SameCase(c)

LEMMA SameParts == Data!SameData <=> \A c \in DOMAIN cases : SameCase(c)
  BY DEF Data!SameData, SameCase, SameInput, SameAttr

\* Widths and sizes of an input.
LEMMA InputType ==
  ASSUME cases \in CaseLists, NEW c \in DOMAIN cases, NEW k \in DOMAIN cases[c].inputs
  PROVE  LET in == cases[c].inputs[k]
         IN  /\ Widths[in.type] \in {1, 2, 4, 8, 16} /\ Data!Width(in.type) \in {1, 2, 4, 8, 16}
             /\ in.shape \in Nat
  BY DataAssumption

\* As many elements in two widths are the same bytes, or none: what a file
\* that passes the check of its size is read as.
LEMMA ReadSame ==
  ASSUME NEW d, d.n \in Nat, d.width \in {1, 2, 4, 8, 16}, NEW w \in {1, 2, 4, 8, 16},
         Data!FromFile(d, w).n = d.n
  PROVE  Data!Same(d, Data!FromFile(d, w))
  <1>1. CASE w = d.width
    BY <1>1 DEF Data!Same, Data!FromFile
  <1>2. CASE w # d.width
    <2> DEFINE n == d.n
               v == d.width
    <2>1. (n * v) \div w = n
      BY <1>2 DEF Data!FromFile
    <2>2. n \in Nat /\ v \in {1, 2, 4, 8, 16} /\ v # w
      BY <1>2
    <2> HIDE DEF n, v
    <2>3. n = 0
      <3>1. CASE v = 1
        BY <2>1, <2>2, <3>1
      <3>2. CASE v = 2
        BY <2>1, <2>2, <3>2
      <3>3. CASE v = 4
        BY <2>1, <2>2, <3>3
      <3>4. CASE v = 8
        BY <2>1, <2>2, <3>4
      <3>5. CASE v = 16
        BY <2>1, <2>2, <3>5
      <3> QED BY <2>2, <3>1, <3>2, <3>3, <3>4, <3>5
    <2>4. d.n = 0
      BY <2>3 DEF n
    <2> QED BY <2>4 DEF Data!Same
  <1> QED BY <1>1, <1>2

\* What keeps the inputs' files, acl_op.json and the parameters keeps the rest.
LEMMA SameKept ==
  ASSUME SameInv, UNCHANGED <<cases, attr, acl, params>>,
         \A c, k : Data!InputFile(c, k) \in DOMAIN disk =>
                     /\ Data!InputFile(c, k) \in DOMAIN disk'
                     /\ disk'[Data!InputFile(c, k)] = disk[Data!InputFile(c, k)],
         input' \in Nat \ {0},
         \/ UNCHANGED <<phase, case>>
         \/ phase' # "acl" /\ (phase' = "data" => phase = "data" /\ case' \in Nat \ {0})
  PROVE  SameInv'
  <1>1. ASSUME NEW c \in DOMAIN cases, Prepared(c)
        PROVE  Prepared(c)'
    <2>1. ASSUME NEW k \in DOMAIN cases[c].inputs
          PROVE  PreparedInput(c, k)'
      BY <1>1 DEF Prepared, PreparedInput, Data!InputFile
    <2> QED BY <1>1, <2>1 DEF Prepared
  <1>2. ASSUME NEW c \in DOMAIN cases
        PROVE  SameCase(c)'
    <2>1. SameCase(c)
      BY DEF SameInv
    <2>2. ASSUME NEW k \in DOMAIN cases[c].inputs, SameInput(c, k)
          PROVE  SameInput(c, k)'
      BY <2>2 DEF SameInput, Data!InputFile
    <2> QED BY <2>1, <2>2 DEF SameCase, SameAttr
  <1> QED BY <1>1, <1>2 DEF SameInv

LEMMA SameInit == Data!Init => SameInv
  BY DataAssumption DEF Data!Init, SameInv, SameCase

\* A constant of a case is drawn into its file and into acl_op.json.
LEMMA ConstantPrepared ==
  ASSUME cases \in CaseLists, NEW c \in DOMAIN cases, NEW k \in DOMAIN cases[c].inputs, NEW id,
         Data!Draws(cases[c].inputs[k]), cases[c].inputs[k].typical_shape = NONE
  PROVE  LET data == Data!ConstValue(cases[c].inputs[k], id)
         IN  /\ data.n = Data!Shape(cases[c].inputs[k]) /\ data.n \in Nat
             /\ data.width \in {1, 2, 4, 8, 16}
  <1> DEFINE in == cases[c].inputs[k]
  <1>1. Data!ConstValue(in, id) = Data!gen_data(in, in.shape, id)
    BY DEF Data!Draws, Data!ConstValue
  <1>2. in.shape \in Nat /\ Data!Width(in.type) \in {1, 2, 4, 8, 16}
    BY InputType
  <1>3. Data!Shape(in) = in.shape
    BY DEF Data!Shape
  <1> HIDE DEF in
  <1>4. LET data == Data!gen_data(in, in.shape, id)
        IN  data.n = in.shape /\ data.width \in {1, 2, 4, 8, 16}
    BY <1>2 DEF Data!gen_data
  <1>5. LET data == Data!ConstValue(in, id)
        IN  data.n = Data!Shape(in) /\ data.n \in Nat /\ data.width \in {1, 2, 4, 8, 16}
    BY <1>1, <1>2, <1>3, <1>4
  <1> QED BY <1>5 DEF in

\* A value of the case file has no number.
LEMMA ValueOnly ==
  ASSUME NEW in, NEW id, ~Data!Draws(in)
  PROVE  Data!ConstValue(in, id) = Data!ConstValue(in, 0)
  BY DEF Data!ConstValue, Data!Draws

LEMMA SameAcl == SameInv /\ Data!CreateAclOp => SameInv'
  <1> SUFFICES ASSUME SameInv, Data!CreateAclOp PROVE SameInv'
    OBVIOUS
  <1> DEFINE ins == cases[case].inputs
             values == Data!Constants(ins)
             draws == {k \in DOMAIN ins : Data!Draws(ins[k])}
             bad == Data!Undrawable(ins) \cup Data!Again(ins)
             inputFiles == {Data!InputFile(case, k) : k \in {k \in draws : \A j \in bad :
                         k < j \/ (k = j /\ j \notin Data!Undrawable(ins))}}
             value == Data!AclAttr(attr[case])
  <1>1. /\ phase = "acl" /\ UNCHANGED <<cases, params, input>>
        /\ case \in DOMAIN cases /\ DOMAIN cases = 1 .. Len(cases) /\ Len(cases) \in Nat
        /\ DOMAIN ins = 1 .. Len(ins) /\ Len(ins) \in Nat
        /\ \A c \in DOMAIN cases : params[c] = NONE
    BY DataAssumption DEF Data!CreateAclOp, SameInv
  <1>2. \A c \in DOMAIN cases : SameCase(c)'
    BY <1>1 DEF SameCase
  <1>3. \/ phase' = "failed" /\ UNCHANGED <<attr, acl>>
        \/ /\ bad = {}
           /\ disk' = [f \in DOMAIN disk \cup inputFiles |-> IF f \in inputFiles THEN values[f[3]] ELSE disk[f]]
           /\ attr' = [attr EXCEPT ![case] = value]
           /\ acl' = [acl EXCEPT ![case] = [values |-> values, attr |-> value]]
           /\ \/ UNCHANGED phase /\ case < Len(cases) /\ case' = case + 1
              \/ phase' = "data" /\ case' = 1 /\ case >= Len(cases)
    BY <1>1 DEF Data!CreateAclOp
  <1>4. CASE phase' = "failed" /\ UNCHANGED <<attr, acl>>
    BY <1>1, <1>2, <1>4 DEF SameInv
  <1>5. CASE /\ bad = {}
             /\ disk' = [f \in DOMAIN disk \cup inputFiles |-> IF f \in inputFiles THEN values[f[3]] ELSE disk[f]]
             /\ attr' = [attr EXCEPT ![case] = value]
             /\ acl' = [acl EXCEPT ![case] = [values |-> values, attr |-> value]]
             /\ \/ UNCHANGED phase /\ case < Len(cases) /\ case' = case + 1
                \/ phase' = "data" /\ case' = 1 /\ case >= Len(cases)
    <2>1. /\ DOMAIN attr' = DOMAIN cases /\ DOMAIN acl' = DOMAIN cases
          /\ attr'[case] = value /\ acl'[case].values = values /\ acl'[case].attr = value
          /\ \A c \in DOMAIN cases : c # case => attr'[c] = attr[c] /\ acl'[c] = acl[c]
      <3> HIDE DEF values, value
      <3> QED BY <1>1, <1>5 DEF SameInv
    <2>2. ASSUME NEW c, c = case, NEW k \in DOMAIN ins
          PROVE  PreparedInput(c, k)'
      <3>1. \E id : values[k] = Data!ConstValue(ins[k], id)
        BY DEF Data!Constants
      <3>2. CASE Data!Draws(ins[k])
        <4>1. ins[k].dist \in Distributions /\ ins[k].typical_shape = NONE
          BY <1>5, <3>2 DEF Data!Undrawable
        <4>2. Data!InputFile(case, k) \in inputFiles
          BY <1>5, <3>2
        <4>3. /\ Data!InputFile(case, k) \in DOMAIN disk'
              /\ disk'[Data!InputFile(case, k)] = values[k]
          <5>1. Data!InputFile(case, k)[3] = k
            BY DEF Data!InputFile
          <5> HIDE DEF inputFiles, values
          <5> QED BY <1>5, <4>2, <5>1
        <4>4. /\ values[k].n = Data!Shape(ins[k]) /\ values[k].n \in Nat
              /\ values[k].width \in {1, 2, 4, 8, 16}
          <5>1. PICK id : values[k] = Data!ConstValue(ins[k], id)
            BY <3>1
          <5>2. LET data == Data!ConstValue(cases[case].inputs[k], id)
                IN  /\ data.n = Data!Shape(cases[case].inputs[k]) /\ data.n \in Nat
                    /\ data.width \in {1, 2, 4, 8, 16}
            <6>1. cases \in CaseLists
              BY SMTT(30) DEF SameInv
            <6> QED BY <1>1, <3>2, <4>1, <6>1, ConstantPrepared, Zenon
          <5> HIDE DEF values
          <5> QED BY <5>1, <5>2
        <4> HIDE DEF values
        <4> QED BY <1>1, <2>1, <2>2, <3>2, <4>1, <4>3, <4>4
              DEF PreparedInput, Data!InputFile, Data!Draws, Data!HasValue, Data!Shape
      <3>3. CASE ~Data!Draws(ins[k])
        <4>1. values[k] = Data!ConstValue(ins[k], 0)
          BY <3>1, <3>3, ValueOnly
        <4> HIDE DEF values
        <4> QED BY <1>1, <2>1, <2>2, <3>3, <4>1
              DEF PreparedInput, Data!ConstValue, Data!Given, Data!FromFile, Data!Width,
                  Data!map_type_to_expect_type, Data!gen_data, Data!Draws, Data!HasValue
      <3> QED BY <3>2, <3>3
    <2>3. ASSUME NEW c, c = case
          PROVE  Prepared(c)'
      <3>1. Data!Again(cases'[c].inputs) = {}
        BY <1>1, <1>5, <2>3
      <3>2. \A k \in DOMAIN cases'[c].inputs : PreparedInput(c, k)'
        BY <1>1, <2>2, <2>3
      <3> QED BY <1>1, <2>1, <2>3, <3>1, <3>2 DEF Prepared, Data!Again
    <2>4. ASSUME NEW c \in DOMAIN cases, c < case
          PROVE  Prepared(c)'
      <3>1. Prepared(c)
        BY <1>1, <2>4 DEF SameInv
      <3>2. c # case
        BY <1>1, <2>4
      <3>3. ASSUME NEW k
            PROVE  Data!InputFile(c, k) \notin inputFiles
        BY <3>2 DEF Data!InputFile
      <3>4. ASSUME NEW k, Data!InputFile(c, k) \in DOMAIN disk
            PROVE  /\ Data!InputFile(c, k) \in DOMAIN disk'
                   /\ disk'[Data!InputFile(c, k)] = disk[Data!InputFile(c, k)]
        <4> HIDE DEF inputFiles, values
        <4> QED BY <1>5, <3>3, <3>4
      <3>5. ASSUME NEW k \in DOMAIN cases[c].inputs
            PROVE  PreparedInput(c, k)'
        BY <1>1, <2>1, <3>1, <3>2, <3>4, <3>5 DEF Prepared, PreparedInput, Data!InputFile
      <3> QED BY <1>1, <2>1, <3>1, <3>2, <3>5 DEF Prepared
    <2>5. \A c \in DOMAIN cases : c <= case => Prepared(c)'
      BY <1>1, <2>3, <2>4
    <2>6. CASE UNCHANGED phase /\ case < Len(cases) /\ case' = case + 1
      <3>1. case' \in DOMAIN cases /\ \A c \in DOMAIN cases : c < case' => c <= case
        BY <1>1, <2>6
      <3> QED BY <1>1, <1>2, <2>1, <2>5, <2>6, <3>1 DEF SameInv
    <2>7. CASE phase' = "data" /\ case' = 1 /\ case >= Len(cases)
      <3>1. \A c \in DOMAIN cases : c <= case
        BY <1>1, <2>7
      <3> QED BY <1>1, <1>2, <2>1, <2>5, <2>7, <3>1 DEF SameInv
    <2> QED BY <1>5, <2>6, <2>7
  <1> QED BY <1>3, <1>4, <1>5

\* An input that was generated: its file, which others do not write, has what
\* the expect function is given, and a constant of acl_op.json is the same.
LEMMA SameGenerated ==
  ASSUME SameInv, phase = "data", case <= Len(cases), input <= Len(cases[case].inputs), NEW data,
         UNCHANGED <<cases, attr, acl, phase, case>>, input' = input + 1,
         params' = [params EXCEPT ![case] = Data!Update(@, Data!In.name, data)],
         \A f \in DOMAIN disk : f \in DOMAIN disk' /\ disk'[f] = disk[f],
         Data!File \in DOMAIN disk', Data!Same(disk'[Data!File], data),
         Data!In.is_const /\ (Data!In.value = "path" => Widths[Data!In.type] = Data!Width(Data!In.type))
           => Data!Same(acl[case].values[input], data)
  PROVE  SameInv'
  <1> DEFINE name == Data!In.name
  <1>1. /\ case \in DOMAIN cases /\ DOMAIN cases[case].inputs = 1 .. Len(cases[case].inputs)
        /\ Len(cases[case].inputs) \in Nat /\ input \in DOMAIN cases[case].inputs
        /\ DOMAIN params = DOMAIN cases /\ input' \in Nat \ {0}
    <2>1. /\ cases \in CaseLists /\ case \in Nat \ {0} /\ input \in Nat \ {0}
          /\ DOMAIN params = DOMAIN cases
      BY DEF SameInv
    <2>2. case \in DOMAIN cases
      BY <2>1, DataAssumption
    <2>3. DOMAIN cases[case].inputs = 1 .. Len(cases[case].inputs) /\ Len(cases[case].inputs) \in Nat
      BY <2>1, <2>2, DataAssumption
    <2> QED BY <2>1, <2>2, <2>3
  <1>2. ASSUME NEW c \in DOMAIN cases
        PROVE  Prepared(c)'
    <2>1. Prepared(c)
      BY DEF SameInv
    <2>2. ASSUME NEW k \in DOMAIN cases[c].inputs
          PROVE  PreparedInput(c, k)'
      BY <2>1 DEF Prepared, PreparedInput, Data!InputFile
    <2> QED BY <2>1, <2>2 DEF Prepared
  <1>3. /\ DOMAIN params' = DOMAIN cases
        /\ params'[case] = Data!Update(params[case], name, data)
        /\ \A c \in DOMAIN cases : c # case => params'[c] = params[c]
    BY <1>1
  <1>4. ASSUME NEW c \in DOMAIN cases, params'[c] = params[c]
        PROVE  SameCase(c)'
    <2>1. ASSUME NEW k \in DOMAIN cases[c].inputs, SameInput(c, k)
          PROVE  SameInput(c, k)'
      BY <1>4, <2>1 DEF SameInput, Data!InputFile
    <2>2. SameCase(c)
      BY DEF SameInv
    <2> QED BY <1>4, <2>1, <2>2 DEF SameCase, SameAttr
  <1>5. CASE name = NONE
    <2>1. params'[case] = params[case]
      BY <1>3, <1>5 DEF Data!Update
    <2> QED BY <1>1, <1>2, <1>3, <1>4, <2>1 DEF SameInv
  <1>6. CASE name # NONE
    <2> DEFINE old == IF params[case] = NONE THEN {} ELSE DOMAIN params[case]
    <2>1. /\ DOMAIN params'[case] = old \cup {name}
          /\ params'[case][name] = data
          /\ \A n \in old : n # name => params'[case][n] = params[case][n]
      BY <1>3, <1>6 DEF Data!Update
    <2>2. ASSUME NEW k, k = input
          PROVE  SameInput(case, k)'
      BY <1>1, <2>1, <2>2 DEF SameInput, Data!In, Data!File, Data!InputFile
    <2>3. ASSUME NEW k \in DOMAIN cases[case].inputs, k # input
          PROVE  SameInput(case, k)'
      <3>1. cases[case].inputs[k].name # name
        <4>1. Data!Again(cases[case].inputs) = {}
          BY <1>1 DEF SameInv, Prepared
        <4>2. k \in Nat /\ input \in Nat /\ (k \in 1 .. input - 1 \/ input \in 1 .. k - 1)
          BY <1>1, <2>3
        <4>3. ASSUME cases[case].inputs[k].name = name
              PROVE  FALSE
          <5>1. cases[case].inputs[k].name = cases[case].inputs[input].name
            BY <4>3 DEF Data!In
          <5>2. cases[case].inputs[k].name # NONE /\ cases[case].inputs[input].name # NONE
            BY <1>6, <4>3, <5>1, SMTT(30)
          <5> HIDE DEF name
          <5> QED BY <1>1, <4>1, <4>2, <5>1, <5>2 DEF Data!Again
        <4> QED BY <4>3
      <3>2. CASE cases[case].inputs[k].name \in old
        <4>1. params[case] # NONE /\ SameInput(case, k)
          BY <1>1, <3>2 DEF SameInv, SameCase
        <4>2. params'[case][cases[case].inputs[k].name] = params[case][cases[case].inputs[k].name]
          BY <2>1, <3>1, <3>2
        <4> HIDE DEF name
        <4> QED BY <3>2, <4>1, <4>2 DEF SameInput, Data!InputFile
      <3>3. CASE cases[case].inputs[k].name \notin old
        BY <2>1, <3>1, <3>3 DEF SameInput
      <3> QED BY <3>2, <3>3
    <2>4. SameAttr(case)'
      <3> SUFFICES ASSUME "attr" \in DOMAIN params'[case],
                          "attr" \notin {cases[case].inputs[k].name : k \in DOMAIN cases[case].inputs}
                   PROVE  params'[case]["attr"] = acl[case].attr
        BY DEF SameAttr
      <3>1. name # "attr"
        BY <1>1 DEF Data!In
      <3>2. "attr" \in old /\ params[case] # NONE
        BY <2>1, <3>1
      <3>3. params[case]["attr"] = acl[case].attr
        BY <1>1, <3>2 DEF SameInv, SameCase, SameAttr
      <3> QED BY <2>1, <3>1, <3>2, <3>3
    <2>5. SameCase(case)'
      <3>1. \A k \in DOMAIN cases[case].inputs : SameInput(case, k)'
        BY <2>2, <2>3
      <3> QED BY <2>4, <3>1 DEF SameCase
    <2> QED BY <1>1, <1>2, <1>3, <1>4, <2>5 DEF SameInv
  <1> QED BY <1>5, <1>6

\* The constant that acl_op.json was given is read from its file.
LEMMA SameConst == SameInv /\ Data!ConstData => SameInv'
  <1> SUFFICES ASSUME SameInv, Data!ConstData PROVE SameInv'
    OBVIOUS
  <1> DEFINE in == Data!In
             data == Data!FromFile(disk[Data!File], Widths[in.type])
  <1>1. /\ phase = "data" /\ case <= Len(cases) /\ input <= Len(cases[case].inputs)
        /\ in.is_const /\ in.value = NONE
    BY DEF Data!ConstData, Data!InCase, Data!IsConstDistribute
  <1>2. /\ case \in DOMAIN cases /\ input \in DOMAIN cases[case].inputs
    BY <1>1, DataAssumption DEF SameInv
  <1>3. /\ acl[case].values[input] = disk[Data!File] /\ Data!File \in DOMAIN disk
        /\ disk[Data!File].n = Data!Shape(in) /\ disk[Data!File].n \in Nat
        /\ disk[Data!File].width \in {1, 2, 4, 8, 16}
    <2>1. PreparedInput(case, input)
      BY <1>1, <1>2 DEF SameInv, Prepared
    <2>2. Data!Draws(in)
      BY <1>1 DEF Data!Draws, Data!HasValue
    <2> QED BY <2>1, <2>2 DEF PreparedInput, Data!In, Data!File
  <1>4. CASE data.n = Data!Shape(in)
    <2>1. /\ UNCHANGED <<cases, attr, acl, phase, case, disk>> /\ input' = input + 1
          /\ params' = [params EXCEPT ![case] = Data!Update(@, in.name, data)]
      BY <1>4 DEF Data!ConstData, Data!Generated
    <2>2. Data!Same(disk[Data!File], data)
      <3>1. Widths[in.type] \in {1, 2, 4, 8, 16}
        BY <1>2, InputType DEF SameInv, Data!In
      <3> DEFINE d == disk[Data!File]
                 w == Widths[in.type]
      <3>2. d.n \in Nat /\ d.width \in {1, 2, 4, 8, 16} /\ Data!FromFile(d, w).n = d.n
        BY <1>3, <1>4
      <3> HIDE DEF d, w
      <3>3. w \in {1, 2, 4, 8, 16}
        BY <3>1 DEF w
      <3>4. Data!Same(d, Data!FromFile(d, w))
        BY <3>2, <3>3, ReadSame
      <3> QED BY <3>4 DEF d, w
    <2> HIDE DEF data
    <2>3. Data!Same(disk'[Data!File], data) /\ Data!File \in DOMAIN disk'
      BY <1>3, <2>1, <2>2
    <2>4. Data!Same(acl[case].values[input], data)
      BY <1>3, <2>2
    <2> QED BY <1>1, <2>1, <2>3, <2>4, SameGenerated
  <1>5. CASE data.n # Data!Shape(in)
    <2>1. UNCHANGED <<cases, attr, acl, params, disk, input>> /\ phase' = "failed"
      BY <1>5 DEF Data!ConstData, Data!Fails
    <2> QED BY <2>1, SameKept DEF SameInv
  <1> QED BY <1>4, <1>5

\* Any other input is written to a file that was not there.
LEMMA SameTrans == SameInv /\ Data!TransData => SameInv'
  <1> SUFFICES ASSUME SameInv, Data!TransData PROVE SameInv'
    OBVIOUS
  <1> DEFINE in == Data!In
             data == IF Data!HasValue(in) THEN Data!Given(in, Data!Width(in.type))
                     ELSE Data!gen_data(in, Data!Shape(in), drawn + 1)
  <1>1. /\ phase = "data" /\ case <= Len(cases) /\ input <= Len(cases[case].inputs)
        /\ ~Data!IsConstDistribute(in)
    BY DEF Data!TransData, Data!InCase
  <1>2. /\ case \in DOMAIN cases /\ input \in DOMAIN cases[case].inputs
    BY <1>1, DataAssumption DEF SameInv
  <1>3. \/ /\ UNCHANGED <<cases, attr, acl, params, disk, input>> /\ phase' = "failed"
        \/ /\ Data!File \notin DOMAIN disk /\ disk' = Data!Write(disk, Data!File, data)
           /\ UNCHANGED <<cases, attr, acl, params, input>> /\ phase' = "failed"
        \/ /\ Data!File \notin DOMAIN disk /\ disk' = Data!Write(disk, Data!File, data)
           /\ UNCHANGED <<cases, attr, acl, phase, case>> /\ input' = input + 1
           /\ params' = [params EXCEPT ![case] = Data!Update(@, in.name, data)]
    <2> HIDE DEF data
    <2> QED BY DEF Data!TransData, Data!Fails, Data!Generated, Data!FileExists, data
  <1>4. CASE UNCHANGED <<cases, attr, acl, params, disk, input>> /\ phase' = "failed"
    BY <1>4, SameKept DEF SameInv
  <1>5. ASSUME Data!File \notin DOMAIN disk, disk' = Data!Write(disk, Data!File, data)
        PROVE  /\ \A f \in DOMAIN disk : f \in DOMAIN disk' /\ disk'[f] = disk[f]
               /\ Data!File \in DOMAIN disk' /\ disk'[Data!File] = data
    <2> HIDE DEF data
    <2> QED BY <1>5 DEF Data!Write
  <1>6. CASE /\ Data!File \notin DOMAIN disk /\ disk' = Data!Write(disk, Data!File, data)
             /\ UNCHANGED <<cases, attr, acl, params, input>> /\ phase' = "failed"
    <2> HIDE DEF data
    <2> QED BY <1>5, <1>6, SameKept DEF SameInv
  <1>7. CASE /\ Data!File \notin DOMAIN disk /\ disk' = Data!Write(disk, Data!File, data)
             /\ UNCHANGED <<cases, attr, acl, phase, case>> /\ input' = input + 1
             /\ params' = [params EXCEPT ![case] = Data!Update(@, in.name, data)]
    <2>1. PreparedInput(case, input)
      BY <1>1, <1>2 DEF SameInv, Prepared
    <2>2. ~Data!Draws(in)
      BY <1>7, <2>1 DEF PreparedInput, Data!In, Data!File
    <2>3. ASSUME in.is_const, in.value = "path" => Widths[in.type] = Data!Width(in.type)
          PROVE  Data!Same(acl[case].values[input], data)
      <3>1. Data!HasValue(in)
        BY <2>2, <2>3 DEF Data!Draws
      <3>2. acl[case].values[input] = Data!ConstValue(in, 0)
        BY <2>1, <2>2, <2>3 DEF PreparedInput, Data!In
      <3>3. Data!ConstValue(in, 0) = Data!Given(in, Data!Width(in.type))
        BY <2>3, <3>1 DEF Data!ConstValue
      <3> QED BY <3>1, <3>2, <3>3 DEF Data!Same
    <2>4. Data!Same(data, data)
      BY DEF Data!Same
    <2> HIDE DEF data
    <2> QED BY <1>1, <1>5, <1>7, <2>3, <2>4, SameGenerated
  <1> QED BY <1>3, <1>4, <1>6, <1>7

\* The expect function is given the attribute that acl_op.json has.
LEMMA SameExpect == SameInv /\ Data!ExpectData => SameInv'
  <1> SUFFICES ASSUME SameInv, Data!ExpectData PROVE SameInv'
    OBVIOUS
  <1> DEFINE name == cases[case].output_name
             given == Data!Update(params[case], name, "output")
  <1>1. /\ phase = "data" /\ case \in DOMAIN cases /\ case' \in {case, case + 1} /\ case \in Nat \ {0}
        /\ UNCHANGED <<cases, attr, acl>> /\ input' \in {1, input} /\ input \in Nat \ {0}
        /\ phase' \in {"data", "failed"}
    <2>1. phase = "data" /\ case <= Len(cases)
      BY DEF Data!ExpectData, Data!InCase
    <2>2. cases \in CaseLists /\ case \in Nat \ {0} /\ input \in Nat \ {0}
      BY <2>1 DEF SameInv
    <2>3. case \in DOMAIN cases
      BY <2>1, <2>2, DataAssumption
    <2>4. /\ case' \in {case, case + 1} /\ UNCHANGED <<cases, attr, acl>> /\ input' \in {1, input}
          /\ phase' \in {"data", "failed"}
      BY <2>1 DEF Data!ExpectData, Data!Fails
    <2> QED BY <2>1, <2>2, <2>3, <2>4
  <1>2. \A c, k : Data!InputFile(c, k) \in DOMAIN disk =>
                    /\ Data!InputFile(c, k) \in DOMAIN disk'
                    /\ disk'[Data!InputFile(c, k)] = disk[Data!InputFile(c, k)]
    BY DEF Data!ExpectData, Data!Fails, Data!InputFile
  <1>3. \/ UNCHANGED params
        \/ params' = [params EXCEPT ![case] = Data!Update(given, "attr", attr[case])]
    BY DEF Data!ExpectData, Data!Fails
  <1>4. CASE UNCHANGED params
    BY <1>1, <1>2, <1>4, SameKept
  <1>5. CASE params' = [params EXCEPT ![case] = Data!Update(given, "attr", attr[case])]
    <2>1. /\ DOMAIN params' = DOMAIN cases
          /\ params'[case] = Data!Update(given, "attr", attr[case])
          /\ \A c \in DOMAIN cases : c # case => params'[c] = params[c]
      <3> HIDE DEF given
      <3> QED BY <1>1, <1>5 DEF SameInv
    <2>2. ASSUME NEW c \in DOMAIN cases
          PROVE  Prepared(c)'
      <3>1. Prepared(c)
        BY <1>1 DEF SameInv
      <3>2. ASSUME NEW k \in DOMAIN cases[c].inputs
            PROVE  PreparedInput(c, k)'
        BY <1>1, <1>2, <3>1 DEF Prepared, PreparedInput, Data!InputFile
      <3> QED BY <1>1, <3>1, <3>2 DEF Prepared
    <2>3. ASSUME NEW c \in DOMAIN cases, c # case
          PROVE  SameCase(c)'
      <3>1. ASSUME NEW k \in DOMAIN cases[c].inputs, SameInput(c, k)
            PROVE  SameInput(c, k)'
        BY <1>1, <1>2, <2>1, <2>3, <3>1 DEF SameInput, Data!InputFile
      <3>2. SameCase(c)
        BY DEF SameInv
      <3> QED BY <1>1, <2>1, <2>3, <3>1, <3>2 DEF SameCase, SameAttr
    <2>4. ASSUME NEW c, c = case
          PROVE  SameCase(c)'
      <3>1. ASSUME NEW n \in DOMAIN params'[c] \ {name, "attr"}
            PROVE  params[c] # NONE /\ n \in DOMAIN params[c] /\ params'[c][n] = params[c][n]
        <4>1. given # NONE /\ n \in DOMAIN given /\ params'[c][n] = given[n]
          <5> HIDE DEF given
          <5> QED BY <2>1, <2>4, <3>1, DataAssumption DEF Data!Update
        <4> QED BY <2>4, <3>1, <4>1 DEF Data!Update
      <3>2. ASSUME NEW k \in DOMAIN cases[c].inputs
            PROVE  SameInput(c, k)'
        <4>1. CASE cases[c].inputs[k].name \in DOMAIN params'[c] \ {name, "attr"}
          BY <1>1, <1>2, <2>4, <3>1, <4>1 DEF SameInv, SameCase, SameInput, Data!InputFile
        <4>2. CASE cases[c].inputs[k].name \notin DOMAIN params'[c] \ {name, "attr"}
          BY <1>1, <2>4, <4>2 DEF SameInput
        <4> QED BY <4>1, <4>2
      <3>3. SameAttr(c)'
        <4>1. acl[c].attr = attr[c]
          BY <1>1, <2>4 DEF SameInv, Prepared
        <4>2. params'[c]["attr"] = attr[c]
          <5> HIDE DEF given
          <5> QED BY <2>1, <2>4, DataAssumption DEF Data!Update
        <4> QED BY <1>1, <4>1, <4>2 DEF SameAttr
      <3> QED BY <1>1, <2>4, <3>2, <3>3 DEF SameCase
    <2> QED BY <1>1, <2>1, <2>2, <2>3, <2>4 DEF SameInv
  <1> QED BY <1>3, <1>4, <1>5

\* The test binary writes no input.
LEMMA SameRun == SameInv /\ Data!RunAcl => SameInv'
  <1> SUFFICES ASSUME SameInv, Data!RunAcl PROVE SameInv'
    OBVIOUS
  <1>1. /\ UNCHANGED <<cases, attr, acl, params, input>> /\ phase' = "compare"
    BY DEF Data!RunAcl
  <1>2. PICK passes \in SUBSET DOMAIN cases :
          LET outputFiles == UNION {{Data!OutputFile(c, o) : o \in 1 .. cases[c].outputs} : c \in passes}
          IN  disk' = [f \in DOMAIN disk \cup outputFiles |->
                         IF f \in outputFiles THEN [id |-> drawn + 1, n |-> f[3], width |-> 4] ELSE disk[f]]
    BY DEF Data!RunAcl
  <1> DEFINE outputFiles == UNION {{Data!OutputFile(c, o) : o \in 1 .. cases[c].outputs} : c \in passes}
  <1>3. \A c, k : Data!InputFile(c, k) \notin outputFiles
    BY DEF Data!InputFile, Data!OutputFile
  <1>4. \A c, k : Data!InputFile(c, k) \in DOMAIN disk =>
                    /\ Data!InputFile(c, k) \in DOMAIN disk'
                    /\ disk'[Data!InputFile(c, k)] = disk[Data!InputFile(c, k)]
    <2> HIDE DEF outputFiles
    <2> QED BY <1>2, <1>3 DEF outputFiles
  <1> QED BY <1>1, <1>4, SameKept DEF SameInv

\* One case for each step of a command.
LEMMA SameNext == SameInv /\ Data!Next => SameInv'
  <1> SUFFICES ASSUME SameInv, Data!Next PROVE SameInv'
    OBVIOUS
  <1>1. CASE Data!NoInputs \/ Data!SkipOptional \/ Data!GenerateEnds \/ Data!CompareCase
    <2>1. /\ UNCHANGED <<cases, attr, acl, params, disk>> /\ input' \in {input, input + 1}
          /\ phase' \in {"run", "compare"} \/ (phase = "data" /\ phase' = "data" /\ UNCHANGED case)
      BY <1>1 DEF Data!NoInputs, Data!SkipOptional, Data!GenerateEnds, Data!CompareCase, Data!InCase
    <2>2. input' \in Nat \ {0} /\ phase' # "acl"
          /\ (phase' = "data" => phase = "data" /\ case' \in Nat \ {0})
      BY <2>1 DEF SameInv
    <2> QED BY <2>1, <2>2, SameKept
  <1>2. CASE Data!NextCommand
    <2>1. /\ UNCHANGED cases /\ phase' = "acl" /\ case' = 1 /\ input' = 1
          /\ DOMAIN attr' = DOMAIN cases /\ DOMAIN acl' = DOMAIN cases
          /\ params' = [c \in DOMAIN cases |-> NONE]
      BY <1>2 DEF Data!NextCommand, Data!Fresh
    <2>2. 1 \in DOMAIN cases /\ \A c \in DOMAIN cases : ~(c < 1)
      BY DataAssumption DEF SameInv
    <2> QED BY <2>1, <2>2 DEF SameInv, SameCase
  <1> QED BY <1>1, <1>2, SameAcl, SameConst, SameTrans, SameExpect, SameRun DEF Data!Next

\* A step of another program leaves the data alone.
LEMMA SameStep ==
  ASSUME program = "data" => SameInv, [Next]_vars
  PROVE  (program = "data" => SameInv)'
  <1>1. CASE UNCHANGED vars
    <2>1. UNCHANGED <<program, cases, attr, acl, params, disk, input, phase, case>>
      BY <1>1 DEF vars, shared, ownData
    <2> QED BY <2>1, SameKept DEF SameInv
  <1>2. CASE Next
    BY <1>2, SameNext DEF Next
  <1> QED BY <1>1, <1>2

\* For all case lists, widths and distributions, and any number of commands,
\* failed or not, in a directory that was cleaned or not: what the expect
\* function of a case is given is what the test binary reads, from the files
\* of its inputs and from acl_op.json.
THEOREM SameSafety == Spec => []SameData
  <1>1. Init => (program = "data" => SameInv)
    BY SameInit DEF Init
  <1>2. (program = "data" => SameInv) => SameData
    BY SameParts DEF SameInv, SameData
  <1> QED BY <1>1, <1>2, SameStep, PTL DEF Spec

-----------------------------------------------------------------------------
(* msopst                                                                   *)

Pair(thr) == Len(thr) = 2 /\ \A k \in 1 .. 2 : thr[k].v \in 0 .. 100

\* After the checks of a command its threshold is a pair, or there is none;
\* what was compared was compared with that of the command, its own or the
\* default.
ArgsInv ==
  /\ argv \in Argvs
  /\ phase \in {"ini", "atc", "compare"} => args.err_thr = <<>> \/ Pair(args.err_thr)
  /\ compared # {} => phase = "compare"
  /\ \A c \in compared :
       c.own \in CaseThresholds /\ Args!CaseThresholdOk(c.own) /\ c.used = Args!get_err_thr(c.own)

\* The list of a threshold that is accepted.
LEMMA AcceptedList ==
  ASSUME NEW nums \in Seq([float : BOOLEAN, v : Int]), Len(nums) = 2, Args!check_list_float(nums) = "ok"
  PROVE  Pair(nums)
  <1>1. DOMAIN nums = 1 .. 2
    OBVIOUS
  <1>2. ASSUME NEW k \in 1 .. 2
        PROVE  nums[k].v \in 0 .. 100
    <2> DEFINE v == nums[k].v
    <2>1. nums[k] \in [float : BOOLEAN, v : Int]
      BY ElementOfSeq
    <2>2. \A j \in DOMAIN nums : nums[j].float /\ nums[j].v >= 0 /\ nums[j].v <= 100
      BY ZenonT(30) DEF Args!check_list_float
    <2>3. v >= 0 /\ v <= 100
      BY <1>1, <2>2
    <2>4. v \in Int
      BY <2>1
    <2> HIDE DEF v
    <2>5. v \in 0 .. 100
      BY <2>3, <2>4
    <2> QED BY <2>5 DEF v
  <1> QED BY <1>2 DEF Pair

\* A threshold that was given and passed its check.
LEMMA AcceptedThreshold ==
  ASSUME NEW thr, thr # NONE, Args!gen_error_threshold(thr) = "ok",
         thr.parse = "list" => thr.vals \in Seq([float : BOOLEAN, v : Int])
  PROVE  Args!ErrThr(thr) = <<>> \/ Pair(Args!ErrThr(thr))
  <1>1. /\ thr.parse = "list" /\ Args!ErrThr(thr) = thr.vals
        /\ Len(thr.vals) = 0 \/ (Len(thr.vals) = 2 /\ Args!check_list_float(thr.vals) = "ok")
    BY DEF Args!gen_error_threshold, Args!check_error_threshold, Args!ErrThr
  <1>2. CASE Len(thr.vals) = 0
    <2>1. thr.vals = <<>>
      BY <1>1, <1>2, EmptySeq
    <2> QED BY <1>1, <2>1
  <1>3. CASE Len(thr.vals) = 2 /\ Args!check_list_float(thr.vals) = "ok"
    BY <1>1, <1>3, AcceptedList
  <1> QED BY <1>1, <1>2, <1>3

\* The threshold of a command line that passed its check.
LEMMA AcceptedOption ==
  ASSUME argv \in Argvs, Args!gen_error_threshold(Args!Arg("-err_thr")) = "ok"
  PROVE  LET nums == Args!ErrThr(Args!Arg("-err_thr")) IN nums = <<>> \/ Pair(nums)
  <1> DEFINE thr == Args!Arg("-err_thr")
  <1>1. CASE thr = NONE
    BY <1>1 DEF Args!ErrThr
  <1>2. CASE thr # NONE
    <2>1. CASE "-err_thr" \in DOMAIN argv.opts
      <3>1. thr = argv.opts["-err_thr"]
        BY <2>1 DEF Args!Arg
      <3>2. \A a \in Argvs : "-err_thr" \in DOMAIN a.opts =>
               (a.opts["-err_thr"].parse = "list" => a.opts["-err_thr"].vals \in Seq([float : BOOLEAN, v : Int]))
        BY ArgsAssumption, Zenon
      <3> HIDE DEF thr
      <3>3. thr.parse = "list" => thr.vals \in Seq([float : BOOLEAN, v : Int])
        BY <2>1, <3>1, <3>2
      <3> QED BY <1>2, <3>3, AcceptedThreshold DEF thr
    <2>2. CASE "-err_thr" \notin DOMAIN argv.opts
      <3>1. thr = Args!Default(argv.cmd, "-err_thr")
        BY <2>2 DEF Args!Arg
      <3>2. Args!Default(argv.cmd, "-err_thr") = IF argv.cmd = "compare" THEN Args!CompareDefault ELSE NONE
        BY DEF Args!Default
      <3>3. thr = Args!CompareDefault
        BY <1>2, <3>1, <3>2
      <3> HIDE DEF thr
      <3>4. thr.vals \in Seq([float : BOOLEAN, v : Int])
        BY <3>3 DEF Args!CompareDefault, Args!DEFAULT_ERROR_THRESHOLD, Args!Float
      <3> QED BY <1>2, <3>4, AcceptedThreshold DEF thr
    <2> QED BY <2>1, <2>2
  <1> QED BY <1>1, <1>2

\* The commands with a threshold end with an error where it is not accepted.
LEMMA ChecksThreshold ==
  ASSUME argv.cmd \in {"run", "compare"}, Args!FirstError(Args!Checks) = "ok"
  PROVE  Args!gen_error_threshold(Args!Arg("-err_thr")) = "ok"
  <1> DEFINE last == Args!gen_error_threshold(Args!Arg("-err_thr"))
             checks == Args!Checks
             bad == {k \in DOMAIN checks : checks[k] # "ok"}
  <1>1. \E n \in {1, 4} : DOMAIN checks = 1 .. n /\ checks[n] = last
    <2>1. CASE argv.cmd = "run"
      <3>1. DOMAIN checks = 1 .. 4 /\ checks[4] = last
        BY <2>1 DEF Args!Checks
      <3> QED BY <3>1
    <2>2. CASE argv.cmd = "compare"
      <3>1. DOMAIN checks = 1 .. 1 /\ checks[1] = last
        BY <2>2 DEF Args!Checks
      <3> QED BY <3>1
    <2> QED BY <2>1, <2>2
  <1> HIDE DEF checks, last
  <1>2. \A k \in bad : k \in {1, 2, 3, 4}
    BY <1>1
  <1>3. bad # {} => \E k \in bad : \A j \in bad : k <= j
    <2> HIDE DEF bad
    <2> SUFFICES ASSUME bad # {} PROVE \E k \in bad : \A j \in bad : k <= j
      OBVIOUS
    <2>1. CASE 1 \in bad BY <1>2, <2>1
    <2>2. CASE 1 \notin bad /\ 2 \in bad BY <1>2, <2>2
    <2>3. CASE 1 \notin bad /\ 2 \notin bad /\ 3 \in bad BY <1>2, <2>3
    <2>4. CASE 1 \notin bad /\ 2 \notin bad /\ 3 \notin bad BY <1>2, <2>4
    <2> QED BY <2>1, <2>2, <2>3, <2>4
  <1>4. bad = {}
    <2> SUFFICES ASSUME bad # {} PROVE FALSE
      OBVIOUS
    <2> DEFINE first == CHOOSE k \in bad : \A j \in bad : k <= j
    <2>1. first \in bad
      BY <1>3
    <2>2. Args!FirstError(checks) = checks[first]
      BY DEF Args!FirstError
    <2>3. Args!FirstError(checks) = "ok"
      BY DEF checks
    <2> QED BY <2>1, <2>2, <2>3
  <1> QED BY <1>1, <1>4 DEF last

\* Nothing was compared.
LEMMA ArgsInit == Args!Init => ArgsInv
  BY DEF Args!Init, ArgsInv

\* One case for each step of a command.
LEMMA ArgsNext == ArgsInv /\ Args!Next => ArgsInv'
  <1> SUFFICES ASSUME ArgsInv, Args!Next PROVE ArgsInv'
    OBVIOUS
  <1>1. CASE Args!ParseArgs
    <2>1. phase = "argv" /\ compared' = {} /\ argv' = argv
      BY <1>1 DEF Args!ParseArgs, ArgsInv
    <2>2. CASE phase' = "end"
      BY <2>1, <2>2, SMTT(30) DEF ArgsInv
    <2>3. CASE phase' # "end"
      <3>1. /\ Args!FirstError(Args!Checks) = "ok"
            /\ args' = [err_thr |-> IF argv.cmd \in {"run", "compare"} THEN Args!ErrThr(Args!Arg("-err_thr")) ELSE <<>>,
                        config_file |-> argv.cmd = "run" /\ Args!Arg("-conf") # "",
                        report_path |-> argv.cmd = "compare" /\ Args!Arg("-i") # ""]
        BY <1>1, <2>3 DEF Args!ParseArgs, Args!Ends
      <3>2. args'.err_thr = IF argv.cmd \in {"run", "compare"} THEN Args!ErrThr(Args!Arg("-err_thr")) ELSE <<>>
        BY <3>1
      <3>3. args'.err_thr = <<>> \/ Pair(args'.err_thr)
        <4>1. CASE argv.cmd \in {"run", "compare"}
          BY <3>1, <3>2, <4>1, ChecksThreshold, AcceptedOption DEF ArgsInv
        <4>2. CASE argv.cmd \notin {"run", "compare"}
          BY <3>2, <4>2
        <4> QED BY <4>1, <4>2
      <3> QED BY <2>1, <3>3 DEF ArgsInv, Pair
    <2> QED BY <2>2, <2>3
  <1>2. CASE Args!ReadConfigFile \/ Args!InitOption \/ Args!Transform
    <2>1. /\ UNCHANGED <<argv, args, compared>> /\ phase \in {"ini", "atc"}
      BY <1>2 DEF Args!ReadConfigFile, Args!InitOption, Args!Transform
    <2> QED BY <2>1 DEF ArgsInv, Pair
  <1>3. ASSUME NEW own \in CaseThresholds, Args!Compare(own)
        PROVE  ArgsInv'
    <2>1. /\ UNCHANGED <<argv, args, phase>> /\ phase = "compare" /\ Args!CaseThresholdOk(own)
          /\ compared' = compared \cup {[own |-> own, used |-> Args!get_err_thr(own)]}
      BY <1>3 DEF Args!Compare
    <2> QED BY <2>1 DEF ArgsInv, Pair, Args!CaseThresholdOk, Args!get_err_thr
  <1> QED BY <1>1, <1>2, <1>3 DEF Args!Next

\* The threshold in force is a pair, and the one that has precedence.
LEMMA ThresholdHolds == ArgsInv => Args!ThresholdInForce
  <1> SUFFICES ASSUME ArgsInv, NEW c \in compared
               PROVE  /\ Pair(c.used)
                      /\ \A d \in compared : c.own = NONE /\ (d.own = NONE \/ args.err_thr # <<>>) => c.used = d.used
                      /\ c.own # NONE /\ args.err_thr = <<>> => c.used = c.own.vals
    BY DEF Args!ThresholdInForce, Pair
  <1>1. /\ args.err_thr = <<>> \/ Pair(args.err_thr)
        /\ c.own \in CaseThresholds /\ Args!CaseThresholdOk(c.own)
        /\ \A d \in compared : d.used = Args!get_err_thr(d.own)
    BY DEF ArgsInv
  <1>2. Pair(Args!DEFAULT_ERROR_THRESHOLD)
    BY DEF Pair, Args!DEFAULT_ERROR_THRESHOLD, Args!Float
  <1>3. c.own # NONE => Pair(c.own.vals)
    <2> SUFFICES ASSUME c.own # NONE PROVE Pair(c.own.vals)
      OBVIOUS
    <2>1. c.own.parse = "list" /\ Len(c.own.vals) = 2 /\ Args!check_list_float(c.own.vals) = "ok"
      BY <1>1 DEF Args!CaseThresholdOk
    <2>2. c.own.vals \in Seq([float : BOOLEAN, v : Int])
      BY <1>1, <2>1, ArgsAssumption
    <2> QED BY <2>1, <2>2, AcceptedList
  <1>4. Pair(c.used)
    BY <1>1, <1>2, <1>3 DEF Args!get_err_thr
  <1> QED BY <1>1, <1>4 DEF Args!get_err_thr

\* A step of another program leaves the command alone.
LEMMA ArgsStep ==
  ASSUME program = "args" => ArgsInv, [Next]_vars
  PROVE  (program = "args" => ArgsInv)'
  <1>1. CASE UNCHANGED vars
    BY <1>1 DEF vars, shared, ownArgs, ArgsInv, Pair, Args!CaseThresholdOk, Args!get_err_thr
  <1>2. CASE Next
    BY <1>2, ArgsNext DEF Next
  <1> QED BY <1>1, <1>2, SMTT(30)

\* For all command lines, ini files and case files, every comparison has a
\* threshold that is a pair of shares, the one of the command line where there
\* is one, else that of the case, else the default.
THEOREM ArgsSafety == Spec => []ThresholdInForce
  <1>1. Init => (program = "args" => ArgsInv)
    BY ArgsInit DEF Init
  <1>2. (program = "args" => ArgsInv) => ThresholdInForce
    BY ThresholdHolds DEF ThresholdInForce
  <1> QED BY <1>1, <1>2, ArgsStep, PTL DEF Spec
-----------------------------------------------------------------------------
(* MsOpGenerator                                                            *)

\* A directory without sources has no script, and a `run' that got past the
\* check of its output path has one without sources.
MsInv ==
  /\ src \in BOOLEAN /\ (~src => file = NONE) /\ (phase = "content" => src)
  /\ ~machine_type /\ phase \in {"mkdir", "content"} => file = NONE
  /\ Ms!OwnTests

\* The script that is written into an empty directory.
LEMMA WriteStep == MsInv /\ Ms!RewriteFiles => MsInv'
  <1> SUFFICES ASSUME MsInv, Ms!RewriteFiles PROVE MsInv'
    OBVIOUS
  <1>1. /\ phase = "content" /\ src /\ phase' \in {"failed", "done"}
        /\ UNCHANGED <<cases, machine_type, src>>
    BY DEF Ms!RewriteFiles, Ms!Fails, MsInv
  <1>2. CASE phase' = "failed"
    BY <1>1, <1>2 DEF MsInv, Ms!OwnTests
  <1>3. CASE phase' = "done"
    <2>1. /\ planned_output_data_paths' = [i \in DOMAIN cases |-> Ms!InputPaths(cases[i])]
          /\ file' = Ms!Appended(Ms!TestFunction)
      BY <1>3 DEF Ms!RewriteFiles, Ms!Fails
    <2>2. ASSUME ~machine_type
          PROVE  file' = <<Ms!TestFunction>>
      BY <1>1, <2>1, <2>2 DEF MsInv, Ms!Appended
    <2>3. Ms!TestFunction.tests =
            {[name |-> cases[i].name, reads |-> planned_output_data_paths'[i]] :
               i \in {i \in DOMAIN cases : cases[i].outputs > 0}}
      BY <2>1 DEF Ms!TestFunction, Ms!FunctionContent, Ms!Tested
    <2> QED BY <1>1, <1>3, <2>2, <2>3 DEF MsInv, Ms!OwnTests
  <1> QED BY <1>1, <1>2, <1>3

\* The steps of one command, and of the next.
LEMMA MsNext == MsInv /\ Ms!Next => MsInv'
  <1> SUFFICES ASSUME MsInv, Ms!Next PROVE MsInv'
    OBVIOUS
  <1>1. CASE Ms!NewGenerator
    BY <1>1 DEF MsInv, Ms!NewGenerator, Ms!CheckOutputPath, Ms!Fails, Ms!OwnTests
  <1>2. CASE Ms!MkdirOutputDir
    BY <1>2 DEF MsInv, Ms!MkdirOutputDir, Ms!Fails, Ms!OwnTests
  <1>3. CASE Ms!NextCommand
    <2>1. phase' = "path" /\ ((src' = FALSE /\ file' = NONE) \/ UNCHANGED <<src, file>>)
      BY <1>3 DEF Ms!NextCommand
    <2> QED BY <2>1 DEF MsInv, Ms!OwnTests
  <1> QED BY <1>1, <1>2, <1>3, WriteStep DEF Ms!Next

\* A step of another program leaves the script alone.
LEMMA MsStep ==
  ASSUME program = "mindspore" => MsInv, [Next]_vars
  PROVE  (program = "mindspore" => MsInv)'
  <1>1. CASE UNCHANGED vars
    BY <1>1 DEF vars, shared, ownMs, MsInv, Ms!OwnTests
  <1>2. CASE Next
    BY <1>2, MsNext DEF Next
  <1> QED BY <1>1, <1>2

\* For all operators and case lists, and any number of commands before it in
\* the directory: the script of a `run' has the tests of its own cases alone,
\* which read the paths that the report has.
THEOREM MsSafety == Spec => []OwnTests
  <1>1. Init => (program = "mindspore" => MsInv)
    BY DEF Init, Ms!Init, MsInv, Ms!OwnTests
  <1>2. (program = "mindspore" => MsInv) => OwnTests
    BY DEF MsInv, OwnTests
  <1> QED BY <1>1, <1>2, MsStep, PTL DEF Spec

-----------------------------------------------------------------------------
(* The report of a system-test run                                          *)

RunStages == {"run_acl_code", "compare_data"}
Places == Rep!Case \X Nat

\* Objects are named by places of traces that are taken.
Placed(mem) ==
  /\ mem.trace \in [Rep!Case -> Seq(Places)]
  /\ mem.latest \in [Rep!Case -> [Rep!Stages -> Rep!Status \cup {NULL}]]
  /\ \A k \in DOMAIN mem.objects :
       /\ k \in Places /\ k[2] \in 1 .. Len(mem.trace[k[1]])
       /\ mem.objects[k].stage \in Rep!Stages /\ mem.objects[k].status \in Rep!Status
  /\ \A c \in Rep!Case : \A i \in DOMAIN mem.trace[c] : mem.trace[c][i] \in DOMAIN mem.objects

\* The objects in the trace of a case have what was last added to it.
Recorded(mem) ==
  \A c \in Rep!Case : \A i \in DOMAIN mem.trace[c] :
    mem.latest[c][mem.objects[mem.trace[c][i]].stage] = mem.objects[mem.trace[c][i]].status

\* What was added to a case is in its trace.
Kept(mem) ==
  \A c \in Rep!Case : \A s \in Rep!Stages :
    mem.latest[c][s] # NULL => \E i \in DOMAIN mem.trace[c] : mem.objects[mem.trace[c][i]].stage = s

MemInv(mem) == Placed(mem) /\ Recorded(mem) /\ Kept(mem)

\* No object of this stage is in the traces of two cases, of a set or not.
Private(mem, cs, stage) ==
  \A c \in cs : \A d \in Rep!Case \ cs : \A i \in DOMAIN mem.trace[c], j \in DOMAIN mem.trace[d] :
    mem.trace[c][i] = mem.trace[d][j] => mem.objects[mem.trace[c][i]].stage # stage
Own(mem, stage) == \A c \in Rep!Case : Private(mem, {c}, stage)

\* What add_stage_result makes of a memory: a new object, in every trace.
AddedAs(new, mem, m, cs, stage, st) ==
  /\ new \in Places
  /\ new \notin DOMAIN mem.objects /\ new[2] \in 1 .. Len(m.trace[new[1]])
  /\ DOMAIN m.objects = DOMAIN mem.objects \cup {new}
  /\ m.objects[new].stage = stage /\ m.objects[new].status = st
  /\ \A k \in DOMAIN mem.objects :
       /\ m.objects[k].stage = mem.objects[k].stage
       /\ m.objects[k].status =
            IF /\ mem.objects[k].stage = stage
               /\ \E c \in cs : \E i \in DOMAIN mem.trace[c] : mem.trace[c][i] = k
            THEN st ELSE mem.objects[k].status
  /\ \A c \in Rep!Case : m.trace[c] = IF c \in cs THEN Append(mem.trace[c], new) ELSE mem.trace[c]
  /\ m.trace \in [Rep!Case -> Seq(Places)]
  /\ m.latest \in [Rep!Case -> [Rep!Stages -> Rep!Status \cup {NULL}]]
  /\ \A c \in Rep!Case : \A s \in Rep!Stages :
       m.latest[c][s] = IF c \in cs /\ s = stage THEN st ELSE mem.latest[c][s]

\* It is what Add does.
LEMMA Added ==
  ASSUME NEW mem, Placed(mem), NEW cs \in SUBSET Rep!Case, cs # {},
         NEW stage \in Rep!Stages, NEW st \in Rep!Status
  PROVE  \E new : AddedAs(new, mem, Rep!Add(mem, cs, stage, st), cs, stage, st)
  <1> DEFINE m == Rep!Add(mem, cs, stage, st)
             first == CHOOSE c \in cs : TRUE
             new == <<first, Len(mem.trace[first]) + 1>>
             old == {k \in DOMAIN mem.objects :
                       mem.objects[k].stage = stage /\ \E c \in cs : k \in Rep!ToSet(mem.trace[c])}
  <1>1. /\ m.objects = [k \in DOMAIN mem.objects \cup {new} |->
                          IF k \in old \cup {new} THEN [stage |-> stage, status |-> st] ELSE mem.objects[k]]
        /\ m.trace = [c \in Rep!Case |-> IF c \in cs THEN Append(mem.trace[c], new) ELSE mem.trace[c]]
        /\ m.latest = [c \in Rep!Case |-> IF c \in cs THEN [mem.latest[c] EXCEPT ![stage] = st]
                                                      ELSE mem.latest[c]]
    BY DEF Rep!Add
  <1>2. first \in cs /\ first \in Rep!Case
    OBVIOUS
  <1> HIDE DEF m, first
  <1>3. mem.trace[first] \in Seq(Places) /\ Len(mem.trace[first]) \in Nat
    BY <1>2 DEF Placed
  <1>4. new \in Places /\ new[1] = first /\ new[2] = Len(mem.trace[first]) + 1
    BY <1>2, <1>3 DEF Places
  <1> HIDE DEF new
  <1>5. new \notin DOMAIN mem.objects
    BY <1>3, <1>4 DEF Placed
  <1>6. \A k : k \in old <=> /\ k \in DOMAIN mem.objects /\ mem.objects[k].stage = stage
                             /\ \E c \in cs : \E i \in DOMAIN mem.trace[c] : mem.trace[c][i] = k
    BY DEF Rep!ToSet
  <1> HIDE DEF old
  <1>7. /\ DOMAIN m.objects = DOMAIN mem.objects \cup {new}
        /\ m.objects[new].stage = stage /\ m.objects[new].status = st
        /\ \A k \in DOMAIN mem.objects :
             /\ m.objects[k].stage = mem.objects[k].stage
             /\ m.objects[k].status = IF k \in old THEN st ELSE mem.objects[k].status
    BY <1>1, <1>5, <1>6
  <1>8. \A c \in Rep!Case : /\ m.trace[c] = IF c \in cs THEN Append(mem.trace[c], new) ELSE mem.trace[c]
                            /\ m.trace[c] \in Seq(Places)
    BY <1>1, <1>4 DEF Placed
  <1>9. m.trace \in [Rep!Case -> Seq(Places)]
    BY <1>1, <1>8
  <1>10. new[2] \in 1 .. Len(m.trace[new[1]])
    <2>1. m.trace[first] = Append(mem.trace[first], new)
      BY <1>2, <1>8
    <2>2. Len(Append(mem.trace[first], new)) = Len(mem.trace[first]) + 1
      BY <1>3, <1>4
    <2> QED BY <1>4, <2>1, <2>2
  <1>11. \A c \in Rep!Case : mem.latest[c] \in [Rep!Stages -> Rep!Status \cup {NULL}]
    BY DEF Placed
  <1>12. \A c \in Rep!Case : /\ m.latest[c] \in [Rep!Stages -> Rep!Status \cup {NULL}]
                             /\ \A s \in Rep!Stages :
                                  m.latest[c][s] = IF c \in cs /\ s = stage THEN st ELSE mem.latest[c][s]
    BY <1>1, <1>11
  <1>13. m.latest \in [Rep!Case -> [Rep!Stages -> Rep!Status \cup {NULL}]]
    BY <1>1, <1>12
  <1>14. \A k \in DOMAIN mem.objects :
           m.objects[k].status =
             IF /\ mem.objects[k].stage = stage
                /\ \E c \in cs : \E i \in DOMAIN mem.trace[c] : mem.trace[c][i] = k
             THEN st ELSE mem.objects[k].status
    BY <1>6, <1>7
  <1> QED BY <1>4, <1>5, <1>7, <1>8, <1>9, <1>10, <1>12, <1>13, <1>14, ZenonT(60) DEF m, AddedAs

\* add_stage_result keeps the records of a memory in which no other case shares
\* an object that it writes to.
LEMMA AddKeeps ==
  ASSUME NEW mem, MemInv(mem), NEW cs \in SUBSET Rep!Case, cs # {},
         NEW stage \in Rep!Stages, NEW st \in Rep!Status, Private(mem, cs, stage)
  PROVE  MemInv(Rep!Add(mem, cs, stage, st))
  <1> DEFINE m == Rep!Add(mem, cs, stage, st)
  <1>added. PICK new : AddedAs(new, mem, m, cs, stage, st)
    BY Added DEF MemInv
  <1> HIDE DEF m
  <1>1. /\ new \in Places
        /\ new \notin DOMAIN mem.objects /\ new[2] \in 1 .. Len(m.trace[new[1]])
        /\ DOMAIN m.objects = DOMAIN mem.objects \cup {new}
        /\ m.objects[new].stage = stage /\ m.objects[new].status = st
        /\ m.trace \in [Rep!Case -> Seq(Places)]
        /\ m.latest \in [Rep!Case -> [Rep!Stages -> Rep!Status \cup {NULL}]]
        /\ \A c \in Rep!Case : m.trace[c] = IF c \in cs THEN Append(mem.trace[c], new) ELSE mem.trace[c]
        /\ \A c \in Rep!Case : \A s \in Rep!Stages :
             m.latest[c][s] = IF c \in cs /\ s = stage THEN st ELSE mem.latest[c][s]
    BY <1>added DEF AddedAs
  <1>written. \A k \in DOMAIN mem.objects :
          /\ m.objects[k].stage = mem.objects[k].stage
          /\ m.objects[k].status \in {st, mem.objects[k].status}
          /\ (/\ mem.objects[k].stage = stage
              /\ \E c \in cs : \E i \in DOMAIN mem.trace[c] : mem.trace[c][i] = k) => m.objects[k].status = st
          /\ (\/ mem.objects[k].stage # stage
              \/ \A c \in cs : \A i \in DOMAIN mem.trace[c] : mem.trace[c][i] # k) =>
                m.objects[k].status = mem.objects[k].status
    BY <1>added, SMTT(30) DEF AddedAs
  <1>2. \A c \in Rep!Case : mem.trace[c] \in Seq(Places) /\ m.trace[c] \in Seq(Places)
    BY <1>1 DEF MemInv, Placed
  <1>3. \A c \in Rep!Case : /\ Len(mem.trace[c]) \in Nat /\ DOMAIN mem.trace[c] = 1 .. Len(mem.trace[c])
                            /\ Len(m.trace[c]) \in Nat /\ DOMAIN m.trace[c] = 1 .. Len(m.trace[c])
    BY <1>2, LenProperties
  <1>4. \A c \in Rep!Case :
          /\ DOMAIN mem.trace[c] \subseteq DOMAIN m.trace[c] /\ Len(mem.trace[c]) <= Len(m.trace[c])
          /\ \A i \in DOMAIN mem.trace[c] : m.trace[c][i] = mem.trace[c][i]
          /\ \A i \in DOMAIN m.trace[c] : i \in DOMAIN mem.trace[c] \/ (c \in cs /\ m.trace[c][i] = new)
          /\ c \in cs => m.trace[c][Len(m.trace[c])] = new /\ Len(m.trace[c]) \in DOMAIN m.trace[c]
    <2> SUFFICES ASSUME NEW c \in Rep!Case
                 PROVE  /\ DOMAIN mem.trace[c] \subseteq DOMAIN m.trace[c] /\ Len(mem.trace[c]) <= Len(m.trace[c])
                        /\ \A i \in DOMAIN mem.trace[c] : m.trace[c][i] = mem.trace[c][i]
                        /\ \A i \in DOMAIN m.trace[c] :
                             i \in DOMAIN mem.trace[c] \/ (c \in cs /\ m.trace[c][i] = new)
                        /\ c \in cs => m.trace[c][Len(m.trace[c])] = new /\ Len(m.trace[c]) \in DOMAIN m.trace[c]
      OBVIOUS
    <2>1. CASE c \notin cs
      <3>1. m.trace[c] = mem.trace[c]
        BY <1>1, <2>1
      <3> QED BY <1>3, <2>1, <3>1
    <2>2. CASE c \in cs
      <3> DEFINE t == mem.trace[c]
                 u == m.trace[c]
      <3>1. t \in Seq(Places) /\ u = Append(t, new)
        BY <1>1, <1>2, <2>2
      <3>2. /\ Len(u) = Len(t) + 1 /\ u[Len(t) + 1] = new
            /\ \A i \in 1 .. Len(t) : u[i] = t[i]
        BY <3>1, AppendProperties
      <3>3. /\ Len(t) \in Nat /\ DOMAIN t = 1 .. Len(t) /\ DOMAIN u = 1 .. Len(u)
        BY <1>3
      <3> HIDE DEF t, u
      <3>4. /\ DOMAIN t \subseteq DOMAIN u /\ Len(t) <= Len(u)
            /\ \A i \in DOMAIN t : u[i] = t[i]
            /\ \A i \in DOMAIN u : i \in DOMAIN t \/ u[i] = new
            /\ u[Len(u)] = new /\ Len(u) \in DOMAIN u
        BY <3>2, <3>3
      <3> QED BY <2>2, <3>4 DEF t, u
    <2> QED BY <2>1, <2>2
  <1>5. Placed(m)
    <2>1. ASSUME NEW k \in DOMAIN m.objects
          PROVE  /\ k \in Places /\ k[2] \in 1 .. Len(m.trace[k[1]])
                 /\ m.objects[k].stage \in Rep!Stages /\ m.objects[k].status \in Rep!Status
      <3>1. CASE k = new
        BY <1>1, <3>1
      <3>2. CASE k \in DOMAIN mem.objects
        <4>1. k \in Places /\ k[1] \in Rep!Case /\ k[2] \in 1 .. Len(mem.trace[k[1]])
          BY <3>2 DEF MemInv, Placed, Places
        <4>2. k[2] \in 1 .. Len(m.trace[k[1]])
          BY <1>3, <1>4, <4>1
        <4>3. mem.objects[k].stage \in Rep!Stages /\ mem.objects[k].status \in Rep!Status
          BY <3>2 DEF MemInv, Placed
        <4> QED BY <1>written, <3>2, <4>1, <4>2, <4>3
      <3> QED BY <1>1, <3>1, <3>2
    <2>2. \A c \in Rep!Case : \A i \in DOMAIN m.trace[c] : m.trace[c][i] \in DOMAIN m.objects
      BY <1>1, <1>4, SMTT(30) DEF MemInv, Placed
    <2> QED BY <1>1, <2>1, <2>2 DEF Placed
  <1>6. Recorded(m)
    <2> SUFFICES ASSUME NEW c \in Rep!Case, NEW i \in DOMAIN m.trace[c]
                 PROVE  m.latest[c][m.objects[m.trace[c][i]].stage] = m.objects[m.trace[c][i]].status
      BY DEF Recorded
    <2>1. CASE i \notin DOMAIN mem.trace[c]
      BY <1>1, <1>4, <2>1, SMTT(30)
    <2>2. CASE i \in DOMAIN mem.trace[c]
      <3> DEFINE k == mem.trace[c][i]
      <3>1. /\ m.trace[c][i] = k /\ k \in DOMAIN mem.objects /\ mem.objects[k].stage \in Rep!Stages
            /\ mem.latest[c][mem.objects[k].stage] = mem.objects[k].status
        BY <1>4, <2>2, SMTT(30) DEF MemInv, Placed, Recorded
      <3>2. CASE mem.objects[k].stage # stage
        <4>1. m.objects[k].stage = mem.objects[k].stage /\ m.objects[k].status = mem.objects[k].status
          BY <1>written, <3>1, <3>2, SMTT(30)
        <4>2. m.latest[c][mem.objects[k].stage] = mem.latest[c][mem.objects[k].stage]
          BY <1>1, <3>1, <3>2, SMTT(30)
        <4> QED BY <3>1, <4>1, <4>2
      <3>3. CASE mem.objects[k].stage = stage
        <4>1. CASE c \in cs
          BY <1>1, <1>written, <2>2, <3>1, <3>3, <4>1
        <4>2. CASE c \notin cs
          <5>1. \A d \in cs : \A j \in DOMAIN mem.trace[d] : mem.trace[d][j] # k
            BY <2>2, <3>3, <4>2 DEF Private
          <5>2. m.objects[k].stage = stage /\ m.objects[k].status = mem.objects[k].status
            BY <1>written, <3>1, <3>3, <5>1
          <5>3. m.latest[c][stage] = mem.latest[c][stage]
            BY <1>1, <4>2
          <5> QED BY <3>1, <3>3, <5>2, <5>3
        <4> QED BY <4>1, <4>2, SMTT(30)
      <3> QED BY <3>2, <3>3, SMTT(30)
    <2> QED BY <2>1, <2>2, SMTT(30)
  <1>7. Kept(m)
    <2> SUFFICES ASSUME NEW c \in Rep!Case, NEW s \in Rep!Stages, m.latest[c][s] # NULL
                 PROVE  \E i \in DOMAIN m.trace[c] : m.objects[m.trace[c][i]].stage = s
      BY DEF Kept
    <2>1. CASE c \in cs /\ s = stage
      BY <1>1, <1>4, <2>1
    <2>2. CASE ~(c \in cs /\ s = stage)
      <3>1. mem.latest[c][s] # NULL
        BY <1>1, <2>2
      <3>2. PICK i \in DOMAIN mem.trace[c] : mem.objects[mem.trace[c][i]].stage = s
        BY <3>1 DEF MemInv, Kept
      <3>3. mem.trace[c][i] \in DOMAIN mem.objects
        BY DEF MemInv, Placed
      <3>4. i \in DOMAIN m.trace[c] /\ m.trace[c][i] = mem.trace[c][i]
        BY <1>4
      <3> QED BY <1>written, <3>2, <3>3, <3>4
    <2> QED BY <2>1, <2>2
  <1> QED BY <1>5, <1>6, <1>7 DEF MemInv, m

\* The objects of a stage stay with their cases: where another stage is added,
\* or this one to a single case.
LEMMA OwnKept ==
  ASSUME NEW mem, MemInv(mem), NEW cs \in SUBSET Rep!Case, cs # {},
         NEW stage \in Rep!Stages, NEW st \in Rep!Status,
         NEW s, Own(mem, s), s # stage \/ \E c \in Rep!Case : cs = {c}
  PROVE  Own(Rep!Add(mem, cs, stage, st), s)
  <1> DEFINE m == Rep!Add(mem, cs, stage, st)
  <1>1. PICK new : AddedAs(new, mem, m, cs, stage, st)
    BY Added DEF MemInv
  <1> HIDE DEF m
  <1>2. /\ new \notin DOMAIN mem.objects /\ m.objects[new].stage = stage
        /\ \A k \in DOMAIN mem.objects : m.objects[k].stage = mem.objects[k].stage
        /\ \A c \in Rep!Case : m.trace[c] = IF c \in cs THEN Append(mem.trace[c], new) ELSE mem.trace[c]
    BY <1>1 DEF AddedAs
  <1>3. \A c \in Rep!Case : mem.trace[c] \in Seq(Places)
    BY DEF MemInv, Placed
  <1>4. \A c \in Rep!Case : \A i \in DOMAIN m.trace[c] :
          \/ i \in DOMAIN mem.trace[c] /\ m.trace[c][i] = mem.trace[c][i]
          \/ c \in cs /\ m.trace[c][i] = new
    <2> SUFFICES ASSUME NEW c \in Rep!Case, NEW i \in DOMAIN m.trace[c]
                 PROVE  \/ i \in DOMAIN mem.trace[c] /\ m.trace[c][i] = mem.trace[c][i]
                        \/ c \in cs /\ m.trace[c][i] = new
      OBVIOUS
    <2>1. CASE c \notin cs
      <3>1. m.trace[c] = mem.trace[c]
        BY <1>2, <2>1
      <3> QED BY <3>1
    <2>2. CASE c \in cs
      <3> DEFINE t == mem.trace[c]
                 u == m.trace[c]
      <3>1. new \in Places
        BY <1>1 DEF AddedAs
      <3>2. t \in Seq(Places) /\ u = Append(t, new)
        BY <1>2, <1>3, <2>2
      <3>3. i \in DOMAIN u
        OBVIOUS
      <3> HIDE DEF t, u
      <3>4. (i \in DOMAIN t /\ u[i] = t[i]) \/ u[i] = new
        BY <3>1, <3>2, <3>3
      <3> QED BY <2>2, <3>4 DEF t, u
    <2> QED BY <2>1, <2>2
  <1>5. \A c \in Rep!Case : \A i \in DOMAIN mem.trace[c] : mem.trace[c][i] \in DOMAIN mem.objects
    BY DEF MemInv, Placed
  <1> SUFFICES ASSUME NEW c \in Rep!Case, NEW d \in Rep!Case \ {c},
                      NEW i \in DOMAIN m.trace[c], NEW j \in DOMAIN m.trace[d],
                      m.trace[c][i] = m.trace[d][j]
               PROVE  m.objects[m.trace[c][i]].stage # s
    BY DEF Own, Private, m
  <1>6. CASE m.trace[c][i] = new
    <2>1. c \in cs /\ d \in cs
      BY <1>2, <1>4, <1>5, <1>6, ZenonT(60)
    <2> QED BY <1>2, <1>6, <2>1
  <1>7. CASE m.trace[c][i] # new
    <2>1. /\ i \in DOMAIN mem.trace[c] /\ m.trace[c][i] = mem.trace[c][i]
          /\ j \in DOMAIN mem.trace[d] /\ m.trace[d][j] = mem.trace[d][j]
      BY <1>4, <1>7
    <2>2. mem.objects[mem.trace[c][i]].stage # s
      BY <2>1 DEF Own, Private
    <2> QED BY <1>2, <1>5, <2>1, <2>2
  <1> QED BY <1>6, <1>7

\* The file has what was last added to each case.
SavedInv ==
  saved # NULL => \A c \in Rep!Case :
    /\ saved[c].stages = [i \in 1 .. Len(saved[c].stages) |-> saved[c].stages[i]]
    /\ Len(saved[c].stages) \in Nat
    /\ saved[c].latest \in [Rep!Stages -> Rep!Status \cup {NULL}]
    /\ \A i \in DOMAIN saved[c].stages :
         /\ saved[c].stages[i].stage \in Rep!Stages /\ saved[c].stages[i].status \in Rep!Status
         /\ saved[c].latest[saved[c].stages[i].stage] = saved[c].stages[i].status
    /\ \A s \in Rep!Stages : saved[c].latest[s] # NULL =>
         \E i \in DOMAIN saved[c].stages : saved[c].stages[i].stage = s

Lines == result_txt # NULL => \A i \in 1 .. Len(result_txt) : result_txt[i].case \in Rep!Case

\* The summary of a command starts from nothing, and is of what is there.
SummaryInv ==
  /\ printed \in BOOLEAN /\ (printed => phase = "report")
  /\ ~printed => /\ \A c \in Rep!Case : status[c] = "success" /\ expect[c] = "success"
                 /\ cnt.total = 0 /\ cnt.success = 0 /\ cnt.failed = 0
  /\ want \in [Rep!Case -> Rep!Status]
  /\ command \in Nat \ {0} /\ (command = 1 => expect_dict = want)
  /\ Rep!VerdictFromLatest /\ Rep!RunCountsMatch

\* Until the report is there, no two cases share a result of the stages that
\* are recorded for one case at a time.
RepInv ==
  /\ MemInv(Rep!Memory)
  /\ phase # "report" => \A s \in RunStages : Own(Rep!Memory, s)
  /\ phase = "compare" => result_txt # NULL /\ line \in Nat \ {0}
  /\ Lines /\ SavedInv /\ SummaryInv

\* A stage that records its result.
LEMMA NewMemory ==
  ASSUME NEW mem, NEW cs, NEW stage, NEW st, Rep!Becomes(Rep!Add(mem, cs, stage, st))
  PROVE  Rep!Memory' = Rep!Add(mem, cs, stage, st)
  BY DEF Rep!Memory, Rep!Becomes, Rep!Add

\* There are cases, the ones the list has.
LEMMA SomeCases ==
  /\ Rep!Case # {} /\ Len(Cases) \in Nat /\ DOMAIN Cases = 1 .. Len(Cases)
  /\ \A i \in 1 .. Len(Cases) : Cases[i] \in Rep!Case
  <1>1. Cases \in Seq(Rep!Case) /\ Cases # <<>>
    BY RepAssumption
  <1>2. Len(Cases) \in Nat \ {0} /\ DOMAIN Cases = 1 .. Len(Cases)
    BY <1>1
  <1>3. \A i \in 1 .. Len(Cases) : Cases[i] \in Rep!Case
    BY <1>1, ElementOfSeq
  <1> QED BY <1>2, <1>3

\* A result for all the cases at once.
LEMMA AddAll ==
  ASSUME NEW mem, MemInv(mem), NEW stage \in Rep!Stages, NEW st \in Rep!Status
  PROVE  LET m == Rep!Add(mem, Rep!Case, stage, st)
         IN  MemInv(m) /\ \A s : s # stage /\ Own(mem, s) => Own(m, s)
  <1>1. Private(mem, Rep!Case, stage)
    BY DEF Private
  <1>2. MemInv(Rep!Add(mem, Rep!Case, stage, st))
    BY <1>1, AddKeeps, SomeCases
  <1>3. ASSUME NEW s, s # stage, Own(mem, s)
        PROVE  Own(Rep!Add(mem, Rep!Case, stage, st), s)
    BY <1>3, OwnKept, SomeCases
  <1> QED BY <1>2, <1>3

\* A result of one case, of a stage whose results are not shared.
LEMMA AddOne ==
  ASSUME NEW mem, MemInv(mem), NEW c \in Rep!Case, NEW stage \in Rep!Stages, NEW st \in Rep!Status,
         Own(mem, stage)
  PROVE  LET m == Rep!Add(mem, {c}, stage, st)
         IN  MemInv(m) /\ \A s : Own(mem, s) => Own(m, s)
  <1>1. Private(mem, {c}, stage)
    BY DEF Own
  <1>2. MemInv(Rep!Add(mem, {c}, stage, st))
    BY <1>1, AddKeeps
  <1>3. ASSUME NEW s, Own(mem, s)
        PROVE  Own(Rep!Add(mem, {c}, stage, st), s)
    BY <1>3, OwnKept
  <1> QED BY <1>2, <1>3

\* A stage before the report writes nothing of the summary.
LEMMA BeforeReport ==
  ASSUME RepInv, phase # "report", MemInv(Rep!Memory)',
         UNCHANGED <<want, status, expect, expect_dict, cnt, printed, saved, command>>,
         phase' # "report" => \A s \in RunStages : Own(Rep!Memory, s)',
         phase' = "compare" => result_txt' # NULL /\ line' \in Nat \ {0},
         Lines'
  PROVE  RepInv'
  <1>1. ~printed'
    BY DEF RepInv, SummaryInv
  <1>2. SummaryInv'
    BY <1>1 DEF RepInv, SummaryInv, Rep!VerdictFromLatest, Rep!RunCountsMatch
  <1>3. SavedInv'
    BY DEF RepInv, SavedInv
  <1> QED BY <1>2, <1>3 DEF RepInv

\* The conversion: success is written over a failure that does not count.
LEMMA AtcStep ==
  ASSUME RepInv, Rep!AtcSucceeds \/ \E models \in BOOLEAN : Rep!AtcFails(models)
  PROVE  RepInv'
  <1> DEFINE failed == Rep!Add(Rep!Memory, Rep!Case, Rep!Atc, "failed")
             first == Rep!Add(Rep!Memory, Rep!Case, Rep!Atc, "success")
  <1>1. /\ phase = "atc" /\ phase' \in {"acl", "report"}
        /\ UNCHANGED <<want, status, expect, expect_dict, cnt, printed, saved, command, result_txt, line>>
        /\ \/ Rep!Becomes(Rep!Add(first, Rep!Case, Rep!Atc, "success"))
           \/ Rep!Becomes(failed) /\ phase' = "report"
           \/ Rep!Becomes(Rep!Add(failed, Rep!Case, Rep!Atc, "success"))
    BY DEF Rep!AtcSucceeds, Rep!AtcFails, Rep!given, Rep!verdict
  <1>2. /\ Rep!Atc \in Rep!Stages /\ {"success", "failed"} \subseteq Rep!Status
        /\ \A s \in RunStages : s # Rep!Atc
    BY DEF Rep!Atc, Rep!Stages, Rep!Status, RunStages
  <1>3. MemInv(Rep!Memory) /\ \A s \in RunStages : Own(Rep!Memory, s)
    BY <1>1 DEF RepInv
  <1>4. /\ MemInv(failed) /\ \A s \in RunStages : Own(failed, s)
        /\ MemInv(first) /\ \A s \in RunStages : Own(first, s)
    BY <1>2, <1>3, AddAll
  <1> HIDE DEF failed, first
  <1>5. ASSUME NEW mem \in {failed, first}
        PROVE  /\ MemInv(Rep!Add(mem, Rep!Case, Rep!Atc, "success"))
               /\ \A s \in RunStages : Own(Rep!Add(mem, Rep!Case, Rep!Atc, "success"), s)
    BY <1>2, <1>4, AddAll
  <1>6. \/ Rep!Memory' = Rep!Add(first, Rep!Case, Rep!Atc, "success")
        \/ Rep!Memory' = failed
        \/ Rep!Memory' = Rep!Add(failed, Rep!Case, Rep!Atc, "success")
    BY <1>1, NewMemory DEF failed
  <1>7. MemInv(Rep!Memory') /\ \A s \in RunStages : Own(Rep!Memory', s)
    BY <1>4, <1>5, <1>6
  <1>8. MemInv(Rep!Memory)' /\ \A s \in RunStages : Own(Rep!Memory, s)'
    BY <1>7 DEF MemInv, Placed, Recorded, Kept, Own, Private
  <1>9. Lines'
    BY <1>1 DEF RepInv, Lines
  <1> QED BY <1>1, <1>8, <1>9, BeforeReport

\* The test script of MindSpore.
LEMMA RunMsStep == ASSUME RepInv, NEW st \in Rep!Status, Rep!RunMs(st) PROVE RepInv'
  <1> DEFINE genMs == Rep!Add(Rep!Memory, Rep!Case, "gen_ms_code", "success")
             tested == Rep!Add(genMs, Rep!Case, "run_ms_op_test_code", st)
  <1>1. /\ phase = "ms" /\ phase' = "report" /\ Rep!Becomes(tested)
        /\ UNCHANGED <<want, status, expect, expect_dict, cnt, printed, saved, command, result_txt, line>>
    BY DEF Rep!RunMs, Rep!given, Rep!verdict
  <1>2. "gen_ms_code" \in Rep!Stages /\ "run_ms_op_test_code" \in Rep!Stages /\ "success" \in Rep!Status
    BY DEF Rep!Stages, Rep!Status
  <1>3. MemInv(genMs)
    BY <1>2, AddAll DEF RepInv
  <1>4. MemInv(tested)
    <2> HIDE DEF genMs
    <2> QED BY <1>2, <1>3, AddAll
  <1>5. Rep!Memory' = tested
    BY <1>1, NewMemory, SMTT(30)
  <1> HIDE DEF tested
  <1>6. MemInv(Rep!Memory)'
    BY <1>4, <1>5 DEF MemInv, Placed, Recorded, Kept
  <1>7. Lines'
    BY <1>1 DEF RepInv, Lines
  <1> QED BY <1>1, <1>6, <1>7, BeforeReport

\* A stage that adds nothing.
LEMMA NothingAdded ==
  ASSUME RepInv, phase # "report",
         UNCHANGED <<objects, trace, latest, want, status, expect, expect_dict, cnt, printed, saved, command>>,
         phase' = "compare" => result_txt' # NULL /\ line' \in Nat \ {0},
         Lines'
  PROVE  RepInv'
  <1>1. Rep!Memory' = Rep!Memory
    BY DEF Rep!Memory
  <1>2. MemInv(Rep!Memory) /\ \A s \in RunStages : Own(Rep!Memory, s)
    BY SMTT(30) DEF RepInv
  <1>3. MemInv(Rep!Memory)' /\ \A s \in RunStages : Own(Rep!Memory, s)'
    BY <1>1, <1>2 DEF MemInv, Placed, Recorded, Kept, Own, Private
  <1> QED BY <1>3, BeforeReport

\* The data, and the run of the test binary, of which a line has a case.
LEMMA RunAclStep == RepInv /\ Rep!RunAcl => RepInv'
  <1> SUFFICES ASSUME RepInv, Rep!RunAcl PROVE RepInv'
    OBVIOUS
  <1>1. /\ phase = "acl" /\ phase' = "check"
        /\ UNCHANGED <<objects, trace, latest, want, status, expect, expect_dict, cnt, printed, saved, command>>
    BY DEF Rep!RunAcl, Rep!given, Rep!verdict, Rep!traces
  <1>2. Lines'
    <2>1. CASE result_txt' = NULL
      BY <2>1 DEF Lines
    <2>2. CASE result_txt' # NULL
      <3>1. PICK n \in 0 .. Len(Cases) : \E r \in [1 .. n -> Rep!Results] :
              result_txt' = [i \in DOMAIN r |-> [case |-> Cases[i], result |-> r[i]]]
        BY <2>2 DEF Rep!RunAcl, Rep!Lines
      <3>2. PICK r \in [1 .. n -> Rep!Results] :
              result_txt' = [i \in 1 .. n |-> [case |-> Cases[i], result |-> r[i]]]
        BY <3>1
      <3>3. n \in Nat /\ n <= Len(Cases) /\ Len(Cases) \in Nat
        BY SomeCases
      <3>4. Len(result_txt') = n
        BY <3>2, <3>3
      <3>5. \A i \in 1 .. n : result_txt'[i].case = Cases[i]
        BY <3>2
      <3> QED BY <3>3, <3>4, <3>5, SomeCases DEF Lines
    <2> QED BY <2>1, <2>2
  <1> QED BY <1>1, <1>2, NothingAdded

\* result.txt is looked for.
LEMMA CheckStep == RepInv /\ Rep!CheckResultTxt => RepInv'
  <1> SUFFICES ASSUME RepInv, Rep!CheckResultTxt PROVE RepInv'
    OBVIOUS
  <1>1. /\ phase = "check" /\ line' = 1
        /\ UNCHANGED <<want, status, expect, expect_dict, cnt, printed, saved, command, result_txt>>
        /\ \/ /\ result_txt = NULL /\ phase' = "report"
              /\ Rep!Becomes(Rep!Add(Rep!Memory, Rep!Case, "run_acl_code", "failed"))
           \/ result_txt # NULL /\ phase' = "compare" /\ UNCHANGED <<objects, trace, latest>>
    BY DEF Rep!CheckResultTxt, Rep!given, Rep!verdict, Rep!traces
  <1>2. Lines'
    BY <1>1 DEF RepInv, Lines
  <1>3. CASE phase' = "report"
    <2>1. Rep!Memory' = Rep!Add(Rep!Memory, Rep!Case, "run_acl_code", "failed")
      BY <1>1, <1>3, NewMemory
    <2>2. "run_acl_code" \in Rep!Stages /\ "failed" \in Rep!Status
      BY DEF Rep!Stages, Rep!Status
    <2>3. MemInv(Rep!Memory')
      BY <2>1, <2>2, AddAll, SMTT(30) DEF RepInv
    <2>4. MemInv(Rep!Memory)'
      BY <2>3 DEF MemInv, Placed, Recorded, Kept
    <2> QED BY <1>1, <1>2, <1>3, <2>4, BeforeReport
  <1>4. CASE phase' = "compare"
    BY <1>1, <1>2, <1>4, NothingAdded
  <1> QED BY <1>1, <1>3, <1>4

\* A line of result.txt: up to two results for its case.
LEMMA LineStep == ASSUME RepInv, NEW outs, Rep!CompareLine(outs) PROVE RepInv'
  <1> DEFINE c == result_txt[line].case
             res == result_txt[line].result
             failed == Rep!Add(Rep!Memory, {c}, "run_acl_code", "failed")
             ran == Rep!Add(Rep!Memory, {c}, "run_acl_code", "success")
             verdict == IF expect_data_paths[c] THEN Rep!CompareStatus(outs) ELSE "failed"
             both == Rep!Add(ran, {c}, "compare_data", verdict)
  <1>1. /\ phase = "compare" /\ phase' = "compare" /\ line <= Len(result_txt) /\ line' = line + 1
        /\ Rep!Becomes(Rep!LineResult(c, res, outs))
        /\ UNCHANGED <<want, status, expect, expect_dict, cnt, printed, saved, command, result_txt>>
    BY DEF Rep!CompareLine, Rep!given, Rep!verdict
  <1>2. c \in Rep!Case /\ line \in Nat \ {0} /\ result_txt # NULL
    BY <1>1 DEF RepInv, Lines
  <1>3. Rep!LineResult(c, res, outs) \in {failed, ran, both, Rep!Memory}
    BY DEF Rep!LineResult
  <1>4. /\ RunStages \subseteq Rep!Stages /\ "run_acl_code" \in RunStages /\ "compare_data" \in RunStages
        /\ {"success", "failed", verdict} \subseteq Rep!Status
    BY DEF RunStages, Rep!Stages, Rep!Status, Rep!CompareStatus
  <1>5. MemInv(Rep!Memory) /\ \A s \in RunStages : Own(Rep!Memory, s)
    BY <1>1 DEF RepInv
  <1> HIDE DEF c, res, verdict
  <1>6. /\ MemInv(failed) /\ \A s \in RunStages : Own(failed, s)
        /\ MemInv(ran) /\ \A s \in RunStages : Own(ran, s)
    BY <1>2, <1>4, <1>5, AddOne
  <1>7. MemInv(both) /\ \A s \in RunStages : Own(both, s)
    <2> HIDE DEF ran
    <2> QED BY <1>2, <1>4, <1>6, AddOne
  <1>8. Rep!Memory' \in {failed, ran, both, Rep!Memory}
    <2>1. CASE Rep!LineResult(c, res, outs) = Rep!Memory
      <3>1. UNCHANGED <<objects, trace, latest>>
        BY <1>1, <2>1 DEF Rep!Becomes, Rep!Memory
      <3> QED BY <3>1 DEF Rep!Memory
    <2>2. CASE Rep!LineResult(c, res, outs) = failed
      BY <1>1, <2>2, NewMemory
    <2>3. CASE Rep!LineResult(c, res, outs) = ran
      BY <1>1, <2>3, NewMemory
    <2>4. CASE Rep!LineResult(c, res, outs) = both
      BY <1>1, <2>4, NewMemory
    <2> QED BY <1>3, <2>1, <2>2, <2>3, <2>4
  <1> HIDE DEF failed, ran, both
  <1>9. MemInv(Rep!Memory') /\ \A s \in RunStages : Own(Rep!Memory', s)
    BY <1>5, <1>6, <1>7, <1>8
  <1>10. MemInv(Rep!Memory)' /\ \A s \in RunStages : Own(Rep!Memory, s)'
    BY <1>9 DEF MemInv, Placed, Recorded, Kept, Own, Private
  <1>11. Lines' /\ line' \in Nat \ {0} /\ result_txt' # NULL
    BY <1>1, <1>2 DEF RepInv, Lines
  <1> QED BY <1>1, <1>10, <1>11, BeforeReport

\* Counting is the same in the report, and the cases are finitely many.
LEMMA CasesCounted == \A S \in SUBSET Rep!Case : Rep!Cardinality(S) = Cardinality(S) /\ Cardinality(S) \in Nat
  <1>1. \A S : Rep!Cardinality(S) = Cardinality(S)
    BY DEF Rep!Cardinality, Cardinality
  <1>2. Rep!Case = {Cases[i] : i \in 1 .. Len(Cases)}
    BY SomeCases DEF Rep!Case, Rep!ToSet
  <1>3. IsFiniteSet(1 .. Len(Cases))
    BY SomeCases, FS_Interval
  <1>4. IsFiniteSet(Rep!Case)
    <2>1. Cases \in [1 .. Len(Cases) -> Rep!Case]
      BY RepAssumption, SomeCases, LenProperties
    <2>2. Cases \in Surjection(1 .. Len(Cases), Rep!Case)
      BY <1>2, <2>1 DEF Surjection
    <2> QED BY <1>3, <2>2, FS_Surjection
  <1>5. \A S \in SUBSET Rep!Case : IsFiniteSet(S)
    BY <1>4, FS_Subset
  <1> QED BY <1>1, <1>5, FS_CardinalityType

\* The status that is printed: an object failed if and only if the last result
\* of its stage did.
LEMMA StatusOfLatest ==
  ASSUME MemInv(Rep!Memory), NEW c \in Rep!Case
  PROVE  (\E i \in DOMAIN trace[c] : objects[trace[c][i]].status # "success") <=>
           \E s \in Rep!Stages : latest[c][s] = "failed"
  <1>1. Rep!Memory.trace = trace /\ Rep!Memory.objects = objects /\ Rep!Memory.latest = latest
    BY DEF Rep!Memory
  <1>2. \A i \in DOMAIN trace[c] :
          /\ objects[trace[c][i]].stage \in Rep!Stages /\ objects[trace[c][i]].status \in {"success", "failed"}
          /\ latest[c][objects[trace[c][i]].stage] = objects[trace[c][i]].status
    BY <1>1 DEF MemInv, Placed, Recorded, Rep!Status
  <1>3. \A s \in Rep!Stages : latest[c][s] # NULL => \E i \in DOMAIN trace[c] : objects[trace[c][i]].stage = s
    BY <1>1 DEF MemInv, Kept
  <1>4. NULL # "failed"
    BY RepAssumption DEF Rep!Status
  <1> QED BY <1>2, <1>3, <1>4

\* The summary.
LEMMA PrintStep == RepInv /\ Rep!ConsolePrint => RepInv'
  <1> SUFFICES ASSUME RepInv, Rep!ConsolePrint PROVE RepInv'
    OBVIOUS
  <1> DEFINE Bad(c) == \E s \in Rep!Stages : latest[c][s] = "failed"
             good == {c \in Rep!Case : status'[c] = expect'[c]}
  <1>1. /\ phase = "report" /\ phase' = "report" /\ ~printed /\ printed'
        /\ UNCHANGED <<want, objects, trace, latest, expect_dict, result_txt, line, saved, command>>
        /\ status' = [c \in Rep!Case |-> Rep!UpdatedStatus(c)]
        /\ expect' = [c \in Rep!Case |-> Rep!UpdatedExpect(c)]
        /\ cnt' = Rep!Counted(status', expect')
    BY DEF Rep!ConsolePrint, Rep!given, Rep!traces
  <1>2. MemInv(Rep!Memory) /\ Rep!Memory' = Rep!Memory
    BY <1>1, SMTT(30) DEF RepInv, Rep!Memory
  <1>3. MemInv(Rep!Memory)'
    BY <1>2 DEF MemInv, Placed, Recorded, Kept
  <1>4. \A c \in Rep!Case : status'[c] = IF Bad(c) THEN "failed" ELSE "success"
    BY <1>1, <1>2, StatusOfLatest DEF Rep!UpdatedStatus, RepInv, SummaryInv
  <1>5. Rep!VerdictFromLatest'
    BY <1>1, <1>4 DEF Rep!VerdictFromLatest
  <1>6. /\ cnt'.success = Rep!Cardinality(good) /\ cnt'.total = Len(Cases)
        /\ cnt'.success + cnt'.failed = Len(Cases)
    <2> DEFINE n == Rep!Cardinality(good)
    <2>1. n \in Nat
      BY CasesCounted
    <2>2. cnt' = [total |-> cnt.total + Len(Cases), success |-> cnt.success + n,
                  failed |-> cnt.failed + Len(Cases) - n]
      BY <1>1 DEF Rep!Counted
    <2>3. cnt.total = 0 /\ cnt.success = 0 /\ cnt.failed = 0
      BY <1>1 DEF RepInv, SummaryInv
    <2> HIDE DEF n
    <2>4. cnt'.total = 0 + Len(Cases) /\ cnt'.success = 0 + n /\ cnt'.failed = 0 + Len(Cases) - n
      BY <2>2, <2>3
    <2>5. cnt'.total = Len(Cases) /\ cnt'.success = n /\ cnt'.success + cnt'.failed = Len(Cases)
      BY <2>1, <2>4, SomeCases
    <2> QED BY <2>5 DEF n
  <1>7. ASSUME command = 1
        PROVE  good = {c \in Rep!Case : want[c] = "failed" <=> Bad(c)}
    <2>1. expect_dict = want /\ DOMAIN want = Rep!Case /\ \A c \in Rep!Case : want[c] \in {"success", "failed"}
      BY <1>7 DEF RepInv, SummaryInv, Rep!Status
    <2>2. \A c \in Rep!Case : expect'[c] = want[c]
      BY <1>1, <2>1 DEF Rep!UpdatedExpect, RepInv, SummaryInv
    <2> HIDE DEF Bad
    <2> QED BY <1>4, <2>1, <2>2
  <1>8. Rep!RunCountsMatch'
    BY <1>1, <1>6, <1>7 DEF Rep!RunCountsMatch
  <1>9. SummaryInv'
    BY <1>1, <1>5, <1>8 DEF RepInv, SummaryInv
  <1>10. Lines' /\ SavedInv'
    BY <1>1 DEF RepInv, Lines, SavedInv
  <1> QED BY <1>1, <1>3, <1>9, <1>10 DEF RepInv

\* The file is written.
LEMMA SaveStep == RepInv /\ Rep!Save => RepInv'
  <1> SUFFICES ASSUME RepInv, Rep!Save PROVE RepInv'
    OBVIOUS
  <1>1. /\ phase = "report" /\ phase' = "report"
        /\ UNCHANGED <<want, objects, trace, latest, expect_dict, result_txt, line, command,
                       status, expect, cnt, printed>>
        /\ saved' = [c \in Rep!Case |-> [stages |-> Rep!Entries(c), latest |-> latest[c]]]
    BY DEF Rep!Save, Rep!given, Rep!traces, Rep!verdict
  <1>2. MemInv(Rep!Memory) /\ Rep!Memory' = Rep!Memory
    BY <1>1 DEF RepInv, Rep!Memory
  <1>3. MemInv(Rep!Memory)'
    BY <1>2 DEF MemInv, Placed, Recorded, Kept
  <1>4. Rep!Memory.trace = trace /\ Rep!Memory.objects = objects /\ Rep!Memory.latest = latest
    BY SMTT(30) DEF Rep!Memory
  <1>5. SavedInv'
    <2> SUFFICES ASSUME NEW c \in Rep!Case
                 PROVE  LET e == saved'[c].stages IN
                        /\ e = [i \in 1 .. Len(e) |-> e[i]] /\ Len(e) \in Nat
                        /\ saved'[c].latest \in [Rep!Stages -> Rep!Status \cup {NULL}]
                        /\ \A i \in DOMAIN e :
                             /\ e[i].stage \in Rep!Stages /\ e[i].status \in Rep!Status
                             /\ saved'[c].latest[e[i].stage] = e[i].status
                        /\ \A s \in Rep!Stages : saved'[c].latest[s] # NULL =>
                             \E i \in DOMAIN e : e[i].stage = s
      BY DEF SavedInv
    <2> DEFINE e == saved'[c].stages
    <2>1. e = [i \in DOMAIN trace[c] |-> objects[trace[c][i]]] /\ saved'[c].latest = latest[c]
      BY <1>1 DEF Rep!Entries
    <2>2. trace[c] \in Seq(Places) /\ latest[c] \in [Rep!Stages -> Rep!Status \cup {NULL}]
      BY <1>2, <1>4 DEF MemInv, Placed
    <2>3. Len(trace[c]) \in Nat /\ DOMAIN trace[c] = 1 .. Len(trace[c])
      BY <2>2, LenProperties
    <2>4. /\ \A i \in DOMAIN trace[c] :
               /\ objects[trace[c][i]].stage \in Rep!Stages /\ objects[trace[c][i]].status \in Rep!Status
               /\ latest[c][objects[trace[c][i]].stage] = objects[trace[c][i]].status
          /\ \A s \in Rep!Stages : latest[c][s] # NULL => \E i \in DOMAIN trace[c] : objects[trace[c][i]].stage = s
      BY <1>2, <1>4 DEF MemInv, Placed, Recorded, Kept
    <2> HIDE DEF e
    <2>5. Len(e) = Len(trace[c]) /\ DOMAIN e = 1 .. Len(trace[c])
      BY <2>1, <2>3, SMTT(30)
    <2>6. /\ e = [i \in 1 .. Len(e) |-> e[i]] /\ Len(e) \in Nat
          /\ \A i \in DOMAIN e :
               /\ e[i].stage \in Rep!Stages /\ e[i].status \in Rep!Status
               /\ latest[c][e[i].stage] = e[i].status
          /\ \A s \in Rep!Stages : latest[c][s] # NULL => \E i \in DOMAIN e : e[i].stage = s
      BY <2>1, <2>3, <2>4, <2>5
    <2> QED BY <2>1, <2>2, <2>6 DEF e
  <1>6. SummaryInv' /\ Lines'
    BY <1>1 DEF RepInv, SummaryInv, Lines, Rep!VerdictFromLatest, Rep!RunCountsMatch
  <1> QED BY <1>1, <1>3, <1>5, <1>6 DEF RepInv

\* A new process: the objects it loads are in one place each.
LEMMA LoadStep == RepInv /\ Rep!Load => RepInv'
  <1> SUFFICES ASSUME RepInv, Rep!Load PROVE RepInv'
    OBVIOUS
  <1> DEFINE e(c) == saved[c].stages
             m == Rep!Memory'
  <1>1. /\ saved # NULL /\ phase' \in {"acl", "check"} /\ printed' = FALSE /\ command' = command + 1
        /\ UNCHANGED <<want, result_txt, line, saved>>
        /\ \A c \in Rep!Case : status'[c] = "success" /\ expect'[c] = "success"
        /\ cnt' = [total |-> 0, success |-> 0, failed |-> 0]
    BY DEF Rep!Load, Rep!given
  <1>2. /\ m.objects = [k \in Rep!Loaded |-> saved[k[1]].stages[k[2]]]
        /\ m.trace = [c \in Rep!Case |-> [i \in DOMAIN e(c) |-> <<c, i>>]]
        /\ m.latest = [c \in Rep!Case |-> saved[c].latest]
    BY DEF Rep!Load, Rep!Memory
  <1>3. \A c \in Rep!Case :
          /\ e(c) = [i \in 1 .. Len(e(c)) |-> e(c)[i]] /\ Len(e(c)) \in Nat
          /\ saved[c].latest \in [Rep!Stages -> Rep!Status \cup {NULL}]
          /\ \A i \in DOMAIN e(c) :
               /\ e(c)[i].stage \in Rep!Stages /\ e(c)[i].status \in Rep!Status
               /\ saved[c].latest[e(c)[i].stage] = e(c)[i].status
          /\ \A s \in Rep!Stages : saved[c].latest[s] # NULL => \E i \in DOMAIN e(c) : e(c)[i].stage = s
    BY <1>1 DEF RepInv, SavedInv
  <1>4. \A k : k \in Rep!Loaded <=> \E c \in Rep!Case : \E i \in DOMAIN e(c) : k = <<c, i>>
    BY DEF Rep!Loaded
  <1>5. \A c \in Rep!Case : /\ DOMAIN e(c) = 1 .. Len(e(c)) /\ DOMAIN m.trace[c] = DOMAIN e(c)
                            /\ \A i \in DOMAIN e(c) : m.trace[c][i] = <<c, i>>
                            /\ m.latest[c] = saved[c].latest
    BY <1>2, <1>3
  <1>6. DOMAIN m.objects = Rep!Loaded /\ \A c \in Rep!Case : \A i \in DOMAIN e(c) : m.objects[<<c, i>>] = e(c)[i]
    BY <1>2, <1>4
  <1>7. \A c \in Rep!Case : m.trace[c] \in Seq(Places) /\ Len(m.trace[c]) = Len(e(c))
    <2> SUFFICES ASSUME NEW c \in Rep!Case
                 PROVE  m.trace[c] \in Seq(Places) /\ Len(m.trace[c]) = Len(e(c))
      OBVIOUS
    <2> DEFINE n == Len(e(c))
               t == m.trace[c]
    <2>1. n \in Nat /\ t = [i \in 1 .. n |-> <<c, i>>]
      BY <1>2, <1>3, <1>5
    <2>2. \A i \in 1 .. n : <<c, i>> \in Places
      BY <2>1 DEF Places
    <2> HIDE DEF n, t
    <2>3. t \in Seq(Places) /\ Len(t) = n
      BY <2>1, <2>2
    <2> QED BY <2>3 DEF n, t
  <1> HIDE DEF m
  <1>8. Placed(m)
    <2>1. m.trace \in [Rep!Case -> Seq(Places)]
      BY <1>2, <1>7
    <2>2. m.latest \in [Rep!Case -> [Rep!Stages -> Rep!Status \cup {NULL}]]
      BY <1>2, <1>3
    <2>3. ASSUME NEW k \in DOMAIN m.objects
          PROVE  /\ k \in Places /\ k[2] \in 1 .. Len(m.trace[k[1]])
                 /\ m.objects[k].stage \in Rep!Stages /\ m.objects[k].status \in Rep!Status
      <3>0. PICK c \in Rep!Case : \E i \in DOMAIN e(c) : k = <<c, i>>
        BY <1>4, <1>6
      <3>1. PICK i \in DOMAIN e(c) : k = <<c, i>>
        BY <3>0
      <3>2. k[1] = c /\ k[2] = i /\ i \in 1 .. Len(m.trace[c]) /\ i \in Nat
        BY <1>5, <1>7, <3>1
      <3>3. m.objects[k] = e(c)[i]
        BY <1>6, <3>1
      <3>4. e(c)[i].stage \in Rep!Stages /\ e(c)[i].status \in Rep!Status
        BY <1>3
      <3> HIDE DEF e
      <3> QED BY <3>1, <3>2, <3>3, <3>4 DEF Places
    <2>4. ASSUME NEW c \in Rep!Case, NEW i \in DOMAIN m.trace[c]
          PROVE  m.trace[c][i] \in DOMAIN m.objects
      <3>1. i \in DOMAIN e(c) /\ m.trace[c][i] = <<c, i>>
        BY <1>5
      <3>2. <<c, i>> \in Rep!Loaded
        BY <1>4, <3>1, SMTT(30)
      <3> QED BY <1>6, <3>1, <3>2
    <2> QED BY <2>1, <2>2, <2>3, <2>4 DEF Placed
  <1>9. Recorded(m) /\ Kept(m)
    <2>1. ASSUME NEW c \in Rep!Case, NEW i \in DOMAIN m.trace[c]
          PROVE  m.latest[c][m.objects[m.trace[c][i]].stage] = m.objects[m.trace[c][i]].status
      <3>1. i \in DOMAIN e(c) /\ m.trace[c][i] = <<c, i>> /\ m.latest[c] = saved[c].latest
        BY <1>5
      <3>2. m.objects[m.trace[c][i]] = e(c)[i]
        BY <1>6, <3>1
      <3>3. saved[c].latest[e(c)[i].stage] = e(c)[i].status
        BY <1>3, <3>1
      <3> QED BY <3>1, <3>2, <3>3
    <2>2. ASSUME NEW c \in Rep!Case, NEW s \in Rep!Stages, m.latest[c][s] # NULL
          PROVE  \E i \in DOMAIN m.trace[c] : m.objects[m.trace[c][i]].stage = s
      <3>0. saved[c].latest[s] # NULL
        BY <1>5, <2>2
      <3>1. PICK i \in DOMAIN e(c) : e(c)[i].stage = s
        BY <1>3, <3>0
      <3>2. i \in DOMAIN m.trace[c] /\ m.trace[c][i] = <<c, i>>
        BY <1>5
      <3>3. m.objects[m.trace[c][i]] = e(c)[i]
        BY <1>6, <3>2
      <3> QED BY <3>1, <3>2, <3>3
    <2> QED BY <2>1, <2>2 DEF Recorded, Kept
  <1>10. \A s : Own(m, s)
    BY <1>5, SMTT(30) DEF Own, Private
  <1>11. MemInv(Rep!Memory)' /\ \A s \in RunStages : Own(Rep!Memory, s)'
    BY <1>8, <1>9, <1>10 DEF m, MemInv, Placed, Recorded, Kept, Own, Private
  <1>12. SavedInv' /\ Lines'
    BY <1>1 DEF RepInv, SavedInv, Lines
  <1>13. SummaryInv'
    <2>1. command' \in Nat \ {0} /\ command' # 1
      BY <1>1 DEF RepInv, SummaryInv
    <2>2. cnt'.total = 0 /\ cnt'.success = 0 /\ cnt'.failed = 0
      BY <1>1
    <2> QED BY <1>1, <2>1, <2>2 DEF RepInv, SummaryInv, Rep!VerdictFromLatest, Rep!RunCountsMatch
  <1> QED BY <1>1, <1>11, <1>12, <1>13 DEF RepInv

\* A run starts without results, a summary and a file.
LEMMA RepInit == Rep!Init => RepInv
  <1> SUFFICES ASSUME Rep!Init PROVE RepInv
    OBVIOUS
  <1>1. /\ objects = <<>> /\ trace = [c \in Rep!Case |-> <<>>]
        /\ latest = [c \in Rep!Case |-> [s \in Rep!Stages |-> NULL]]
        /\ phase = "data" /\ saved = NULL /\ result_txt = NULL
    BY DEF Rep!Init
  <1>2. Rep!Memory.trace = trace /\ Rep!Memory.objects = objects /\ Rep!Memory.latest = latest
    BY DEF Rep!Memory
  <1>3. \A c \in Rep!Case : DOMAIN trace[c] = {} /\ \A s \in Rep!Stages : latest[c][s] = NULL
    BY <1>1
  <1>4. DOMAIN objects = {}
    BY <1>1
  <1>5. trace \in [Rep!Case -> Seq(Places)] /\ latest \in [Rep!Case -> [Rep!Stages -> Rep!Status \cup {NULL}]]
    BY <1>1
  <1>6. MemInv(Rep!Memory) /\ \A s \in RunStages : Own(Rep!Memory, s)
    BY <1>2, <1>3, <1>4, <1>5 DEF MemInv, Placed, Recorded, Kept, Own, Private
  <1>7. SummaryInv
    <2>1. /\ ~printed /\ printed \in BOOLEAN /\ command = 1 /\ expect_dict = want
          /\ want \in [Rep!Case -> Rep!Status]
          /\ cnt = [total |-> 0, success |-> 0, failed |-> 0]
          /\ \A c \in Rep!Case : status[c] = "success" /\ expect[c] = "success"
      BY DEF Rep!Init
    <2>2. cnt.total = 0 /\ cnt.success = 0 /\ cnt.failed = 0
      BY <2>1
    <2> QED BY <2>1, <2>2 DEF SummaryInv, Rep!VerdictFromLatest, Rep!RunCountsMatch
  <1> QED BY <1>1, <1>6, <1>7 DEF RepInv, Lines, SavedInv

\* One case for each step of a command.
LEMMA RepNext == RepInv /\ Rep!Next => RepInv'
  <1> SUFFICES ASSUME RepInv, Rep!Next PROVE RepInv'
    OBVIOUS
  <1>1. CASE Rep!GenerateData \/ Rep!CompareEnds
    <2>1. /\ phase \in {"data", "compare"} /\ phase' \in {"atc", "ms", "report"}
          /\ UNCHANGED <<objects, trace, latest, want, status, expect, expect_dict, cnt, printed, saved,
                         command, result_txt>>
      BY <1>1 DEF Rep!GenerateData, Rep!CompareEnds, Rep!given, Rep!verdict, Rep!traces
    <2>2. Lines'
      BY <2>1 DEF RepInv, Lines
    <2> QED BY <2>1, <2>2, NothingAdded
  <1> QED BY <1>1, AtcStep, RunMsStep, RunAclStep, CheckStep, LineStep, PrintStep, SaveStep, LoadStep
          DEF Rep!Next

\* A step of another program leaves the report alone.
LEMMA RepStep ==
  ASSUME program = "report" => RepInv, [Next]_vars
  PROVE  (program = "report" => RepInv)'
  <1>1. CASE UNCHANGED vars
    <2>1. UNCHANGED <<program, objects, trace, latest, want, status, expect, expect_dict, cnt, printed, saved,
                      command, result_txt, line, phase>>
      BY <1>1 DEF vars, shared, ownRep
    <2>2. Rep!Memory' = Rep!Memory
      BY <2>1 DEF Rep!Memory
    <2>3. CASE program = "report"
      <3>1. MemInv(Rep!Memory)' /\ (phase' # "report" => \A s \in RunStages : Own(Rep!Memory, s)')
        BY <2>1, <2>2, <2>3 DEF RepInv, MemInv, Placed, Recorded, Kept, Own, Private
      <3>2. Lines' /\ SavedInv' /\ SummaryInv'
        BY <2>1, <2>3 DEF RepInv, Lines, SavedInv, SummaryInv, Rep!VerdictFromLatest, Rep!RunCountsMatch
      <3> QED BY <2>1, <2>3, <3>1, <3>2 DEF RepInv
    <2> QED BY <2>1, <2>3
  <1>2. CASE Next
    BY <1>2, RepNext DEF Next
  <1> QED BY <1>1, <1>2

\* For all lists of cases and any number of commands, with failures anywhere
\* and files saved or not: the status in the summary is failed if and only if
\* the last result of a stage is, and `run' counts the cases that went as their
\* json says.
THEOREM RepSafety == Spec => []VerdictFromLatest /\ []RunCountsMatch
  <1>1. Init => (program = "report" => RepInv)
    BY RepInit DEF Init
  <1>2. (program = "report" => RepInv) => VerdictFromLatest /\ RunCountsMatch
    BY DEF RepInv, SummaryInv, VerdictFromLatest, RunCountsMatch
  <1> QED BY <1>1, <1>2, RepStep, PTL DEF Spec

-----------------------------------------------------------------------------
(* The comparison of outputs                                                *)

Outputs == [real : Seq(Cmp!Numbers), expect : Seq(Cmp!Numbers)]

\* What VerdictSound compares: the distance and the larger of two numbers.
Distance(r, e) == Cmp!Abs(r - e)
Larger(r, e) == Cmp!Bigger(Cmp!Abs(r), Cmp!Abs(e))

\* A product with a natural number keeps the order.
LEMMA TimesKeepsOrder ==
  ASSUME NEW c \in Nat, NEW a \in Int, NEW b \in Int, a <= b
  PROVE  c * a <= c * b
  <1>1. c * (b - a) >= 0 BY SMT
  <1>2. c * b = c * a + c * (b - a) BY SMT
  <1> QED BY <1>1, <1>2

\* The floor changes nothing for a difference that reaches the threshold.
LEMMA FloorNeedless ==
  ASSUME NEW d \in Nat, NEW m \in Nat, NEW p \in Nat, NEW q \in Nat, NEW f \in Int,
         d >= DiffThd, p * f < DiffThd * q
  PROVE  d * q > p * Cmp!Bigger(m, f) <=> d * q > p * m
  <1>1. CASE m > f BY <1>1 DEF Cmp!Bigger
  <1>2. CASE m <= f
    <2>1. p * m <= p * f BY <1>2, TimesKeepsOrder
    <2>2. q * DiffThd <= q * d BY TimesKeepsOrder, CmpAssumption
    <2>3. q * DiffThd = DiffThd * q /\ q * d = d * q BY CmpAssumption
    <2>4. p * m \in Int /\ p * f \in Int /\ d * q \in Int /\ DiffThd * q \in Int BY CmpAssumption
    <2>5. Cmp!Bigger(m, f) = f BY <1>2 DEF Cmp!Bigger
    <2> HIDE DEF Cmp!Bigger
    <2> QED BY <2>1, <2>2, <2>3, <2>4, <2>5
  <1> QED BY <1>1, <1>2

\* The floor is a whole number of units here.
LEMMA FloorIsInt == Cmp!Floor \in Int
  <1> USE CmpAssumption
  <1>1. Unit * Unit \in Int /\ 16384 * DiffThd \in Int /\ 16384 * DiffThd > 0 OBVIOUS
  <1>2. \A a, b \in Int : b > 0 => a \div b \in Int OBVIOUS
  <1> QED BY <1>1, <1>2 DEF Cmp!Floor

\* An element is an error if and only if it is off, and too far if by more than
\* a tenth.
LEMMA ElementOff ==
  ASSUME Cmp!LowFloor, NEW r \in Cmp!Numbers, NEW e \in Cmp!Numbers
  PROVE  /\ Cmp!Differs(r, e) /\ Cmp!Above(Cmp!Rate(r, e), DiffThd, Unit)
              <=> /\ Cmp!Finite(r) /\ Cmp!Finite(e)
                  /\ Distance(r, e) >= DiffThd
                  /\ Distance(r, e) * Unit > DiffThd * Larger(r, e)
         /\ Cmp!Finite(r) /\ Cmp!Finite(e) /\ Distance(r, e) >= DiffThd =>
              (Cmp!Above(Cmp!Rate(r, e), MaxDiff, 100)
                 <=> Distance(r, e) * 100 > MaxDiff * Larger(r, e))
  <1>1. CASE ~(Cmp!Finite(r) /\ Cmp!Finite(e))
    BY <1>1 DEF Cmp!Rate, Cmp!Above
  <1>2. CASE Cmp!Finite(r) /\ Cmp!Finite(e)
    <2>1. r \in Int /\ e \in Int
      BY <1>2 DEF Cmp!Finite, Cmp!Numbers
    <2> DEFINE d == Distance(r, e)  m == Larger(r, e)
    <2>2. d \in Nat /\ m \in Nat
      BY <2>1 DEF Distance, Larger, Cmp!Abs, Cmp!Bigger
    <2>3. Cmp!Differs(r, e) <=> d # 0
      BY <1>2, <2>1 DEF Cmp!Differs, Distance, Cmp!Abs
    <2>4. CASE d < DiffThd
      <3>1. Cmp!Rate(r, e) = <<d, Unit>>
        BY <1>2, <2>4 DEF Cmp!Rate, Distance
      <3>2. Unit * d <= Unit * DiffThd
        BY <2>2, <2>4, TimesKeepsOrder, CmpAssumption
      <3>3. ~(d * Unit > DiffThd * Unit)
        BY <2>2, <3>2, CmpAssumption
      <3> QED BY <1>2, <2>4, <3>1, <3>3, <2>2, CmpAssumption DEF Cmp!Above
    <2>5. CASE d >= DiffThd
      <3>1. Cmp!Rate(r, e) = <<d, Cmp!Bigger(m, Cmp!Floor)>>
        BY <1>2, <2>5, <2>2, CmpAssumption DEF Cmp!Rate, Distance, Larger
      <3>2. <<d, Cmp!Bigger(m, Cmp!Floor)>> # NAN
        BY <2>2, FloorIsInt, CmpAssumption DEF Cmp!Bigger
      <3>3. DiffThd * Cmp!Floor < DiffThd * Unit
        <4>0. DiffThd \in Nat /\ Cmp!Floor + 1 \in Int /\ Unit \in Int /\ Cmp!Floor + 1 <= Unit
          BY FloorIsInt, CmpAssumption DEF Cmp!LowFloor
        <4>1. DiffThd * (Cmp!Floor + 1) <= DiffThd * Unit
          BY <4>0, TimesKeepsOrder
        <4>2. DiffThd * (Cmp!Floor + 1) = DiffThd * Cmp!Floor + DiffThd
          BY FloorIsInt, CmpAssumption
        <4>3. DiffThd * Cmp!Floor \in Int /\ DiffThd * Unit \in Int
          BY FloorIsInt, CmpAssumption
        <4> QED BY <4>1, <4>2, <4>3, CmpAssumption
      <3>4. MaxDiff * Cmp!Floor < DiffThd * 100
        BY CmpAssumption, FloorIsInt DEF Cmp!LowFloor
      <3>5. d * Unit > DiffThd * Cmp!Bigger(m, Cmp!Floor) <=> d * Unit > DiffThd * m
        BY <2>2, <2>5, <3>3, FloorIsInt, FloorNeedless, CmpAssumption
      <3>6. d * 100 > MaxDiff * Cmp!Bigger(m, Cmp!Floor) <=> d * 100 > MaxDiff * m
        BY <2>2, <2>5, <3>4, FloorIsInt, FloorNeedless, CmpAssumption
      <3>7. d # 0 BY <2>2, <2>5, CmpAssumption
      <3>8. \A p, q : Cmp!Above(Cmp!Rate(r, e), p, q) <=> d * q > p * Cmp!Bigger(m, Cmp!Floor)
        BY <3>1, <3>2 DEF Cmp!Above
      <3> QED BY <1>2, <2>3, <2>5, <3>5, <3>6, <3>7, <3>8
    <2> QED BY <2>2, <2>4, <2>5, CmpAssumption
  <1> QED BY <1>1, <1>2

\* What the verdict on an output is: VerdictSound, of this output.
Close(o) ==
  LET both == {i \in DOMAIN o.real : i \in DOMAIN o.expect /\ Cmp!Finite(o.real[i]) /\ Cmp!Finite(o.expect[i])}
      exceeds(i, p, q) == Distance(o.real[i], o.expect[i]) * q > p * Larger(o.real[i], o.expect[i])
      off == {i \in both : Distance(o.real[i], o.expect[i]) >= DiffThd /\ exceeds(i, DiffThd, Unit)}
  IN  /\ Len(o.real) = Len(o.expect)
      /\ 100 * Cmp!Cardinality(off) <= PctThd * Len(o.real)
      /\ \A i \in off : ~exceeds(i, MaxDiff, 100)

\* The share of the elements that are no errors.
LEMMA ShareOfErrors ==
  ASSUME NEW c \in Nat, NEW n \in Nat, NEW p \in Nat
  PROVE  100 * (n - c) >= (100 - p) * n <=> 100 * c <= p * n
  <1>1. (100 - p) * n = 100 * n - p * n /\ p * n \in Int
    OBVIOUS
  <1>2. \A q \in Int : 100 * (n - c) >= 100 * n - q <=> 100 * c <= q
    OBVIOUS
  <1> QED BY <1>1, <1>2

\* An output passes if and only if it is close to what was expected.
LEMMA VerdictMeans ==
  ASSUME Cmp!LowFloor, NEW o \in Outputs
  PROVE  /\ Cmp!Verdict(o) \in {"Pass", "Failed"}
         /\ Cmp!Verdict(o) = "Pass" <=> Close(o)
  <1> DEFINE both == {i \in DOMAIN o.real : /\ i \in DOMAIN o.expect
                                            /\ Cmp!Finite(o.real[i]) /\ Cmp!Finite(o.expect[i])}
             exceeds(i, p, q) == Distance(o.real[i], o.expect[i]) * q > p * Larger(o.real[i], o.expect[i])
             off == {i \in both : /\ Distance(o.real[i], o.expect[i]) >= DiffThd
                                  /\ exceeds(i, DiffThd, Unit)}
             n == Len(o.real)
  <1>1. n \in Nat /\ Len(o.expect) \in Nat /\ DOMAIN o.real = 1 .. n /\ DOMAIN o.expect = 1 .. Len(o.expect)
    BY DEF Outputs
  <1>2. \A i \in 1 .. n : o.real[i] \in Cmp!Numbers
    BY <1>1 DEF Outputs
  <1>3. \A i \in 1 .. Len(o.expect) : o.expect[i] \in Cmp!Numbers
    BY <1>1 DEF Outputs
  <1>4. Close(o) <=> /\ n = Len(o.expect)
                     /\ 100 * Cmp!Cardinality(off) <= PctThd * n
                     /\ \A i \in off : ~exceeds(i, MaxDiff, 100)
    BY DEF Close
  <1>5. CASE n # Len(o.expect)
    <2>1. Cmp!Verdict(o) = "Failed"
      BY <1>1, <1>5 DEF Cmp!Verdict
    <2> QED BY <1>4, <1>5, <2>1
  <1>6. CASE n = Len(o.expect)
    <2>1. Cmp!ErrIdx(o) = off
      <3> SUFFICES ASSUME NEW i \in 1 .. n PROVE i \in Cmp!ErrIdx(o) <=> i \in off
        BY <1>1 DEF Cmp!ErrIdx, Cmp!DiffIndex
      <3>1. o.real[i] \in Cmp!Numbers /\ o.expect[i] \in Cmp!Numbers
        BY <1>2, <1>3, <1>6
      <3>2. i \in Cmp!ErrIdx(o)
              <=> /\ Cmp!Differs(o.real[i], o.expect[i])
                  /\ Cmp!Above(Cmp!Rate(o.real[i], o.expect[i]), DiffThd, Unit)
        BY <1>1 DEF Cmp!ErrIdx, Cmp!DiffIndex
      <3> QED BY <3>1, <3>2, <1>1, <1>6, ElementOff
    <2>2. Cmp!TooFar(o) <=> \E i \in off : exceeds(i, MaxDiff, 100)
      <3>1. \A i \in off : o.real[i] \in Cmp!Numbers /\ o.expect[i] \in Cmp!Numbers
        BY <1>1, <1>2, <1>3
      <3>2. ASSUME NEW i \in off
            PROVE  Cmp!Above(Cmp!Rate(o.real[i], o.expect[i]), MaxDiff, 100) <=> exceeds(i, MaxDiff, 100)
        <4>1. /\ Cmp!Finite(o.real[i]) /\ Cmp!Finite(o.expect[i])
              /\ Distance(o.real[i], o.expect[i]) >= DiffThd
          OBVIOUS
        <4> HIDE DEF off
        <4> QED BY <3>1, <4>1, ElementOff
      <3> QED BY <2>1, <3>2 DEF Cmp!TooFar
    <2>3. Cmp!Cardinality(off) = Cardinality(off) /\ off \in SUBSET (1 .. n)
      BY <1>1 DEF Cmp!Cardinality, Cardinality
    <2>4. Cardinality(off) \in Nat
      <3>1. IsFiniteSet(1 .. n)
        BY <1>1, FS_Interval
      <3>2. IsFiniteSet(off)
        BY <2>3, <3>1, FS_Subset
      <3> QED BY <3>2, FS_CardinalityType
    <2> HIDE DEF off
    <2>5. CASE n = 0
      <3>1. off = {}
        BY <2>3, <2>5
      <3>2. Cardinality(off) = 0
        BY <3>1, FS_EmptySet
      <3>3. Cmp!Verdict(o) = "Pass"
        BY <1>1, <1>6, <2>5 DEF Cmp!Verdict
      <3> QED BY <1>4, <1>6, <2>3, <2>5, <3>1, <3>2, <3>3, CmpAssumption
    <2>6. CASE n # 0
      <3>1. Cmp!Verdict(o) = Cmp!ErrorPercent(o)
        BY <1>1, <1>6, <2>6 DEF Cmp!Verdict
      <3>2. 100 * (n - Cardinality(off)) >= (100 - PctThd) * n <=> 100 * Cardinality(off) <= PctThd * n
        BY <1>1, <2>4, ShareOfErrors, CmpAssumption
      <3>3. Cmp!ErrorPercent(o) = IF /\ 100 * (n - Cardinality(off)) >= (100 - PctThd) * n
                                     /\ ~Cmp!TooFar(o)
                                  THEN "Pass" ELSE "Failed"
        BY <2>1, <2>3 DEF Cmp!ErrorPercent
      <3> QED BY <1>4, <1>6, <2>2, <2>3, <3>1, <3>2, <3>3
    <2> QED BY <2>5, <2>6
  <1> QED BY <1>5, <1>6

\* Results are those of the outputs compared so far, in order; while an output
\* is reported, or could not be, its result is there already.
Results == {"Pass", "Failed", "skipped"}

CmpInv ==
  /\ outputs \in Seq(Outputs) /\ at \in Nat \ {0}
  /\ results \in Seq(Results)
  /\ Len(results) = IF part = -1 /\ error = "none" THEN at - 1 ELSE at
  /\ command = "compare" => error = "none"
  /\ command = "compare_by_path" => part = -1
  /\ \A k \in 1 .. Len(results) : results[k] \in {"skipped", Cmp!Verdict(outputs[k])}
  /\ part \in Int /\ Len(results) <= Len(outputs)

\* There are two verdicts.
LEMMA VerdictIsResult == \A o : Cmp!Verdict(o) \in {"Pass", "Failed"}
  <1> TAKE o
  <1>1. Cmp!ErrorPercent(o) \in {"Pass", "Failed"}
    BY DEF Cmp!ErrorPercent
  <1>2. CASE Len(o.real) = 0 /\ Len(o.expect) = 0
    BY <1>2 DEF Cmp!Verdict
  <1>3. CASE Len(o.real) # Len(o.expect)
    <2>1. ~(Len(o.real) = 0 /\ Len(o.expect) = 0)
      BY <1>3
    <2> QED BY <1>3, <2>1 DEF Cmp!Verdict
  <1>4. CASE ~(Len(o.real) = 0 /\ Len(o.expect) = 0) /\ ~(Len(o.real) # Len(o.expect))
    BY <1>1, <1>4 DEF Cmp!Verdict
  <1> QED BY <1>2, <1>3, <1>4

\* A result more.
LEMMA ResultAdded ==
  ASSUME CmpInv, part = -1, error = "none", at <= Len(outputs), UNCHANGED <<outputs, command>>,
         NEW v \in {"skipped", Cmp!Verdict(outputs[at])}, results' = Append(results, v),
         at' \in Nat \ {0}, part' \in Int,
         command = "compare" => error' = "none", command = "compare_by_path" => part' = -1,
         at' = IF part' = -1 /\ error' = "none" THEN at + 1 ELSE at
  PROVE  CmpInv'
  <1>1. v \in Results
    BY VerdictIsResult DEF Results
  <1>2. results' \in Seq(Results) /\ Len(results') = Len(results) + 1 /\ Len(results) = at - 1
    BY <1>1 DEF CmpInv
  <1>3. \A k \in 1 .. Len(results') : results'[k] = IF k = at THEN v ELSE results[k]
    BY <1>1, <1>2 DEF CmpInv
  <1>4. \A k \in 1 .. Len(results') : results'[k] \in {"skipped", Cmp!Verdict(outputs[k])}
    <2> TAKE k \in 1 .. Len(results')
    <2>1. CASE k = at BY <1>3, <2>1
    <2>2. CASE k # at BY <1>2, <1>3, <2>2 DEF CmpInv
    <2> QED BY <2>1, <2>2
  <1>5. Len(outputs) \in Nat
    BY DEF CmpInv
  <1> QED BY <1>2, <1>4, <1>5 DEF CmpInv

\* What may be compared.
LEMMA OutputsGiven == \A os \in OutputLists \cup LaterLists : os \in Seq(Outputs) /\ Len(os) \in Nat
  <1>1. OutputLists \cup LaterLists \subseteq Seq(Outputs)
    BY CmpAssumption DEF Outputs
  <1> QED BY <1>1, LenProperties

\* Each step of the comparison keeps the results.
LEMMA CmpNext == CmpInv /\ Cmp!Next => CmpInv'
  <1> SUFFICES ASSUME CmpInv, Cmp!Next PROVE CmpInv'
    OBVIOUS
  <1>1. CASE Cmp!Compare
    <2>1. CASE Cmp!Reports(outputs[at])
      BY <1>1, <2>1, ResultAdded DEF CmpInv, Cmp!Compare
    <2>2. CASE ~Cmp!Reports(outputs[at])
      BY <1>1, <2>2, ResultAdded DEF CmpInv, Cmp!Compare
    <2> QED BY <2>1, <2>2
  <1>2. CASE Cmp!CompareByPath
    <2> DEFINE Skips == results' = Append(results, "skipped") /\ at' = at + 1 /\ UNCHANGED error
    <2>1. CASE Skips
      BY <1>2, <2>1, ResultAdded DEF CmpInv, Cmp!CompareByPath
    <2>2. CASE ~Skips /\ Cmp!Reports(outputs[at])
      BY <1>2, <2>2, ResultAdded DEF CmpInv, Cmp!CompareByPath
    <2>3. CASE ~Skips /\ ~Cmp!Reports(outputs[at])
      BY <1>2, <2>3, ResultAdded DEF CmpInv, Cmp!CompareByPath
    <2> QED BY <2>1, <2>2, <2>3
  <1>3. CASE Cmp!WriteCsv
    <2>1. part' \in Int /\ at' = IF part' = -1 THEN at + 1 ELSE at
      <3>1. CASE Cmp!Several /\ part + 1 < Cmp!Parts
        <4>1. part \in Int /\ part >= 0
          BY <1>3 DEF CmpInv, Cmp!WriteCsv
        <4>2. part' = part + 1 /\ at' = at
          BY <1>3, <3>1 DEF Cmp!WriteCsv
        <4> QED BY <4>1, <4>2
      <3>2. CASE ~(Cmp!Several /\ part + 1 < Cmp!Parts)
        BY <1>3, <3>2 DEF Cmp!WriteCsv
      <3> QED BY <3>1, <3>2
    <2>2. error' = "none" /\ part # -1 /\ UNCHANGED <<outputs, command, results>> /\ error = "none"
      BY <1>3 DEF CmpInv, Cmp!WriteCsv
    <2>3. Len(results) = at
      BY <2>2 DEF CmpInv
    <2>4. command # "compare_by_path"
      BY <2>2 DEF CmpInv
    <2> QED BY <2>1, <2>2, <2>3, <2>4 DEF CmpInv
  <1>4. CASE Cmp!NoPandas
    BY <1>4 DEF CmpInv, Cmp!NoPandas
  <1>5. CASE Cmp!NextCommand
    <2>1. outputs' \in Seq(Outputs) /\ Len(outputs') \in Nat
      BY <1>5, OutputsGiven DEF Cmp!NextCommand
    <2> QED BY <1>5, <2>1 DEF CmpInv, Cmp!NextCommand
  <1> QED BY <1>1, <1>2, <1>3, <1>4, <1>5 DEF Cmp!Next

\* Before the first output there are no results.
LEMMA CmpInit == Cmp!Init => CmpInv
  <1> SUFFICES ASSUME Cmp!Init PROVE CmpInv
    OBVIOUS
  <1>1. outputs \in Seq(Outputs) /\ Len(outputs) \in Nat
    BY OutputsGiven DEF Cmp!Init
  <1> QED BY <1>1 DEF CmpInv, Cmp!Init

\* Every result is the verdict on its output, and that is as it should be.
LEMMA VerdictHolds == CmpInv => Cmp!VerdictSound
  <1> SUFFICES ASSUME CmpInv, Cmp!LowFloor, NEW k \in 1 .. Len(results), results[k] # "skipped"
               PROVE  results[k] = "Pass" <=> Close(outputs[k])
    <2>1. DOMAIN results = 1 .. Len(results)
      BY DEF CmpInv
    <2> QED BY <2>1 DEF Cmp!VerdictSound, Close, Distance, Larger
  <1>1. k \in 1 .. Len(outputs)
    BY DEF CmpInv
  <1>2. outputs[k] \in Outputs
    BY <1>1 DEF CmpInv
  <1>3. results[k] = Cmp!Verdict(outputs[k])
    BY DEF CmpInv
  <1> QED BY <1>2, <1>3, VerdictMeans

\* What a quotient is.
LEMMA DivFacts ==
  ASSUME NEW m \in Nat, NEW c \in Nat \ {0}
  PROVE  m \div c \in Nat /\ (m \div c) * c <= m /\ m < (m \div c) * c + c
  OBVIOUS

\* A part has a row if and only if it is below the number of parts.
LEMMA PartsFacts ==
  ASSUME NEW n \in Nat, NEW c \in Nat \ {0}
  PROVE  LET parts == (n + c - 1) \div c
         IN  parts \in Nat /\ \A i \in Nat : i < parts <=> i * c < n
  <1> DEFINE parts == (n + c - 1) \div c
  <1>1. n + c - 1 \in Nat
    OBVIOUS
  <1>2. parts \in Nat /\ parts * c <= n + c - 1 /\ n + c - 1 < parts * c + c
    BY <1>1, DivFacts
  <1> HIDE DEF parts
  <1>3. \A i \in Nat : i < parts => i * c < n
    <2> SUFFICES ASSUME NEW i \in Nat, i < parts PROVE i * c < n
      OBVIOUS
    <2>1. c * (parts - (i + 1)) >= 0
      BY <1>2
    <2>2. c * (parts - (i + 1)) = parts * c - i * c - c /\ i * c \in Int /\ parts * c \in Int
      BY <1>2
    <2> QED BY <1>2, <2>1, <2>2
  <1>4. \A i \in Nat : ~(i < parts) => ~(i * c < n)
    <2> SUFFICES ASSUME NEW i \in Nat, i >= parts PROVE i * c >= n
      BY <1>2
    <2>1. c * (i - parts) >= 0
      BY <1>2
    <2>2. c * (i - parts) = i * c - parts * c /\ i * c \in Int /\ parts * c \in Int
      BY <1>2
    <2> QED BY <1>2, <2>1, <2>2
  <1> QED BY <1>2, <1>3, <1>4

\* The part of a report that begins at row i * CsvMaxLine is in its file.
Written(i) ==
  LET name == Cmp!Name(i, TRUE)
      rest == Len(rows) - i * CsvMaxLine
  IN  /\ name \in DOMAIN files
      /\ Len(files[name]) = IF rest < CsvMaxLine THEN rest ELSE CsvMaxLine
      /\ \A j \in 1 .. Len(files[name]) : files[name][j] = rows[i * CsvMaxLine + j]

\* The parts before the current one are written, and at the end all of them;
\* what a later file replaces is not part of this report.
ReportInv ==
  /\ rows = [k \in 1 .. Len(rows) |-> rows[k]] /\ Len(rows) \in Nat
  /\ command = "compare_by_path" => rows = <<>>
  /\ part >= 0 =>
       /\ part = 0 \/ Cmp!Several
       /\ Cmp!Several => part < Cmp!Parts /\ \A i \in 0 .. part - 1 : Written(i)
  /\ part < 0 /\ rows # <<>> =>
       IF Cmp!Several THEN \A i \in 0 .. Cmp!Parts - 1 : Written(i)
                      ELSE files[Cmp!Name(0, FALSE)] = rows

USE DEF Cmp!Name

\* How many files a report has.
LEMMA SizeOfReport ==
  ASSUME Len(rows) \in Nat
  PROVE  /\ Cmp!Several <=> Len(rows) > CsvMaxLine
         /\ Cmp!Parts \in Nat
         /\ \A i \in Nat : i < Cmp!Parts <=> i * CsvMaxLine < Len(rows)
  BY PartsFacts, CmpAssumption DEF Cmp!Several, Cmp!Parts

\* The rows that go into the file of a part.
LEMMA PartWritten ==
  ASSUME CmpInv, ReportInv, Cmp!WriteCsv, Cmp!Several
  PROVE  /\ part \in Nat /\ part < Cmp!Parts
         /\ \A i \in 0 .. part : Written(i)'
  <1>1. part \in Nat /\ part < Cmp!Parts
    BY DEF CmpInv, ReportInv, Cmp!WriteCsv
  <1> DEFINE name == Cmp!Name(part, TRUE)
             a == part * CsvMaxLine
             data == SubSeq(rows, a + 1, Cmp!PartEnd(part))
  <1>2. files' = [f \in DOMAIN files \cup {name} |-> IF f = name THEN data ELSE files[f]] /\ rows' = rows
    BY DEF Cmp!WriteCsv
  <1>3. a \in Nat /\ a < Len(rows) /\ Len(rows) \in Nat
    BY <1>1, SizeOfReport, CmpAssumption DEF ReportInv
  <1>4. (part + 1) * CsvMaxLine = a + CsvMaxLine
    BY <1>1, CmpAssumption
  <1>5. Cmp!PartEnd(part) = IF a + CsvMaxLine > Len(rows) THEN Len(rows) ELSE a + CsvMaxLine
    BY <1>4 DEF Cmp!PartEnd
  <1>6. rows \in Seq({rows[k] : k \in 1 .. Len(rows)})
    BY <1>3 DEF ReportInv
  <1>7. Cmp!PartEnd(part) \in a + 1 .. Len(rows)
    BY <1>3, <1>5, CmpAssumption
  <1> HIDE DEF a
  <1>8. /\ Len(data) = Cmp!PartEnd(part) - a
        /\ \A j \in 1 .. Len(data) : data[j] = rows[a + j]
    <2>1. Len(data) = Cmp!PartEnd(part) - (a + 1) + 1
      BY <1>3, <1>6, <1>7, SubSeqProperties
    <2>2. \A j \in 1 .. Cmp!PartEnd(part) - (a + 1) + 1 : data[j] = rows[(a + 1) + j - 1]
      BY <1>3, <1>6, <1>7, SubSeqProperties
    <2> QED BY <2>1, <2>2, <1>3, <1>7
  <1> HIDE DEF data
  <1>9. ASSUME NEW i \in 0 .. part, i = part PROVE Written(i)'
    <2>1. Len(data) = IF Len(rows) - a < CsvMaxLine THEN Len(rows) - a ELSE CsvMaxLine
      BY <1>3, <1>5, <1>8, CmpAssumption
    <2>2. i * CsvMaxLine = a /\ Cmp!Name(i, TRUE) = name
      BY <1>9 DEF a
    <2>3. name \in DOMAIN files' /\ files'[name] = data
      BY <1>2
    <2> HIDE DEF name
    <2> QED BY <1>2, <1>8, <2>1, <2>2, <2>3 DEF Written
  <1>10. ASSUME NEW i \in 0 .. part, i # part PROVE Written(i)'
    <2>1. Written(i)
      BY <1>1, <1>10 DEF ReportInv, CmpInv
    <2>2. Cmp!Name(i, TRUE) # name
      BY <1>1, <1>10
    <2> QED BY <1>2, <2>1, <2>2 DEF Written
  <1> QED BY <1>1, <1>9, <1>10

\* The errors of an output are counted.
LEMMA ErrorsCounted ==
  ASSUME NEW o \in Outputs
  PROVE  LET r == Cmp!ErrorRows(o) IN r = [k \in 1 .. Len(r) |-> r[k]] /\ Len(r) \in Nat
  <1>1. Cmp!ErrIdx(o) \in SUBSET (1 .. Len(o.real)) /\ Len(o.real) \in Nat
    BY DEF Cmp!ErrIdx, Cmp!DiffIndex, Outputs
  <1>2. IsFiniteSet(1 .. Len(o.real))
    BY <1>1, FS_Interval
  <1>3. IsFiniteSet(Cmp!ErrIdx(o))
    BY <1>1, <1>2, FS_Subset
  <1>4. Cmp!Cardinality(Cmp!ErrIdx(o)) \in Nat
    <2>1. Cmp!Cardinality(Cmp!ErrIdx(o)) = Cardinality(Cmp!ErrIdx(o))
      BY DEF Cmp!Cardinality, Cardinality
    <2> QED BY <1>3, <2>1, FS_CardinalityType
  <1> DEFINE r == Cmp!ErrorRows(o)
  <1>5. CASE Len(o.real) # Len(o.expect)
    <2>1. r = <<>>
      BY <1>5 DEF Cmp!ErrorRows
    <2> QED BY <2>1
  <1>6. CASE Len(o.real) = Len(o.expect)
    <2> DEFINE n == Cmp!Cardinality(Cmp!ErrIdx(o))
               f == [k \in 1 .. n |->
                       <<at, CHOOSE i \in Cmp!ErrIdx(o) :
                               Cmp!Cardinality({j \in Cmp!ErrIdx(o) : j <= i}) = k>>]
    <2>1. r = f
      BY <1>6 DEF Cmp!ErrorRows
    <2>2. n \in Nat /\ DOMAIN f = 1 .. n /\ f = [k \in 1 .. n |-> f[k]]
      BY <1>4
    <2> HIDE DEF n, f
    <2>3. Len(f) = n
      BY <2>2
    <2> QED BY <2>1, <2>2, <2>3
  <1> QED BY <1>5, <1>6

\* Each step of the comparison keeps the reports.
LEMMA ReportNext == CmpInv /\ ReportInv /\ Cmp!Next => ReportInv'
  <1> SUFFICES ASSUME CmpInv, ReportInv, Cmp!Next PROVE ReportInv'
    OBVIOUS
  <1>1. CASE Cmp!Compare
    <2>1. CASE Cmp!Reports(outputs[at])
      <3>1. rows' = Cmp!ErrorRows(outputs[at]) /\ part' = 0 /\ command' = "compare"
        BY <1>1, <2>1 DEF Cmp!Compare
      <3>2. outputs[at] \in Outputs
        BY <1>1 DEF Cmp!Compare, CmpInv
      <3>3. rows' = [k \in 1 .. Len(rows') |-> rows'[k]] /\ Len(rows') \in Nat
        BY <3>1, <3>2, ErrorsCounted
      <3>4. Cmp!Several' => 0 < Cmp!Parts'
        <4>1. Cmp!Several' => Len(rows') > CsvMaxLine
          BY DEF Cmp!Several
        <4>2. Cmp!Parts' = (Len(rows') + CsvMaxLine - 1) \div CsvMaxLine
          BY DEF Cmp!Parts
        <4>3. 0 < (Len(rows') + CsvMaxLine - 1) \div CsvMaxLine <=> 0 * CsvMaxLine < Len(rows')
          BY <3>3, PartsFacts, CmpAssumption
        <4> QED BY <3>3, <4>1, <4>2, <4>3, CmpAssumption
      <3> QED BY <3>1, <3>3, <3>4 DEF ReportInv
    <2>2. CASE ~Cmp!Reports(outputs[at])
      <3>1. UNCHANGED <<rows, part, files, command>>
        BY <1>1, <2>2 DEF Cmp!Compare
      <3> QED BY <3>1 DEF ReportInv, Written, Cmp!Several, Cmp!Parts
    <2> QED BY <2>1, <2>2
  <1>2. CASE Cmp!CompareByPath
    BY <1>2 DEF Cmp!CompareByPath, ReportInv, Written, Cmp!Several, Cmp!Parts
  <1>3. CASE Cmp!WriteCsv
    <2>1. UNCHANGED <<rows, command>> /\ part >= 0 /\ part \in Int
      BY <1>3 DEF Cmp!WriteCsv, CmpInv
    <2>2. CASE Cmp!Several
      <3>1. part \in Nat /\ part < Cmp!Parts /\ \A i \in 0 .. part : Written(i)'
        BY <1>3, <2>2, PartWritten
      <3>2. part' = IF part + 1 < Cmp!Parts THEN part + 1 ELSE -1
        BY <1>3, <2>2 DEF Cmp!WriteCsv
      <3>3. Cmp!Parts' = Cmp!Parts /\ Cmp!Several' = Cmp!Several /\ Cmp!Parts \in Nat
        BY <2>1, SizeOfReport DEF Cmp!Several, Cmp!Parts, ReportInv
      <3>4. CASE part + 1 < Cmp!Parts
        BY <2>1, <2>2, <3>1, <3>2, <3>3, <3>4 DEF ReportInv
      <3>5. CASE ~(part + 1 < Cmp!Parts)
        <4>1. \A i \in 0 .. Cmp!Parts - 1 : Written(i)'
          BY <3>1, <3>3, <3>5
        <4> QED BY <2>1, <2>2, <3>1, <3>2, <3>3, <3>5, <4>1 DEF ReportInv
      <3> QED BY <3>4, <3>5
    <2>3. CASE ~Cmp!Several
      <3>1. part = 0 /\ part' = -1
        BY <1>3, <2>1, <2>3 DEF Cmp!WriteCsv, ReportInv
      <3>2. files'[Cmp!Name(0, FALSE)] = rows
        BY <1>3, <2>3, <3>1 DEF Cmp!WriteCsv
      <3>3. ~Cmp!Several'
        BY <2>1, <2>3 DEF Cmp!Several
      <3> QED BY <2>1, <3>1, <3>2, <3>3 DEF ReportInv
    <2> QED BY <2>2, <2>3
  <1>4. CASE Cmp!NoPandas
    BY <1>4 DEF Cmp!NoPandas, ReportInv
  <1>5. CASE Cmp!NextCommand
    BY <1>5 DEF Cmp!NextCommand, ReportInv
  <1> QED BY <1>1, <1>2, <1>3, <1>4, <1>5 DEF Cmp!Next

\* A report of several files, when they are written.
LEMMA ReportHolds == CmpInv /\ ReportInv => Cmp!ReportComplete
  <1> SUFFICES ASSUME CmpInv, ReportInv, part = -1, rows # <<>>, Cmp!Several
               PROVE  /\ \A i \in 0 .. Cmp!Parts - 1 : Cmp!PartOf(i)
                      /\ \A k \in 1 .. Len(rows) : \E i \in 0 .. Cmp!Parts - 1 :
                           k - i * CsvMaxLine \in 1 .. Len(files[Cmp!Name(i, TRUE)])
    BY DEF Cmp!ReportComplete, ReportInv
  <1>1. Len(rows) \in Nat /\ Cmp!Parts \in Nat
    BY SizeOfReport DEF ReportInv
  <1>2. \A i \in 0 .. Cmp!Parts - 1 : i \in Nat /\ i * CsvMaxLine \in Nat /\ i * CsvMaxLine < Len(rows)
    BY <1>1, SizeOfReport, CmpAssumption
  <1>3. \A i \in 0 .. Cmp!Parts - 1 : Written(i)
    BY DEF ReportInv
  <1>4. ASSUME NEW i \in 0 .. Cmp!Parts - 1 PROVE Cmp!PartOf(i)
    <2> DEFINE w == i * CsvMaxLine
               f == files[Cmp!Name(i, TRUE)]
    <2>1. w \in Nat /\ w < Len(rows)
      BY <1>2
    <2>2. Cmp!Name(i, TRUE) \in DOMAIN files /\ \A j \in 1 .. Len(f) : f[j] = rows[i * CsvMaxLine + j]
      BY <1>3 DEF Written
    <2>3. Len(f) = IF Len(rows) - w < CsvMaxLine THEN Len(rows) - w ELSE CsvMaxLine
      BY <1>3 DEF Written
    <2> HIDE DEF w
    <2>4. Len(f) \in 1 .. CsvMaxLine
      BY <1>1, <2>1, <2>3, CmpAssumption
    <2> QED BY <2>2, <2>4 DEF Cmp!PartOf
  <1>5. ASSUME NEW k \in 1 .. Len(rows)
        PROVE  \E i \in 0 .. Cmp!Parts - 1 : k - i * CsvMaxLine \in 1 .. Len(files[Cmp!Name(i, TRUE)])
    <2> DEFINE i == (k - 1) \div CsvMaxLine
    <2>1. i \in Nat /\ i * CsvMaxLine <= k - 1 /\ k - 1 < i * CsvMaxLine + CsvMaxLine
      BY <1>1, DivFacts, CmpAssumption
    <2> HIDE DEF i
    <2>2. i \in 0 .. Cmp!Parts - 1 /\ i * CsvMaxLine \in Nat
      BY <1>1, <2>1, SizeOfReport, CmpAssumption
    <2>3. Len(files[Cmp!Name(i, TRUE)]) =
            IF Len(rows) - i * CsvMaxLine < CsvMaxLine THEN Len(rows) - i * CsvMaxLine ELSE CsvMaxLine
      BY <1>3, <2>2 DEF Written
    <2> DEFINE w == i * CsvMaxLine
    <2>4. w \in Nat /\ w <= k - 1 /\ k - 1 < w + CsvMaxLine
      BY <2>1, <2>2
    <2>5. Len(files[Cmp!Name(i, TRUE)]) = IF Len(rows) - w < CsvMaxLine THEN Len(rows) - w ELSE CsvMaxLine
      BY <2>3
    <2> HIDE DEF w
    <2>6. k - w \in 1 .. Len(files[Cmp!Name(i, TRUE)])
      BY <1>1, <2>4, <2>5, CmpAssumption
    <2>7. k - i * CsvMaxLine \in 1 .. Len(files[Cmp!Name(i, TRUE)])
      BY <2>6 DEF w
    <2> QED BY <2>2, <2>7
  <1> QED BY <1>4, <1>5

\* Before the first output is compared nothing has been reported.
LEMMA ReportInit == Cmp!Init => ReportInv
  BY DEF Cmp!Init, ReportInv

\* A step of another program leaves the comparison alone.
LEMMA CmpStep ==
  ASSUME program = "compare" => CmpInv /\ ReportInv, [Next]_vars
  PROVE  (program = "compare" => CmpInv /\ ReportInv)'
  <1>1. CASE UNCHANGED vars
    BY <1>1 DEF vars, shared, ownCmp, CmpInv, ReportInv, Written, Cmp!Several, Cmp!Parts
  <1>2. CASE Next
    BY <1>2, CmpNext, ReportNext DEF Next
  <1> QED BY <1>1, <1>2

\* For all outputs, thresholds and sizes of a file, and any number of
\* comparisons before it in the directory: an output passes if and only if it is
\* close enough, where the thresholds are not very small, and its report has
\* every error once and in order.
THEOREM CmpSafety == Spec => [](VerdictSound /\ ReportComplete)
  <1>1. Init => (program = "compare" => CmpInv /\ ReportInv)
    BY CmpInit, ReportInit DEF Init
  <1>2. (program = "compare" => CmpInv /\ ReportInv) => VerdictSound /\ ReportComplete
    BY VerdictHolds, ReportHolds DEF VerdictSound, ReportComplete
  <1> QED BY <1>1, <1>2, CmpStep, PTL DEF Spec

-----------------------------------------------------------------------------
(* CaseGenerator                                                            *)

IsList(s) == Len(s) \in Nat /\ s = [i \in 1 .. Len(s) |-> s[i]]

\* A case of the result was made of a layer of the model.
OfLayer(model, c) ==
  \E n \in Gen!ToSet(model) :
    /\ c.case_name = n.layer
    /\ Len(c.input_desc) = Len(n.input_shape) /\ Len(c.output_desc) = Len(n.output_shape)
    /\ \A j \in 1 .. Len(c.input_desc) : c.input_desc[j].shape = <<n.input_shape[j]>>
    /\ \A j \in 1 .. Len(c.output_desc) : c.output_desc[j].shape = <<n.output_shape[j]>>

\* Descriptions that no layer has been added to.
Blank(descs) ==
  Len(descs) \in Nat /\ \A j \in 1 .. Len(descs) : "shape" \in DOMAIN descs[j] /\ descs[j].shape = <<>>

\* There is no case before the model is read, and while it is read the base case
\* has no shapes.
GenInv ==
  /\ src \in Sources /\ at \in Nat \ {0}
  /\ IsList(op_info) /\ IsList(base_case_list)
  /\ pc = "py" => src.kind = "py"
  /\ pc \notin {"model", "write", "written", "raised", "crashed"} => base_case_list = <<>>
  /\ pc = "model" => /\ src.model \notin {ABSENT, FAILS}
                     /\ Blank(base_case.input_desc) /\ Blank(base_case.output_desc)
  /\ \A i \in 1 .. Len(base_case_list) :
       base_case_list[i] = base_case \/ OfLayer(src.model, base_case_list[i])

LEMMA LayersOf == GenInv => Gen!LayersApart
  BY DEF GenInv, OfLayer, Gen!LayersApart

LEMMA MappedList ==
  ASSUME NEW n \in Nat, NEW s, s = [i \in 1 .. n |-> s[i]]
  PROVE  Len(s) = n /\ IsList(s)
  <1> DEFINE T == {s[i] : i \in 1 .. n}
  <1>1. s \in [1 .. n -> T]
    OBVIOUS
  <1> HIDE DEF T
  <1>2. s \in Seq(T) /\ Len(s) = n
    BY <1>1
  <1> QED BY <1>2 DEF IsList

LEMMA ListOfSeq ==
  ASSUME NEW T, NEW s \in Seq(T)
  PROVE  IsList(s)
  BY DEF IsList

LEMMA SeqOfList ==
  ASSUME NEW s, IsList(s)
  PROVE  s \in Seq({s[i] : i \in 1 .. Len(s)})
  <1> DEFINE n == Len(s)
             T == {s[i] : i \in 1 .. n}
  <1>1. n \in Nat /\ s \in [1 .. n -> T]
    BY DEF IsList
  <1> HIDE DEF n, T
  <1>2. s \in Seq(T)
    BY <1>1
  <1> QED BY <1>2 DEF n, T

\* An entry is added behind the others.
LEMMA AppendedList ==
  ASSUME NEW s, IsList(s), NEW e
  PROVE  /\ IsList(Append(s, e)) /\ Len(Append(s, e)) = Len(s) + 1
         /\ \A i \in 1 .. Len(s) + 1 : Append(s, e)[i] = IF i <= Len(s) THEN s[i] ELSE e
  <1> DEFINE T == {s[i] : i \in 1 .. Len(s)} \cup {e}
  <1>1. s \in Seq({s[i] : i \in 1 .. Len(s)})
    BY SeqOfList
  <1>2. s \in Seq(T) /\ e \in T
    BY <1>1
  <1> HIDE DEF T
  <1>3. /\ Append(s, e) \in Seq(T) /\ Len(Append(s, e)) = Len(s) + 1
        /\ \A i \in 1 .. Len(s) : Append(s, e)[i] = s[i]
        /\ Append(s, e)[Len(s) + 1] = e
    BY <1>2, AppendProperties
  <1>4. IsList(Append(s, e))
    BY <1>3, ListOfSeq
  <1>5. ASSUME NEW i \in 1 .. Len(s) + 1
        PROVE  Append(s, e)[i] = IF i <= Len(s) THEN s[i] ELSE e
    <2> DEFINE n == Len(s)
    <2>1. n \in Nat
      BY DEF IsList
    <2>2. i \in 1 .. n \/ i = n + 1
      BY <2>1
    <2>3. i \in 1 .. n => i <= n
      BY <2>1
    <2>4. ~(n + 1 <= n)
      BY <2>1
    <2> QED BY <1>3, <2>2, <2>3, <2>4
  <1> QED BY <1>3, <1>4, <1>5

LEMMA PutList ==
  ASSUME NEW oi, IsList(oi), NEW key, NEW info
  PROVE  IsList(Gen!Put(oi, key, info))
  <1>1. CASE key \in Gen!Keys(oi)
    <2> DEFINE new == Gen!Put(oi, key, info)
               n == Len(oi)
    <2>1. n \in Nat /\ DOMAIN oi = 1 .. n
      BY DEF IsList
    <2>2. new = [i \in 1 .. n |-> new[i]]
      BY <1>1, <2>1 DEF Gen!Put
    <2> HIDE DEF new, n
    <2>3. IsList(new)
      BY <2>1, <2>2, MappedList
    <2> QED BY <2>3 DEF new
  <1>2. CASE key \notin Gen!Keys(oi)
    BY <1>2, AppendedList DEF Gen!Put
  <1> QED BY <1>1, <1>2

\* The entries of a kind.
LEMMA EntriesList ==
  ASSUME IsList(op_info), NEW kind
  PROVE  IsList(Gen!EntriesOf(kind)) /\ Len(Gen!EntriesOf(kind)) \in Nat
  <1> DEFINE found == {i \in 1 .. Len(op_info) : op_info[i].key[1] = kind}
             n == Gen!Cardinality(found)
             es == Gen!EntriesOf(kind)
  <1>1. n \in Nat
    <2>1. Len(op_info) \in Nat /\ found \subseteq 1 .. Len(op_info)
      BY DEF IsList
    <2>2. Gen!Cardinality(found) = Cardinality(found)
      BY DEF Gen!Cardinality, Cardinality
    <2> HIDE DEF found
    <2> QED BY <2>1, <2>2, FiniteOfInterval
  <1>2. es = [k \in 1 .. n |-> es[k]]
    BY DEF Gen!EntriesOf
  <1> HIDE DEF es, n
  <1>3. IsList(es) /\ Len(es) = n
    BY <1>1, <1>2, MappedList
  <1> QED BY <1>1, <1>3 DEF es

\* What the entries of a kind are described with has no shape.
LEMMA BlankDescs ==
  ASSUME IsList(op_info), NEW kind
  PROVE  Blank(Gen!AicoreBaseDescs(kind)) /\ Blank(Gen!AicpuBaseDescs(kind))
  <1> DEFINE es == Gen!EntriesOf(kind)
             n == Len(es)
             core == Gen!AicoreBaseDescs(kind)
             cpu == Gen!AicpuBaseDescs(kind)
  <1>1. n \in Nat
    BY EntriesList
  <1>2. Blank(core)
    <2>1. /\ core = [i \in 1 .. n |-> core[i]]
          /\ \A i \in 1 .. n : "shape" \in DOMAIN core[i] /\ core[i].shape = <<>>
      BY DEF Gen!AicoreBaseDescs, Gen!generate_desc
    <2> HIDE DEF core, n
    <2>2. Len(core) = n
      BY <1>1, <2>1, MappedList
    <2> QED BY <1>1, <2>1, <2>2 DEF Blank
  <1>3. Blank(cpu)
    <2>1. CASE es = <<>>
      BY <2>1 DEF Gen!AicpuBaseDescs, Gen!EmptyDesc, Blank
    <2>2. CASE es # <<>>
      <3>1. /\ cpu = [i \in 1 .. n |-> cpu[i]]
            /\ \A i \in 1 .. n : "shape" \in DOMAIN cpu[i] /\ cpu[i].shape = <<>>
        BY <2>2 DEF Gen!AicpuBaseDescs, Gen!generate_aicpu_op_desc
      <3> HIDE DEF cpu, n
      <3>2. Len(cpu) = n
        BY <1>1, <3>1, MappedList
      <3> QED BY <1>1, <3>1, <3>2 DEF Blank
    <2> QED BY <2>1, <2>2
  <1> QED BY <1>2, <1>3

\* The steps before there is a base case.
Before == {"check", "ini", "py", "op_info", "aicore", "aicpu", "proto", "clause", "aicpu_case"}

LEMMA GenKept ==
  ASSUME GenInv, UNCHANGED <<src, base_case, base_case_list>>, pc \in Before,
         pc' \in Before \cup {"raised", "crashed"}, pc' = "py" => src.kind = "py",
         IsList(op_info'), at' \in Nat \ {0}
  PROVE  GenInv'
  BY DEF GenInv, IsList, OfLayer, Blank, Before

\* The base case, with no shapes, and with it the only case or none.
LEMMA BaseMade ==
  ASSUME GenInv, pc \in Before, NEW ins, NEW outs, Blank(ins), Blank(outs),
         Gen!ToModel(Gen!BaseCase(ins, outs)), UNCHANGED <<src, op_info>>
  PROVE  GenInv'
  <1> DEFINE base == Gen!BaseCase(ins, outs)
  <1>1. base.input_desc = ins /\ base.output_desc = outs
    BY DEF Gen!BaseCase
  <1>2. base_case_list = <<>>
    BY DEF GenInv, Before
  <1>3. /\ base_case' = base /\ at' = 1
        /\ \/ base_case_list' = <<base>> /\ pc' = "write"
           \/ base_case_list' = <<>> /\ pc' = "raised"
           \/ base_case_list' = <<>> /\ pc' = "model" /\ src.model \notin {ABSENT, FAILS}
    BY <1>2 DEF Gen!ToModel, Gen!Goto, Gen!Raise
  <1> HIDE DEF base
  <1>4. IsList(<<base>>) /\ IsList(<<>>) /\ Len(<<base>>) = 1 /\ <<base>>[1] = base
    BY DEF IsList
  <1>5. IsList(base_case_list') /\ \A i \in 1 .. Len(base_case_list') : base_case_list'[i] = base_case'
    <2>1. CASE base_case_list' = <<base>>
      BY <1>3, <1>4, <2>1
    <2>2. CASE base_case_list' = <<>>
      BY <1>4, <2>2
    <2> QED BY <1>3, <2>1, <2>2
  <1>6. Blank(base_case'.input_desc) /\ Blank(base_case'.output_desc)
    BY <1>1, <1>3
  <1>7. src' \in Sources /\ IsList(op_info') /\ at' \in Nat \ {0} /\ pc' # "py"
    BY <1>3 DEF GenInv
  <1> QED BY <1>3, <1>5, <1>6, <1>7 DEF GenInv, Blank, IsList

LEMMA GenInit == Gen!Init => GenInv
  BY DEF Gen!Init, GenInv, IsList

\* The lines of an .ini file and the clauses of a header, one after the other.
LEMMA ReadStep == GenInv /\ (Gen!IniLine \/ Gen!ParseClause) => GenInv'
  <1> SUFFICES ASSUME GenInv, Gen!IniLine \/ Gen!ParseClause PROVE GenInv'
    OBVIOUS
  <1>1. IsList(op_info) /\ at \in Nat \ {0} /\ IsList(<<>>)
    BY DEF GenInv, IsList
  <1>2. /\ UNCHANGED <<src, base_case, base_case_list>> /\ at' = at + 1
        /\ pc \in {"ini", "clause"} /\ pc' \in {pc, "raised"}
        /\ op_info' \in {op_info, <<>>} \/ \E key, info : op_info' = Gen!Put(op_info, key, info)
    BY DEF Gen!IniLine, Gen!ParseClause, Gen!Raise, Gen!Goto, Gen!SectionInfo
  <1>3. IsList(op_info')
    BY <1>1, <1>2, PutList
  <1> QED BY <1>1, <1>2, <1>3, GenKept DEF Before

\* The operands and attributes of a MindSpore file are a list.
LEMMA ParsePyStep == GenInv /\ Gen!ParsePy => GenInv'
  <1> SUFFICES ASSUME GenInv, Gen!ParsePy PROVE GenInv'
    OBVIOUS
  <1> DEFINE ms == src.ms
             both == ms.inputs \o ms.outputs
             operands == [i \in 1 .. Len(both) |->
                            [key |-> <<IF i <= Len(ms.inputs) THEN "input" ELSE "output", i - 1>>,
                             info |-> [name |-> both[i].name, paramType |-> both[i].param_type,
                                       dtype |-> ms.dtypes[i]]]]
             attrs == [i \in 1 .. Len(ms.attr) |->
                         [key |-> <<"attr", ms.attr[i].name>>, info |-> ms.attr[i].info]]
  <1>1. /\ UNCHANGED <<src, at, base_case, base_case_list>> /\ pc = "py"
        /\ pc' \in {"raised", "crashed", "op_info"}
        /\ op_info' \in {op_info, Gen!MsEntries(ms)}
    BY DEF Gen!ParsePy, Gen!Raise, Gen!Goto
  <1>2. Len(both) \in Nat /\ Len(ms.attr) \in Nat
    <2>1. src \in Sources /\ src.kind = "py"
      BY <1>1 DEF GenInv
    <2> DEFINE a == ms.inputs
               b == ms.outputs
               c == ms.attr
               Of(l) == {l[i] : i \in 1 .. Len(l)}
    <2>2. a \in Seq(Of(a)) /\ b \in Seq(Of(b)) /\ c \in Seq(Of(c))
      BY <2>1, GenAssumption
    <2> HIDE DEF a, b, c, Of
    <2>3. a \in Seq(Of(a) \cup Of(b)) /\ b \in Seq(Of(a) \cup Of(b))
      BY <2>2
    <2>4. Len(a \o b) \in Nat /\ Len(c) \in Nat
      BY <2>2, <2>3
    <2> QED BY <2>4 DEF a, b, c
  <1>3. IsList(Gen!MsEntries(ms))
    <2>1. /\ operands = [i \in 1 .. Len(both) |-> operands[i]]
          /\ attrs = [i \in 1 .. Len(ms.attr) |-> attrs[i]]
      OBVIOUS
    <2>2. Gen!MsEntries(ms) = operands \o attrs
      BY DEF Gen!MsEntries
    <2> HIDE DEF operands, attrs, both, ms
    <2>3. IsList(operands) /\ IsList(attrs)
      BY <1>2, <2>1, MappedList
    <2> DEFINE Of(l) == {l[i] : i \in 1 .. Len(l)}
               T == Of(operands) \cup Of(attrs)
    <2>4. operands \in Seq(Of(operands)) /\ attrs \in Seq(Of(attrs))
      BY <2>3, SeqOfList
    <2> HIDE DEF Of
    <2>5. operands \in Seq(T) /\ attrs \in Seq(T)
      BY <2>4
    <2> HIDE DEF T
    <2>6. operands \o attrs \in Seq(T)
      BY <2>5
    <2> QED BY <2>2, <2>6, ListOfSeq
  <1>4. IsList(op_info')
    BY <1>1, <1>3 DEF GenInv
  <1> QED BY <1>1, <1>4, GenKept DEF Before, GenInv

\* An operand without types and formats is given empty ones.
LEMMA CheckOpInfoStep == GenInv /\ Gen!CheckOpInfo => GenInv'
  <1> SUFFICES ASSUME GenInv, Gen!CheckOpInfo PROVE GenInv'
    OBVIOUS
  <1>1. /\ UNCHANGED <<src, at, base_case, base_case_list>> /\ pc = "op_info"
        /\ pc' \in {"raised", "aicore"}
        /\ op_info' = op_info \/ op_info' = [i \in 1 .. Len(op_info) |-> op_info'[i]]
    BY DEF Gen!CheckOpInfo, Gen!Raise, Gen!Goto
  <1>2. IsList(op_info)
    BY DEF GenInv
  <1>3. IsList(op_info')
    <2>1. Len(op_info) \in Nat
      BY <1>2 DEF IsList
    <2> QED BY <1>1, <1>2, <2>1, MappedList
  <1> QED BY <1>1, <1>3, GenKept DEF Before, GenInv

\* A layer gives each description of the base case its own shape.
LEMMA LayerShapes ==
  ASSUME NEW descs, Blank(descs), NEW dtypes, NEW shapes
  PROVE  LET new == Gen!LayerDescs(descs, dtypes, shapes)
         IN  Len(new) = Len(descs) /\ \A j \in 1 .. Len(new) : new[j].shape = <<shapes[j]>>
  <1> DEFINE new == Gen!LayerDescs(descs, dtypes, shapes)
             n == Len(descs)
  <1>1. n \in Nat /\ \A j \in 1 .. n : "shape" \in DOMAIN descs[j] /\ descs[j].shape = <<>>
    BY DEF Blank
  <1>2. new = [i \in 1 .. n |-> new[i]] /\ \A j \in 1 .. n : new[j].shape = Append(<<>>, shapes[j])
    <2>1. ASSUME NEW j \in 1 .. n PROVE new[j].shape = Append(<<>>, shapes[j])
      <3> DEFINE d == [descs[j] EXCEPT !.shape = Append(@, shapes[j])]
      <3>1. "shape" \in DOMAIN d /\ d.shape = Append(<<>>, shapes[j])
        BY <1>1
      <3>2. new[j] = [d EXCEPT !.type = Gen!One(dtypes[j])]
        BY DEF Gen!LayerDescs
      <3> HIDE DEF d, new, n
      <3> QED BY <3>1, <3>2
    <2>2. new = [i \in 1 .. n |-> new[i]]
      BY DEF Gen!LayerDescs
    <2> QED BY <2>1, <2>2
  <1>3. \A e : Append(<<>>, e) = <<e>>
    OBVIOUS
  <1> HIDE DEF new, n
  <1>4. Len(new) = n
    BY <1>1, <1>2, MappedList
  <1>5. Len(new) = n /\ \A j \in 1 .. Len(new) : new[j].shape = <<shapes[j]>>
    BY <1>2, <1>3, <1>4
  <1> QED BY <1>5 DEF new, n

LEMMA CpuShapes ==
  ASSUME NEW dtypes, Len(dtypes) \in Nat, NEW shapes
  PROVE  LET new == Gen!AicpuDescs(dtypes, shapes)
         IN  Len(new) = Len(dtypes) /\ \A j \in 1 .. Len(new) : new[j].shape = <<shapes[j]>>
  <1> DEFINE new == Gen!AicpuDescs(dtypes, shapes)
             n == Len(dtypes)
  <1>1. new = [i \in 1 .. n |-> new[i]] /\ \A j \in 1 .. n : new[j].shape = <<shapes[j]>>
    BY DEF Gen!AicpuDescs
  <1> HIDE DEF new, n
  <1>2. Len(new) = n
    BY <1>1, MappedList DEF n
  <1>3. Len(new) = n /\ \A j \in 1 .. Len(new) : new[j].shape = <<shapes[j]>>
    BY <1>1, <1>2
  <1> QED BY <1>3 DEF new, n

\* The format of a layer leaves the shapes.
LEMMA FormatShapes ==
  ASSUME NEW descs, Len(descs) \in Nat, NEW apply
  PROVE  LET new == Gen!update_format_from_model(descs, apply)
         IN  Len(new) = Len(descs) /\ \A j \in 1 .. Len(new) : new[j].shape = descs[j].shape
  <1> DEFINE new == Gen!update_format_from_model(descs, apply)
             n == Len(descs)
             unchanged == Gen!NodeFormat = <<>> \/ ~apply
  <1>1. CASE unchanged
    BY <1>1 DEF Gen!update_format_from_model
  <1>2. CASE ~unchanged
    <2>1. new = [i \in 1 .. n |-> new[i]] /\ \A j \in 1 .. n : new[j].shape = descs[j].shape
      BY <1>2 DEF Gen!update_format_from_model
    <2> HIDE DEF new, n, unchanged
    <2>2. Len(new) = n
      BY <2>1, MappedList DEF n
    <2>3. Len(new) = n /\ \A j \in 1 .. Len(new) : new[j].shape = descs[j].shape
      BY <2>1, <2>2
    <2> QED BY <2>3 DEF new, n
  <1> QED BY <1>1, <1>2

\* The two descriptions of a case are replaced.
LEMMA RecordPut ==
  ASSUME NEW name, NEW mode, NEW attrs, NEW in, NEW out, NEW newIn, NEW newOut
  PROVE  LET new == [case_name |-> name, st_mode |-> mode, attr |-> attrs, input_desc |-> in, output_desc |-> out]
         IN  [new EXCEPT !.input_desc = newIn, !.output_desc = newOut]
             = [case_name |-> name, st_mode |-> mode, attr |-> attrs, input_desc |-> newIn, output_desc |-> newOut]
  <1> DEFINE new == [case_name |-> name, st_mode |-> mode, attr |-> attrs, input_desc |-> in, output_desc |-> out]
             one == [new EXCEPT !.input_desc = newIn]
  <1>1. one = [case_name |-> name, st_mode |-> mode, attr |-> attrs, input_desc |-> newIn, output_desc |-> out]
    OBVIOUS
  <1>2. ASSUME NEW r, r = [case_name |-> name, st_mode |-> mode, attr |-> attrs, input_desc |-> newIn, output_desc |-> out]
        PROVE  [r EXCEPT !.output_desc = newOut]
               = [case_name |-> name, st_mode |-> mode, attr |-> attrs, input_desc |-> newIn, output_desc |-> newOut]
    BY <1>2
  <1> QED BY <1>1, <1>2, Zenon

\* A layer that is not skipped adds a case of its own shapes; the base case
\* stays as it was.
LEMMA LayerStep == GenInv /\ Gen!ModelLayer => GenInv'
  <1> SUFFICES ASSUME GenInv, Gen!ModelLayer PROVE GenInv'
    OBVIOUS
  <1> DEFINE n == Gen!node
             any == base_case.attr # <<>>
             cpuIn == Gen!AicpuDescs(n.input_dtype, n.input_shape)
             cpuOut == Gen!AicpuDescs(n.output_dtype, n.output_shape)
             coreIn == Gen!LayerDescs(base_case.input_desc, n.input_dtype, n.input_shape)
             coreOut == Gen!LayerDescs(base_case.output_desc, n.output_dtype, n.output_shape)
  <1>1. /\ pc = "model" /\ at <= Len(src.model) /\ at' = at + 1 /\ UNCHANGED <<src, op_info, base_case>>
        /\ pc' \in {"model", "raised"}
    BY DEF Gen!ModelLayer, Gen!Raise, Gen!Goto, Gen!BaseAfter
  <1>2. /\ src \in Sources /\ src.model \notin {ABSENT, FAILS} /\ at \in Nat \ {0}
        /\ Blank(base_case.input_desc) /\ Blank(base_case.output_desc)
        /\ IsList(op_info) /\ IsList(base_case_list)
    BY <1>1 DEF GenInv
  <1>3. /\ n \in Gen!ToSet(src.model)
        /\ Len(n.input_shape) \in Nat /\ Len(n.input_dtype) = Len(n.input_shape)
        /\ Len(n.output_shape) \in Nat /\ Len(n.output_dtype) = Len(n.output_shape)
    <2> DEFINE m == src.model
               T == {m[i] : i \in 1 .. Len(m)}
    <2>1. m \in Seq(T)
      BY <1>2, GenAssumption
    <2> HIDE DEF T
    <2>2. at \in DOMAIN m
      BY <1>1, <1>2, <2>1
    <2> QED BY <1>2, <2>2, GenAssumption DEF Gen!node, Gen!ToSet
  <1>4. \/ UNCHANGED base_case_list
        \/ \E c, b : /\ base_case_list' = Append(base_case_list, c) /\ c.case_name = n.layer
                     /\ c.input_desc = Gen!update_format_from_model(cpuIn, b)
                     /\ c.output_desc = Gen!update_format_from_model(cpuOut, b)
        \/ \E c : /\ base_case_list' = Append(base_case_list, c) /\ c.case_name = n.layer
                  /\ c.input_desc = Gen!update_format_from_model(coreIn, any)
                  /\ c.output_desc = Gen!update_format_from_model(coreOut, any)
                  /\ Len(n.input_shape) = Len(base_case.input_desc)
                  /\ Len(n.output_shape) = Len(base_case.output_desc)
    <2>1. CASE Gen!Skipped
      BY <2>1 DEF Gen!ModelLayer
    <2>2. CASE ~Gen!Skipped /\ Gen!IsAicpuOp
      <3> DEFINE c == [case_name |-> n.layer, st_mode |-> FALSE, attr |-> <<>>,
                       input_desc |-> Gen!update_format_from_model(cpuIn, TRUE),
                       output_desc |-> Gen!update_format_from_model(cpuOut, TRUE)]
      <3>1. base_case_list' = Append(base_case_list, c)
        BY <2>2 DEF Gen!ModelLayer
      <3> HIDE DEF cpuIn, cpuOut, n
      <3>2. /\ c.case_name = n.layer
            /\ c.input_desc = Gen!update_format_from_model(cpuIn, TRUE)
            /\ c.output_desc = Gen!update_format_from_model(cpuOut, TRUE)
        OBVIOUS
      <3> QED BY <3>1, <3>2
    <2>3. CASE ~Gen!Skipped /\ ~Gen!IsAicpuOp
      <3>1. Len(n.input_shape) = Len(base_case.input_desc) /\ Len(n.output_shape) = Len(base_case.output_desc)
        BY <2>3 DEF Gen!Skipped
      <3> DEFINE c == [case_name |-> n.layer, st_mode |-> FALSE, attr |-> Gen!NodeAttrs,
                       input_desc |-> Gen!update_format_from_model(coreIn, any),
                       output_desc |-> Gen!update_format_from_model(coreOut, any)]
      <3>2. UNCHANGED base_case_list \/ base_case_list' = Append(base_case_list, c)
        <4> DEFINE new == [case_name |-> n.layer, st_mode |-> FALSE, attr |-> Gen!NodeAttrs,
                           input_desc |-> coreIn, output_desc |-> coreOut]
                   put == [new EXCEPT !.input_desc = Gen!update_format_from_model(@, any),
                                      !.output_desc = Gen!update_format_from_model(@, any)]
        <4>1. UNCHANGED base_case_list \/ base_case_list' = Append(base_case_list, put)
          BY <2>3 DEF Gen!ModelLayer
        <4> HIDE DEF coreIn, coreOut, n, any
        <4>2. put = c
          <5>1. new.input_desc = coreIn /\ new.output_desc = coreOut
            OBVIOUS
          <5>2. put = [[new EXCEPT !.input_desc = Gen!update_format_from_model(coreIn, any)]
                         EXCEPT !.output_desc = Gen!update_format_from_model(coreOut, any)]
            BY <5>1
          <5> HIDE DEF put, new
          <5> QED BY <5>2, RecordPut DEF new
        <4> QED BY <4>1, <4>2
      <3> HIDE DEF coreIn, coreOut, n, any
      <3>3. /\ c.case_name = n.layer
            /\ c.input_desc = Gen!update_format_from_model(coreIn, any)
            /\ c.output_desc = Gen!update_format_from_model(coreOut, any)
        OBVIOUS
      <3> QED BY <3>1, <3>2, <3>3
    <2> QED BY <2>1, <2>2, <2>3
  <1>5. CASE UNCHANGED base_case_list
    <2> QED BY <1>1, <1>2, <1>5 DEF GenInv, IsList, Blank
  <1>6. ASSUME NEW c, base_case_list' = Append(base_case_list, c), OfLayer(src.model, c)
        PROVE  GenInv'
    <2>1. /\ IsList(base_case_list') /\ Len(base_case_list') = Len(base_case_list) + 1
          /\ \A i \in 1 .. Len(base_case_list) + 1 :
               base_case_list'[i] = IF i <= Len(base_case_list) THEN base_case_list[i] ELSE c
      BY <1>2, <1>6, AppendedList
    <2>2. ASSUME NEW i \in 1 .. Len(base_case_list')
          PROVE  base_case_list'[i] = base_case' \/ OfLayer(src.model, base_case_list'[i])
      <3>1. Len(base_case_list) \in Nat
        BY <1>2 DEF IsList
      <3>2. CASE i <= Len(base_case_list)
        <4>1. i \in 1 .. Len(base_case_list) /\ base_case_list'[i] = base_case_list[i]
          BY <2>1, <2>2, <3>1, <3>2
        <4>2. base_case_list[i] = base_case \/ OfLayer(src.model, base_case_list[i])
          BY <4>1 DEF GenInv
        <4> QED BY <1>1, <4>1, <4>2
      <3>3. CASE ~(i <= Len(base_case_list))
        BY <1>6, <2>1, <2>2, <3>3
      <3> QED BY <3>2, <3>3
    <2> QED BY <1>1, <1>2, <2>1, <2>2 DEF GenInv, Blank, IsList
  <1>7. ASSUME NEW c, NEW b, base_case_list' = Append(base_case_list, c), c.case_name = n.layer,
               c.input_desc = Gen!update_format_from_model(cpuIn, b),
               c.output_desc = Gen!update_format_from_model(cpuOut, b)
        PROVE  GenInv'
    <2>1. /\ Len(cpuIn) = Len(n.input_shape) /\ \A j \in 1 .. Len(cpuIn) : cpuIn[j].shape = <<n.input_shape[j]>>
          /\ Len(cpuOut) = Len(n.output_shape) /\ \A j \in 1 .. Len(cpuOut) : cpuOut[j].shape = <<n.output_shape[j]>>
      BY <1>3, CpuShapes
    <2> HIDE DEF cpuIn, cpuOut, n
    <2>2. /\ Len(c.input_desc) = Len(cpuIn) /\ \A j \in 1 .. Len(c.input_desc) : c.input_desc[j].shape = cpuIn[j].shape
          /\ Len(c.output_desc) = Len(cpuOut) /\ \A j \in 1 .. Len(c.output_desc) : c.output_desc[j].shape = cpuOut[j].shape
      BY <1>3, <1>7, <2>1, FormatShapes
    <2>3. OfLayer(src.model, c)
      BY <1>3, <1>7, <2>1, <2>2 DEF OfLayer
    <2> QED BY <1>6, <1>7, <2>3
  <1>8. ASSUME NEW c, base_case_list' = Append(base_case_list, c), c.case_name = n.layer,
               c.input_desc = Gen!update_format_from_model(coreIn, any),
               c.output_desc = Gen!update_format_from_model(coreOut, any),
               Len(n.input_shape) = Len(base_case.input_desc),
               Len(n.output_shape) = Len(base_case.output_desc)
        PROVE  GenInv'
    <2>1. /\ Len(coreIn) = Len(n.input_shape) /\ \A j \in 1 .. Len(coreIn) : coreIn[j].shape = <<n.input_shape[j]>>
          /\ Len(coreOut) = Len(n.output_shape) /\ \A j \in 1 .. Len(coreOut) : coreOut[j].shape = <<n.output_shape[j]>>
      BY <1>2, <1>8, LayerShapes
    <2> HIDE DEF coreIn, coreOut, n, any
    <2>2. /\ Len(c.input_desc) = Len(coreIn) /\ \A j \in 1 .. Len(c.input_desc) : c.input_desc[j].shape = coreIn[j].shape
          /\ Len(c.output_desc) = Len(coreOut) /\ \A j \in 1 .. Len(c.output_desc) : c.output_desc[j].shape = coreOut[j].shape
      BY <1>3, <1>8, <2>1, FormatShapes
    <2>3. OfLayer(src.model, c)
      BY <1>3, <1>8, <2>1, <2>2 DEF OfLayer
    <2> QED BY <1>6, <1>8, <2>3
  <1> HIDE DEF n, any, cpuIn, cpuOut, coreIn, coreOut
  <1> QED BY <1>4, <1>5, <1>7, <1>8

\* One case for each step of a command.
LEMMA GenNext == GenInv /\ Gen!Next => GenInv'
  <1> SUFFICES ASSUME GenInv, Gen!Next PROVE GenInv'
    OBVIOUS
  <1>1. CASE \/ Gen!CheckArgumentValid \/ Gen!IniEnds \/ Gen!CheckIniTypes
             \/ Gen!FindAicpuOpProto \/ Gen!ClausesEnd
    <2>1. /\ UNCHANGED <<src, op_info, base_case, base_case_list>> /\ at' \in {1, at}
          /\ pc \in Before /\ pc' \in Before \cup {"raised"} /\ (pc' = "py" => src.kind = "py")
      BY <1>1 DEF Gen!CheckArgumentValid, Gen!IniEnds, Gen!CheckIniTypes, Gen!FindAicpuOpProto,
        Gen!ClausesEnd, Gen!Goto, Gen!Raise, Before
    <2> QED BY <2>1, GenKept DEF GenInv
  <1>2. CASE Gen!GenerateAicoreBaseCase \/ Gen!GenerateAicpuBaseCase
    <2>1. /\ UNCHANGED <<src, op_info>> /\ pc \in Before
          /\ \/ UNCHANGED <<at, base_case, base_case_list>> /\ pc' \in {"raised", "crashed"}
             \/ Gen!ToModel(Gen!BaseCase(Gen!AicoreBaseDescs("input"), Gen!AicoreBaseDescs("output")))
             \/ Gen!ToModel(Gen!BaseCase(Gen!AicpuBaseDescs("input"), Gen!AicpuBaseDescs("output")))
      BY <1>2 DEF Gen!GenerateAicoreBaseCase, Gen!GenerateAicpuBaseCase, Gen!Goto, Gen!Raise, Before
    <2>2. \A kind : Blank(Gen!AicoreBaseDescs(kind)) /\ Blank(Gen!AicpuBaseDescs(kind))
      BY BlankDescs DEF GenInv
    <2>3. IsList(op_info) /\ at \in Nat \ {0}
      BY DEF GenInv
    <2> QED BY <2>1, <2>2, <2>3, GenKept, BaseMade
  <1>3. CASE Gen!ModelEnds \/ Gen!Write
    <2>1. /\ UNCHANGED <<src, at, op_info, base_case>> /\ pc' \in {"write", "written", "raised"}
          /\ base_case_list' \in {base_case_list, <<base_case>>}
      BY <1>3 DEF Gen!ModelEnds, Gen!Write, Gen!Goto, Gen!Raise
    <2>2. IsList(<<base_case>>) /\ Len(<<base_case>>) = 1 /\ <<base_case>>[1] = base_case
      BY DEF IsList
    <2>3. CASE base_case_list' = base_case_list
      BY <2>1, <2>3 DEF GenInv, IsList
    <2>4. CASE base_case_list' = <<base_case>>
      BY <2>1, <2>2, <2>4 DEF GenInv, IsList
    <2> QED BY <2>1, <2>3, <2>4
  <1> QED BY <1>1, <1>2, <1>3, ReadStep, ParsePyStep, CheckOpInfoStep, LayerStep DEF Gen!Next

\* A step of another program leaves the generator alone.
LEMMA GenStep ==
  ASSUME program = "generate" => GenInv, [Next]_vars
  PROVE  (program = "generate" => GenInv)'
  <1>1. CASE UNCHANGED vars
    BY <1>1 DEF vars, shared, ownGen, GenInv, IsList, Blank, OfLayer
  <1>2. CASE Next
    BY <1>2, GenNext DEF Next
  <1> QED BY <1>1, <1>2

\* For all descriptions of operators, headers and models: a case that was made
\* of a layer has the shapes of this layer alone.
THEOREM GenSafety == Spec => []LayersApart
  <1>1. Init => (program = "generate" => GenInv)
    BY GenInit DEF Init
  <1>2. (program = "generate" => GenInv) => LayersApart
    BY LayersOf DEF LayersApart
  <1> QED BY <1>1, <1>2, GenStep, PTL DEF Spec

=============================================================================
