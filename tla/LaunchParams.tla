---------------------------- MODULE LaunchParams ----------------------------
(***************************************************************************)
(* What a launch makes of its parameter block before it computes: the      *)
(* limits and the search for a session in device_cpu_kernel.cc, then        *)
(* ParseIoAddr, ParseExtMsg and the count checks of UpdateTensor in         *)
(* cpu_kernel_cache.cc.  All of it runs on one thread; a step is one        *)
(* function, or one entry of the extend info.                              *)
(*                                                                         *)
(* The extend info is a list of entries [type, ok, arg]: ok says that the   *)
(* length is the one the type must have, arg is what the payload says.      *)
(* FWKAdapter, which lays the entries out, is external: it puts at most one *)
(* entry of a type in a list.                                              *)
(***************************************************************************)
EXTENDS Naturals, Sequences

CONSTANTS Entries,               \* the entries a list may have
          MaxEntries,            \* bound on their number
          ParamLengths,          \* values of AicpuParamHead.length
          IoAddrNums,            \* values of AicpuParamHead.ioAddrNum
          Word,                  \* a uint32_t is a number below Word
          HeadSize,              \* sizeof(AicpuParamHead)
          kMaxParamLen, kMaxIoAddrNumParamLen,
          kMaxExtendLen,         \* the limit on the list, in entries
          Inputs, Outputs        \* tensors of the kernel's NodeDef

ASSUME SizesAssumption ==
  /\ Word \in Nat /\ HeadSize \in 1 .. Word - 1
  /\ kMaxParamLen \in 0 .. Word - 1
  /\ kMaxIoAddrNumParamLen \in Nat /\ 8 * kMaxIoAddrNumParamLen < Word
  /\ ParamLengths \subseteq 0 .. Word - 1 /\ IoAddrNums \subseteq 0 .. Word - 1

\* FWKAdapter gives a kernel without inputs, or without outputs, no shapes of any.
ASSUME EntriesAssumption ==
  /\ MaxEntries \in Nat /\ Inputs \in Nat /\ Outputs \in Nat
  /\ Entries \subseteq [type : STRING, ok : BOOLEAN, arg : Nat]
  /\ \A e \in Entries :
       /\ Inputs = 0 /\ e.type = "INPUT_SHAPE" => e.arg = 0
       /\ Outputs = 0 /\ e.type = "OUTPUT_SHAPE" => e.arg = 0

\* The difference of two uint32_t, which wraps around.
Minus32(a, b) == IF b <= a THEN a - b ELSE a + Word - b

VARIABLES ext, length, ioAddrNum,   \* the parameter block
          phase, ret,
          session,                  \* the SessionInfo* of RunCpuKernel
          io,                       \* bytes the io addresses and nodedef_len take
          at, msg                   \* the entry ParseExtMsg is at; ExtInfoMsg

param == <<ext, length, ioAddrNum>>
vars == <<ext, length, ioAddrNum, phase, ret, session, io, at, msg>>

Unique(l) == \A i, j \in DOMAIN l : l[i].type = l[j].type => i = j

NewMsg ==
  [has_sess_info |-> FALSE, kernel_id |-> 0, unknown_shape |-> FALSE,
   async_flag |-> FALSE, wait |-> 0, devicetype_host_flag |-> FALSE,
   input_shapes |-> 0, output_shapes |-> 0, input_index |-> {}, output_index |-> {}]

Init ==
  /\ \E n \in 0 .. MaxEntries : ext \in [1 .. n -> Entries]
  /\ Unique(ext)
  /\ length \in ParamLengths /\ ioAddrNum \in IoAddrNums
  /\ phase = "limits" /\ ret = "ok" /\ session = <<>> /\ io = 0
  /\ at = 1 /\ msg = NewMsg

Refuse == ret' = "invalid" /\ phase' = "done"

CheckLimits_NoMinimum ==
  /\ phase = "limits"
  /\ IF length > kMaxParamLen \/ Len(ext) > kMaxExtendLen
     THEN Refuse ELSE phase' = "session" /\ UNCHANGED ret
  /\ UNCHANGED <<param, session, io, at, msg>>
CheckLimits ==
  /\ phase = "limits"
  /\ IF length < HeadSize \/ length > kMaxParamLen \/ Len(ext) > kMaxExtendLen
     THEN Refuse ELSE phase' = "session" /\ UNCHANGED ret
  /\ UNCHANGED <<param, session, io, at, msg>>

OfType(type) == {i \in DOMAIN ext : ext[i].type = type}

\* RunCpuKernel's own walk, which stops at the first session info.
ParseExtSessionInfo ==
  /\ phase = "session"
  /\ IF OfType("SESSION_INFO") = {}
     THEN phase' = "io" /\ UNCHANGED <<ret, session>>
     ELSE LET i == CHOOSE j \in OfType("SESSION_INFO") :
                     \A k \in OfType("SESSION_INFO") : j <= k
          IN  IF ext[i].ok
              THEN session' = <<ext[i].arg>> /\ phase' = "io" /\ UNCHANGED ret
              ELSE Refuse /\ UNCHANGED session
  /\ UNCHANGED <<param, io, at, msg>>

\* io_addrs, 8 bytes each, then nodedef_len, 4 bytes, after the head.
ParseIoAddr ==
  LET extend_param_len == Minus32(length, HeadSize)
      addr_len == (8 * ioAddrNum) % Word
  IN  /\ phase = "io"
      /\ IF \/ ioAddrNum > kMaxIoAddrNumParamLen
            \/ extend_param_len < addr_len
            \/ Minus32(extend_param_len, addr_len) < 4
         THEN Refuse /\ UNCHANGED io
         ELSE io' = addr_len + 4 /\ phase' = "ext" /\ UNCHANGED ret
      /\ UNCHANGED <<param, session, at, msg>>

ShapesRefused(m, e) == m.unknown_shape /\ ~e.ok

\* The entries ParseExtMsg refuses; of an unknown type it refuses none, and
\* shapes are not looked at unless the shape was said to be unknown before.
Refused(m, e) ==
  IF e.type \in {"INPUT_SHAPE", "OUTPUT_SHAPE"} THEN ShapesRefused(m, e)
                                               ELSE e.type # "OTHER" /\ ~e.ok

ParseExtBitMap_OnlySets(m, e) == [m EXCEPT !.unknown_shape = @ \/ e.arg = 0]
ParseExtBitMap(m, e) == [m EXCEPT !.unknown_shape = (e.arg = 0)]

ParseExtSession_NoFlag(m, e) == [m EXCEPT !.kernel_id = e.arg]
ParseExtSession(m, e) == [m EXCEPT !.has_sess_info = TRUE, !.kernel_id = e.arg]

\* Wait types: 0 is FWK_ADPT_WAIT_TYPE_NULL, 2 FWK_ADPT_WAIT_TYPE_INVALID.
ParseAsyncWait(m, e) ==
  [m EXCEPT !.wait = e.arg, !.async_flag = @ \/ e.arg \notin {0, 2}]

ParseEntry(m, e) ==
  CASE e.type = "SHAPE_TYPE" -> [m EXCEPT !.unknown_shape = TRUE]
    [] e.type = "INPUT_SHAPE" -> IF m.unknown_shape THEN [m EXCEPT !.input_shapes = @ + e.arg] ELSE m
    [] e.type = "OUTPUT_SHAPE" -> IF m.unknown_shape THEN [m EXCEPT !.output_shapes = @ + e.arg] ELSE m
    [] e.type = "SESSION_INFO" -> ParseExtSession(m, e)
    [] e.type = "BITMAP" -> ParseExtBitMap(m, e)
    [] e.type = "TOPIC_TYPE" -> [m EXCEPT !.devicetype_host_flag = (e.arg = 1)]
    [] e.type = "ASYNCWAIT" -> ParseAsyncWait(m, e)
    [] e.type = "UNKNOWN_SHAPE_INPUT_INDEX" -> [m EXCEPT !.input_index = @ \cup {e.arg}]
    [] e.type = "UNKNOWN_SHAPE_OUTPUT_INDEX" -> [m EXCEPT !.output_index = @ \cup {e.arg}]
    [] OTHER -> m

ParseExtMsg ==
  /\ phase = "ext"
  /\ IF at > Len(ext)
     THEN phase' = "tensors" /\ UNCHANGED <<ret, at, msg>>
     ELSE IF Refused(msg, ext[at])
          THEN Refuse /\ UNCHANGED <<at, msg>>
          ELSE msg' = ParseEntry(msg, ext[at]) /\ at' = at + 1 /\ UNCHANGED <<phase, ret>>
  /\ UNCHANGED <<param, session, io>>

CountsMatch_Addresses == ioAddrNum = Inputs + Outputs
\* The head of UpdateTensor: addresses for all tensors and, when the shape is
\* unknown, a shape for each.
CountsMatch ==
  /\ ioAddrNum = Inputs + Outputs
  /\ msg.unknown_shape => msg.input_shapes = Inputs /\ msg.output_shapes = Outputs

UpdateTensor ==
  /\ phase = "tensors"
  /\ IF CountsMatch THEN phase' = "done" /\ UNCHANGED ret ELSE Refuse
  /\ UNCHANGED <<param, session, io, at, msg>>

Next == CheckLimits \/ ParseExtSessionInfo \/ ParseIoAddr \/ ParseExtMsg \/ UpdateTensor
Spec == Init /\ [][Next]_vars

-----------------------------------------------------------------------------
Accepted == phase = "done" /\ ret = "ok"

\* The two walks over the extend info agree: a launch looks in a cache for a
\* kernel id if and only if RunCpuKernel chose the cache of a session info,
\* and both are from the same one.
WalksAgree ==
  Accepted => IF session = <<>> THEN ~msg.has_sess_info
                              ELSE msg.has_sess_info /\ msg.kernel_id = session[1]

\* The meaning of a list, whatever the order of its entries: the later of
\* SHAPE_TYPE and BITMAP decides whether the shape is unknown.
Arg(type, default) ==
  IF OfType(type) = {} THEN default ELSE ext[CHOOSE i \in OfType(type) : TRUE].arg
SaysUnknown ==
  \E i \in OfType("SHAPE_TYPE") \cup OfType("BITMAP") :
    /\ \A j \in OfType("SHAPE_TYPE") \cup OfType("BITMAP") : j <= i
    /\ ext[i].type = "BITMAP" => ext[i].arg = 0

\* An accepted list has been understood: an entry that came before the one it
\* depends on was not dropped without the launch being refused.
Understood ==
  Accepted =>
    /\ msg.unknown_shape = SaysUnknown
    /\ SaysUnknown => /\ msg.input_shapes = Arg("INPUT_SHAPE", 0)
                      /\ msg.output_shapes = Arg("OUTPUT_SHAPE", 0)
    /\ msg.async_flag = (Arg("ASYNCWAIT", 0) \notin {0, 2})
    /\ msg.devicetype_host_flag = (Arg("TOPIC_TYPE", 0) = 1)

\* The io addresses and the length of the NodeDef lie inside the block: no
\* difference of lengths has wrapped around.
InsideBlock == phase \in {"ext", "tensors"} \/ Accepted => HeadSize + io <= length

=============================================================================
