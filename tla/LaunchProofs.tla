---------------------------- MODULE LaunchProofs ----------------------------
(***************************************************************************)
(* Proofs about two parts of a launch that share no state.  Its parameter   *)
(* block (LaunchParams): for every width of a word and every limit below   *)
(* it, a launch that gets past ParseIoAddr has read inside the block; for   *)
(* every list of entries, a launch that is accepted has understood all of  *)
(* them.  Its wait for an asynchronous kernel (AsyncNotification), for     *)
(* every number of calls: the invariant is inductive with three additions, *)
(* who holds the mutex, which callbacks can be running, and what the flag   *)
(* says of the callback.                                                   *)
(***************************************************************************)
EXTENDS LaunchParams, AsyncNotification, SequenceTheorems, TLAPS

-----------------------------------------------------------------------------
(* Where the parameter block is read. *)

\* InsideBlock with what ParseIoAddr relies on: RunCpuKernel has compared the
\* length with that of the head, so the first difference does not wrap around.
BlockInv ==
  /\ length \in 0 .. Word - 1 /\ ioAddrNum \in 0 .. Word - 1
  /\ phase \in {"session", "io"} => HeadSize <= length
  /\ InsideBlock

\* A number of addresses within its limit takes up what it should: the product
\* in ParseIoAddr does not overflow.
LEMMA AddrLenExact ==
  ASSUME NEW n \in Nat, n <= kMaxIoAddrNumParamLen
  PROVE  (8 * n) % Word = 8 * n
  <1>1. 8 * n \in 0 .. Word - 1 BY SizesAssumption
  <1> QED BY <1>1, SizesAssumption

\* Every block starts outside the phases BlockInv speaks of.
LEMMA InitBlockInv == Init => BlockInv
  BY SizesAssumption DEF Init, BlockInv, InsideBlock, Accepted

\* One case per step of the launch; only ParseIoAddr does arithmetic.
LEMMA NextBlockInv == BlockInv /\ [Next]_vars => BlockInv'
  <1> SUFFICES ASSUME BlockInv, [Next]_vars PROVE BlockInv'
      OBVIOUS
  <1> USE DEF BlockInv, InsideBlock, Accepted
  <1>1. CASE CheckLimits
    BY <1>1, SizesAssumption DEF CheckLimits, Refuse, param
  <1>2. CASE ParseExtSessionInfo
    BY <1>2, SizesAssumption DEF ParseExtSessionInfo, Refuse, param
  <1>3. CASE ParseIoAddr
    <2>1. CASE ret' = "invalid" /\ phase' = "done"
      BY <1>3, <2>1 DEF ParseIoAddr, param
    <2>2. CASE ~(ret' = "invalid" /\ phase' = "done")
      <3>1. /\ ioAddrNum <= kMaxIoAddrNumParamLen
            /\ ~(Minus32(length, HeadSize) < (8 * ioAddrNum) % Word)
            /\ ~(Minus32(Minus32(length, HeadSize), (8 * ioAddrNum) % Word) < 4)
            /\ io' = ((8 * ioAddrNum) % Word) + 4
        BY <1>3, <2>2, SizesAssumption DEF ParseIoAddr, Refuse
      <3>2. (8 * ioAddrNum) % Word = 8 * ioAddrNum
        BY <3>1, AddrLenExact
      <3>3. HeadSize <= length
        BY <1>3 DEF ParseIoAddr
      <3>4. Minus32(length, HeadSize) = length - HeadSize
        BY <3>3 DEF Minus32
      <3>5. HeadSize + io' <= length
        BY <3>1, <3>2, <3>3, <3>4, SizesAssumption DEF Minus32
      <3> QED BY <1>3, <2>2, <3>5 DEF ParseIoAddr, Refuse, param
    <2> QED BY <2>1, <2>2
  <1>4. CASE ParseExtMsg
    BY <1>4, SizesAssumption DEF ParseExtMsg, Refuse, param
  <1>5. CASE UpdateTensor
    BY <1>5, SizesAssumption DEF UpdateTensor, Refuse, param
  <1>6. CASE UNCHANGED vars
    BY <1>6 DEF vars
  <1> QED BY <1>1, <1>2, <1>3, <1>4, <1>5, <1>6 DEF Next

\* The io addresses and the length of the NodeDef that ParseIoAddr reads lie
\* inside the block, for every width, limit, length and number of addresses.
THEOREM ReadsInsideBlock == Spec => []InsideBlock
  <1>1. BlockInv => InsideBlock BY DEF BlockInv
  <1> QED BY InitBlockInv, NextBlockInv, <1>1, PTL DEF Spec

-----------------------------------------------------------------------------
(* What the list of entries means. *)

Messages ==
  [has_sess_info : BOOLEAN, kernel_id : Nat, unknown_shape : BOOLEAN, async_flag : BOOLEAN,
   wait : Nat, devicetype_host_flag : BOOLEAN, input_shapes : Nat, output_shapes : Nat,
   input_index : SUBSET Nat, output_index : SUBSET Nat]

\* The entries of a type that ParseExtMsg has been past.
Before(type) == {i \in OfType(type) : i < at}
ShapesBefore == Before("SHAPE_TYPE") \cup Before("BITMAP")

\* What the latest of the entries in S says of the shape.
LastSaysUnknown(S) ==
  \E i \in S : (\A j \in S : j <= i) /\ (ext[i].type = "BITMAP" => ext[i].arg = 0)

\* The message means what the entries before `at` say.  The number of shapes
\* is that of an entry, or 0 when there is none or it was dropped.
SessionMeant ==
  IF Before("SESSION_INFO") = {} THEN ~msg.has_sess_info
  ELSE msg.has_sess_info /\ \A i \in Before("SESSION_INFO") : msg.kernel_id = ext[i].arg

ShapesMeant ==
  /\ Before("INPUT_SHAPE") = {} => msg.input_shapes = 0
  /\ \A i \in Before("INPUT_SHAPE") : msg.input_shapes \in {0, ext[i].arg}
  /\ Before("OUTPUT_SHAPE") = {} => msg.output_shapes = 0
  /\ \A i \in Before("OUTPUT_SHAPE") : msg.output_shapes \in {0, ext[i].arg}

FlagsMeant ==
  /\ Before("ASYNCWAIT") = {} => ~msg.async_flag
  /\ \A i \in Before("ASYNCWAIT") : msg.async_flag = (ext[i].arg \notin {0, 2})
  /\ Before("TOPIC_TYPE") = {} => ~msg.devicetype_host_flag
  /\ \A i \in Before("TOPIC_TYPE") : msg.devicetype_host_flag = (ext[i].arg = 1)

Meant ==
  SessionMeant /\ ShapesMeant /\ FlagsMeant /\ msg.unknown_shape = LastSaysUnknown(ShapesBefore)

\* What RunCpuKernel's own walk has found.
SessionFound ==
  \/ OfType("SESSION_INFO") = {} /\ session = <<>>
  \/ \E i \in OfType("SESSION_INFO") : session = <<ext[i].arg>>

\* The invariant of both walks over the list.
ListInv ==
  /\ ext \in Seq(Entries) /\ Unique(ext) /\ at \in 1 .. Len(ext) + 1 /\ msg \in Messages
  /\ phase \in {"limits", "session", "io"} => at = 1
  /\ phase \in {"limits", "session"} => session = <<>>
  /\ phase \in {"io", "ext", "tensors"} \/ Accepted => SessionFound
  /\ phase = "tensors" \/ Accepted => at = Len(ext) + 1
  /\ Accepted => CountsMatch
  /\ Meant

\* At most one entry of a list has a given type.
LEMMA OneOfType ==
  ASSUME ListInv, NEW type
  PROVE  /\ OfType(type) \subseteq 1 .. Len(ext)
         /\ \A i, j \in OfType(type) : i = j
         /\ \A i \in OfType(type) : ext[i] \in Entries /\ ext[i].arg \in Nat /\ ext[i].type = type
  <1>1. DOMAIN ext = 1 .. Len(ext) /\ \A i \in 1 .. Len(ext) : ext[i] \in Entries
    BY DEF ListInv
  <1>2. \A e \in Entries : e.arg \in Nat
    BY EntriesAssumption
  <1> QED BY <1>1, <1>2 DEF ListInv, Unique, OfType

\* Going past an entry adds it to those of its type and to no others.
LEMMA OneMore ==
  ASSUME ListInv, at \in 1 .. Len(ext), at' = at + 1, ext' = ext, NEW type
  PROVE  /\ OfType(type)' = OfType(type)
         /\ ext[at].type = type => Before(type)' = {at} /\ Before(type) = {}
         /\ ext[at].type # type => Before(type)' = Before(type)
  <1>1. OfType(type)' = OfType(type) /\ DOMAIN ext = 1 .. Len(ext)
    BY DEF OfType, ListInv
  <1>2. OfType(type) \subseteq 1 .. Len(ext) /\ \A i, j \in OfType(type) : i = j
    BY OneOfType
  <1>3. Before(type)' = {i \in OfType(type) : i < at + 1}
    BY <1>1 DEF Before
  <1>4. \A i \in OfType(type) : i < at + 1 <=> i < at \/ i = at
    BY <1>2
  <1>5. at \in OfType(type) <=> ext[at].type = type
    BY <1>1 DEF OfType
  <1> QED BY <1>1, <1>2, <1>3, <1>4, <1>5 DEF Before

\* What one entry changes in the message.
LEMMA EntryFields ==
  ASSUME NEW m \in Messages, NEW e \in Entries, NEW n, n = ParseEntry(m, e)
  PROVE  /\ n \in Messages
         /\ IF e.type = "SESSION_INFO" THEN n.has_sess_info /\ n.kernel_id = e.arg
            ELSE n.has_sess_info = m.has_sess_info /\ n.kernel_id = m.kernel_id
         /\ n.unknown_shape = CASE e.type = "SHAPE_TYPE" -> TRUE
                                [] e.type = "BITMAP" -> e.arg = 0
                                [] OTHER -> m.unknown_shape
         /\ n.input_shapes = IF e.type = "INPUT_SHAPE" /\ m.unknown_shape
                             THEN m.input_shapes + e.arg ELSE m.input_shapes
         /\ n.output_shapes = IF e.type = "OUTPUT_SHAPE" /\ m.unknown_shape
                              THEN m.output_shapes + e.arg ELSE m.output_shapes
         /\ n.async_flag = IF e.type = "ASYNCWAIT" THEN m.async_flag \/ e.arg \notin {0, 2}
                           ELSE m.async_flag
         /\ n.devicetype_host_flag = IF e.type = "TOPIC_TYPE" THEN e.arg = 1
                                     ELSE m.devicetype_host_flag
  <1>1. e.arg \in Nat
    BY EntriesAssumption
  <1> USE DEF ParseEntry, Messages
  <1>2. CASE e.type = "SHAPE_TYPE"
    BY <1>1, <1>2
  <1>3. CASE e.type = "INPUT_SHAPE"
    BY <1>1, <1>3
  <1>4. CASE e.type = "OUTPUT_SHAPE"
    BY <1>1, <1>4
  <1>5. CASE e.type = "SESSION_INFO"
    BY <1>1, <1>5 DEF ParseExtSession
  <1>6. CASE e.type = "BITMAP"
    BY <1>1, <1>6 DEF ParseExtBitMap
  <1>7. CASE e.type = "TOPIC_TYPE"
    BY <1>1, <1>7
  <1>8. CASE e.type = "ASYNCWAIT"
    BY <1>1, <1>8 DEF ParseAsyncWait
  <1>9. CASE e.type = "UNKNOWN_SHAPE_INPUT_INDEX"
    BY <1>1, <1>9
  <1>10. CASE e.type = "UNKNOWN_SHAPE_OUTPUT_INDEX"
    BY <1>1, <1>10
  <1>11. CASE e.type \notin {"SHAPE_TYPE", "INPUT_SHAPE", "OUTPUT_SHAPE", "SESSION_INFO", "BITMAP",
                "TOPIC_TYPE", "ASYNCWAIT", "UNKNOWN_SHAPE_INPUT_INDEX",
                "UNKNOWN_SHAPE_OUTPUT_INDEX"}
    BY <1>1, <1>11
  <1> QED BY <1>2, <1>3, <1>4, <1>5, <1>6, <1>7, <1>8, <1>9, <1>10, <1>11

\* An entry that is not refused leaves a message that means one entry more.
LEMMA MeantStep ==
  ASSUME ListInv, at \in 1 .. Len(ext), at' = at + 1, ext' = ext,
         msg' = ParseEntry(msg, ext[at])
  PROVE  Meant' /\ msg' \in Messages
  <1> DEFINE e == ext[at]
  <1>1. e \in Entries /\ msg \in Messages /\ e.arg \in Nat
    BY EntriesAssumption DEF ListInv
  <1>2. msg' = ParseEntry(msg, e)
    OBVIOUS
  <1>3. \A type : /\ e.type = type => Before(type)' = {at} /\ Before(type) = {}
                  /\ e.type # type => Before(type)' = Before(type)
    BY OneMore
  <1>4. \A type : \A i \in Before(type) : i < at /\ i \in Nat
    BY OneOfType DEF Before
  <1>5. e = ext[at] /\ Meant
    BY DEF ListInv
  <1> HIDE DEF e
  <1>6. /\ msg' \in Messages
        /\ IF e.type = "SESSION_INFO" THEN msg'.has_sess_info /\ msg'.kernel_id = e.arg
           ELSE msg'.has_sess_info = msg.has_sess_info /\ msg'.kernel_id = msg.kernel_id
        /\ msg'.unknown_shape = CASE e.type = "SHAPE_TYPE" -> TRUE
                                  [] e.type = "BITMAP" -> e.arg = 0
                                  [] OTHER -> msg.unknown_shape
        /\ msg'.input_shapes = IF e.type = "INPUT_SHAPE" /\ msg.unknown_shape
                               THEN msg.input_shapes + e.arg ELSE msg.input_shapes
        /\ msg'.output_shapes = IF e.type = "OUTPUT_SHAPE" /\ msg.unknown_shape
                                THEN msg.output_shapes + e.arg ELSE msg.output_shapes
        /\ msg'.async_flag = IF e.type = "ASYNCWAIT" THEN msg.async_flag \/ e.arg \notin {0, 2}
                             ELSE msg.async_flag
        /\ msg'.devicetype_host_flag = IF e.type = "TOPIC_TYPE" THEN e.arg = 1
                                       ELSE msg.devicetype_host_flag
    BY <1>1, <1>2, EntryFields
  <1>7. SessionMeant'
    <2>1. CASE e.type = "SESSION_INFO"
      BY <1>3, <1>5, <1>6, <2>1 DEF SessionMeant
    <2>2. CASE e.type # "SESSION_INFO"
      BY <1>3, <1>5, <1>6, <2>2 DEF Meant, SessionMeant
    <2> QED BY <2>1, <2>2
  <1>8. ShapesMeant'
    <2>1. /\ Before("INPUT_SHAPE")' = {} => msg'.input_shapes = 0
          /\ \A i \in Before("INPUT_SHAPE")' : msg'.input_shapes \in {0, ext[i].arg}
      <3>1. CASE e.type = "INPUT_SHAPE"
        <4>1. Before("INPUT_SHAPE") = {} /\ Before("INPUT_SHAPE")' = {at}
          BY <1>3, <3>1
        <4>2. msg.input_shapes = 0
          BY <1>5, <4>1 DEF Meant, ShapesMeant
        <4>3. msg'.input_shapes \in {0, e.arg}
          BY <1>1, <1>6, <3>1, <4>2
        <4> QED BY <1>5, <4>1, <4>3
      <3>2. CASE e.type # "INPUT_SHAPE"
        BY <1>3, <1>5, <1>6, <3>2 DEF Meant, ShapesMeant
      <3> QED BY <3>1, <3>2
    <2>2. /\ Before("OUTPUT_SHAPE")' = {} => msg'.output_shapes = 0
          /\ \A i \in Before("OUTPUT_SHAPE")' : msg'.output_shapes \in {0, ext[i].arg}
      <3>1. CASE e.type = "OUTPUT_SHAPE"
        <4>1. Before("OUTPUT_SHAPE") = {} /\ Before("OUTPUT_SHAPE")' = {at}
          BY <1>3, <3>1
        <4>2. msg.output_shapes = 0
          BY <1>5, <4>1 DEF Meant, ShapesMeant
        <4>3. msg'.output_shapes \in {0, e.arg}
          BY <1>1, <1>6, <3>1, <4>2
        <4> QED BY <1>5, <4>1, <4>3
      <3>2. CASE e.type # "OUTPUT_SHAPE"
        BY <1>3, <1>5, <1>6, <3>2 DEF Meant, ShapesMeant
      <3> QED BY <3>1, <3>2
    <2> QED BY <2>1, <2>2 DEF ShapesMeant
  <1>9. FlagsMeant'
    <2>1. /\ Before("ASYNCWAIT")' = {} => ~msg'.async_flag
          /\ \A i \in Before("ASYNCWAIT")' : msg'.async_flag = (ext[i].arg \notin {0, 2})
      <3>1. CASE e.type = "ASYNCWAIT"
        <4>1. Before("ASYNCWAIT") = {} /\ Before("ASYNCWAIT")' = {at}
          BY <1>3, <3>1
        <4>2. ~msg.async_flag
          BY <1>5, <4>1 DEF Meant, FlagsMeant
        <4> QED BY <1>1, <1>5, <1>6, <3>1, <4>1, <4>2
      <3>2. CASE e.type # "ASYNCWAIT"
        BY <1>3, <1>5, <1>6, <3>2 DEF Meant, FlagsMeant
      <3> QED BY <3>1, <3>2
    <2>2. /\ Before("TOPIC_TYPE")' = {} => ~msg'.devicetype_host_flag
          /\ \A i \in Before("TOPIC_TYPE")' : msg'.devicetype_host_flag = (ext[i].arg = 1)
      <3>1. CASE e.type = "TOPIC_TYPE"
        BY <1>3, <1>5, <1>6, <3>1
      <3>2. CASE e.type # "TOPIC_TYPE"
        BY <1>3, <1>5, <1>6, <3>2 DEF Meant, FlagsMeant
      <3> QED BY <3>1, <3>2
    <2> QED BY <2>1, <2>2 DEF FlagsMeant
  <1>10. msg'.unknown_shape = LastSaysUnknown(ShapesBefore)'
    <2>1. CASE e.type \in {"SHAPE_TYPE", "BITMAP"}
      <3>1. ShapesBefore' = ShapesBefore \cup {at}
        BY <1>3, <2>1 DEF ShapesBefore
      <3>2. \A i \in ShapesBefore : i < at /\ i \in Nat
        BY <1>4 DEF ShapesBefore
      <3>3. LastSaysUnknown(ShapesBefore)' <=> (e.type = "BITMAP" => e.arg = 0)
        <4>1. LastSaysUnknown(ShapesBefore)' <=>
                \E i \in ShapesBefore \cup {at} :
                  /\ \A j \in ShapesBefore \cup {at} : j <= i
                  /\ ext[i].type = "BITMAP" => ext[i].arg = 0
          BY <3>1 DEF LastSaysUnknown
        <4>2. at \in Nat
          BY DEF ListInv
        <4>3. \A i \in ShapesBefore \cup {at} :
                (\A j \in ShapesBefore \cup {at} : j <= i) <=> i = at
          BY <3>2, <4>2
        <4> QED BY <1>5, <4>1, <4>3
      <3>4. CASE e.type = "SHAPE_TYPE"
        BY <1>6, <3>3, <3>4 DEF LastSaysUnknown
      <3>5. CASE e.type = "BITMAP"
        BY <1>6, <3>3, <3>5 DEF LastSaysUnknown
      <3> QED BY <2>1, <3>4, <3>5
    <2>2. CASE e.type \notin {"SHAPE_TYPE", "BITMAP"}
      <3>1. ShapesBefore' = ShapesBefore
        BY <1>3, <2>2 DEF ShapesBefore
      <3>2. LastSaysUnknown(ShapesBefore)' = LastSaysUnknown(ShapesBefore)
        BY <3>1 DEF LastSaysUnknown
      <3> QED BY <1>5, <1>6, <2>2, <3>2 DEF Meant
    <2> QED BY <2>1, <2>2
  <1> QED BY <1>6, <1>7, <1>8, <1>9, <1>10 DEF Meant

\* Before the walks nothing is meant and nothing found.
LEMMA InitListInv == Init => ListInv
  <1> SUFFICES ASSUME Init PROVE ListInv
    OBVIOUS
  <1>1. ext \in Seq(Entries)
    <2>1. PICK n \in 0 .. MaxEntries : ext \in [1 .. n -> Entries]
      BY DEF Init
    <2>2. n \in Nat
      BY EntriesAssumption
    <2> QED BY <2>1, <2>2
  <1>2. at = 1 /\ at \in 1 .. Len(ext) + 1
    BY <1>1 DEF Init
  <1>3. \A type : Before(type) = {}
    <2>1. \A i \in DOMAIN ext : i \in Nat \ {0}
      BY <1>1
    <2> QED BY <1>2, <2>1 DEF Before, OfType
  <1>4. msg \in Messages
    BY DEF Init, NewMsg, Messages
  <1>5. Meant
    BY <1>3 DEF Init, NewMsg, Meant, SessionMeant, ShapesMeant, FlagsMeant, ShapesBefore,
      LastSaysUnknown
  <1> QED BY <1>1, <1>2, <1>4, <1>5 DEF Init, ListInv, Accepted

\* A step that leaves the list, the place in it and the message alone.
LEMMA MeantUnchanged ==
  ASSUME Meant, ext' = ext, at' = at, msg' = msg
  PROVE  Meant'
  <1>1. \A type : Before(type)' = Before(type)
    BY DEF Before, OfType
  <1> QED BY <1>1 DEF Meant, SessionMeant, ShapesMeant, FlagsMeant, ShapesBefore, LastSaysUnknown

\* The invariant is kept by each step of a launch.
LEMMA NextListInv == ListInv /\ [Next]_vars => ListInv'
  <1> SUFFICES ASSUME ListInv, [Next]_vars PROVE ListInv'
    OBVIOUS
  <1>0. ASSUME ext' = ext PROVE \A type : OfType(type)' = OfType(type)
    BY <1>0 DEF OfType
  <1>1. CASE CheckLimits
    BY <1>1, MeantUnchanged DEF CheckLimits, Refuse, param, ListInv, Accepted
  <1>2. CASE ParseExtSessionInfo
    <2>1. ext' = ext /\ at' = at /\ msg' = msg /\ phase = "session" /\ session = <<>>
      BY <1>2 DEF ParseExtSessionInfo, param, ListInv
    <2>2. CASE Refuse
      BY <1>2, <2>1, <2>2, MeantUnchanged DEF ParseExtSessionInfo, Refuse, ListInv, Accepted
    <2>3. CASE phase' = "io" /\ session' = session /\ OfType("SESSION_INFO") = {}
      BY <1>0, <2>1, <2>3, MeantUnchanged DEF ListInv, Accepted, SessionFound
    <2>4. CASE /\ OfType("SESSION_INFO") # {}
               /\ LET i == CHOOSE j \in OfType("SESSION_INFO") :
                             \A k \in OfType("SESSION_INFO") : j <= k
                  IN  session' = <<ext[i].arg>> /\ phase' = "io"
      <3>1. PICK i \in OfType("SESSION_INFO") : session' = <<ext[i].arg>>
        <4>1. PICK i \in OfType("SESSION_INFO") : TRUE
          BY <2>4
        <4>2. \A k \in OfType("SESSION_INFO") : i <= k
          BY OneOfType
        <4> QED BY <2>4, <4>1, <4>2
      <3> QED BY <1>0, <2>1, <2>4, <3>1, MeantUnchanged DEF ListInv, Accepted, SessionFound
    <2> QED BY <1>2, <2>2, <2>3, <2>4 DEF ParseExtSessionInfo
  <1>3. CASE ParseIoAddr
    <2>1. /\ ext' = ext /\ at' = at /\ msg' = msg /\ session' = session /\ phase = "io"
          /\ Refuse \/ phase' = "ext"
      BY <1>3 DEF ParseIoAddr, param
    <2> QED BY <1>0, <2>1, MeantUnchanged DEF Refuse, ListInv, Accepted, SessionFound
  <1>4. CASE ParseExtMsg
    <2>1. ext' = ext /\ session' = session /\ phase = "ext" /\ SessionFound'
      BY <1>0, <1>4 DEF ParseExtMsg, param, ListInv, SessionFound
    <2>2. CASE at > Len(ext) /\ phase' = "tensors" /\ at' = at /\ msg' = msg
      BY <2>1, <2>2, MeantUnchanged DEF ListInv, Accepted
    <2>3. CASE Refuse /\ at' = at /\ msg' = msg
      BY <2>1, <2>3, MeantUnchanged DEF Refuse, ListInv, Accepted
    <2>4. CASE at <= Len(ext) /\ msg' = ParseEntry(msg, ext[at]) /\ at' = at + 1
               /\ phase' = phase
      BY <2>1, <2>4, MeantStep DEF ListInv, Accepted
    <2>5. at > Len(ext) \/ at <= Len(ext)
      BY DEF ListInv
    <2> QED BY <1>4, <2>2, <2>3, <2>4, <2>5 DEF ParseExtMsg
  <1>5. CASE UpdateTensor
    <2>1. /\ ext' = ext /\ at' = at /\ msg' = msg /\ session' = session /\ phase = "tensors"
          /\ phase' = "done" /\ ioAddrNum' = ioAddrNum
          /\ CountsMatch \/ ret' = "invalid"
      BY <1>5 DEF UpdateTensor, param, Refuse
    <2> QED BY <1>0, <2>1, MeantUnchanged DEF ListInv, Accepted, SessionFound, CountsMatch
  <1>6. CASE UNCHANGED vars
    BY <1>0, <1>6, MeantUnchanged DEF vars, ListInv, Accepted, SessionFound, CountsMatch
  <1> QED BY <1>1, <1>2, <1>3, <1>4, <1>5, <1>6 DEF Next

\* For every list with one entry of a type at most, in every order: a launch
\* that is accepted looks in the cache of the session it has read of, and the
\* list has been understood as a whole.
THEOREM ListUnderstood == Spec => [](WalksAgree /\ Understood)
  <1>1. ASSUME ListInv, Accepted PROVE \A type : Before(type) = OfType(type)
    <2>1. at = Len(ext) + 1 /\ ext \in Seq(Entries)
      BY <1>1 DEF ListInv
    <2>2. \A type : \A i \in OfType(type) : i < at
      BY <1>1, <2>1, OneOfType
    <2> QED BY <2>2 DEF Before
  <1>2. ListInv => WalksAgree
    <2> SUFFICES ASSUME ListInv, Accepted
                 PROVE  IF session = <<>> THEN ~msg.has_sess_info
                        ELSE msg.has_sess_info /\ msg.kernel_id = session[1]
      BY DEF WalksAgree
    <2>1. SessionFound /\ SessionMeant
      BY DEF ListInv, Meant
    <2>2. Before("SESSION_INFO") = OfType("SESSION_INFO")
      BY <1>1
    <2>3. \A x : <<x>> # <<>> /\ <<x>>[1] = x
      OBVIOUS
    <2> QED BY <2>1, <2>2, <2>3 DEF SessionFound, SessionMeant
  <1>3. ListInv => Understood
    <2> SUFFICES ASSUME ListInv, Accepted
                 PROVE  /\ msg.unknown_shape = SaysUnknown
                        /\ SaysUnknown => /\ msg.input_shapes = Arg("INPUT_SHAPE", 0)
                                          /\ msg.output_shapes = Arg("OUTPUT_SHAPE", 0)
                        /\ msg.async_flag = (Arg("ASYNCWAIT", 0) \notin {0, 2})
                        /\ msg.devicetype_host_flag = (Arg("TOPIC_TYPE", 0) = 1)
      BY DEF Understood
    <2>1. \A type : Before(type) = OfType(type)
      BY <1>1
    <2>2. Meant /\ CountsMatch
      BY DEF ListInv
    <2>3. msg.unknown_shape = SaysUnknown
      BY <2>1, <2>2 DEF Meant, LastSaysUnknown, ShapesBefore, SaysUnknown
    <2>4. ASSUME NEW type, NEW d
          PROVE  IF OfType(type) = {} THEN Arg(type, d) = d
                 ELSE \E i \in OfType(type) : Arg(type, d) = ext[i].arg
      BY DEF Arg
    <2>5. ASSUME SaysUnknown PROVE msg.input_shapes = Arg("INPUT_SHAPE", 0)
      <3>1. msg.input_shapes = Inputs
        BY <2>2, <2>3, <2>5 DEF CountsMatch
      <3>2. CASE OfType("INPUT_SHAPE") = {}
        BY <2>1, <2>2, <2>4, <3>2 DEF Meant, ShapesMeant
      <3>3. CASE OfType("INPUT_SHAPE") # {}
        <4>1. PICK i \in OfType("INPUT_SHAPE") : Arg("INPUT_SHAPE", 0) = ext[i].arg
          BY <2>4, <3>3
        <4>2. msg.input_shapes \in {0, ext[i].arg}
          BY <2>1, <2>2 DEF Meant, ShapesMeant
        <4>3. Inputs = 0 => ext[i].arg = 0
          <5>1. ext[i] \in Entries /\ ext[i].type = "INPUT_SHAPE"
            BY OneOfType
          <5>2. \A e \in Entries : Inputs = 0 /\ e.type = "INPUT_SHAPE" => e.arg = 0
            BY EntriesAssumption
          <5> QED BY <5>1, <5>2
        <4> QED BY <3>1, <4>1, <4>2, <4>3
      <3> QED BY <3>2, <3>3
    <2>6. ASSUME SaysUnknown PROVE msg.output_shapes = Arg("OUTPUT_SHAPE", 0)
      <3>1. msg.output_shapes = Outputs
        BY <2>2, <2>3, <2>6 DEF CountsMatch
      <3>2. CASE OfType("OUTPUT_SHAPE") = {}
        BY <2>1, <2>2, <2>4, <3>2 DEF Meant, ShapesMeant
      <3>3. CASE OfType("OUTPUT_SHAPE") # {}
        <4>1. PICK i \in OfType("OUTPUT_SHAPE") : Arg("OUTPUT_SHAPE", 0) = ext[i].arg
          BY <2>4, <3>3
        <4>2. msg.output_shapes \in {0, ext[i].arg}
          BY <2>1, <2>2 DEF Meant, ShapesMeant
        <4>3. Outputs = 0 => ext[i].arg = 0
          <5>1. ext[i] \in Entries /\ ext[i].type = "OUTPUT_SHAPE"
            BY OneOfType
          <5>2. \A e \in Entries : Outputs = 0 /\ e.type = "OUTPUT_SHAPE" => e.arg = 0
            BY EntriesAssumption
          <5> QED BY <5>1, <5>2
        <4> QED BY <3>1, <4>1, <4>2, <4>3
      <3> QED BY <3>2, <3>3
    <2>7. msg.async_flag = (Arg("ASYNCWAIT", 0) \notin {0, 2})
      <3>1. msg.async_flag \in BOOLEAN
        BY DEF ListInv, Messages
      <3> QED BY <2>1, <2>2, <2>4, <3>1 DEF Meant, FlagsMeant
    <2>8. msg.devicetype_host_flag = (Arg("TOPIC_TYPE", 0) = 1)
      <3>1. msg.devicetype_host_flag \in BOOLEAN
        BY DEF ListInv, Messages
      <3> QED BY <2>1, <2>2, <2>4, <3>1 DEF Meant, FlagsMeant
    <2> QED BY <2>3, <2>5, <2>6, <2>7, <2>8
  <1> QED BY InitListInv, NextListInv, <1>2, <1>3, PTL DEF Spec

-----------------------------------------------------------------------------
(* The wait for an asynchronous kernel. *)

\* The inductive invariant holds at the start: no call, no callback.
LEMMA InitAsync == AsyncInit => IInv
  <1> SUFFICES ASSUME AsyncInit PROVE IInv
    OBVIOUS
  <1> USE MaxCallsAssumption DEF AsyncInit, Calls
  <1>1. TypeOK
    <2>1. alive \in BOOLEAN /\ notified \in BOOLEAN BY Zenon
    <2>2. call \in 0 .. MaxCalls BY SMT
    <2>3. QED BY <2>1, <2>2, Zenon DEF TypeOK
  <1>2. NoUseAfterFree BY DEF NoUseAfterFree
  <1>3. ReturnsAfterDone BY DEF ReturnsAfterDone
  <1>4. NoLostWakeup BY DEF NoLostWakeup
  <1>5. MutexHeld BY DEF MutexHeld
  <1>6. CallbacksOfCalls BY DEF CallbacksOfCalls
  <1>7. FlagSound BY DEF FlagSound
  <1>8. QED BY <1>1, <1>2, <1>3, <1>4, <1>5, <1>6, <1>7 DEF IInv

\* A step of the caller keeps the inductive invariant.
LEMMA CallerStep == IInv /\ (Construct \/ Caller \/ SpuriousWake) => IInv'
  <1> SUFFICES ASSUME IInv, Construct \/ Caller \/ SpuriousWake PROVE IInv'
    OBVIOUS
  <1> USE MaxCallsAssumption
      DEF IInv, TypeOK, NoUseAfterFree, ReturnsAfterDone, NoLostWakeup,
          MutexHeld, CallbacksOfCalls, FlagSound, Calls
  <1>1. CASE Construct
    <2>1. notified' \in BOOLEAN /\ alive' \in BOOLEAN BY <1>1, Zenon DEF Construct
    <2>2. call' \in Calls /\ call' = call + 1 BY <1>1 DEF Construct
    <2>3. TypeOK' BY <1>1, <2>1, <2>2 DEF Construct
    <2>4. NoUseAfterFree' BY <1>1, <2>2 DEF Construct
    <2>5. ReturnsAfterDone' BY <1>1, <2>2 DEF Construct
    <2>6. NoLostWakeup' BY <1>1 DEF Construct
    <2>7. MutexHeld' BY <1>1 DEF Construct
    <2>8. CallbacksOfCalls' BY <1>1, <2>2 DEF Construct
    <2>9. FlagSound' BY <1>1, <2>2 DEF Construct
    <2>10. QED BY <2>3, <2>4, <2>5, <2>6, <2>7, <2>8, <2>9
  <1>2. CASE RefuseDone BY <1>2 DEF RefuseDone
  <1>3. CASE Accept
    <2>1. cb' = [cb EXCEPT ![call] = "called"] /\ call \in Calls
      BY <1>3 DEF Accept
    <2>2. \A n \in Calls : cb'[n] = IF n = call THEN "called" ELSE cb[n]
      BY <2>1
    <2>3. TypeOK' BY <1>3, <2>1 DEF Accept
    <2>4. NoUseAfterFree' BY <1>3, <2>2 DEF Accept
    <2>5. ReturnsAfterDone' BY <1>3, <2>2 DEF Accept
    <2>6. NoLostWakeup' BY <1>3 DEF Accept
    <2>7. MutexHeld' BY <1>3, <2>1, <2>2 DEF Accept
    <2>8. CallbacksOfCalls' BY <1>3, <2>1, <2>2 DEF Accept
    <2>9. FlagSound' BY <1>3, <2>1, <2>2 DEF Accept
    <2>10. QED BY <2>3, <2>4, <2>5, <2>6, <2>7, <2>8, <2>9
  <1>4. CASE InlineDone BY <1>4 DEF InlineDone
  <1>5. CASE FastTest BY <1>5 DEF FastTest
  <1>6. CASE Lock BY <1>6 DEF Lock
  <1>7. CASE LoopTest BY <1>7 DEF LoopTest
  <1>8. CASE Sleep BY <1>8 DEF Sleep
  <1>9. CASE SpuriousWake BY <1>9 DEF SpuriousWake
  <1>10. CASE Relock BY <1>10 DEF Relock
  <1>11. CASE Destructor BY <1>11 DEF Destructor
  <1>12. CASE Return BY <1>12 DEF Return
  <1>13. QED
    BY <1>1, <1>2, <1>3, <1>4, <1>5, <1>6, <1>7, <1>8, <1>9, <1>10, <1>11, <1>12
       DEF Caller

\* A step of a callback keeps the inductive invariant.
LEMMA CallbackStep == \A n \in Calls : IInv /\ Callback(n) => IInv'
  <1> SUFFICES ASSUME NEW n \in Calls, IInv, Callback(n) PROVE IInv'
    OBVIOUS
  <1> USE MaxCallsAssumption
      DEF IInv, TypeOK, NoUseAfterFree, ReturnsAfterDone, NoLostWakeup,
          MutexHeld, CallbacksOfCalls, FlagSound, Calls
  <1>1. CASE NotifyLock(n) BY <1>1 DEF NotifyLock
  <1>2. CASE NotifyStore(n) BY <1>2 DEF NotifyStore
  <1>3. CASE NotifyAll(n) BY <1>3 DEF NotifyAll
  <1>4. CASE NotifyUnlock(n) BY <1>4 DEF NotifyUnlock
  <1>5. QED BY <1>1, <1>2, <1>3, <1>4 DEF Callback

\* The inductive invariant holds of every reachable state.
THEOREM AsyncInvariant == AsyncSpec => []IInv
  <1>1. IInv /\ [AsyncNext]_asyncVars => IInv'
    <2>1. ASSUME IInv, UNCHANGED asyncVars PROVE IInv'
      BY <2>1 DEF asyncVars, IInv, TypeOK, NoUseAfterFree, ReturnsAfterDone,
        NoLostWakeup, MutexHeld, CallbacksOfCalls, FlagSound
    <2>2. QED BY <2>1, CallerStep, CallbackStep DEF AsyncNext
  <1>2. QED BY InitAsync, <1>1, PTL DEF AsyncSpec

\* No callback of an asynchronous kernel touches a Notification that Compute
\* has destroyed, Compute returns only once its callback has finished, and no
\* wakeup is lost.
THEOREM AsyncSafety == AsyncSpec => [](NoUseAfterFree /\ ReturnsAfterDone /\ NoLostWakeup)
  <1>1. IInv => NoUseAfterFree /\ ReturnsAfterDone /\ NoLostWakeup
    BY DEF IInv
  <1>2. QED BY AsyncInvariant, <1>1, PTL
=============================================================================
