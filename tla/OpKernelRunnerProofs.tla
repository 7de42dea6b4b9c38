------------------------ MODULE OpKernelRunnerProofs ------------------------
(***************************************************************************)
(* Theorems about device memory under AscendOpKernelRunner for every number *)
(* of parameters, buffers, runners and runs, every kernel and every list of *)
(* inputs, and failures anywhere.                                          *)
(***************************************************************************)
EXTENDS OpKernelRunner, NaturalsInduction, WellFoundedInduction, SequenceTheorems, TLAPS

Parameters == [ptr : Buffers \cup {NULL}, data : Int, dev : 0 .. MaxRunners]

Runs ==
  [kernel : Kernels \cup {NULL}, todo : Seq(Params \cup {RAW}), refs : Refs \cup {<<>>},
   outputs : Nat, input_params : Seq(Params), output_params : Seq(Params),
   kernel_args : Seq(Buffers \cup {NULL}), workspace : Seq(Buffers), tiling : Seq(Buffers),
   times : Nat]

\* The types.
TypeOK ==
  /\ live \subseteq Buffers /\ mem \in [Buffers -> Int]
  /\ param \in [Params -> Parameters] /\ made \subseteq Params /\ latest \in [Params -> Int]
  /\ runner \in 0 .. MaxRunners /\ open \in BOOLEAN
  /\ _kernel_params \in [1 .. MaxRunners -> Seq(Params)]
  /\ pc \in {"idle", "inputs", "execute", "register", "launch", "free", "release"}
  /\ run \in Runs /\ runs \in Nat
  /\ raised \in BOOLEAN /\ lost \in BOOLEAN /\ profiling \in BOOLEAN
  /\ failed \subseteq 1 .. MaxRunners

Held == {param[p].ptr : p \in OnDevice}
Temps == Elements(run.workspace) \cup Elements(run.tiling)
Distinct(s) == \A i, j \in 1 .. Len(s) : s[i] = s[j] => i = j

\* Where the client is in an operation, and what it works with.
Stages ==
  /\ open => runner # 0
  /\ pc # "idle" => open
  /\ pc \in {"idle", "release"} => run.workspace = <<>>
  /\ pc \in {"idle", "release", "inputs"} => run.tiling = <<>>
  /\ pc = "release" => RAW \notin Elements(run.todo)
  /\ failed # {} => raised \/ lost
  /\ ~raised /\ ~lost /\ profiling => pc \in {"register", "launch"} /\ runner \in Profiled

\* Only parameters that have been made are used, listed or on the device.
UsesMade ==
  /\ \A p \in Params : param[p].ptr # NULL => p \in made /\ param[p].dev # NULL
  /\ Elements(run.todo) \subseteq made \cup {RAW}
  /\ Elements(run.input_params) \subseteq made /\ Elements(run.output_params) \subseteq made
  /\ \A r \in 1 .. MaxRunners : Elements(_kernel_params[r]) \subseteq made

\* Every pointer has an allocated buffer to itself that holds what it should.
Pointers ==
  \A p \in OnDevice :
    /\ param[p].ptr \in live /\ mem[param[p].ptr] = latest[p]
    /\ \A q \in OnDevice : param[q].ptr = param[p].ptr => q = p

\* Workspace and tiling data have buffers of their own, and with those of the
\* parameters they are all there is, until something fails.
TempsSound ==
  /\ Temps \subseteq live /\ Temps \cap Held = {}
  /\ Distinct(run.workspace) /\ Distinct(run.tiling)
  /\ Elements(run.workspace) \cap Elements(run.tiling) = {}
  /\ ~raised => live = Held \cup Temps

Memory == Pointers /\ TempsSound

\* Who will release a parameter, or has failed to.
Kept(p) ==
  \E r \in failed \cup {runner} :
    (r = runner => open \/ r \in failed) /\ p \in Elements(_kernel_params[r])

\* During release: what is still to be released, or has failed to be.
Due(p) ==
  p \in Elements(run.todo) \/ \E r \in failed : p \in Elements(_kernel_params[r])

Keeping == \A p \in OnDevice : Kept(p) /\ (pc = "release" => Due(p))

IInv == TypeOK /\ Stages /\ UsesMade /\ (~lost => Memory /\ Keeping)

-----------------------------------------------------------------------------
\* A set of naturals has a least element, which Fresh chooses.
LEMMA FreshIsIn ==
  ASSUME NEW S \in SUBSET Nat, S # {}
  PROVE  Fresh(S) \in S
  <1> DEFINE Below == OpToRel(<, Nat)
  <1>1. \E m \in S : \A x \in S : ~(<<x, m>> \in Below)
    <2> HIDE DEF Below
    <2>1. IsWellFoundedOn(Below, Nat)
      BY NatLessThanWellFounded DEF Below
    <2> QED BY <2>1, WFMin
  <1>2. \A x, m \in S : <<x, m>> \notin Below => m <= x
    BY DEF OpToRel
  <1>3. \E m \in S : \A x \in S : m <= x
    BY <1>1, <1>2
  <1> QED BY <1>3 DEF Fresh

\* What malloc returns was not allocated.
LEMMA FreshBuffer ==
  ASSUME TypeOK, Unused # {}
  PROVE  Fresh(Unused) \in Buffers /\ Fresh(Unused) \notin live /\ Fresh(Unused) # NULL
  <1>1. Unused \in SUBSET Nat /\ 0 \notin Unused
    BY ConstantsAssumption DEF Unused
  <1>2. Fresh(Unused) \in Unused
    BY <1>1, FreshIsIn
  <1> QED BY <1>1, <1>2 DEF Unused, NULL

\* The next parameter to be made was not made before.
LEMMA NewParamIsNew ==
  ASSUME TypeOK, made # Params
  PROVE  NewParam \in Params /\ NewParam \notin made
  <1>1. Params \ made \in SUBSET Nat /\ Params \ made # {}
    BY ConstantsAssumption DEF TypeOK
  <1>2. Fresh(Params \ made) \in Params \ made
    BY <1>1, FreshIsIn
  <1> QED BY <1>2 DEF NewParam

\* The elements of a sequence, and of one made longer or shorter by one.
LEMMA ElementsFacts ==
  ASSUME NEW S, NEW s \in Seq(S)
  PROVE  /\ Elements(s) \subseteq S
         /\ Elements(s) = {} <=> s = <<>>
         /\ \A x \in S : Append(s, x) \in Seq(S) /\ Elements(Append(s, x)) = Elements(s) \cup {x}
         /\ s # <<>> => /\ Head(s) \in Elements(s) /\ Tail(s) \in Seq(S)
                        /\ Elements(s) = {Head(s)} \cup Elements(Tail(s))
  <1>1. Elements(s) \subseteq S
    BY DEF Elements
  <1>2. Elements(s) = {} <=> s = <<>>
    <2>1. ASSUME s # <<>> PROVE s[1] \in Elements(s)
      BY <2>1 DEF Elements
    <2> QED BY <2>1 DEF Elements
  <1>3. ASSUME NEW x \in S
        PROVE  Append(s, x) \in Seq(S) /\ Elements(Append(s, x)) = Elements(s) \cup {x}
    <2>1. /\ Append(s, x) \in Seq(S) /\ Len(Append(s, x)) = Len(s) + 1
          /\ Append(s, x)[Len(s) + 1] = x
          /\ \A i \in 1 .. Len(s) : Append(s, x)[i] = s[i]
      OBVIOUS
    <2>2. 1 .. Len(s) + 1 = (1 .. Len(s)) \cup {Len(s) + 1}
      OBVIOUS
    <2> HIDE DEF Elements
    <2>3. Elements(Append(s, x)) = {Append(s, x)[i] : i \in (1 .. Len(s)) \cup {Len(s) + 1}}
      BY <2>1, <2>2 DEF Elements
    <2> QED BY <2>1, <2>3 DEF Elements
  <1>4. ASSUME s # <<>>
        PROVE  /\ Head(s) \in Elements(s) /\ Tail(s) \in Seq(S)
               /\ Elements(s) = {Head(s)} \cup Elements(Tail(s))
    <2>1. /\ Tail(s) \in Seq(S) /\ Len(Tail(s)) = Len(s) - 1 /\ Len(s) \in Nat \ {0}
          /\ \A i \in 1 .. Len(Tail(s)) : Tail(s)[i] = s[i + 1]
      BY <1>4, HeadTailProperties, EmptySeq
    <2>2. Head(s) = s[1] /\ s[1] \in Elements(s)
      BY <1>4, <2>1 DEF Elements
    <2>3. ASSUME NEW i \in 1 .. Len(s) PROVE s[i] = Head(s) \/ s[i] \in Elements(Tail(s))
      <3>1. CASE i = 1
        BY <2>2, <3>1
      <3>2. CASE i # 1
        <4>1. i - 1 \in 1 .. Len(Tail(s)) /\ Tail(s)[i - 1] = s[i]
          BY <2>1, <3>2
        <4> QED BY <4>1 DEF Elements
      <3> QED BY <3>1, <3>2
    <2>4. ASSUME NEW j \in 1 .. Len(Tail(s)) PROVE Tail(s)[j] \in Elements(s)
      <3>1. j + 1 \in 1 .. Len(s) /\ Tail(s)[j] = s[j + 1]
        BY <2>1
      <3> QED BY <3>1 DEF Elements
    <2> QED BY <2>1, <2>2, <2>3, <2>4 DEF Elements
  <1> QED BY <1>1, <1>2, <1>3, <1>4

\* A sequence without repetitions stays one when a new element joins it or its
\* head leaves it, and the head is not in the tail.
LEMMA DistinctFacts ==
  ASSUME NEW S, NEW s \in Seq(S), Distinct(s)
  PROVE  /\ \A x \in S : x \notin Elements(s) => Distinct(Append(s, x))
         /\ s # <<>> => Distinct(Tail(s)) /\ Head(s) \notin Elements(Tail(s))
  <1>1. ASSUME NEW x \in S, x \notin Elements(s) PROVE Distinct(Append(s, x))
    <2>1. /\ Len(Append(s, x)) = Len(s) + 1 /\ Append(s, x)[Len(s) + 1] = x
          /\ \A i \in 1 .. Len(s) : Append(s, x)[i] = s[i]
      OBVIOUS
    <2>2. \A i \in 1 .. Len(s) : s[i] # x
      BY <1>1 DEF Elements
    <2> QED BY <2>1, <2>2 DEF Distinct
  <1>2. ASSUME s # <<>> PROVE Distinct(Tail(s)) /\ Head(s) \notin Elements(Tail(s))
    <2>1. /\ Len(Tail(s)) = Len(s) - 1 /\ Len(s) \in Nat \ {0} /\ Head(s) = s[1]
          /\ \A i \in 1 .. Len(Tail(s)) : Tail(s)[i] = s[i + 1]
      BY <1>2, HeadTailProperties, EmptySeq
    <2>2. \A i \in 1 .. Len(Tail(s)) : s[i + 1] # s[1]
      BY <2>1 DEF Distinct
    <2>3. Distinct(Tail(s))
      <3> SUFFICES ASSUME NEW i \in 1 .. Len(Tail(s)), NEW j \in 1 .. Len(Tail(s)),
                          Tail(s)[i] = Tail(s)[j]
                   PROVE  i = j
        BY DEF Distinct
      <3>1. i + 1 \in 1 .. Len(s) /\ j + 1 \in 1 .. Len(s) /\ s[i + 1] = s[j + 1]
        BY <2>1
      <3>2. i + 1 = j + 1
        BY <3>1 DEF Distinct
      <3> QED BY <3>2
    <2> QED BY <2>1, <2>2, <2>3 DEF Elements
  <1> QED BY <1>1, <1>2

\* A parameter joins those that a runner will release.
LEMMA KeepParamFacts ==
  ASSUME TypeOK, runner # 0, NEW p \in Params, KeepParam(p)
  PROVE  /\ _kernel_params' \in [1 .. MaxRunners -> Seq(Params)]
         /\ Elements(_kernel_params'[runner]) = Elements(_kernel_params[runner]) \cup {p}
         /\ \A r \in 1 .. MaxRunners \ {runner} : _kernel_params'[r] = _kernel_params[r]
  <1>1. runner \in 1 .. MaxRunners /\ _kernel_params[runner] \in Seq(Params)
    BY ConstantsAssumption DEF TypeOK
  <1>2. Listed(p) \in Seq(Params) /\ Elements(Listed(p)) = Elements(_kernel_params[runner]) \cup {p}
    BY <1>1, ElementsFacts DEF Listed
  <1> QED BY <1>1, <1>2 DEF KeepParam, TypeOK

\* What is left of run's locals when it has returned or raised.
LEMMA NoRunFacts ==
  /\ NoRun \in Runs
  /\ NoRun.todo = <<>> /\ NoRun.input_params = <<>> /\ NoRun.output_params = <<>>
  /\ NoRun.workspace = <<>> /\ NoRun.tiling = <<>> /\ Elements(<<>>) = {}
  <1>1. \A S : <<>> \in Seq(S)
    OBVIOUS
  <1> QED BY <1>1 DEF NoRun, Runs, Elements

\* A step that leaves the temporary buffers of run as they are.
SameTemps == run'.workspace = run.workspace /\ run'.tiling = run.tiling

\* One input more.
LEMMA AddInputFacts ==
  ASSUME TypeOK, run.todo # <<>>, NEW p \in Params, NEW x \in Buffers \cup {NULL},
         NEW passed \in BOOLEAN, AddInput(p, x, passed)
  PROVE  /\ run' \in Runs /\ run'.todo = Tail(run.todo) /\ SameTemps
         /\ run'.output_params = run.output_params
         /\ Elements(run'.input_params) \subseteq Elements(run.input_params) \cup {p}
  <1>1. /\ run \in Runs /\ run.todo \in Seq(Params \cup {RAW})
        /\ run.kernel_args \in Seq(Buffers \cup {NULL}) /\ run.input_params \in Seq(Params)
    BY DEF TypeOK, Runs
  <1>2. Tail(run.todo) \in Seq(Params \cup {RAW})
    BY <1>1, ElementsFacts
  <1>3. Append(run.kernel_args, x) \in Seq(Buffers \cup {NULL})
    BY <1>1
  <1> DEFINE inputs == IF passed THEN Append(run.input_params, p) ELSE run.input_params
  <1>4. inputs \in Seq(Params) /\ Elements(inputs) \subseteq Elements(run.input_params) \cup {p}
    BY <1>1, ElementsFacts
  <1>5. run' = [run EXCEPT !.todo = Tail(run.todo), !.kernel_args = Append(run.kernel_args, x),
                           !.input_params = inputs]
    BY DEF AddInput
  <1> HIDE DEF inputs
  <1> QED BY <1>1, <1>2, <1>3, <1>4, <1>5 DEF Runs, SameTemps

\* One output more.
LEMMA AddOutputFacts ==
  ASSUME TypeOK, NEW p \in Params, NEW x \in Buffers \cup {NULL}, AddOutput(p, x)
  PROVE  /\ run' \in Runs /\ run'.todo = run.todo /\ SameTemps
         /\ run'.input_params = run.input_params
         /\ Elements(run'.output_params) = Elements(run.output_params) \cup {p}
  <1>1. /\ run \in Runs /\ run.outputs \in Nat /\ run.output_params \in Seq(Params)
        /\ run.kernel_args \in Seq(Buffers \cup {NULL})
    BY DEF TypeOK, Runs
  <1>2. Append(run.kernel_args, x) \in Seq(Buffers \cup {NULL})
    BY <1>1
  <1>3. /\ Append(run.output_params, p) \in Seq(Params)
        /\ Elements(Append(run.output_params, p)) = Elements(run.output_params) \cup {p}
    BY <1>1, ElementsFacts
  <1> DEFINE n == run.outputs + 1
             outputs == Append(run.output_params, p)
             args == Append(run.kernel_args, x)
  <1>4. run' = [run EXCEPT !.outputs = n, !.output_params = outputs, !.kernel_args = args]
    BY DEF AddOutput
  <1>5. n \in Nat /\ outputs \in Seq(Params) /\ args \in Seq(Buffers \cup {NULL})
    BY <1>1, <1>2, <1>3
  <1> HIDE DEF n, outputs, args
  <1>6. run' \in Runs
    BY <1>1, <1>4, <1>5 DEF Runs
  <1>7. /\ run'.todo = run.todo /\ SameTemps /\ run'.input_params = run.input_params
        /\ run'.output_params = outputs
    BY <1>1, <1>4 DEF Runs, SameTemps
  <1> QED BY <1>3, <1>6, <1>7 DEF outputs

-----------------------------------------------------------------------------
\* What a step must leave alone, or may add, for memory to stay sound.
LEMMA MemoryQuiet ==
  ASSUME TypeOK, TypeOK', UsesMade, UsesMade', Memory,
         live' = live, mem' = mem, latest' = latest, raised => raised',
         \A p \in Params : param'[p].ptr = param[p].ptr,
         SameTemps \/ (run'.workspace = <<>> /\ run'.tiling = <<>> /\ raised')
  PROVE  Memory'
  <1>1. OnDevice' = OnDevice
    BY DEF UsesMade, TypeOK, OnDevice
  <1>2. OnDevice \subseteq Params
    BY DEF TypeOK, OnDevice
  <1>3. Held' = Held
    BY <1>1, <1>2 DEF Held
  <1>4. Pointers'
    BY <1>1, <1>2 DEF Memory, Pointers
  <1>5. CASE SameTemps
    <2>1. Temps' = Temps /\ TempsSound
      BY <1>5 DEF SameTemps, Temps, Memory
    <2> QED BY <1>3, <1>4, <1>5, <2>1 DEF SameTemps, Memory, TempsSound, Distinct
  <1>6. CASE run'.workspace = <<>> /\ run'.tiling = <<>> /\ raised'
    <2>1. /\ Elements(run'.workspace) = {} /\ Elements(run'.tiling) = {}
          /\ Distinct(run'.workspace) /\ Distinct(run'.tiling)
      BY <1>6 DEF Elements, Distinct
    <2>2. Temps' = {}
      BY <2>1 DEF Temps
    <2>3. TempsSound'
      BY <1>6, <2>1, <2>2 DEF TempsSound
    <2> QED BY <1>4, <2>3 DEF Memory
  <1> QED BY <1>4, <1>5, <1>6 DEF Memory

\* A new buffer with v in it, given to a parameter that had none.
LEMMA MemoryToParam ==
  ASSUME TypeOK, TypeOK', UsesMade, UsesMade', Memory,
         NEW p \in Params, NEW v, Malloc(v), latest' = [latest EXCEPT ![p] = v],
         param[p].ptr = NULL, param'[p].ptr = Fresh(Unused),
         \A q \in Params \ {p} : param'[q].ptr = param[q].ptr,
         SameTemps, raised' = raised
  PROVE  Memory'
  <1> DEFINE x == Fresh(Unused)
  <1>1. x \in Buffers /\ x \notin live /\ x # NULL
    BY FreshBuffer DEF Malloc
  <1>2. live' = live \cup {x} /\ mem' = [mem EXCEPT ![x] = v]
    BY DEF Malloc
  <1> HIDE DEF x
  <1>3. OnDevice \subseteq Params /\ p \notin OnDevice /\ OnDevice' = OnDevice \cup {p}
    BY <1>1 DEF UsesMade, TypeOK, OnDevice, x
  <1>4. /\ \A q \in OnDevice : param'[q].ptr = param[q].ptr /\ param[q].ptr \in live
        /\ param'[p].ptr = x
    BY <1>3 DEF Memory, Pointers, x
  <1>5. Held' = Held \cup {x} /\ x \notin Held
    BY <1>1, <1>3, <1>4 DEF Held
  <1>6. mem'[x] = v /\ \A b \in live : mem'[b] = mem[b]
    BY <1>1, <1>2 DEF TypeOK
  <1>7. latest'[p] = v /\ \A q \in OnDevice : latest'[q] = latest[q]
    BY <1>3 DEF TypeOK
  <1>8. Pointers'
    <2>1. ASSUME NEW q \in OnDevice'
          PROVE  /\ param'[q].ptr \in live' /\ mem'[param'[q].ptr] = latest'[q]
                 /\ \A r \in OnDevice' : param'[r].ptr = param'[q].ptr => r = q
      <3>1. CASE q = p
        BY <1>1, <1>2, <1>3, <1>4, <1>6, <1>7, <3>1
      <3>2. CASE q # p
        <4>1. q \in OnDevice
          BY <1>3, <3>2
        <4>2. /\ param[q].ptr \in live /\ mem[param[q].ptr] = latest[q]
              /\ \A r \in OnDevice : param[r].ptr = param[q].ptr => r = q
          BY <4>1 DEF Memory, Pointers
        <4> QED BY <1>1, <1>2, <1>3, <1>4, <1>6, <1>7, <4>1, <4>2
      <3> QED BY <3>1, <3>2
    <2> QED BY <2>1 DEF Pointers
  <1>9. TempsSound'
    <2>1. /\ Elements(run'.workspace) = Elements(run.workspace)
          /\ Elements(run'.tiling) = Elements(run.tiling) /\ Temps' = Temps
      BY DEF SameTemps, Temps
    <2>2. Temps \subseteq live /\ Temps \cap Held = {} /\ (~raised => live = Held \cup Temps)
      BY DEF Memory, TempsSound
    <2>3. /\ Temps' \subseteq live' /\ Temps' \cap Held' = {}
          /\ ~raised' => live' = Held' \cup Temps'
      BY <1>1, <1>2, <1>5, <2>1, <2>2
    <2> QED BY <2>1, <2>3 DEF SameTemps, Memory, TempsSound, Distinct
  <1> QED BY <1>8, <1>9 DEF Memory

\* A new buffer that no parameter refers to: temporary, or leaked by a failure.
LEMMA MemoryToOther ==
  ASSUME TypeOK, TypeOK', UsesMade, UsesMade', Memory,
         NEW v, Malloc(v), latest' = latest,
         \A p \in Params : param'[p].ptr = param[p].ptr,
         \/ run'.workspace = <<>> /\ run'.tiling = <<>> /\ raised'
         \/ /\ run'.workspace = Append(run.workspace, Fresh(Unused))
            /\ run'.tiling = run.tiling /\ raised' = raised
         \/ /\ run.tiling = <<>> /\ run'.tiling = <<Fresh(Unused)>>
            /\ run'.workspace = run.workspace /\ raised' = raised
  PROVE  Memory'
  <1> DEFINE x == Fresh(Unused)
  <1>1. x \in Buffers /\ x \notin live
    BY FreshBuffer DEF Malloc
  <1>2. live' = live \cup {x} /\ mem' = [mem EXCEPT ![x] = v]
    BY DEF Malloc
  <1>3. OnDevice \subseteq Params /\ OnDevice' = OnDevice
    BY DEF UsesMade, TypeOK, OnDevice
  <1>4. \A q \in OnDevice : param'[q].ptr = param[q].ptr /\ param[q].ptr \in live
    BY <1>3 DEF Memory, Pointers
  <1>5. Held' = Held /\ x \notin Held
    BY <1>1, <1>3, <1>4 DEF Held
  <1>6. \A b \in live : mem'[b] = mem[b]
    BY <1>1, <1>2 DEF TypeOK
  <1>7. Pointers'
    BY <1>2, <1>3, <1>4, <1>6 DEF Memory, Pointers
  <1>8. /\ Temps \subseteq live /\ Temps \cap Held = {} /\ (~raised => live = Held \cup Temps)
        /\ Distinct(run.workspace) /\ Distinct(run.tiling)
        /\ Elements(run.workspace) \cap Elements(run.tiling) = {}
        /\ run.workspace \in Seq(Buffers) /\ run.tiling \in Seq(Buffers)
    BY DEF Memory, TempsSound, TypeOK, Runs
  <1>9. x \notin Elements(run.workspace) /\ x \notin Elements(run.tiling)
    BY <1>1, <1>8 DEF Temps
  <1>10. CASE run'.workspace = <<>> /\ run'.tiling = <<>> /\ raised'
    BY <1>7, <1>10 DEF Memory, TempsSound, Temps, Elements, Distinct
  <1>11. CASE /\ run'.workspace = Append(run.workspace, x) /\ run'.tiling = run.tiling
              /\ raised' = raised
    <2>1. Elements(run'.workspace) = Elements(run.workspace) \cup {x} /\ Distinct(run'.workspace)
      BY <1>1, <1>8, <1>9, <1>11, ElementsFacts, DistinctFacts
    <2>2. Elements(run'.tiling) = Elements(run.tiling) /\ Distinct(run'.tiling)
      BY <1>8, <1>11
    <2>3. Temps' = Temps \cup {x}
      BY <2>1, <2>2 DEF Temps
    <2>4. TempsSound'
      BY <1>1, <1>2, <1>5, <1>8, <1>9, <1>11, <2>1, <2>2, <2>3 DEF TempsSound, Distinct
    <2> QED BY <1>7, <2>4 DEF Memory
  <1>12. CASE /\ run.tiling = <<>> /\ run'.tiling = <<x>> /\ run'.workspace = run.workspace
              /\ raised' = raised
    <2>1. Elements(run'.tiling) = {x} /\ Distinct(run'.tiling) /\ Elements(run.tiling) = {}
      BY <1>12 DEF Elements, Distinct
    <2>2. Elements(run'.workspace) = Elements(run.workspace) /\ Distinct(run'.workspace)
      BY <1>8, <1>12
    <2>3. Temps' = Temps \cup {x}
      BY <2>1, <2>2 DEF Temps
    <2>4. TempsSound'
      BY <1>1, <1>2, <1>5, <1>8, <1>9, <1>12, <2>1, <2>2, <2>3 DEF TempsSound, Distinct
    <2> QED BY <1>7, <2>4 DEF Memory
  <1> QED BY <1>10, <1>11, <1>12 DEF x

\* A parameter on the device stays someone's to release as long as lists only
\* grow and who fails is remembered; one that comes to the device is listed.
LEMMA KeepingGrows ==
  ASSUME TypeOK, TypeOK', Stages, UsesMade, UsesMade', Keeping, pc' # "release",
         runner' = runner, failed \subseteq failed', open => open' \/ runner \in failed',
         \A r \in 1 .. MaxRunners :
           Elements(_kernel_params[r]) \subseteq Elements(_kernel_params'[r]),
         \A p \in Params : param'[p].ptr # NULL =>
           \/ param[p].ptr # NULL
           \/ open /\ open' /\ p \in Elements(_kernel_params'[runner])
  PROVE  Keeping'
  <1> SUFFICES ASSUME NEW p \in OnDevice' PROVE Kept(p)'
    BY DEF Keeping
  <1>1. p \in Params /\ param'[p].ptr # NULL
    BY DEF OnDevice, TypeOK
  <1>2. CASE param[p].ptr # NULL
    <2>1. p \in OnDevice
      BY <1>1, <1>2 DEF OnDevice, UsesMade
    <2>2. PICK r \in failed \cup {runner} :
            (r = runner => open \/ r \in failed) /\ p \in Elements(_kernel_params[r])
      BY <2>1 DEF Keeping, Kept
    <2>3. r \in 1 .. MaxRunners
      <3>1. failed \subseteq 1 .. MaxRunners /\ runner \in 0 .. MaxRunners /\ MaxRunners \in Nat
        BY ConstantsAssumption DEF TypeOK
      <3>2. CASE r \in failed
        BY <3>1, <3>2
      <3>3. CASE r \notin failed
        <4>1. r = runner /\ runner # 0
          BY <2>2, <3>3 DEF Stages
        <4> QED BY <3>1, <4>1
      <3> QED BY <3>2, <3>3
    <2> QED BY <2>2, <2>3 DEF Kept
  <1>3. CASE open /\ open' /\ p \in Elements(_kernel_params'[runner])
    BY <1>3 DEF Kept
  <1> QED BY <1>1, <1>2, <1>3

\* An exception, before a buffer is allocated or after one that is then lost.
LEMMA ThrowInv ==
  ASSUME IInv, Throw, UNCHANGED <<made, latest, runner, open, failed, lost, profiling, runs>>,
         UNCHANGED device \/ Malloc(JUNK),
         param' \in [Params -> Parameters],
         \A p \in Params : /\ param'[p].ptr = param[p].ptr
                           /\ param[p].ptr # NULL => param'[p].dev # NULL,
         _kernel_params' \in [1 .. MaxRunners -> Seq(Params)],
         \A r \in 1 .. MaxRunners :
           /\ Elements(_kernel_params[r]) \subseteq Elements(_kernel_params'[r])
           /\ Elements(_kernel_params'[r]) \subseteq made
  PROVE  IInv'
  <1>1. pc' = "idle" /\ run' = NoRun /\ raised' = TRUE
    BY DEF Throw, Goto
  <1>2. live' \subseteq Buffers /\ mem' \in [Buffers -> Int]
    <2>1. CASE UNCHANGED device
      BY <2>1 DEF device, IInv, TypeOK
    <2>2. CASE Malloc(JUNK)
      BY <2>2, FreshBuffer DEF Malloc, JUNK, IInv, TypeOK
    <2> QED BY <2>1, <2>2
  <1>3. TypeOK'
    BY <1>1, <1>2, NoRunFacts DEF IInv, TypeOK
  <1>4. Stages'
    BY <1>1, NoRunFacts DEF IInv, Stages
  <1>5. UsesMade'
    BY <1>1, NoRunFacts DEF IInv, UsesMade
  <1>6. ASSUME ~lost' PROVE Memory' /\ Keeping'
    <2>1. Memory /\ Keeping /\ TypeOK /\ UsesMade /\ Stages
      BY <1>6 DEF IInv
    <2>2. run'.workspace = <<>> /\ run'.tiling = <<>> /\ raised'
      BY <1>1, NoRunFacts
    <2>3. ASSUME UNCHANGED device PROVE Memory'
      BY <1>3, <1>5, <2>1, <2>2, <2>3, MemoryQuiet DEF device
    <2>4. ASSUME Malloc(JUNK) PROVE Memory'
      BY <1>3, <1>5, <2>1, <2>2, <2>4, MemoryToOther
    <2>5. Keeping'
      BY <1>1, <1>3, <1>5, <2>1, KeepingGrows
    <2> QED BY <2>3, <2>4, <2>5
  <1> QED BY <1>3, <1>4, <1>5, <1>6 DEF IInv

\* An exception that leaves the parameters and lists as they are.
LEMMA ThrowOnly ==
  ASSUME IInv, Throw, UNCHANGED <<objects, runners, profiling, runs>>,
         UNCHANGED device \/ Malloc(JUNK)
  PROVE  IInv'
  <1> QED BY ThrowInv DEF objects, runners, IInv, TypeOK, UsesMade

\* A step that touches no memory, no parameter and no runner.
LEMMA QuietInv ==
  ASSUME IInv, TypeOK', Stages', UsesMade', SameTemps, pc' # "release",
         UNCHANGED <<device, objects, runners, raised>>
  PROVE  IInv'
  <1>1. ASSUME ~lost PROVE Memory' /\ Keeping'
    <2>1. Memory /\ Keeping /\ TypeOK /\ UsesMade /\ Stages
      BY <1>1 DEF IInv
    <2>2. Memory'
      BY <2>1, MemoryQuiet DEF device, objects, runners
    <2>3. Keeping'
      BY <2>1, KeepingGrows DEF device, objects, runners
    <2> QED BY <2>2, <2>3
  <1> QED BY <1>1 DEF IInv, runners

\* What the failures of an allocation have in common.
LEMMA MallocFailsCases ==
  ASSUME MallocFails \/ FillFails
  PROVE  Throw /\ (UNCHANGED device \/ Malloc(JUNK))
  <1> QED BY DEF MallocFails, FillFails, Raise

-----------------------------------------------------------------------------
\* A new runner has nothing to release, and does not know what older ones had.
LEMMA OpenInv ==
  ASSUME IInv, Open
  PROVE  IInv'
  <1> USE DEF Open, device, objects
  <1>0. runner \in Nat /\ runner + 1 \in 0 .. MaxRunners
    BY ConstantsAssumption DEF IInv, TypeOK
  <1>1. TypeOK'
    BY <1>0 DEF IInv, TypeOK
  <1>2. Stages'
    BY <1>0 DEF IInv, Stages
  <1>3. UsesMade'
    BY DEF IInv, UsesMade
  <1>4. ASSUME ~lost PROVE Memory' /\ Keeping'
    <2>1. Memory /\ Keeping /\ TypeOK /\ UsesMade /\ Stages
      BY <1>4 DEF IInv
    <2>2. Memory'
      BY <1>1, <1>3, <2>1, MemoryQuiet DEF SameTemps
    <2>3. OnDevice' = OnDevice
      BY DEF OnDevice
    <2>4. ASSUME NEW p \in OnDevice PROVE Kept(p)'
      <3>1. PICK r \in failed : p \in Elements(_kernel_params[r])
        BY <2>1 DEF Keeping, Kept
      <3> QED BY <3>1 DEF Kept
    <2> QED BY <2>2, <2>3, <2>4 DEF Keeping
  <1> QED BY <1>1, <1>2, <1>3, <1>4 DEF IInv

\* A parameter made on the host is not on the device.
LEMMA MakeParamInv ==
  ASSUME IInv, MakeParam
  PROVE  IInv'
  <1>1. NewParam \in Params /\ NewParam \notin made
    BY NewParamIsNew DEF MakeParam, IInv
  <1>2. /\ UNCHANGED <<device, latest, runners, kernels, pc, run, runs, raised>>
        /\ made' = made \cup {NewParam} /\ param' = [param EXCEPT ![NewParam].data = HOST]
    BY DEF MakeParam
  <1>3. /\ param' \in [Params -> Parameters]
        /\ \A p \in Params : param'[p].ptr = param[p].ptr /\ param'[p].dev = param[p].dev
    <2>1. param \in [Params -> Parameters] /\ HOST \in Int
      BY DEF IInv, TypeOK, HOST
    <2> QED BY <1>1, <1>2, <2>1 DEF Parameters
  <1>4. TypeOK'
    BY <1>1, <1>2, <1>3 DEF IInv, TypeOK, device, runners, kernels
  <1>5. Stages'
    BY <1>2 DEF IInv, Stages, runners, kernels
  <1>6. UsesMade'
    BY <1>2, <1>3 DEF IInv, UsesMade, runners
  <1>7. ASSUME ~lost PROVE Memory' /\ Keeping'
    <2>1. Memory /\ Keeping /\ TypeOK /\ UsesMade /\ Stages /\ pc' # "release"
      BY <1>2, <1>7 DEF IInv, MakeParam
    <2>2. Memory'
      BY <1>2, <1>3, <1>4, <1>6, <2>1, MemoryQuiet DEF device, SameTemps
    <2>3. Keeping'
      BY <1>2, <1>3, <1>4, <1>6, <2>1, KeepingGrows DEF runners
    <2> QED BY <2>2, <2>3
  <1> QED BY <1>2, <1>4, <1>5, <1>6, <1>7 DEF IInv, runners

\* A parameter that comes to the device, new or not: it has a buffer to itself
\* and is listed with the open runner.
LEMMA ToDeviceInv ==
  ASSUME IInv, open, pc' # "release", NEW p \in Params, NEW v, Malloc(v),
         latest' = [latest EXCEPT ![p] = v],
         param[p].ptr = NULL, param' \in [Params -> Parameters],
         param'[p].ptr = Fresh(Unused), param'[p].dev = runner,
         \A q \in Params \ {p} : param'[q] = param[q],
         p \in made', KeepParam(p), SameTemps,
         UNCHANGED <<runner, open, failed, lost, raised>>,
         TypeOK', Stages', UsesMade'
  PROVE  IInv'
  <1>1. ASSUME ~lost PROVE Memory' /\ Keeping'
    <2>1. Memory /\ Keeping /\ TypeOK /\ UsesMade /\ Stages
      BY <1>1 DEF IInv
    <2>2. Memory'
      BY <2>1, MemoryToParam
    <2>3. /\ Elements(_kernel_params'[runner]) = Elements(_kernel_params[runner]) \cup {p}
          /\ \A r \in 1 .. MaxRunners \ {runner} : _kernel_params'[r] = _kernel_params[r]
      BY <2>1, KeepParamFacts DEF Stages
    <2>4. Keeping'
      BY <2>1, <2>3, KeepingGrows
    <2> QED BY <2>2, <2>4
  <1> QED BY <1>1 DEF IInv

\* What BuildParam does, apart from the client's own record of it.
LEMMA BuildParamFacts ==
  ASSUME IInv, open, BuildParam
  PROVE  /\ NewParam \in Params /\ NewParam \notin made /\ made' = made \cup {NewParam}
         /\ Malloc(HOST) /\ KeepParam(NewParam)
         /\ Fresh(Unused) \in Buffers /\ Fresh(Unused) # NULL
         /\ live' \subseteq Buffers /\ mem' \in [Buffers -> Int]
         /\ latest' = [latest EXCEPT ![NewParam] = HOST] /\ latest' \in [Params -> Int]
         /\ param[NewParam].ptr = NULL /\ param' \in [Params -> Parameters]
         /\ param'[NewParam].ptr = Fresh(Unused) /\ param'[NewParam].dev = runner
         /\ \A q \in Params \ {NewParam} : param'[q] = param[q]
         /\ _kernel_params' \in [1 .. MaxRunners -> Seq(Params)]
         /\ \A r \in 1 .. MaxRunners : Elements(_kernel_params'[r]) \subseteq made'
         /\ \A q \in Params : param'[q].ptr # NULL => q \in made' /\ param'[q].dev # NULL
  <1>0. TypeOK /\ Stages /\ UsesMade /\ runner # 0 /\ runner \in 0 .. MaxRunners
    BY DEF IInv, Stages, TypeOK
  <1>1. NewParam \in Params /\ NewParam \notin made /\ made' = made \cup {NewParam}
    BY <1>0, NewParamIsNew DEF BuildParam
  <1>2. Fresh(Unused) \in Buffers /\ Fresh(Unused) # NULL
    BY <1>0, FreshBuffer DEF BuildParam, Malloc
  <1>3. /\ live' \subseteq Buffers /\ mem' \in [Buffers -> Int]
    BY <1>0, <1>2 DEF BuildParam, Malloc, TypeOK, HOST
  <1>4. latest' \in [Params -> Int]
    BY <1>0, <1>1 DEF BuildParam, TypeOK, HOST
  <1>5. param[NewParam].ptr = NULL
    BY <1>0, <1>1 DEF UsesMade
  <1>6. [ptr |-> Fresh(Unused), data |-> HOST, dev |-> runner] \in Parameters
    BY <1>0, <1>2 DEF Parameters, HOST
  <1>7. /\ param' \in [Params -> Parameters] /\ param'[NewParam].ptr = Fresh(Unused)
        /\ param'[NewParam].dev = runner
        /\ \A q \in Params \ {NewParam} : param'[q] = param[q]
    BY <1>0, <1>1, <1>6 DEF BuildParam, TypeOK
  <1>8. /\ _kernel_params' \in [1 .. MaxRunners -> Seq(Params)]
        /\ Elements(_kernel_params'[runner]) = Elements(_kernel_params[runner]) \cup {NewParam}
        /\ \A r \in 1 .. MaxRunners \ {runner} : _kernel_params'[r] = _kernel_params[r]
    BY <1>0, <1>1, KeepParamFacts DEF BuildParam
  <1>9. \A r \in 1 .. MaxRunners : Elements(_kernel_params'[r]) \subseteq made'
    <2>1. runner \in 1 .. MaxRunners
      BY <1>0, ConstantsAssumption
    <2> QED BY <1>0, <1>1, <1>8, <2>1 DEF UsesMade
  <1>10. \A q \in Params : param'[q].ptr # NULL => q \in made' /\ param'[q].dev # NULL
    BY <1>0, <1>1, <1>7 DEF UsesMade, NULL
  <1> QED BY <1>1, <1>2, <1>3, <1>4, <1>5, <1>7, <1>8, <1>9, <1>10 DEF BuildParam

\* build_kernel_param puts a new parameter on the device and on the list, or
\* raises.
LEMMA BuildKernelParamInv ==
  ASSUME IInv, BuildKernelParam
  PROVE  IInv'
  <1>0. UNCHANGED <<runner, open, failed, lost, kernels, runs>> /\ open /\ pc = "idle"
    BY DEF BuildKernelParam
  <1>1. CASE BuildParam /\ Quiet /\ UNCHANGED <<pc, run>>
    <2>1. raised' = raised /\ pc' = pc /\ run' = run
      BY <1>1 DEF Quiet
    <2>2. TypeOK'
      BY <1>0, <1>1, <2>1, BuildParamFacts DEF IInv, TypeOK, kernels
    <2>3. Stages'
      BY <1>0, <2>1 DEF IInv, Stages, kernels
    <2>4. UsesMade'
      BY <1>0, <1>1, <2>1, BuildParamFacts DEF IInv, UsesMade
    <2> QED BY <1>0, <1>1, <2>1, <2>2, <2>3, <2>4, BuildParamFacts, ToDeviceInv DEF SameTemps
  <1>2. CASE (MallocFails \/ FillFails) /\ UNCHANGED <<objects, _kernel_params>>
    BY <1>0, <1>2, MallocFailsCases, ThrowOnly DEF runners, kernels, objects
  <1> QED BY <1>1, <1>2 DEF BuildKernelParam

-----------------------------------------------------------------------------
\* run begins with inputs that have been made, or raw data.
LEMMA StartRunInv ==
  ASSUME IInv, NEW k \in Kernels, NEW ins \in Inputs, NEW refs \in Refs, StartRun(k, ins, refs)
  PROVE  IInv'
  <1>1. /\ run' = [NoRun EXCEPT !.kernel = k, !.todo = ins, !.refs = refs]
        /\ pc = "idle" /\ open /\ pc' = "inputs" /\ runs' = runs + 1
        /\ Elements(ins) \subseteq made \cup {RAW}
        /\ UNCHANGED <<device, objects, runners, kernels, failures, raised>>
    BY DEF StartRun, Goto
  <1>2. /\ run' \in Runs /\ run'.todo = ins /\ run'.workspace = <<>> /\ run'.tiling = <<>>
        /\ run'.input_params = <<>> /\ run'.output_params = <<>>
    <2>1. ins \in Seq(Params \cup {RAW})
      BY ConstantsAssumption
    <2>2. NoRun \in Runs /\ NoRun.workspace = <<>> /\ NoRun.tiling = <<>>
          /\ NoRun.input_params = <<>> /\ NoRun.output_params = <<>>
      BY NoRunFacts
    <2> QED BY <1>1, <2>1, <2>2 DEF Runs
  <1>3. TypeOK'
    BY <1>1, <1>2 DEF IInv, TypeOK, device, objects, runners, kernels
  <1>4. Stages'
    BY <1>1, <1>2 DEF IInv, Stages, runners, kernels
  <1>5. UsesMade'
    BY <1>1, <1>2, NoRunFacts DEF IInv, UsesMade, objects, runners
  <1>6. SameTemps
    BY <1>1, <1>2 DEF IInv, Stages, SameTemps
  <1> QED BY <1>1, <1>3, <1>4, <1>5, <1>6, QuietInv

\* An input is listed, and has a place on the device when its address is passed.
LEMMA FillInputInv ==
  ASSUME IInv, FillInput
  PROVE  IInv'
  <1> DEFINE p == Head(run.todo)
  <1>0. /\ pc = "inputs" /\ run.todo # <<>> /\ open /\ runner # 0 /\ runner \in 1 .. MaxRunners
        /\ UNCHANGED <<runner, open, failed, lost, kernels, runs>>
        /\ TypeOK /\ Stages /\ UsesMade
    BY ConstantsAssumption DEF FillInput, IInv, Stages, TypeOK
  <1>1. /\ p \in made \cup {RAW} /\ Elements(Tail(run.todo)) \subseteq made \cup {RAW}
        /\ made \subseteq Params
    <2>1. run.todo \in Seq(Params \cup {RAW})
      BY <1>0 DEF TypeOK, Runs
    <2> QED BY <1>0, <2>1, ElementsFacts DEF UsesMade, TypeOK
  <1> HIDE DEF p
  <1>2. CASE p = RAW /\ BuildParam /\ AddInput(NewParam, Fresh(Unused), FALSE)
             /\ Quiet /\ UNCHANGED pc
    <2>1. raised' = raised /\ pc' = pc
      BY <1>2 DEF Quiet
    <2>2. /\ run' \in Runs /\ run'.todo = Tail(run.todo) /\ SameTemps
          /\ run'.output_params = run.output_params
          /\ Elements(run'.input_params) \subseteq Elements(run.input_params) \cup {NewParam}
      BY <1>0, <1>2, BuildParamFacts, AddInputFacts
    <2>3. TypeOK'
      BY <1>0, <1>2, <2>1, <2>2, BuildParamFacts DEF TypeOK, kernels
    <2>4. Stages'
      BY <1>0, <2>1, <2>2 DEF Stages, SameTemps, kernels
    <2>5. UsesMade'
      BY <1>0, <1>1, <1>2, <2>2, BuildParamFacts DEF UsesMade
    <2> QED BY <1>0, <1>2, <2>1, <2>2, <2>3, <2>4, <2>5, BuildParamFacts, ToDeviceInv
  <1>3. CASE p = RAW /\ (MallocFails \/ FillFails) /\ UNCHANGED <<objects, _kernel_params>>
    BY <1>0, <1>3, MallocFailsCases, ThrowOnly DEF runners, kernels, objects
  <1>4. ASSUME p # RAW, KeepParam(p)
        PROVE  /\ p \in made /\ p \in Params
               /\ _kernel_params' \in [1 .. MaxRunners -> Seq(Params)]
               /\ \A r \in 1 .. MaxRunners :
                    /\ Elements(_kernel_params[r]) \subseteq Elements(_kernel_params'[r])
                    /\ Elements(_kernel_params'[r]) \subseteq made
    BY <1>0, <1>1, <1>4, KeepParamFacts DEF UsesMade
  <1>5. CASE p # RAW /\ is_in_device(p) /\ KeepParam(p) /\ AddInput(p, param[p].ptr, TRUE)
             /\ Quiet /\ UNCHANGED <<device, objects, pc>>
    <2>1. raised' = raised /\ pc' = pc
      BY <1>5 DEF Quiet
    <2>2. /\ run' \in Runs /\ run'.todo = Tail(run.todo) /\ SameTemps
          /\ run'.output_params = run.output_params
          /\ Elements(run'.input_params) \subseteq Elements(run.input_params) \cup {p}
      <3>1. param[p].ptr \in Buffers \cup {NULL}
        BY <1>0, <1>4, <1>5 DEF TypeOK, Parameters
      <3> QED BY <1>0, <1>4, <1>5, <3>1, AddInputFacts
    <2>3. TypeOK'
      BY <1>0, <1>4, <1>5, <2>1, <2>2 DEF TypeOK, kernels, device, objects
    <2>4. Stages'
      BY <1>0, <2>1, <2>2 DEF Stages, SameTemps, kernels
    <2>5. UsesMade'
      BY <1>0, <1>1, <1>4, <1>5, <2>2 DEF UsesMade, objects
    <2>6. ASSUME ~lost PROVE Memory' /\ Keeping'
      <3>1. Memory /\ Keeping
        BY <2>6 DEF IInv
      <3>2. Memory'
        BY <1>0, <1>5, <2>1, <2>2, <2>3, <2>5, <3>1, MemoryQuiet DEF device, objects
      <3>3. Keeping'
        BY <1>0, <1>4, <1>5, <2>1, <2>3, <2>5, <3>1, KeepingGrows DEF objects
      <3> QED BY <3>2, <3>3
    <2> QED BY <1>0, <2>3, <2>4, <2>5, <2>6 DEF IInv
  <1>6. CASE p # RAW /\ ~is_in_device(p) /\ param[p].data # JUNK /\ KeepParam(p)
             /\ UNCHANGED made /\ SyncToDevice(p) /\ AddInput(p, Fresh(Unused), TRUE)
             /\ Quiet /\ UNCHANGED pc
    <2>1. raised' = raised /\ pc' = pc /\ made' = made
      BY <1>6 DEF Quiet
    <2>2. Fresh(Unused) \in Buffers /\ Fresh(Unused) # NULL
      BY <1>0, <1>6, FreshBuffer DEF SyncToDevice, Malloc
    <2>3. /\ run' \in Runs /\ run'.todo = Tail(run.todo) /\ SameTemps
          /\ run'.output_params = run.output_params
          /\ Elements(run'.input_params) \subseteq Elements(run.input_params) \cup {p}
      BY <1>0, <1>4, <1>6, <2>2, AddInputFacts
    <2> DEFINE v == param[p].data
    <2>4. /\ Malloc(v) /\ latest' = [latest EXCEPT ![p] = v] /\ param[p].ptr = NULL
          /\ param' = [param EXCEPT ![p].ptr = Fresh(Unused), ![p].dev = runner]
      BY <1>6 DEF SyncToDevice, is_in_device
    <2>5. v \in Int /\ p \in Params
      BY <1>0, <1>4, <1>6 DEF TypeOK, Parameters
    <2>6. /\ param' \in [Params -> Parameters]
          /\ param'[p].ptr = Fresh(Unused) /\ param'[p].dev = runner
          /\ \A q \in Params \ {p} : param'[q] = param[q]
      <3>1. param \in [Params -> Parameters] /\ runner \in 0 .. MaxRunners
        BY <1>0 DEF TypeOK
      <3> QED BY <2>2, <2>4, <2>5, <3>1 DEF Parameters
    <2> HIDE DEF v
    <2>7. live' \subseteq Buffers /\ mem' \in [Buffers -> Int] /\ latest' \in [Params -> Int]
      BY <1>0, <2>2, <2>4, <2>5 DEF Malloc, TypeOK
    <2>8. TypeOK'
      BY <1>0, <1>4, <1>6, <2>1, <2>3, <2>6, <2>7 DEF TypeOK, kernels
    <2>9. Stages'
      BY <1>0, <2>1, <2>3 DEF Stages, SameTemps, kernels
    <2>10. UsesMade'
      <3>1. \A q \in Params : param'[q].ptr # NULL => q \in made' /\ param'[q].dev # NULL
        BY <1>0, <1>4, <1>6, <2>1, <2>6 DEF UsesMade, NULL
      <3> QED BY <1>0, <1>1, <1>4, <1>6, <2>1, <2>3, <3>1 DEF UsesMade
    <2> QED BY <1>0, <1>4, <1>6, <2>1, <2>3, <2>4, <2>5, <2>6, <2>8, <2>9, <2>10, ToDeviceInv
  <1>7. CASE /\ p # RAW /\ ~is_in_device(p) /\ KeepParam(p) /\ UNCHANGED <<made, latest>>
             /\ Throw /\ (UNCHANGED device \/ Malloc(JUNK))
             /\ param' = [param EXCEPT ![p].dev = runner]
    <2>1. /\ param' \in [Params -> Parameters]
          /\ \A q \in Params : /\ param'[q].ptr = param[q].ptr
                               /\ param[q].ptr # NULL => param'[q].dev # NULL
      <3>1. param \in [Params -> Parameters] /\ runner \in 0 .. MaxRunners
        BY <1>0 DEF TypeOK
      <3>2. /\ param' \in [Params -> Parameters]
            /\ \A q \in Params : param'[q].ptr = param[q].ptr
            /\ \A q \in Params \ {p} : param'[q].dev = param[q].dev
        BY <1>4, <1>7, <3>1 DEF Parameters
      <3>3. param[p].ptr = NULL
        BY <1>7 DEF is_in_device
      <3> QED BY <1>0, <3>2, <3>3 DEF UsesMade
    <2> QED BY <1>0, <1>4, <1>7, <2>1, ThrowInv DEF kernels
  <1>8. CASE /\ p # RAW /\ ~is_in_device(p) /\ KeepParam(p) /\ UNCHANGED made
             /\ MallocFails \/ FillFails
             /\ param' = [param EXCEPT ![p].dev = runner] /\ UNCHANGED latest
    BY <1>7, <1>8, MallocFailsCases
  <1>9. CASE /\ p # RAW /\ ~is_in_device(p) /\ KeepParam(p) /\ Throw
             /\ param' = [param EXCEPT ![p].dev = runner]
             /\ UNCHANGED <<device, made, latest, failures>>
    BY <1>7, <1>9
  <1> QED BY <1>2, <1>3, <1>5, <1>6, <1>8, <1>9 DEF FillInput, p

\* An output is an input again, or a new parameter on the device.
LEMMA FillOutputInv ==
  ASSUME IInv, FillOutput
  PROVE  IInv'
  <1>0. /\ pc = "inputs" /\ open /\ runner # 0 /\ runner \in 1 .. MaxRunners
        /\ UNCHANGED <<runner, open, failed, lost, kernels, runs>>
        /\ TypeOK /\ Stages /\ UsesMade
    BY ConstantsAssumption DEF FillOutput, IInv, Stages, TypeOK
  <1>1. CASE \E i \in RefOf(run.refs) :
               /\ InList(i, Len(run.input_params))
               /\ LET p == run.input_params[Position(i, Len(run.input_params))] IN
                    AddOutput(p, param[p].ptr) /\ KeepParam(p)
               /\ Quiet /\ UNCHANGED <<device, objects, pc>>
    <2>1. PICK i \in RefOf(run.refs) :
               /\ InList(i, Len(run.input_params))
               /\ LET p == run.input_params[Position(i, Len(run.input_params))] IN
                    AddOutput(p, param[p].ptr) /\ KeepParam(p)
               /\ Quiet /\ UNCHANGED <<device, objects, pc>>
      BY <1>1
    <2> DEFINE n == Len(run.input_params)
               p == run.input_params[Position(i, n)]
    <2>2. p \in made /\ p \in Params
      <3>1. i \in Int
        BY <1>0, <2>1, ConstantsAssumption DEF RefOf, TypeOK, Runs
      <3>2. run.input_params \in Seq(Params) /\ n \in Nat
        BY <1>0 DEF TypeOK, Runs
      <3> HIDE DEF n
      <3>3. Position(i, n) \in 1 .. n
        BY <2>1, <3>1, <3>2 DEF InList, Position, n
      <3>4. p \in Elements(run.input_params)
        BY <3>3 DEF Elements, n
      <3> QED BY <1>0, <3>4 DEF UsesMade, TypeOK
    <2>3. AddOutput(p, param[p].ptr) /\ KeepParam(p)
      BY <2>1
    <2> HIDE DEF p
    <2>4. raised' = raised /\ pc' = pc
      BY <2>1 DEF Quiet
    <2>5. /\ run' \in Runs /\ run'.todo = run.todo /\ SameTemps
          /\ run'.input_params = run.input_params
          /\ Elements(run'.output_params) = Elements(run.output_params) \cup {p}
      <3>1. param[p].ptr \in Buffers \cup {NULL}
        BY <1>0, <2>2 DEF TypeOK, Parameters
      <3> QED BY <1>0, <2>2, <2>3, <3>1, AddOutputFacts
    <2>6. /\ _kernel_params' \in [1 .. MaxRunners -> Seq(Params)]
          /\ \A r \in 1 .. MaxRunners :
               /\ Elements(_kernel_params[r]) \subseteq Elements(_kernel_params'[r])
               /\ Elements(_kernel_params'[r]) \subseteq made
      BY <1>0, <2>2, <2>3, KeepParamFacts DEF UsesMade
    <2>7. TypeOK'
      BY <1>0, <2>1, <2>4, <2>5, <2>6 DEF TypeOK, kernels, device, objects
    <2>8. Stages'
      BY <1>0, <2>4, <2>5 DEF Stages, SameTemps, kernels
    <2>9. UsesMade'
      BY <1>0, <2>1, <2>2, <2>5, <2>6 DEF UsesMade, objects
    <2>10. ASSUME ~lost PROVE Memory' /\ Keeping'
      <3>1. Memory /\ Keeping
        BY <2>10 DEF IInv
      <3>2. Memory'
        BY <1>0, <2>1, <2>4, <2>5, <2>7, <2>9, <3>1, MemoryQuiet DEF device, objects
      <3>3. Keeping'
        BY <1>0, <2>1, <2>4, <2>6, <2>7, <2>9, <3>1, KeepingGrows DEF objects
      <3> QED BY <3>2, <3>3
    <2> QED BY <1>0, <2>7, <2>8, <2>9, <2>10 DEF IInv
  <1>2. CASE Throw /\ UNCHANGED <<device, objects, _kernel_params, failures>>
    BY <1>0, <1>2, ThrowOnly DEF runners, kernels
  <1>3. CASE (MallocFails \/ FillFails) /\ UNCHANGED <<objects, _kernel_params>>
    BY <1>0, <1>3, MallocFailsCases, ThrowOnly DEF runners, kernels
  <1>4. CASE /\ made # Params
             /\ Malloc(ZERO) /\ made' = made \cup {NewParam}
             /\ param' = [param EXCEPT ![NewParam] =
                            [ptr |-> Fresh(Unused), data |-> JUNK, dev |-> runner]]
             /\ latest' = [latest EXCEPT ![NewParam] = ZERO]
             /\ AddOutput(NewParam, Fresh(Unused)) /\ KeepParam(NewParam)
             /\ Quiet /\ UNCHANGED pc
    <2>1. raised' = raised /\ pc' = pc
      BY <1>4 DEF Quiet
    <2>2. NewParam \in Params /\ NewParam \notin made
      BY <1>0, <1>4, NewParamIsNew
    <2>3. Fresh(Unused) \in Buffers /\ Fresh(Unused) # NULL
      BY <1>0, <1>4, FreshBuffer DEF Malloc
    <2>4. /\ live' \subseteq Buffers /\ mem' \in [Buffers -> Int] /\ latest' \in [Params -> Int]
      BY <1>0, <1>4, <2>2, <2>3 DEF Malloc, TypeOK, ZERO
    <2>5. param[NewParam].ptr = NULL
      BY <1>0, <2>2 DEF UsesMade
    <2>6. /\ param' \in [Params -> Parameters] /\ param'[NewParam].ptr = Fresh(Unused)
          /\ param'[NewParam].dev = runner
          /\ \A q \in Params \ {NewParam} : param'[q] = param[q]
      <3>1. [ptr |-> Fresh(Unused), data |-> JUNK, dev |-> runner] \in Parameters
        BY <1>0, <2>3 DEF Parameters, JUNK, TypeOK
      <3> QED BY <1>0, <1>4, <2>2, <3>1 DEF TypeOK
    <2>7. /\ _kernel_params' \in [1 .. MaxRunners -> Seq(Params)]
          /\ \A r \in 1 .. MaxRunners : Elements(_kernel_params'[r]) \subseteq made'
      BY <1>0, <1>4, <2>2, KeepParamFacts DEF UsesMade
    <2>8. \A q \in Params : param'[q].ptr # NULL => q \in made' /\ param'[q].dev # NULL
      BY <1>0, <1>4, <2>2, <2>6 DEF UsesMade, NULL
    <2>9. /\ run' \in Runs /\ run'.todo = run.todo /\ SameTemps
          /\ run'.input_params = run.input_params
          /\ Elements(run'.output_params) = Elements(run.output_params) \cup {NewParam}
      BY <1>0, <1>4, <2>2, <2>3, AddOutputFacts
    <2>10. TypeOK'
      BY <1>0, <1>4, <2>1, <2>2, <2>4, <2>6, <2>7, <2>9 DEF TypeOK, kernels
    <2>11. Stages'
      BY <1>0, <2>1, <2>9 DEF Stages, SameTemps, kernels
    <2>12. UsesMade'
      BY <1>0, <1>4, <2>7, <2>8, <2>9 DEF UsesMade
    <2>13. Malloc(ZERO) /\ latest' = [latest EXCEPT ![NewParam] = ZERO] /\ NewParam \in made'
           /\ KeepParam(NewParam)
      BY <1>4
    <2> QED BY <1>0, <2>1, <2>2, <2>5, <2>6, <2>9, <2>10, <2>11, <2>12, <2>13, ToDeviceInv
  <1> QED BY <1>1, <1>2, <1>3, <1>4 DEF FillOutput

\* A workspace buffer is one that nothing else refers to.
LEMMA FillWorkspaceInv ==
  ASSUME IInv, FillWorkspace
  PROVE  IInv'
  <1>0. /\ pc = "inputs" /\ UNCHANGED <<objects, runners, kernels, runs>>
        /\ TypeOK /\ Stages /\ UsesMade
    BY DEF FillWorkspace, FilledOutputs, IInv
  <1>1. CASE MallocFails
    BY <1>0, <1>1, MallocFailsCases, ThrowOnly DEF kernels
  <1>2. CASE /\ Malloc(JUNK) /\ Quiet /\ UNCHANGED pc
             /\ run' = [run EXCEPT !.workspace = Append(@, Fresh(Unused)),
                                   !.kernel_args = Append(@, Fresh(Unused))]
    <2> DEFINE x == Fresh(Unused)
    <2>1. raised' = raised /\ pc' = pc
      BY <1>2 DEF Quiet
    <2>2. x \in Buffers
      BY <1>0, <1>2, FreshBuffer DEF Malloc
    <2>3. live' \subseteq Buffers /\ mem' \in [Buffers -> Int]
      BY <1>0, <1>2, <2>2 DEF Malloc, TypeOK, JUNK
    <2>4. /\ run' \in Runs /\ run'.todo = run.todo /\ run'.input_params = run.input_params
          /\ run'.output_params = run.output_params
          /\ run'.workspace = Append(run.workspace, x) /\ run'.tiling = run.tiling
      <3> DEFINE space == Append(run.workspace, x)
                 args == Append(run.kernel_args, x)
      <3>1. run \in Runs /\ space \in Seq(Buffers) /\ args \in Seq(Buffers \cup {NULL})
        BY <1>0, <2>2 DEF TypeOK, Runs
      <3>2. run' = [run EXCEPT !.workspace = space, !.kernel_args = args]
        BY <1>2
      <3> HIDE DEF space, args
      <3>3. /\ run' \in Runs /\ run'.todo = run.todo /\ run'.input_params = run.input_params
            /\ run'.output_params = run.output_params
            /\ run'.workspace = space /\ run'.tiling = run.tiling
        BY <3>1, <3>2 DEF Runs
      <3> QED BY <3>3 DEF space
    <2>5. TypeOK'
      BY <1>0, <2>1, <2>3, <2>4 DEF TypeOK, objects, runners, kernels
    <2>6. Stages'
      BY <1>0, <2>1, <2>4 DEF Stages, runners, kernels
    <2>7. UsesMade'
      BY <1>0, <2>4 DEF UsesMade, objects, runners
    <2>8. ASSUME ~lost PROVE Memory' /\ Keeping'
      <3>1. Memory /\ Keeping
        BY <2>8 DEF IInv
      <3>2. Memory'
        BY <1>0, <1>2, <2>1, <2>4, <2>5, <2>7, <3>1, MemoryToOther DEF objects
      <3>3. Keeping'
        BY <1>0, <2>1, <2>5, <2>7, <3>1, KeepingGrows DEF objects, runners
      <3> QED BY <3>2, <3>3
    <2> QED BY <1>0, <2>5, <2>6, <2>7, <2>8 DEF IInv, runners
  <1> QED BY <1>1, <1>2 DEF FillWorkspace

\* So is the buffer of the tiling data.
LEMMA FillTilingInv ==
  ASSUME IInv, FillTiling
  PROVE  IInv'
  <1>0. /\ pc = "inputs" /\ UNCHANGED <<objects, runners, kernels, runs>>
        /\ TypeOK /\ Stages /\ UsesMade /\ Launches \in Nat /\ run \in Runs
    BY ConstantsAssumption DEF FillTiling, FilledOutputs, IInv, Launches, TypeOK
  <1>1. CASE Throw /\ (UNCHANGED device \/ Malloc(JUNK))
    BY <1>0, <1>1, ThrowOnly DEF kernels
  <1>2. CASE /\ run' = [run EXCEPT !.times = Launches]
             /\ Goto("execute") /\ Quiet /\ UNCHANGED device
    <2>1. raised' = raised /\ pc' = "execute"
      BY <1>2 DEF Quiet, Goto
    <2>2. /\ run' \in Runs /\ run'.todo = run.todo /\ run'.input_params = run.input_params
          /\ run'.output_params = run.output_params /\ SameTemps
      BY <1>0, <1>2 DEF Runs, SameTemps
    <2>3. TypeOK'
      BY <1>0, <1>2, <2>1, <2>2 DEF TypeOK, device, objects, runners, kernels
    <2>4. Stages'
      BY <1>0, <2>1, <2>2 DEF Stages, runners, kernels
    <2>5. UsesMade'
      BY <1>0, <2>2 DEF UsesMade, objects, runners
    <2> QED BY <1>0, <1>2, <2>1, <2>2, <2>3, <2>4, <2>5, QuietInv
  <1>3. CASE /\ Malloc(HOST)
             /\ run' = [run EXCEPT !.tiling = <<Fresh(Unused)>>,
                                   !.kernel_args = Append(@, Fresh(Unused)),
                                   !.times = Launches]
             /\ Goto("execute") /\ Quiet
    <2> DEFINE x == Fresh(Unused)
    <2>1. raised' = raised /\ pc' = "execute"
      BY <1>3 DEF Quiet, Goto
    <2>2. x \in Buffers
      BY <1>0, <1>3, FreshBuffer DEF Malloc
    <2>3. live' \subseteq Buffers /\ mem' \in [Buffers -> Int]
      BY <1>0, <1>3, <2>2 DEF Malloc, TypeOK, HOST
    <2>4. /\ run' \in Runs /\ run'.todo = run.todo /\ run'.input_params = run.input_params
          /\ run'.output_params = run.output_params
          /\ run'.workspace = run.workspace /\ run'.tiling = <<x>>
      <3> DEFINE one == <<x>>
                 args == Append(run.kernel_args, x)
      <3>1. one \in Seq(Buffers) /\ args \in Seq(Buffers \cup {NULL})
        BY <1>0, <2>2 DEF TypeOK, Runs
      <3>2. run' = [run EXCEPT !.tiling = one, !.kernel_args = args, !.times = Launches]
        BY <1>3
      <3> HIDE DEF one, args
      <3>3. /\ run' \in Runs /\ run'.todo = run.todo /\ run'.input_params = run.input_params
            /\ run'.output_params = run.output_params
            /\ run'.workspace = run.workspace /\ run'.tiling = one
        BY <1>0, <3>1, <3>2 DEF Runs
      <3> QED BY <3>3 DEF one
    <2>5. TypeOK'
      BY <1>0, <2>1, <2>3, <2>4 DEF TypeOK, objects, runners, kernels
    <2>6. Stages'
      BY <1>0, <2>1, <2>4 DEF Stages, runners, kernels
    <2>7. UsesMade'
      BY <1>0, <2>4 DEF UsesMade, objects, runners
    <2>8. ASSUME ~lost PROVE Memory' /\ Keeping'
      <3>1. Memory /\ Keeping /\ run.tiling = <<>>
        BY <1>0, <2>8 DEF IInv, Stages
      <3>2. Memory'
        BY <1>0, <1>3, <2>1, <2>4, <2>5, <2>7, <3>1, MemoryToOther DEF objects
      <3>3. Keeping'
        BY <1>0, <2>1, <2>5, <2>7, <3>1, KeepingGrows DEF objects, runners
      <3> QED BY <3>2, <3>3
    <2> QED BY <1>0, <2>5, <2>6, <2>7, <2>8 DEF IInv, runners
  <1>4. CASE MallocFails \/ FillFails
    BY <1>1, <1>4, MallocFailsCases
  <1> QED BY <1>1, <1>2, <1>3, <1>4 DEF FillTiling

-----------------------------------------------------------------------------
\* Profiling starts on the open runner's stream, and touches no memory.
LEMMA StartProfilingInv ==
  ASSUME IInv, StartProfiling
  PROVE  IInv'
  <1>1. /\ pc = "execute" /\ UNCHANGED <<device, objects, runners, binaries, stub_func_p, runs>>
        /\ TypeOK /\ Stages /\ UsesMade
    BY DEF StartProfiling, IInv
  <1>2. CASE profiling' = (profiling \/ runner \in Profiled) /\ Goto("register")
             /\ Quiet /\ UNCHANGED run
    <2>1. raised' = raised /\ pc' = "register" /\ run' = run
      BY <1>2 DEF Quiet, Goto
    <2>2. TypeOK'
      BY <1>1, <1>2, <2>1 DEF TypeOK, device, objects, runners
    <2>3. Stages'
      BY <1>1, <1>2, <2>1 DEF Stages, runners
    <2>4. UsesMade'
      BY <1>1, <2>1 DEF UsesMade, objects, runners
    <2> QED BY <1>1, <2>1, <2>2, <2>3, <2>4, QuietInv DEF SameTemps
  <1>3. CASE Raise /\ UNCHANGED profiling
    BY <1>1, <1>3, ThrowOnly DEF Raise
  <1> QED BY <1>2, <1>3 DEF StartProfiling

\* The registration of the kernel concerns the kernel only.
LEMMA RegisterInv ==
  ASSUME IInv, Register
  PROVE  IInv'
  <1>1. /\ pc = "register" /\ UNCHANGED <<device, objects, runners, profiling, runs>>
        /\ TypeOK /\ Stages /\ UsesMade
    BY DEF Register, IInv
  <1>2. CASE Goto("launch") /\ Quiet /\ UNCHANGED run
    <2>1. raised' = raised /\ pc' = "launch" /\ run' = run
      BY <1>2 DEF Quiet, Goto
    <2>2. TypeOK'
      BY <1>1, <2>1 DEF TypeOK, device, objects, runners
    <2>3. Stages'
      BY <1>1, <2>1 DEF Stages, runners
    <2>4. UsesMade'
      BY <1>1, <2>1 DEF UsesMade, objects, runners
    <2> QED BY <1>1, <2>1, <2>2, <2>3, <2>4, QuietInv DEF SameTemps
  <1>3. CASE Raise
    BY <1>1, <1>3, ThrowOnly DEF Raise
  <1> QED BY <1>2, <1>3 DEF Register

\* Profiling stops with the last launch.
LEMMA StopProfilingInv ==
  ASSUME IInv, StopProfiling
  PROVE  IInv'
  <1>1. /\ pc = "launch" /\ UNCHANGED <<device, objects, runners, binaries, stub_func_p, runs>>
        /\ TypeOK /\ Stages /\ UsesMade
    BY DEF StopProfiling, IInv
  <1>2. CASE profiling' = (profiling /\ runner \notin Profiled) /\ Goto("free")
             /\ Quiet /\ UNCHANGED run
    <2>1. raised' = raised /\ pc' = "free" /\ run' = run
      BY <1>2 DEF Quiet, Goto
    <2>2. TypeOK'
      BY <1>1, <1>2, <2>1 DEF TypeOK, device, objects, runners
    <2>3. Stages'
      BY <1>1, <1>2, <2>1 DEF Stages, runners
    <2>4. UsesMade'
      BY <1>1, <2>1 DEF UsesMade, objects, runners
    <2> QED BY <1>1, <2>1, <2>2, <2>3, <2>4, QuietInv DEF SameTemps
  <1>3. CASE Raise /\ UNCHANGED profiling
    BY <1>1, <1>3, ThrowOnly DEF Raise
  <1> QED BY <1>2, <1>3 DEF StopProfiling

\* A kernel writes the buffers of its outputs, and what was last written to an
\* output changes with them, since no other parameter has one of these buffers.
LEMMA WrittenFacts ==
  ASSUME IInv, Written, run.output_params \in Seq(Params)
  PROVE  /\ mem' \in [Buffers -> Int] /\ latest' \in [Params -> Int]
         /\ Pointers => \A p \in OnDevice : mem'[param[p].ptr] = latest'[p]
  <1>1. mem' \in [Buffers -> Int] /\ latest' \in [Params -> Int]
    BY DEF Written, IInv, TypeOK
  <1>2. ASSUME Pointers, NEW p \in OnDevice
        PROVE  mem'[param[p].ptr] = latest'[p]
    <2>1. /\ param[p].ptr \in live /\ mem[param[p].ptr] = latest[p]
          /\ param[p].ptr # NULL /\ p \in Params
          /\ param[p].ptr \in Buffers
      BY <1>2 DEF Pointers, OnDevice, IInv, TypeOK
    <2>2. param[p].ptr \in OutputBuffers <=> p \in Elements(run.output_params)
      <3>1. ASSUME NEW q \in Elements(run.output_params), param[q].ptr = param[p].ptr
            PROVE  q = p
        BY <1>2, <2>1, <3>1 DEF IInv, UsesMade, OnDevice, Pointers
      <3> QED BY <3>1 DEF OutputBuffers
    <2> QED BY <2>1, <2>2 DEF Written
  <1> QED BY <1>1, <1>2

\* A launch, successful or not, leaves every pointer with what was last written.
LEMMA LaunchInv ==
  ASSUME IInv, Launch
  PROVE  IInv'
  <1>1. /\ pc = "launch" /\ UNCHANGED <<live, param, made, runners, kernels, runs>>
        /\ TypeOK /\ Stages /\ UsesMade /\ run \in Runs /\ run.times \in Nat /\ run.times > 0
        /\ run.output_params \in Seq(Params)
    BY DEF Launch, IInv, TypeOK, Runs
  <1>2. Written \/ UNCHANGED <<mem, latest>>
    BY DEF Launch
  <1>3. /\ mem' \in [Buffers -> Int] /\ latest' \in [Params -> Int]
        /\ Pointers => \A p \in OnDevice : mem'[param[p].ptr] = latest'[p]
    <2>1. CASE Written
      BY <1>1, <2>1, WrittenFacts
    <2>2. CASE UNCHANGED <<mem, latest>>
      BY <1>1, <2>2 DEF TypeOK, Pointers
    <2> QED BY <1>2, <2>1, <2>2
  <1>4. OnDevice' = OnDevice /\ Held' = Held
    BY <1>1 DEF OnDevice, Held
  <1>5. Pointers => Pointers'
    BY <1>1, <1>3, <1>4 DEF Pointers
  <1>6. CASE run' = [run EXCEPT !.times = @ - 1] /\ Quiet /\ UNCHANGED pc
    <2>1. raised' = raised /\ pc' = pc
      BY <1>6 DEF Quiet
    <2>2. /\ run' \in Runs /\ run'.todo = run.todo /\ run'.input_params = run.input_params
          /\ run'.output_params = run.output_params /\ SameTemps
      <3> DEFINE n == run.times - 1
      <3>1. n \in Nat /\ run' = [run EXCEPT !.times = n]
        BY <1>1, <1>6
      <3> HIDE DEF n
      <3> QED BY <1>1, <3>1 DEF Runs, SameTemps
    <2>3. TypeOK'
      BY <1>1, <1>3, <2>1, <2>2 DEF TypeOK, runners, kernels
    <2>4. Stages'
      BY <1>1, <2>1, <2>2 DEF Stages, runners, kernels
    <2>5. UsesMade'
      BY <1>1, <2>2 DEF UsesMade, runners
    <2>6. ASSUME ~lost PROVE Memory' /\ Keeping'
      <3>1. Memory /\ Keeping
        BY <2>6 DEF IInv
      <3>2. Temps' = Temps
        BY <2>2 DEF SameTemps, Temps
      <3>3. TempsSound'
        BY <1>1, <1>4, <2>1, <2>2, <3>1, <3>2 DEF Memory, TempsSound, SameTemps, Distinct
      <3>4. Keeping'
        BY <1>1, <2>1, <2>3, <2>5, <3>1, KeepingGrows DEF runners
      <3> QED BY <1>5, <3>1, <3>3, <3>4 DEF Memory
    <2> QED BY <1>1, <2>3, <2>4, <2>5, <2>6 DEF IInv, runners
  <1>7. CASE Raise
    <2>1. raised' = TRUE /\ pc' = "idle" /\ run' = NoRun
      BY <1>7 DEF Raise, Throw, Goto
    <2>2. TypeOK'
      BY <1>1, <1>3, <2>1, NoRunFacts DEF TypeOK, runners, kernels
    <2>3. Stages'
      BY <1>1, <2>1, NoRunFacts DEF Stages, runners, kernels
    <2>4. UsesMade'
      BY <1>1, <2>1, NoRunFacts DEF UsesMade, runners
    <2>5. ASSUME ~lost PROVE Memory' /\ Keeping'
      <3>1. Memory /\ Keeping
        BY <2>5 DEF IInv
      <3>2. Elements(run'.workspace) = {} /\ Elements(run'.tiling) = {} /\ Temps' = {}
        BY <2>1, NoRunFacts DEF Temps
      <3>3. Distinct(run'.workspace) /\ Distinct(run'.tiling)
        BY <2>1, NoRunFacts DEF Distinct
      <3>4. TempsSound'
        BY <2>1, <3>2, <3>3 DEF TempsSound
      <3>5. Keeping'
        BY <1>1, <2>1, <2>2, <2>4, <3>1, KeepingGrows DEF runners
      <3> QED BY <1>5, <3>1, <3>4, <3>5 DEF Memory
    <2> QED BY <1>1, <2>2, <2>3, <2>4, <2>5 DEF IInv, runners
  <1> QED BY <1>6, <1>7 DEF Launch

\* The buffer freed at the end of run is a temporary one, and no pointer's.
LEMMA FreeTemporaryInv ==
  ASSUME IInv, FreeTemporary
  PROVE  IInv'
  <1>1. /\ pc = "free" /\ UNCHANGED <<mem, objects, runners, kernels, runs>>
        /\ TypeOK /\ Stages /\ UsesMade /\ run \in Runs
        /\ run.workspace \in Seq(Buffers) /\ run.tiling \in Seq(Buffers)
        /\ Temporary # <<>>
    BY DEF FreeTemporary, IInv, TypeOK, Runs
  <1>2. CASE Raise /\ UNCHANGED live
    BY <1>1, <1>2, ThrowOnly DEF Raise, device, kernels
  <1>3. CASE /\ live' = live \ {Head(Temporary)} /\ Quiet /\ UNCHANGED pc
             /\ run' = IF run.workspace # <<>> THEN [run EXCEPT !.workspace = Tail(@)]
                                               ELSE [run EXCEPT !.tiling = Tail(@)]
    <2>1. raised' = raised /\ pc' = pc
      BY <1>3 DEF Quiet
    <2>2. PICK x \in Buffers :
            /\ Head(Temporary) = x
            /\ \/ /\ run.workspace # <<>> /\ x = Head(run.workspace)
                  /\ run' = [run EXCEPT !.workspace = Tail(run.workspace)]
               \/ /\ run.workspace = <<>> /\ run.tiling # <<>> /\ x = Head(run.tiling)
                  /\ run' = [run EXCEPT !.tiling = Tail(run.tiling)]
      <3>1. CASE run.workspace # <<>>
        <4>1. Head(Temporary) = Head(run.workspace) /\ Head(run.workspace) \in Buffers
          <5>1. Len(run.workspace) \in Nat \ {0} /\ Len(run.tiling) \in Nat
            BY <1>1, <3>1, EmptySeq
          <5>2. /\ Temporary \in Seq(Buffers)
                /\ \A i \in 1 .. Len(run.workspace) + Len(run.tiling) :
                     Temporary[i] = IF i <= Len(run.workspace) THEN run.workspace[i]
                                    ELSE run.tiling[i - Len(run.workspace)]
            BY <1>1, ConcatProperties DEF Temporary
          <5>3. 1 \in 1 .. Len(run.workspace) + Len(run.tiling) /\ 1 <= Len(run.workspace)
            <6>1. \A m \in Nat \ {0}, n \in Nat : 1 \in 1 .. m + n /\ 1 <= m
              OBVIOUS
            <6> QED BY <5>1, <6>1
          <5>5. Temporary[1] = run.workspace[1]
            BY <5>2, <5>3
          <5>4. Head(run.workspace) \in Buffers
            BY <1>1, <3>1, HeadTailProperties
          <5>6. Head(Temporary) = Temporary[1] /\ Head(run.workspace) = run.workspace[1]
            BY <1>1, <3>1, <5>2
          <5> QED BY <5>4, <5>5, <5>6
        <4> QED BY <1>3, <3>1, <4>1
      <3>2. CASE run.workspace = <<>>
        <4>1. Temporary = run.tiling /\ run.tiling # <<>>
          BY <1>1, <3>2, ConcatEmptySeq DEF Temporary
        <4>2. Head(run.tiling) \in Buffers
          BY <1>1, <4>1, HeadTailProperties
        <4> QED BY <1>3, <3>2, <4>1, <4>2
      <3> QED BY <3>1, <3>2
    <2>3. /\ run' \in Runs /\ run'.todo = run.todo /\ run'.input_params = run.input_params
          /\ run'.output_params = run.output_params
          /\ \/ /\ run.workspace # <<>> /\ x = Head(run.workspace)
                /\ run'.workspace = Tail(run.workspace) /\ run'.tiling = run.tiling
             \/ /\ run.tiling # <<>> /\ x = Head(run.tiling)
                /\ run'.tiling = Tail(run.tiling) /\ run'.workspace = run.workspace
      <3>1. CASE /\ run.workspace # <<>> /\ x = Head(run.workspace)
                 /\ run' = [run EXCEPT !.workspace = Tail(run.workspace)]
        <4>1. Tail(run.workspace) \in Seq(Buffers)
          BY <1>1, <3>1, HeadTailProperties
        <4> QED BY <1>1, <3>1, <4>1 DEF Runs
      <3>2. CASE /\ run.tiling # <<>> /\ x = Head(run.tiling)
                 /\ run' = [run EXCEPT !.tiling = Tail(run.tiling)]
        <4>1. Tail(run.tiling) \in Seq(Buffers)
          BY <1>1, <3>2, HeadTailProperties
        <4> QED BY <1>1, <3>2, <4>1 DEF Runs
      <3> QED BY <2>2, <3>1, <3>2
    <2>4. TypeOK'
      BY <1>1, <1>3, <2>1, <2>3 DEF TypeOK, objects, runners, kernels
    <2>5. Stages'
      BY <1>1, <2>1 DEF Stages, runners, kernels
    <2>6. UsesMade'
      BY <1>1, <2>3 DEF UsesMade, objects, runners
    <2>7. ASSUME ~lost PROVE Memory' /\ Keeping'
      <3>1. Memory /\ Keeping /\ TempsSound
        BY <2>7 DEF IInv, Memory
      <3>2. /\ x \in Temps /\ Temps' = Temps \ {x}
            /\ Distinct(run'.workspace) /\ Distinct(run'.tiling)
            /\ Elements(run'.workspace) \cap Elements(run'.tiling) = {}
        <4>1. CASE /\ run.workspace # <<>> /\ x = Head(run.workspace)
                   /\ run'.workspace = Tail(run.workspace) /\ run'.tiling = run.tiling
          <5>1. /\ x \in Elements(run.workspace) /\ x \notin Elements(run'.workspace)
                /\ Elements(run.workspace) = {x} \cup Elements(run'.workspace)
                /\ Distinct(run'.workspace)
            BY <1>1, <3>1, <4>1, ElementsFacts, DistinctFacts DEF TempsSound
          <5>2. Elements(run'.tiling) = Elements(run.tiling) /\ Distinct(run'.tiling)
            BY <3>1, <4>1 DEF TempsSound
          <5> QED BY <3>1, <5>1, <5>2 DEF TempsSound, Temps
        <4>2. CASE /\ run.tiling # <<>> /\ x = Head(run.tiling)
                   /\ run'.tiling = Tail(run.tiling) /\ run'.workspace = run.workspace
          <5>1. /\ x \in Elements(run.tiling) /\ x \notin Elements(run'.tiling)
                /\ Elements(run.tiling) = {x} \cup Elements(run'.tiling)
                /\ Distinct(run'.tiling)
            BY <1>1, <3>1, <4>2, ElementsFacts, DistinctFacts DEF TempsSound
          <5>2. Elements(run'.workspace) = Elements(run.workspace) /\ Distinct(run'.workspace)
            BY <3>1, <4>2 DEF TempsSound
          <5> QED BY <3>1, <5>1, <5>2 DEF TempsSound, Temps
        <4> QED BY <2>3, <4>1, <4>2
      <3>3. OnDevice' = OnDevice /\ Held' = Held
        BY <1>1 DEF OnDevice, Held, objects
      <3>4. x \notin Held /\ live' = live \ {x}
        BY <1>3, <2>2, <3>1, <3>2 DEF TempsSound
      <3>5. Pointers'
        BY <1>1, <3>1, <3>3, <3>4 DEF Memory, Pointers, Held, objects
      <3>6. TempsSound'
        BY <2>1, <3>1, <3>2, <3>3, <3>4 DEF TempsSound
      <3>7. Keeping'
        BY <1>1, <2>1, <2>4, <2>6, <3>1, KeepingGrows DEF objects, runners
      <3> QED BY <3>5, <3>6, <3>7 DEF Memory
    <2> QED BY <1>1, <2>4, <2>5, <2>6, <2>7 DEF IInv, runners
  <1> QED BY <1>2, <1>3 DEF FreeTemporary

\* run returns with its temporary buffers freed.
LEMMA ReturnInv ==
  ASSUME IInv, Return
  PROVE  IInv'
  <1>1. /\ pc = "free" /\ pc' = "idle" /\ run' = NoRun
        /\ UNCHANGED <<device, objects, runners, kernels, runs, raised>>
        /\ TypeOK /\ Stages /\ UsesMade /\ Temporary = <<>>
    BY DEF Return, Goto, IInv
  <1>2. run.workspace = <<>> /\ run.tiling = <<>>
    <2>1. run.workspace \in Seq(Buffers) /\ run.tiling \in Seq(Buffers)
      BY <1>1 DEF TypeOK, Runs
    <2> QED BY <1>1, <2>1, ConcatEqualIffEmpty DEF Temporary
  <1>3. TypeOK'
    BY <1>1, NoRunFacts DEF TypeOK, device, objects, runners, kernels
  <1>4. Stages'
    BY <1>1, NoRunFacts DEF Stages, runners, kernels
  <1>5. UsesMade'
    BY <1>1, NoRunFacts DEF UsesMade, objects, runners
  <1> QED BY <1>1, <1>2, <1>3, <1>4, <1>5, NoRunFacts, QuietInv DEF SameTemps

\* get_data changes what the host has, and no pointer.
LEMMA GetDataInv ==
  ASSUME IInv, NEW p \in Params, GetData(p)
  PROVE  IInv'
  <1>1. /\ pc = "idle" /\ p \in made /\ param[p].ptr # NULL
        /\ UNCHANGED <<device, made, latest, runners, kernels, runs>>
        /\ TypeOK /\ Stages /\ UsesMade
    BY DEF GetData, IInv
  <1>2. CASE Raise /\ UNCHANGED param
    BY <1>1, <1>2, ThrowOnly DEF Raise, objects, kernels
  <1>3. CASE /\ param' = [param EXCEPT ![p].data = mem[param[p].ptr]]
             /\ Quiet /\ UNCHANGED <<pc, run>>
    <2>1. raised' = raised /\ pc' = pc /\ run' = run
      BY <1>3 DEF Quiet
    <2>2. param \in [Params -> Parameters] /\ mem[param[p].ptr] \in Int
      <3>1. param[p].ptr \in Buffers
        BY <1>1 DEF TypeOK, Parameters
      <3> QED BY <1>1, <3>1 DEF TypeOK
    <2> DEFINE v == mem[param[p].ptr]
    <2>3. v \in Int /\ param' = [param EXCEPT ![p].data = v]
      BY <1>3, <2>2
    <2> HIDE DEF v
    <2>4. /\ param' \in [Params -> Parameters]
          /\ \A q \in Params : param'[q].ptr = param[q].ptr /\ param'[q].dev = param[q].dev
      BY <2>2, <2>3 DEF Parameters
    <2>5. TypeOK'
      BY <1>1, <2>1, <2>4 DEF TypeOK, device, runners, kernels
    <2>6. Stages'
      BY <1>1, <2>1 DEF Stages, runners, kernels
    <2>7. UsesMade'
      BY <1>1, <2>1, <2>4 DEF UsesMade, runners
    <2>8. ASSUME ~lost PROVE Memory' /\ Keeping'
      <3>1. Memory /\ Keeping
        BY <2>8 DEF IInv
      <3>2. Memory'
        BY <1>1, <2>1, <2>4, <2>5, <2>7, <3>1, MemoryQuiet DEF device, SameTemps
      <3>3. Keeping'
        BY <1>1, <2>1, <2>4, <2>5, <2>7, <3>1, KeepingGrows DEF runners
      <3> QED BY <3>2, <3>3
    <2> QED BY <1>1, <2>5, <2>6, <2>7, <2>8 DEF IInv, runners
  <1> QED BY <1>2, <1>3 DEF GetData

-----------------------------------------------------------------------------
\* Who leaves a runner has all that it kept still to release, and what is on
\* the device besides belongs to runners that have failed.
LEMMA ExitInv ==
  ASSUME IInv, Exit
  PROVE  IInv'
  <1>1. /\ pc = "idle" /\ open /\ pc' = "release"
        /\ run' = [NoRun EXCEPT !.todo = _kernel_params[runner]]
        /\ UNCHANGED <<device, objects, runners, kernels, runs, raised>>
        /\ TypeOK /\ Stages /\ UsesMade
    BY DEF Exit, Goto, IInv
  <1>2. /\ runner \in 1 .. MaxRunners /\ _kernel_params[runner] \in Seq(Params)
        /\ Elements(_kernel_params[runner]) \subseteq made /\ made \subseteq Params
    BY <1>1, ConstantsAssumption DEF TypeOK, Stages, UsesMade
  <1>3. /\ run' \in Runs /\ run'.todo = _kernel_params[runner]
        /\ run'.workspace = <<>> /\ run'.tiling = <<>>
        /\ run'.input_params = <<>> /\ run'.output_params = <<>>
    <2>1. NoRun \in Runs /\ NoRun.workspace = <<>> /\ NoRun.tiling = <<>>
          /\ NoRun.input_params = <<>> /\ NoRun.output_params = <<>>
      BY NoRunFacts
    <2>2. _kernel_params[runner] \in Seq(Params \cup {RAW})
      BY <1>2
    <2> QED BY <1>1, <2>1, <2>2 DEF Runs
  <1>4. TypeOK'
    BY <1>1, <1>3 DEF TypeOK, device, objects, runners, kernels
  <1>5. RAW \notin Elements(run'.todo)
    BY <1>2, <1>3, ConstantsAssumption
  <1>6. Stages'
    BY <1>1, <1>3, <1>5 DEF Stages, runners, kernels
  <1>7. UsesMade'
    BY <1>1, <1>2, <1>3, NoRunFacts DEF UsesMade, objects, runners
  <1>8. ASSUME ~lost PROVE Memory' /\ Keeping'
    <2>1. Memory /\ Keeping /\ run.workspace = <<>> /\ run.tiling = <<>>
      BY <1>1, <1>8 DEF IInv, Stages
    <2>2. Memory'
      BY <1>1, <1>3, <1>4, <1>7, <2>1, MemoryQuiet DEF device, objects, SameTemps
    <2>3. OnDevice' = OnDevice
      BY <1>1 DEF OnDevice, objects
    <2>4. ASSUME NEW p \in OnDevice PROVE Kept(p)' /\ Due(p)'
      <3>1. Kept(p)
        BY <2>1 DEF Keeping
      <3> QED BY <1>1, <1>3, <3>1 DEF Kept, Due, runners
    <2> QED BY <2>2, <2>3, <2>4 DEF Keeping
  <1> QED BY <1>1, <1>4, <1>6, <1>7, <1>8 DEF IInv, runners

\* Leaving a runner raises: it joins those that have failed, and with it what it
\* kept is accounted for.
LEMMA ExitRaisesInv ==
  ASSUME IInv, open, ExitRaises,
         UNCHANGED <<device, objects, runner, _kernel_params, lost, profiling, runs>>
  PROVE  IInv'
  <1>1. /\ raised' = TRUE /\ pc' = "idle" /\ run' = NoRun /\ open' = FALSE
        /\ failed' = failed \cup {runner} /\ runner \in 1 .. MaxRunners
        /\ TypeOK /\ Stages /\ UsesMade
    BY ConstantsAssumption DEF ExitRaises, Raise, Throw, Goto, IInv, Stages, TypeOK
  <1>2. TypeOK'
    BY <1>1, NoRunFacts DEF TypeOK, device, objects
  <1>3. Stages'
    BY <1>1, NoRunFacts DEF Stages
  <1>4. UsesMade'
    BY <1>1, NoRunFacts DEF UsesMade, objects
  <1>5. ASSUME ~lost PROVE Memory' /\ Keeping'
    <2>1. Memory /\ Keeping
      BY <1>5 DEF IInv
    <2>2. Memory'
      BY <1>1, <1>2, <1>4, <2>1, NoRunFacts, MemoryQuiet DEF device, objects
    <2>3. Keeping'
      BY <1>1, <1>2, <1>4, <2>1, KeepingGrows DEF objects
    <2> QED BY <2>2, <2>3
  <1> QED BY <1>2, <1>3, <1>4, <1>5 DEF IInv

\* release_device gives back the buffer of one parameter, which no other
\* parameter and nothing else uses.
LEMMA ReleaseDeviceInv ==
  ASSUME IInv, ReleaseDevice
  PROVE  IInv'
  <1> DEFINE p == Head(run.todo)
             frees == param[p].dev # NULL /\ param[p].ptr # NULL
  <1>1. /\ pc = "release" /\ run.todo # <<>> /\ open
        /\ UNCHANGED <<mem, made, latest, runner, _kernel_params, lost, kernels, runs>>
        /\ TypeOK /\ Stages /\ UsesMade /\ run \in Runs
        /\ run.workspace = <<>> /\ run.tiling = <<>>
    BY DEF ReleaseDevice, IInv, Stages, TypeOK
  <1>2. /\ p \in Elements(run.todo) /\ Tail(run.todo) \in Seq(Params \cup {RAW})
        /\ Elements(run.todo) = {p} \cup Elements(Tail(run.todo))
    <2>1. run.todo \in Seq(Params \cup {RAW})
      BY <1>1 DEF Runs
    <2> QED BY <1>1, <2>1, ElementsFacts
  <1>3. p \in Params /\ p \in made
    BY <1>1, <1>2 DEF Stages, UsesMade, TypeOK
  <1> HIDE DEF p
  <1>4. CASE frees /\ ExitRaises /\ UNCHANGED <<live, param>>
    BY <1>1, <1>4, ExitRaisesInv DEF device, objects, kernels
  <1>5. CASE /\ live' = IF frees THEN live \ {param[p].ptr} ELSE live
             /\ param' = [param EXCEPT ![p] = Released(@)]
             /\ run' = [run EXCEPT !.todo = Tail(@)]
             /\ Quiet /\ UNCHANGED <<pc, open, failed>>
    <2>1. raised' = raised /\ pc' = pc /\ open' = open /\ failed' = failed
      BY <1>5 DEF Quiet
    <2>2. /\ run' \in Runs /\ run'.todo = Tail(run.todo) /\ SameTemps
          /\ run'.input_params = run.input_params /\ run'.output_params = run.output_params
      <3> DEFINE rest == Tail(run.todo)
      <3>1. rest \in Seq(Params \cup {RAW}) /\ run' = [run EXCEPT !.todo = rest]
        BY <1>2, <1>5
      <3> HIDE DEF rest
      <3>2. /\ run' \in Runs /\ run'.todo = rest /\ SameTemps
            /\ run'.input_params = run.input_params /\ run'.output_params = run.output_params
        BY <1>1, <3>1 DEF Runs, SameTemps
      <3> QED BY <3>2 DEF rest
    <2>3. /\ param' \in [Params -> Parameters] /\ param'[p].ptr = NULL
          /\ \A q \in Params \ {p} : param'[q] = param[q]
      <3>1. /\ Released(param[p]) \in Parameters /\ Released(param[p]).ptr = NULL
        <4>1. param[p] \in Parameters /\ NULL \in 0 .. MaxRunners
          BY <1>1, <1>3, ConstantsAssumption DEF TypeOK, NULL
        <4> QED BY <4>1 DEF Parameters, Released
      <3> QED BY <1>1, <1>3, <1>5, <3>1 DEF TypeOK
    <2>4. TypeOK'
      BY <1>1, <1>5, <2>1, <2>2, <2>3 DEF TypeOK, kernels
    <2>5. Stages'
      BY <1>1, <1>2, <2>1, <2>2 DEF Stages, SameTemps, kernels
    <2>6. UsesMade'
      BY <1>1, <1>2, <2>2, <2>3 DEF UsesMade
    <2>7. ASSUME ~lost PROVE Memory' /\ Keeping'
      <3>1. Memory /\ Keeping /\ Pointers /\ TempsSound
        BY <2>7 DEF IInv, Memory
      <3>2. OnDevice' = OnDevice \ {p} /\ OnDevice \subseteq Params
        BY <1>1, <1>3, <2>3 DEF OnDevice, TypeOK
      <3>3. \A q \in OnDevice \ {p} : param'[q].ptr = param[q].ptr
        BY <2>3, <3>2
      <3>4. Temps = {} /\ Temps' = {} /\ Elements(run'.workspace) = {}
            /\ Elements(run'.tiling) = {}
        BY <1>1, <2>2, NoRunFacts DEF Temps, SameTemps
      <3>5. Pointers' /\ (~raised' => live' = Held')
        <4>1. CASE param[p].ptr # NULL
          <5>1. p \in OnDevice /\ live' = live \ {param[p].ptr}
            BY <1>1, <1>3, <1>5, <4>1 DEF OnDevice, UsesMade
          <5>2. \A q \in OnDevice \ {p} : param[q].ptr # param[p].ptr
            BY <3>1, <5>1 DEF Pointers
          <5>3. Pointers'
            BY <1>1, <3>1, <3>2, <3>3, <5>1, <5>2 DEF Pointers
          <5>4. Held = {param[p].ptr} \cup Held' /\ param[p].ptr \notin Held'
            BY <3>2, <3>3, <5>1, <5>2 DEF Held
          <5>5. ~raised => live = Held
            BY <3>1, <3>4 DEF TempsSound
          <5> QED BY <2>1, <5>1, <5>3, <5>4, <5>5
        <4>2. CASE param[p].ptr = NULL
          <5>1. p \notin OnDevice /\ live' = live /\ OnDevice' = OnDevice
            BY <1>5, <3>2, <4>2 DEF OnDevice
          <5>2. \A q \in OnDevice : param'[q].ptr = param[q].ptr
            BY <3>3, <5>1
          <5>3. Pointers'
            BY <1>1, <3>1, <5>1, <5>2 DEF Pointers
          <5>4. Held' = Held
            BY <5>1, <5>2 DEF Held
          <5> QED BY <2>1, <3>1, <3>4, <5>1, <5>3, <5>4 DEF TempsSound
        <4> QED BY <4>1, <4>2
      <3>6. Memory'
        <4>1. Distinct(run'.workspace) /\ Distinct(run'.tiling)
          BY <2>2, <3>1 DEF SameTemps, TempsSound
        <4> QED BY <3>4, <3>5, <4>1 DEF Memory, TempsSound
      <3>7. ASSUME NEW q \in OnDevice \ {p} PROVE Kept(q)' /\ Due(q)'
        <4>1. Kept(q) /\ Due(q)
          BY <1>1, <3>1 DEF Keeping
        <4>2. Kept(q)'
          BY <1>1, <2>1, <4>1 DEF Kept
        <4>3. Due(q)'
          BY <1>1, <1>2, <2>1, <2>2, <4>1 DEF Due
        <4> QED BY <4>2, <4>3
      <3> QED BY <3>2, <3>6, <3>7 DEF Keeping
    <2> QED BY <1>1, <2>4, <2>5, <2>6, <2>7 DEF IInv
  <1> QED BY <1>4, <1>5 DEF ReleaseDevice, p

\* The reset finds nothing on the device unless a runner has failed.
LEMMA ResetInv ==
  ASSUME IInv, Reset
  PROVE  IInv'
  <1>1. /\ pc = "release" /\ run.todo = <<>> /\ open
        /\ UNCHANGED <<mem, objects, runner, _kernel_params, binaries, stub_func_p, runs>>
        /\ TypeOK /\ Stages /\ UsesMade
    BY DEF Reset, IInv, Stages
  <1>2. CASE ExitRaises /\ UNCHANGED <<live, profiling, lost>>
    BY <1>1, <1>2, ExitRaisesInv DEF device
  <1>3. CASE /\ live' = {} /\ raised' = FALSE /\ open' = FALSE /\ profiling' = FALSE
             /\ Goto("idle") /\ run' = NoRun /\ lost' = (lost \/ failed # {})
             /\ UNCHANGED <<failures, failed>>
    <2>1. pc' = "idle"
      BY <1>3 DEF Goto
    <2>2. TypeOK'
      BY <1>1, <1>3, <2>1, NoRunFacts DEF TypeOK, objects
    <2>3. Stages'
      BY <1>1, <1>3, <2>1, NoRunFacts DEF Stages
    <2>4. UsesMade'
      BY <1>1, <1>3, NoRunFacts DEF UsesMade, objects
    <2>5. ASSUME ~lost' PROVE Memory' /\ Keeping'
      <3>1. ~lost /\ failed = {} /\ Keeping
        BY <1>3, <2>5 DEF IInv
      <3>2. \A p : ~Due(p)
        BY <1>1, <3>1, NoRunFacts DEF Due
      <3>3. OnDevice = {}
        BY <1>1, <3>1, <3>2 DEF Keeping
      <3>4. OnDevice' = {}
        BY <1>1, <3>3 DEF OnDevice, objects
      <3>5. Held' = {} /\ Elements(run'.workspace) = {} /\ Elements(run'.tiling) = {}
            /\ Temps' = {}
        BY <1>3, <3>4, NoRunFacts DEF Held, Temps
      <3>6. Distinct(run'.workspace) /\ Distinct(run'.tiling)
        BY <1>3, NoRunFacts DEF Distinct
      <3>7. TempsSound'
        BY <1>3, <3>5, <3>6 DEF TempsSound
      <3> QED BY <3>4, <3>7 DEF Memory, Pointers, Keeping
    <2> QED BY <2>2, <2>3, <2>4, <2>5 DEF IInv
  <1> QED BY <1>2, <1>3 DEF Reset

-----------------------------------------------------------------------------
\* At first there are no parameters and no buffers.
LEMMA InitInv == Init => IInv
  <1> SUFFICES ASSUME Init PROVE IInv
    OBVIOUS
  <1>1. TypeOK
    <2>1. [ptr |-> NULL, data |-> JUNK, dev |-> NULL] \in Parameters
      BY ConstantsAssumption DEF Parameters, JUNK, NULL
    <2>2. \A S : <<>> \in Seq(S)
      OBVIOUS
    <2>3. param \in [Params -> Parameters]
      BY <2>1 DEF Init
    <2>4. /\ mem \in [Buffers -> Int] /\ latest \in [Params -> Int]
          /\ _kernel_params \in [1 .. MaxRunners -> Seq(Params)]
      BY <2>2 DEF Init, JUNK
    <2>5. 0 \in 0 .. MaxRunners /\ run \in Runs
      BY NoRunFacts, ConstantsAssumption DEF Init
    <2> QED BY <2>3, <2>4, <2>5 DEF Init, TypeOK
  <1>2. Stages
    BY NoRunFacts DEF Init, Stages
  <1>3. UsesMade
    BY NoRunFacts DEF Init, UsesMade
  <1>4. OnDevice = {} /\ Held = {} /\ Temps = {}
    BY NoRunFacts DEF Init, OnDevice, Held, Temps
  <1>5. Memory /\ Keeping
    BY <1>4, NoRunFacts DEF Init, Memory, Pointers, TempsSound, Distinct, Keeping, Temps
  <1> QED BY <1>1, <1>2, <1>3, <1>5 DEF IInv

\* The invariant is inductive.
LEMMA NextInv == IInv /\ [Next]_vars => IInv'
  <1> SUFFICES ASSUME IInv, [Next]_vars PROVE IInv'
    OBVIOUS
  <1>1. CASE UNCHANGED vars
    BY <1>1 DEF vars, IInv, TypeOK, Stages, UsesMade, Memory, Pointers, TempsSound, Keeping,
      Kept, Due, Held, Temps, OnDevice
  <1>2. CASE Next
    BY <1>2, OpenInv, MakeParamInv, BuildKernelParamInv, StartRunInv, FillInputInv,
      FillOutputInv, FillWorkspaceInv, FillTilingInv, StartProfilingInv, RegisterInv,
      LaunchInv, StopProfilingInv, FreeTemporaryInv, ReturnInv, GetDataInv, ExitInv,
      ReleaseDeviceInv, ResetInv DEF Next
  <1> QED BY <1>1, <1>2

\* For every number of parameters, buffers, runners and runs, and failures of
\* the runtime anywhere: until the device is reset after a runner that failed to
\* release what it kept, each pointer has an allocated buffer of its own that
\* holds what was last written to its parameter, someone will release it, and
\* without an exception nothing is leaked.
THEOREM Safety == Spec => [](PointersLive /\ NoLeak /\ HoldsLatest)
  <1>1. IInv => PointersLive
    BY DEF IInv, Memory, Pointers, Keeping, Kept, PointersLive
  <1>2. IInv => HoldsLatest
    BY DEF IInv, Memory, Pointers, HoldsLatest
  <1>3. IInv => NoLeak
    <2> SUFFICES ASSUME IInv, ~raised, ~lost
                 PROVE  /\ pc = "idle" => ~profiling /\ live = Held
                        /\ pc = "release" /\ run.todo = <<>> => live = {}
      BY DEF NoLeak, Held
    <2>1. failed = {} /\ Keeping /\ live = Held \cup Temps
      BY DEF IInv, Stages, Memory, TempsSound
    <2>2. ASSUME pc \in {"idle", "release"} PROVE Temps = {} /\ ~profiling
      BY <2>2, NoRunFacts DEF IInv, Stages, Temps
    <2>3. ASSUME pc = "release", run.todo = <<>> PROVE Held = {}
      BY <2>1, <2>3, NoRunFacts DEF Keeping, Due, Held
    <2> QED BY <2>1, <2>2, <2>3
  <1> QED BY InitInv, NextInv, <1>1, <1>2, <1>3, PTL DEF Spec
=============================================================================
