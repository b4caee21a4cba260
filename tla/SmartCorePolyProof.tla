------------------------- MODULE SmartCorePolyProof -------------------------
(***************************************************************************)
(* Theorems about SmartCorePoly, for any jacks, voltages, routes and       *)
(* number of channels: the channel counts follow the engine's cables, no   *)
(* input shows a voltage of an earlier cable, and, where set_input keeps   *)
(* off unpatched jacks, the class implements SmartCoreProcessor.           *)
(***************************************************************************)
EXTENDS SmartCorePoly, WellFoundedInduction, TLAPS

\* Clamping gives a channel count.
LEMMA ClampedRange ==
    ASSUME NEW n \in Int
    PROVE  Clamped(n) \in 1 .. MaxPolyChannels
BY PolyAssumption DEF Clamped

\* Silence is a voltage on every channel.
LEMMA SilenceType == Silence \in [Channels -> Volts]
BY VoltsAssumption DEF Silence

\* Channel 0 exists.
LEMMA ZeroChannel == 0 \in Channels /\ Silence[0] = 0
BY PolyAssumption DEF Channels, Silence

\* The route the loop takes last is one of the valid routes to the output.
LEMMA RoutedInputType ==
    ASSUME NEW o, RoutesTo(o) # {}
    PROVE  RoutedInput(o) \in Inputs
<1> DEFINE n == Len(Routes)
           left == {n - k : k \in RoutesTo(o)}
           less == OpToRel(<, Nat)
<1>1. RoutesTo(o) \subseteq 1 .. n /\ n \in Nat
  BY RoutesAssumption DEF RoutesTo
<1>2. left \subseteq Nat /\ left # {}
  BY <1>1
<1>3. PICK m \in left : \A y \in left : ~(<<y, m>> \in less)
  BY <1>2, NatLessThanWellFounded, WFMin
<1>4. \A x, y \in Nat : x < y => <<x, y>> \in less
  BY DEF OpToRel
<1>5. PICK k \in RoutesTo(o) : m = n - k
  BY <1>3
<1>6. ASSUME NEW j \in RoutesTo(o) PROVE j <= k
  <2>1. n - j \in left /\ n - j \in Nat /\ m \in Nat
    BY <1>2, <1>3
  <2> HIDE DEF less, left, n
  <2>2. ~(n - j < m)
    BY <2>1, <1>3, <1>4
  <2> QED BY <2>2, <1>1, <1>5
<1>7. LastRoute(o) \in RoutesTo(o)
  BY <1>5, <1>6 DEF LastRoute
<1> QED BY <1>7 DEF RoutedInput, RoutesTo

-----------------------------------------------------------------------------
(***************************************************************************)
(* The invariant.                                                          *)
(***************************************************************************)

\* A module just constructed: nothing patched, all silent.
LEMMA InitIInv == Init => IInv
<1> SUFFICES ASSUME Init PROVE IInv
  OBVIOUS
<1> USE DEF Init
<1>1. TypeOK
  <2>1. 0 \in 0 .. MaxPolyChannels
    BY PolyAssumption
  <2>2. /\ inputValues \in [Inputs -> [Channels -> Volts]]
        /\ outputValues \in [Outputs -> [Channels -> Volts]]
        /\ sent \in [Inputs -> [Channels -> Volts]]
    BY SilenceType
  <2> QED BY <2>1, <2>2 DEF TypeOK
<1>2. CountsFollowCables /\ PresentCable /\ NothingSent /\ UnpatchedSilent
  BY DEF CountsFollowCables, PresentCable, NothingSent, UnpatchedSilent, Channels
<1> QED BY <1>1, <1>2 DEF IInv

\* A step that leaves the inputs alone leaves their conjuncts alone.
LEMMA InputsAlone ==
    ASSUME IInv, UNCHANGED ins, UNCHANGED bypassed \/ bypassed' \in BOOLEAN,
           outputValues' \in [Outputs -> [Channels -> Volts]],
           outputChannels' \in [Outputs -> 0 .. MaxPolyChannels],
           cabledOut' \subseteq Outputs,
           \A o \in Outputs : outputChannels'[o] > 0 <=> o \in cabledOut'
    PROVE  IInv'
<1>1. TypeOK'
  BY DEF IInv, TypeOK, ins
<1>2. CountsFollowCables' /\ PresentCable' /\ NothingSent' /\ (LateInput \/ UnpatchedSilent)'
  BY DEF IInv, CountsFollowCables, PresentCable, NothingSent, UnpatchedSilent, ins
<1> QED BY <1>1, <1>2 DEF IInv

\* A step that leaves the outputs alone leaves their conjuncts alone.
LEMMA OutputsAlone ==
    ASSUME IInv, UNCHANGED outs, UNCHANGED bypassed,
           inputValues' \in [Inputs -> [Channels -> Volts]],
           inputChannels' \in [Inputs -> 0 .. MaxPolyChannels],
           cabledIn' \subseteq Inputs,
           sent' \in [Inputs -> [Channels -> Volts]],
           \A i \in Inputs : inputChannels'[i] > 0 <=> i \in cabledIn',
           PresentCable', NothingSent', (LateInput \/ UnpatchedSilent)'
    PROVE  IInv'
<1>1. TypeOK'
  BY DEF IInv, TypeOK, outs
<1>2. CountsFollowCables'
  BY DEF IInv, CountsFollowCables, outs
<1> QED BY <1>1, <1>2 DEF IInv

\* A voltage sent to one input disturbs no other, and is recorded as sent.
LEMMA SetInputKeeps ==
    ASSUME IInv, NEW i \in Inputs, NEW v \in Volts, SetInput(i, v)
    PROVE  IInv'
<1> USE ZeroChannel DEF SetInput, IInv, TypeOK
<1>1. /\ inputValues' \in [Inputs -> [Channels -> Volts]]
      /\ sent' \in [Inputs -> [Channels -> Volts]]
  OBVIOUS
<1>2. PresentCable' /\ NothingSent'
  BY DEF PresentCable, NothingSent, CountsFollowCables
<1>3. (LateInput \/ UnpatchedSilent)'
  BY DEF UnpatchedSilent, CountsFollowCables
<1>4. \A j \in Inputs : inputChannels'[j] > 0 <=> j \in cabledIn'
  BY DEF CountsFollowCables
<1> QED BY <1>1, <1>2, <1>3, <1>4, OutputsAlone

\* So are the voltages of a polyphonic cable, on as many channels as it has.
LEMMA WriteInputBufferKeeps ==
    ASSUME IInv, NEW i \in Inputs, NEW n \in 1 .. MaxPolyChannels,
           NEW volts \in [Channels -> Volts], WriteInputBuffer(i, n, volts)
    PROVE  IInv'
<1> USE PolyAssumption DEF WriteInputBuffer, IInv, TypeOK
<1>1. /\ inputValues' \in [Inputs -> [Channels -> Volts]]
      /\ inputChannels' \in [Inputs -> 0 .. MaxPolyChannels]
      /\ sent' \in [Inputs -> [Channels -> Volts]]
  OBVIOUS
<1>2. PresentCable' /\ NothingSent'
  BY DEF PresentCable, NothingSent
<1>3. (LateInput \/ UnpatchedSilent)'
  BY DEF UnpatchedSilent
<1>4. \A j \in Inputs : inputChannels'[j] > 0 <=> j \in cabledIn'
  BY DEF CountsFollowCables
<1> QED BY <1>1, <1>2, <1>3, <1>4, OutputsAlone

\* A fresh cable silences the jack; one that is there already changes nothing.
LEMMA MarkInputPatchedKeeps ==
    ASSUME IInv, NEW i \in Inputs, MarkInputPatched(i)
    PROVE  IInv'
<1> USE SilenceType, PolyAssumption DEF MarkInputPatched, IInv, TypeOK
<1>1. /\ inputValues' \in [Inputs -> [Channels -> Volts]]
      /\ inputChannels' \in [Inputs -> 0 .. MaxPolyChannels]
      /\ sent' \in [Inputs -> [Channels -> Volts]]
      /\ cabledIn' \subseteq Inputs
  <2>1. CASE inputChannels[i] = 0
    <3>1. 1 \in 0 .. MaxPolyChannels
      OBVIOUS
    <3> QED BY <2>1, <3>1
  <2>2. CASE inputChannels[i] # 0
    BY <2>2
  <2> QED BY <2>1, <2>2
<1>2. PresentCable' /\ NothingSent'
  BY DEF PresentCable, NothingSent, CountsFollowCables
<1>3. (LateInput \/ UnpatchedSilent)'
  BY DEF UnpatchedSilent
<1>4. \A j \in Inputs : inputChannels'[j] > 0 <=> j \in cabledIn'
  BY DEF CountsFollowCables
<1> QED BY <1>1, <1>2, <1>3, <1>4, OutputsAlone

\* Unpatching leaves a jack without channels, and silent.
LEMMA MarkInputsUnpatchedKeeps ==
    ASSUME IInv, NEW jacks \in SUBSET Inputs, MarkInputsUnpatched(jacks)
    PROVE  IInv'
<1> USE SilenceType, PolyAssumption DEF MarkInputsUnpatched, IInv, TypeOK
<1>1. /\ inputValues' \in [Inputs -> [Channels -> Volts]]
      /\ inputChannels' \in [Inputs -> 0 .. MaxPolyChannels]
      /\ sent' \in [Inputs -> [Channels -> Volts]]
      /\ cabledIn' \subseteq Inputs
  OBVIOUS
<1>2. PresentCable' /\ NothingSent'
  BY DEF PresentCable, NothingSent, Silence, Channels
<1>3. (LateInput \/ UnpatchedSilent)'
  BY DEF UnpatchedSilent
<1>4. \A j \in Inputs : inputChannels'[j] > 0 <=> j \in cabledIn'
  BY DEF CountsFollowCables
<1> QED BY <1>1, <1>2, <1>3, <1>4, OutputsAlone

\* The engine's calls keep the invariant.
LEMMA EngineKeepsIInv == IInv /\ EngineStep => IInv'
<1> SUFFICES ASSUME IInv, EngineStep PROVE IInv'
  OBVIOUS
<1>1. ASSUME NEW o \in Outputs, MarkOutputPatched(o) PROVE IInv'
  BY <1>1, InputsAlone, PolyAssumption
     DEF MarkOutputPatched, IInv, TypeOK, CountsFollowCables
<1>2. ASSUME NEW jacks \in SUBSET Outputs, MarkOutputsUnpatched(jacks) PROVE IInv'
  BY <1>2, InputsAlone, PolyAssumption
     DEF MarkOutputsUnpatched, IInv, TypeOK, CountsFollowCables
<1>3. CASE SetBypassed
  BY <1>3, InputsAlone DEF SetBypassed, IInv, TypeOK, CountsFollowCables, outs
<1>4. \A i \in Inputs : {i} \in SUBSET Inputs
  OBVIOUS
<1>5. \A o \in Outputs : {o} \in SUBSET Outputs
  OBVIOUS
<1>6. Inputs \in SUBSET Inputs /\ Outputs \in SUBSET Outputs
  OBVIOUS
<1> QED BY <1>1, <1>2, <1>3, <1>4, <1>5, <1>6, SetInputKeeps, WriteInputBufferKeeps,
           MarkInputPatchedKeeps, MarkInputsUnpatchedKeeps DEF EngineStep

\* So do the module's, and the bypass.
LEMMA UpdateKeepsIInv == IInv /\ UpdateStep => IInv'
<1> SUFFICES ASSUME IInv, UpdateStep PROVE IInv'
  OBVIOUS
<1>1. ASSUME NEW o \in Outputs, NEW v \in Volts, NEW c \in Channels,
             SetOutput(o, v, c)
      PROVE  IInv'
  BY <1>1, InputsAlone DEF SetOutput, IInv, TypeOK, CountsFollowCables
<1>2. ASSUME NEW o \in Outputs, NEW n \in 0 .. MaxPolyChannels + 1,
             SetChannels(o, n)
      PROVE  IInv'
  <2>1. Clamped(n) \in 1 .. MaxPolyChannels
    BY ClampedRange
  <2>2. outputValues' \in [Outputs -> [Channels -> Volts]]
    BY <1>2, VoltsAssumption DEF SetChannels, IInv, TypeOK
  <2> QED BY <1>2, <2>1, <2>2, InputsAlone, PolyAssumption
          DEF SetChannels, IInv, TypeOK, CountsFollowCables
<1>3. CASE HandleBypass
  <2>1. \A o \in Outputs : RoutesTo(o) # {} =>
            Clamped(inputChannels[RoutedInput(o)]) \in 1 .. MaxPolyChannels
    BY ClampedRange, RoutedInputType DEF IInv, TypeOK
  <2>2. outputValues' \in [Outputs -> [Channels -> Volts]]
    BY <1>3, RoutedInputType, SilenceType DEF HandleBypass, IInv, TypeOK
  <2>3. outputChannels' \in [Outputs -> 0 .. MaxPolyChannels]
    BY <1>3, <2>1, PolyAssumption DEF HandleBypass, IInv, TypeOK
  <2>4. ASSUME NEW o \in Outputs
        PROVE  outputChannels'[o] > 0 <=> outputChannels[o] > 0
    <3>1. CASE RoutesTo(o) = {} \/ outputChannels[o] = 0
      BY <1>3, <3>1 DEF HandleBypass
    <3>2. CASE ~(RoutesTo(o) = {} \/ outputChannels[o] = 0)
      BY <1>3, <3>2, <2>1 DEF HandleBypass, IInv, TypeOK
    <3> QED BY <3>1, <3>2
  <2> QED BY <1>3, <2>2, <2>3, <2>4, InputsAlone
          DEF HandleBypass, IInv, TypeOK, CountsFollowCables
<1> QED BY <1>1, <1>2, <1>3 DEF UpdateStep

\* The invariant, step by step.
LEMMA StepKeepsIInv == IInv /\ [Next]_vars => IInv'
<1>1. IInv /\ UNCHANGED vars => IInv'
  BY DEF vars, ins, outs, IInv, TypeOK, CountsFollowCables, PresentCable, NothingSent, UnpatchedSilent
<1> QED BY <1>1, EngineKeepsIInv, UpdateKeepsIInv DEF Next

\* Channel counts follow the cables the engine announced, whatever the module
\* declares and however it is bypassed, and a patched input holds exactly what was
\* sent last over its present cable.
THEOREM Safety == Spec => [](TypeOK /\ CountsFollowCables /\ PresentCable)
<1>1. IInv => TypeOK /\ CountsFollowCables /\ PresentCable
  BY DEF IInv
<1> QED BY <1>1, InitIInv, StepKeepsIInv, PTL DEF Spec

\* An engine whose set_input keeps off unpatched jacks leaves no voltage in
\* them, so that an unpatched input bypasses silence.
THEOREM Unpatched == ~LateInput => (Spec => []UnpatchedSilent)
<1>1. ASSUME ~LateInput
      PROVE  IInv => UnpatchedSilent
  BY <1>1 DEF IInv
<1>2. ASSUME ~LateInput
      PROVE  Spec => []UnpatchedSilent
  BY <1>1, <1>2, InitIInv, StepKeepsIInv, PTL DEF Spec
<1> QED BY <1>2

-----------------------------------------------------------------------------
(***************************************************************************)
(* The refinement of SmartCoreProcessor.                                   *)
(***************************************************************************)

\* A module just constructed is, seen through channel 0, a SmartCoreProcessor
\* just constructed.
LEMMA InitMaps == Init => Mono!Init
BY ZeroChannel DEF Init, Mono!Init, MonoInputs, MonoOutputs, MonoPatched

\* What the mapped variables do when the concrete ones stand still.
LEMMA MappedAlone ==
    /\ UNCHANGED ins => UNCHANGED MonoInputs
    /\ UNCHANGED outs => UNCHANGED <<MonoOutputs, MonoPatched>>
BY DEF ins, outs, MonoInputs, MonoOutputs, MonoPatched

\* Each of the engine's calls is the call of the same name, or changes nothing
\* that channel 0 shows.
LEMMA EngineMaps ==
    ASSUME IInv, ~LateInput, EngineStep
    PROVE  [Mono!Next]_(Mono!mvars)
<1> USE ZeroChannel, MappedAlone DEF IInv, TypeOK
<1>1. ASSUME NEW i \in Inputs, NEW v \in Volts, SetInput(i, v)
      PROVE  Mono!SetInput(i, v)
  <2>1. inputChannels[i] # 0 /\ inputChannels' = inputChannels
    BY <1>1 DEF SetInput, CountsFollowCables
  <2>2. inputValues' = [inputValues EXCEPT ![i] = [inputValues[i] EXCEPT ![0] = v]]
    BY <1>1 DEF SetInput
  <2>3. inputValues'[i][0] = v /\ \A j \in Inputs \ {i} : inputValues'[j] = inputValues[j]
    BY <2>2
  <2>4. MonoInputs' = [MonoInputs EXCEPT ![i] = v]
    BY <2>1, <2>3 DEF MonoInputs
  <2> QED BY <1>1, <2>4 DEF SetInput, Mono!SetInput
<1>2. ASSUME NEW i \in Inputs, NEW n \in 1 .. MaxPolyChannels,
             NEW volts \in [Channels -> Volts], WriteInputBuffer(i, n, volts)
      PROVE  Mono!SetInput(i, volts[0])
  <2>1. inputChannels[i] # 0 /\ inputChannels'[i] # 0
    BY <1>2, PolyAssumption DEF WriteInputBuffer, CountsFollowCables
  <2>2. /\ inputValues'[i][0] = volts[0]
        /\ \A j \in Inputs \ {i} : /\ inputValues'[j] = inputValues[j]
                                  /\ inputChannels'[j] = inputChannels[j]
    BY <1>2 DEF WriteInputBuffer
  <2>3. MonoInputs' = [MonoInputs EXCEPT ![i] = volts[0]]
    BY <2>1, <2>2 DEF MonoInputs
  <2> QED BY <1>2, <2>3 DEF WriteInputBuffer, Mono!SetInput
<1>3. ASSUME NEW i \in Inputs, MarkInputPatched(i)
      PROVE  Mono!MarkInputPatched(i)
  <2>1. CASE inputChannels[i] = 0
    <3>1. /\ inputChannels'[i] # 0 /\ inputValues'[i][0] = 0
          /\ \A j \in Inputs \ {i} : /\ inputValues'[j] = inputValues[j]
                                    /\ inputChannels'[j] = inputChannels[j]
      BY <1>3, <2>1 DEF MarkInputPatched
    <3>2. MonoInputs[i] = Unplugged
      BY <2>1 DEF MonoInputs
    <3>3. MonoInputs' = [MonoInputs EXCEPT ![i] = 0]
      BY <3>1 DEF MonoInputs
    <3> QED BY <1>3, <3>2, <3>3 DEF MarkInputPatched, Mono!MarkInputPatched
  <2>2. CASE inputChannels[i] # 0
    BY <1>3, <2>2, VoltsAssumption
       DEF MarkInputPatched, Mono!MarkInputPatched, MonoInputs
  <2> QED BY <2>1, <2>2
<1>4. ASSUME NEW jacks \in SUBSET Inputs, MarkInputsUnpatched(jacks)
      PROVE  Mono!MarkInputsUnpatched(jacks)
  BY <1>4 DEF MarkInputsUnpatched, Mono!MarkInputsUnpatched, MonoInputs
<1>5. ASSUME NEW o \in Outputs, MarkOutputPatched(o)
      PROVE  Mono!MarkOutputPatched(o)
  BY <1>5 DEF MarkOutputPatched, Mono!MarkOutputPatched, MonoOutputs, MonoPatched
<1>6. ASSUME NEW jacks \in SUBSET Outputs, MarkOutputsUnpatched(jacks)
      PROVE  Mono!MarkOutputsUnpatched(jacks)
  BY <1>6 DEF MarkOutputsUnpatched, Mono!MarkOutputsUnpatched, MonoOutputs, MonoPatched
<1>7. CASE SetBypassed
  BY <1>7 DEF SetBypassed, Mono!SetBypassed, Mono!Next
<1> QED BY <1>1, <1>2, <1>3, <1>4, <1>5, <1>6, <1>7 DEF EngineStep, Mono!Next

\* So are the module's, and the bypass.
LEMMA UpdateMaps ==
    ASSUME IInv, ~LateInput, UpdateStep
    PROVE  [Mono!Next]_(Mono!mvars)
<1> USE ZeroChannel, MappedAlone DEF IInv, TypeOK
<1>1. ASSUME NEW o \in Outputs, NEW v \in Volts, NEW c \in Channels,
             SetOutput(o, v, c)
      PROVE  [Mono!Next]_(Mono!mvars)
  <2>1. CASE c = 0
    <3>1. Mono!SetOutput(o, v)
      BY <1>1, <2>1 DEF SetOutput, Mono!SetOutput, MonoOutputs, MonoPatched
    <3> QED BY <3>1 DEF Mono!Next
  <2>2. CASE c # 0
    BY <1>1, <2>2 DEF SetOutput, Mono!mvars, MonoOutputs, MonoPatched
  <2> QED BY <2>1, <2>2
<1>2. ASSUME NEW o \in Outputs, NEW n \in 0 .. MaxPolyChannels + 1,
             SetChannels(o, n)
      PROVE  [Mono!Next]_(Mono!mvars)
  <2>1. UNCHANGED MonoPatched
    BY <1>2, ClampedRange DEF SetChannels, MonoPatched
  <2>2. CASE n = 0
    <3>1. /\ outputValues'[o][0] = 0
          /\ \A p \in Outputs \ {o} : outputValues'[p] = outputValues[p]
      BY <1>2, <2>2 DEF SetChannels
    <3>2. MonoOutputs' = [MonoOutputs EXCEPT ![o] = 0]
      BY <3>1 DEF MonoOutputs
    <3>3. Mono!SetOutput(o, 0)
      BY <1>2, <2>1, <3>2 DEF SetChannels, Mono!SetOutput
    <3> QED BY <3>3, VoltsAssumption DEF Mono!Next
  <2>3. CASE n # 0
    BY <1>2, <2>1, <2>3 DEF SetChannels, Mono!mvars, MonoOutputs
  <2> QED BY <2>2, <2>3
<1>3. CASE HandleBypass
  <2>1. UNCHANGED MonoPatched
    <3>1. ASSUME NEW o \in Outputs
          PROVE  outputChannels'[o] > 0 <=> outputChannels[o] > 0
      <4>1. CASE RoutesTo(o) = {} \/ outputChannels[o] = 0
        BY <1>3, <4>1 DEF HandleBypass
      <4>2. CASE ~(RoutesTo(o) = {} \/ outputChannels[o] = 0)
        BY <1>3, <4>2, ClampedRange, RoutedInputType DEF HandleBypass
      <4> QED BY <4>1, <4>2
    <3> QED BY <3>1 DEF MonoPatched
  <2>2. ASSUME NEW i \in Inputs
        PROVE  inputValues[i][0] = IF MonoInputs[i] = Unplugged THEN 0 ELSE MonoInputs[i]
    BY VoltsAssumption DEF UnpatchedSilent, MonoInputs
  <2>3. ASSUME NEW o \in Outputs
        PROVE  MonoOutputs'[o] =
                  IF Mono!RoutesTo(o) = {} \/ MonoInputs[Mono!RoutedInput(o)] = Unplugged
                  THEN 0 ELSE MonoInputs[Mono!RoutedInput(o)]
    <3>1. Mono!RoutesTo(o) = RoutesTo(o)
      BY DEF Mono!RoutesTo, RoutesTo
    <3>2. Mono!RoutedInput(o) = RoutedInput(o)
      BY <3>1 DEF Mono!RoutedInput, Mono!LastRoute, RoutedInput, LastRoute
    <3>3. CASE RoutesTo(o) = {}
      <4>1. outputValues'[o] = Silence
        BY <1>3, <3>3 DEF HandleBypass
      <4> QED BY <3>1, <3>3, <4>1 DEF MonoOutputs, Silence
    <3>4. CASE RoutesTo(o) # {}
      <4>1. outputValues'[o][0] = inputValues[RoutedInput(o)][0]
        BY <1>3, <3>4 DEF HandleBypass
      <4>2. RoutedInput(o) \in Inputs
        BY <3>4, RoutedInputType
      <4>3. MonoOutputs'[o] = outputValues'[o][0]
        BY DEF MonoOutputs
      <4> QED BY <2>2, <3>1, <3>2, <3>4, <4>1, <4>2, <4>3
    <3> QED BY <3>3, <3>4
  <2>4. MonoOutputs' = [o \in Outputs |->
           IF Mono!RoutesTo(o) = {} \/ MonoInputs[Mono!RoutedInput(o)] = Unplugged
           THEN 0 ELSE MonoInputs[Mono!RoutedInput(o)]]
    BY <2>3 DEF MonoOutputs
  <2>5. Mono!HandleBypass
    BY <1>3, <2>1, <2>4 DEF HandleBypass, Mono!HandleBypass
  <2> QED BY <2>5 DEF Mono!Next
<1> QED BY <1>1, <1>2, <1>3 DEF UpdateStep

\* An engine whose set_input keeps off unpatched jacks cannot tell the class
\* from SmartCoreProcessor by channel 0, bypassed or not.
THEOREM Refinement == ~LateInput => (Spec => LikeSmartCore)
<1>1. ASSUME ~LateInput
      PROVE  IInv /\ [Next]_vars => [Mono!Next]_(Mono!mvars)
  <2>1. UNCHANGED vars => UNCHANGED Mono!mvars
    BY MappedAlone DEF vars, Mono!mvars
  <2> QED BY <1>1, <2>1, EngineMaps, UpdateMaps DEF Next
<1>2. ASSUME ~LateInput
      PROVE  Spec => LikeSmartCore
  BY <1>1, <1>2, InitMaps, InitIInv, StepKeepsIInv, PTL
     DEF Spec, LikeSmartCore, Mono!Spec
<1> QED BY <1>2
=============================================================================
