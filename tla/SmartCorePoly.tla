--------------------------- MODULE SmartCorePoly ---------------------------
(***************************************************************************)
(* SmartCoreProcessorPoly (CoreModules/SmartCoreProcessorPoly.hh): the     *)
(* jacks of a native module, up to MaxPolyChannels voltages per jack, with *)
(* the audio engine that patches them, sends voltages and runs update().   *)
(*                                                                         *)
(* The engine sends one voltage by set_input, which writes channel 0, or   *)
(* all of a polyphonic cable's through get_poly_input_buffer, voltages and *)
(* channel count.  `cabledIn`, `cabledOut` and `sent` are the engine's     *)
(* side: the jacks it has marked patched, and the last voltage it sent     *)
(* since then on each channel of an input.                                 *)
(***************************************************************************)
EXTENDS Integers, Sequences

CONSTANTS Inputs, Outputs, Volts, Unplugged, Routes,  \* as in SmartCore
          MaxPolyChannels,  \* voltages per jack
          LateInput         \* may set_input reach an unpatched jack?

ASSUME VoltsAssumption == 0 \in Volts /\ Unplugged \notin Volts
ASSUME RoutesAssumption == Len(Routes) \in Nat /\ DOMAIN Routes = 1 .. Len(Routes)
ASSUME PolyAssumption ==
    /\ MaxPolyChannels \in Nat \ {0}
    /\ LateInput \in BOOLEAN

VARIABLES inputValues, inputChannels,    \* voltages and channel count per input
          outputValues, outputChannels,  \* the same per output
          bypassed,
          cabledIn, cabledOut,           \* the jacks the engine marked patched
          sent                           \* per input and channel, the last voltage sent

ins  == <<inputValues, inputChannels, cabledIn, sent>>
outs == <<outputValues, outputChannels, cabledOut>>
vars == <<ins, outs, bypassed>>

-----------------------------------------------------------------------------
Channels == 0 .. MaxPolyChannels - 1
Silence  == [c \in Channels |-> 0]

\* Mutated forms of Clamped: a bound on one side only.
ClampedAbove(n) == IF n > MaxPolyChannels THEN MaxPolyChannels ELSE n
ClampedBelow(n) == IF n < 1 THEN 1 ELSE n

\* std::clamp(n, 1, MaxPolyChannels)
Clamped(n) == IF n < 1 THEN 1 ELSE IF n > MaxPolyChannels THEN MaxPolyChannels ELSE n

\* As in SmartCore.
RoutesTo(o)  == {k \in DOMAIN Routes : Routes[k].output = o /\ Routes[k].input \in Inputs}

\* Mutated LastRoute: the route that comes first wins.
FirstRoute(o) == CHOOSE k \in RoutesTo(o) : \A j \in RoutesTo(o) : k <= j

LastRoute(o) == CHOOSE k \in RoutesTo(o) : \A j \in RoutesTo(o) : j <= k
RoutedInput(o) == Routes[LastRoute(o)].input

Init ==
    /\ inputValues = [i \in Inputs |-> Silence]
    /\ inputChannels = [i \in Inputs |-> 0]
    /\ outputValues = [o \in Outputs |-> Silence]
    /\ outputChannels = [o \in Outputs |-> 0]
    /\ bypassed = FALSE
    /\ cabledIn = {} /\ cabledOut = {}
    /\ sent = [i \in Inputs |-> Silence]

-----------------------------------------------------------------------------
\* Calls of the audio engine.

SetInput(i, v) ==
    /\ i \in cabledIn \/ LateInput
    /\ inputValues' = [inputValues EXCEPT ![i][0] = v]
    /\ sent' = [sent EXCEPT ![i][0] = IF i \in cabledIn THEN v ELSE @]
    /\ UNCHANGED <<inputChannels, cabledIn, outs, bypassed>>

\* A polyphonic source writes n voltages and the channel count.
WriteInputBuffer(i, n, volts) ==
    /\ i \in cabledIn
    /\ inputValues' = [inputValues EXCEPT
         ![i] = [c \in Channels |-> IF c < n THEN volts[c] ELSE @[c]]]
    /\ inputChannels' = [inputChannels EXCEPT ![i] = n]
    /\ sent' = [sent EXCEPT
         ![i] = [c \in Channels |-> IF c < n THEN volts[c] ELSE @[c]]]
    /\ UNCHANGED <<cabledIn, outs, bypassed>>

\* Mutated MarkInputPatched: the voltages found on the jack stay.
MarkInputPatchedKeepsVolts(i) ==
    /\ inputChannels' = [inputChannels EXCEPT ![i] = IF @ = 0 THEN 1 ELSE @]
    /\ cabledIn' = cabledIn \union {i}
    /\ UNCHANGED <<inputValues, sent, outs, bypassed>>

\* 0 -> 1 with the voltages zeroed, 1+ -> no change.
MarkInputPatched(i) ==
    /\ IF inputChannels[i] = 0
       THEN /\ inputChannels' = [inputChannels EXCEPT ![i] = 1]
            /\ inputValues' = [inputValues EXCEPT ![i] = Silence]
       ELSE UNCHANGED <<inputChannels, inputValues>>
    /\ cabledIn' = cabledIn \union {i}
    /\ UNCHANGED <<sent, outs, bypassed>>

\* Mutated MarkInputsUnpatched: only the count is reset.
MarkInputsUnpatchedKeepsVolts(jacks) ==
    /\ inputChannels' = [i \in Inputs |-> IF i \in jacks THEN 0 ELSE inputChannels[i]]
    /\ sent' = [i \in Inputs |-> IF i \in jacks THEN Silence ELSE sent[i]]
    /\ cabledIn' = cabledIn \ jacks
    /\ UNCHANGED <<inputValues, outs, bypassed>>

\* mark_input_unpatched for one jack, mark_all_inputs_unpatched for them all.
MarkInputsUnpatched(jacks) ==
    /\ inputChannels' = [i \in Inputs |-> IF i \in jacks THEN 0 ELSE inputChannels[i]]
    /\ inputValues' = [i \in Inputs |-> IF i \in jacks THEN Silence ELSE inputValues[i]]
    /\ sent' = [i \in Inputs |-> IF i \in jacks THEN Silence ELSE sent[i]]
    /\ cabledIn' = cabledIn \ jacks
    /\ UNCHANGED <<outs, bypassed>>

\* 0 -> 1, 1+ -> no change; the voltages of an output stay as they are.
MarkOutputPatched(o) ==
    /\ outputChannels' = [outputChannels EXCEPT ![o] = IF @ = 0 THEN 1 ELSE @]
    /\ cabledOut' = cabledOut \union {o}
    /\ UNCHANGED <<outputValues, ins, bypassed>>

MarkOutputsUnpatched(jacks) ==
    /\ outputChannels' = [o \in Outputs |-> IF o \in jacks THEN 0 ELSE outputChannels[o]]
    /\ cabledOut' = cabledOut \ jacks
    /\ UNCHANGED <<outputValues, ins, bypassed>>

SetBypassed ==
    /\ bypassed' = ~bypassed
    /\ UNCHANGED <<ins, outs>>

-----------------------------------------------------------------------------
\* update(): the calls the module makes there, and handle_bypass() instead of
\* them when it is bypassed.

SetOutput(o, v, c) ==
    /\ ~bypassed
    /\ outputValues' = [outputValues EXCEPT ![o][c] = v]
    /\ UNCHANGED <<outputChannels, cabledOut, ins, bypassed>>

SetChannels(o, n) ==
    /\ ~bypassed
    /\ outputChannels[o] # 0
    /\ outputValues' = [outputValues EXCEPT
         ![o] = [c \in Channels |-> IF n <= c /\ c < outputChannels[o] THEN 0 ELSE @[c]]]
    /\ outputChannels' = [outputChannels EXCEPT ![o] = Clamped(n)]
    /\ UNCHANGED <<cabledOut, ins, bypassed>>

HandleBypass ==
    /\ bypassed
    /\ outputValues' = [o \in Outputs |->
         IF RoutesTo(o) = {} THEN Silence ELSE inputValues[RoutedInput(o)]]
    /\ outputChannels' = [o \in Outputs |->
         IF RoutesTo(o) = {} \/ outputChannels[o] = 0 THEN outputChannels[o]
         ELSE Clamped(inputChannels[RoutedInput(o)])]
    /\ UNCHANGED <<cabledOut, ins, bypassed>>

-----------------------------------------------------------------------------
EngineStep ==
    \/ \E i \in Inputs, v \in Volts : SetInput(i, v)
    \/ \E i \in Inputs, n \in 1 .. MaxPolyChannels, volts \in [Channels -> Volts] :
         WriteInputBuffer(i, n, volts)
    \/ \E i \in Inputs : MarkInputPatched(i) \/ MarkInputsUnpatched({i})
    \/ MarkInputsUnpatched(Inputs)
    \/ \E o \in Outputs : MarkOutputPatched(o) \/ MarkOutputsUnpatched({o})
    \/ MarkOutputsUnpatched(Outputs)
    \/ SetBypassed

UpdateStep ==
    \/ \E o \in Outputs, v \in Volts, c \in Channels : SetOutput(o, v, c)
    \/ \E o \in Outputs, n \in 0 .. MaxPolyChannels + 1 : SetChannels(o, n)
    \/ HandleBypass

Next == EngineStep \/ UpdateStep

Spec == Init /\ [][Next]_vars

-----------------------------------------------------------------------------
(***************************************************************************)
(* Properties.                                                             *)
(***************************************************************************)
TypeOK ==
    /\ inputValues \in [Inputs -> [Channels -> Volts]]
    /\ inputChannels \in [Inputs -> 0 .. MaxPolyChannels]
    /\ outputValues \in [Outputs -> [Channels -> Volts]]
    /\ outputChannels \in [Outputs -> 0 .. MaxPolyChannels]
    /\ bypassed \in BOOLEAN
    /\ cabledIn \subseteq Inputs /\ cabledOut \subseteq Outputs
    /\ sent \in [Inputs -> [Channels -> Volts]]

\* A jack has channels exactly while the engine has it marked patched: nothing
\* the module declares, and no bypass, patches or unpatches a jack.
CountsFollowCables ==
    /\ \A i \in Inputs  : inputChannels[i] > 0 <=> i \in cabledIn
    /\ \A o \in Outputs : outputChannels[o] > 0 <=> o \in cabledOut

\* An input that is patched holds, on every channel, the last voltage sent over
\* its present cable or 0 V: nothing of an earlier cable, nothing sent while none
\* was there, and nothing is lost when a cable already there is marked again.
PresentCable == \A i \in cabledIn : inputValues[i] = sent[i]

\* If set_input keeps off unpatched jacks they hold no voltage at all, so a
\* bypass routes silence from them.
UnpatchedSilent ==
    \A i \in Inputs : inputChannels[i] = 0 => inputValues[i] = Silence

\* What the three together rest on; nothing counts as sent without a cable.
NothingSent == \A i \in Inputs \ cabledIn : sent[i] = Silence
IInv ==
    /\ TypeOK /\ CountsFollowCables /\ PresentCable /\ NothingSent
    /\ LateInput \/ UnpatchedSilent

\* Seen through channel 0 of its jacks, the class behaves as SmartCoreProcessor.
MonoInputs  == [i \in Inputs |-> IF inputChannels[i] = 0 THEN Unplugged ELSE inputValues[i][0]]
MonoOutputs == [o \in Outputs |-> outputValues[o][0]]
MonoPatched == {o \in Outputs : outputChannels[o] > 0}

Mono == INSTANCE SmartCore WITH
    inputValues <- MonoInputs, outputValues <- MonoOutputs, outputPatched <- MonoPatched
LikeSmartCore == Mono!Spec
=============================================================================
