----------------------------- MODULE SmartCore -----------------------------
(***************************************************************************)
(* SmartCoreProcessor (CoreModules/SmartCoreProcessor.hh): the jacks of a  *)
(* native module, one voltage per jack.                                    *)
(*                                                                         *)
(* The audio engine patches and unpatches jacks, sends voltages to inputs  *)
(* and runs update(); the module writes its outputs there, or, when the    *)
(* user has bypassed it, lets handle_bypass() route inputs to outputs.     *)
(***************************************************************************)
EXTENDS Integers, Sequences

CONSTANTS Inputs,     \* the input jacks, by their index
          Outputs,    \* the output jacks
          Volts,      \* the voltages; 0 among them
          Unplugged,  \* std::nullopt, the value of an unpatched input: no voltage
          Routes      \* INFO::bypass_routes: <<[input |-> i, output |-> o], ...>>

VARIABLES inputValues,    \* a voltage per input, or Unplugged
          outputValues,   \* a voltage per output
          outputPatched,  \* the outputs marked patched
          bypassed        \* CoreProcessor::bypassed

mvars == <<inputValues, outputValues, outputPatched, bypassed>>

-----------------------------------------------------------------------------
\* The routes that end at output o, and the one the loop takes last.
RoutesTo(o)  == {k \in DOMAIN Routes : Routes[k].output = o /\ Routes[k].input \in Inputs}
LastRoute(o) == CHOOSE k \in RoutesTo(o) : \A j \in RoutesTo(o) : j <= k
RoutedInput(o) == Routes[LastRoute(o)].input

Init ==
    /\ inputValues = [i \in Inputs |-> Unplugged]
    /\ outputValues = [o \in Outputs |-> 0]
    /\ outputPatched = {}
    /\ bypassed = FALSE

\* A voltage sent to an input also marks it patched.
SetInput(i, v) ==
    /\ inputValues' = [inputValues EXCEPT ![i] = v]
    /\ UNCHANGED <<outputValues, outputPatched, bypassed>>

MarkInputPatched(i) ==
    /\ inputValues' = [inputValues EXCEPT ![i] = IF @ = Unplugged THEN 0 ELSE @]
    /\ UNCHANGED <<outputValues, outputPatched, bypassed>>

\* mark_input_unpatched for one jack, mark_all_inputs_unpatched for them all.
MarkInputsUnpatched(jacks) ==
    /\ inputValues' = [i \in Inputs |-> IF i \in jacks THEN Unplugged ELSE inputValues[i]]
    /\ UNCHANGED <<outputValues, outputPatched, bypassed>>

MarkOutputPatched(o) ==
    /\ outputPatched' = outputPatched \union {o}
    /\ UNCHANGED <<inputValues, outputValues, bypassed>>

MarkOutputsUnpatched(jacks) ==
    /\ outputPatched' = outputPatched \ jacks
    /\ UNCHANGED <<inputValues, outputValues, bypassed>>

SetBypassed ==
    /\ bypassed' = ~bypassed
    /\ UNCHANGED <<inputValues, outputValues, outputPatched>>

\* update() of the module: it writes one of its outputs.
SetOutput(o, v) ==
    /\ ~bypassed
    /\ outputValues' = [outputValues EXCEPT ![o] = v]
    /\ UNCHANGED <<inputValues, outputPatched, bypassed>>

\* update() of a bypassed module: outputs are zeroed, then routed to in order.
HandleBypass ==
    /\ bypassed
    /\ outputValues' = [o \in Outputs |->
         IF RoutesTo(o) = {} \/ inputValues[RoutedInput(o)] = Unplugged
         THEN 0 ELSE inputValues[RoutedInput(o)]]
    /\ UNCHANGED <<inputValues, outputPatched, bypassed>>

Next ==
    \/ \E i \in Inputs, v \in Volts : SetInput(i, v)
    \/ \E i \in Inputs : MarkInputPatched(i) \/ MarkInputsUnpatched({i})
    \/ MarkInputsUnpatched(Inputs)
    \/ \E o \in Outputs : MarkOutputPatched(o) \/ MarkOutputsUnpatched({o})
    \/ MarkOutputsUnpatched(Outputs)
    \/ SetBypassed
    \/ \E o \in Outputs, v \in Volts : SetOutput(o, v)
    \/ HandleBypass

Spec == Init /\ [][Next]_mvars

=============================================================================
