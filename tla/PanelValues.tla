---------------------------- MODULE PanelValues ----------------------------
(***************************************************************************)
(* What a panel promises: every element has values of its own.  The module  *)
(* sets the lights and the output of an element it names; the engine sets   *)
(* a param or an input by its number, which counts them in the order of the *)
(* panel, and numbers that are not there are ignored.                       *)
(***************************************************************************)
EXTENDS ElementCount, SequencesExt

CONSTANTS Values,         \* what a param, an input or an output can be set to
          Colors(_)       \* the brightnesses the lights of a kind can be set to

VARIABLES panel, own

\* The n-th param (light, input, output) of the panel: whose it is, and its how-manieth.
Owners(f) ==
    FlattenSeq([i \in DOMAIN panel |-> [k \in 1 .. CountOf[panel[i]][f] |-> <<i, k>>]])

OwnersOf == [f \in Fields |-> ToSet(Owners(f))]

Init == own = [f \in Fields |-> [o \in OwnersOf[f] |-> 0]]

\* The engine's set_param and set_input.
SetByNumber(f, id, v) ==
    /\ id < Len(Owners(f))
    /\ own' = [own EXCEPT ![f][Owners(f)[id + 1]] = v]

\* The module's setOutput.
SetOutput(i, v) ==
    /\ panel[i] = "JackOutput"
    /\ own' = [own EXCEPT !["outputs"][<<i, 1>>] = v]

\* The module's setLED: all the lights of the element and no other.
SetLights(i, color) ==
    own' = [own EXCEPT !["lights"] =
              [o \in OwnersOf["lights"] |-> IF o[1] = i THEN color[o[2]] ELSE @[o]]]

Next ==
    /\ UNCHANGED panel
    /\ \/ \E f \in {"params", "inputs"}, id \in 0 .. Len(panel), v \in Values : SetByNumber(f, id, v)
       \/ \E i \in DOMAIN panel : \E v \in Values : SetOutput(i, v)
       \/ \E i \in DOMAIN panel : \E color \in Colors(panel[i]) : SetLights(i, color)

Spec == Init /\ [][Next]_<<panel, own>>
=============================================================================
