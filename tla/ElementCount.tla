---------------------------- MODULE ElementCount ----------------------------
(***************************************************************************)
(* The elements of a panel and the indices of their params, lights, inputs  *)
(* and outputs (core-interface/CoreModules/elements).  A panel is the       *)
(* Elements array of a ModuleInfo: a sequence of kinds of element.  Of the  *)
(* kinds that count alike and are indexed alike, for being of the same base *)
(* class, one stands for the rest.                                          *)
(***************************************************************************)
EXTENDS Integers, Sequences

Fields == {"params", "lights", "inputs", "outputs"}

\* A member of Indices that stands for no index, 0xFFFF in the code.
NoElementMarker == 65535

Counts(p, l, i, o) == [params |-> p, lights |-> l, inputs |-> i, outputs |-> o]

\* NumParams, NumLights, NumInputs and NumOutputs.
CountOf ==
    [ImageElement |-> Counts(0, 0, 0, 0), Knob          |-> Counts(1, 0, 0, 0),
     SliderLight  |-> Counts(1, 1, 0, 0), EncoderRGB    |-> Counts(1, 3, 0, 0),
     JackInput    |-> Counts(0, 0, 1, 0), JackOutput    |-> Counts(0, 0, 0, 1),
     DualLight    |-> Counts(0, 2, 0, 0), RgbLight      |-> Counts(0, 3, 0, 0),
     DynamicGraphicDisplay |-> Counts(0, 1, 0, 0),
     TextDisplay           |-> Counts(0, 0, 0, 0),
     AltParamChoice        |-> Counts(1, 0, 0, 0)]

Kinds == DOMAIN CountOf

\* Counts::operator+ and Indices::operator+
Added(x, y) == [f \in Fields |-> x[f] + y[f]]

\* count(elements): the totals before the (i + 1)-th element, and of all of them.
RunningTotal(panel) ==
    LET total[i \in 0 .. Len(panel)] ==
            IF i = 0 THEN Counts(0, 0, 0, 0) ELSE Added(total[i - 1], CountOf[panel[i]])
    IN  total

Count(panel) == RunningTotal(panel)[Len(panel)]

\* mark_unused_indices
MarkUnused(indices, counts) ==
    [f \in Fields |-> IF counts[f] = 0 THEN NoElementMarker ELSE indices[f]]

\* get_indices(): the indices of every element, those it has none of marked.
GetIndices(panel) ==
    [i \in DOMAIN panel |-> MarkUnused(RunningTotal(panel)[i - 1], CountOf[panel[i]])]

\* Mutated Matched: the marker counts as an index.
MatchedMarkers(x, y) == \E f \in Fields : x[f] = y[f]

\* matched(): one index in common that is not the marker.
Matched(x, y) == \E f \in Fields : x[f] = y[f] /\ x[f] # NoElementMarker

-----------------------------------------------------------------------------
\* The base class of an element, which overload resolution picks by: a slider or
\* an encoder with lights is a param, and a display of fixed text is a light though
\* it has none.  An alternative param is no ParamElement, so get_index has no
\* overload for it and takes that of BaseElement.
FieldOf ==
    [k \in Kinds |->
        CASE k \in {"Knob", "SliderLight", "EncoderRGB"}                -> {"params"}
          [] k \in {"DualLight", "RgbLight", "DynamicGraphicDisplay", "TextDisplay"}
                                                                        -> {"lights"}
          [] k = "JackInput"                                            -> {"inputs"}
          [] k = "JackOutput"                                           -> {"outputs"}
          [] OTHER                                                      -> {}]

\* get_index(element, indices)
GetIndex(kind, indices) ==
    IF FieldOf[kind] = {} THEN NoElementMarker
    ELSE indices[CHOOSE f \in FieldOf[kind] : TRUE]

\* set_index(element, idx), whose idx is a uint8_t.
SetIndex(kind, idx) ==
    LET set == IF kind = "AltParamChoice" THEN {"params"} ELSE FieldOf[kind]
    IN  [f \in Fields |-> IF f \in set THEN idx % 256 ELSE NoElementMarker]
=============================================================================
