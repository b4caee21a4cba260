--------------------------- MODULE SmartCorePanel ---------------------------
(***************************************************************************)
(* The values of SmartCoreProcessor (and of its polyphonic sibling, which   *)
(* does the same) for any panel: arrays as long as the counts of the panel, *)
(* which the module addresses by element and the engine by number.          *)
(***************************************************************************)
EXTENDS ElementCount, SequencesExt

CONSTANTS MaxElements,    \* bound: the longest panel
          PanelKinds,     \* bound: the kinds on it
          Values          \* what params and jacks are set to

ASSUME PanelAssumption == MaxElements \in Nat /\ PanelKinds \subseteq Kinds /\ 0 \in Values

VARIABLES panel,     \* INFO::Elements, fixed
          store      \* paramValues, inputValues, outputValues and ledValues

vars == <<panel, store>>

-----------------------------------------------------------------------------
Clamp(x, top) == IF x < 0 THEN 0 ELSE IF x > top THEN top ELSE x

\* convertLED, in halves of full brightness.  A DualLight takes a BipolarColor of
\* -2 .. 2, an RgbLight a FullColor of 0 .. 2; the others take what they are given.
BipolarColor(c) == <<Clamp(-c, 2), Clamp(c, 2)>>
FullColor(c) ==
    LET green == 2 - 2 * c
        g     == Clamp(green, 2)
        b     == Clamp(-green, 2)
    IN  <<Clamp(2 - (g + b), 2), g, b>>

ConvertLED(kind) ==
    CASE kind = "DualLight"  -> {BipolarColor(c) : c \in {-2, 1}}
      [] kind = "RgbLight"   -> {FullColor(c) : c \in 0 .. 2}
      [] kind = "EncoderRGB" -> {<<0, 2, 0>>, <<2, 0, 1>>}
      [] kind \in {"SliderLight", "DynamicGraphicDisplay"} -> {<<0>>, <<2>>}
      [] OTHER               -> {}

-----------------------------------------------------------------------------
Panels == UNION {[1 .. n -> PanelKinds] : n \in 0 .. MaxElements}

Init ==
    /\ panel \in Panels
    /\ store = [f \in Fields |-> [id \in 0 .. Count(panel)[f] - 1 |-> 0]]

\* index(EL)
Index(i) == GetIndices(panel)[i]

\* set_param(id, v) and set_input(id, v): a number out of range is ignored.
SetByNumber(f, id, v) ==
    /\ store' = IF id \in DOMAIN store[f] THEN [store EXCEPT ![f][id] = v] ELSE store
    /\ UNCHANGED panel

\* setOutput<EL>(v)
SetOutput(i, v) ==
    /\ CountOf[panel[i]].outputs = 1
    /\ Index(i).outputs \in DOMAIN store.outputs
    /\ store' = [store EXCEPT !.outputs[Index(i).outputs] = v]
    /\ UNCHANGED panel

\* Mutated SetLED: every light is set at the element's first.
SetLEDFirst(i, color) ==
    /\ CountOf[panel[i]].lights > 0
    /\ LET first == Index(i).lights IN
       store' = [store EXCEPT !.lights =
                   [id \in DOMAIN @ |-> IF id = first THEN color[Len(color)] ELSE @[id]]]
    /\ UNCHANGED panel

\* setLED<EL>(value), with setLEDRaw for each of its lights.
SetLED(i, color) ==
    /\ CountOf[panel[i]].lights > 0
    /\ LET first == Index(i).lights IN
       store' = [store EXCEPT !.lights =
                   [id \in DOMAIN @ |-> IF id \in first .. first + Len(color) - 1
                                        THEN color[id - first + 1] ELSE @[id]]]
    /\ UNCHANGED panel

Next ==
    \/ \E f \in {"params", "inputs"}, id \in 0 .. MaxElements, v \in Values : SetByNumber(f, id, v)
    \/ \E i \in DOMAIN panel : \E v \in Values : SetOutput(i, v)
    \/ \E i \in DOMAIN panel : \E color \in ConvertLED(panel[i]) : SetLED(i, color)

Spec == Init /\ [][Next]_vars

\* getParamRaw, getInput, getOutput and the engine's view of the lights of an
\* element: the k-th value of element i, 0 if the arrays do not have it.
ReadBack(f, i, k) ==
    LET id == Index(i)[f] + k - 1 IN IF id \in DOMAIN store[f] THEN store[f][id] ELSE 0

-----------------------------------------------------------------------------
(***************************************************************************)
(* Properties.                                                             *)
(***************************************************************************)
\* An element's indices, kept as one by get_index and put back by set_index.
Kept(i) == SetIndex(panel[i], GetIndex(panel[i], Index(i)))

\* Whether get_index has an index of the element to keep: it has none of an image,
\* of a display of fixed text and of an alternative param.
Keeps(i) == GetIndex(panel[i], Index(i)) # NoElementMarker

\* matched() tells elements apart: no other element has an index in common with
\* one.  By the index it kept an element finds itself and no other; the three kinds
\* that kept the marker find nothing, although set_index cuts it to 255 and puts
\* that in the indices of two of them: no index is as high, as long as the params,
\* the lights, the inputs and the outputs number at most 255 each.
OnlyItselfMatches ==
    \A i, j \in DOMAIN panel :
        /\ Matched(Index(i), Index(j)) => i = j
        /\ Matched(Kept(i), Index(j)) <=> i = j /\ Keeps(i)

\* What the element shows of the arrays.
Shown ==
    [f \in Fields |->
        [o \in {q \in (DOMAIN panel) \X (1 .. 3) : q[2] <= CountOf[panel[q[1]]][f]} |->
            ReadBack(f, o[1], o[2])]]

Own == INSTANCE PanelValues WITH own <- Shown, Colors <- ConvertLED

\* Every element has values of its own, and the engine's numbers count them in
\* the order of the panel: the arrays behave as PanelValues.
ImplementsPanel == Own!Spec
=============================================================================
