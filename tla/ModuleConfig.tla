---------------------------- MODULE ModuleConfig ----------------------------
(***************************************************************************)
(* What a Rack module's constructor calls after config(), in any order and  *)
(* as often as it likes (engine/Module.hpp): configParam, configInput,      *)
(* configOutput and configLight, which own the objects they make, one for   *)
(* an index, and configBypass.  The four do the same to a vector each, so    *)
(* one vector is here.  configSwitch and configButton are configParam and    *)
(* then set flags of the object it returned: with an index in range they are *)
(* ConfigInfo.  With one that is too large they write through nullptr, and   *)
(* are not modelled.                                                        *)
(***************************************************************************)
EXTENDS Integers, Sequences

CONSTANTS NumInfos,                   \* the size of the vector
          NumInputs, NumOutputs,      \* the sizes of `inputs` and `outputs`
          Objects,                    \* addresses of objects
          NoObject                    \* nullptr

ASSUME ConfigAssumption ==
    /\ {NumInfos, NumInputs, NumOutputs} \subseteq Nat
    /\ NoObject \notin Objects

VARIABLES
    infos,              \* paramQuantities, inputInfos, outputInfos or lightInfos
    objects,            \* the objects there are
    bypassRoutes,       \* the member
    requests            \* per output, the inputs configBypass was asked to route to it

configVars == <<infos, objects, bypassRoutes, requests>>

InfoIds   == 0 .. NumInfos - 1
OutputIds == 0 .. NumOutputs - 1

ConfigInit ==
    /\ infos = [i \in InfoIds |-> NoObject]
    /\ objects = {}
    /\ bypassRoutes = <<>>
    /\ requests = [o \in OutputIds |-> <<>>]

\* Mutated ConfigInfo: what is there is dropped, not deleted.
ConfigInfoDrops(i) ==
    /\ i < NumInfos
    /\ \E o \in Objects \ objects :
         /\ infos' = [infos EXCEPT ![i] = o]
         /\ objects' = objects \union {o}
    /\ UNCHANGED <<bypassRoutes, requests>>

\* configParam(i) and the others: the object there is deleted and another one is
\* made, at the same address perhaps; an index that is too large is ignored.
ConfigInfo(i) ==
    /\ i < NumInfos
    /\ \E o \in (Objects \ objects) \union ({infos[i]} \ {NoObject}) :
         /\ infos' = [infos EXCEPT ![i] = o]
         /\ objects' = (objects \ {infos[i]}) \union {o}
    /\ UNCHANGED <<bypassRoutes, requests>>

\* Mutated Routed: it asks whether the last route ends there.
RoutedLast(outputId) ==
    bypassRoutes # <<>> /\ bypassRoutes[Len(bypassRoutes)].outputId = outputId

\* Whether the output has a route.
Routed(outputId) == \E k \in DOMAIN bypassRoutes : bypassRoutes[k].outputId = outputId

\* configBypass(inputId, outputId): jacks that are not there are ignored, and so
\* is an output that has its route.
ConfigBypass(inputId, outputId) ==
    /\ inputId < NumInputs
    /\ outputId < NumOutputs
    /\ Len(requests[outputId]) < NumInputs        \* bound: requests for an output
    /\ bypassRoutes' = IF Routed(outputId) THEN bypassRoutes
                       ELSE Append(bypassRoutes, [inputId |-> inputId, outputId |-> outputId])
    /\ requests' = [requests EXCEPT ![outputId] = Append(@, inputId)]
    /\ UNCHANGED <<infos, objects>>

ConfigNext ==
    \/ \E i \in 0 .. NumInfos : ConfigInfo(i)
    \/ \E inputId \in 0 .. NumInputs, outputId \in 0 .. NumOutputs :
         ConfigBypass(inputId, outputId)

ConfigSpec == ConfigInit /\ [][ConfigNext]_configVars

-----------------------------------------------------------------------------
(***************************************************************************)
(* Properties.                                                             *)
(***************************************************************************)
\* The objects there are, are those the vector holds, each at one index: none is
\* lost when a config function is called again, and none is held for two.
InfosOwnTheirObjects ==
    /\ objects = {infos[i] : i \in InfoIds} \ {NoObject}
    /\ \A i, j \in InfoIds : i # j /\ infos[i] = infos[j] => infos[i] = NoObject

\* Whatever the order of the calls, an output that was asked for has one route, from
\* the input it was asked for with first (in the native classes the last one wins).
FirstRouteStays ==
    \A o \in OutputIds :
        LET routes == {k \in DOMAIN bypassRoutes : bypassRoutes[k].outputId = o} IN
        IF requests[o] = <<>> THEN routes = {}
        ELSE \E k \in routes : routes = {k} /\ bypassRoutes[k].inputId = Head(requests[o])
=============================================================================
