---------------------------- MODULE RackHelpersProof ----------------------------
(***************************************************************************)
(* Theorems about the helper classes of the Rack interface, each on its own *)
(* and, at the end, all of them as RackHelpers puts them together, for      *)
(* every value of the constants.                                            *)
(***************************************************************************)
EXTENDS RackHelpers, ContiguousRingsProof, SequenceTheorems

-----------------------------------------------------------------------------
(***************************************************************************)
(* Port.                                                                   *)
(***************************************************************************)

\* Counts and voltages stay in range, and a loop of writeVoltages never writes
\* above the count it found.
THEOREM PortTypes == PortSpec => []PortTypeOK
<1> USE PortAssumption
<1>1. PortInit => PortTypeOK
  <2> SUFFICES ASSUME PortInit PROVE PortTypeOK
    OBVIOUS
  <2>1. Quiet \in [PortChannels -> PortVolts]
    BY DEF Quiet
  <2>2. connected \in BOOLEAN
    BY DEF PortInit
  <2>3. channels \in 0 .. PortMaxChannels /\ left \in 0 .. channels
    BY DEF PortInit
  <2> QED BY <2>1, <2>2, <2>3 DEF PortInit, PortTypeOK
<1>2. PortTypeOK /\ [PortNext]_portVars => PortTypeOK'
  <2> SUFFICES ASSUME PortTypeOK, [PortNext]_portVars PROVE PortTypeOK'
    OBVIOUS
  <2> USE DEF PortTypeOK
  <2>1. CASE Connect
    BY <2>1 DEF Connect
  <2>2. CASE Disconnect
    <3>1. connected' \in BOOLEAN
      BY <2>2 DEF Disconnect
    <3>2. channels' \in 0 .. PortMaxChannels /\ left' \in 0 .. channels'
      BY <2>2 DEF Disconnect
    <3> QED BY <2>2, <3>1, <3>2 DEF Disconnect
  <2>3. ASSUME NEW v \in PortVolts, NEW c \in 0 .. PortMaxChannels, SetVoltage(v, c)
        PROVE  PortTypeOK'
    BY <2>3 DEF SetVoltage
  <2>4. ASSUME NEW volts \in [PortChannels -> PortVolts], WriteVoltages(volts)
        PROVE  PortTypeOK'
    BY <2>4 DEF WriteVoltages
  <2>5. CASE WriteNext
    BY <2>5 DEF WriteNext, PortChannels
  <2>6. ASSUME NEW n \in 0 .. PortMaxChannels + 1, SetPortChannels(n)
        PROVE  PortTypeOK'
    BY <2>6 DEF SetPortChannels
  <2>7. CASE UNCHANGED portVars
    BY <2>7 DEF portVars
  <2> QED BY <2>1, <2>2, <2>3, <2>4, <2>5, <2>6, <2>7 DEF PortNext
<1> QED BY <1>1, <1>2, PTL DEF PortSpec

\* Every call of the port is a call of the native jack, or one it does not see.
LEMMA PortStep ==
    ASSUME PortTypeOK, [PortNext]_portVars
    PROVE  [Native!Next]_(Native!vars)
<1> USE PortAssumption
<1> USE DEF Native!ins, Native!Channels, PortChannels
<1>0. /\ voltages \in [PortChannels -> PortVolts] /\ channels \in 0 .. PortMaxChannels
      /\ left \in 0 .. channels
  BY DEF PortTypeOK
<1>1. CASE Connect
  <2>1. Native!MarkOutputPatched("jack")
    BY <1>0, <1>1 DEF Connect, Native!MarkOutputPatched
  <2> QED BY <2>1 DEF Native!Next, Native!EngineStep
<1>2. CASE Disconnect
  <2>1. Native!MarkOutputsUnpatched({"jack"})
    BY <1>0, <1>2 DEF Disconnect, Native!MarkOutputsUnpatched
  <2> QED BY <2>1 DEF Native!Next, Native!EngineStep
<1>3. ASSUME NEW v \in PortVolts, NEW c \in 0 .. PortMaxChannels, SetVoltage(v, c)
      PROVE  [Native!Next]_(Native!vars)
  <2>1. CASE c \in PortChannels
    <3>1. Native!SetOutput("jack", v, c)
      BY <1>0, <1>3, <2>1 DEF SetVoltage, Native!SetOutput
    <3> QED BY <3>1, <2>1 DEF Native!Next, Native!UpdateStep
  <2>2. CASE c \notin PortChannels
    BY <1>3, <2>2 DEF SetVoltage, Native!vars, Native!outs
  <2> QED BY <2>1, <2>2
<1>4. ASSUME NEW volts \in [PortChannels -> PortVolts], WriteVoltages(volts)
      PROVE  [Native!Next]_(Native!vars)
  BY <1>4 DEF WriteVoltages, Native!vars, Native!outs
<1>5. CASE WriteNext
  <2> DEFINE c == channels - left
  <2>1. c \in PortChannels /\ source[c] \in PortVolts
    BY <1>0, <1>5 DEF WriteNext, PortTypeOK
  <2>2. Native!SetOutput("jack", source[c], c)
    BY <1>0, <1>5, <2>1 DEF WriteNext, Native!SetOutput
  <2> QED BY <2>1, <2>2 DEF Native!Next, Native!UpdateStep
<1>6. ASSUME NEW n \in 0 .. PortMaxChannels + 1, SetPortChannels(n)
      PROVE  [Native!Next]_(Native!vars)
  <2>1. channels' = Native!Clamped(n)
    BY <1>0, <1>6 DEF SetPortChannels, Native!Clamped
  <2>2. \A c \in PortChannels : c \in n .. channels - 1 <=> n <= c /\ c < channels
    BY <1>0, <1>6
  <2>3. voltages' = [c \in PortChannels |-> IF n <= c /\ c < channels THEN 0 ELSE voltages[c]]
    BY <1>6, <2>2 DEF SetPortChannels
  <2>4. Native!SetChannels("jack", n)
    BY <1>0, <1>6, <2>1, <2>3 DEF SetPortChannels, Native!SetChannels
  <2> QED BY <2>4 DEF Native!Next, Native!UpdateStep
<1>7. CASE UNCHANGED portVars
  BY <1>7 DEF portVars, Native!vars, Native!outs
<1> QED BY <1>1, <1>2, <1>3, <1>4, <1>5, <1>6, <1>7 DEF PortNext

\* An output port of a Rack module is an output jack of a native polyphonic one.
THEOREM PortRefinement == PortSpec => LikeNativeJack
<1>1. PortInit => Native!Init
  BY PortAssumption DEF PortInit, Quiet, PortChannels, Native!Init, Native!Silence,
                        Native!Channels
<1>2. PortTypeOK /\ [PortNext]_portVars => [Native!Next]_(Native!vars)
  BY PortStep
<1> QED BY <1>1, <1>2, PortTypes, PTL DEF PortSpec, LikeNativeJack, Native!Spec

-----------------------------------------------------------------------------
(***************************************************************************)
(* SampleRateConverter.                                                    *)
(***************************************************************************)

\* The members are the settings asked for last.
SettingsAsked ==
    /\ settings = asked
    /\ settings \in [channels : 0 .. MaxSrcChannels, quality : Qualities,
                     inRate : Rates, outRate : Rates]
    /\ st \in Resamplers \union {NoResampler}

ConverterInv == SettingsAsked /\ ConvertsAsAsked

\* refreshState() leaves one resampler for the settings, or none.
LEMMA Refreshed ==
    ASSUME NEW s, Store(s), ConverterInv
    PROVE  ConvertsAsAsked' /\ st' \in Resamplers \union {NoResampler}
<1> DEFINE rest == DOMAIN made \ {st}
<1>1. rest = {}
  BY DEF ConverterInv, ConvertsAsAsked
<1>2. CASE Converts(s) /\ ~failed' /\ \E h \in Resamplers \ rest :
             st' = h /\ made' = [r \in rest \union {h} |-> IF r = h THEN s ELSE made[r]]
  <2>1. PICK h \in Resamplers :
          st' = h /\ made' = [r \in rest \union {h} |-> IF r = h THEN s ELSE made[r]]
    BY <1>2
  <2>2. DOMAIN made' = {h} /\ made'[h] = s
    BY <1>1, <2>1
  <2> QED BY <1>2, <2>1, <2>2, ConverterAssumption DEF ConvertsAsAsked, Store, Converts
<1>3. CASE st' = NoResampler /\ made' = [r \in rest |-> made[r]] /\ failed' = Converts(s)
  <2>1. DOMAIN made' = {}
    BY <1>1, <1>3
  <2> QED BY <1>3, <2>1, ConverterAssumption DEF ConvertsAsAsked, Store, Converts
<1> QED BY <1>2, <1>3 DEF Store, RefreshState

\* However the settings change, the resampler is made for those asked for last,
\* the library has no other, and it is there when it is needed and can be made.
THEOREM ConverterIsInStep == ConverterSpec => []ConvertsAsAsked
<1>1. ConverterInit => ConverterInv
  BY ConverterAssumption DEF ConverterInit, Defaults, ConverterInv, SettingsAsked,
                             ConvertsAsAsked, Converts
<1>2. ConverterInv /\ [ConverterNext]_converterVars => ConverterInv'
  <2> SUFFICES ASSUME ConverterInv, [ConverterNext]_converterVars PROVE ConverterInv'
    OBVIOUS
  <2> USE DEF SettingsAsked
  <2>1. ASSUME NEW n \in 0 .. MaxSrcChannels, SetConverterChannels(n)
        PROVE  ConverterInv'
    BY <2>1, Refreshed DEF SetConverterChannels, ConverterInv, Store
  <2>2. ASSUME NEW q \in Qualities, SetQuality(q)
        PROVE  ConverterInv'
    BY <2>2, Refreshed DEF SetQuality, ConverterInv, Store
  <2>3. ASSUME NEW in \in Rates, NEW out \in Rates, SetRates(in, out)
        PROVE  ConverterInv'
    <3>1. CASE in # settings.inRate \/ out # settings.outRate
      BY <2>3, <3>1, Refreshed DEF SetRates, ConverterInv, Store
    <3>2. CASE ~(in # settings.inRate \/ out # settings.outRate)
      <4>1. asked' = asked
        BY <2>3, <3>2 DEF SetRates, ConverterInv
      <4> QED BY <2>3, <3>2, <4>1 DEF SetRates, ConverterInv, ConvertsAsAsked
    <3> QED BY <3>1, <3>2
  <2>4. CASE UNCHANGED converterVars
    BY <2>4 DEF converterVars, ConverterInv, ConvertsAsAsked
  <2> QED BY <2>1, <2>2, <2>3, <2>4 DEF ConverterNext
<1> QED BY <1>1, <1>2, PTL DEF ConverterSpec, ConverterInv

-----------------------------------------------------------------------------
(***************************************************************************)
(* PulseGenerator.                                                         *)
(***************************************************************************)

PulseTypes ==
    /\ remaining \in Int /\ remaining <= MaxDuration /\ BelowZero
    /\ high \in BOOLEAN /\ owed \subseteq 1 .. MaxDuration

\* What remains is the longest of the times owed.
PulseInv ==
    /\ PulseTypes
    /\ \A d \in owed : d <= remaining
    /\ remaining > 0 => remaining \in owed

LEMMA PulseKeeps == PulseInv /\ [PulseNext]_pulseVars => PulseInv'
<1> SUFFICES ASSUME PulseInv, [PulseNext]_pulseVars PROVE PulseInv'
  OBVIOUS
<1> USE DEF PulseInv, PulseTypes
<1>0. MaxDuration \in Nat /\ SampleTimes \subseteq Nat
  BY PulseAssumption
<1>1. ASSUME NEW duration \in 0 .. MaxDuration, Trigger(duration)
      PROVE  PulseInv'
  <2>1. CASE duration > remaining
    <3>1. remaining' = duration /\ duration >= 0
      BY <1>1, <2>1 DEF Trigger
    <3>2. BelowZero'
      BY <3>1 DEF BelowZero
    <3> QED BY <1>0, <1>1, <2>1, <3>1, <3>2 DEF Trigger
  <2>2. CASE ~(duration > remaining)
    <3>1. remaining' = remaining
      BY <1>1, <2>2 DEF Trigger
    <3>2. BelowZero'
      BY <3>1 DEF BelowZero
    <3> QED BY <1>0, <1>1, <2>2, <3>1, <3>2 DEF Trigger
  <2> QED BY <2>1, <2>2
<1>2. ASSUME NEW deltaTime \in SampleTimes, ProcessPulse(deltaTime)
      PROVE  PulseInv'
  <2>1. deltaTime \in Nat
    BY <1>0
  <2>2. owed' = {d \in {o - deltaTime : o \in owed} : d > 0} /\ high' = (remaining > 0)
    BY <1>2 DEF ProcessPulse
  <2>3. high' \in BOOLEAN
    BY <1>2 DEF ProcessPulse
  <2>4. CASE remaining > 0
    <3>1. remaining' = remaining - deltaTime
      BY <1>2, <2>4 DEF ProcessPulse
    <3>2. remaining' \in Int /\ remaining' <= MaxDuration
      BY <1>0, <2>1, <2>4, <3>1
    <3>3. BelowZero'
      <4>1. remaining' + deltaTime > 0
        BY <2>1, <2>4, <3>1
      <4> QED BY <4>1 DEF BelowZero
    <3>4. owed' \subseteq 1 .. MaxDuration /\ \A d \in owed' : d <= remaining'
      BY <1>0, <2>1, <2>2, <3>1
    <3>5. remaining' > 0 => remaining' \in owed'
      BY <2>2, <2>4, <3>1
    <3> QED BY <2>3, <3>2, <3>3, <3>4, <3>5
  <2>5. CASE ~(remaining > 0)
    <3>1. remaining' = remaining /\ owed' = {}
      BY <1>0, <1>2, <2>1, <2>2, <2>5 DEF ProcessPulse
    <3> QED BY <2>3, <2>5, <3>1 DEF BelowZero
  <2> QED BY <2>4, <2>5
<1>3. CASE ResetPulse
  BY <1>0, <1>3 DEF ResetPulse, BelowZero
<1>4. CASE UNCHANGED pulseVars
  BY <1>4 DEF pulseVars, BelowZero
<1> QED BY <1>1, <1>2, <1>3, <1>4 DEF PulseNext

LEMMA PulseStarts == PulseInit => PulseInv
<1> SUFFICES ASSUME PulseInit PROVE PulseInv
  OBVIOUS
<1>1. remaining = 0 /\ high \in BOOLEAN /\ owed = {} /\ MaxDuration \in Nat
  BY PulseAssumption DEF PulseInit
<1> QED BY <1>1 DEF PulseInv, PulseTypes, BelowZero

\* At most what was asked for is left of a pulse, and below zero less than a sample:
\* the last of it may be shorter than the sample that ends it.
THEOREM PulseBounds == PulseSpec => []PulseTypes
<1>1. PulseInv => PulseTypes
  BY DEF PulseInv
<1> QED BY <1>1, PulseStarts, PulseKeeps, PTL DEF PulseSpec

\* process() returns true exactly while a pulse that was asked for has time left,
\* whatever the pulses and the lengths of the samples, in whole numbers of one unit.
THEOREM PulsesLast == PulseSpec => LastsAsAsked
<1>1. PulseInv => \A deltaTime \in SampleTimes :
                    ProcessPulse(deltaTime) => (high' <=> owed # {})
  <2>1. PulseInv /\ remaining > 0 => owed # {}
    BY DEF PulseInv
  <2>2. ASSUME PulseInv, owed # {} PROVE remaining > 0
    <3>1. PICK d \in owed : d <= remaining
      BY <2>2 DEF PulseInv
    <3>2. d \in 1 .. MaxDuration /\ remaining \in Int
      BY <2>2 DEF PulseInv, PulseTypes
    <3> QED BY <3>1, <3>2
  <2> QED BY <2>1, <2>2, Zenon DEF ProcessPulse
<1> QED BY <1>1, PulseStarts, PulseKeeps, PTL DEF PulseSpec, LastsAsAsked

-----------------------------------------------------------------------------
(***************************************************************************)
(* Module.                                                                 *)
(***************************************************************************)
ConfigTypes ==
    /\ infos \in [InfoIds -> Objects \union {NoObject}]
    /\ objects \subseteq Objects
    /\ bypassRoutes \in Seq([inputId : Nat, outputId : OutputIds])
    /\ requests \in [OutputIds -> Seq(Nat)]

ConfigInv == ConfigTypes /\ InfosOwnTheirObjects /\ FirstRouteStays

\* A configured object takes the place of the one before it.
LEMMA InfoKeeps ==
    ASSUME ConfigInv, NEW i \in 0 .. NumInfos, ConfigInfo(i)
    PROVE  ConfigInv'
<1> USE ConfigAssumption
<1>1. i \in InfoIds
  BY DEF ConfigInfo, InfoIds
<1>2. PICK o \in (Objects \ objects) \union ({infos[i]} \ {NoObject}) :
        /\ infos' = [infos EXCEPT ![i] = o]
        /\ objects' = (objects \ {infos[i]}) \union {o}
  BY DEF ConfigInfo
<1>3. /\ infos \in [InfoIds -> Objects \union {NoObject}]
      /\ objects \subseteq Objects
      /\ objects = {infos[j] : j \in InfoIds} \ {NoObject}
      /\ \A j, k \in InfoIds : j # k /\ infos[j] = infos[k] => infos[j] = NoObject
  BY DEF ConfigInv, ConfigTypes, InfosOwnTheirObjects
<1>4. o \in Objects /\ o # NoObject /\ (o \notin objects \/ o = infos[i])
  BY <1>1, <1>2, <1>3
<1>5. /\ infos'[i] = o
      /\ \A j \in InfoIds : j # i => infos'[j] = infos[j]
      /\ infos' \in [InfoIds -> Objects \union {NoObject}]
  BY <1>1, <1>2, <1>3, <1>4
<1>6. \A j \in InfoIds : j # i => infos[j] # o
  BY <1>1, <1>3, <1>4
<1>7. objects' = {infos'[j] : j \in InfoIds} \ {NoObject}
  <2>1. ASSUME NEW x \in objects' PROVE x \in {infos'[j] : j \in InfoIds} \ {NoObject}
    <3>1. CASE x = o
      BY <3>1, <1>1, <1>4, <1>5
    <3>2. CASE x # o
      <4>1. x \in objects /\ x # infos[i]
        BY <1>2, <3>2
      <4>2. PICK j \in InfoIds : x = infos[j] /\ x # NoObject
        BY <4>1, <1>3
      <4> QED BY <4>1, <4>2, <1>5
    <3> QED BY <3>1, <3>2
  <2>2. ASSUME NEW j \in InfoIds, infos'[j] # NoObject PROVE infos'[j] \in objects'
    <3>1. CASE j = i
      BY <3>1, <1>2, <1>5
    <3>2. CASE j # i
      <4>1. infos[j] = infos'[j] /\ infos[j] \in objects /\ infos[j] # infos[i]
        BY <3>2, <2>2, <1>1, <1>3, <1>5
      <4> QED BY <4>1, <1>2
    <3> QED BY <3>1, <3>2
  <2> QED BY <2>1, <2>2
<1>8. InfosOwnTheirObjects'
  BY <1>3, <1>5, <1>6, <1>7 DEF InfosOwnTheirObjects
<1>9. UNCHANGED <<bypassRoutes, requests>>
  BY DEF ConfigInfo
<1>10. FirstRouteStays'
  BY <1>9 DEF ConfigInv, FirstRouteStays
<1>11. ConfigTypes'
  BY <1>2, <1>3, <1>4, <1>5, <1>9 DEF ConfigInv, ConfigTypes
<1> QED BY <1>8, <1>10, <1>11 DEF ConfigInv

\* Appending adds one position and leaves the others.
LEMMA AppendedOne ==
    ASSUME NEW T, NEW seq \in Seq(T), NEW e \in T, NEW longer, longer = Append(seq, e),
           NEW n, n = Len(seq) + 1
    PROVE  /\ n \notin DOMAIN seq
           /\ \A k : k \in DOMAIN longer <=> k \in DOMAIN seq \/ k = n
           /\ longer[n] = e
           /\ \A k \in DOMAIN seq : longer[k] = seq[k]
<1>1. n \in Nat /\ DOMAIN seq = 1 .. n - 1
  OBVIOUS
<1>2. DOMAIN longer = 1 .. n /\ longer[n] = e
  OBVIOUS
<1>3. \A k \in DOMAIN seq : longer[k] = seq[k]
  OBVIOUS
<1>4. \A k : k \in 1 .. n <=> k \in 1 .. n - 1 \/ k = n
  <2>1. n >= 1
    BY <1>1
  <2> QED BY <1>1, <2>1
<1> QED BY <1>1, <1>2, <1>3, <1>4

\* And it leaves the head, if there is one.
LEMMA HeadOfAppended ==
    ASSUME NEW T, NEW seq \in Seq(T), NEW e \in T, NEW longer, longer = Append(seq, e)
    PROVE  /\ longer # <<>>
           /\ seq = <<>> => Head(longer) = e
           /\ seq # <<>> => Head(longer) = Head(seq)
<1>1. longer # <<>> /\ Head(longer) = longer[1]
  OBVIOUS
<1>2. CASE seq = <<>>
  <2>1. longer = <<e>>
    BY <1>2
  <2> QED BY <1>1, <1>2, <2>1
<1>3. CASE seq # <<>>
  <2>1. Head(seq) = seq[1] /\ 1 \in 1 .. Len(seq)
    BY <1>3
  <2>2. longer[1] = seq[1]
    BY <2>1
  <2> QED BY <1>1, <1>3, <2>1, <2>2
<1> QED BY <1>2, <1>3

\* A bypass that was asked for first keeps its output.
LEMMA BypassKeeps ==
    ASSUME ConfigInv, NEW inputId \in 0 .. NumInputs, NEW outputId \in 0 .. NumOutputs,
           ConfigBypass(inputId, outputId)
    PROVE  ConfigInv'
<1> USE ConfigAssumption
<1> DEFINE route == [inputId |-> inputId, outputId |-> outputId]
           Ends(routes, o) == {k \in DOMAIN routes : routes[k].outputId = o}
<1>1. outputId \in OutputIds /\ inputId \in Nat /\ OutputIds \subseteq Nat
  BY DEF ConfigBypass, OutputIds
<1>2. /\ bypassRoutes \in Seq([inputId : Nat, outputId : OutputIds])
      /\ requests \in [OutputIds -> Seq(Nat)]
  BY DEF ConfigInv, ConfigTypes
<1>3. /\ bypassRoutes' = IF Routed(outputId) THEN bypassRoutes ELSE Append(bypassRoutes, route)
      /\ requests' = [requests EXCEPT ![outputId] = Append(@, inputId)]
      /\ UNCHANGED <<infos, objects>>
  BY DEF ConfigBypass
<1>4. route \in [inputId : Nat, outputId : OutputIds]
  BY <1>1
<1>5. ConfigTypes'
  <2>1. bypassRoutes' \in Seq([inputId : Nat, outputId : OutputIds])
    <3> HIDE DEF route
    <3>1. Append(bypassRoutes, route) \in Seq([inputId : Nat, outputId : OutputIds])
      BY <1>2, <1>4, AppendProperties, Zenon
    <3> QED BY <1>2, <1>3, <3>1
  <2>2. requests' \in [OutputIds -> Seq(Nat)]
    <3>1. Append(requests[outputId], inputId) \in Seq(Nat)
      BY <1>1, <1>2
    <3> QED BY <1>1, <1>2, <1>3, <3>1
  <2> QED BY <2>1, <2>2, <1>3 DEF ConfigInv, ConfigTypes
<1>6. InfosOwnTheirObjects'
  BY <1>3 DEF ConfigInv, InfosOwnTheirObjects
<1>7. ASSUME ~Routed(outputId)
      PROVE  \E n : /\ n \notin DOMAIN bypassRoutes
                    /\ \A k : k \in DOMAIN bypassRoutes' <=> k \in DOMAIN bypassRoutes \/ k = n
                    /\ bypassRoutes'[n] = route
                    /\ \A k \in DOMAIN bypassRoutes : bypassRoutes'[k] = bypassRoutes[k]
  <2> DEFINE n == Len(bypassRoutes) + 1
  <2> HIDE DEF route
  <2>1. bypassRoutes' = Append(bypassRoutes, route)
    BY <1>3, <1>7
  <2>2. PICK R : bypassRoutes \in Seq(R) /\ route \in R
    BY <1>2, <1>4, Zenon
  <2> WITNESS n
  <2> QED BY <2>1, <2>2, AppendedOne
<1>8. ASSUME NEW o \in OutputIds
      PROVE  IF requests'[o] = <<>> THEN Ends(bypassRoutes', o) = {}
             ELSE \E k \in Ends(bypassRoutes', o) :
                    /\ Ends(bypassRoutes', o) = {k}
                    /\ bypassRoutes'[k].inputId = Head(requests'[o])
  <2>1. IF requests[o] = <<>> THEN Ends(bypassRoutes, o) = {}
        ELSE \E k \in Ends(bypassRoutes, o) :
               /\ Ends(bypassRoutes, o) = {k}
               /\ bypassRoutes[k].inputId = Head(requests[o])
    BY DEF ConfigInv, FirstRouteStays
  <2>2. CASE o # outputId
    <3>1. requests'[o] = requests[o]
      BY <1>2, <1>3, <2>2
    <3>2. /\ Ends(bypassRoutes', o) = Ends(bypassRoutes, o)
          /\ \A k \in DOMAIN bypassRoutes : bypassRoutes'[k] = bypassRoutes[k]
      <4>1. CASE Routed(outputId)
        BY <1>3, <4>1
      <4>2. CASE ~Routed(outputId)
        <5>1. PICK n : /\ n \notin DOMAIN bypassRoutes
                       /\ \A k : k \in DOMAIN bypassRoutes' <=> k \in DOMAIN bypassRoutes \/ k = n
                       /\ bypassRoutes'[n] = route
                       /\ \A k \in DOMAIN bypassRoutes : bypassRoutes'[k] = bypassRoutes[k]
          BY <1>7, <4>2
        <5>2. bypassRoutes'[n].outputId # o
          BY <2>2, <5>1
        <5> QED BY <5>1, <5>2
      <4> QED BY <4>1, <4>2
    <3> QED BY <2>1, <3>1, <3>2
  <2>3. CASE o = outputId
    <3>1. /\ requests'[o] # <<>>
          /\ requests[o] = <<>> => Head(requests'[o]) = inputId
          /\ requests[o] # <<>> => Head(requests'[o]) = Head(requests[o])
      <4>1. requests[o] \in Seq(Nat) /\ requests'[o] = Append(requests[o], inputId)
        BY <1>2, <1>3, <2>3
      <4>2. inputId \in Nat
        BY <1>1
      <4>3. PICK q \in Seq(Nat) : q = requests[o]
        BY <4>1, Zenon
      <4>4. PICK longer : longer = requests'[o]
        OBVIOUS
      <4>5. longer = Append(q, inputId)
        BY <4>1, <4>3, <4>4
      <4>6. /\ longer # <<>>
            /\ q = <<>> => Head(longer) = inputId
            /\ q # <<>> => Head(longer) = Head(q)
        BY <4>2, <4>5, HeadOfAppended
      <4> QED BY <4>3, <4>4, <4>6, Zenon
    <3>2. Routed(outputId) <=> requests[o] # <<>>
      BY <2>1, <2>3 DEF Routed
    <3>3. CASE requests[o] # <<>>
      <4>1. bypassRoutes' = bypassRoutes
        BY <1>3, <3>2, <3>3
      <4> QED BY <2>1, <3>1, <3>3, <4>1
    <3>4. CASE requests[o] = <<>>
      <4>1. PICK n : /\ \A k : k \in DOMAIN bypassRoutes' <=> k \in DOMAIN bypassRoutes \/ k = n
                     /\ bypassRoutes'[n] = route
                     /\ \A k \in DOMAIN bypassRoutes : bypassRoutes'[k] = bypassRoutes[k]
                     /\ n \notin DOMAIN bypassRoutes
        BY <1>7, <3>2, <3>4
      <4>2. Ends(bypassRoutes', o) = {n} /\ bypassRoutes'[n].inputId = inputId
        BY <2>1, <2>3, <3>4, <4>1
      <4> QED BY <3>1, <3>4, <4>2
    <3> QED BY <3>3, <3>4
  <2> QED BY <2>2, <2>3
<1>9. FirstRouteStays'
  BY <1>8 DEF FirstRouteStays
<1> QED BY <1>5, <1>6, <1>9 DEF ConfigInv

\* Whatever a constructor calls in whatever order, no object is lost or held twice,
\* and each output keeps the bypass it was asked for with first.
THEOREM ConfigSafety == ConfigSpec => [](InfosOwnTheirObjects /\ FirstRouteStays)
<1>1. ConfigInit => ConfigInv
  <2> SUFFICES ASSUME ConfigInit PROVE ConfigInv
    OBVIOUS
  <2>1. <<>> \in Seq([inputId : Nat, outputId : OutputIds]) /\ <<>> \in Seq(Nat)
    BY Zenon, EmptySeq
  <2>2. ConfigTypes
    BY <2>1 DEF ConfigTypes, ConfigInit
  <2>3. InfosOwnTheirObjects
    BY DEF InfosOwnTheirObjects, ConfigInit
  <2>4. FirstRouteStays
    <3>1. DOMAIN bypassRoutes = {} /\ \A o \in OutputIds : requests[o] = <<>>
      BY DEF ConfigInit
    <3>2. \A o \in OutputIds : {k \in DOMAIN bypassRoutes : bypassRoutes[k].outputId = o} = {}
      BY <3>1
    <3> QED BY <3>1, <3>2 DEF FirstRouteStays
  <2> QED BY <2>2, <2>3, <2>4 DEF ConfigInv
<1>2. ConfigInv /\ [ConfigNext]_configVars => ConfigInv'
  <2>1. ASSUME ConfigInv, UNCHANGED configVars PROVE ConfigInv'
    <3>1. UNCHANGED <<infos, objects, bypassRoutes, requests>>
      BY <2>1 DEF configVars
    <3>2. ConfigTypes'
      BY <2>1, <3>1 DEF ConfigInv, ConfigTypes
    <3>3. InfosOwnTheirObjects'
      BY <2>1, <3>1 DEF ConfigInv, InfosOwnTheirObjects
    <3>4. FirstRouteStays'
      BY <2>1, <3>1, Zenon DEF ConfigInv, FirstRouteStays
    <3> QED BY <3>2, <3>3, <3>4 DEF ConfigInv
  <2> QED BY <2>1, InfoKeeps, BypassKeeps DEF ConfigNext
<1> QED BY <1>1, <1>2, PTL DEF ConfigSpec, ConfigInv

-----------------------------------------------------------------------------
(***************************************************************************)
(* ClockDivider.                                                           *)
(***************************************************************************)
Period == IF division = 0 THEN 1 ELSE division

DividerTypes ==
    /\ clock \in 0 .. MaxDivision - 1 /\ division \in 0 .. MaxDivision
    /\ ticks \in Seq(BOOLEAN)

\* Once process() has been called with a division the clock is below it, and tells
\* how many calls ago it ticked: the only tick of the last Period calls.
TickAtClock ==
    /\ ticks # <<>> => clock < Period
    /\ \A j \in 1 .. Len(ticks) : j <= Period => (ticks[j] <=> j = clock + 1)

DividerInv == DividerTypes /\ TickAtClock

\* What process() puts at the front of `ticks`.
LEMMA TicksAre ==
    ASSUME DividerTypes, ProcessDivider
    PROVE  /\ ticks' \in Seq(BOOLEAN) /\ Len(ticks') > 0
           /\ ticks'[1] = Ticks
           /\ \A j \in 2 .. Len(ticks') : j - 1 \in 1 .. Len(ticks) /\ ticks'[j] = ticks[j - 1]
<1> DEFINE kept == IF Len(ticks) < MaxDivision THEN ticks ELSE SubSeq(ticks, 1, MaxDivision - 1)
<1>0. MaxDivision \in Nat \ {0} /\ ticks \in Seq(BOOLEAN) /\ Len(ticks) \in Nat
  BY DivisionAssumption DEF DividerTypes
<1>1. /\ kept \in Seq(BOOLEAN)
      /\ \A j \in 1 .. Len(kept) : j \in 1 .. Len(ticks) /\ kept[j] = ticks[j]
  <2>1. CASE Len(ticks) < MaxDivision
    BY <1>0, <2>1
  <2>2. CASE ~(Len(ticks) < MaxDivision)
    BY <1>0, <2>2
  <2> QED BY <2>1, <2>2
<1> HIDE DEF kept
<1>2. PICK b \in BOOLEAN : b = Ticks
  <2> DEFINE late == clock + 1 >= division
  <2>0. clock + 1 \in Int /\ division \in Int
    BY <1>0 DEF DividerTypes
  <2>1. late \in BOOLEAN
    BY <2>0
  <2>2. late = Ticks
    BY Zenon DEF Ticks
  <2> HIDE DEF late
  <2> QED BY <2>1, <2>2, Zenon
<1>3. ticks' = <<b>> \o kept
  BY <1>2 DEF ProcessDivider, kept
<1>4. /\ ticks' \in Seq(BOOLEAN) /\ Len(ticks') = 1 + Len(kept)
      /\ ticks'[1] = b
      /\ \A j \in 2 .. Len(ticks') : ticks'[j] = kept[j - 1]
  BY <1>1, <1>3
<1> QED BY <1>1, <1>2, <1>4

LEMMA ProcessKeeps == DividerInv /\ ProcessDivider => DividerInv'
<1> SUFFICES ASSUME DividerInv, ProcessDivider PROVE DividerInv'
  OBVIOUS
<1>0. /\ MaxDivision \in Nat \ {0} /\ clock \in 0 .. MaxDivision - 1
      /\ division \in 0 .. MaxDivision /\ division' = division
      /\ clock' = IF clock + 1 >= division THEN 0 ELSE clock + 1
  BY DivisionAssumption DEF DividerInv, DividerTypes, ProcessDivider, Ticks
<1>1. /\ ticks' \in Seq(BOOLEAN) /\ Len(ticks') > 0
      /\ ticks'[1] = (clock + 1 >= division)
      /\ \A j \in 2 .. Len(ticks') : j - 1 \in 1 .. Len(ticks) /\ ticks'[j] = ticks[j - 1]
  BY TicksAre DEF DividerInv, Ticks
<1>2. DividerTypes'
  BY <1>0, <1>1 DEF DividerTypes
<1>3. clock' < Period'
  BY <1>0 DEF Period
<1>4. ASSUME NEW j \in 1 .. Len(ticks'), j <= Period'
      PROVE  ticks'[j] <=> j = clock' + 1
  <2>1. CASE j = 1
    BY <1>0, <1>1, <2>1
  <2>2. CASE j # 1
    <3>0. Len(ticks') \in Nat /\ Len(ticks) \in Nat
      BY <1>1 DEF DividerInv, DividerTypes
    <3>1. /\ j \in 2 .. Len(ticks') /\ j - 1 \in 1 .. Len(ticks) /\ j - 1 <= Period
          /\ ticks'[j] = ticks[j - 1]
      BY <1>0, <1>1, <1>4, <2>2, <3>0 DEF Period
    <3>2. clock < Period
      BY <3>0, <3>1 DEF DividerInv, TickAtClock
    <3>3. ticks[j - 1] <=> j - 1 = clock + 1
      BY <3>1 DEF DividerInv, TickAtClock
    <3>4. j - 1 = clock + 1 <=> j = clock' + 1
      BY <1>0, <1>4, <3>0, <3>1, <3>2 DEF Period
    <3> QED BY <3>1, <3>3, <3>4
  <2> QED BY <2>1, <2>2
<1> QED BY <1>2, <1>3, <1>4 DEF DividerInv, TickAtClock

LEMMA DividerKeeps == DividerInv /\ [DividerNext]_dividerVars => DividerInv'
<1> SUFFICES ASSUME DividerInv, [DividerNext]_dividerVars PROVE DividerInv'
  OBVIOUS
<1>1. ASSUME NEW d \in 0 .. MaxDivision, SetDivision(d) PROVE DividerInv'
  BY <1>1 DEF SetDivision, DividerInv, DividerTypes, TickAtClock
<1>2. CASE ProcessDivider
  BY <1>2, ProcessKeeps
<1>3. CASE ResetDivider
  BY <1>3, DivisionAssumption DEF ResetDivider, DividerInv, DividerTypes, TickAtClock
<1>4. CASE UNCHANGED dividerVars
  BY <1>4 DEF dividerVars, DividerInv, DividerTypes, TickAtClock, Period
<1> QED BY <1>1, <1>2, <1>3, <1>4 DEF DividerNext

LEMMA OneTick == DividerInv => OncePerDivision
<1> SUFFICES ASSUME DividerInv, Len(ticks) >= Period
             PROVE  \E k \in 1 .. Period : {j \in 1 .. Period : ticks[j]} = {k}
  BY DEF OncePerDivision, Period
<1>1. /\ Period \in Nat \ {0} /\ clock \in Nat /\ Len(ticks) \in Nat
      /\ ticks \in Seq(BOOLEAN)
  BY DivisionAssumption DEF DividerInv, DividerTypes, Period
<1>2. clock + 1 \in 1 .. Period
  BY <1>1 DEF DividerInv, TickAtClock
<1>3. \A j \in 1 .. Period : ticks[j] <=> j = clock + 1
  BY <1>1 DEF DividerInv, TickAtClock
<1>4. {j \in 1 .. Period : ticks[j]} = {clock + 1}
  BY <1>2, <1>3
<1> QED BY <1>2, <1>4

DividerSpec == DividerInit /\ [][DividerNext]_dividerVars

\* Whatever the divisions and whenever they are set, of any `division` calls of
\* process() in a row since the last exactly one ticks.
THEOREM DividerTicks == DividerSpec => [](DividerTypes /\ OncePerDivision)
<1>1. DividerInit => DividerInv
  BY DivisionAssumption DEF DividerInit, DividerInv, DividerTypes, TickAtClock
<1>2. DividerInv => DividerTypes /\ OncePerDivision
  BY OneTick DEF DividerInv
<1> QED BY <1>1, <1>2, DividerKeeps, PTL DEF DividerSpec

-----------------------------------------------------------------------------
(***************************************************************************)
(* The triggers.                                                           *)
(***************************************************************************)

\* The members as functions of the readings: the latest crossing is all that the
\* Schmitt triggers remember, and the latest reading all that BooleanTrigger does.
StateAfter(crossing) ==
    CASE crossing = "low"  -> "LOW"
      [] crossing = "high" -> "HIGH"
      [] OTHER             -> "UNINITIALIZED"

Remembered ==
    /\ schmitt = StateAfter(LastCrossing(Len(readings) + 1))
    /\ lane = (schmitt = "HIGH")
    /\ boolean = IF readings = <<>> THEN "UNINITIALIZED" ELSE BooleanNext(readings[Len(readings)])

EdgeInv == EdgeTypeOK /\ Remembered /\ TriggersOncePerCrossing

\* The inputs before the k-th of r that crossed a threshold.
Crossings(r, k) == {j \in 1 .. k - 1 : r[j] # "between"}

LEMMA MaxOf ==
    ASSUME NEW n \in Nat, NEW T, T \subseteq 1 .. n
    PROVE  /\ T # {} => Max(T) \in T
           /\ n \in T => Max(T) = n
<1>1. ASSUME T # {} PROVE Max(T) \in T
  <2>0. T \subseteq 0 .. n
    OBVIOUS
  <2>1. PICK m \in T : \A y \in T : y <= m
    BY <1>1, <2>0, GreatestOf
  <2>2. \A y \in T : m >= y
    BY <2>1
  <2> QED BY <2>1, <2>2 DEF Max
<1>2. ASSUME n \in T PROVE Max(T) = n
  <2>1. n \in T /\ \A y \in T : n >= y
    BY <1>2
  <2>2. \A x \in T : (\A y \in T : x >= y) => x = n
    BY <1>2
  <2> QED BY <2>1, <2>2 DEF Max
<1> QED BY <1>1, <1>2

LEMMA LastCrossingType ==
    ASSUME readings \in Seq(Readings), NEW k \in 1 .. Len(readings) + 1
    PROVE  LastCrossing(k) \in Readings
<1> DEFINE T == Crossings(readings, k)
<1>0. Len(readings) \in Nat
  OBVIOUS
<1>1. T \subseteq 1 .. Len(readings)
  BY <1>0 DEF Crossings
<1>2. T # {} => Max(T) \in 1 .. Len(readings)
  BY <1>0, <1>1, MaxOf
<1>3. LastCrossing(k) = IF T = {} THEN "between" ELSE readings[Max(T)]
  BY DEF LastCrossing, Crossings
<1> QED BY <1>0, <1>2, <1>3 DEF Readings

\* A reading between the thresholds leaves the latest crossing, another becomes it.
LEMMA LastCrossingNext ==
    ASSUME readings \in Seq(Readings), NEW in \in Readings, readings' = Append(readings, in),
           NEW n, n = Len(readings)
    PROVE  /\ LastCrossing(n + 1)' = LastCrossing(n + 1)
           /\ LastCrossing(n + 2)' = IF in = "between" THEN LastCrossing(n + 1) ELSE in
<1> DEFINE T == Crossings(readings, n + 1)
           U == Crossings(readings', n + 2)
<1>0. n \in Nat /\ readings'[n + 1] = in /\ \A j \in 1 .. n : readings'[j] = readings[j]
  OBVIOUS
<1>1. T \subseteq 1 .. n /\ T = Crossings(readings', n + 1)
  BY <1>0 DEF Crossings
<1>2. U = T \union (IF in = "between" THEN {} ELSE {n + 1})
  BY <1>0 DEF Crossings
<1>3. T # {} => Max(T) \in 1 .. n
  BY <1>0, <1>1, MaxOf
<1>4. in # "between" => Max(U) = n + 1
  <2>1. n + 1 \in Nat /\ U \subseteq 1 .. n + 1
    BY <1>0, <1>1, <1>2
  <2> HIDE DEF U, T
  <2> QED BY <2>1, <1>2, MaxOf
<1>5. /\ LastCrossing(n + 1) = IF T = {} THEN "between" ELSE readings[Max(T)]
      /\ LastCrossing(n + 1)' = IF T = {} THEN "between" ELSE readings'[Max(T)]
      /\ LastCrossing(n + 2)' = IF U = {} THEN "between" ELSE readings'[Max(U)]
  <2>1. LastCrossing(n + 1) = IF T = {} THEN "between" ELSE readings[Max(T)]
    BY DEF LastCrossing, Crossings
  <2>2. LastCrossing(n + 1)' = IF T = {} THEN "between" ELSE readings'[Max(T)]
    BY <1>1 DEF LastCrossing, Crossings
  <2>3. LastCrossing(n + 2)' = IF U = {} THEN "between" ELSE readings'[Max(U)]
    BY DEF LastCrossing, Crossings
  <2> QED BY <2>1, <2>2, <2>3
<1> HIDE DEF T, U
<1> QED BY <1>0, <1>2, <1>3, <1>4, <1>5

\* What a call must leave in `s` and return.
SchmittNext(s, in) ==
    CASE in = "high" -> "HIGH"
      [] in = "low"  -> "LOW"
      [] OTHER       -> s

SchmittIs(r, s, in, call) ==
    /\ r.s = SchmittNext(s, in) /\ r.event \in Events
    /\ r.event = "TRIGGERED" <=> s = "LOW" /\ in = "high"
    /\ r.event = "UNTRIGGERED" <=> call = "processEvent" /\ s = "HIGH" /\ in = "low"

BooleanIs(r, s, in, call) ==
    /\ r.s = BooleanNext(in) /\ r.event \in Events
    /\ r.event = "TRIGGERED" <=> s = "LOW" /\ in = "high"
    /\ r.event = "UNTRIGGERED" <=> call = "processEvent" /\ s = "HIGH" /\ in # "high"

LEMMA ResultsAre ==
    ASSUME NEW s \in States, NEW in \in Readings
    PROVE  /\ SchmittIs(SchmittProcess(s, in), s, in, "process")
           /\ SchmittIs(SchmittProcessEvent(s, in), s, in, "processEvent")
           /\ BooleanIs(BooleanProcess(s, in), s, in, "process")
           /\ BooleanIs(BooleanProcessEvent(s, in), s, in, "processEvent")
<1> USE DEF States, Readings, Events, Result
<1>1. SchmittIs(SchmittProcess(s, in), s, in, "process")
  BY DEF SchmittIs, SchmittProcess, SchmittNext
<1>2. SchmittIs(SchmittProcessEvent(s, in), s, in, "processEvent")
  BY DEF SchmittIs, SchmittProcessEvent, SchmittNext
<1>3. BooleanIs(BooleanProcess(s, in), s, in, "process")
  BY DEF BooleanIs, BooleanProcess, BooleanNext
<1>4. BooleanIs(BooleanProcessEvent(s, in), s, in, "processEvent")
  BY DEF BooleanIs, BooleanProcessEvent, BooleanNext
<1> QED BY <1>1, <1>2, <1>3, <1>4

LEMMA FeedKeeps ==
    ASSUME EdgeInv, NEW in \in Readings, NEW call \in Calls, NEW onSchmitt, NEW onBoolean,
           Feed(in, call, onSchmitt, onBoolean),
           SchmittIs(onSchmitt, schmitt, in, call), BooleanIs(onBoolean, boolean, in, call)
    PROVE  EdgeInv'
<1>0. /\ schmitt \in States /\ boolean \in States /\ lane \in BOOLEAN
      /\ readings \in Seq(Readings) /\ readings' = Append(readings, in)
  BY DEF EdgeInv, EdgeTypeOK, Feed
<1>1. PICK n \in Nat : n = Len(readings)
  BY <1>0
<1>2. PICK latest \in Readings : latest = LastCrossing(n + 1)
  BY <1>0, <1>1, LastCrossingType
<1>3. /\ LastCrossing(n + 1)' = latest
      /\ LastCrossing(n + 2)' = IF in = "between" THEN latest ELSE in
  BY <1>0, <1>1, <1>2, LastCrossingNext
<1>4. /\ readings' \in Seq(Readings) /\ Len(readings') = n + 1
      /\ readings'[n + 1] = in /\ readings' # <<>>
      /\ n > 0 => readings'[n] = readings[n] /\ readings[n] \in Readings
  BY <1>0, <1>1
<1>5. /\ schmitt = StateAfter(latest) /\ lane = (schmitt = "HIGH")
      /\ boolean = IF n = 0 THEN "UNINITIALIZED" ELSE BooleanNext(readings[n])
  BY <1>0, <1>1, <1>2 DEF EdgeInv, Remembered
<1>6. /\ schmitt' = SchmittNext(schmitt, in) /\ boolean' = BooleanNext(in)
      /\ lane' = LaneNext(lane, in)
  BY DEF Feed, SchmittIs, BooleanIs
<1> DEFINE x == onSchmitt.event
           y == onBoolean.event
<1>7. /\ returned' = [call |-> call, schmitt |-> x, boolean |-> y, lane |-> ~lane /\ in = "high"]
      /\ x \in Events /\ y \in Events
      /\ (x = "TRIGGERED") <=> (schmitt = "LOW" /\ in = "high")
      /\ (x = "UNTRIGGERED") <=> (call = "processEvent" /\ schmitt = "HIGH" /\ in = "low")
      /\ (y = "TRIGGERED") <=> (boolean = "LOW" /\ in = "high")
      /\ (y = "UNTRIGGERED") <=> (call = "processEvent" /\ boolean = "HIGH" /\ in # "high")
  BY DEF Feed, SchmittIs, BooleanIs
<1> HIDE DEF x, y
<1>8. EdgeTypeOK'
  <2>1. schmitt' \in States /\ boolean' \in States
    BY <1>0, <1>6 DEF SchmittNext, BooleanNext, States
  <2>2. lane' \in BOOLEAN
    BY <1>6, Zenon DEF LaneNext
  <2>3. (~lane /\ in = "high") \in BOOLEAN
    BY Zenon
  <2> QED BY <1>4, <1>7, <2>1, <2>2, <2>3 DEF EdgeTypeOK
<1>9. schmitt' = StateAfter(IF in = "between" THEN latest ELSE in)
  BY <1>2, <1>5, <1>6 DEF SchmittNext, StateAfter, Readings
<1>10. lane' = (schmitt' = "HIGH")
  BY <1>0, <1>5, <1>6 DEF SchmittNext, LaneNext, States, Readings
<1>11. Remembered'
  BY <1>3, <1>4, <1>6, <1>9, <1>10 DEF Remembered
<1>12. TriggersOncePerCrossing'
  <2>1. (x = "TRIGGERED") <=> (in = "high" /\ latest = "low")
    BY <1>2, <1>5, <1>7 DEF StateAfter, Readings
  <2>2. (x = "UNTRIGGERED") <=> (call = "processEvent" /\ in = "low" /\ latest = "high")
    BY <1>2, <1>5, <1>7 DEF StateAfter, Readings
  <2>3. (y = "TRIGGERED") <=> (n > 0 /\ in = "high" /\ readings[n] # "high")
    BY <1>1, <1>4, <1>5, <1>7 DEF BooleanNext, Readings
  <2>4. (y = "UNTRIGGERED") <=> (call = "processEvent" /\ n > 0 /\ in # "high" /\ readings[n] = "high")
    BY <1>1, <1>4, <1>5, <1>7 DEF BooleanNext, Readings
  <2>5. (schmitt' = "HIGH") <=> ((IF in = "between" THEN latest ELSE in) = "high")
    BY <1>2, <1>9 DEF StateAfter, Readings
  <2>6. (~lane /\ in = "high") <=> (in = "high" /\ (latest = "low" \/ latest = "between"))
    BY <1>2, <1>5 DEF StateAfter, Readings
  <2> DEFINE up == ~lane /\ in = "high"
  <2>7. /\ returned'.call = call /\ returned'.schmitt = x /\ returned'.boolean = y
        /\ returned'.lane = up
    BY <1>7
  <2>8. readings'[n + 1 - 1] = readings'[n] /\ n + 1 > 0 /\ (n + 1 > 1 <=> n > 0) /\ n + 1 + 1 = n + 2
    BY <1>1
  <2>9. Rises(n + 1)' <=> (in = "high" /\ latest = "low")
    BY <1>3, <1>4 DEF Rises
  <2>10. Falls(n + 1)' <=> (in = "low" /\ latest = "high")
    BY <1>3, <1>4 DEF Falls
  <2>11. /\ returned'.schmitt = "TRIGGERED" <=> Rises(n + 1)'
         /\ returned'.schmitt = "UNTRIGGERED" <=> returned'.call = "processEvent" /\ Falls(n + 1)'
    BY <2>1, <2>2, <2>7, <2>9, <2>10
  <2>12. returned'.boolean = "TRIGGERED" <=>
             n + 1 > 1 /\ readings'[n + 1] = "high" /\ readings'[n + 1 - 1] # "high"
    BY <1>4, <2>3, <2>7, <2>8
  <2>13. returned'.boolean = "UNTRIGGERED" <=>
             /\ returned'.call = "processEvent"
             /\ n + 1 > 1 /\ readings'[n + 1] # "high" /\ readings'[n + 1 - 1] = "high"
    BY <1>4, <2>4, <2>7, <2>8
  <2>14. schmitt' = "HIGH" <=> LastCrossing(n + 1 + 1)' = "high"
    BY <1>3, <2>5, <2>8
  <2>15. returned'.lane <=>
             Rises(n + 1)' \/ (readings'[n + 1] = "high" /\ LastCrossing(n + 1)' = "between")
    BY <1>3, <1>4, <2>6, <2>7, <2>9, Zenon
  <2>16. lane' <=> schmitt' = "HIGH"
    BY <1>10
  <2> QED
    BY <1>4, <2>11, <2>12, <2>13, <2>14, <2>15, <2>16 DEF TriggersOncePerCrossing
<1> QED BY <1>8, <1>11, <1>12 DEF EdgeInv

EdgeSpec == EdgeInit /\ [][EdgeNext]_edgeVars

\* However the input moves over and between the thresholds, and however process() and
\* processEvent() are mixed: a rise is reported for a crossing of the high one after
\* one of the low one and for no other, and a fall by processEvent() for the reverse
\* and for no other.
THEOREM EdgesTrigger == EdgeSpec => [](EdgeTypeOK /\ TriggersOncePerCrossing)
<1>1. EdgeInit => EdgeInv
  <2> SUFFICES ASSUME EdgeInit PROVE EdgeInv
    OBVIOUS
  <2>1. LastCrossing(Len(readings) + 1) = "between" /\ Len(readings) = 0
    BY DEF EdgeInit, LastCrossing
  <2>2. readings \in Seq(Readings) /\ lane \in BOOLEAN
    <3>1. <<>> \in Seq(Readings)
      OBVIOUS
    <3> QED BY <3>1, Zenon DEF EdgeInit
  <2>3. returned \in [call: Calls, schmitt: Events, boolean: Events, lane: BOOLEAN]
    BY DEF EdgeInit, NoneReturned, Calls, Events
  <2>4. EdgeTypeOK
    BY <2>2, <2>3 DEF EdgeInit, EdgeTypeOK, States
  <2>5. Remembered
    BY <2>1 DEF EdgeInit, Remembered, StateAfter
  <2> QED BY <2>1, <2>4, <2>5 DEF EdgeInv, TriggersOncePerCrossing
<1>2. EdgeInit' => EdgeInv'
  BY <1>1, PTL
<1>3. EdgeInv /\ [EdgeNext]_edgeVars => EdgeInv'
  <2> SUFFICES ASSUME EdgeInv, [EdgeNext]_edgeVars PROVE EdgeInv'
    OBVIOUS
  <2>1. CASE EdgeReset
    BY <2>1, <1>2 DEF EdgeReset, EdgeInit
  <2>2. ASSUME NEW in \in Readings, Process(in) \/ ProcessEvent(in) PROVE EdgeInv'
    <3>1. schmitt \in States /\ boolean \in States
      BY DEF EdgeInv, EdgeTypeOK
    <3>2. CASE Process(in)
      <4>1. "process" \in Calls
        BY DEF Calls
      <4> QED BY <3>1, <3>2, <4>1, ResultsAre, FeedKeeps, Zenon DEF Process
    <3>3. CASE ProcessEvent(in)
      <4>1. "processEvent" \in Calls
        BY DEF Calls
      <4> QED BY <3>1, <3>3, <4>1, ResultsAre, FeedKeeps, Zenon DEF ProcessEvent
    <3> QED BY <2>2, <3>2, <3>3
  <2>3. CASE UNCHANGED edgeVars
    BY <2>3 DEF edgeVars, EdgeInv, EdgeTypeOK, Remembered, TriggersOncePerCrossing, LastCrossing,
                Rises, Falls
  <2> QED BY <2>1, <2>2, <2>3 DEF EdgeNext
<1> QED BY <1>1, <1>3, PTL DEF EdgeSpec, EdgeInv

-----------------------------------------------------------------------------
(***************************************************************************)
(* Decimator and Upsampler.                                                *)
(***************************************************************************)

\* The slot i steps back from index x, in a ring of n.
Back(x, i, n) == (x - 1 - i + n) % n

LEMMA BackIs ==
    ASSUME NEW n \in Nat \ {0}, NEW x \in 0 .. n - 1, NEW i \in 0 .. n - 1
    PROVE  /\ Back(x, i, n) = IF i < x THEN x - 1 - i ELSE x - 1 - i + n
           /\ Back(x, i, n) \in 0 .. n - 1
<1>1. x - 1 - i + n \in 0 .. 2 * n - 1
  OBVIOUS
<1>2. PICK y \in 0 .. 2 * n - 1 : y = x - 1 - i + n
  BY <1>1
<1>3. y % n = IF y < n THEN y ELSE y - n
  BY Wraps
<1>4. Back(x, i, n) = y % n
  BY <1>2 DEF Back
<1> QED BY <1>2, <1>3, <1>4

\* A ring of n slots holds the last n samples of `inputs`, backward from x.
Holds(buffer, x, n, inputs) ==
    /\ x \in 0 .. n - 1
    /\ inputs \in Seq(Samples) /\ Len(inputs) = n
    /\ \A i \in 0 .. n - 1 : buffer[Back(x, i, n)] = inputs[i + 1]

LEMMA HoldsNothing ==
    ASSUME NEW n \in Nat \ {0}
    PROVE  Holds([k \in 0 .. n - 1 |-> 0], 0, n, [k \in 1 .. n |-> 0])
<1>1. [k \in 1 .. n |-> 0] \in Seq(Samples) /\ Len([k \in 1 .. n |-> 0]) = n
  BY LineAssumption
<1> QED BY <1>1, BackIs DEF Holds

\* The index after a block of m from x on, where the block does not wrap.
After(x, m, n) == IF x + m < n THEN x + m ELSE 0

\* The slot i steps back from there, in the block or before it.
LEMMA StepsBack ==
    ASSUME NEW n \in Nat \ {0}, NEW m \in 1 .. n, NEW x \in 0 .. n - 1, x + m <= n,
           NEW i \in 0 .. n - 1
    PROVE  LET k == Back(After(x, m, n), i, n) IN
           /\ k \in 0 .. n - 1
           /\ i < m => k \in x .. x + m - 1 /\ k - x + 1 = m + 1 - (i + 1)
           /\ ~(i < m) => k = Back(x, i - m, n) /\ k \notin x .. x + m - 1
<1>1. PICK y \in 0 .. n - 1 : y = After(x, m, n)
  BY DEF After
<1>2. Back(y, i, n) \in 0 .. n - 1 /\ Back(y, i, n) = IF i < y THEN y - 1 - i ELSE y - 1 - i + n
  BY BackIs
<1>3. PICK k \in 0 .. n - 1 : k = Back(y, i, n)
  BY <1>2
<1>4. k = IF i < y THEN y - 1 - i ELSE y - 1 - i + n
  BY <1>2, <1>3
<1>5. y = IF x + m < n THEN x + m ELSE 0
  BY <1>1 DEF After
<1>6. ASSUME i < m PROVE k \in x .. x + m - 1 /\ k - x + 1 = m + 1 - (i + 1)
  BY <1>4, <1>5, <1>6
<1>7. ASSUME ~(i < m) PROVE k = Back(x, i - m, n) /\ k \notin x .. x + m - 1
  <2>1. PICK j \in 0 .. n - 1 : j = i - m
    BY <1>7
  <2>2. Back(x, j, n) = IF j < x THEN x - 1 - j ELSE x - 1 - j + n
    BY BackIs
  <2>3. k = IF j < x THEN x - 1 - j ELSE x - 1 - j + n
    BY <1>4, <1>5, <2>1
  <2>4. k \notin x .. x + m - 1
    BY <2>1, <2>3
  <2> QED BY <2>1, <2>2, <2>3, <2>4
<1> QED BY <1>1, <1>3, <1>6, <1>7

\* `after` is the buffer with a block of m samples written from x on, and `since`
\* the samples given once they are.
Writes(after, buffer, x, m, n, samples) ==
    \A k \in 0 .. n - 1 :
        after[k] = IF k \in x .. x + m - 1 THEN samples[k - x + 1] ELSE buffer[k]

Gives(since, inputs, m, n, samples) ==
    /\ since \in Seq(Samples) /\ Len(since) = n
    /\ \A i \in 1 .. n : since[i] = IF i <= m THEN samples[m + 1 - i] ELSE inputs[i - m]

LEMMA HoldsMore ==
    ASSUME NEW n \in Nat \ {0}, NEW m \in 1 .. n, NEW x, NEW buffer, NEW inputs,
           Holds(buffer, x, n, inputs), x + m <= n,
           NEW samples, NEW after, Writes(after, buffer, x, m, n, samples),
           NEW since, Gives(since, inputs, m, n, samples)
    PROVE  Holds(after, After(x, m, n), n, since)
<1>0. x \in 0 .. n - 1 /\ After(x, m, n) \in 0 .. n - 1
  BY DEF Holds, After
<1>1. ASSUME NEW i \in 0 .. n - 1
      PROVE  after[Back(After(x, m, n), i, n)] = since[i + 1]
  <2>1. PICK k \in 0 .. n - 1 :
          /\ k = Back(After(x, m, n), i, n)
          /\ i < m => k \in x .. x + m - 1 /\ k - x + 1 = m + 1 - (i + 1)
          /\ ~(i < m) => k = Back(x, i - m, n) /\ k \notin x .. x + m - 1
    BY <1>0, StepsBack
  <2>2. since[i + 1] = IF i < m THEN samples[m + 1 - (i + 1)] ELSE inputs[i + 1 - m]
    BY DEF Gives
  <2>3. CASE i < m
    BY <2>1, <2>2, <2>3 DEF Writes
  <2>4. CASE ~(i < m)
    <3>1. PICK j \in 0 .. n - 1 : j = i - m /\ j + 1 = i + 1 - m
      BY <2>4
    <3>2. after[k] = buffer[Back(x, j, n)]
      BY <2>1, <2>4, <3>1 DEF Writes
    <3>3. buffer[Back(x, j, n)] = inputs[j + 1]
      BY DEF Holds
    <3> QED BY <2>1, <2>2, <2>4, <3>1, <3>2, <3>3
  <2> QED BY <2>3, <2>4
<1>2. since \in Seq(Samples) /\ Len(since) = n
  BY DEF Gives
<1> QED BY <1>0, <1>1, <1>2 DEF Holds

\* The last samples given, after some more.
Pushes(since, front, s, m, n) ==
    /\ since \in Seq(Samples) /\ Len(since) = n
    /\ \A i \in 1 .. n : since[i] = IF i <= m THEN front[i] ELSE s[i - m]

LEMMA Pushed ==
    ASSUME NEW front \in Seq(Samples), NEW s \in Seq(Samples), Len(front) <= Len(s)
    PROVE  Pushes(SubSeq(front \o s, 1, Len(s)), front, s, Len(front), Len(s))
<1>0. PICK m \in Nat, n \in Nat : m = Len(front) /\ n = Len(s)
  OBVIOUS
<1>1. PICK all : all = front \o s
  OBVIOUS
<1>2. /\ all \in Seq(Samples) /\ Len(all) = m + n
      /\ \A i \in 1 .. m + n : all[i] = IF i <= m THEN front[i] ELSE s[i - m]
  BY <1>0, <1>1, ConcatProperties
<1>3. PICK part : part = SubSeq(all, 1, n)
  OBVIOUS
<1>4. part = [i \in 1 .. n |-> all[i]]
  BY <1>2, <1>3
<1>5. \A i \in 1 .. n : part[i] \in Samples /\ part[i] = all[i]
  BY <1>2, <1>4
<1>6. part \in Seq(Samples) /\ Len(part) = n
  BY <1>2, <1>4, <1>5
<1>7. \A i \in 1 .. n : i \in 1 .. m + n
  OBVIOUS
<1>8. Pushes(part, front, s, m, n)
  BY <1>2, <1>5, <1>6, <1>7 DEF Pushes
<1> QED BY <1>0, <1>1, <1>3, <1>8

\* Whole blocks fill the Decimator's ring.
DecimatorInv ==
    /\ Holds(decBuffer, decIndex, Taps, decInputs)
    /\ \E q \in 0 .. Quality - 1 : decIndex = Oversample * q

UpsamplerInv ==
    /\ Holds(upBuffer, upIndex, Quality, upInputs)
    /\ upBuffer \in [0 .. Quality - 1 -> Samples]

LEMMA TapsType ==
    /\ Taps \in Nat \ {0} /\ Oversample \in 1 .. Taps
    /\ Oversample \in Nat \ {0} /\ Quality \in Nat \ {0}
<1>1. Oversample \in Nat \ {0} /\ Quality \in Nat \ {0}
  BY LineAssumption
<1>2. Oversample * Quality >= Oversample /\ Oversample * Quality \in Nat
  <2>1. Oversample * (Quality - 1) >= 0 /\ Oversample * (Quality - 1) = Oversample * Quality - Oversample
    BY <1>1
  <2> QED BY <1>1, <2>1
<1> QED BY <1>1, <1>2 DEF Taps

LEMMA DecimatorKeeps == DecimatorInv /\ [DecimatorNext]_decimatorVars => DecimatorInv'
<1> SUFFICES ASSUME DecimatorInv, [DecimatorNext]_decimatorVars PROVE DecimatorInv'
  OBVIOUS
<1>0. /\ Taps \in Nat \ {0} /\ Oversample \in 1 .. Taps
      /\ Oversample \in Nat \ {0} /\ Quality \in Nat \ {0}
  BY TapsType
<1>1. CASE DecimatorReset
  <2>1. Holds(decBuffer, decIndex, Taps, decInputs)'
    <3>1. Holds([k \in 0 .. Taps - 1 |-> 0], 0, Taps, [k \in 1 .. Taps |-> 0])
      BY <1>0, HoldsNothing
    <3> QED BY <1>1, <3>1 DEF DecimatorReset, Holds
  <2>2. 0 \in 0 .. Quality - 1 /\ decIndex' = Oversample * 0
    BY <1>0, <1>1 DEF DecimatorReset
  <2> QED BY <2>1, <2>2 DEF DecimatorInv
<1>2. ASSUME NEW in \in [1 .. Oversample -> Samples], Decimate(in)
      PROVE  DecimatorInv'
  <2>1. PICK q \in 0 .. Quality - 1 : decIndex = Oversample * q
    BY DEF DecimatorInv
  <2>2. /\ decIndex \in 0 .. Taps - 1 /\ decInputs \in Seq(Samples) /\ Len(decInputs) = Taps
    BY DEF DecimatorInv, Holds
  <2>3. in \in Seq(Samples) /\ Len(in) = Oversample
    BY <1>0
  <2>4. Oversample * (q + 1) = decIndex + Oversample
    BY <1>0, <2>1
  <2>5. /\ decIndex + Oversample <= Taps
        /\ decIndex + Oversample < Taps => q + 1 \in 0 .. Quality - 1
    <3>1. CASE q + 1 = Quality
      BY <1>0, <2>4, <3>1 DEF Taps
    <3>2. CASE q + 1 # Quality
      <4>1. q + 1 \in 0 .. Quality - 1 /\ Quality - (q + 1) >= 0 /\ q + 1 \in Nat
        BY <1>0, <3>2
      <4>2. Oversample * (Quality - (q + 1)) >= 0
        BY <1>0, <4>1
      <4>3. Oversample * (Quality - (q + 1)) = Taps - (decIndex + Oversample)
        BY <1>0, <2>4 DEF Taps
      <4> QED BY <1>0, <2>2, <4>1, <4>2, <4>3
    <3> QED BY <3>1, <3>2
  <2>6. decIndex' = After(decIndex, Oversample, Taps)
    <3>1. PICK y \in 0 .. 2 * Taps - 1 : y = decIndex + Oversample
      BY <1>0, <2>2
    <3>2. y % Taps = IF y < Taps THEN y ELSE y - Taps
      BY <1>0, <3>1, Wraps
    <3>3. decIndex' = y % Taps
      BY <1>2, <3>1 DEF Decimate
    <3> QED BY <1>0, <2>2, <2>5, <3>1, <3>2, <3>3 DEF After
  <2>7. PICK back \in Seq(Samples) :
          /\ back = Reverse(in) /\ Len(back) = Oversample
          /\ \A i \in 1 .. Oversample : back[i] = in[Oversample + 1 - i]
    <3> DEFINE back == Reverse(in)
    <3>1. back = [i \in 1 .. Oversample |-> in[(Oversample - i) + 1]]
      BY <2>3 DEF Reverse
    <3>2. \A i \in 1 .. Oversample : back[i] = in[Oversample + 1 - i] /\ back[i] \in Samples
      BY <1>0, <3>1
    <3>3. back \in Seq(Samples) /\ Len(back) = Oversample
      BY <1>0, <3>1, <3>2
    <3> QED BY <3>2, <3>3
  <2>8. Gives(decInputs', decInputs, Oversample, Taps, in)
    <3>1. decInputs' = SubSeq(back \o decInputs, 1, Taps)
      BY <1>2, <2>7 DEF Decimate
    <3>2. PICK s \in Seq(Samples) : s = decInputs /\ Len(s) = Taps
      BY <2>2
    <3>3. Pushes(decInputs', back, decInputs, Oversample, Taps)
      BY <1>0, <2>7, <3>1, <3>2, Pushed
    <3>4. \A i \in 1 .. Taps : i <= Oversample => i \in 1 .. Oversample
      BY <1>0
    <3> QED BY <2>7, <3>3, <3>4 DEF Gives, Pushes
  <2>9. Writes(decBuffer', decBuffer, decIndex, Oversample, Taps, in)
    BY <1>2 DEF Decimate, Writes
  <2>10. Holds(decBuffer', decIndex', Taps, decInputs')
    <3>1. Holds(decBuffer, decIndex, Taps, decInputs)
      BY DEF DecimatorInv
    <3>2. Holds(decBuffer', After(decIndex, Oversample, Taps), Taps, decInputs')
      BY <1>0, <2>5, <2>8, <2>9, <3>1, HoldsMore
    <3> QED BY <2>6, <3>2
  <2>11. \E p \in 0 .. Quality - 1 : decIndex' = Oversample * p
    <3>1. CASE decIndex + Oversample < Taps
      BY <2>4, <2>5, <2>6, <3>1 DEF After
    <3>2. CASE ~(decIndex + Oversample < Taps)
      <4>1. 0 \in 0 .. Quality - 1 /\ decIndex' = Oversample * 0
        BY <1>0, <2>6, <3>2 DEF After
      <4> QED BY <4>1
    <3> QED BY <3>1, <3>2
  <2> QED BY <2>10, <2>11 DEF DecimatorInv, Holds, Taps
<1>3. CASE UNCHANGED decimatorVars
  BY <1>3 DEF decimatorVars, DecimatorInv, Holds
<1> QED BY <1>1, <1>2, <1>3 DEF DecimatorNext

LEMMA UpsamplerKeeps == UpsamplerInv /\ [UpsamplerNext]_upsamplerVars => UpsamplerInv'
<1> SUFFICES ASSUME UpsamplerInv, [UpsamplerNext]_upsamplerVars PROVE UpsamplerInv'
  OBVIOUS
<1>0. Quality \in Nat \ {0} /\ 1 \in 1 .. Quality /\ 0 \in Samples
  BY LineAssumption
<1>1. CASE UpsamplerReset
  <2>1. Holds([k \in 0 .. Quality - 1 |-> 0], 0, Quality, [k \in 1 .. Quality |-> 0])
    BY <1>0, HoldsNothing
  <2> QED BY <1>0, <1>1, <2>1 DEF UpsamplerReset, UpsamplerInv, Holds
<1>2. ASSUME NEW in \in Samples, Upsample(in) PROVE UpsamplerInv'
  <2>1. /\ upIndex \in 0 .. Quality - 1 /\ upInputs \in Seq(Samples) /\ Len(upInputs) = Quality
        /\ upBuffer \in [0 .. Quality - 1 -> Samples]
    BY DEF UpsamplerInv, Holds
  <2>2. upIndex' = After(upIndex, 1, Quality)
    <3>1. PICK y \in 0 .. 2 * Quality - 1 : y = upIndex + 1
      BY <1>0, <2>1
    <3>2. y % Quality = IF y < Quality THEN y ELSE y - Quality
      BY <1>0, Wraps
    <3>3. upIndex' = y % Quality
      BY <1>2, <3>1 DEF Upsample
    <3> QED BY <1>0, <2>1, <3>1, <3>2, <3>3 DEF After
  <2>3. Gives(upInputs', upInputs, 1, Quality, <<in>>)
    <3>1. PICK front : front = <<in>>
      OBVIOUS
    <3>2. front \in Seq(Samples) /\ Len(front) = 1 /\ front[1] = in
      BY <3>1
    <3>3. PICK s \in Seq(Samples) : s = upInputs /\ Len(s) = Quality
      BY <2>1
    <3>4. Len(front) <= Len(s)
      BY <1>0, <3>2, <3>3
    <3>5. upInputs' = SubSeq(front \o s, 1, Quality)
      BY <1>2, <3>1, <3>3 DEF Upsample
    <3>6. Pushes(upInputs', front, upInputs, 1, Quality)
      BY <3>2, <3>3, <3>4, <3>5, Pushed
    <3>7. \A i \in 1 .. Quality : i <= 1 => i = 1 /\ 1 + 1 - i = 1
      OBVIOUS
    <3> QED BY <1>0, <3>1, <3>6, <3>7 DEF Gives, Pushes
  <2>4. /\ upBuffer' \in [0 .. Quality - 1 -> Samples]
        /\ Writes(upBuffer', upBuffer, upIndex, 1, Quality, <<in>>)
    BY <1>2, <2>1 DEF Upsample, Writes
  <2>5. Holds(upBuffer', upIndex', Quality, upInputs')
    <3>1. Holds(upBuffer, upIndex, Quality, upInputs)
      BY DEF UpsamplerInv
    <3>2. upIndex + 1 <= Quality
      BY <1>0, <2>1
    <3>3. Holds(upBuffer', After(upIndex, 1, Quality), Quality, upInputs')
      BY <1>0, <2>3, <2>4, <3>1, <3>2, HoldsMore
    <3> QED BY <2>2, <3>3
  <2> QED BY <2>4, <2>5 DEF UpsamplerInv, Holds
<1>3. CASE UNCHANGED upsamplerVars
  BY <1>3 DEF upsamplerVars, UpsamplerInv, Holds
<1> QED BY <1>1, <1>2, <1>3 DEF UpsamplerNext

LEMMA ConvolveDecimated == DecimatorInv => \A i \in 0 .. Taps - 1 : DecimatorTap(i) = decInputs[i + 1]
BY DEF DecimatorInv, Holds, Back, DecimatorTap

\* The coefficients of one phase, and what the loop multiplies them with.
LEMMA ConvolveStuffed ==
    ASSUME UpsamplerInv, NEW i \in 0 .. Oversample - 1, NEW k \in 0 .. Taps - 1
    PROVE  Stuffed(i, k) = IF k \in DOMAIN UpsamplerTaps(i) THEN UpsamplerTaps(i)[k] ELSE 0
<1>0. Oversample \in Nat \ {0} /\ Quality \in Nat \ {0} /\ Taps \in Nat /\ Taps = Oversample * Quality
  BY TapsType DEF Taps
<1>1. CASE k \in DOMAIN UpsamplerTaps(i)
  <2>1. PICK j \in 0 .. Quality - 1 : k = Oversample * j + i
    BY <1>1 DEF UpsamplerTaps
  <2>2. k \div Oversample = j
    BY <1>0, <2>1, QuotientIs
  <2>3. (k - i) % Oversample = 0 /\ (k - i) \div Oversample = j /\ k >= i
    <3>1. Oversample * j \in Nat
      BY <1>0
    <3>2. k - i = Oversample * j + 0 /\ k - i \in Nat /\ k >= i /\ 0 \in 0 .. Oversample - 1
      BY <1>0, <2>1, <3>1
    <3> QED BY <1>0, <3>2, RemainderIs, QuotientIs
  <2>4. UpsamplerTaps(i)[k] = upBuffer[Back(upIndex, j, Quality)]
    BY <1>1, <2>2 DEF UpsamplerTaps, Back
  <2>5. @ = upInputs[j + 1]
    BY DEF UpsamplerInv, Holds
  <2> QED BY <1>1, <2>3, <2>4, <2>5 DEF Stuffed
<1>2. CASE k \notin DOMAIN UpsamplerTaps(i)
  <2>1. ASSUME k >= i, (k - i) % Oversample = 0 PROVE FALSE
    <3> DEFINE j == (k - i) \div Oversample
    <3>1. j \in Nat /\ k - i = Oversample * j
      <4>1. k - i \in Nat
        BY <2>1
      <4>2. j \in Nat /\ k - i = Oversample * j + ((k - i) % Oversample)
        BY <1>0, <4>1, DivisionFacts
      <4> HIDE DEF j
      <4> QED BY <1>0, <2>1, <4>2
    <3> HIDE DEF j
    <3>2. j < Quality
      <4> SUFFICES ASSUME j >= Quality PROVE FALSE
        BY <1>0, <3>1
      <4>1. Oversample * (j - Quality) >= 0
        BY <1>0, <3>1
      <4>2. Oversample * (j - Quality) = Oversample * j - Oversample * Quality
        BY <1>0, <3>1
      <4> QED BY <1>0, <3>1, <4>1, <4>2
    <3>3. j \in 0 .. Quality - 1 /\ k = Oversample * j + i
      BY <1>0, <3>1, <3>2
    <3> QED BY <1>2, <3>3 DEF UpsamplerTaps
  <2> QED BY <1>2, <2>1 DEF Stuffed
<1> QED BY <1>1, <1>2

DecimatorSpec == DecimatorInit /\ [][DecimatorNext]_decimatorVars
UpsamplerSpec == UpsamplerInit /\ [][UpsamplerNext]_upsamplerVars

\* For every factor and quality, at every frame, the Decimator multiplies each
\* coefficient with its sample and the Upsampler with its of the stuffed signal.
THEOREM FiltersAreConvolutions == DecimatorSpec /\ UpsamplerSpec => []FiltersConvolve
<1>1. DecimatorInit => DecimatorInv
  <2> SUFFICES ASSUME DecimatorInit PROVE DecimatorInv
    OBVIOUS
  <2>1. Holds(decBuffer, decIndex, Taps, decInputs)
    BY TapsType, HoldsNothing DEF DecimatorInit
  <2>2. 0 \in 0 .. Quality - 1 /\ decIndex = Oversample * 0
    BY TapsType DEF DecimatorInit
  <2> QED BY <2>1, <2>2 DEF DecimatorInv
<1>2. UpsamplerInit => UpsamplerInv
  <2> SUFFICES ASSUME UpsamplerInit PROVE UpsamplerInv
    OBVIOUS
  <2>1. Holds(upBuffer, upIndex, Quality, upInputs)
    BY TapsType, HoldsNothing DEF UpsamplerInit
  <2> QED BY <2>1, LineAssumption DEF UpsamplerInit, UpsamplerInv
<1>3. DecimatorInv /\ UpsamplerInv => FiltersConvolve
  BY ConvolveDecimated, ConvolveStuffed DEF FiltersConvolve
<1> QED BY <1>1, <1>2, <1>3, DecimatorKeeps, UpsamplerKeeps, PTL DEF DecimatorSpec, UpsamplerSpec

-----------------------------------------------------------------------------
(***************************************************************************)
(* MinBlepGenerator.                                                       *)
(***************************************************************************)

\* The slot that plays in a frames, and in how many frames slot k plays.
Ahead(x, a, n) == (x + a) % n
Away(k, x, n)  == (k - x + n) % n

LEMMA AheadIs ==
    ASSUME NEW n \in Nat \ {0}, NEW x \in 0 .. n - 1, NEW a \in 0 .. n - 1
    PROVE  /\ Ahead(x, a, n) \in 0 .. n - 1
           /\ Ahead(x, a, n) = IF x + a < n THEN x + a ELSE x + a - n
           /\ Away(Ahead(x, a, n), x, n) = a
<1>1. PICK y \in 0 .. 2 * n - 1 : y = x + a
  OBVIOUS
<1>2. y % n = IF y < n THEN y ELSE y - n
  BY Wraps
<1>3. PICK k \in 0 .. n - 1 : k = Ahead(x, a, n) /\ k = IF x + a < n THEN x + a ELSE x + a - n
  BY <1>1, <1>2 DEF Ahead
<1>4. PICK z \in 0 .. 2 * n - 1 : z = k - x + n
  OBVIOUS
<1>5. z % n = IF z < n THEN z ELSE z - n
  BY Wraps
<1>6. z % n = a
  BY <1>3, <1>4, <1>5
<1>7. Away(k, x, n) = a
  BY <1>4, <1>6 DEF Away
<1> QED BY <1>3, <1>7

\* A frame later the slot that has played is the last to play.
LEMMA AheadNext ==
    ASSUME NEW n \in Nat \ {0}, NEW x \in 0 .. n - 1, NEW a \in 0 .. n - 1
    PROVE  /\ After(x, 1, n) \in 0 .. n - 1
           /\ Ahead(After(x, 1, n), a, n) \in 0 .. n - 1
           /\ a = n - 1 => Ahead(After(x, 1, n), a, n) = x
           /\ a # n - 1 => /\ a + 1 \in 0 .. n - 1
                           /\ Ahead(After(x, 1, n), a, n) = Ahead(x, a + 1, n)
                           /\ Ahead(x, a + 1, n) # x
<1>1. PICK y \in 0 .. n - 1 : y = After(x, 1, n) /\ y = IF x + 1 < n THEN x + 1 ELSE 0
  BY DEF After
<1>2. Ahead(y, a, n) \in 0 .. n - 1 /\ Ahead(y, a, n) = IF y + a < n THEN y + a ELSE y + a - n
  BY AheadIs
<1>3. a = n - 1 => Ahead(y, a, n) = x
  BY <1>1, <1>2
<1>4. ASSUME a # n - 1
      PROVE  a + 1 \in 0 .. n - 1 /\ Ahead(y, a, n) = Ahead(x, a + 1, n) /\ Ahead(x, a + 1, n) # x
  <2>1. PICK b \in 0 .. n - 1 : b = a + 1
    BY <1>4
  <2>2. Ahead(x, b, n) = IF x + b < n THEN x + b ELSE x + b - n
    BY AheadIs
  <2> QED BY <1>1, <1>2, <2>1, <2>2
<1> QED BY <1>1, <1>2, <1>3, <1>4

LEMMA AwayIs ==
    ASSUME NEW n \in Nat \ {0}, NEW x \in 0 .. n - 1, NEW k \in 0 .. n - 1
    PROVE  Away(k, x, n) \in 0 .. n - 1
<1>1. PICK y \in Nat : y = k - x + n
  OBVIOUS
<1>2. y % n \in 0 .. n - 1
  BY DivisionFacts
<1> QED BY <1>1, <1>2 DEF Away

\* One more of something counted.
LEMMA OneMore ==
    ASSUME NEW D, NEW f \in [D -> Nat], NEW d \in D
    PROVE  [f EXCEPT ![d] = f[d] + 1] \in [D -> Nat]
<1>1. f[d] + 1 \in Nat
  OBVIOUS
<1> QED BY <1>1

\* A slot that plays in a frames has, of each coefficient j, one for each jump of
\* j - a frames ago.
BlepInv ==
    /\ pos \in 0 .. Frames - 1
    /\ jumps \in [0 .. Frames - 1 -> Nat]
    /\ buf \in [0 .. Frames - 1 -> [0 .. Frames - 1 -> Nat]]
    /\ \A a, j \in 0 .. Frames - 1 :
        buf[Ahead(pos, a, Frames)][j] = IF a <= j THEN jumps[j - a] ELSE 0

LEMMA FramesType == Frames \in Nat \ {0}
BY LineAssumption DEF Frames

LEMMA BlepKeeps == BlepInv /\ [BlepNext]_blepVars => BlepInv'
<1> SUFFICES ASSUME BlepInv, [BlepNext]_blepVars PROVE BlepInv'
  OBVIOUS
<1>0. Frames \in Nat \ {0} /\ 0 \in 0 .. Frames - 1 /\ Frames' = Frames
  BY FramesType DEF Frames
<1>1. /\ pos \in 0 .. Frames - 1
      /\ jumps \in [0 .. Frames - 1 -> Nat]
      /\ buf \in [0 .. Frames - 1 -> [0 .. Frames - 1 -> Nat]]
      /\ \A a, j \in 0 .. Frames - 1 :
           buf[Ahead(pos, a, Frames)][j] = IF a <= j THEN jumps[j - a] ELSE 0
  BY DEF BlepInv
<1>2. CASE InsertDiscontinuity
  <2>1. /\ pos' = pos
        /\ jumps' = [jumps EXCEPT ![0] = @ + 1]
        /\ buf' = [k \in 0 .. Frames - 1 |-> [buf[k] EXCEPT ![Away(k, pos, Frames)] = @ + 1]]
    BY <1>2 DEF InsertDiscontinuity, Away
  <2>2. jumps' \in [0 .. Frames - 1 -> Nat]
    BY <1>0, <1>1, <2>1, OneMore
  <2>3. ASSUME NEW k \in 0 .. Frames - 1
        PROVE  /\ buf'[k] = [buf[k] EXCEPT ![Away(k, pos, Frames)] = @ + 1]
               /\ buf'[k] \in [0 .. Frames - 1 -> Nat]
    <3>1. buf'[k] = [buf[k] EXCEPT ![Away(k, pos, Frames)] = @ + 1]
      BY <2>1
    <3>2. PICK f \in [0 .. Frames - 1 -> Nat] : f = buf[k]
      BY <1>1
    <3>3. PICK d \in 0 .. Frames - 1 : d = Away(k, pos, Frames)
      BY <1>0, <1>1, AwayIs
    <3>4. [f EXCEPT ![d] = f[d] + 1] \in [0 .. Frames - 1 -> Nat]
      BY OneMore
    <3> QED BY <3>1, <3>2, <3>3, <3>4
  <2>4. buf' \in [0 .. Frames - 1 -> [0 .. Frames - 1 -> Nat]]
    BY <2>1, <2>3
  <2>5. ASSUME NEW a \in 0 .. Frames - 1, NEW j \in 0 .. Frames - 1
        PROVE  buf'[Ahead(pos, a, Frames)][j] = IF a <= j THEN jumps'[j - a] ELSE 0
    <3>1. PICK k \in 0 .. Frames - 1 : k = Ahead(pos, a, Frames) /\ Away(k, pos, Frames) = a
      BY <1>0, <1>1, AheadIs
    <3>2. PICK f \in [0 .. Frames - 1 -> Nat] : f = buf[k]
      BY <1>1
    <3>3. buf'[k] = [f EXCEPT ![a] = @ + 1]
      BY <2>3, <3>1, <3>2
    <3>4. f[j] = IF a <= j THEN jumps[j - a] ELSE 0
      BY <1>1, <3>1, <3>2
    <3>5. CASE j = a
      <4>1. j - a = 0 /\ jumps'[0] = jumps[0] + 1
        BY <1>0, <1>1, <2>1, <3>5
      <4> QED BY <3>1, <3>3, <3>4, <3>5, <4>1
    <3>6. CASE j # a
      <4>1. buf'[k][j] = f[j]
        BY <3>3, <3>6
      <4>2. a <= j => j - a \in 0 .. Frames - 1 /\ j - a # 0
        BY <1>0, <3>6
      <4>3. a <= j => jumps'[j - a] = jumps[j - a]
        BY <1>1, <2>1, <4>2
      <4> QED BY <3>1, <3>4, <4>1, <4>3
    <3> QED BY <3>5, <3>6
  <2> QED BY <1>0, <1>1, <2>1, <2>2, <2>4, <2>5 DEF BlepInv
<1>3. CASE ProcessBlep
  <2>1. /\ jumps' = [a \in 0 .. Frames - 1 |-> IF a = 0 THEN 0 ELSE jumps[a - 1]]
        /\ buf' = [buf EXCEPT ![pos] = Nothing]
    BY <1>3 DEF ProcessBlep
  <2>2. pos' \in 0 .. Frames - 1 /\ pos' = After(pos, 1, Frames)
    <3>1. PICK y \in 0 .. 2 * Frames - 1 : y = pos + 1
      BY <1>0, <1>1
    <3>2. y % Frames = IF y < Frames THEN y ELSE y - Frames
      BY <1>0, Wraps
    <3>3. pos' = y % Frames
      BY <1>3, <3>1 DEF ProcessBlep
    <3> QED BY <1>0, <1>1, <3>1, <3>2, <3>3 DEF After
  <2>3. jumps' \in [0 .. Frames - 1 -> Nat]
    <3>1. \A a \in 0 .. Frames - 1 : a # 0 => a - 1 \in 0 .. Frames - 1
      BY <1>0
    <3>2. \A a \in 0 .. Frames - 1 : (IF a = 0 THEN 0 ELSE jumps[a - 1]) \in Nat
      BY <1>1, <3>1
    <3> QED BY <2>1, <3>2
  <2>4. Nothing \in [0 .. Frames - 1 -> Nat] /\ \A j \in 0 .. Frames - 1 : Nothing[j] = 0
    BY DEF Nothing
  <2>5. buf' \in [0 .. Frames - 1 -> [0 .. Frames - 1 -> Nat]]
    BY <1>1, <2>1, <2>4
  <2>6. ASSUME NEW a \in 0 .. Frames - 1, NEW j \in 0 .. Frames - 1
        PROVE  buf'[Ahead(pos', a, Frames)][j] = IF a <= j THEN jumps'[j - a] ELSE 0
    <3>1. PICK k \in 0 .. Frames - 1 :
            /\ k = Ahead(pos', a, Frames)
            /\ a = Frames - 1 => k = pos
            /\ a # Frames - 1 => /\ a + 1 \in 0 .. Frames - 1
                                 /\ k = Ahead(pos, a + 1, Frames) /\ k # pos
      <4>1. Frames \in Nat \ {0} /\ pos \in 0 .. Frames - 1
        BY <1>0, <1>1
      <4>2. /\ Ahead(After(pos, 1, Frames), a, Frames) \in 0 .. Frames - 1
            /\ a = Frames - 1 => Ahead(After(pos, 1, Frames), a, Frames) = pos
            /\ a # Frames - 1 =>
                 /\ a + 1 \in 0 .. Frames - 1
                 /\ Ahead(After(pos, 1, Frames), a, Frames) = Ahead(pos, a + 1, Frames)
                 /\ Ahead(pos, a + 1, Frames) # pos
        BY <4>1, AheadNext
      <4>3. After(pos, 1, Frames) = pos'
        BY <2>2
      <4> QED BY <4>2, <4>3
    <3>2. CASE a = Frames - 1
      <4>1. k = pos
        BY <3>1, <3>2
      <4>2. buf'[k][j] = 0
        BY <1>1, <2>1, <2>4, <4>1
      <4>3. a <= j => j - a = 0 /\ jumps'[0] = 0
        BY <1>0, <2>1, <3>2
      <4> QED BY <3>1, <4>2, <4>3
    <3>3. CASE a # Frames - 1
      <4>1. PICK b \in 0 .. Frames - 1 : b = a + 1
        BY <3>1, <3>3
      <4>3. k = Ahead(pos, b, Frames) /\ k # pos
        BY <3>1, <3>3, <4>1
      <4>4. buf'[k] = buf[k]
        BY <1>1, <2>1, <4>3
      <4>5. buf'[k][j] = IF b <= j THEN jumps[j - b] ELSE 0
        BY <1>1, <4>3, <4>4
      <4>6. CASE b <= j
        <5>1. PICK d \in 0 .. Frames - 1 : d = j - a
          BY <1>0, <4>1, <4>6
        <5>2. d # 0 /\ d - 1 = j - b /\ a <= j
          BY <4>1, <4>6, <5>1
        <5>3. jumps'[d] = jumps[d - 1]
          BY <2>1, <5>2
        <5> QED BY <3>1, <4>5, <4>6, <5>1, <5>2, <5>3
      <4>7. CASE ~(b <= j)
        <5>1. a <= j => j - a = 0 /\ jumps'[0] = 0
          BY <1>0, <2>1, <4>1, <4>7
        <5> QED BY <3>1, <4>5, <4>7, <5>1
      <4> QED BY <4>6, <4>7
    <3> QED BY <3>2, <3>3
  <2> QED BY <1>0, <2>2, <2>3, <2>5, <2>6 DEF BlepInv
<1>4. CASE UNCHANGED blepVars
  BY <1>0, <1>1, <1>4 DEF blepVars, BlepInv
<1> QED BY <1>2, <1>3, <1>4 DEF BlepNext

BlepSpec == BlepInit /\ [][BlepNext]_blepVars

\* However the jumps overlap, and over the wraps of the ring too, a frame plays each
\* coefficient once for each jump whose it is.
THEOREM JumpsAdd == BlepSpec => OverlapAdd
<1>1. BlepInit => BlepInv
  <2> SUFFICES ASSUME BlepInit PROVE BlepInv
    OBVIOUS
  <2>0. Frames \in Nat \ {0} /\ 0 \in 0 .. Frames - 1
    BY FramesType
  <2>1. /\ Nothing \in [0 .. Frames - 1 -> Nat] /\ \A j \in 0 .. Frames - 1 : Nothing[j] = 0
        /\ \A k \in 0 .. Frames - 1 : buf[k] = Nothing
        /\ pos = 0 /\ jumps = Nothing
        /\ buf \in [0 .. Frames - 1 -> [0 .. Frames - 1 -> Nat]]
    BY DEF Nothing, BlepInit
  <2>2. ASSUME NEW a \in 0 .. Frames - 1, NEW j \in 0 .. Frames - 1
        PROVE  buf[Ahead(pos, a, Frames)][j] = IF a <= j THEN jumps[j - a] ELSE 0
    <3>1. PICK k \in 0 .. Frames - 1 : k = Ahead(pos, a, Frames)
      BY <2>0, <2>1, AheadIs
    <3>2. a <= j => j - a \in 0 .. Frames - 1
      BY <2>0
    <3> QED BY <2>1, <3>1, <3>2
  <2> QED BY <2>0, <2>1, <2>2 DEF BlepInv
<1>2. ASSUME BlepInv, [BlepNext]_blepVars, pos' # pos PROVE played' = jumps
  <2>7. Frames \in Nat \ {0} /\ 0 \in 0 .. Frames - 1
    BY FramesType
  <2>0. /\ Frames \in Nat \ {0} /\ 0 \in 0 .. Frames - 1
        /\ pos \in 0 .. Frames - 1 /\ jumps \in [0 .. Frames - 1 -> Nat]
        /\ buf \in [0 .. Frames - 1 -> [0 .. Frames - 1 -> Nat]]
    BY <1>2, <2>7 DEF BlepInv
  <2>6. \A a, j \in 0 .. Frames - 1 :
           buf[Ahead(pos, a, Frames)][j] = IF a <= j THEN jumps[j - a] ELSE 0
    BY <1>2 DEF BlepInv
  <2>1. played' = buf[pos]
    BY <1>2 DEF BlepNext, InsertDiscontinuity, ProcessBlep, blepVars
  <2>2. Ahead(pos, 0, Frames) = pos
    BY <2>0, AheadIs
  <2>3. \A j \in 0 .. Frames - 1 : buf[pos][j] = jumps[j]
    <3> TAKE j \in 0 .. Frames - 1
    <3>1. buf[Ahead(pos, 0, Frames)][j] = IF 0 <= j THEN jumps[j - 0] ELSE 0
      BY <2>0, <2>6
    <3>2. 0 <= j /\ j - 0 = j
      OBVIOUS
    <3> QED BY <2>2, <3>1, <3>2
  <2>4. PICK f \in [0 .. Frames - 1 -> Nat] : f = buf[pos]
    BY <2>0
  <2>5. f = jumps
    BY <2>0, <2>3, <2>4
  <2> QED BY <2>1, <2>4, <2>5
<1> QED BY <1>1, <1>2, BlepKeeps, PTL DEF BlepSpec, OverlapAdd

-----------------------------------------------------------------------------
(***************************************************************************)
(* System exclusive streams.                                               *)
(***************************************************************************)

\* The instrument reads a packet byte by byte.
LEMMA ReadsOn ==
    ASSUME NEW s, NEW bytes, NEW n \in 1 .. 3, Len(bytes) = n
    PROVE  /\ n = 1 => Read(s, bytes) = ReadByte(s, bytes[1])
           /\ n = 2 => Read(s, bytes) = ReadByte(ReadByte(s, bytes[1]), bytes[2])
           /\ n = 3 => Read(s, bytes) =
                         ReadByte(ReadByte(ReadByte(s, bytes[1]), bytes[2]), bytes[3])
<1> DEFINE a == bytes[1]
           b == bytes[2]
           c == bytes[3]
           f == [k \in 0 .. n |-> CASE k = 0 -> s
                                   [] k = 1 -> ReadByte(s, a)
                                   [] k = 2 -> ReadByte(ReadByte(s, a), b)
                                   [] k = 3 -> ReadByte(ReadByte(ReadByte(s, a), b), c)]
           Fixed(g) == g = [k \in 0 .. Len(bytes) |->
                              IF k = 0 THEN s ELSE ReadByte(g[k - 1], bytes[k])]
<1>1. \A k \in 0 .. n : f[k] = IF k = 0 THEN s ELSE ReadByte(f[k - 1], bytes[k])
  <2> TAKE k \in 0 .. n
  <2>1. k = 0 \/ k = 1 \/ k = 2 \/ k = 3
    OBVIOUS
  <2>2. CASE k = 0
    BY <2>2
  <2>3. CASE k = 1
    BY <2>3
  <2>4. CASE k = 2
    BY <2>4
  <2>5. CASE k = 3
    BY <2>5
  <2> QED BY <2>1, <2>2, <2>3, <2>4, <2>5
<1>2. Fixed(f)
  <2> DEFINE g == [k \in 0 .. Len(bytes) |-> IF k = 0 THEN s ELSE ReadByte(f[k - 1], bytes[k])]
  <2>1. \A k \in 0 .. n : f[k] = g[k]
    BY <1>1
  <2>2. f = [k \in 0 .. n |-> f[k]] /\ g = [k \in 0 .. n |-> g[k]]
    OBVIOUS
  <2>3. f = g
    BY <2>1, <2>2
  <2> QED BY <2>3
<1>3. PICK g : g = ReadUpTo(s, bytes)
  OBVIOUS
<1>4. Fixed(g)
  <2>1. ReadUpTo(s, bytes) = CHOOSE h : Fixed(h)
    BY DEF ReadUpTo
  <2> HIDE DEF f, Fixed
  <2> QED BY <1>2, <1>3, <2>1, Zenon
<1> HIDE DEF f
<1>5. /\ g[0] = s
      /\ n >= 1 => g[1] = ReadByte(g[0], a)
      /\ n >= 2 => g[2] = ReadByte(g[1], b)
      /\ n >= 3 => g[3] = ReadByte(g[2], c)
  BY <1>4
<1> QED BY <1>3, <1>5 DEF Read

\* Packets have three bytes, of which the first ones go out.
Packet(n, a, b, c) == SubSeq(<<a, b, c>>, 1, n)

LEMMA ReadsPacket ==
    ASSUME NEW s, NEW a, NEW b, NEW c
    PROVE  /\ Read(s, Packet(1, a, b, c)) = ReadByte(s, a)
           /\ Read(s, Packet(2, a, b, c)) = ReadByte(ReadByte(s, a), b)
           /\ Read(s, Packet(3, a, b, c)) = ReadByte(ReadByte(ReadByte(s, a), b), c)
<1>1. PICK p : p = Packet(1, a, b, c)
  OBVIOUS
<1>2. PICK q : q = Packet(2, a, b, c)
  OBVIOUS
<1>3. PICK r : r = Packet(3, a, b, c)
  OBVIOUS
<1>4. Len(p) = 1 /\ p[1] = a
  BY <1>1 DEF Packet
<1>5. Len(q) = 2 /\ q[1] = a /\ q[2] = b
  BY <1>2 DEF Packet
<1>6. Len(r) = 3 /\ r[1] = a /\ r[2] = b /\ r[3] = c
  BY <1>3 DEF Packet
<1>7. 1 \in 1 .. 3 /\ 2 \in 1 .. 3 /\ 3 \in 1 .. 3
  OBVIOUS
<1>8. Read(s, p) = ReadByte(s, p[1])
  BY <1>4, <1>7, ReadsOn, Zenon
<1>9. Read(s, q) = ReadByte(ReadByte(s, q[1]), q[2])
  BY <1>5, <1>7, ReadsOn, Zenon
<1>10. Read(s, r) = ReadByte(ReadByte(ReadByte(s, r[1]), r[2]), r[3])
  BY <1>6, <1>7, ReadsOn, Zenon
<1> QED BY <1>1, <1>2, <1>3, <1>4, <1>5, <1>6, <1>8, <1>9, <1>10, Zenon

\* An instrument in or between streams that has met nothing wrong.
InStream(h) == [listening |-> TRUE, heard |-> h, stray |-> FALSE]
Between(h)  == [listening |-> FALSE, heard |-> h, stray |-> FALSE]

LEMMA ReadsByte ==
    ASSUME NEW h
    PROVE  /\ ReadByte(Between(h), 240) = InStream(<<>>)
           /\ ReadByte(InStream(h), 247) = Between(h)
           /\ \A b \in DataByte : ReadByte(InStream(h), b) = InStream(Append(h, b))
           /\ \A k \in {8, 10, 11, 12} :
                /\ ReadByte(InStream(h), 240 + k) = InStream(h)
                /\ ReadByte(Between(h), 240 + k) = Between(h)
<1>1. PICK on, off : /\ on = InStream(h) /\ off = Between(h)
  OBVIOUS
<1>2. /\ on.listening = TRUE /\ on.heard = h /\ on.stray = FALSE
      /\ off.listening = FALSE /\ off.stray = FALSE
  BY <1>1 DEF InStream, Between
<1>3. ReadByte(off, 240) = [listening |-> TRUE, heard |-> <<>>, stray |-> off.stray \/ off.listening]
  BY DEF ReadByte
<1>4. (off.stray \/ off.listening) = FALSE /\ (on.stray \/ ~on.listening) = FALSE
  BY <1>2
<1>5. ReadByte(off, 240) = InStream(<<>>)
  BY <1>3, <1>4, Zenon DEF InStream, Between
<1>6. ReadByte(on, 247) = [on EXCEPT !.listening = FALSE, !.stray = on.stray \/ ~on.listening]
  BY DEF ReadByte
<1>7. ReadByte(on, 247) = [on EXCEPT !.listening = FALSE, !.stray = FALSE]
  BY <1>4, <1>6, Zenon
<1>8. ReadByte(on, 247) = Between(h)
  BY <1>1, <1>7 DEF InStream, Between
<1>9. ASSUME NEW b \in DataByte
      PROVE  ReadByte(on, b) = InStream(Append(h, b))
  <2>1. ReadByte(on, b) = IF on.listening THEN [on EXCEPT !.heard = Append(on.heard, b)]
                          ELSE [on EXCEPT !.stray = TRUE]
    <3>1. b # 240 /\ b # 247 /\ ~(b >= 248)
      BY DEF DataByte
    <3> QED BY <3>1, Zenon DEF ReadByte
  <2>2. ReadByte(on, b) = [on EXCEPT !.heard = Append(h, b)]
    BY <1>2, <2>1
  <2> QED BY <1>1, <2>2 DEF InStream, Between
<1>10. \A k \in {8, 10, 11, 12} : ReadByte(on, 240 + k) = on /\ ReadByte(off, 240 + k) = off
  BY DEF ReadByte
<1> QED BY <1>1, <1>5, <1>8, <1>9, <1>10

\* What the instrument reads of each packet.
LEMMA ReadsOne ==
    ASSUME NEW s, NEW x \in DataByte
    PROVE  /\ Read(s, Wire(EndSysEx1(x))) = ReadByte(ReadByte(s, x), 247)
           /\ Read(s, Wire(SysExSingleByte(x))) = ReadByte(ReadByte(ReadByte(s, 240), x), 247)
<1>1. Wire(EndSysEx1(x)) = Packet(2, x, 247, 0)
  BY DEF DataByte, Wire, GetSize, SizeOfData, SizeOfStart, Packet, EndSysEx1
<1>2. Wire(SysExSingleByte(x)) = Packet(3, 240, x, 247)
  BY DEF DataByte, Wire, GetSize, SizeOfData, SizeOfStart, Packet, SysExSingleByte
<1> QED BY <1>1, <1>2, ReadsPacket

LEMMA ReadsStart ==
    ASSUME NEW s, NEW x \in DataByte, NEW y \in DataByte
    PROVE  Read(s, Wire(StartSysEx(x, y))) = ReadByte(ReadByte(ReadByte(s, 240), x), y)
<1>1. Wire(StartSysEx(x, y)) = Packet(3, 240, x, y)
  BY DEF DataByte, Wire, GetSize, SizeOfData, SizeOfStart, Packet, StartSysEx
<1> QED BY <1>1, ReadsPacket

LEMMA ReadsEnd ==
    ASSUME NEW s, NEW x \in DataByte, NEW y \in DataByte
    PROVE  Read(s, Wire(EndSysEx2(x, y))) = ReadByte(ReadByte(ReadByte(s, x), y), 247)
<1>1. Wire(EndSysEx2(x, y)) = Packet(3, x, y, 247)
  BY DEF DataByte, Wire, GetSize, SizeOfData, SizeOfStart, Packet, EndSysEx2
<1> QED BY <1>1, ReadsPacket

LEMMA ReadsContinue ==
    ASSUME NEW s, NEW x \in DataByte, NEW y \in DataByte, NEW z \in DataByte
    PROVE  Read(s, Wire(ContinueSysEx(x, y, z))) = ReadByte(ReadByte(ReadByte(s, x), y), z)
<1>1. Wire(ContinueSysEx(x, y, z)) = Packet(3, x, y, z)
  BY DEF DataByte, Wire, GetSize, SizeOfData, SizeOfStart, Packet, ContinueSysEx
<1> QED BY <1>1, ReadsPacket

\* And of those that carry none.
LEMMA ReadsFixed ==
    ASSUME NEW s
    PROVE  /\ Read(s, Wire(EndSysEx0)) = ReadByte(s, 247)
           /\ Read(s, Wire(SysExNoPayload)) = ReadByte(ReadByte(s, 240), 247)
           /\ \A k \in {8, 10, 11, 12} : Read(s, Wire(RealTime(k))) = ReadByte(s, 240 + k)
<1>1. Wire(EndSysEx0) = Packet(1, 247, 0, 0)
  BY DEF Wire, GetSize, SizeOfData, SizeOfStart, Packet, EndSysEx0
<1>2. Wire(SysExNoPayload) = Packet(2, 240, 247, 0)
  BY DEF Wire, GetSize, SizeOfData, SizeOfStart, Packet, SysExNoPayload
<1>3. ASSUME NEW k \in {8, 10, 11, 12}
      PROVE  Wire(RealTime(k)) = Packet(1, 240 + k, 0, 0)
  BY DEF Wire, GetSize, SizeOfData, SizeOfStart, Packet, RealTime
<1> QED BY <1>1, <1>2, <1>3, ReadsPacket

SysExTypes ==
    /\ open \in BOOLEAN /\ stray \in BOOLEAN
    /\ payload \in Seq(DataByte)

SysExInv == SysExTypes /\ PayloadArrives

\* A packet leaves the instrument as it leaves the sender.
InstrumentState == [listening |-> listening, heard |-> heard, stray |-> stray]

LEMMA InstrumentIs ==
    ASSUME SysExInv
    PROVE  InstrumentState = IF open THEN InStream(payload) ELSE Between(payload)
<1>1. stray = FALSE /\ listening = open /\ heard = payload /\ open \in BOOLEAN
  BY DEF SysExInv, SysExTypes, PayloadArrives
<1>2. CASE open = TRUE
  BY <1>1, <1>2 DEF InstrumentState, InStream
<1>3. CASE open = FALSE
  BY <1>1, <1>3 DEF InstrumentState, Between
<1> QED BY <1>1, <1>2, <1>3

LEMMA SendsInStream ==
    ASSUME SysExInv, NEW m, Send(m), NEW h \in Seq(DataByte), payload' = h, open' = TRUE,
           Read(InstrumentState, Wire(m)) = InStream(h)
    PROVE  SysExInv'
<1>1. listening' = TRUE /\ heard' = h /\ stray' = FALSE
  BY DEF Send, InstrumentState, InStream
<1> QED BY <1>1 DEF SysExInv, SysExTypes, PayloadArrives

LEMMA SendsBetween ==
    ASSUME SysExInv, NEW m, Send(m), NEW h \in Seq(DataByte), payload' = h, open' = FALSE,
           Read(InstrumentState, Wire(m)) = Between(h)
    PROVE  SysExInv'
<1>1. listening' = FALSE /\ heard' = h /\ stray' = FALSE
  BY DEF Send, InstrumentState, Between
<1> QED BY <1>1 DEF SysExInv, SysExTypes, PayloadArrives

\* Bytes more are appended.
LEMMA TwoBytesMore ==
    ASSUME NEW T, NEW h \in Seq(T), NEW x \in T, NEW y \in T
    PROVE  h \o <<x, y>> = Append(Append(h, x), y) /\ h \o <<x, y>> \in Seq(T)
<1>1. PICK g \in Seq(T) : g = Append(h, x)
  BY AppendProperties, Zenon
<1>2. PICK u \in Seq(T) : u = Append(g, y)
  BY AppendProperties, Zenon
<1>3. <<x, y>> \in Seq(T)
  OBVIOUS
<1>4. PICK t \in Seq(T) : t = h \o <<x, y>>
  BY <1>3, ConcatProperties, Zenon
<1>5. PICK n \in Nat : n = Len(h)
  OBVIOUS
<1>6. Len(u) = n + 2 /\ u[n + 1] = x /\ u[n + 2] = y /\ \A i \in 1 .. n : u[i] = h[i]
  BY <1>1, <1>2, <1>5
<1>7. Len(t) = n + 2 /\ t[n + 1] = x /\ t[n + 2] = y /\ \A i \in 1 .. n : t[i] = h[i]
  BY <1>4, <1>5
<1>8. \A i \in 1 .. n + 2 : i \in 1 .. n \/ i = n + 1 \/ i = n + 2
  OBVIOUS
<1>9. u = t
  BY <1>6, <1>7, <1>8, SeqEqual
<1> QED BY <1>1, <1>2, <1>4, <1>9

LEMMA ThreeBytesMore ==
    ASSUME NEW T, NEW h \in Seq(T), NEW x \in T, NEW y \in T, NEW z \in T
    PROVE  h \o <<x, y, z>> = Append(Append(Append(h, x), y), z) /\ h \o <<x, y, z>> \in Seq(T)
<1>1. PICK g \in Seq(T) : g = Append(h, x)
  BY AppendProperties, Zenon
<1>2. PICK v \in Seq(T) : v = Append(g, y)
  BY AppendProperties, Zenon
<1>3. PICK u \in Seq(T) : u = Append(v, z)
  BY AppendProperties, Zenon
<1>4. <<x, y, z>> \in Seq(T)
  OBVIOUS
<1>5. PICK t \in Seq(T) : t = h \o <<x, y, z>>
  BY <1>4, ConcatProperties, Zenon
<1>6. PICK n \in Nat : n = Len(h)
  OBVIOUS
<1>7. Len(v) = n + 2 /\ v[n + 1] = x /\ v[n + 2] = y /\ \A i \in 1 .. n : v[i] = h[i]
  BY <1>1, <1>2, <1>6
<1>8. /\ Len(u) = n + 3 /\ u[n + 1] = x /\ u[n + 2] = y /\ u[n + 3] = z
      /\ \A i \in 1 .. n : u[i] = h[i]
  BY <1>3, <1>7
<1>9. /\ Len(t) = n + 3 /\ t[n + 1] = x /\ t[n + 2] = y /\ t[n + 3] = z
      /\ \A i \in 1 .. n : t[i] = h[i]
  BY <1>5, <1>6
<1>10. \A i \in 1 .. n + 3 : i \in 1 .. n \/ i = n + 1 \/ i = n + 2 \/ i = n + 3
  OBVIOUS
<1>11. u = t
  BY <1>8, <1>9, <1>10, SeqEqual
<1> QED BY <1>1, <1>2, <1>3, <1>5, <1>11

\* What begins with nothing.
LEMMA PayloadOfOne ==
    ASSUME NEW x \in DataByte
    PROVE  <<x>> \in Seq(DataByte) /\ <<x>> = Append(<<>>, x)
OBVIOUS

LEMMA PayloadOfTwo ==
    ASSUME NEW x \in DataByte, NEW y \in DataByte
    PROVE  <<x, y>> \in Seq(DataByte) /\ <<x, y>> = Append(Append(<<>>, x), y)
<1>1. Append(<<>>, x) = <<x>> /\ <<x>> \in Seq(DataByte) /\ <<x, y>> \in Seq(DataByte)
  OBVIOUS
<1>2. PICK s \in Seq(DataByte) : s = <<x>>
  BY <1>1
<1>3. PICK t \in Seq(DataByte) : t = <<x, y>>
  BY <1>1
<1>4. Append(s, y) \in Seq(DataByte)
  OBVIOUS
<1>5. PICK u \in Seq(DataByte) : u = Append(s, y)
  BY <1>4
<1>6. Len(u) = 2 /\ Len(t) = 2 /\ u[1] = x /\ u[2] = y /\ t[1] = x /\ t[2] = y
  BY <1>2, <1>3, <1>5
<1>7. u = t
  BY <1>6, SeqEqual
<1> QED BY <1>1, <1>2, <1>3, <1>5, <1>7

LEMMA SysExKeeps == SysExInv /\ [SysExNext]_sysexVars => SysExInv'
<1> SUFFICES ASSUME SysExInv, [SysExNext]_sysexVars PROVE SysExInv'
  OBVIOUS
<1>0. /\ open \in BOOLEAN /\ payload \in Seq(DataByte)
      /\ \A x \in Data : x \in DataByte
      /\ open => InstrumentState = InStream(payload)
      /\ ~open => InstrumentState = Between(payload)
  BY DataAssumption, InstrumentIs DEF SysExInv, SysExTypes
<1>1. ASSUME NEW x \in Data, NEW y \in Data, Start(x, y) PROVE SysExInv'
  <2>1. ~open /\ open' = TRUE /\ payload' = <<x, y>> /\ Send(StartSysEx(x, y))
    BY <1>1 DEF Start
  <2>2. x \in DataByte /\ y \in DataByte
    BY <1>0
  <2>3. Read(InstrumentState, Wire(StartSysEx(x, y))) = InStream(Append(Append(<<>>, x), y))
    <3>1. Read(Between(payload), Wire(StartSysEx(x, y))) =
            ReadByte(ReadByte(ReadByte(Between(payload), 240), x), y)
      BY <2>2, ReadsStart
    <3>2. ReadByte(Between(payload), 240) = InStream(<<>>)
      BY ReadsByte
    <3>3. ASSUME NEW e PROVE ReadByte(InStream(e), x) = InStream(Append(e, x))
      BY <2>2, ReadsByte
    <3>4. ASSUME NEW e PROVE ReadByte(InStream(e), y) = InStream(Append(e, y))
      BY <2>2, ReadsByte
    <3> QED BY <1>0, <2>1, <3>1, <3>2, <3>3, <3>4, Zenon
  <2>4. Read(InstrumentState, Wire(StartSysEx(x, y))) = InStream(<<x, y>>) /\ <<x, y>> \in Seq(DataByte)
    BY <2>2, <2>3, PayloadOfTwo
  <2> QED BY <2>1, <2>4, SendsInStream
<1>2. ASSUME NEW x \in Data, NEW y \in Data, NEW z \in Data, Continue(x, y, z) PROVE SysExInv'
  <2>1. open /\ open' = open /\ payload' = payload \o <<x, y, z>> /\ Send(ContinueSysEx(x, y, z))
    BY <1>2 DEF Continue
  <2>2. x \in DataByte /\ y \in DataByte /\ z \in DataByte
    BY <1>0
  <2>3. Read(InStream(payload), Wire(ContinueSysEx(x, y, z))) =
          InStream(Append(Append(Append(payload, x), y), z))
    <3>1. Read(InStream(payload), Wire(ContinueSysEx(x, y, z))) =
            ReadByte(ReadByte(ReadByte(InStream(payload), x), y), z)
      BY <2>2, ReadsContinue
    <3>2. /\ ReadByte(InStream(payload), x) = InStream(Append(payload, x))
          /\ ReadByte(InStream(Append(payload, x)), y) = InStream(Append(Append(payload, x), y))
          /\ ReadByte(InStream(Append(Append(payload, x), y)), z) =
               InStream(Append(Append(Append(payload, x), y), z))
      BY <2>2, ReadsByte
    <3> QED BY <3>1, <3>2, Zenon
  <2>4. PICK h \in Seq(DataByte) : h = payload \o <<x, y, z>> /\
          h = Append(Append(Append(payload, x), y), z)
    <3>1. payload \in Seq(DataByte)
      BY <1>0
    <3> QED BY <2>2, <3>1, ThreeBytesMore, Zenon
  <2>5. open' = TRUE
    BY <1>0, <2>1
  <2>6. Read(InstrumentState, Wire(ContinueSysEx(x, y, z))) = InStream(h)
    BY <1>0, <2>1, <2>3, <2>4, Zenon
  <2> QED BY <2>1, <2>4, <2>5, <2>6, SendsInStream
<1>3. CASE End0
  <2>1. open /\ open' = FALSE /\ payload' = payload /\ Send(EndSysEx0)
    BY <1>3 DEF End0
  <2>2. Read(InstrumentState, Wire(EndSysEx0)) = Between(payload)
    BY <1>0, <2>1, ReadsFixed, ReadsByte
  <2> QED BY <1>0, <2>1, <2>2, SendsBetween
<1>4. ASSUME NEW x \in Data, End1(x) PROVE SysExInv'
  <2>1. open /\ open' = FALSE /\ payload' = Append(payload, x) /\ Send(EndSysEx1(x))
    BY <1>4 DEF End1
  <2>2. x \in DataByte /\ Append(payload, x) \in Seq(DataByte)
    BY <1>0
  <2>3. Read(InstrumentState, Wire(EndSysEx1(x))) = Between(Append(payload, x))
    BY <1>0, <2>1, <2>2, ReadsOne, ReadsByte
  <2> QED BY <2>1, <2>2, <2>3, SendsBetween
<1>5. ASSUME NEW x \in Data, NEW y \in Data, End2(x, y) PROVE SysExInv'
  <2>1. open /\ open' = FALSE /\ payload' = payload \o <<x, y>> /\ Send(EndSysEx2(x, y))
    BY <1>5 DEF End2
  <2>2. x \in DataByte /\ y \in DataByte
    BY <1>0
  <2>3. Read(InStream(payload), Wire(EndSysEx2(x, y))) = Between(Append(Append(payload, x), y))
    <3>1. Read(InStream(payload), Wire(EndSysEx2(x, y))) =
            ReadByte(ReadByte(ReadByte(InStream(payload), x), y), 247)
      BY <2>2, ReadsEnd
    <3>2. /\ ReadByte(InStream(payload), x) = InStream(Append(payload, x))
          /\ ReadByte(InStream(Append(payload, x)), y) = InStream(Append(Append(payload, x), y))
          /\ ReadByte(InStream(Append(Append(payload, x), y)), 247) =
               Between(Append(Append(payload, x), y))
      BY <2>2, ReadsByte
    <3> QED BY <3>1, <3>2, Zenon
  <2>4. PICK h \in Seq(DataByte) : h = payload \o <<x, y>> /\ h = Append(Append(payload, x), y)
    BY <1>0, <2>2, TwoBytesMore
  <2>5. Read(InstrumentState, Wire(EndSysEx2(x, y))) = Between(h)
    BY <1>0, <2>1, <2>3, <2>4, Zenon
  <2> QED BY <2>1, <2>4, <2>5, SendsBetween
<1>6. CASE NoPayload
  <2>1. ~open /\ open' = FALSE /\ payload' = <<>> /\ Send(SysExNoPayload)
    BY <1>0, <1>6 DEF NoPayload
  <2>2. Read(InstrumentState, Wire(SysExNoPayload)) = Between(<<>>)
    BY <1>0, <2>1, ReadsFixed, ReadsByte
  <2>3. <<>> \in Seq(DataByte)
    OBVIOUS
  <2> QED BY <2>1, <2>2, <2>3, SendsBetween
<1>7. ASSUME NEW x \in Data, SingleByte(x) PROVE SysExInv'
  <2>1. ~open /\ open' = FALSE /\ payload' = <<x>> /\ Send(SysExSingleByte(x))
    BY <1>0, <1>7 DEF SingleByte
  <2>2. x \in DataByte
    BY <1>0
  <2>3. PICK h \in Seq(DataByte) : h = <<x>> /\ h = Append(<<>>, x)
    BY <2>2, PayloadOfOne
  <2>4. Read(InstrumentState, Wire(SysExSingleByte(x))) = Between(h)
    <3>1. Read(Between(payload), Wire(SysExSingleByte(x))) =
            ReadByte(ReadByte(ReadByte(Between(payload), 240), x), 247)
      BY <2>2, ReadsOne
    <3>2. /\ ReadByte(Between(payload), 240) = InStream(<<>>)
          /\ ReadByte(InStream(<<>>), x) = InStream(Append(<<>>, x))
          /\ ReadByte(InStream(Append(<<>>, x)), 247) = Between(Append(<<>>, x))
      BY <2>2, ReadsByte
    <3> QED BY <1>0, <2>1, <2>3, <3>1, <3>2, Zenon
  <2> QED BY <2>1, <2>3, <2>4, SendsBetween
<1>8. ASSUME NEW k \in {8, 10, 11, 12}, Transport(k) PROVE SysExInv'
  <2>1. open' = open /\ payload' = payload /\ Send(RealTime(k))
    BY <1>8 DEF Transport
  <2>2. CASE open
    <3>1. Read(InstrumentState, Wire(RealTime(k))) = InStream(payload)
      BY <1>0, <2>2, ReadsFixed, ReadsByte
    <3>2. open' = TRUE
      BY <1>0, <2>1, <2>2
    <3> QED BY <1>0, <2>1, <3>1, <3>2, SendsInStream
  <2>3. CASE ~open
    <3>1. Read(InstrumentState, Wire(RealTime(k))) = Between(payload)
      BY <1>0, <2>3, ReadsFixed, ReadsByte
    <3>2. open' = FALSE
      BY <1>0, <2>1, <2>3
    <3> QED BY <1>0, <2>1, <3>1, <3>2, SendsBetween
  <2> QED BY <2>2, <2>3
<1>9. CASE UNCHANGED sysexVars
  BY <1>9 DEF sysexVars, SysExInv, SysExTypes, PayloadArrives
<1> QED BY <1>1, <1>2, <1>3, <1>4, <1>5, <1>6, <1>7, <1>8, <1>9 DEF SysExNext

\* Whatever the payload and its bytes, however it is cut into packets and whatever
\* the transport sends between them, the instrument has it byte for byte.
THEOREM PayloadsArrive == SysExSpec => []PayloadArrives
<1>1. SysExInit => SysExInv
  <2>1. <<>> \in Seq(DataByte)
    OBVIOUS
  <2> QED BY <2>1 DEF SysExInit, SysExInv, SysExTypes, PayloadArrives
<1> QED BY <1>1, SysExKeeps, PTL DEF SysExSpec, SysExInv

-----------------------------------------------------------------------------
(***************************************************************************)
(* The terms of a block of output.  Of the products of coefficient i with   *)
(* the signal, those of an i that falls early in its block of the kernel    *)
(* come out with the block of the signal that is processed, the others one  *)
(* block later, from the tail.                                             *)
(***************************************************************************)
Covered(n) == KernelBlocksOf(n) * BlockSize
Coefficient(i) == 2 ^ i
Before(k) == BlockSize - 1 - k

Whole(s, n, k) ==
    [i \in 0 .. Covered(n) - 1 |-> IF i < n THEN Coefficient(i) * s[Before(k) + i] ELSE 0]
Early(s, n, k) ==
    [i \in 0 .. Covered(n) - 1 |->
        IF i < n /\ i % BlockSize <= k THEN Coefficient(i) * s[Before(k) + i] ELSE 0]
Late(s, n, k) ==
    [i \in 0 .. Covered(n) - 1 |->
        IF i < n /\ i % BlockSize > k THEN Coefficient(i) * s[i - 1 - k] ELSE 0]

Signals(n) == [0 .. n + BlockSize - 1 -> Int]

\* The i-th block before the last of a signal.
Past(s, i) == [j \in Block |-> s[i * BlockSize + Before(j)]]

LEMMA CoefficientIs ==
    ASSUME NEW i \in Nat
    PROVE  Coefficient(i) \in Int
BY DEF Coefficient

LEMMA ProductsAre ==
    ASSUME NEW x \in Int, NEW y \in Int
    PROVE  x * y \in Int /\ (x = 0 => x * y = 0) /\ (y = 0 => x * y = 0)
OBVIOUS

\* The kernel's blocks cover it, with less than a block to spare.
LEMMA BlocksCover ==
    ASSUME NEW n \in Nat
    PROVE  /\ KernelBlocksOf(n) \in Nat
           /\ Covered(n) \in Nat
           /\ n <= Covered(n)
           /\ Covered(n) <= n + BlockSize - 1
           /\ n = 0 <=> KernelBlocksOf(n) = 0
<1>0. BlockSize \in Nat \ {0}
  BY ConvolverAssumption
<1>1. CASE n = 0
  <2>1. KernelBlocksOf(n) = 0
    BY <1>1 DEF KernelBlocksOf
  <2> QED BY <1>0, <1>1, <2>1 DEF Covered
<1>2. CASE n # 0
  <2> DEFINE q == (n - 1) \div BlockSize
             r == (n - 1) % BlockSize
  <2>1. n - 1 \in Nat
    BY <1>2
  <2>2. q \in Nat /\ r \in 0 .. BlockSize - 1 /\ n - 1 = BlockSize * q + r
    BY <1>0, <2>1, DivisionFacts, Zenon
  <2>3. KernelBlocksOf(n) = q + 1
    BY <1>2 DEF KernelBlocksOf
  <2> HIDE DEF q, r
  <2>4. (q + 1) * BlockSize = BlockSize * q + BlockSize
    BY <1>0, <2>2
  <2>5. BlockSize * q \in Nat
    BY <1>0, <2>2
  <2>6. Covered(n) = BlockSize * q + BlockSize
    BY <2>3, <2>4 DEF Covered
  <2> QED BY <1>0, <1>2, <2>2, <2>3, <2>5, <2>6
<1> QED BY <1>1, <1>2

\* A coefficient of a block, in the kernel.
LEMMA InBlock ==
    ASSUME NEW n \in Nat, NEW i \in 0 .. KernelBlocksOf(n) - 1, NEW a \in Block
    PROVE  /\ i * BlockSize \in Nat
           /\ i * BlockSize + BlockSize <= Covered(n)
           /\ i * BlockSize + a \in 0 .. Covered(n) - 1
           /\ (i * BlockSize + a) % BlockSize = a
<1>0. BlockSize \in Nat \ {0} /\ KernelBlocksOf(n) \in Nat
  BY ConvolverAssumption, BlocksCover
<1> DEFINE blocks == KernelBlocksOf(n)
<1>1. i * BlockSize \in Nat /\ i * BlockSize = BlockSize * i
  BY <1>0
<1>2. i * BlockSize + BlockSize <= blocks * BlockSize
  <2> HIDE DEF blocks
  <2> SUFFICES ASSUME NEW m \in Nat, i \in 0 .. m - 1 PROVE i * BlockSize + BlockSize <= m * BlockSize
    BY <1>0 DEF blocks
  <2>1. (i + 1) * BlockSize <= m * BlockSize
    BY <1>0
  <2>2. (i + 1) * BlockSize = i * BlockSize + BlockSize
    BY <1>0
  <2> QED BY <2>1, <2>2
<1>3. a \in 0 .. BlockSize - 1
  BY DEF Block
<1>4. PICK y \in Nat : y = i * BlockSize + a /\ y = BlockSize * i + a
  BY <1>0, <1>1, <1>3
<1>5. y % BlockSize = a
  BY <1>0, <1>3, <1>4, RemainderIs
<1>6. i * BlockSize + BlockSize <= Covered(n)
  BY <1>2 DEF Covered
<1>7. Covered(n) \in Nat
  BY BlocksCover
<1> QED BY <1>0, <1>1, <1>3, <1>4, <1>5, <1>6, <1>7

-----------------------------------------------------------------------------
(***************************************************************************)
(* Circular convolution of two padded blocks.                              *)
(***************************************************************************)
BlockCoefficient(i, a) ==
    IF i * BlockSize + a < length THEN Coefficient(i * BlockSize + a) ELSE 0

BlockProducts(i, b, k) ==
    [a \in 0 .. BlockSize - 1 |->
        IF a <= k /\ k - a < BlockSize THEN BlockCoefficient(i, a) * b[k - a] ELSE 0]

LEMMA PaddedIs ==
    ASSUME NEW b \in [Block -> Int], NEW a \in FftBlock
    PROVE  /\ Padded(b)[a] \in Int
           /\ a < BlockSize => Padded(b)[a] = b[a]
           /\ a >= BlockSize => Padded(b)[a] = 0
<1>0. BlockSize \in Nat \ {0}
  BY ConvolverAssumption
<1>1. Padded(b)[a] = IF a \in Block THEN b[a] ELSE 0
  BY DEF Padded
<1>2. a \in 0 .. 2 * BlockSize - 1
  BY DEF FftBlock
<1>3. a \in Block <=> a < BlockSize
  BY <1>0, <1>2 DEF Block
<1> QED BY <1>0, <1>1, <1>2, <1>3

LEMMA KernelBlockIs ==
    ASSUME length \in Nat, NEW i \in 0 .. kernelBlocks - 1, NEW a \in FftBlock
    PROVE  /\ KernelBlock(i)[a] \in Int
           /\ a < BlockSize => KernelBlock(i)[a] = BlockCoefficient(i, a)
           /\ a >= BlockSize => KernelBlock(i)[a] = 0
<1> DEFINE b == [k \in Block |-> IF i * BlockSize + k < length THEN 2 ^ (i * BlockSize + k) ELSE 0]
<1>0. BlockSize \in Nat \ {0} /\ i \in Nat
  BY ConvolverAssumption, BlocksCover DEF kernelBlocks
<1>1. ASSUME NEW k \in Block PROVE b[k] = BlockCoefficient(i, k) /\ b[k] \in Int
  <2>1. b[k] = BlockCoefficient(i, k)
    BY DEF BlockCoefficient, Coefficient
  <2>2. i * BlockSize + k \in Nat
    BY InBlock DEF kernelBlocks
  <2>3. Coefficient(i * BlockSize + k) \in Int
    BY <2>2, CoefficientIs
  <2> QED BY <2>1, <2>3 DEF BlockCoefficient
<1>2. b \in [Block -> Int]
  BY <1>1
<1>3. KernelBlock(i) = Padded(b)
  BY DEF KernelBlock
<1> HIDE DEF b
<1>4. a < BlockSize => a \in Block
  BY <1>0 DEF FftBlock, Block
<1> QED BY <1>1, <1>2, <1>3, <1>4, PaddedIs

LEMMA ConvolvedIs ==
    ASSUME length \in Nat, NEW i \in 0 .. kernelBlocks - 1,
           NEW b \in [Block -> Int], NEW k \in FftBlock
    PROVE  Convolved(KernelBlock(i), Padded(b))[k] = Sum(BlockProducts(i, b, k), BlockSize)
<1> DEFINE x == KernelBlock(i)
           y == Padded(b)
           f == [a \in FftBlock |-> x[a] * y[(k - a) % (2 * BlockSize)]]
           g == BlockProducts(i, b, k)
<1>0. BlockSize \in Nat \ {0} /\ k \in 0 .. 2 * BlockSize - 1
  BY ConvolverAssumption DEF FftBlock
<1>1. Convolved(x, y)[k] = SumFunction(f)
  BY DEF Convolved
<1>2. DOMAIN f = 0 .. 2 * BlockSize - 1
  BY DEF FftBlock
<1>3. SumFunction(f) = Sum(f, 2 * BlockSize)
  <2> HIDE DEF f
  <2> QED BY <1>2, Zenon DEF SumFunction, Sum
<1>4. ASSUME NEW a \in FftBlock
      PROVE  /\ f[a] = x[a] * y[(k - a) % (2 * BlockSize)]
             /\ (k - a) % (2 * BlockSize) \in FftBlock
             /\ f[a] \in Int
  <2>1. (k - a) % (2 * BlockSize) \in FftBlock
    BY <1>0 DEF FftBlock
  <2>2. x[a] \in Int /\ y[(k - a) % (2 * BlockSize)] \in Int
    BY <2>1, KernelBlockIs, PaddedIs
  <2>3. f[a] = x[a] * y[(k - a) % (2 * BlockSize)]
    OBVIOUS
  <2> HIDE DEF f, x, y
  <2> QED BY <2>1, <2>2, <2>3, ProductsAre
<1>5. Ints(f, 2 * BlockSize)
  <2> HIDE DEF f
  <2> QED BY <1>4 DEF Ints, FftBlock
<1>6. ZeroFrom(f, BlockSize, 2 * BlockSize)
  <2> SUFFICES ASSUME NEW a \in BlockSize .. 2 * BlockSize - 1 PROVE f[a] = 0
    BY DEF ZeroFrom
  <2>1. a \in FftBlock /\ a >= BlockSize
    BY <1>0 DEF FftBlock
  <2>2. x[a] = 0
    BY <2>1, KernelBlockIs
  <2>3. y[(k - a) % (2 * BlockSize)] \in Int
    BY <1>4, <2>1, PaddedIs
  <2> HIDE DEF f, x, y
  <2> QED BY <1>4, <2>1, <2>2, <2>3
<1>7. ASSUME NEW a \in 0 .. BlockSize - 1 PROVE g[a] = f[a]
  <2> DEFINE m == (k - a) % (2 * BlockSize)
  <2>1. a \in FftBlock /\ a < BlockSize
    BY <1>0 DEF FftBlock
  <2>2. x[a] = BlockCoefficient(i, a) /\ x[a] \in Int
    BY <2>1, KernelBlockIs
  <2>3. g[a] = IF a <= k /\ k - a < BlockSize THEN BlockCoefficient(i, a) * b[k - a] ELSE 0
    BY DEF BlockProducts
  <2>4. m = IF a <= k THEN k - a ELSE k - a + 2 * BlockSize
    <3>1. CASE a <= k
      <4>1. k - a \in 0 .. 2 * BlockSize - 1 /\ 2 * BlockSize \in Nat \ {0}
        BY <1>0, <3>1
      <4> QED BY <3>1, <4>1
    <3>2. CASE a > k
      <4>1. k - a + 2 * BlockSize \in 0 .. 2 * BlockSize - 1 /\ 2 * BlockSize \in Nat \ {0}
        BY <1>0, <3>2
      <4> QED BY <1>0, <3>2, <4>1
    <3> QED BY <1>0, <3>1, <3>2
  <2>5. m \in FftBlock /\ f[a] = x[a] * y[m]
    BY <1>4, <2>1
  <2> HIDE DEF m, f, g, x
  <2>6. CASE a <= k /\ k - a < BlockSize
    <3>1. m = k - a /\ m < BlockSize
      BY <2>4, <2>6
    <3>2. y[m] = b[m]
      BY <2>5, <3>1, PaddedIs
    <3> QED BY <2>2, <2>3, <2>5, <2>6, <3>1, <3>2
  <2>7. CASE ~(a <= k /\ k - a < BlockSize)
    <3>1. m >= BlockSize
      BY <1>0, <2>4, <2>7
    <3>2. y[m] = 0
      BY <2>5, <3>1, PaddedIs
    <3>3. f[a] = 0
      BY <2>2, <2>5, <3>2
    <3> QED BY <2>3, <2>7, <3>3
  <2> QED BY <2>6, <2>7
<1> HIDE DEF f, g
<1>8. Sum(f, 2 * BlockSize) = Sum(f, BlockSize)
  <2>1. BlockSize \in 0 .. 2 * BlockSize /\ 2 * BlockSize \in Nat
    BY <1>0
  <2> QED BY <1>5, <1>6, <2>1, SumOfZeros
<1>9. Ints(f, BlockSize) /\ Part(g, f, 0, BlockSize)
  BY <1>0, <1>5, <1>7 DEF Ints, Part
<1>10. Sum(f, BlockSize) = Sum(g, BlockSize)
  BY <1>0, <1>9, SumOfSame
<1> QED BY <1>1, <1>3, <1>8, <1>10 DEF g

-----------------------------------------------------------------------------
(***************************************************************************)
(* The products of a block of the kernel are terms of the output.          *)
(***************************************************************************)
LEMMA PastIs ==
    ASSUME NEW n \in Nat, NEW s \in Signals(n), NEW i \in 0 .. KernelBlocksOf(n) - 1
    PROVE  /\ Past(s, i) \in [Block -> Int]
           /\ \A j \in Block : Past(s, i)[j] = s[i * BlockSize + Before(j)]
<1>0. BlockSize \in Nat \ {0}
  BY ConvolverAssumption
<1>1. ASSUME NEW j \in Block PROVE s[i * BlockSize + Before(j)] \in Int
  <2>1. Before(j) \in Block
    BY <1>0 DEF Block, Before
  <2>2. i * BlockSize + Before(j) \in 0 .. Covered(n) - 1
    BY <2>1, InBlock
  <2>3. Covered(n) \in Nat /\ Covered(n) <= n + BlockSize - 1
    BY BlocksCover
  <2>4. i * BlockSize + Before(j) \in 0 .. n + BlockSize - 1
    BY <1>0, <2>2, <2>3
  <2> QED BY <2>4 DEF Signals
<1> QED BY <1>1 DEF Past

LEMMA TermsAreInts ==
    ASSUME NEW n \in Nat, NEW s \in Signals(n), NEW k \in Block
    PROVE  /\ Ints(Whole(s, n, k), Covered(n))
           /\ Ints(Early(s, n, k), Covered(n))
           /\ Ints(Late(s, n, k), Covered(n))
<1>0. BlockSize \in Nat \ {0} /\ k \in 0 .. BlockSize - 1
  BY ConvolverAssumption DEF Block
<1> SUFFICES ASSUME NEW i \in 0 .. Covered(n) - 1
             PROVE  Whole(s, n, k)[i] \in Int /\ Early(s, n, k)[i] \in Int /\ Late(s, n, k)[i] \in Int
  BY DEF Ints
<1>1. i \in Nat /\ Coefficient(i) \in Int
  BY BlocksCover, CoefficientIs
<1>2. i < n => s[Before(k) + i] \in Int
  <2> SUFFICES ASSUME i < n PROVE s[Before(k) + i] \in Int
    OBVIOUS
  <2>1. Before(k) + i \in 0 .. n + BlockSize - 1
    BY <1>0, <1>1 DEF Before
  <2> QED BY <2>1 DEF Signals
<1>3. i < n => Coefficient(i) * s[Before(k) + i] \in Int
  BY <1>1, <1>2, ProductsAre
<1>4. i < n /\ i % BlockSize > k => s[i - 1 - k] \in Int
  <2> SUFFICES ASSUME i < n, i % BlockSize > k PROVE s[i - 1 - k] \in Int
    OBVIOUS
  <2>1. i % BlockSize <= i
    BY <1>0, <1>1
  <2>2. i - 1 - k \in 0 .. n + BlockSize - 1
    BY <1>0, <1>1, <2>1
  <2> QED BY <2>2 DEF Signals
<1>5. i < n /\ i % BlockSize > k => Coefficient(i) * s[i - 1 - k] \in Int
  BY <1>1, <1>4, ProductsAre
<1> QED BY <1>3, <1>5 DEF Whole, Early, Late

LEMMA FirstHalf ==
    ASSUME length \in Nat, NEW s \in Signals(length), NEW i \in 0 .. kernelBlocks - 1, NEW k \in Block
    PROVE  Part(BlockProducts(i, Past(s, i), k), Early(s, length, k), i * BlockSize, BlockSize)
<1> DEFINE g == BlockProducts(i, Past(s, i), k)
           e == Early(s, length, k)
<1>0. BlockSize \in Nat \ {0} /\ k \in 0 .. BlockSize - 1
  BY ConvolverAssumption DEF Block
<1>1. ASSUME NEW a \in 0 .. BlockSize - 1 PROVE g[a] = e[i * BlockSize + a]
  <2> DEFINE m == i * BlockSize + a
  <2> SUFFICES g[a] = e[m]
    OBVIOUS
  <2>1. a \in Block
    BY DEF Block
  <2>2. i * BlockSize \in Nat /\ m \in 0 .. Covered(length) - 1 /\ m % BlockSize = a
    BY <2>1, InBlock DEF kernelBlocks
  <2>3. e[m] = IF m < length /\ a <= k THEN Coefficient(m) * s[Before(k) + m] ELSE 0
    BY <2>2 DEF Early
  <2>4. g[a] = IF a <= k /\ k - a < BlockSize THEN BlockCoefficient(i, a) * Past(s, i)[k - a] ELSE 0
    BY DEF BlockProducts
  <2>5. BlockCoefficient(i, a) = IF m < length THEN Coefficient(m) ELSE 0
    BY DEF BlockCoefficient
  <2>6. CASE a <= k
    <3>1. k - a \in Block /\ k - a < BlockSize
      BY <1>0, <2>6 DEF Block
    <3>2. Past(s, i)[k - a] = s[i * BlockSize + Before(k - a)] /\ Past(s, i)[k - a] \in Int
      BY <3>1, PastIs DEF kernelBlocks
    <3>3. i * BlockSize + Before(k - a) = Before(k) + m
      BY <1>0, <2>2 DEF Before
    <3>4. Past(s, i)[k - a] = s[Before(k) + m]
      BY <3>2, <3>3
    <3> HIDE DEF m, e, g
    <3>5. CASE m < length
      BY <2>3, <2>4, <2>5, <2>6, <3>1, <3>4, <3>5
    <3>6. CASE ~(m < length)
      <4>1. 0 * Past(s, i)[k - a] = 0
        BY <3>2
      <4> QED BY <2>3, <2>4, <2>5, <3>6, <4>1
    <3> QED BY <3>5, <3>6
  <2>7. CASE ~(a <= k)
    BY <2>3, <2>4, <2>7
  <2> QED BY <2>6, <2>7
<1> QED BY <1>1 DEF Part

LEMMA SecondHalf ==
    ASSUME length \in Nat, NEW s \in Signals(length), NEW i \in 0 .. kernelBlocks - 1, NEW k \in Block
    PROVE  Part(BlockProducts(i, Past(s, i), k + BlockSize), Late(s, length, k), i * BlockSize, BlockSize)
<1> DEFINE g == BlockProducts(i, Past(s, i), k + BlockSize)
           e == Late(s, length, k)
<1>0. BlockSize \in Nat \ {0} /\ k \in 0 .. BlockSize - 1
  BY ConvolverAssumption DEF Block
<1>1. ASSUME NEW a \in 0 .. BlockSize - 1 PROVE g[a] = e[i * BlockSize + a]
  <2> DEFINE m == i * BlockSize + a
             d == k + BlockSize - a
  <2> SUFFICES g[a] = e[m]
    OBVIOUS
  <2>1. a \in Block
    BY DEF Block
  <2>2. i * BlockSize \in Nat /\ m \in 0 .. Covered(length) - 1 /\ m % BlockSize = a
    BY <2>1, InBlock DEF kernelBlocks
  <2>3. e[m] = IF m < length /\ a > k THEN Coefficient(m) * s[m - 1 - k] ELSE 0
    BY <2>2 DEF Late
  <2>4. g[a] = IF a <= k + BlockSize /\ d < BlockSize
               THEN BlockCoefficient(i, a) * Past(s, i)[d] ELSE 0
    <3>1. k + BlockSize - a = (k + BlockSize) - a
      BY <1>0
    <3> QED BY <3>1 DEF BlockProducts
  <2>5. BlockCoefficient(i, a) = IF m < length THEN Coefficient(m) ELSE 0
    BY DEF BlockCoefficient
  <2>6. CASE a > k
    <3>1. d \in Block /\ d < BlockSize /\ a <= k + BlockSize
      BY <1>0, <2>6 DEF Block
    <3>2. Past(s, i)[d] = s[i * BlockSize + Before(d)] /\ Past(s, i)[d] \in Int
      BY <3>1, PastIs DEF kernelBlocks
    <3>3. i * BlockSize + Before(d) = m - 1 - k
      BY <1>0, <2>2 DEF Before
    <3>4. Past(s, i)[d] = s[m - 1 - k]
      BY <3>2, <3>3
    <3> HIDE DEF m, e, g, d
    <3>5. CASE m < length
      BY <2>3, <2>4, <2>5, <2>6, <3>1, <3>4, <3>5
    <3>6. CASE ~(m < length)
      <4>1. 0 * Past(s, i)[d] = 0
        BY <3>2
      <4> QED BY <2>3, <2>4, <2>5, <3>6, <4>1
    <3> QED BY <3>5, <3>6
  <2>7. CASE ~(a > k)
    <3>1. ~(d < BlockSize)
      BY <1>0, <2>7
    <3> QED BY <2>3, <2>4, <2>7, <3>1
  <2> QED BY <2>6, <2>7
<1> QED BY <1>1 DEF Part

\* What the transforms give, over all the blocks of the kernel.
BlockSums(x, k) ==
    [i \in 0 .. kernelBlocks - 1 |-> Convolved(KernelBlock(i), x[i])[k]]

LEMMA SumsOfBlocks ==
    ASSUME length \in Nat, NEW s \in Signals(length), NEW k \in Block, NEW x,
           \A i \in 0 .. kernelBlocks - 1 : x[i] = Padded(Past(s, i))
    PROVE  /\ SumFunction(BlockSums(x, k)) = Sum(Early(s, length, k), Covered(length))
           /\ SumFunction(BlockSums(x, k + BlockSize)) = Sum(Late(s, length, k), Covered(length))
<1>0. BlockSize \in Nat \ {0} /\ k \in 0 .. BlockSize - 1 /\ kernelBlocks \in Nat
  BY ConvolverAssumption, BlocksCover DEF Block, kernelBlocks
<1>1. k \in FftBlock /\ k + BlockSize \in FftBlock
  BY <1>0 DEF FftBlock
<1>2. ASSUME NEW l \in FftBlock, NEW i \in 0 .. kernelBlocks - 1
      PROVE  BlockSums(x, l)[i] = Sum(BlockProducts(i, Past(s, i), l), BlockSize)
  <2>1. Past(s, i) \in [Block -> Int]
    BY PastIs DEF kernelBlocks
  <2>2. BlockSums(x, l)[i] = Convolved(KernelBlock(i), Padded(Past(s, i)))[l]
    BY DEF BlockSums
  <2> QED BY <2>1, <2>2, ConvolvedIs
<1>3. ASSUME NEW l PROVE SumFunction(BlockSums(x, l)) = Sum(BlockSums(x, l), kernelBlocks)
  <2>1. DOMAIN BlockSums(x, l) = 0 .. kernelBlocks - 1
    BY DEF BlockSums
  <2> QED BY <2>1, Zenon DEF SumFunction, Sum
<1>4. Blocks(BlockSums(x, k), Early(s, length, k), BlockSize, kernelBlocks)
  BY <1>1, <1>2, FirstHalf DEF Blocks
<1>5. Blocks(BlockSums(x, k + BlockSize), Late(s, length, k), BlockSize, kernelBlocks)
  BY <1>1, <1>2, SecondHalf DEF Blocks
<1>6. Covered(length) = kernelBlocks * BlockSize
  BY DEF Covered, kernelBlocks
<1>7. Ints(Early(s, length, k), Covered(length)) /\ Ints(Late(s, length, k), Covered(length))
  BY TermsAreInts
<1> QED BY <1>0, <1>3, <1>4, <1>5, <1>6, <1>7, SumInBlocks

-----------------------------------------------------------------------------
(***************************************************************************)
(* The invariant: the spectra are those of the last blocks of the signal,   *)
(* newest first from inputPos back, and the tail is what the signal has      *)
(* still to add.                                                           *)
(***************************************************************************)
Slot(p, i) == (p - i + kernelBlocks) % kernelBlocks

SpectraOfSignal ==
    /\ DOMAIN inputFfts = 0 .. kernelBlocks - 1
    /\ \A i \in 0 .. kernelBlocks - 1 : inputFfts[Slot(inputPos, i)] = Padded(Past(signal, i))

\* The tail of the kernel before, for the first block.
Inherited(k) == IF calls = 0 THEN oldTail[k] ELSE 0

TailOfSignal ==
    \A k \in Block : outputTail[k] = Inherited(k) + Sum(Late(signal, length, k), Covered(length))

ConvolverTypes ==
    /\ length \in Nat
    /\ signal \in Signals(length)
    /\ inputPos \in Nat
    /\ kernelBlocks # 0 => inputPos < kernelBlocks
    /\ outputTail \in [Block -> Int]
    /\ oldTail \in [Block -> Int]
    /\ calls \in 0 .. 2

Fresh ==
    /\ calls = 0 => signal = NoSignal(length)
    /\ calls # 0 => kernelBlocks # 0

ConvolverInv ==
    ConvolverTypes /\ Fresh /\ SpectraOfSignal /\ TailOfSignal /\ ConvolvesInBlocks

LEMMA SlotIs ==
    ASSUME NEW n \in Nat \ {0}, NEW p \in 0 .. n - 1, NEW i \in 0 .. n - 1
    PROVE  /\ (p - i + n) % n = IF i <= p THEN p - i ELSE p - i + n
           /\ (p + 1) % n = IF p + 1 = n THEN 0 ELSE p + 1
<1>1. CASE i <= p
  <2>1. p - i + n \in Nat /\ p - i \in 0 .. n - 1 /\ p - i + n = n * 1 + (p - i)
    BY <1>1
  <2> QED BY <1>1, <2>1, RemainderIs
<1>2. CASE i > p
  <2>1. p - i + n \in Nat /\ p - i + n \in 0 .. n - 1 /\ p - i + n = n * 0 + (p - i + n)
    BY <1>2
  <2> QED BY <1>2, <2>1, RemainderIs
<1>3. CASE p + 1 = n
  <2>1. p + 1 \in Nat /\ 0 \in 0 .. n - 1 /\ p + 1 = n * 1 + 0
    BY <1>3
  <2>2. (p + 1) % n = 0
    BY <2>1, RemainderIs
  <2> QED BY <1>1, <1>2, <1>3, <2>2
<1>4. CASE p + 1 # n
  <2>1. p + 1 \in Nat /\ p + 1 \in 0 .. n - 1 /\ p + 1 = n * 0 + (p + 1)
    BY <1>4
  <2>2. (p + 1) % n = p + 1
    BY <2>1, RemainderIs
  <2> QED BY <1>1, <1>2, <1>4, <2>2
<1> QED BY <1>3, <1>4

\* Without a signal nothing is late, and all of the past is silent.
LEMMA NothingLate ==
    ASSUME NEW n \in Nat, NEW k \in Block
    PROVE  NoSignal(n) \in Signals(n) /\ Sum(Late(NoSignal(n), n, k), Covered(n)) = 0
<1> DEFINE f == Late(NoSignal(n), n, k)
<1>0. BlockSize \in Nat \ {0} /\ k \in 0 .. BlockSize - 1 /\ Covered(n) \in Nat
  BY ConvolverAssumption, BlocksCover DEF Block
<1>1. NoSignal(n) \in Signals(n)
  BY DEF NoSignal, Signals
<1>2. ASSUME NEW i \in 0 .. Covered(n) - 1 PROVE f[i] = 0
  <2>1. f[i] = IF i < n /\ i % BlockSize > k THEN Coefficient(i) * NoSignal(n)[i - 1 - k] ELSE 0
    BY DEF Late
  <2>2. i \in Nat /\ Coefficient(i) \in Int
    BY <1>0, CoefficientIs
  <2>3. CASE i < n /\ i % BlockSize > k
    <3>1. i % BlockSize <= i
      BY <1>0, <2>2
    <3>2. i - 1 - k \in 0 .. n + BlockSize - 1
      BY <1>0, <2>2, <2>3, <3>1
    <3>3. NoSignal(n)[i - 1 - k] = 0
      BY <3>2 DEF NoSignal
    <3> HIDE DEF f
    <3> QED BY <2>1, <2>2, <2>3, <3>3
  <2>4. CASE ~(i < n /\ i % BlockSize > k)
    BY <2>1, <2>4
  <2> QED BY <2>3, <2>4
<1>3. Ints(f, Covered(n))
  BY <1>1, TermsAreInts
<1> HIDE DEF f
<1>4. ZeroFrom(f, 0, Covered(n))
  BY <1>2 DEF ZeroFrom
<1>5. Sum(f, Covered(n)) = Sum(f, 0)
  BY <1>0, <1>3, <1>4, SumOfZeros
<1> QED BY <1>1, <1>5, SumOfNone DEF f

LEMMA NothingYet ==
    ASSUME NEW n \in Nat
    PROVE  /\ NoSignal(n) \in Signals(n)
           /\ \A k \in Block : Sum(Late(NoSignal(n), n, k), Covered(n)) = 0
<1>1. NoSignal(n) \in Signals(n)
  BY DEF NoSignal, Signals
<1> QED BY <1>1, NothingLate

LEMMA SilentPast ==
    ASSUME NEW n \in Nat, NEW i \in 0 .. KernelBlocksOf(n) - 1
    PROVE  Padded(Past(NoSignal(n), i)) = Padded(Silent)
<1>0. BlockSize \in Nat \ {0}
  BY ConvolverAssumption
<1>1. ASSUME NEW j \in Block PROVE NoSignal(n)[i * BlockSize + Before(j)] = 0
  <2>1. Before(j) \in Block
    BY <1>0 DEF Block, Before
  <2>2. i * BlockSize + Before(j) \in 0 .. Covered(n) - 1
    BY <2>1, InBlock
  <2>3. Covered(n) \in Nat /\ Covered(n) <= n + BlockSize - 1
    BY BlocksCover
  <2>4. i * BlockSize + Before(j) \in 0 .. n + BlockSize - 1
    BY <1>0, <2>2, <2>3
  <2> QED BY <2>4 DEF NoSignal
<1>2. Past(NoSignal(n), i) = Silent
  BY <1>1 DEF Past, Silent
<1> QED BY <1>2

-----------------------------------------------------------------------------
SilentIs ==
    Silent \in [Block -> Int] /\ \A k \in Block : Silent[k] = 0

LEMMA SilentSamples == SilentIs
BY DEF SilentIs, Silent

LEMMA ConvolverStarts == ConvolverInit => ConvolverInv
<1> SUFFICES ASSUME ConvolverInit PROVE ConvolverInv
  OBVIOUS
<1>1. length = 0 /\ kernelBlocks = 0 /\ inputPos = 0 /\ calls = 0 /\ signal = NoSignal(length)
  BY DEF ConvolverInit, kernelBlocks, KernelBlocksOf
<1>2. outputTail = Silent /\ oldTail = Silent
  BY DEF ConvolverInit
<1>3. inputFfts = <<>>
  BY DEF ConvolverInit
<1>4. DOMAIN inputFfts = 0 .. 0 - 1
  BY <1>3
<1>5. signal \in Signals(length) /\ \A k \in Block : Sum(Late(signal, length, k), Covered(length)) = 0
  <2>1. length \in Nat
    BY <1>1
  <2> QED BY <1>1, <2>1, NothingYet, Zenon
<1>6. ConvolverTypes
  BY <1>1, <1>2, <1>5, SilentSamples DEF ConvolverTypes, SilentIs
<1>7. TailOfSignal
  BY <1>1, <1>2, <1>5, SilentSamples DEF TailOfSignal, Inherited, SilentIs
<1>8. SpectraOfSignal
  BY <1>1, <1>4 DEF SpectraOfSignal
<1>9. Fresh /\ ConvolvesInBlocks
  BY <1>1 DEF Fresh, ConvolvesInBlocks
<1> QED BY <1>6, <1>7, <1>8, <1>9 DEF ConvolverInv

LEMMA KernelStep ==
    ASSUME ConvolverInv, NEW n \in KernelLengths, SetKernel(n)
    PROVE  ConvolverInv'
<1>0. n \in Nat /\ KernelBlocksOf(n) \in Nat
  BY ConvolverAssumption, BlocksCover
<1>1. length' = n /\ inputPos' = 0 /\ calls' = 0 /\ signal' = NoSignal(n)
  BY DEF SetKernel
<1>2. outputTail' = outputTail /\ oldTail' = outputTail /\ outputTail \in [Block -> Int]
  BY DEF SetKernel, ConvolverInv, ConvolverTypes
<1>3. inputFfts' = [b \in 0 .. KernelBlocksOf(n) - 1 |-> Padded(Silent)]
  BY DEF SetKernel
<1>4. kernelBlocks' = KernelBlocksOf(n)
  BY <1>1 DEF kernelBlocks
<1>5. signal' \in Signals(n) /\ \A k \in Block : Sum(Late(signal', n, k), Covered(n)) = 0
  BY <1>0, <1>1, NothingYet, Zenon
<1>6. ConvolverTypes'
  BY <1>0, <1>1, <1>2, <1>4, <1>5 DEF ConvolverTypes
<1>7. TailOfSignal'
  BY <1>1, <1>2, <1>5 DEF TailOfSignal, Inherited
<1>8. SpectraOfSignal'
  <2>1. DOMAIN inputFfts' = 0 .. KernelBlocksOf(n) - 1
    BY <1>3
  <2>2. ASSUME NEW i \in 0 .. KernelBlocksOf(n) - 1
        PROVE  inputFfts'[(0 - i + KernelBlocksOf(n)) % KernelBlocksOf(n)] = Padded(Past(signal', i))
    <3>1. KernelBlocksOf(n) \in Nat \ {0} /\ 0 \in 0 .. KernelBlocksOf(n) - 1
      BY <1>0
    <3>2. (0 - i + KernelBlocksOf(n)) % KernelBlocksOf(n) \in 0 .. KernelBlocksOf(n) - 1
      BY <3>1, SlotIs
    <3>3. Padded(Past(signal', i)) = Padded(Silent)
      BY <1>0, <1>1, SilentPast
    <3> QED BY <1>3, <3>2, <3>3
  <2> QED BY <1>1, <1>4, <2>1, <2>2 DEF SpectraOfSignal, Slot
<1>9. Fresh' /\ ConvolvesInBlocks'
  BY <1>1 DEF Fresh, ConvolvesInBlocks
<1> QED BY <1>6, <1>7, <1>8, <1>9 DEF ConvolverInv

LEMMA NothingStep ==
    ASSUME ConvolverInv, ProcessNothing
    PROVE  ConvolverInv'
<1>1. UNCHANGED <<length, inputFfts, inputPos, outputTail, calls, oldTail, signal>> /\ kernelBlocks = 0
  BY DEF ProcessNothing
<1>2. kernelBlocks' = kernelBlocks
  BY <1>1 DEF kernelBlocks
<1>3. calls = 0
  BY <1>1 DEF ConvolverInv, Fresh, ConvolverTypes
<1>4. ConvolverTypes'
  BY <1>1, <1>2 DEF ConvolverInv, ConvolverTypes
<1>5. Fresh'
  BY <1>1, <1>2 DEF ConvolverInv, Fresh
<1>6. SpectraOfSignal'
  BY <1>1, <1>2 DEF ConvolverInv, SpectraOfSignal, Slot
<1>7. TailOfSignal'
  BY <1>1 DEF ConvolverInv, TailOfSignal, Inherited
<1>8. ConvolvesInBlocks'
  BY <1>1, <1>3 DEF ConvolvesInBlocks
<1> QED BY <1>4, <1>5, <1>6, <1>7, <1>8 DEF ConvolverInv

-----------------------------------------------------------------------------
(***************************************************************************)
(* A block of the signal.                                                  *)
(***************************************************************************)
\* The signal with a block more.
Longer(s, n, input) ==
    [k \in 0 .. n + BlockSize - 1 |->
        IF k \in Block THEN input[BlockSize - 1 - k] ELSE s[k - BlockSize]]

LEMMA LongerIs ==
    ASSUME NEW n \in Nat, NEW s \in Signals(n), NEW input \in [Block -> Int]
    PROVE  /\ Longer(s, n, input) \in Signals(n)
           /\ \A k \in 0 .. n + BlockSize - 1 :
                Longer(s, n, input)[k] =
                  IF k < BlockSize THEN input[BlockSize - 1 - k] ELSE s[k - BlockSize]
<1> DEFINE new == Longer(s, n, input)
<1>0. BlockSize \in Nat \ {0}
  BY ConvolverAssumption
<1>1. ASSUME NEW k \in 0 .. n + BlockSize - 1
      PROVE  /\ new[k] = IF k < BlockSize THEN input[BlockSize - 1 - k] ELSE s[k - BlockSize]
             /\ new[k] \in Int
  <2>1. k \in Block <=> k < BlockSize
    BY <1>0 DEF Block
  <2>2. new[k] = IF k < BlockSize THEN input[BlockSize - 1 - k] ELSE s[k - BlockSize]
    BY <2>1 DEF Longer
  <2>3. k < BlockSize => BlockSize - 1 - k \in Block
    BY <1>0 DEF Block
  <2>4. ~(k < BlockSize) => k - BlockSize \in 0 .. n + BlockSize - 1
    BY <1>0
  <2> HIDE DEF new
  <2> QED BY <2>2, <2>3, <2>4 DEF Signals
<1>2. DOMAIN new = 0 .. n + BlockSize - 1
  BY DEF Longer
<1>3. new = [k \in 0 .. n + BlockSize - 1 |-> new[k]]
  BY DEF Longer
<1> HIDE DEF new
<1>4. new \in Signals(n)
  BY <1>1, <1>3 DEF Signals
<1> QED BY <1>1, <1>4 DEF new

\* The block that came is the last one, the others are one further back.
LEMMA PastOfLonger ==
    ASSUME NEW n \in Nat, NEW s \in Signals(n), NEW input \in [Block -> Int],
           NEW i \in 0 .. KernelBlocksOf(n) - 1
    PROVE  Past(Longer(s, n, input), i) = IF i = 0 THEN input ELSE Past(s, i - 1)
<1> DEFINE new == Longer(s, n, input)
<1>0. BlockSize \in Nat \ {0} /\ KernelBlocksOf(n) \in Nat /\ Covered(n) \in Nat
      /\ Covered(n) <= n + BlockSize - 1
  BY ConvolverAssumption, BlocksCover
<1>1. ASSUME NEW j \in Block
      PROVE  new[i * BlockSize + Before(j)] = IF i = 0 THEN input[j] ELSE s[(i - 1) * BlockSize + Before(j)]
  <2>1. Before(j) \in Block /\ Before(j) \in 0 .. BlockSize - 1 /\ BlockSize - 1 - Before(j) = j
    BY <1>0 DEF Block, Before
  <2>2. i * BlockSize + Before(j) \in 0 .. n + BlockSize - 1 /\ i * BlockSize \in Nat
    BY <1>0, <2>1, InBlock
  <2>3. CASE i = 0
    <3>1. i * BlockSize = 0
      BY <1>0, <2>3
    <3>2. i * BlockSize + Before(j) = Before(j) /\ Before(j) < BlockSize
      BY <1>0, <2>1, <3>1
    <3> HIDE DEF new
    <3>3. new[Before(j)] = input[BlockSize - 1 - Before(j)]
      BY <2>2, <3>2, LongerIs DEF new
    <3> QED BY <2>1, <2>3, <3>2, <3>3
  <2>4. CASE i # 0
    <3>1. i * BlockSize >= BlockSize /\ (i - 1) * BlockSize = i * BlockSize - BlockSize
      BY <1>0, <2>4
    <3>2. ~(i * BlockSize + Before(j) < BlockSize)
          /\ i * BlockSize + Before(j) - BlockSize = (i - 1) * BlockSize + Before(j)
      BY <1>0, <2>1, <2>2, <3>1
    <3> HIDE DEF new
    <3>3. new[i * BlockSize + Before(j)] = s[i * BlockSize + Before(j) - BlockSize]
      BY <1>0, <2>1, <2>2, <3>2, LongerIs DEF new
    <3> QED BY <2>4, <3>2, <3>3
  <2> QED BY <2>3, <2>4
<1> HIDE DEF new
<1>2. CASE i = 0
  <2>1. input = [j \in Block |-> input[j]]
    OBVIOUS
  <2> QED BY <1>1, <1>2, <2>1 DEF Past, new
<1>3. CASE i # 0
  BY <1>1, <1>3 DEF Past, new
<1> QED BY <1>2, <1>3

\* Early terms of the signal with the block, and late ones of that before it, are all.
LEMMA EarlyAndLate ==
    ASSUME NEW n \in Nat, NEW s \in Signals(n), NEW input \in [Block -> Int], NEW k \in Block
    PROVE  Sum(Whole(Longer(s, n, input), n, k), Covered(n))
             = Sum(Early(Longer(s, n, input), n, k), Covered(n)) + Sum(Late(s, n, k), Covered(n))
<1> DEFINE new == Longer(s, n, input)
           w == Whole(new, n, k)
           e == Early(new, n, k)
           l == Late(s, n, k)
<1>0. BlockSize \in Nat \ {0} /\ k \in 0 .. BlockSize - 1 /\ Covered(n) \in Nat
  BY ConvolverAssumption, BlocksCover DEF Block
<1>1. new \in Signals(n)
  BY LongerIs
<1>2. Ints(w, Covered(n)) /\ Ints(e, Covered(n)) /\ Ints(l, Covered(n))
  BY <1>1, TermsAreInts
<1>3. ASSUME NEW i \in 0 .. Covered(n) - 1 PROVE w[i] = e[i] + l[i]
  <2>1. w[i] \in Int /\ e[i] \in Int /\ l[i] \in Int
    BY <1>2 DEF Ints
  <2>2. w[i] = IF i < n THEN Coefficient(i) * new[Before(k) + i] ELSE 0
    BY DEF Whole
  <2>3. e[i] = IF i < n /\ i % BlockSize <= k THEN Coefficient(i) * new[Before(k) + i] ELSE 0
    BY DEF Early
  <2>4. l[i] = IF i < n /\ i % BlockSize > k THEN Coefficient(i) * s[i - 1 - k] ELSE 0
    BY DEF Late
  <2>5. i \in Nat /\ i % BlockSize \in 0 .. i
    BY <1>0
  <2>6. CASE i < n /\ i % BlockSize > k
    <3>1. Before(k) + i \in 0 .. n + BlockSize - 1 /\ ~(Before(k) + i < BlockSize)
          /\ Before(k) + i - BlockSize = i - 1 - k
      BY <1>0, <2>5, <2>6 DEF Before
    <3> HIDE DEF new
    <3> DEFINE m == Before(k) + i
    <3>7. m \in 0 .. n + BlockSize - 1 => new[m] = IF m < BlockSize THEN input[BlockSize - 1 - m] ELSE s[m - BlockSize]
      BY LongerIs, Zenon DEF new
    <3>2. new[m] = s[m - BlockSize]
      BY <3>1, <3>7
    <3> HIDE DEF w, e, l
    <3>3. ~(i % BlockSize <= k)
      BY <1>0, <2>5, <2>6
    <3>4. w[i] = l[i] /\ e[i] = 0
      <4>1. w[i] = Coefficient(i) * new[Before(k) + i] /\ l[i] = Coefficient(i) * s[i - 1 - k]
        BY <2>2, <2>4, <2>6
      <4>2. m - BlockSize = i - 1 - k
        BY <1>0, <2>5 DEF Before
      <4>4. new[Before(k) + i] = s[i - 1 - k]
        BY <3>2, <4>2, Zenon
      <4>3. w[i] = l[i]
        BY <4>1, <4>4, Zenon
      <4> QED BY <2>3, <3>3, <4>3
    <3> QED BY <2>1, <3>4
  <2>7. CASE ~(i < n /\ i % BlockSize > k)
    <3>1. i < n => i % BlockSize <= k
      BY <1>0, <2>5, <2>7
    <3> HIDE DEF w, e, l, new
    <3>2. w[i] = e[i] /\ l[i] = 0
      BY <2>2, <2>3, <2>4, <2>7, <3>1
    <3> QED BY <2>1, <3>2
  <2> QED BY <2>6, <2>7
<1> HIDE DEF w, e, l
<1>4. AddsUp(e, l, w, Covered(n))
  BY <1>3 DEF AddsUp
<1>5. Sum(w, Covered(n)) = Sum(e, Covered(n)) + Sum(l, Covered(n))
  BY <1>0, <1>2, <1>4, SumOfBoth
<1> QED BY <1>5 DEF w, e, l

\* The convolution with the kernel, without the zeros that fill its last block.
LEMMA WholeIs ==
    ASSUME NEW n \in Nat, NEW s \in Signals(n), NEW k \in Block
    PROVE  SumFunction([i \in 0 .. n - 1 |-> 2 ^ i * s[BlockSize - 1 - k + i]])
             = Sum(Whole(s, n, k), Covered(n))
<1> DEFINE g == [i \in 0 .. n - 1 |-> 2 ^ i * s[BlockSize - 1 - k + i]]
           w == Whole(s, n, k)
<1>0. Covered(n) \in Nat /\ n \in 0 .. Covered(n)
  BY BlocksCover
<1>1. Ints(w, Covered(n))
  BY TermsAreInts
<1>2. ASSUME NEW i \in 0 .. Covered(n) - 1
      PROVE  w[i] = IF i < n THEN 2 ^ i * s[BlockSize - 1 - k + i] ELSE 0
  BY DEF Whole, Coefficient, Before
<1>3. SumFunction(g) = Sum(g, n)
  <2>1. DOMAIN g = 0 .. n - 1
    OBVIOUS
  <2> HIDE DEF g
  <2> QED BY <2>1, Zenon DEF SumFunction, Sum
<1>4. \A i \in 0 .. n - 1 : g[i] = w[i]
  <2> SUFFICES ASSUME NEW i \in 0 .. n - 1 PROVE g[i] = w[i]
    OBVIOUS
  <2>1. i \in 0 .. Covered(n) - 1 /\ i < n
    BY <1>0
  <2>2. g[i] = 2 ^ i * s[BlockSize - 1 - k + i]
    OBVIOUS
  <2> HIDE DEF g, w
  <2> QED BY <1>2, <2>1, <2>2
<1> HIDE DEF g, w
<1>5. ZeroFrom(w, n, Covered(n))
  BY <1>0, <1>2 DEF ZeroFrom
<1>6. Sum(w, Covered(n)) = Sum(w, n)
  BY <1>0, <1>1, <1>5, SumOfZeros
<1>7. Ints(w, n) /\ Part(g, w, 0, n)
  BY <1>0, <1>1, <1>4 DEF Ints, Part
<1>8. Sum(w, n) = Sum(g, n)
  BY <1>7, SumOfSame
<1> QED BY <1>3, <1>6, <1>8 DEF g, w

\* From p to q the last block moves to the slot of the oldest.
SlotMoved(n, p, q, i) ==
    /\ q \in 0 .. n - 1
    /\ (q - i + n) % n \in 0 .. n - 1
    /\ i = 0 => (q - i + n) % n = q
    /\ i # 0 => (q - i + n) % n # q /\ (q - i + n) % n = (p - (i - 1) + n) % n

LEMMA SlotsMove ==
    ASSUME NEW n \in Nat \ {0}, NEW p \in 0 .. n - 1, NEW i \in 0 .. n - 1,
           NEW q, q = (p + 1) % n
    PROVE  SlotMoved(n, p, q, i)
<1>1. q = IF p + 1 = n THEN 0 ELSE p + 1
  BY SlotIs
<1>2. q \in 0 .. n - 1
  BY <1>1
<1>3. (q - i + n) % n = IF i <= q THEN q - i ELSE q - i + n
  BY <1>2, SlotIs
<1>4. CASE i = 0
  BY <1>2, <1>3, <1>4 DEF SlotMoved
<1>5. CASE i # 0
  <2>1. i - 1 \in 0 .. n - 1
    BY <1>5
  <2>2. (p - (i - 1) + n) % n = IF i - 1 <= p THEN p - (i - 1) ELSE p - (i - 1) + n
    BY <2>1, SlotIs
  <2> QED BY <1>1, <1>2, <1>3, <1>5, <2>2 DEF SlotMoved
<1> QED BY <1>4, <1>5

\* What processBlock gives pffft, and gets from it.
NewSpectra ==
    [i \in 0 .. kernelBlocks - 1 |-> inputFfts'[(inputPos' - i + kernelBlocks) % kernelBlocks]]

LEMMA BlockGives ==
    ASSUME BlockSize \in Nat \ {0}, NEW input, ProcessBlock(input), NEW k \in Block
    PROVE  /\ output'[k] = SumFunction(BlockSums(NewSpectra, k)) + outputTail[k]
           /\ outputTail'[k] = SumFunction(BlockSums(NewSpectra, k + BlockSize)) + 0
<1> DEFINE product(i) ==
               Convolved(KernelBlock(i), inputFfts'[(inputPos' - i + kernelBlocks) % kernelBlocks])
           tmpBlock == [l \in FftBlock |->
               SumFunction([i \in 0 .. kernelBlocks - 1 |-> product(i)[l]])
               + (IF l \in Block THEN outputTail[l] ELSE 0)]
<1>1. output' = [l \in Block |-> tmpBlock[l]] /\ outputTail' = [l \in Block |-> tmpBlock[l + BlockSize]]
  BY DEF ProcessBlock
<1>2. ASSUME NEW l PROVE [i \in 0 .. kernelBlocks - 1 |-> product(i)[l]] = BlockSums(NewSpectra, l)
  BY DEF NewSpectra, BlockSums
<1>3. k \in FftBlock /\ k + BlockSize \in FftBlock /\ k + BlockSize \notin Block
  BY DEF Block, FftBlock
<1>4. tmpBlock = [l \in FftBlock |-> SumFunction(BlockSums(NewSpectra, l))
                                       + (IF l \in Block THEN outputTail[l] ELSE 0)]
  BY <1>2, Zenon
<1> HIDE DEF tmpBlock
<1>5. output'[k] = tmpBlock[k] /\ outputTail'[k] = tmpBlock[k + BlockSize]
  BY <1>1
<1> QED BY <1>3, <1>4, <1>5

LEMMA BlockStep ==
    ASSUME ConvolverInv, NEW input \in [Block -> {0, 1}], ProcessBlock(input)
    PROVE  ConvolverInv'
<1>0. BlockSize \in Nat \ {0}
  BY ConvolverAssumption
<1>1. length \in Nat /\ signal \in Signals(length) /\ calls \in 0 .. 2
  BY DEF ConvolverInv, ConvolverTypes
<1>2. kernelBlocks \in Nat \ {0} /\ inputPos \in 0 .. kernelBlocks - 1
  <2>1. kernelBlocks \in Nat
    BY <1>1, BlocksCover DEF kernelBlocks
  <2>2. kernelBlocks # 0
    BY <2>1 DEF ProcessBlock
  <2> QED BY <2>1, <2>2 DEF ConvolverInv, ConvolverTypes
<1>3. length' = length /\ kernelBlocks' = kernelBlocks
  BY DEF ProcessBlock, kernelBlocks
<1>4. input \in [Block -> Int]
  OBVIOUS
<1>5. signal' = Longer(signal, length, input) /\ signal' \in Signals(length)
  <2>1. DOMAIN signal = 0 .. length + BlockSize - 1
    BY <1>1 DEF Signals
  <2>2. signal' = Longer(signal, length, input)
    BY <2>1 DEF ProcessBlock, Longer
  <2> QED BY <1>1, <1>4, <2>2, LongerIs
<1>6. calls' = IF calls = 2 THEN 2 ELSE calls + 1
  BY DEF ProcessBlock
<1>7. calls' \in 1 .. 2
  BY <1>1, <1>6
<1>8. inputPos' = (inputPos + 1) % kernelBlocks /\ inputPos' \in 0 .. kernelBlocks - 1
  <2>1. inputPos' = (inputPos + 1) % kernelBlocks
    BY DEF ProcessBlock
  <2> QED BY <1>2, <2>1, SlotIs
<1>9. DOMAIN inputFfts = 0 .. kernelBlocks - 1 /\ inputFfts' = [inputFfts EXCEPT ![inputPos'] = Padded(input)]
  BY DEF ConvolverInv, SpectraOfSignal, ProcessBlock
<1>10. ASSUME NEW i \in 0 .. kernelBlocks - 1
       PROVE  inputFfts'[(inputPos' - i + kernelBlocks) % kernelBlocks] = Padded(Past(signal', i))
  <2> DEFINE slot == (inputPos' - i + kernelBlocks) % kernelBlocks
  <2>1. /\ slot \in 0 .. kernelBlocks - 1
        /\ i = 0 => slot = inputPos'
        /\ i # 0 => slot # inputPos' /\ slot = (inputPos - (i - 1) + kernelBlocks) % kernelBlocks
    <3> DEFINE blocks == kernelBlocks
               p == inputPos
               q == inputPos'
    <3>1. blocks \in Nat \ {0} /\ p \in 0 .. blocks - 1 /\ i \in 0 .. blocks - 1 /\ q = (p + 1) % blocks
      BY <1>2, <1>8
    <3> HIDE DEF blocks, p, q
    <3>2. SlotMoved(blocks, p, q, i)
      BY <3>1, SlotsMove
    <3> QED BY <3>2, Zenon DEF blocks, p, q, SlotMoved
  <2>2. Past(signal', i) = IF i = 0 THEN input ELSE Past(signal, i - 1)
    BY <1>1, <1>4, <1>5, PastOfLonger DEF kernelBlocks
  <2> HIDE DEF slot
  <2>3. CASE i = 0
    BY <1>9, <2>1, <2>2, <2>3 DEF slot
  <2>4. CASE i # 0
    <3>1. i - 1 \in 0 .. kernelBlocks - 1
      BY <1>2, <2>4
    <3>2. inputFfts[Slot(inputPos, i - 1)] = Padded(Past(signal, i - 1))
      BY <3>1 DEF ConvolverInv, SpectraOfSignal
    <3>3. slot = Slot(inputPos, i - 1)
      BY <2>1, <2>4 DEF Slot
    <3>4. inputFfts'[slot] = inputFfts[slot]
      BY <1>9, <2>1, <2>4
    <3>5. inputFfts'[slot] = Padded(Past(signal', i))
      BY <2>2, <2>4, <3>2, <3>3, <3>4
    <3> QED BY <3>5 DEF slot
  <2> QED BY <2>3, <2>4
<1>11. SpectraOfSignal'
  <2>1. DOMAIN inputFfts' = 0 .. kernelBlocks - 1
    BY <1>9
  <2> QED BY <1>3, <1>10, <2>1 DEF SpectraOfSignal, Slot
<1>12. ASSUME NEW k \in Block
       PROVE  /\ SumFunction(BlockSums(NewSpectra, k)) = Sum(Early(signal', length, k), Covered(length))
              /\ SumFunction(BlockSums(NewSpectra, k + BlockSize)) = Sum(Late(signal', length, k), Covered(length))
  <2>1. \A i \in 0 .. kernelBlocks - 1 : NewSpectra[i] = Padded(Past(signal', i))
    BY <1>10 DEF NewSpectra
  <2> QED BY <1>1, <1>5, <2>1, SumsOfBlocks
<1>13. ASSUME NEW k \in Block
       PROVE  /\ output'[k] = Sum(Early(signal', length, k), Covered(length)) + outputTail[k]
              /\ outputTail'[k] = Sum(Late(signal', length, k), Covered(length))
              /\ Sum(Early(signal', length, k), Covered(length)) \in Int
              /\ Sum(Late(signal', length, k), Covered(length)) \in Int
              /\ Sum(Late(signal, length, k), Covered(length)) \in Int
  <2>1. Covered(length) \in Nat
    BY <1>1, BlocksCover
  <2>2. /\ Sum(Early(signal', length, k), Covered(length)) \in Int
        /\ Sum(Late(signal', length, k), Covered(length)) \in Int
        /\ Sum(Late(signal, length, k), Covered(length)) \in Int
    BY <1>1, <1>5, <2>1, TermsAreInts, SumIsInt
  <2>3. /\ output'[k] = SumFunction(BlockSums(NewSpectra, k)) + outputTail[k]
        /\ outputTail'[k] = SumFunction(BlockSums(NewSpectra, k + BlockSize)) + 0
    BY <1>0, BlockGives
  <2> QED BY <1>12, <2>2, <2>3
<1>14. oldTail' = IF calls = 0 THEN oldTail ELSE Silent
  BY DEF ProcessBlock
<1>15. ConvolverTypes'
  <2>1. outputTail' \in [Block -> Int]
    <3>1. outputTail' = [k \in Block |-> outputTail'[k]]
      BY DEF ProcessBlock
    <3> QED BY <1>13, <3>1
  <2>2. oldTail' \in [Block -> Int]
    BY <1>14, SilentSamples DEF ConvolverInv, ConvolverTypes, SilentIs
  <2> QED BY <1>1, <1>2, <1>3, <1>5, <1>7, <1>8, <2>1, <2>2 DEF ConvolverTypes
<1>16. Fresh'
  BY <1>2, <1>3, <1>7 DEF Fresh
<1>17. TailOfSignal'
  BY <1>3, <1>7, <1>13 DEF TailOfSignal, Inherited
<1>18. ConvolvesInBlocks'
  <2> SUFFICES ASSUME NEW k \in Block
               PROVE  output'[k] = oldTail'[k] + SumFunction([i \in 0 .. length - 1 |->
                                                                2 ^ i * signal'[BlockSize - 1 - k + i]])
    BY <1>3 DEF ConvolvesInBlocks
  <2>1. outputTail[k] = Inherited(k) + Sum(Late(signal, length, k), Covered(length))
    BY DEF ConvolverInv, TailOfSignal
  <2>2. Inherited(k) = oldTail'[k] /\ Inherited(k) \in Int
    BY <1>14, SilentSamples DEF Inherited, ConvolverInv, ConvolverTypes, SilentIs
  <2>3. SumFunction([i \in 0 .. length - 1 |-> 2 ^ i * signal'[BlockSize - 1 - k + i]])
          = Sum(Whole(signal', length, k), Covered(length))
    BY <1>1, <1>5, WholeIs
  <2>4. Sum(Whole(signal', length, k), Covered(length))
          = Sum(Early(signal', length, k), Covered(length)) + Sum(Late(signal, length, k), Covered(length))
    BY <1>1, <1>4, <1>5, EarlyAndLate
  <2> QED BY <1>13, <2>1, <2>2, <2>3, <2>4
<1> QED BY <1>11, <1>15, <1>16, <1>17, <1>18 DEF ConvolverInv

LEMMA ConvolverStep ==
    ASSUME ConvolverInv, ConvolverNext \/ UNCHANGED convolverVars
    PROVE  ConvolverInv'
<1>1. CASE ConvolverNext
  <2>1. CASE \E n \in KernelLengths : SetKernel(n)
    BY <2>1, KernelStep
  <2>2. CASE ProcessNothing
    BY <2>2, NothingStep
  <2>3. CASE \E input \in [Block -> {0, 1}] : ProcessBlock(input)
    BY <2>3, BlockStep
  <2> QED BY <1>1, <2>1, <2>2, <2>3 DEF ConvolverNext
<1>2. CASE UNCHANGED convolverVars
  <2>1. length' = length /\ kernelBlocks' = kernelBlocks
    BY <1>2 DEF convolverVars, kernelBlocks
  <2>2. /\ inputFfts' = inputFfts /\ inputPos' = inputPos /\ outputTail' = outputTail
        /\ output' = output /\ calls' = calls /\ oldTail' = oldTail /\ signal' = signal
    BY <1>2 DEF convolverVars
  <2>3. ConvolverTypes' /\ Fresh' /\ SpectraOfSignal'
    BY <2>1, <2>2 DEF ConvolverInv, ConvolverTypes, Fresh, SpectraOfSignal, Slot
  <2>4. TailOfSignal' /\ ConvolvesInBlocks'
    BY <2>1, <2>2 DEF ConvolverInv, TailOfSignal, Inherited, ConvolvesInBlocks
  <2> QED BY <2>3, <2>4 DEF ConvolverInv
<1> QED BY <1>1, <1>2

ConvolverSpec == ConvolverInit /\ [][ConvolverNext]_convolverVars

\* Whatever kernels are set and whatever blocks come, of any size, each block
\* that goes out is the convolution of the whole kernel with the whole signal.
THEOREM KernelConvolves == ConvolverSpec => []ConvolvesInBlocks
<1>1. ConvolverInv /\ [ConvolverNext]_convolverVars => ConvolverInv'
  BY ConvolverStep
<1>2. ConvolverInv => ConvolvesInBlocks
  BY DEF ConvolverInv
<1> QED BY ConvolverStarts, <1>1, <1>2, PTL DEF ConvolverSpec

-----------------------------------------------------------------------------
(***************************************************************************)
(* All of them.                                                            *)
(***************************************************************************)

\* A step of one is a step of it, and one that the others do not see.
LEMMA HelpersStep ==
    ASSUME [HelpersNext]_vars
    PROVE  /\ [RingsNext]_ringVars         /\ [EdgeNext]_edgeVars
           /\ [PulseNext]_pulseVars        /\ [DividerNext]_dividerVars
           /\ [DecimatorNext]_decimatorVars /\ [UpsamplerNext]_upsamplerVars
           /\ [BlepNext]_blepVars          /\ [PortNext]_portVars
           /\ [ConverterNext]_converterVars /\ [ConfigNext]_configVars
           /\ [SysExNext]_sysexVars        /\ [ConvolverNext]_convolverVars
<1>1. CASE UNCHANGED vars
  BY <1>1 DEF vars
<1>2. CASE HelpersNext
  <2>1. RingsNext \/ UNCHANGED ringVars
    BY <1>2 DEF HelpersNext
  <2>2. EdgeNext \/ UNCHANGED edgeVars
    BY <1>2 DEF HelpersNext
  <2>3. PulseNext \/ UNCHANGED pulseVars
    BY <1>2 DEF HelpersNext
  <2>4. DividerNext \/ UNCHANGED dividerVars
    BY <1>2 DEF HelpersNext
  <2>5. DecimatorNext \/ UNCHANGED decimatorVars
    BY <1>2 DEF HelpersNext
  <2>6. UpsamplerNext \/ UNCHANGED upsamplerVars
    BY <1>2 DEF HelpersNext
  <2>7. BlepNext \/ UNCHANGED blepVars
    BY <1>2 DEF HelpersNext
  <2>8. PortNext \/ UNCHANGED portVars
    BY <1>2 DEF HelpersNext
  <2>9. ConverterNext \/ UNCHANGED converterVars
    BY <1>2 DEF HelpersNext
  <2>10. ConfigNext \/ UNCHANGED configVars
    BY <1>2 DEF HelpersNext
  <2>11. SysExNext \/ UNCHANGED sysexVars
    BY <1>2 DEF HelpersNext
  <2>12. ConvolverNext \/ UNCHANGED convolverVars
    BY <1>2 DEF HelpersNext
  <2> QED BY <2>1, <2>2, <2>3, <2>4, <2>5, <2>6, <2>7, <2>8, <2>9, <2>10, <2>11, <2>12
<1> QED BY <1>1, <1>2

\* Each of them behaves as it does alone.
LEMMA HelpersAlone ==
    HelpersSpec => /\ RingsSpec /\ EdgeSpec /\ PulseSpec /\ DividerSpec /\ DecimatorSpec
                   /\ UpsamplerSpec /\ BlepSpec /\ PortSpec /\ ConverterSpec /\ ConfigSpec
                   /\ SysExSpec /\ ConvolverSpec
<1>1. HelpersInit => /\ RingsInit /\ EdgeInit /\ PulseInit /\ DividerInit /\ DecimatorInit
                     /\ UpsamplerInit /\ BlepInit /\ PortInit /\ ConverterInit /\ ConfigInit
                     /\ SysExInit /\ ConvolverInit
  BY DEF HelpersInit
<1> QED BY <1>1, HelpersStep, PTL
        DEF HelpersSpec, RingsSpec, EdgeSpec, PulseSpec, DividerSpec, DecimatorSpec,
            UpsamplerSpec, BlepSpec, PortSpec, ConverterSpec, ConfigSpec, SysExSpec,
            ConvolverSpec

\* The types of the helpers and their invariants, of all together.
THEOREM HelpersSafety ==
    HelpersSpec => [](/\ HelpersTypeOK /\ Mirrored /\ TriggersOncePerCrossing
                      /\ OncePerDivision /\ FiltersConvolve /\ ConvertsAsAsked
                      /\ InfosOwnTheirObjects /\ FirstRouteStays /\ PayloadArrives
                      /\ ConvolvesInBlocks)
<1>1. RingsTypeOK /\ EdgeTypeOK /\ PulseTypes /\ DividerTypes /\ PortTypeOK => HelpersTypeOK
  BY DEF HelpersTypeOK, PulseTypes, DividerTypes, PulseTypeOK
<1> QED BY <1>1, HelpersAlone, RingsSafety, EdgesTrigger, PulseBounds, DividerTicks,
           FiltersAreConvolutions, ConverterIsInStep, ConfigSafety, PortTypes, PayloadsArrive,
           KernelConvolves, PTL

\* And what the steps of the helpers promise, the queues and the jack they implement
\* among it.
THEOREM HelpersPromises ==
    HelpersSpec => /\ ImplementsQueue /\ AppleIsQueue /\ MovesAreRare /\ LastsAsAsked
                   /\ OverlapAdd /\ LikeNativeJack
BY HelpersAlone, RingsRefinement, RareMoves, PulsesLast, JumpsAdd, PortRefinement, PTL
=============================================================================
