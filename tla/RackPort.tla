------------------------------ MODULE RackPort ------------------------------
(***************************************************************************)
(* rack::engine::Port (engine/Port.hpp), an output of a Rack module: the    *)
(* engine connects and disconnects it, the module writes voltages and       *)
(* declares channels.  The engine is firmware.  From setChannels, which      *)
(* leaves a port with 0 channels alone, it is the engine that makes the     *)
(* count 0 or takes it from there; it is taken to leave the voltages as      *)
(* they are, the case in which most could go wrong.                         *)
(***************************************************************************)
EXTENDS Integers

CONSTANTS PortMaxChannels,    \* PORT_MAX_CHANNELS
          PortVolts           \* voltages, 0 among them

ASSUME PortAssumption == PortMaxChannels \in Nat \ {0} /\ 0 \in PortVolts

VARIABLES voltages, channels,     \* the members of Port
          connected,              \* whether a cable is there
          source, left            \* the argument of writeVoltages, and in its loop
                                  \* the number of channels still to be written

portVars == <<voltages, channels, connected, source, left>>

PortChannels == 0 .. PortMaxChannels - 1
Quiet        == [c \in PortChannels |-> 0]

PortInit ==
    /\ voltages = Quiet
    /\ channels = 0
    /\ connected = FALSE
    /\ source = Quiet
    /\ left = 0

\* The engine, between two calls of process().
Connect ==
    /\ left = 0
    /\ channels' = IF channels = 0 THEN 1 ELSE channels
    /\ connected' = TRUE
    /\ UNCHANGED <<voltages, source, left>>

Disconnect ==
    /\ left = 0
    /\ channels' = 0
    /\ connected' = FALSE
    /\ UNCHANGED <<voltages, source, left>>

\* setVoltage(v, c); a channel out of range is ignored.
SetVoltage(v, c) ==
    /\ left = 0
    /\ voltages' = IF c \in PortChannels THEN [voltages EXCEPT ![c] = v] ELSE voltages
    /\ UNCHANGED <<channels, connected, source, left>>

\* writeVoltages(volts), and clearVoltages() with 0 for each: the channels below
\* the count, one after the other.
WriteVoltages(volts) ==
    /\ left = 0
    /\ source' = volts
    /\ left' = channels
    /\ UNCHANGED <<voltages, channels, connected>>

WriteNext ==
    /\ left > 0
    /\ voltages' = [voltages EXCEPT ![channels - left] = source[channels - left]]
    /\ left' = left - 1
    /\ UNCHANGED <<channels, connected, source>>

\* Mutated SetPortChannels: the first channel above the new count keeps its voltage.
SetPortChannelsOneLate(n) ==
    /\ left = 0
    /\ channels # 0
    /\ voltages' = [c \in PortChannels |->
                      IF c \in n + 1 .. channels - 1 THEN 0 ELSE voltages[c]]
    /\ channels' = IF n < 1 THEN 1 ELSE IF n > PortMaxChannels THEN PortMaxChannels ELSE n
    /\ UNCHANGED <<connected, source, left>>

\* setChannels(n): the channels from n up to the old count are zeroed, and the
\* new one is clamped; a port that is not connected stays so.
SetPortChannels(n) ==
    /\ left = 0
    /\ channels # 0
    /\ voltages' = [c \in PortChannels |-> IF c \in n .. channels - 1 THEN 0 ELSE voltages[c]]
    /\ channels' = IF n < 1 THEN 1 ELSE IF n > PortMaxChannels THEN PortMaxChannels ELSE n
    /\ UNCHANGED <<connected, source, left>>

PortNext ==
    \/ Connect
    \/ Disconnect
    \/ \E v \in PortVolts, c \in 0 .. PortMaxChannels : SetVoltage(v, c)
    \/ \E volts \in [PortChannels -> PortVolts] : WriteVoltages(volts)
    \/ WriteNext
    \/ \E n \in 0 .. PortMaxChannels + 1 : SetPortChannels(n)

PortSpec == PortInit /\ [][PortNext]_portVars

-----------------------------------------------------------------------------
(***************************************************************************)
(* Properties.                                                             *)
(***************************************************************************)
PortTypeOK ==
    /\ voltages \in [PortChannels -> PortVolts]
    /\ channels \in 0 .. PortMaxChannels
    /\ connected \in BOOLEAN
    /\ source \in [PortChannels -> PortVolts]
    /\ left \in 0 .. channels

\* The port is an output jack of a native polyphonic module: whatever sequence
\* of calls either gets, counts and voltages are the same.  In particular a count
\* is 0 exactly while no cable is there, and a channel that setChannels brings
\* back holds 0 V if an earlier call took it away.
Native == INSTANCE SmartCorePoly WITH
    Inputs <- {}, Outputs <- {"jack"}, Volts <- PortVolts, Unplugged <- "unplugged",
    Routes <- <<>>, MaxPolyChannels <- PortMaxChannels, LateInput <- FALSE,
    inputValues <- [i \in {} |-> 0], inputChannels <- [i \in {} |-> 0],
    outputValues <- [o \in {"jack"} |-> voltages],
    outputChannels <- [o \in {"jack"} |-> channels],
    bypassed <- FALSE, cabledIn <- {}, sent <- [i \in {} |-> 0],
    cabledOut <- IF connected THEN {"jack"} ELSE {}
LikeNativeJack == Native!Spec
=============================================================================
