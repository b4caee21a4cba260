---------------------------- MODULE RackHelpers ----------------------------
(***************************************************************************)
(* The helper classes of the Rack interface that one thread uses alone.      *)
(* They share nothing, so a behaviour exercises one of them, the `subject`,  *)
(* and leaves the others as they began.                                     *)
(***************************************************************************)
EXTENDS ContiguousRings, EdgeDetectors, PulseAndDivider, DelayLines,
        RackPort, RateConverter, ModuleConfig, SysEx, Convolver

VARIABLE subject

vars == <<ringVars, edgeVars, pulseVars, dividerVars, decimatorVars, upsamplerVars,
          blepVars, portVars, converterVars, configVars, sysexVars, convolverVars, subject>>

HelpersInit ==
    /\ RingsInit /\ EdgeInit /\ PulseInit /\ DividerInit /\ DecimatorInit
    /\ UpsamplerInit /\ BlepInit /\ PortInit /\ ConverterInit /\ ConfigInit
    /\ SysExInit /\ ConvolverInit
    /\ subject \in {"rings", "edges", "pulse", "divider", "decimator", "upsampler",
                   "minblep", "port", "converter", "config", "sysex",
                   "convolver"}

HelpersNext ==
    /\ \/ subject = "rings"     /\ RingsNext
       \/ subject = "edges"     /\ EdgeNext
       \/ subject = "pulse"     /\ PulseNext
       \/ subject = "divider"   /\ DividerNext
       \/ subject = "decimator" /\ DecimatorNext
       \/ subject = "upsampler" /\ UpsamplerNext
       \/ subject = "minblep"   /\ BlepNext
       \/ subject = "port"      /\ PortNext
       \/ subject = "converter" /\ ConverterNext
       \/ subject = "config"    /\ ConfigNext
       \/ subject = "sysex"     /\ SysExNext
       \/ subject = "convolver" /\ ConvolverNext
    /\ UNCHANGED subject
    /\ subject # "rings"     => UNCHANGED ringVars
    /\ subject # "edges"     => UNCHANGED edgeVars
    /\ subject # "pulse"     => UNCHANGED pulseVars
    /\ subject # "divider"   => UNCHANGED dividerVars
    /\ subject # "decimator" => UNCHANGED decimatorVars
    /\ subject # "upsampler" => UNCHANGED upsamplerVars
    /\ subject # "minblep"   => UNCHANGED blepVars
    /\ subject # "port"      => UNCHANGED portVars
    /\ subject # "converter" => UNCHANGED converterVars
    /\ subject # "config"    => UNCHANGED configVars
    /\ subject # "sysex"     => UNCHANGED sysexVars
    /\ subject # "convolver" => UNCHANGED convolverVars

HelpersSpec == HelpersInit /\ [][HelpersNext]_vars

-----------------------------------------------------------------------------
(***************************************************************************)
(* Properties.                                                             *)
(***************************************************************************)
HelpersTypeOK == RingsTypeOK /\ EdgeTypeOK /\ PulseTypeOK /\ PortTypeOK
=============================================================================
