--------------------------- MODULE RateConverter ---------------------------
(***************************************************************************)
(* SampleRateConverter (dsp/resampler.hpp): a resampler of the speex        *)
(* library, kept in step with four settings.  The library is external: it   *)
(* makes resamplers for given settings, at addresses that are reused, and   *)
(* may fail to.                                                             *)
(***************************************************************************)
EXTENDS Integers

CONSTANTS Resamplers,     \* addresses
          NoResampler,    \* nullptr
          MaxSrcChannels,                     \* MAX_CHANNELS
          Qualities, Rates,                   \* arguments of the setters
          DefaultQuality, DefaultRate         \* SPEEX_RESAMPLER_QUALITY_DEFAULT, 44100

ASSUME ConverterAssumption ==
    /\ NoResampler \notin Resamplers
    /\ MaxSrcChannels \in Nat \ {0}
    /\ DefaultQuality \in Qualities /\ DefaultRate \in Rates

VARIABLES st,             \* the member `st`
          settings,       \* the members channels, quality, inRate, outRate
          made,           \* the library: the settings of each resampler there is
          asked,          \* the caller: the settings it asked for last
          failed          \* whether the library failed in the last refreshState()

converterVars == <<st, settings, made, asked, failed>>

Defaults == [channels |-> MaxSrcChannels, quality |-> DefaultQuality,
             inRate |-> DefaultRate, outRate |-> DefaultRate]

\* Whether there is anything to convert.
Converts(s) == s.channels > 0 /\ s.inRate # s.outRate

ConverterInit ==
    /\ settings = Defaults
    /\ asked = Defaults
    /\ st = NoResampler
    /\ made = [h \in {} |-> Defaults]
    /\ failed = FALSE

\* refreshState() with the members as they are now: the resampler there was is
\* destroyed, and if there is something to convert another one is made.
RefreshState(s) ==
    LET left == DOMAIN made \ {st} IN
    \/ /\ Converts(s)
       /\ \E h \in Resamplers \ left :
            /\ st' = h
            /\ made' = [r \in left \union {h} |-> IF r = h THEN s ELSE made[r]]
       /\ failed' = FALSE
    \/ /\ st' = NoResampler
       /\ made' = [r \in left |-> made[r]]
       /\ failed' = Converts(s)

\* The end of each setter.
Store(s) ==
    /\ settings' = s
    /\ asked' = s
    /\ RefreshState(s)

SetConverterChannels(n) ==
    /\ n # settings.channels
    /\ Store([settings EXCEPT !.channels = n])

SetQuality(q) ==
    /\ q # settings.quality
    /\ Store([settings EXCEPT !.quality = q])

\* Mutated SetRates: it returns early if either of the rates is the same.
SetRatesBoth(in, out) ==
    IF in # settings.inRate /\ out # settings.outRate
    THEN Store([settings EXCEPT !.inRate = in, !.outRate = out])
    ELSE /\ asked' = [asked EXCEPT !.inRate = in, !.outRate = out]
         /\ UNCHANGED <<st, settings, made, failed>>

\* It returns early if both are the same.
SetRates(in, out) ==
    IF in # settings.inRate \/ out # settings.outRate
    THEN Store([settings EXCEPT !.inRate = in, !.outRate = out])
    ELSE /\ asked' = [asked EXCEPT !.inRate = in, !.outRate = out]
         /\ UNCHANGED <<st, settings, made, failed>>

ConverterNext ==
    \/ \E n \in 0 .. MaxSrcChannels : SetConverterChannels(n)
    \/ \E q \in Qualities : SetQuality(q)
    \/ \E in, out \in Rates : SetRates(in, out)

ConverterSpec == ConverterInit /\ [][ConverterNext]_converterVars

-----------------------------------------------------------------------------
(***************************************************************************)
(* Properties.                                                             *)
(***************************************************************************)
\* However the settings change, the library's resamplers are the converter's one
\* or none, as refreshState() destroys what it replaces; the one is made for the
\* settings asked for last, by whichever setters, and it is there whenever these
\* call for one and the library did not fail.
ConvertsAsAsked ==
    /\ DOMAIN made = {st} \ {NoResampler}
    /\ st # NoResampler => made[st] = asked
    /\ st # NoResampler <=> Converts(asked) /\ ~failed
=============================================================================
