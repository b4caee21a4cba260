-------------------------- MODULE PulseAndDivider --------------------------
(***************************************************************************)
(* PulseGenerator and ClockDivider of dsp/digital.hpp, and what their       *)
(* caller asked of them.  Time is counted in units of which every duration   *)
(* and every length of a sample is a whole number.                          *)
(***************************************************************************)
EXTENDS Integers, Sequences

CONSTANTS MaxDuration,    \* bound: the longest pulse asked for
          SampleTimes,    \* the lengths of a sample at the sample rates there are
          MaxDivision     \* bound: the largest division

ASSUME PulseAssumption == MaxDuration \in Nat /\ SampleTimes \subseteq Nat
ASSUME DivisionAssumption == MaxDivision \in Nat \ {0}

VARIABLES
    remaining,      \* PulseGenerator::remaining
    high,           \* what its process() returned last
    owed,           \* for each pulse asked for, how long it has still to last
    clock, division,    \* the members of ClockDivider
    ticks           \* what process() returned, last first, since setDivision or reset

pulseVars   == <<remaining, high, owed>>
dividerVars == <<clock, division, ticks>>

-----------------------------------------------------------------------------
PulseInit == remaining = 0 /\ high = FALSE /\ owed = {}

\* Mutated Trigger: the new pulse replaces the one that is on.
TriggerReplaces(duration) ==
    /\ remaining' = duration
    /\ owed' = owed \union ({duration} \ {0})
    /\ UNCHANGED high

\* trigger(duration)
Trigger(duration) ==
    /\ remaining' = IF duration > remaining THEN duration ELSE remaining
    /\ owed' = owed \union ({duration} \ {0})
    /\ UNCHANGED high

\* process(deltaTime)
ProcessPulse(deltaTime) ==
    /\ high' = (remaining > 0)
    /\ remaining' = IF remaining > 0 THEN remaining - deltaTime ELSE remaining
    /\ owed' = {d \in {o - deltaTime : o \in owed} : d > 0}

ResetPulse ==
    /\ remaining' = 0 /\ owed' = {}
    /\ UNCHANGED high

PulseNext ==
    \/ \E duration \in 0 .. MaxDuration : Trigger(duration)
    \/ \E deltaTime \in SampleTimes : ProcessPulse(deltaTime)
    \/ ResetPulse

PulseSpec == PulseInit /\ [][PulseNext]_pulseVars

-----------------------------------------------------------------------------
DividerInit == clock = 0 /\ division = 1 /\ ticks = <<>>

\* setDivision(d): the clock goes on from where it is.
SetDivision(d) ==
    /\ division' = d
    /\ ticks' = <<>>
    /\ UNCHANGED clock

\* Mutated Ticks: a clock that is past a division set meanwhile never reaches it.
TicksAtDivision == clock + 1 = division

Ticks == clock + 1 >= division

\* process()
ProcessDivider ==
    /\ clock' = IF Ticks THEN 0 ELSE clock + 1
    /\ ticks' = <<Ticks>> \o (IF Len(ticks) < MaxDivision THEN ticks
                              ELSE SubSeq(ticks, 1, MaxDivision - 1))
    /\ UNCHANGED division

ResetDivider ==
    /\ clock' = 0
    /\ ticks' = <<>>
    /\ UNCHANGED division

DividerNext ==
    \/ \E d \in 0 .. MaxDivision : SetDivision(d)
    \/ ProcessDivider
    \/ ResetDivider

-----------------------------------------------------------------------------
(***************************************************************************)
(* Properties.                                                             *)
(***************************************************************************)
\* What a pulse takes of the sample that ends it is some of it: less is left over.
BelowZero == remaining < 0 => \E deltaTime \in SampleTimes : remaining + deltaTime > 0

PulseTypeOK ==
    /\ remaining \in Int /\ remaining <= MaxDuration /\ BelowZero
    /\ high \in BOOLEAN /\ owed \subseteq 1 .. MaxDuration
    /\ clock \in 0 .. MaxDivision - 1 /\ division \in 0 .. MaxDivision
    /\ ticks \in Seq(BOOLEAN)

\* process() returns true exactly while one of the pulses asked for has time left:
\* a shorter one does not cut a longer one short, and what is left below zero at
\* the end of one is not taken from the next.
LastsAsAsked ==
    [][\A deltaTime \in SampleTimes :
         ProcessPulse(deltaTime) => (high' <=> owed # {})]_pulseVars

\* From when a division is set, in the middle of a count too, any `division` calls
\* of process() in a row tick exactly once.
OncePerDivision ==
    LET period == IF division = 0 THEN 1 ELSE division IN
    Len(ticks) >= period =>
        \E k \in 1 .. period : {j \in 1 .. period : ticks[j]} = {k}
=============================================================================
