--------------------------- MODULE EdgeDetectors ---------------------------
(***************************************************************************)
(* BooleanTrigger and the two forms of TSchmittTrigger of dsp/digital.hpp,  *)
(* the one for floats and the vectorised one (one lane of it), fed with the *)
(* same inputs.  With the thresholds of the call an input is at or above    *)
(* the high one, at or below the low one, or between; thresholds may change *)
(* from call to call, the low one is below the high one.                    *)
(***************************************************************************)
EXTENDS Integers, Sequences, FiniteSetsExt

CONSTANT MaxReadings      \* bound: inputs fed after a reset

ASSUME ReadingsAssumption == MaxReadings \in Nat

VARIABLES
    schmitt, boolean,     \* the member `s` of the one for floats and of BooleanTrigger
    lane,                 \* the lane of `state`
    returned,             \* which call was the last, and what it returned on each
    readings              \* the inputs since the last reset

edgeVars == <<schmitt, boolean, lane, returned, readings>>

Readings == {"low", "between", "high"}
States == {"LOW", "HIGH", "UNINITIALIZED"}
Events == {"NONE", "TRIGGERED", "UNTRIGGERED"}
Calls == {"reset", "process", "processEvent"}

\* A call of process() or processEvent(): the `s` it leaves and what it returns, a
\* process() that returns true being TRIGGERED and one that returns false NONE.
Result(s, event) == [s |-> s, event |-> event]

\* TSchmittTrigger<float>::process
SchmittProcess(s, in) ==
    CASE s = "LOW" /\ in = "high"           -> Result("HIGH", "TRIGGERED")
      [] s = "HIGH" /\ in = "low"           -> Result("LOW", "NONE")
      [] s = "UNINITIALIZED" /\ in = "high" -> Result("HIGH", "NONE")
      [] s = "UNINITIALIZED" /\ in = "low"  -> Result("LOW", "NONE")
      [] OTHER                              -> Result(s, "NONE")

\* Mutated SchmittProcessEvent: it tells of rising edges only, as process() does.
SchmittProcessRises(s, in) == SchmittProcess(s, in)

\* TSchmittTrigger<float>::processEvent
SchmittProcessEvent(s, in) ==
    CASE s = "LOW" /\ in = "high"           -> Result("HIGH", "TRIGGERED")
      [] s = "HIGH" /\ in = "low"           -> Result("LOW", "UNTRIGGERED")
      [] s = "UNINITIALIZED" /\ in = "high" -> Result("HIGH", "NONE")
      [] s = "UNINITIALIZED" /\ in = "low"  -> Result("LOW", "NONE")
      [] OTHER                              -> Result(s, "NONE")

\* BooleanTrigger::process and processEvent: the input is whether it is high.
BooleanNext(in) == IF in = "high" THEN "HIGH" ELSE "LOW"

BooleanProcess(s, in) ==
    Result(BooleanNext(in), IF s = "LOW" /\ in = "high" THEN "TRIGGERED" ELSE "NONE")

BooleanProcessEvent(s, in) ==
    Result(BooleanNext(in), CASE s = "LOW" /\ in = "high"  -> "TRIGGERED"
                              [] s = "HIGH" /\ in # "high" -> "UNTRIGGERED"
                              [] OTHER                     -> "NONE")

\* state = on | (state & ~off)
LaneNext(state, in) == in = "high" \/ (state /\ in # "low")

NoneReturned == [call |-> "reset", schmitt |-> "NONE", boolean |-> "NONE", lane |-> FALSE]

EdgeInit ==
    /\ schmitt = "UNINITIALIZED" /\ boolean = "UNINITIALIZED" /\ lane = FALSE
    /\ returned = NoneReturned
    /\ readings = <<>>

\* A call on each of the three; the vectorised trigger has process() only.
Feed(in, call, onSchmitt, onBoolean) ==
    /\ Len(readings) < MaxReadings
    /\ readings' = Append(readings, in)
    /\ schmitt' = onSchmitt.s
    /\ boolean' = onBoolean.s
    /\ lane' = LaneNext(lane, in)
    /\ returned' = [call |-> call, schmitt |-> onSchmitt.event, boolean |-> onBoolean.event,
                    lane |-> ~lane /\ in = "high"]

Process(in) ==
    Feed(in, "process", SchmittProcess(schmitt, in), BooleanProcess(boolean, in))

\* A caller may mix the two: they share `s`.
ProcessEvent(in) ==
    Feed(in, "processEvent", SchmittProcessEvent(schmitt, in), BooleanProcessEvent(boolean, in))

EdgeReset ==
    /\ schmitt' = "UNINITIALIZED" /\ boolean' = "UNINITIALIZED" /\ lane' = FALSE
    /\ returned' = NoneReturned
    /\ readings' = <<>>

EdgeNext == EdgeReset \/ \E in \in Readings : Process(in) \/ ProcessEvent(in)

EdgeTypeOK ==
    /\ schmitt \in States /\ boolean \in States /\ lane \in BOOLEAN
    /\ returned \in [call: Calls, schmitt: Events, boolean: Events, lane: BOOLEAN]
    /\ readings \in Seq(Readings)

-----------------------------------------------------------------------------
(***************************************************************************)
(* Properties.                                                             *)
(***************************************************************************)
\* The last input before the k-th that crossed a threshold, "between" if none did.
LastCrossing(k) ==
    LET crossings == {j \in 1 .. k - 1 : readings[j] # "between"}
    IN  IF crossings = {} THEN "between" ELSE readings[Max(crossings)]

Rises(k) == readings[k] = "high" /\ LastCrossing(k) = "low"
Falls(k) == readings[k] = "low" /\ LastCrossing(k) = "high"

\* A rise is reported, by either call, exactly for an input that reaches the high
\* threshold when the last to cross one reached the low one, so never for noise
\* between the two and never for an input that is high from the start.  Likewise the
\* way down, which processEvent() reports every time and process() never; and
\* BooleanTrigger, whose threshold is one.  isHigh() is what the last crossing says.
\* The vectorised trigger reports rises as the one for floats, and reports an input
\* that is high from the start.
TriggersOncePerCrossing ==
    LET n       == Len(readings)
        byEvent == returned.call = "processEvent"
    IN  n > 0 =>
        /\ returned.schmitt = "TRIGGERED" <=> Rises(n)
        /\ returned.schmitt = "UNTRIGGERED" <=> byEvent /\ Falls(n)
        /\ returned.boolean = "TRIGGERED" <=>
             n > 1 /\ readings[n] = "high" /\ readings[n - 1] # "high"
        /\ returned.boolean = "UNTRIGGERED" <=>
             byEvent /\ n > 1 /\ readings[n] # "high" /\ readings[n - 1] = "high"
        /\ schmitt = "HIGH" <=> LastCrossing(n + 1) = "high"
        /\ returned.lane <=>
             Rises(n) \/ (readings[n] = "high" /\ LastCrossing(n) = "between")
        /\ lane <=> schmitt = "HIGH"
=============================================================================
