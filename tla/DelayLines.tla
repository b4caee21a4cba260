----------------------------- MODULE DelayLines -----------------------------
(***************************************************************************)
(* The rings under Decimator and Upsampler (dsp/resampler.hpp) and          *)
(* MinBlepGenerator (dsp/minblep.hpp).  A filter multiplies what is in its  *)
(* ring with a kernel and adds up; which sample, or which part of which      *)
(* jump, meets which coefficient is all that can go wrong, so the products   *)
(* are left out: a ring holds samples, and a slot of the MinBlepGenerator,   *)
(* for each coefficient, how many jumps have added it.                      *)
(***************************************************************************)
EXTENDS Integers, SequencesExt

CONSTANTS Oversample, Quality,    \* OVERSAMPLE and QUALITY
          Zeros,                  \* Z of MinBlepGenerator
          Samples,                \* samples, 0 among them
          MaxJumps                \* bound: jumps in one frame

ASSUME LineAssumption ==
    /\ {Oversample, Quality, Zeros} \subseteq Nat \ {0}
    /\ 0 \in Samples
    /\ MaxJumps \in Nat

VARIABLES
    decBuffer, decIndex,    \* Decimator::inBuffer, inIndex
    decInputs,              \* the samples given to it, the last one first
    upBuffer, upIndex,      \* Upsampler::inBuffer, inIndex
    upInputs,               \* the samples given to it, the last one first
    buf, pos,               \* MinBlepGenerator::buf, pos
    played,                 \* what its process() returned last
    jumps                   \* the jumps inserted in each of the last frames

decimatorVars == <<decBuffer, decIndex, decInputs>>
upsamplerVars == <<upBuffer, upIndex, upInputs>>
blepVars      == <<buf, pos, played, jumps>>

Taps   == Oversample * Quality        \* the length of the kernels
Frames == 2 * Zeros                   \* the length of buf

-----------------------------------------------------------------------------
DecimatorInit ==
    /\ decBuffer = [k \in 0 .. Taps - 1 |-> 0]
    /\ decIndex = 0
    /\ decInputs = [k \in 1 .. Taps |-> 0]

\* Decimator::process(in): Oversample samples go in.
Decimate(in) ==
    /\ decBuffer' = [k \in 0 .. Taps - 1 |->
         IF k \in decIndex .. decIndex + Oversample - 1 THEN in[k - decIndex + 1] ELSE decBuffer[k]]
    /\ decIndex' = (decIndex + Oversample) % Taps
    /\ decInputs' = SubSeq(Reverse(in) \o decInputs, 1, Taps)

\* The sample that the convolution multiplies with kernel[i].
DecimatorTap(i) == decBuffer[(decIndex - 1 - i + Taps) % Taps]

DecimatorReset == decBuffer' = [k \in 0 .. Taps - 1 |-> 0] /\ decIndex' = 0
                  /\ decInputs' = [k \in 1 .. Taps |-> 0]

DecimatorNext == DecimatorReset \/ \E in \in [1 .. Oversample -> Samples] : Decimate(in)

-----------------------------------------------------------------------------
UpsamplerInit ==
    /\ upBuffer = [k \in 0 .. Quality - 1 |-> 0]
    /\ upIndex = 0
    /\ upInputs = [k \in 1 .. Quality |-> 0]

\* Upsampler::process(in): one sample goes in, Oversample come out.
Upsample(in) ==
    /\ upBuffer' = [upBuffer EXCEPT ![upIndex] = in]
    /\ upIndex' = (upIndex + 1) % Quality
    /\ upInputs' = SubSeq(<<in>> \o upInputs, 1, Quality)

UpsamplerReset == upBuffer' = [k \in 0 .. Quality - 1 |-> 0] /\ upIndex' = 0
                  /\ upInputs' = [k \in 1 .. Quality |-> 0]

\* Mutated UpsamplerTaps: the phases are taken from the far end of the kernel.
UpsamplerTapsFromEnd(i) ==
    [k \in {Oversample * j + Oversample - 1 - i : j \in 0 .. Quality - 1} |->
        upBuffer[(upIndex - 1 - (k \div Oversample) + Quality) % Quality]]

\* For the i-th sample that comes out, the coefficients the inner loop uses, and
\* the sample it multiplies with each.
UpsamplerTaps(i) ==
    [k \in {Oversample * j + i : j \in 0 .. Quality - 1} |->
        upBuffer[(upIndex - 1 - (k \div Oversample) + Quality) % Quality]]

UpsamplerNext == UpsamplerReset \/ \E in \in Samples : Upsample(in)

-----------------------------------------------------------------------------
Nothing == [j \in 0 .. Frames - 1 |-> 0]

BlepInit ==
    /\ buf = [k \in 0 .. Frames - 1 |-> Nothing]
    /\ pos = 0
    /\ played = Nothing
    /\ jumps = Nothing

\* insertDiscontinuity: its j-th coefficient goes to the frame j ahead.
InsertDiscontinuity ==
    /\ jumps[0] < MaxJumps
    /\ buf' = [k \in 0 .. Frames - 1 |->
         [buf[k] EXCEPT ![(k - pos + Frames) % Frames] = @ + 1]]
    /\ jumps' = [jumps EXCEPT ![0] = @ + 1]
    /\ UNCHANGED <<pos, played>>

\* Mutated ProcessBlep: the slot is not cleared for the frame a ring later.
ProcessBlepKeeps ==
    /\ played' = buf[pos]
    /\ pos' = (pos + 1) % Frames
    /\ jumps' = [a \in 0 .. Frames - 1 |-> IF a = 0 THEN 0 ELSE jumps[a - 1]]
    /\ UNCHANGED buf

\* MinBlepGenerator::process()
ProcessBlep ==
    /\ played' = buf[pos]
    /\ buf' = [buf EXCEPT ![pos] = Nothing]
    /\ pos' = (pos + 1) % Frames
    /\ jumps' = [a \in 0 .. Frames - 1 |-> IF a = 0 THEN 0 ELSE jumps[a - 1]]

BlepNext == InsertDiscontinuity \/ ProcessBlep

-----------------------------------------------------------------------------
(***************************************************************************)
(* Properties.                                                             *)
(***************************************************************************)
\* The signal that came in, with Oversample - 1 zeros after each sample, k samples
\* before the i-th that comes out now.
Stuffed(i, k) ==
    IF k >= i /\ (k - i) % Oversample = 0 THEN upInputs[((k - i) \div Oversample) + 1] ELSE 0

\* Both are convolutions, over the wraps of their rings too.  In the decimator
\* kernel[i] meets the sample i steps back; the upsampler's is one of the stuffed
\* signal, of which the loop leaves out what is multiplied with zero and no more.
FiltersConvolve ==
    /\ \A i \in 0 .. Taps - 1 : DecimatorTap(i) = decInputs[i + 1]
    /\ \A i \in 0 .. Oversample - 1, k \in 0 .. Taps - 1 :
        Stuffed(i, k) = IF k \in DOMAIN UpsamplerTaps(i) THEN UpsamplerTaps(i)[k] ELSE 0

\* What plays in a frame is the a-th coefficient for each jump a frames ago, and
\* nothing of an older one: process() clears what it has read before the ring
\* comes round, and jumps that overlap add up.
OverlapAdd == [][pos' # pos => played' = jumps]_blepVars
=============================================================================
