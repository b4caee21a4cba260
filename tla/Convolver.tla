----------------------------- MODULE Convolver -----------------------------
(***************************************************************************)
(* RealTimeConvolver (dsp/fir.hpp): a long kernel, cut into blocks of        *)
(* BlockSize, applied to a signal that arrives in blocks of BlockSize.       *)
(* Coefficient i of a kernel is 2^i here and samples are 0 or 1, so the      *)
(* binary digits of an output tell which products are in it.                *)
(***************************************************************************)
EXTENDS Integers, Functions

CONSTANTS BlockSize, KernelLengths

ASSUME ConvolverAssumption == BlockSize \in Nat \ {0} /\ KernelLengths \subseteq Nat

VARIABLES
    length,         \* of the kernel, 0 if there is none
    inputFfts,      \* the spectra of the last kernelBlocks blocks, as the blocks
    inputPos,       \* where the last of them is
    outputTail,     \* what the last block still adds to the next
    output,         \* what processBlock returned last since the kernel was set
    calls,          \* how often it was called since, from 2 on always 2
    oldTail,        \* the outputTail when the kernel was set
    signal          \* the samples since, the last one first

convolverVars == <<length, inputFfts, inputPos, outputTail, output, calls, oldTail, signal>>

-----------------------------------------------------------------------------
Block     == 0 .. BlockSize - 1
FftBlock  == 0 .. 2 * BlockSize - 1
Silent    == [k \in Block |-> 0]
Padded(b) == [k \in FftBlock |-> IF k \in Block THEN b[k] ELSE 0]

\* Mutated KernelBlocksOf: rounded down.
KernelBlocksRoundedDown(n) == n \div BlockSize

\* The blocks of a kernel of n coefficients, rounded up.
KernelBlocksOf(n) == IF n = 0 THEN 0 ELSE (n - 1) \div BlockSize + 1
kernelBlocks      == KernelBlocksOf(length)

\* kernelFfts: the i-th block, the last one filled up with zeros.
KernelBlock(i) ==
    Padded([k \in Block |-> IF i * BlockSize + k < length THEN 2 ^ (i * BlockSize + k) ELSE 0])

\* No sample since the kernel was set, as many as it and the next block meet.
NoSignal(n) == [k \in 0 .. n + BlockSize - 1 |-> 0]

\* pffft's transforms and their product: convolution round the 2 * BlockSize
\* samples of a padded block.
Convolved(x, y) ==
    [k \in FftBlock |->
        SumFunction([a \in FftBlock |-> x[a] * y[(k - a) % (2 * BlockSize)]])]

ConvolverInit ==
    /\ length = 0 /\ inputFfts = <<>> /\ inputPos = 0
    /\ outputTail = Silent /\ output = Silent
    /\ calls = 0 /\ oldTail = Silent /\ signal = NoSignal(0)

\* setKernel(kernel, length): the tail stays.
SetKernel(n) ==
    /\ length' = n
    /\ inputFfts' = [b \in 0 .. KernelBlocksOf(n) - 1 |-> Padded(Silent)]
    /\ inputPos' = 0
    /\ output' = Silent /\ calls' = 0 /\ oldTail' = outputTail /\ signal' = NoSignal(n)
    /\ UNCHANGED outputTail

\* processBlock without a kernel
ProcessNothing ==
    /\ kernelBlocks = 0
    /\ output' = Silent
    /\ UNCHANGED <<length, inputFfts, inputPos, outputTail, calls, oldTail, signal>>

\* processBlock(input, output)
ProcessBlock(input) ==
    /\ kernelBlocks > 0
    /\ inputPos' = (inputPos + 1) % kernelBlocks
    /\ inputFfts' = [inputFfts EXCEPT ![inputPos'] = Padded(input)]
    /\ LET product(i) ==
               Convolved(KernelBlock(i), inputFfts'[(inputPos' - i + kernelBlocks) % kernelBlocks])
           tmpBlock == [k \in FftBlock |->
               SumFunction([i \in 0 .. kernelBlocks - 1 |-> product(i)[k]])
               + (IF k \in Block THEN outputTail[k] ELSE 0)]
       IN  /\ output' = [k \in Block |-> tmpBlock[k]]
           /\ outputTail' = [k \in Block |-> tmpBlock[k + BlockSize]]
    /\ calls' = IF calls = 2 THEN 2 ELSE calls + 1
    /\ oldTail' = IF calls = 0 THEN oldTail ELSE Silent
    /\ signal' = [k \in DOMAIN signal |->
         IF k \in Block THEN input[BlockSize - 1 - k] ELSE signal[k - BlockSize]]
    /\ UNCHANGED length

ConvolverNext ==
    \/ \E n \in KernelLengths : SetKernel(n)
    \/ ProcessNothing
    \/ \E input \in [Block -> {0, 1}] : ProcessBlock(input)

-----------------------------------------------------------------------------
(***************************************************************************)
(* Properties.                                                             *)
(***************************************************************************)
\* Every block that comes out is the convolution of the whole kernel with the
\* signal since the kernel was set, wherever the blocks of either are cut; but
\* the first one still has what the kernel before would have added to it.
ConvolvesInBlocks ==
    calls > 0 => \A k \in Block :
        output[k] = oldTail[k] + SumFunction([i \in 0 .. length - 1 |->
                                                2 ^ i * signal[BlockSize - 1 - k + i]])
=============================================================================
