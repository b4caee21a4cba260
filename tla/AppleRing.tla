----------------------------- MODULE AppleRing -----------------------------
(***************************************************************************)
(* dsp::AppleRingBuffer<T, S, N> of dsp/ringbuffer.hpp: at most S values    *)
(* that slide along a block of N cells and are moved back to its beginning  *)
(* when the next would not fit.  For one thread, so a call is a step.        *)
(***************************************************************************)
EXTENDS Integers, Sequences

CONSTANTS S,          \* the most values that may wait
          N,          \* the cells of the block
          Values,     \* what the buffer carries
          Junk        \* what a cell holds before it is first written

VARIABLES start, end,     \* the two indices
          data,           \* the block
          put, taken      \* what the last call appended, and what one consumed

avars == <<start, end, data, put, taken>>

Cells == 0 .. N - 1

Size     == end - start
Capacity == S - Size

Init ==
    /\ start = 0 /\ end = 0
    /\ data = [c \in Cells |-> Junk]
    /\ put = <<>> /\ taken = <<>>

\* Mutated Overflows: one value too late; when another S would not fit.
OverflowsLate(n)  == end + n > N + 1
OverflowsEarly(n) == end + S > N

\* Whether n more values make push() and endData(n) call returnBuffer().
Overflows(n) == end + n > N

\* Mutated Base: `start` is left where it is.
BaseUnmoved(n) == start

\* The block, and where it ends, with room for n more values: as they are, or as
\* the memmove of returnBuffer() leaves them.
Base(n)  == IF Overflows(n) THEN 0 ELSE start
Top(n)   == IF Overflows(n) THEN Size ELSE end
Moved(n) == IF Overflows(n)
            THEN [c \in Cells |-> IF c < Size THEN data[start + c] ELSE data[c]]
            ELSE data

\* push(t)
Push(t) ==
    /\ 1 <= Capacity
    /\ data' = [Moved(1) EXCEPT ![Top(1)] = t]
    /\ start' = Base(1)
    /\ end' = Top(1) + 1
    /\ put' = <<t>>
    /\ UNCHANGED taken

\* endData(n), the caller writes a batch there, and endIncr() of its length.
Fill(n, batch) ==
    /\ n <= Capacity /\ Len(batch) <= n
    /\ data' = [c \in Cells |-> IF c \in Top(n) .. Top(n) + Len(batch) - 1
                                THEN batch[c - Top(n) + 1] ELSE Moved(n)[c]]
    /\ start' = Base(n)
    /\ end' = Top(n) + Len(batch)
    /\ put' = batch
    /\ UNCHANGED taken

\* startData(): all that waits, as one block.
StartData == [k \in 1 .. Size |-> data[start + k - 1]]

\* The caller reads n values there and calls startIncr(n); shift() is one of them.
Take(n) ==
    /\ n <= Size
    /\ taken' = SubSeq(StartData, 1, n)
    /\ start' = start + n
    /\ UNCHANGED <<end, data, put>>

Next ==
    \/ \E t \in Values : Push(t)
    \/ \E n \in 0 .. S : \E w \in 0 .. n : \E batch \in [1 .. w -> Values] : Fill(n, batch)
    \/ \E n \in 0 .. S : Take(n)

Spec == Init /\ [][Next]_avars

-----------------------------------------------------------------------------
(***************************************************************************)
(* Properties.                                                             *)
(***************************************************************************)
TypeOK ==
    /\ start \in 0 .. N /\ end \in start .. N /\ Size <= S
    /\ data \in [Cells -> Values \union {Junk}]
    /\ put \in Seq(Values) /\ taken \in Seq(Values \union {Junk})

\* The values are moved back only after N - S of them were consumed since the
\* last time, which is what makes a push cost O(1 + S / (N - S)).
MovesAreRare == [][start' < start => start > N - S]_avars

\* The buffer implements the queue, with the block at startData() as its contents.
Queue == INSTANCE SampleQueue WITH Capacity <- S, waiting <- StartData
ImplementsQueue == Queue!Spec
=============================================================================
