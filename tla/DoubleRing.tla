---------------------------- MODULE DoubleRing ----------------------------
(***************************************************************************)
(* dsp::DoubleRingBuffer<T, S> of dsp/ringbuffer.hpp: a ring of S slots     *)
(* kept twice, one copy behind the other, so that what waits can be read,   *)
(* and what comes can be written, as one block.  For one thread, so a call   *)
(* is a step, and one that asks capacity() or size() before it appends or    *)
(* takes.  S divides the range of the indices, as it must in RingBuffer.     *)
(***************************************************************************)
EXTENDS SizeT, Sequences

CONSTANTS S,          \* the number of slots
          Values,     \* what the buffer carries
          Junk        \* what a slot holds before it is first written

ASSUME DoubleRingAssumption ==
    /\ S \in Nat \ {0} /\ IndexRange \in Nat /\ 2 * S <= IndexRange
    /\ IndexRange % S = 0
    /\ Junk \notin Values

VARIABLES start, end,     \* the two indices
          data,           \* the slots, 0 .. S - 1 and their copies S .. 2 * S - 1
          put, taken      \* what the last call appended, and what one consumed

dvars == <<start, end, data, put, taken>>

Cells == 0 .. 2 * S - 1

Size     == Minus(end, start)
Capacity == Minus(S, Size)

Init ==
    /\ start = 0 /\ end = 0
    /\ data = [c \in Cells |-> Junk]
    /\ put = <<>> /\ taken = <<>>

\* Mutated Push: the copy is forgotten.
PushOnce(t) ==
    /\ 1 <= Capacity
    /\ data' = [data EXCEPT ![end % S] = t]
    /\ end' = Plus(end, 1)
    /\ put' = <<t>>
    /\ UNCHANGED <<start, taken>>

\* push(t): the slot and its copy.
Push(t) ==
    /\ 1 <= Capacity
    /\ data' = [c \in Cells |-> IF c % S = end % S THEN t ELSE data[c]]
    /\ end' = Plus(end, 1)
    /\ put' = <<t>>
    /\ UNCHANGED <<start, taken>>

\* The caller writes through the pointer that endData() returned.
Written(batch) ==
    LET i == end % S
    IN  [c \in Cells |-> IF c \in i .. i + Len(batch) - 1 THEN batch[c - i + 1] ELSE data[c]]

\* endIncr(n) copies what lies in the main block forward, and then what went
\* past its end back to the beginning.
Forward(cells, n) ==
    LET i  == end % S
        e2 == IF i + n < S THEN i + n ELSE S
    IN  [c \in Cells |-> IF c \in S + i .. S + e2 - 1 THEN cells[c - S] ELSE cells[c]]

Backward(cells, n) ==
    LET e1 == (end % S) + n
    IN  [c \in Cells |-> IF c < e1 - S THEN cells[c + S] ELSE cells[c]]

\* Mutated Fill: what went past the end of the main block is not copied back.
FillForward(batch, n) ==
    /\ Len(batch) <= Capacity /\ n <= Len(batch)
    /\ data' = Forward(Written(batch), n)
    /\ end' = Plus(end, n)
    /\ put' = SubSeq(batch, 1, n)
    /\ UNCHANGED <<start, taken>>

\* endData(), the caller writes a batch there and then endIncr(n) for the part of
\* it that is to stay.
Fill(batch, n) ==
    /\ Len(batch) <= Capacity /\ n <= Len(batch)
    /\ data' = Backward(Forward(Written(batch), n), n)
    /\ end' = Plus(end, n)
    /\ put' = SubSeq(batch, 1, n)
    /\ UNCHANGED <<start, taken>>

\* startData(): all that waits, as one block.
StartData == [k \in 1 .. Size |-> data[(start % S) + k - 1]]

\* The caller reads n values there and calls startIncr(n).
Take(n) ==
    /\ n <= Size
    /\ taken' = SubSeq(StartData, 1, n)
    /\ start' = Plus(start, n)
    /\ UNCHANGED <<end, data, put>>

\* shift() reads the first copy.
Shift ==
    /\ 1 <= Size
    /\ taken' = <<data[start % S]>>
    /\ start' = Plus(start, 1)
    /\ UNCHANGED <<end, data, put>>

\* clear(): start = end.load().
Clear ==
    /\ start' = end
    /\ UNCHANGED <<end, data, put, taken>>

Next ==
    \/ \E t \in Values : Push(t)
    \/ \E w \in 0 .. S, n \in 0 .. S : \E batch \in [1 .. w -> Values] : Fill(batch, n)
    \/ \E n \in 0 .. S : Take(n)
    \/ Shift
    \/ Clear

Spec == Init /\ [][Next]_dvars

-----------------------------------------------------------------------------
(***************************************************************************)
(* Properties.                                                             *)
(***************************************************************************)
TypeOK ==
    /\ start \in Indices /\ end \in Indices
    /\ data \in [Cells -> Values \union {Junk}]
    /\ put \in Seq(Values) /\ taken \in Seq(Values \union {Junk})

\* What waits is in both copies: whichever of the two a call reads, shift() the
\* first and startData() both, it finds the same values.
Mirrored ==
    \A k \in 0 .. Size - 1 :
        LET i == (start + k) % S IN data[i] = data[i + S] /\ data[i] \in Values

\* The buffer implements the queue, with the block at startData() as its contents.
Queue == INSTANCE SampleQueue WITH Capacity <- S, waiting <- StartData
ImplementsQueue == Queue!Spec
=============================================================================
