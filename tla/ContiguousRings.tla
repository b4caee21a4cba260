-------------------------- MODULE ContiguousRings --------------------------
(***************************************************************************)
(* A DoubleRingBuffer and an AppleRingBuffer that get the same calls: two    *)
(* ways to keep what waits in one block.  What one takes as two calls the    *)
(* other does in one: shift() and clear() are a consumption of one value, or *)
(* of all, and AppleRingBuffer alone moves its values when it is asked for   *)
(* room.                                                                    *)
(***************************************************************************)
EXTENDS DoubleRing

CONSTANT N      \* the cells of the AppleRingBuffer

ASSUME BlockAssumption == N \in Nat /\ N >= S

VARIABLES first, last, block, consumed      \* its indices, its cells, what it returned

Apple == INSTANCE AppleRing WITH
    start <- first, end <- last, data <- block, taken <- consumed

ringVars == <<start, end, data, put, taken, first, last, block, consumed>>

RingsInit == Init /\ Apple!Init

RingsNext ==
    \/ \E t \in Values : Push(t) /\ Apple!Push(t)
    \/ \E room \in 1 .. S : \E w \in 1 .. room :
         \E batch \in [1 .. w -> Values] : \E n \in 1 .. w :
            Fill(batch, n) /\ Apple!Fill(room, SubSeq(batch, 1, n))
    \/ \E n \in 1 .. S : Take(n) /\ Apple!Take(n)
    \/ Shift /\ Apple!Take(1)
    \/ Clear /\ Apple!Take(Apple!Size)

RingsSpec == RingsInit /\ [][RingsNext]_ringVars

-----------------------------------------------------------------------------
(***************************************************************************)
(* Properties.                                                             *)
(***************************************************************************)
\* Both have their indices and cells in range; the AppleRingBuffer's never pass
\* the end of its block.
RingsTypeOK == TypeOK /\ Apple!TypeOK

\* The AppleRingBuffer too implements the queue, its block at startData() being
\* the contents, across every move of returnBuffer().
AppleIsQueue == Apple!ImplementsQueue

\* It moves its values back only once N - S of them were consumed since it last
\* did, as the comment of the class promises.
MovesAreRare == Apple!MovesAreRare
=============================================================================
