---------------------------- MODULE SampleQueue ----------------------------
(***************************************************************************)
(* What a queue for one thread promises that lets its caller append in      *)
(* place and read in place: values are read in the order they were put,     *)
(* each of them once, and all that wait can be read as one block.           *)
(***************************************************************************)
EXTENDS Naturals, Sequences

CONSTANTS Values,     \* what the queue carries
          Capacity    \* the most values that may wait

VARIABLES put,        \* the batch the last appending call added
          waiting,    \* the values put and not yet taken, oldest first
          taken       \* the values the last reading call consumed

qvars == <<put, waiting, taken>>

Init == put = <<>> /\ waiting = <<>> /\ taken = <<>>

\* The batch goes in whole, behind what waits; it may be empty.
Put ==
    /\ \E n \in 0 .. Capacity - Len(waiting) : put' \in [1 .. n -> Values]
    /\ waiting' = waiting \o put'
    /\ UNCHANGED taken

\* The oldest n values are read and leave.
Take ==
    /\ \E n \in 0 .. Len(waiting) :
         /\ taken' = SubSeq(waiting, 1, n)
         /\ waiting' = SubSeq(waiting, n + 1, Len(waiting))
    /\ UNCHANGED put

\* All that waits is thrown away unread.
Clear == waiting' = <<>> /\ UNCHANGED <<put, taken>>

Next == Put \/ Take \/ Clear

Spec == Init /\ [][Next]_qvars
=============================================================================
