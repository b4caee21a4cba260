----------------------------- MODULE FifoQueue -----------------------------
(***************************************************************************)
(* What a bounded single-producer single-consumer queue promises: values   *)
(* come out in the order they went in, each of them once, none of them     *)
(* invented, and never more than Capacity of them wait.  The consumer may  *)
(* also throw away a prefix of what is waiting.                            *)
(***************************************************************************)
EXTENDS Naturals, Sequences

CONSTANTS Values,     \* what the queue carries
          Capacity    \* the most values that may wait

VARIABLES offered,    \* the batch the producer is pushing, <<>> if none
          waiting,    \* the values pushed and not yet removed, oldest first
          delivered   \* the values the last removal handed to the consumer

qvars == <<offered, waiting, delivered>>

Init ==
    /\ offered = <<>>
    /\ waiting = <<>>
    /\ delivered = <<>>

\* The producer calls push with a batch for which there is room.
Offer ==
    /\ offered = <<>>
    /\ \E n \in 1 .. Capacity - Len(waiting) : offered' \in [1 .. n -> Values]
    /\ UNCHANGED <<waiting, delivered>>

\* The batch takes its place, all of it at once, and push returns.
Enqueue ==
    /\ offered # <<>>
    /\ waiting' = waiting \o offered
    /\ offered' = <<>>
    /\ UNCHANGED delivered

\* The consumer receives the oldest n values.
Dequeue ==
    /\ \E n \in 1 .. Len(waiting) :
         /\ delivered' = SubSeq(waiting, 1, n)
         /\ waiting' = SubSeq(waiting, n + 1, Len(waiting))
    /\ UNCHANGED offered

\* The consumer drops the oldest n values unseen.
Discard ==
    /\ \E n \in 1 .. Len(waiting) : waiting' = SubSeq(waiting, n + 1, Len(waiting))
    /\ UNCHANGED <<offered, delivered>>

Next == Offer \/ Enqueue \/ Dequeue \/ Discard

Spec == Init /\ [][Next]_qvars
=============================================================================
