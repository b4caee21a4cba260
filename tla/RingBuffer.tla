----------------------------- MODULE RingBuffer -----------------------------
(***************************************************************************)
(* dsp::RingBuffer<T, S>, the lock-free queue of dsp/ringbuffer.hpp, with  *)
(* its one producer thread and its one consumer thread.                    *)
(*                                                                         *)
(* `start` and `end` are the two std::atomic<size_t>: they only grow, and  *)
(* wrap at IndexRange (2^32 on the 32-bit target).  `data` is not atomic:  *)
(* every element a thread copies is a step of its own.  A thread asks the  *)
(* queue how much it may do (capacity()/full(), size()/empty()) and then   *)
(* does at most that, by calls of push/pushBuffer, shift/shiftBuffer; the  *)
(* answer may be stale by the time it is used.                             *)
(*                                                                         *)
(* push and shift are pushBuffer and shiftBuffer of one element.           *)
(***************************************************************************)
EXTENDS SizeT, Sequences

CONSTANTS S,            \* the number of slots
          Values,       \* what the queue carries
          Junk,         \* what a slot holds before it is first written
          Probe         \* how the consumer asks: "empty" or "size"

ASSUME SizeAssumption ==
    /\ S \in Nat \ {0}
    /\ IndexRange \in Nat
    /\ 2 * S <= IndexRange

ASSUME ClientAssumption ==
    /\ Junk \notin Values
    /\ Probe \in {"empty", "size"}

VARIABLES
    start, end,     \* the two indices
    data,           \* the slots
    \* The producer thread: where it is, how many elements it may still push
    \* on the strength of its last question, and in a push the first slot `i`,
    \* the argument `t` and the elements of it already copied.
    pAt, room, pSlot, source, copied,
    \* The consumer thread: where it is, how many elements it may still shift,
    \* and in a shift the first slot `i`, the count `n`, and the copy it
    \* makes; in clear() the value of `end` it loaded.
    cAt, avail, cSlot, want, dest, seen,
    returned        \* what the last completed shift returned

shared   == <<start, end, data>>
producer == <<pAt, room, pSlot, source, copied>>
consumer == <<cAt, avail, cSlot, want, dest, seen, returned>>
vars     == <<start, end, data, pAt, room, pSlot, source, copied,
              cAt, avail, cSlot, want, dest, seen, returned>>

-----------------------------------------------------------------------------
Slots == 0 .. S - 1

\* The slot of the k-th element of a copy that begins at slot i: the first
\* memcpy fills up to slot S - 1, the second goes on from slot 0.
SlotOf(i, k) == IF i + k < S THEN i + k ELSE i + k - S

\* Mutated forms of the two questions (each stands in for the definition below
\* it): a full queue that reads as an empty one, a last element never seen, and
\* a queue that takes one element too many.
SizeOfFullIsZero == Minus(end, start) % S
EmptyButForOne   == start + 1 >= end
CapacityPlusOne  == Minus(S, Minus(end, start)) + 1

Size     == Minus(end, start)
Empty    == start >= end
Full     == Size >= S
Capacity == Minus(S, Size)

-----------------------------------------------------------------------------
Init ==
    /\ start = 0 /\ end = 0
    /\ data = [s \in Slots |-> Junk]
    /\ pAt = "idle" /\ room = 0 /\ pSlot = 0 /\ source = <<>> /\ copied = 0
    /\ cAt = "idle" /\ avail = 0 /\ cSlot = 0 /\ want = 0 /\ dest = <<>>
    /\ seen = 0 /\ returned = <<>>

\* The producer asks for room, by capacity() or by full(): one load of `start`,
\* its own `end` is still.
AskCapacity ==
    /\ pAt = "idle"
    /\ \/ room' = Capacity
       \/ room' = IF Full THEN 0 ELSE 1
    /\ UNCHANGED <<shared, consumer, pAt, pSlot, source, copied>>

\* Mutated PushBegin: the slot is not reduced modulo S.
PushBeginAtIndex ==
    /\ pAt = "idle"
    /\ \E n \in 1 .. S : n <= room /\ source' \in [1 .. n -> Values]
    /\ pSlot' = end
    /\ copied' = 0
    /\ pAt' = "copy"
    /\ UNCHANGED <<shared, consumer, room>>

\* push(t) or pushBuffer(t, n): size_t i = end % S.
PushBegin ==
    /\ pAt = "idle"
    /\ \E n \in 1 .. S : n <= room /\ source' \in [1 .. n -> Values]
    /\ pSlot' = end % S
    /\ copied' = 0
    /\ pAt' = "copy"
    /\ UNCHANGED <<shared, consumer, room>>

\* Mutated PushCopy: the second memcpy starts over at t, not at &t[S - i].
PushCopyStartsOver ==
    /\ pAt = "copy"
    /\ copied < Len(source)
    /\ data' = [data EXCEPT ![SlotOf(pSlot, copied)] =
                  source[(IF pSlot + copied < S THEN copied ELSE pSlot + copied - S) + 1]]
    /\ copied' = copied + 1
    /\ UNCHANGED <<start, end, consumer, pAt, room, pSlot, source>>

\* The copy into `data`, one element at a time.
PushCopy ==
    /\ pAt = "copy"
    /\ copied < Len(source)
    /\ data' = [data EXCEPT ![SlotOf(pSlot, copied)] = source[copied + 1]]
    /\ copied' = copied + 1
    /\ UNCHANGED <<start, end, consumer, pAt, room, pSlot, source>>

\* end += n publishes the elements.
PushEnd ==
    /\ pAt = "copy"
    /\ copied = Len(source)
    /\ end' = Plus(end, Len(source))
    /\ room' = room - Len(source)
    /\ pAt' = "idle"
    /\ UNCHANGED <<start, data, consumer, pSlot, source, copied>>

-----------------------------------------------------------------------------
\* The consumer asks what is there: one load of `end`.
AskAvailable ==
    /\ cAt = "idle"
    /\ avail' = CASE Probe = "size"  -> Size
                  [] Probe = "empty" -> IF Empty THEN 0 ELSE 1
    /\ UNCHANGED <<shared, producer, cAt, cSlot, want, dest, seen, returned>>

\* Mutated ShiftBegin: start += n comes before the copy, not after it.
ShiftBeginReleases ==
    /\ cAt = "idle"
    /\ want' \in 1 .. S /\ want' <= avail
    /\ cSlot' = start % S
    /\ start' = Plus(start, want')
    /\ dest' = <<>>
    /\ cAt' = "copy"
    /\ UNCHANGED <<end, data, producer, avail, seen, returned>>

\* shift() or shiftBuffer(t, n): size_t i = start % S.
ShiftBegin ==
    /\ cAt = "idle"
    /\ want' \in 1 .. S /\ want' <= avail
    /\ cSlot' = start % S
    /\ dest' = <<>>
    /\ cAt' = "copy"
    /\ UNCHANGED <<shared, producer, avail, seen, returned>>

ShiftCopy ==
    /\ cAt = "copy"
    /\ Len(dest) < want
    /\ dest' = Append(dest, data[SlotOf(cSlot, Len(dest))])
    /\ UNCHANGED <<shared, producer, cAt, avail, cSlot, want, seen, returned>>

\* start += n gives the slots back, and the call returns.
ShiftEnd ==
    /\ cAt = "copy"
    /\ Len(dest) = want
    /\ start' = Plus(start, want)
    /\ avail' = avail - want
    /\ returned' = dest
    /\ cAt' = "idle"
    /\ UNCHANGED <<end, data, producer, cSlot, want, dest, seen>>

\* clear(), called by the consumer: start = end.load() is a load and a store.
ClearLoad ==
    /\ cAt = "idle"
    /\ seen' = end
    /\ cAt' = "clear"
    /\ UNCHANGED <<shared, producer, avail, cSlot, want, dest, returned>>

ClearStore ==
    /\ cAt = "clear"
    /\ start' = seen
    /\ avail' = 0
    /\ cAt' = "idle"
    /\ UNCHANGED <<end, data, producer, cSlot, want, dest, seen, returned>>

-----------------------------------------------------------------------------
ProducerStep == AskCapacity \/ PushBegin \/ PushCopy \/ PushEnd
ShiftStep    == AskAvailable \/ ShiftBegin \/ ShiftCopy \/ ShiftEnd
ConsumerStep == ShiftStep \/ ClearLoad \/ ClearStore

Next == ProducerStep \/ ConsumerStep

\* The code, for ever.
Spec == Init /\ [][Next]_vars

(***************************************************************************)
(* The code for as long as its indices do what they should: S divides the  *)
(* range of size_t (it is a power of two), or `end` has not wrapped yet.   *)
(***************************************************************************)
Divides       == IndexRange % S = 0
InService     == Divides \/ end' >= end
InServiceNext == Next /\ InService
InServiceSpec == Init /\ [][InServiceNext]_vars

\* The code until `end` wraps, whatever S.
BeforeWrapNext == Next /\ end' >= end
BeforeWrapSpec == Init /\ [][BeforeWrapNext]_vars

-----------------------------------------------------------------------------
(***************************************************************************)
(* Properties.                                                             *)
(***************************************************************************)
TypeOK ==
    /\ start \in Indices /\ end \in Indices
    /\ data \in [Slots -> Values \union {Junk}]
    /\ pAt \in {"idle", "copy"} /\ room \in 0 .. S /\ pSlot \in Slots
    /\ source \in Seq(Values) /\ copied \in Nat
    /\ cAt \in {"idle", "copy", "clear"} /\ avail \in 0 .. S /\ cSlot \in Slots
    /\ want \in Nat /\ dest \in Seq(Values \union {Junk}) /\ seen \in Indices
    /\ returned \in Seq(Values \union {Junk})

\* What the indices keep to, and what each thread may still rely on of the
\* answer it was given: the other thread only ever makes it a better one.
IndexInv ==
    /\ Size <= S
    /\ Divides \/ start <= end

ProducerInv ==
    /\ room <= S - Size
    /\ pAt = "copy" => /\ Len(source) \in 1 .. room
                      /\ pSlot = end % S
                      /\ copied <= Len(source)

ConsumerInv ==
    /\ avail <= Size
    /\ cAt = "copy" => /\ want \in 1 .. avail
                      /\ cSlot = start % S
                      /\ Len(dest) <= want
    /\ cAt = "clear" => Minus(seen, start) <= Size

\* The inductive invariant behind the properties below.
IInv == TypeOK /\ IndexInv /\ ProducerInv /\ ConsumerInv

\* capacity() never underflows: between its questions and its calls neither
\* thread lets `end` run more than S ahead of `start`.
NoOverrun == Size <= S

\* The slots the producer is writing and those the consumer is reading are
\* disjoint, so the plain (non-atomic) accesses to `data` never race.
NoSharedSlot ==
    pAt = "copy" /\ cAt = "copy" =>
        \A j \in 0 .. Len(source) - 1, k \in 0 .. want - 1 :
            SlotOf(pSlot, j) # SlotOf(cSlot, k)

\* empty() answers true exactly when nothing is waiting.
EmptyIsExact == Empty <=> Size = 0

\* The values waiting, read off the slots as the consumer will.
Contents == [k \in 1 .. Size |-> data[(start + k - 1) % S]]

\* The buffer implements the bounded queue: every operation takes effect, all
\* of it at once, where its thread advances its own index.
Offered == IF pAt = "copy" THEN source ELSE <<>>
Queue == INSTANCE FifoQueue WITH
    Capacity <- S, offered <- Offered, waiting <- Contents, delivered <- returned
ImplementsFifo == Queue!Spec

\* The consumer thread keeps running: it asks, and shifts what it is told of.
Fairness ==
    /\ WF_vars(AskAvailable) /\ WF_vars(ShiftBegin) /\ WF_vars(ShiftCopy)
    /\ WF_vars(ShiftEnd) /\ WF_vars(ClearStore)

FairSpec           == Spec /\ Fairness
FairBeforeWrapSpec == BeforeWrapSpec /\ Fairness

\* Whatever waits is removed in time: with a consumer that keeps polling, no
\* element stays at the head of the queue for ever.
Drains == \A x \in Indices : (start = x /\ Size > 0) ~> (start # x)
=============================================================================
