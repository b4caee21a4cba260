-------------------------- MODULE RingBufferProof --------------------------
(***************************************************************************)
(* Theorems about RingBuffer, for every S, every width of size_t and every *)
(* set of values: no overrun, no shared slot and an exact empty(), in any  *)
(* order the two threads may run.  They are about the behaviours in which  *)
(* the indices mean what they should (InServiceSpec): all of them when S   *)
(* divides the range of size_t, those before `end` wraps otherwise.        *)
(***************************************************************************)
EXTENDS RingBuffer, NaturalLemmas

-----------------------------------------------------------------------------
(***************************************************************************)
(* The inductive invariant.                                                *)
(***************************************************************************)

\* The invariant holds of the empty queue.
LEMMA InitIInv == Init => IInv
<1> SUFFICES ASSUME Init PROVE IInv
  OBVIOUS
<1> USE SizeAssumption DEF Init
<1>1. TypeOK
  BY DEF TypeOK, Indices, Slots
<1>2. IndexInv /\ ProducerInv /\ ConsumerInv
  BY DEF IndexInv, ProducerInv, ConsumerInv, Size, Minus
<1> QED BY <1>1, <1>2 DEF IInv

\* An index is less than IndexRange away from another.
LEMMA MinusRange ==
    ASSUME NEW x \in Indices, NEW y \in Indices
    PROVE  Minus(x, y) \in Indices
BY SizeAssumption DEF Minus, Indices

\* The producer's steps keep the invariant.
LEMMA ProducerKeepsIInv == IInv /\ ProducerStep /\ InService => IInv'
<1> SUFFICES ASSUME IInv, ProducerStep, InService PROVE IInv'
  OBVIOUS
<1> USE SizeAssumption
<1>1. CASE AskCapacity
  <2>1. TypeOK'
    BY <1>1 DEF IInv, TypeOK, IndexInv, AskCapacity, Capacity, Full, Size,
                Minus, Indices, shared, consumer
  <2>2. IndexInv' /\ ConsumerInv'
    BY <1>1 DEF IInv, IndexInv, ConsumerInv, AskCapacity, Size, shared, consumer
  <2>3. ProducerInv'
    BY <1>1 DEF IInv, TypeOK, IndexInv, ProducerInv, AskCapacity, Capacity, Full,
                Size, Minus, Indices, shared
  <2> QED BY <2>1, <2>2, <2>3 DEF IInv
<1>2. CASE PushBegin
  <2>1. PICK n \in 1 .. S : n <= room /\ source' \in [1 .. n -> Values]
    BY <1>2 DEF PushBegin
  <2>2. source' \in Seq(Values) /\ Len(source') = n
    BY <2>1
  <2>3. end % S \in Slots
    BY DivisionFacts DEF IInv, TypeOK, Indices, Slots
  <2>4. TypeOK'
    BY <1>2, <2>2, <2>3 DEF IInv, TypeOK, PushBegin, shared, consumer
  <2>5. IndexInv' /\ ConsumerInv'
    BY <1>2 DEF IInv, IndexInv, ConsumerInv, PushBegin, Size, shared, consumer
  <2>6. ProducerInv'
    BY <1>2, <2>1, <2>2 DEF IInv, TypeOK, ProducerInv, PushBegin, Size, shared
  <2> QED BY <2>4, <2>5, <2>6 DEF IInv
<1>3. CASE PushCopy
  <2>1. /\ SlotOf(pSlot, copied) \in Slots
        /\ source[copied + 1] \in Values
    BY <1>3 DEF IInv, TypeOK, IndexInv, ProducerInv, PushCopy, SlotOf, Slots,
                Size, Minus, Indices
  <2>2. TypeOK'
    BY <1>3, <2>1 DEF IInv, TypeOK, PushCopy, consumer
  <2>3. IndexInv' /\ ConsumerInv'
    BY <1>3 DEF IInv, IndexInv, ConsumerInv, PushCopy, Size, consumer
  <2>4. ProducerInv'
    BY <1>3 DEF IInv, TypeOK, ProducerInv, PushCopy, Size
  <2> QED BY <2>2, <2>3, <2>4 DEF IInv
<1>4. CASE PushEnd
  <2> DEFINE n == Len(source)
  <2>1. n \in 1 .. room /\ room \in 0 .. S /\ room <= S - Size
    BY <1>4 DEF IInv, TypeOK, ProducerInv, PushEnd
  <2>2. end' \in Indices /\ (Divides \/ end <= end')
    BY <1>4, <2>1 DEF IInv, TypeOK, PushEnd, Plus, Indices, InService
  <2>3. Size' = Size + n
    BY <1>4, <2>1 DEF IInv, TypeOK, PushEnd, Plus, Minus, Size, Indices
  <2>4. Size \in Nat
    BY MinusRange DEF IInv, TypeOK, Indices, Size
  <2> HIDE DEF n
  <2>5. TypeOK'
    BY <1>4, <2>1, <2>2 DEF IInv, TypeOK, PushEnd, consumer, n
  <2>6. IndexInv'
    BY <1>4, <2>1, <2>2, <2>3, <2>4
       DEF IInv, TypeOK, IndexInv, PushEnd, Divides, Indices
  <2>7. ProducerInv'
    BY <1>4, <2>1, <2>3, <2>4 DEF PushEnd, ProducerInv, n
  <2>8. ConsumerInv'
    BY <1>4, <2>1, <2>3, <2>4
       DEF IInv, TypeOK, PushEnd, ConsumerInv, consumer, Minus, Indices
  <2> QED BY <2>5, <2>6, <2>7, <2>8 DEF IInv
<1> QED BY <1>1, <1>2, <1>3, <1>4 DEF ProducerStep

\* The consumer's steps keep the invariant.
LEMMA ConsumerKeepsIInv == IInv /\ ConsumerStep /\ InService => IInv'
<1> SUFFICES ASSUME IInv, ConsumerStep, InService PROVE IInv'
  OBVIOUS
<1> USE SizeAssumption
<1>0. /\ start \in Indices /\ end \in Indices /\ Size \in Nat /\ Size <= S
      /\ avail \in 0 .. S /\ avail <= Size
  BY MinusRange DEF IInv, TypeOK, IndexInv, ConsumerInv, Indices, Size
<1>1. CASE AskAvailable
  <2>1. avail' \in 0 .. S /\ avail' <= Size
    BY <1>0, <1>1, ClientAssumption DEF AskAvailable, Empty, Size, Minus, Indices
  <2>2. TypeOK'
    BY <1>1, <2>1 DEF IInv, TypeOK, AskAvailable, shared, producer
  <2>3. IndexInv' /\ ProducerInv'
    BY <1>1 DEF IInv, IndexInv, ProducerInv, AskAvailable, Size, shared, producer
  <2>4. ConsumerInv'
    BY <1>1, <2>1 DEF IInv, ConsumerInv, AskAvailable, Size, shared
  <2> QED BY <2>2, <2>3, <2>4 DEF IInv
<1>2. CASE ShiftBegin
  <2>1. start % S \in Slots
    BY <1>0, DivisionFacts DEF Indices, Slots
  <2>2. want' \in 1 .. avail /\ want' \in Nat /\ dest' = <<>>
    BY <1>0, <1>2 DEF ShiftBegin
  <2>3. TypeOK'
    BY <1>2, <2>1, <2>2 DEF IInv, TypeOK, ShiftBegin, shared, producer
  <2>4. IndexInv' /\ ProducerInv'
    BY <1>2 DEF IInv, IndexInv, ProducerInv, ShiftBegin, Size, shared, producer
  <2>5. ConsumerInv'
    BY <1>2, <2>2 DEF IInv, ConsumerInv, ShiftBegin, Size, shared
  <2> QED BY <2>3, <2>4, <2>5 DEF IInv
<1>3. CASE ShiftCopy
  <2>1. /\ Len(dest) \in Nat /\ Len(dest) < want /\ want \in 1 .. S
        /\ SlotOf(cSlot, Len(dest)) \in Slots
    BY <1>0, <1>3 DEF IInv, TypeOK, ConsumerInv, ShiftCopy, SlotOf, Slots
  <2>2. /\ dest' \in Seq(Values \union {Junk})
        /\ Len(dest') = Len(dest) + 1
    BY <1>3, <2>1 DEF IInv, TypeOK, ShiftCopy
  <2>3. TypeOK'
    BY <1>3, <2>2 DEF IInv, TypeOK, ShiftCopy, shared, producer
  <2>4. IndexInv' /\ ProducerInv'
    BY <1>3 DEF IInv, IndexInv, ProducerInv, ShiftCopy, Size, shared, producer
  <2>5. ConsumerInv'
    BY <1>3, <2>1, <2>2 DEF IInv, ConsumerInv, ShiftCopy, Size, shared
  <2> QED BY <2>3, <2>4, <2>5 DEF IInv
<1>4. CASE ShiftEnd
  <2>1. want \in 1 .. avail
    BY <1>4 DEF IInv, ConsumerInv, ShiftEnd
  <2>2. start' \in Indices /\ (Divides \/ start' <= end)
    BY <1>0, <1>4, <2>1
       DEF IInv, IndexInv, ShiftEnd, Plus, Minus, Size, Indices
  <2>3. Size' = Size - want
    BY <1>0, <1>4, <2>1 DEF ShiftEnd, Plus, Minus, Size, Indices
  <2>4. TypeOK'
    BY <1>0, <1>4, <2>1, <2>2 DEF IInv, TypeOK, ShiftEnd, producer
  <2>5. IndexInv'
    BY <1>0, <1>4, <2>1, <2>2, <2>3 DEF IndexInv, ShiftEnd, Divides
  <2>6. ProducerInv'
    BY <1>0, <1>4, <2>1, <2>3 DEF IInv, TypeOK, ProducerInv, ShiftEnd, producer
  <2>7. ConsumerInv'
    BY <1>0, <1>4, <2>1, <2>3 DEF ConsumerInv, ShiftEnd
  <2> QED BY <2>4, <2>5, <2>6, <2>7 DEF IInv
<1>5. CASE ClearLoad
  <2>1. TypeOK'
    BY <1>5 DEF IInv, TypeOK, ClearLoad, shared, producer
  <2>2. IndexInv' /\ ProducerInv'
    BY <1>5 DEF IInv, IndexInv, ProducerInv, ClearLoad, Size, shared, producer
  <2>3. ConsumerInv'
    BY <1>0, <1>5 DEF IInv, ConsumerInv, ClearLoad, Size, shared
  <2> QED BY <2>1, <2>2, <2>3 DEF IInv
<1>6. CASE ClearStore
  <2>1. seen \in Indices /\ Minus(seen, start) <= Size
    BY <1>6 DEF IInv, TypeOK, ConsumerInv, ClearStore
  <2>2. start' \in Indices /\ (Divides \/ start' <= end)
    BY <1>0, <1>6, <2>1 DEF IInv, IndexInv, ClearStore, Minus, Size, Indices
  <2> DEFINE n == Minus(seen, start)
  <2>3. n \in Nat /\ n <= Size /\ Size' = Size - n
    BY <1>0, <1>6, <2>1 DEF ClearStore, Minus, Size, Indices
  <2> HIDE DEF n
  <2>4. TypeOK'
    BY <1>6, <2>2 DEF IInv, TypeOK, ClearStore, producer
  <2>5. IndexInv'
    BY <1>0, <1>6, <2>2, <2>3 DEF IndexInv, ClearStore, Divides
  <2>6. ProducerInv'
    BY <1>0, <1>6, <2>3 DEF IInv, TypeOK, ProducerInv, ClearStore, producer
  <2>7. ConsumerInv'
    BY <1>0, <1>6, <2>3 DEF ConsumerInv, ClearStore
  <2> QED BY <2>4, <2>5, <2>6, <2>7 DEF IInv
<1> QED BY <1>1, <1>2, <1>3, <1>4, <1>5, <1>6 DEF ConsumerStep, ShiftStep

\* A step in which nothing changes keeps it too.
LEMMA StutterKeepsIInv == IInv /\ UNCHANGED vars => IInv'
BY DEF vars, IInv, TypeOK, IndexInv, ProducerInv, ConsumerInv, Size

\* The invariant holds of every behaviour in which the indices are in service.
THEOREM Invariance == InServiceSpec => []IInv
<1>1. IInv /\ [InServiceNext]_vars => IInv'
  BY ProducerKeepsIInv, ConsumerKeepsIInv, StutterKeepsIInv
     DEF InServiceNext, Next
<1> QED BY <1>1, InitIInv, PTL DEF InServiceSpec

-----------------------------------------------------------------------------
(***************************************************************************)
(* What follows from it.                                                   *)
(***************************************************************************)

\* The slot of `end` is Size slots on from that of `start`.
LEMMA EndSlot == IInv => end % S = SlotOf(start % S, Size)
<1> SUFFICES ASSUME IInv PROVE end % S = SlotOf(start % S, Size)
  OBVIOUS
<1>1. start \in Indices /\ Size \in 0 .. S /\ end \in Indices
  BY MinusRange DEF IInv, TypeOK, IndexInv, Size, Indices
<1>2. end = Plus(start, Size) /\ (Divides \/ start + Size < IndexRange)
  BY <1>1, SizeAssumption DEF IInv, IndexInv, Plus, Minus, Size, Indices
<1>3. S \in Nat \ {0} /\ IndexRange \in Nat /\ S <= IndexRange /\ start \in 0 .. IndexRange - 1
  BY <1>1, SizeAssumption DEF Indices
<1>4. Plus(start, Size) % S = SlotOf(start % S, Size)
  <2> HIDE DEF Size
  <2> QED BY <1>1, <1>2, <1>3, SlotOfPlus DEF Divides, SlotOf, Plus
<1> QED BY <1>2, <1>4

\* The producer writes no slot that the consumer is reading: the values of the
\* variables of push and shift are right throughout (TypeOK), the distance of
\* the indices never exceeds S, and the copies touch disjoint slots.
THEOREM Safety == InServiceSpec => [](TypeOK /\ NoOverrun /\ NoSharedSlot)
<1>1. IInv => NoSharedSlot
  <2> SUFFICES ASSUME IInv, pAt = "copy", cAt = "copy" PROVE NoSharedSlot
    BY DEF NoSharedSlot
  <2> DEFINE i == start % S
  <2>1. start \in Indices /\ Size \in 0 .. S
    BY MinusRange DEF IInv, TypeOK, IndexInv, Size, Indices
  <2>2. i \in 0 .. S - 1
    BY <2>1, DivisionFacts, SizeAssumption DEF Indices
  <2>3. pSlot = SlotOf(i, Size) /\ cSlot = i
    BY EndSlot DEF IInv, ProducerInv, ConsumerInv
  <2>4. /\ Len(source) \in Nat /\ Len(source) <= S - Size
        /\ want \in Nat /\ want <= Size
    BY <2>1, SizeAssumption DEF IInv, TypeOK, ProducerInv, ConsumerInv
  <2> HIDE DEF i
  <2>5. ASSUME NEW j \in 0 .. Len(source) - 1, NEW k \in 0 .. want - 1
        PROVE  SlotOf(pSlot, j) # SlotOf(cSlot, k)
    <3>1. j \in Nat /\ j < S - Size /\ k \in Nat /\ k < Size
      BY <2>1, <2>4, SizeAssumption
    <3> QED BY <2>1, <2>2, <2>3, <3>1, SizeAssumption DEF SlotOf
  <2> QED BY <2>5 DEF NoSharedSlot
<1>2. IInv => TypeOK /\ NoOverrun /\ NoSharedSlot
  BY <1>1 DEF IInv, IndexInv, NoOverrun
<1> QED BY <1>2, Invariance, PTL

\* Where S divides the range of size_t, that is the code with no proviso.
COROLLARY PowerOfTwoSafety ==
    Divides => (Spec => [](TypeOK /\ NoOverrun /\ NoSharedSlot))
<1>1. ASSUME Divides PROVE Spec => InServiceSpec
  <2>1. [Next]_vars => [InServiceNext]_vars
    BY <1>1 DEF InServiceNext, InService
  <2> QED BY <2>1, PTL DEF Spec, InServiceSpec
<1> QED BY <1>1, Safety

\* Until `end` wraps, empty() is exact for every S.
THEOREM EmptyBeforeWrap == BeforeWrapSpec => [](EmptyIsExact /\ start <= end)
<1> DEFINE Ordered == IInv /\ start <= end
<1>1. Init => Ordered
  BY InitIInv DEF Init
<1>2. Ordered /\ [BeforeWrapNext]_vars => Ordered'
  <2> SUFFICES ASSUME IInv, start <= end, [BeforeWrapNext]_vars
               PROVE  IInv' /\ (start <= end)'
    OBVIOUS
  <2>1. IInv'
    BY ProducerKeepsIInv, ConsumerKeepsIInv, StutterKeepsIInv
       DEF BeforeWrapNext, Next, InService
  <2> SUFFICES (start <= end)'
    BY <2>1
  <2>2. start \in Indices /\ end \in Indices
    BY DEF IInv, TypeOK
  <2>3. CASE PushEnd /\ end' >= end
    <3>1. Len(source) \in Nat
      BY DEF IInv, TypeOK
    <3> QED BY <2>2, <2>3, <3>1, SizeAssumption DEF PushEnd, Plus, Indices
  <2>4. CASE ShiftEnd
    <3>1. want \in 1 .. avail /\ avail \in Nat /\ avail <= Size
      BY <2>4, SizeAssumption DEF IInv, TypeOK, ConsumerInv, ShiftEnd
    <3> QED BY <2>2, <2>4, <3>1, SizeAssumption
            DEF ShiftEnd, Plus, Minus, Size, Indices
  <2>5. CASE ClearStore
    <3>1. seen \in Indices /\ Minus(seen, start) <= Size
      BY <2>5 DEF IInv, TypeOK, ConsumerInv, ClearStore
    <3> QED BY <2>2, <2>5, <3>1, SizeAssumption
            DEF ClearStore, Minus, Size, Indices
  <2>6. CASE UNCHANGED <<start, end>>
    BY <2>6
  <2>7. \/ PushEnd /\ end' >= end
        \/ ShiftEnd
        \/ ClearStore
        \/ UNCHANGED <<start, end>>
    BY DEF BeforeWrapNext, Next, ProducerStep, ConsumerStep, ShiftStep,
           AskCapacity, PushBegin, PushCopy, PushEnd, AskAvailable, ShiftBegin,
           ShiftCopy, ShiftEnd, ClearLoad, ClearStore, shared, vars
  <2> QED BY <2>3, <2>4, <2>5, <2>6, <2>7
<1>3. Ordered => EmptyIsExact /\ start <= end
  BY SizeAssumption
     DEF IInv, TypeOK, EmptyIsExact, Empty, Size, Minus, Indices
<1> QED BY <1>1, <1>2, <1>3, PTL DEF BeforeWrapSpec


-----------------------------------------------------------------------------
(***************************************************************************)
(* The invariant: what each thread's copy has reached so far.              *)
(***************************************************************************)

\* The elements copied are in the slots past `end`, not yet published ...
PushedSoFar == pAt = "copy" =>
    \A j \in 0 .. copied - 1 : data[SlotOf(pSlot, j)] = source[j + 1]

\* ... and those shifted are still in the slots from `start`, not yet freed.
ShiftedSoFar == cAt = "copy" =>
    \A k \in 0 .. Len(dest) - 1 : dest[k + 1] = data[SlotOf(cSlot, k)]

FInv == IInv /\ PushedSoFar /\ ShiftedSoFar

-----------------------------------------------------------------------------
(***************************************************************************)
(* Where things are.                                                       *)
(***************************************************************************)

\* The indices as slots.
LEMMA Places ==
    ASSUME IInv
    PROVE  /\ S \in Nat \ {0} /\ Size \in 0 .. S
           /\ start % S \in 0 .. S - 1
           /\ start \in Nat
           /\ end % S = SlotOf(start % S, Size)
           /\ pAt = "copy" => /\ pSlot = SlotOf(start % S, Size)
                             /\ copied \in Nat
                             /\ copied <= Len(source)
                             /\ source \in Seq(Values)
                             /\ Len(source) \in 1 .. S - Size
           /\ cAt = "copy" => /\ cSlot = start % S
                             /\ want \in 1 .. Size
                             /\ dest \in Seq(Values \union {Junk})
                             /\ Len(dest) <= want
<1>1. S \in Nat \ {0} /\ start \in Indices /\ start \in Nat /\ Size \in 0 .. S
  BY SizeAssumption, MinusRange DEF IInv, TypeOK, IndexInv, Size, Indices
<1>2. start % S \in 0 .. S - 1 /\ end % S = SlotOf(start % S, Size)
  BY <1>1, DivisionFacts, EndSlot
<1>3. pAt = "copy" => /\ pSlot = end % S
                     /\ copied \in Nat
                     /\ copied <= Len(source)
                     /\ source \in Seq(Values)
                     /\ Len(source) \in 1 .. S - Size
  BY <1>1 DEF IInv, TypeOK, ProducerInv
<1>4. cAt = "copy" => /\ cSlot = start % S
                     /\ want \in 1 .. Size
                     /\ dest \in Seq(Values \union {Junk})
                     /\ Len(dest) <= want
  BY <1>1 DEF IInv, TypeOK, ConsumerInv
<1> QED BY <1>1, <1>2, <1>3, <1>4

\* Counting on from slot to slot.
LEMMA SlotAfterSlot ==
    ASSUME S \in Nat \ {0}, NEW a \in 0 .. S - 1, NEW n \in 0 .. S, NEW k \in Nat, n + k <= S - 1
    PROVE  SlotOf(SlotOf(a, n), k) = SlotOf(a, n + k)
BY DEF SlotOf

\* Fewer than S slots on, no slot comes twice.
LEMMA SlotsDiffer ==
    ASSUME S \in Nat \ {0}, NEW a \in 0 .. S - 1, NEW j \in 0 .. S - 1, NEW k \in 0 .. S - 1,
           SlotOf(a, j) = SlotOf(a, k)
    PROVE  j = k
BY DEF SlotOf

\* What waits, slot by slot.
ReadOff ==
    \A cells : IInv /\ cells = Contents =>
        /\ cells \in Seq(Values \union {Junk})
        /\ Len(cells) = Size
        /\ DOMAIN cells = 1 .. Size
        /\ \A k \in 0 .. Size - 1 : cells[k + 1] = data[SlotOf(start % S, k)]

LEMMA ContentsAre == ReadOff
<1> SUFFICES ASSUME IInv PROVE ReadOff
  BY DEF ReadOff
<1>1. /\ S \in Nat \ {0} /\ Size \in 0 .. S /\ start % S \in 0 .. S - 1 /\ start \in Nat
  BY Places
<1>2. \A k \in 0 .. S : (start + k) % S = SlotOf(start % S, k)
  BY <1>1, SlotOfSum DEF SlotOf
<1>3. ASSUME NEW k \in 0 .. Size - 1
      PROVE  /\ Contents[k + 1] = data[SlotOf(start % S, k)]
             /\ Contents[k + 1] \in Values \union {Junk}
  <2>1. k + 1 \in 1 .. Size /\ start + (k + 1) - 1 = start + k /\ k \in 0 .. S
    BY <1>1
  <2>2. Contents[k + 1] = data[(start + k) % S]
    BY <2>1 DEF Contents
  <2>3. SlotOf(start % S, k) \in Slots
    BY <1>1, <2>1 DEF SlotOf, Slots
  <2>4. \A s \in Slots : data[s] \in Values \union {Junk}
    BY DEF IInv, TypeOK
  <2> QED BY <1>2, <2>1, <2>2, <2>3, <2>4
<1>4. ASSUME NEW k \in 1 .. Size PROVE Contents[k] \in Values \union {Junk}
  <2>1. k - 1 \in 0 .. Size - 1 /\ (k - 1) + 1 = k
    BY <1>1
  <2> QED BY <1>3, <2>1
<1>5. DOMAIN Contents = 1 .. Size /\ Contents = [k \in 1 .. Size |-> Contents[k]]
  BY DEF Contents
<1> HIDE DEF Contents
<1>6. Contents \in Seq(Values \union {Junk}) /\ Len(Contents) = Size
  BY <1>1, <1>4, <1>5
<1> QED BY <1>3, <1>5, <1>6 DEF ReadOff

LEMMA ContentsWillBe == ReadOff'
BY ContentsAre, PTL

\* Sequences of the same length with the same elements are the same.
LEMMA SameSequence ==
    ASSUME NEW T, NEW p \in Seq(T), NEW q \in Seq(T), NEW n \in Nat, Len(p) = n, Len(q) = n,
           \A k \in 0 .. n - 1 : p[k + 1] = q[k + 1]
    PROVE  p = q
<1>1. \A k \in 1 .. n : p[k] = q[k]
  <2>1. \A k \in 1 .. n : k - 1 \in 0 .. n - 1 /\ (k - 1) + 1 = k
    OBVIOUS
  <2> QED BY <2>1
<1> QED BY <1>1
\* The first values of a sequence, and the others.
LEMMA Parts ==
    ASSUME NEW T, NEW q \in Seq(T), NEW n \in 0 .. Len(q)
    PROVE  /\ SubSeq(q, 1, n) \in Seq(T) /\ Len(SubSeq(q, 1, n)) = n
           /\ \A k \in 0 .. n - 1 : SubSeq(q, 1, n)[k + 1] = q[k + 1]
           /\ SubSeq(q, n + 1, Len(q)) \in Seq(T) /\ Len(SubSeq(q, n + 1, Len(q))) = Len(q) - n
           /\ \A k \in 0 .. Len(q) - n - 1 : SubSeq(q, n + 1, Len(q))[k + 1] = q[n + (k + 1)]
<1>1. Len(q) \in Nat /\ n \in Nat
  OBVIOUS
<1>2. /\ SubSeq(q, 1, n) \in Seq(T) /\ Len(SubSeq(q, 1, n)) = n
      /\ \A k \in 1 .. n : SubSeq(q, 1, n)[k] = q[k]
  BY <1>1
<1>3. /\ SubSeq(q, n + 1, Len(q)) \in Seq(T) /\ Len(SubSeq(q, n + 1, Len(q))) = Len(q) - n
      /\ \A k \in 1 .. Len(q) - n : SubSeq(q, n + 1, Len(q))[k] = q[n + k]
  BY <1>1
<1>4. /\ \A k \in 0 .. n - 1 : k + 1 \in 1 .. n
      /\ \A k \in 0 .. Len(q) - n - 1 : k + 1 \in 1 .. Len(q) - n
  BY <1>1
<1> QED BY <1>2, <1>3, <1>4

\* Two sequences put together.
LEMMA Joined ==
    ASSUME NEW T, NEW p \in Seq(T), NEW q \in Seq(T), NEW w, w = p \o q
    PROVE  /\ w \in Seq(T) /\ Len(w) = Len(p) + Len(q)
           /\ \A k \in 0 .. Len(p) - 1 : w[k + 1] = p[k + 1]
           /\ \A j \in 0 .. Len(q) - 1 : w[Len(p) + j + 1] = q[j + 1]
<1>1. Len(p) \in Nat /\ Len(q) \in Nat
  OBVIOUS
<1>2. /\ w \in Seq(T) /\ Len(w) = Len(p) + Len(q)
      /\ \A k \in 1 .. Len(p) : w[k] = p[k]
      /\ \A j \in 1 .. Len(q) : w[Len(p) + j] = q[j]
  OBVIOUS
<1>3. /\ \A k \in 0 .. Len(p) - 1 : k + 1 \in 1 .. Len(p)
      /\ \A j \in 0 .. Len(q) - 1 : j + 1 \in 1 .. Len(q) /\ Len(p) + j + 1 = Len(p) + (j + 1)
  BY <1>1
<1> QED BY <1>2, <1>3

-----------------------------------------------------------------------------
(***************************************************************************)
(* What the steps do to what waits.                                        *)
(***************************************************************************)

\* Moving `start` on by n removes the first n values.
LEMMA Removes ==
    ASSUME IInv, IInv', NEW n \in 0 .. S, n <= Size, start' = Plus(start, n),
           UNCHANGED <<end, data>>
    PROVE  Contents' = SubSeq(Contents, n + 1, Len(Contents))
<1> DEFINE T == Values \union {Junk}
<1>1. PICK z \in 0 .. S : z = Size /\ n <= z
  BY Places
<1>2. PICK a \in 0 .. S - 1 : a = start % S
  BY Places
<1>0. S \in Nat \ {0} /\ start \in Indices /\ end \in Indices
  BY SizeAssumption DEF IInv, TypeOK
<1>3. start' % S = SlotOf(a, n) /\ Size' = z - n
  <2>1. IndexRange \in Nat /\ 2 * S <= IndexRange
    BY SizeAssumption
  <2>2. Size' = z - n
    BY <1>0, <1>1, <2>1 DEF Plus, Minus, Size, Indices
  <2>3. Divides \/ start + n < IndexRange
    BY <1>0, <1>1, <2>1 DEF IInv, IndexInv, Size, Minus, Indices
  <2>4. S <= IndexRange
    BY <1>0, <2>1
  <2> QED BY <1>0, <1>2, <2>1, <2>2, <2>3, <2>4, SlotOfPlus DEF Divides, SlotOf, Plus, Indices
<1>4. PICK old \in Seq(T) : /\ old = Contents /\ Len(old) = z
                            /\ \A k \in 0 .. z - 1 : old[k + 1] = data[SlotOf(a, k)]
  BY <1>1, <1>2, ContentsAre DEF ReadOff
<1>5. PICK new \in Seq(T) : /\ new = Contents' /\ Len(new) = z - n
                            /\ \A k \in 0 .. z - n - 1 : new[k + 1] = data[SlotOf(SlotOf(a, n), k)]
  BY <1>3, ContentsWillBe DEF ReadOff
<1>6. PICK rest \in Seq(T) : /\ rest = SubSeq(old, n + 1, z) /\ Len(rest) = z - n
                             /\ \A k \in 0 .. z - n - 1 : rest[k + 1] = old[n + (k + 1)]
  <2>1. n \in 0 .. Len(old)
    BY <1>1, <1>4
  <2>2. PICK w : w = SubSeq(old, n + 1, Len(old))
    OBVIOUS
  <2>3. /\ w \in Seq(T) /\ Len(w) = Len(old) - n
        /\ \A k \in 0 .. Len(old) - n - 1 : w[k + 1] = old[n + (k + 1)]
    BY <2>1, <2>2, Parts
  <2> QED BY <1>4, <2>2, <2>3
<1>7. ASSUME NEW k \in 0 .. z - n - 1 PROVE new[k + 1] = rest[k + 1]
  <2>1. n + k \in 0 .. z - 1 /\ n + (k + 1) = (n + k) + 1 /\ k \in Nat /\ n + k <= S - 1
    BY <1>1, <1>0
  <2>2. SlotOf(SlotOf(a, n), k) = SlotOf(a, n + k)
    BY <1>0, <2>1, SlotAfterSlot
  <2>3. new[k + 1] = data[SlotOf(a, n + k)]
    BY <1>5, <2>2
  <2>4. rest[k + 1] = old[(n + k) + 1]
    BY <1>6, <2>1
  <2> QED BY <1>4, <2>1, <2>3, <2>4
<1>8. new = rest
  <2>1. z - n \in Nat
    BY <1>1
  <2> QED BY <1>5, <1>6, <1>7, <2>1, SameSequence
<1> QED BY <1>4, <1>5, <1>6, <1>8

\* Publishing a whole copy appends it.
LEMMA Publishes ==
    ASSUME FInv, IInv', PushEnd, InService
    PROVE  Contents' = Contents \o source
<1> DEFINE T == Values \union {Junk}
<1>0. S \in Nat \ {0} /\ start \in Indices /\ end \in Indices
  BY SizeAssumption DEF FInv, IInv, TypeOK
<1>1. PICK z \in 0 .. S : z = Size
  BY Places DEF FInv
<1>2. PICK a \in 0 .. S - 1 : a = start % S
  BY Places DEF FInv
<1>3. PICK n \in 1 .. S - z : n = Len(source) /\ n = copied /\ end' = Plus(end, n)
  BY <1>1, Places DEF FInv, PushEnd
<1>4. source \in Seq(Values) /\ pSlot = SlotOf(a, z) /\ UNCHANGED <<start, data>>
  BY <1>1, <1>2, Places DEF FInv, PushEnd
<1>5. Size' = z + n
  <2>1. IndexRange \in Nat /\ 2 * S <= IndexRange
    BY SizeAssumption
  <2> QED BY <1>0, <1>1, <1>3, <1>4, <2>1 DEF Plus, Minus, Size, Indices
<1>6. PICK old \in Seq(T) : /\ old = Contents /\ Len(old) = z
                            /\ \A k \in 0 .. z - 1 : old[k + 1] = data[SlotOf(a, k)]
  BY <1>1, <1>2, ContentsAre DEF ReadOff, FInv
<1>7. PICK new \in Seq(T) : /\ new = Contents' /\ Len(new) = z + n
                            /\ \A k \in 0 .. z + n - 1 : new[k + 1] = data[SlotOf(a, k)]
  BY <1>2, <1>4, <1>5, ContentsWillBe DEF ReadOff
<1>8. PICK src \in Seq(T) : src = source /\ Len(src) = n
  <2>1. source \in Seq(T)
    BY <1>4
  <2> QED BY <1>3, <2>1
<1>9. PICK sum \in Seq(T) : /\ sum = old \o src /\ Len(sum) = z + n
                            /\ \A k \in 0 .. z - 1 : sum[k + 1] = old[k + 1]
                            /\ \A j \in 0 .. n - 1 : sum[z + j + 1] = src[j + 1]
  <2>1. PICK w : w = old \o src
    OBVIOUS
  <2>2. /\ w \in Seq(T) /\ Len(w) = Len(old) + Len(src)
        /\ \A k \in 0 .. Len(old) - 1 : w[k + 1] = old[k + 1]
        /\ \A j \in 0 .. Len(src) - 1 : w[Len(old) + j + 1] = src[j + 1]
    <3>1. old \in Seq(T) /\ src \in Seq(T)
      OBVIOUS
    <3> HIDE DEF T
    <3> QED BY <2>1, <3>1, Joined
  <2> QED BY <1>6, <1>8, <2>1, <2>2, Zenon
<1>10. ASSUME NEW k \in 0 .. z + n - 1 PROVE new[k + 1] = sum[k + 1]
  <2>1. CASE k < z
    <3>1. k \in 0 .. z - 1
      BY <1>1, <1>3, <2>1
    <3> QED BY <1>6, <1>7, <1>9, <3>1
  <2>2. CASE ~(k < z)
    <3>1. PICK j \in 0 .. n - 1 : k = z + j
      <4>1. k - z \in 0 .. n - 1 /\ k = z + (k - z)
        BY <1>1, <1>3, <2>2
      <4> QED BY <4>1
    <3>2. j \in Nat /\ z + j <= S - 1
      BY <1>0, <1>1, <1>3, <3>1
    <3>3. data[SlotOf(a, z + j)] = src[j + 1]
      <4>1. SlotOf(SlotOf(a, z), j) = SlotOf(a, z + j)
        BY <1>0, <3>2, SlotAfterSlot
      <4>2. data[SlotOf(pSlot, j)] = source[j + 1]
        BY <1>3, <3>1 DEF FInv, PushedSoFar, PushEnd
      <4> QED BY <1>4, <1>8, <4>1, <4>2
    <3>4. sum[k + 1] = src[j + 1]
      BY <1>9, <3>1
    <3> QED BY <1>7, <3>1, <3>3, <3>4
  <2> QED BY <2>1, <2>2
<1>11. new = sum
  <2>1. PICK m \in Nat : m = z + n
    BY <1>1, <1>3
  <2>2. new \in Seq(T) /\ sum \in Seq(T) /\ Len(new) = m /\ Len(sum) = m
    BY <1>7, <1>9, <2>1
  <2>3. \A k \in 0 .. m - 1 : new[k + 1] = sum[k + 1]
    BY <1>10, <2>1
  <2> HIDE DEF T
  <2> QED BY <2>2, <2>3, SameSequence
<1> QED BY <1>6, <1>7, <1>8, <1>9, <1>11

\* The slot being written holds nothing that waits, and no other element of the
\* push.
LEMMA WritesApart ==
    ASSUME IInv, PushCopy
    PROVE  /\ \A k \in 0 .. Size - 1 : SlotOf(pSlot, copied) # SlotOf(start % S, k)
           /\ \A j \in 0 .. copied - 1 : SlotOf(pSlot, copied) # SlotOf(pSlot, j)
           /\ SlotOf(pSlot, copied) \in Slots
<1>0. S \in Nat \ {0}
  BY SizeAssumption
<1>1. PICK z \in 0 .. S, a \in 0 .. S - 1 : z = Size /\ a = start % S
  BY Places
<1>2. PICK c \in 0 .. S - z - 1 : c = copied /\ pSlot = SlotOf(a, z)
  <2>1. /\ copied \in Nat /\ copied < Len(source) /\ Len(source) \in 1 .. S - z
        /\ pSlot = SlotOf(a, z)
    <3>1. copied <= Len(source) /\ copied # Len(source)
      BY Places DEF PushCopy
    <3> QED BY <1>1, <3>1, Places DEF PushCopy
  <2> QED BY <1>0, <1>1, <2>1
<1>3. \A j \in 0 .. c : z + j \in 0 .. S - 1 /\ SlotOf(pSlot, j) = SlotOf(a, z + j)
  <2>1. \A j \in 0 .. c : z + j \in 0 .. S - 1 /\ j \in Nat /\ z + j <= S - 1
    BY <1>0, <1>1, <1>2
  <2> QED BY <1>0, <1>2, <2>1, SlotAfterSlot
<1>4. ASSUME NEW k \in 0 .. z - 1 PROVE SlotOf(pSlot, c) # SlotOf(a, k)
  <2>1. k \in 0 .. S - 1 /\ c \in 0 .. c /\ z + c # k
    BY <1>0, <1>1, <1>2
  <2> QED BY <1>0, <1>3, <2>1, SlotsDiffer
<1>5. ASSUME NEW j \in 0 .. c - 1 PROVE SlotOf(pSlot, c) # SlotOf(pSlot, j)
  <2>1. j \in 0 .. c /\ c \in 0 .. c /\ z + c # z + j
    BY <1>0, <1>1, <1>2
  <2> QED BY <1>0, <1>3, <2>1, SlotsDiffer
<1>6. SlotOf(pSlot, c) \in Slots
  <2>1. c \in 0 .. c /\ z + c \in 0 .. S - 1
    BY <1>2, <1>3
  <2>2. SlotOf(pSlot, c) = SlotOf(a, z + c)
    BY <1>3, <2>1
  <2>3. SlotOf(a, z + c) \in 0 .. S - 1
    BY <1>0, <2>1 DEF SlotOf
  <2> QED BY <2>2, <2>3 DEF Slots
<1> QED BY <1>1, <1>2, <1>4, <1>5, <1>6
-----------------------------------------------------------------------------
(***************************************************************************)
(* The refinement.                                                         *)
(***************************************************************************)
StepsAsQueue == PushedSoFar' /\ ShiftedSoFar' /\ [Queue!Next]_(Queue!qvars)

\* A step that moves neither index, writes no slot, and leaves the producer's
\* push and what was returned alone is none of the queue's.
LEMMA Quiet ==
    ASSUME UNCHANGED <<start, end, data, pAt, source, returned>>
    PROVE  UNCHANGED Queue!qvars
BY DEF Queue!qvars, Contents, Size, Offered

LEMMA ProducerStepsAsQueue ==
    ASSUME FInv, IInv', ProducerStep, InService
    PROVE  StepsAsQueue
<1> DEFINE T == Values \union {Junk}
<1>1. PICK z \in 0 .. S : z = Size /\ S \in Nat \ {0} /\ Len(Contents) = z
  BY Places, ContentsAre DEF FInv, ReadOff
<1>2. CASE AskCapacity
  BY <1>2, Quiet
     DEF StepsAsQueue, FInv, AskCapacity, shared, consumer, PushedSoFar, ShiftedSoFar
<1>3. CASE PushBegin
  <2>1. PICK n \in 1 .. S : n <= room /\ source' \in [1 .. n -> Values]
    BY <1>3 DEF PushBegin
  <2>2. n \in 1 .. S - Len(Contents)
    <3>1. room \in 0 .. S /\ room <= S - Size
      BY DEF FInv, IInv, TypeOK, ProducerInv
    <3> QED BY <1>1, <2>1, <3>1
  <2>3. Offered = <<>> /\ Offered' = source' /\ UNCHANGED <<Contents, returned>>
    BY <1>3 DEF PushBegin, Offered, Contents, Size, shared, consumer
  <2>4. Queue!Offer
    BY <2>1, <2>2, <2>3 DEF Queue!Offer
  <2>5. PushedSoFar' /\ ShiftedSoFar'
    BY <1>3 DEF FInv, PushBegin, shared, consumer, PushedSoFar, ShiftedSoFar
  <2> QED BY <2>4, <2>5 DEF StepsAsQueue, Queue!Next
<1>4. CASE PushCopy
  <2> DEFINE s == SlotOf(pSlot, copied)
  <2>1. /\ \A k \in 0 .. Size - 1 : s # SlotOf(start % S, k)
        /\ \A j \in 0 .. copied - 1 : s # SlotOf(pSlot, j)
        /\ s \in Slots
    BY <1>4, WritesApart DEF FInv
  <2>2. /\ data'[s] = source[copied + 1]
        /\ \A r \in Slots : r # s => data'[r] = data[r]
    BY <1>4, <2>1 DEF FInv, IInv, TypeOK, PushCopy
  <2>3. \A r \in 0 .. S - 1 : SlotOf(start % S, r) \in Slots
    <3>1. start % S \in 0 .. S - 1
      BY Places DEF FInv
    <3> QED BY <1>1, <3>1 DEF SlotOf, Slots
  <2> HIDE DEF s
  <2>4. Contents' = Contents
    <3>1. Size' = Size /\ start' = start
      BY <1>4 DEF PushCopy, Size
    <3>2. PICK old \in Seq(T) : /\ old = Contents /\ Len(old) = z
                                /\ \A k \in 0 .. z - 1 : old[k + 1] = data[SlotOf(start % S, k)]
      BY <1>1, ContentsAre DEF ReadOff, FInv
    <3>3. PICK new \in Seq(T) : /\ new = Contents' /\ Len(new) = z
                                /\ \A k \in 0 .. z - 1 : new[k + 1] = data'[SlotOf(start % S, k)]
      BY <1>1, <3>1, ContentsWillBe DEF ReadOff
    <3>4. ASSUME NEW k \in 0 .. z - 1 PROVE old[k + 1] = new[k + 1]
      <4>1. SlotOf(start % S, k) \in Slots /\ SlotOf(start % S, k) # s
        BY <1>1, <2>1, <2>3
      <4> QED BY <2>2, <3>2, <3>3, <4>1
    <3> HIDE DEF T
    <3>5. z \in Nat
      BY <1>1
    <3> QED BY <3>2, <3>3, <3>4, <3>5, SameSequence
  <2>5. UNCHANGED Queue!qvars
    BY <1>4, <2>4 DEF Queue!qvars, PushCopy, Offered, consumer
  <2>6. PushedSoFar'
    <3>1. copied \in Nat /\ copied' = copied + 1 /\ UNCHANGED <<pAt, pSlot, source>>
      BY <1>4, Places DEF FInv, PushCopy
    <3>2. \A j \in 0 .. copied - 1 : SlotOf(pSlot, j) \in Slots
      <4>1. pSlot \in 0 .. S - 1 /\ copied < S
        <5>1. pSlot \in 0 .. S - 1
          BY DEF FInv, IInv, TypeOK, Slots
        <5>2. copied \in Nat /\ copied <= Len(source) /\ Len(source) \in 1 .. S - Size
              /\ copied # Len(source)
          BY <1>4, Places DEF FInv, PushCopy
        <5> QED BY <1>1, <5>1, <5>2
      <4> QED BY <1>1, <3>1, <4>1 DEF SlotOf, Slots
    <3>3. ASSUME NEW j \in 0 .. copied PROVE data'[SlotOf(pSlot, j)] = source[j + 1]
      <4>1. CASE j = copied
        BY <2>2, <4>1 DEF s
      <4>2. CASE j # copied
        <5>1. j \in 0 .. copied - 1
          BY <3>1, <4>2
        <5> QED BY <1>4, <2>1, <2>2, <3>2, <5>1 DEF FInv, PushedSoFar, PushCopy
      <4> QED BY <4>1, <4>2
    <3> QED BY <3>1, <3>3 DEF PushedSoFar
  <2>7. ShiftedSoFar'
    <3> SUFFICES ASSUME cAt' = "copy", NEW k \in 0 .. Len(dest') - 1
                 PROVE  dest'[k + 1] = data'[SlotOf(cSlot', k)]
      BY DEF ShiftedSoFar
    <3>1. UNCHANGED <<cAt, cSlot, dest>>
      BY <1>4 DEF PushCopy, consumer
    <3>2. k \in 0 .. Size - 1 /\ k \in 0 .. S - 1 /\ cSlot = start % S
      BY <1>1, <3>1, Places DEF FInv
    <3>3. SlotOf(cSlot, k) \in Slots /\ SlotOf(cSlot, k) # s
      BY <2>1, <2>3, <3>2
    <3>4. dest[k + 1] = data[SlotOf(cSlot, k)]
      BY <3>1 DEF FInv, ShiftedSoFar
    <3> QED BY <2>2, <3>1, <3>3, <3>4
  <2> QED BY <2>5, <2>6, <2>7 DEF StepsAsQueue
<1>5. CASE PushEnd
  <2>1. Contents' = Contents \o source
    BY <1>5, Publishes
  <2>2. Offered = source /\ Offered' = <<>> /\ UNCHANGED returned
    BY <1>5 DEF PushEnd, Offered, consumer
  <2>3. source # <<>>
    BY <1>5, Places DEF FInv, PushEnd
  <2>4. Queue!Enqueue
    BY <2>1, <2>2, <2>3 DEF Queue!Enqueue
  <2>5. PushedSoFar' /\ ShiftedSoFar'
    BY <1>5 DEF FInv, PushEnd, consumer, PushedSoFar, ShiftedSoFar
  <2> QED BY <2>4, <2>5 DEF StepsAsQueue, Queue!Next
<1> QED BY <1>2, <1>3, <1>4, <1>5 DEF ProducerStep

LEMMA ConsumerStepsAsQueue ==
    ASSUME FInv, IInv', ConsumerStep
    PROVE  StepsAsQueue
<1> DEFINE T == Values \union {Junk}
<1>1. PICK z \in 0 .. S, old \in Seq(T) :
        /\ S \in Nat /\ z = Size /\ old = Contents /\ Len(old) = z
        /\ \A k \in 0 .. z - 1 : old[k + 1] = data[SlotOf(start % S, k)]
  BY Places, ContentsAre DEF FInv, ReadOff
<1>2. CASE AskAvailable \/ ShiftBegin \/ ClearLoad
  <2>1. UNCHANGED <<start, end, data, pAt, pSlot, source, copied, returned>>
    BY <1>2 DEF AskAvailable, ShiftBegin, ClearLoad, shared, producer
  <2>2. cAt' = "copy" => dest' = <<>>
    BY <1>2 DEF AskAvailable, ShiftBegin, ClearLoad, shared, producer
  <2>3. PushedSoFar' /\ ShiftedSoFar'
    BY <2>1, <2>2 DEF FInv, PushedSoFar, ShiftedSoFar
  <2> QED BY <2>1, <2>3, Quiet DEF StepsAsQueue
<1>3. CASE ShiftCopy
  <2>1. UNCHANGED <<start, end, data, pAt, pSlot, source, copied, cAt, cSlot, returned>>
    BY <1>3 DEF ShiftCopy, shared, producer
  <2>2. /\ cAt = "copy" /\ dest \in Seq(T)
        /\ dest' = Append(dest, data[SlotOf(cSlot, Len(dest))])
    BY <1>3, Places DEF FInv, ShiftCopy
  <2>3. ShiftedSoFar'
    <3>1. \A k \in 0 .. Len(dest) - 1 : dest[k + 1] = data[SlotOf(cSlot, k)]
      BY <2>2 DEF FInv, ShiftedSoFar
    <3>2. \A k \in 0 .. Len(dest') - 1 : dest'[k + 1] = data[SlotOf(cSlot, k)]
      BY <2>2, <3>1
    <3> QED BY <2>1, <3>2 DEF ShiftedSoFar
  <2>4. PushedSoFar'
    BY <2>1 DEF FInv, PushedSoFar
  <2> QED BY <2>1, <2>3, <2>4, Quiet DEF StepsAsQueue
<1>4. CASE ShiftEnd
  <2>1. PICK n \in 1 .. z : n = want /\ Len(dest) = n /\ start' = Plus(start, n)
    BY <1>1, <1>4, Places DEF FInv, ShiftEnd
  <2>2. UNCHANGED <<end, data, pAt, pSlot, source, copied, dest>> /\ returned' = dest
    BY <1>4 DEF ShiftEnd, producer
  <2>3. Contents' = SubSeq(Contents, n + 1, Len(Contents))
    <3>1. n \in 0 .. S /\ n <= Size
      BY <1>1, <2>1
    <3> QED BY <2>1, <2>2, <3>1, Removes DEF FInv
  <2>4. returned' = SubSeq(Contents, 1, n)
    <3>1. PICK first : first = SubSeq(old, 1, n)
      OBVIOUS
    <3>2. first \in Seq(T) /\ Len(first) = n /\ \A k \in 0 .. n - 1 : first[k + 1] = old[k + 1]
      <4>1. n \in 0 .. Len(old)
        BY <1>1, <2>1
      <4> QED BY <3>1, <4>1, Parts
    <3>3. dest \in Seq(T) /\ \A k \in 0 .. n - 1 : dest[k + 1] = data[SlotOf(start % S, k)]
      BY <1>4, <2>1, Places DEF FInv, ShiftedSoFar, ShiftEnd
    <3>4. \A k \in 0 .. n - 1 : dest[k + 1] = first[k + 1]
      <4>1. \A k \in 0 .. n - 1 : k \in 0 .. z - 1
        BY <1>1, <2>1
      <4> QED BY <1>1, <3>2, <3>3, <4>1
    <3>5. n \in Nat
      BY <2>1
    <3> HIDE DEF T
    <3>6. dest = first
      BY <2>1, <3>2, <3>3, <3>4, <3>5, SameSequence
    <3> QED BY <1>1, <2>2, <3>1, <3>6
  <2>5. n \in 1 .. Len(Contents) /\ Offered' = Offered
    BY <1>1, <2>1, <2>2 DEF Offered
  <2>6. Queue!Dequeue
    BY <2>3, <2>4, <2>5 DEF Queue!Dequeue
  <2>7. PushedSoFar' /\ ShiftedSoFar'
    BY <1>4, <2>2 DEF FInv, PushedSoFar, ShiftedSoFar, ShiftEnd
  <2> QED BY <2>6, <2>7 DEF StepsAsQueue, Queue!Next
<1>5. CASE ClearStore
  <2>1. PICK n \in 0 .. z : n = Minus(seen, start) /\ start' = Plus(start, n)
    <3>1. seen \in Indices /\ start \in Indices /\ start' = seen
      BY <1>5 DEF FInv, IInv, TypeOK, ClearStore
    <3>2. IndexRange \in Nat
      BY SizeAssumption
    <3>3. Minus(seen, start) \in 0 .. z
      BY <1>1, <1>5, <3>1, MinusRange DEF FInv, IInv, ConsumerInv, ClearStore, Indices
    <3>4. seen = Plus(start, Minus(seen, start))
      BY <3>1, <3>2 DEF Plus, Minus, Indices
    <3> QED BY <3>1, <3>3, <3>4
  <2>2. UNCHANGED <<end, data, pAt, pSlot, source, copied, returned>>
    BY <1>5 DEF ClearStore, producer
  <2>3. Contents' = SubSeq(Contents, n + 1, Len(Contents))
    <3>1. n \in 0 .. S /\ n <= Size
      BY <1>1, <2>1
    <3> QED BY <2>1, <2>2, <3>1, Removes DEF FInv
  <2>4. Offered' = Offered
    BY <2>2 DEF Offered
  <2>5. [Queue!Next]_(Queue!qvars)
    <3>1. CASE n = 0
      <4>1. SubSeq(old, 1, Len(old)) = old
        BY <1>1
      <4>2. Contents' = Contents
        BY <1>1, <2>3, <3>1, <4>1
      <4> QED BY <2>2, <2>4, <4>2 DEF Queue!qvars
    <3>2. CASE n # 0
      <4>1. n \in 1 .. Len(Contents)
        BY <1>1, <2>1, <3>2
      <4>2. Queue!Discard
        BY <2>2, <2>3, <2>4, <4>1 DEF Queue!Discard
      <4> QED BY <4>2 DEF Queue!Next
    <3> QED BY <3>1, <3>2
  <2>6. PushedSoFar' /\ ShiftedSoFar'
    BY <1>5, <2>2 DEF FInv, PushedSoFar, ShiftedSoFar, ClearStore
  <2> QED BY <2>5, <2>6 DEF StepsAsQueue
<1> QED BY <1>2, <1>3, <1>4, <1>5 DEF ConsumerStep, ShiftStep

\* Values come out in the order they went in, each of them once, however the
\* two threads interleave.
THEOREM Refinement == InServiceSpec => ImplementsFifo
<1>1. Init => PushedSoFar /\ ShiftedSoFar /\ Queue!Init
  <2> SUFFICES ASSUME Init PROVE PushedSoFar /\ ShiftedSoFar /\ Queue!Init
    OBVIOUS
  <2>1. Size = 0
    BY DEF Init, Size, Minus
  <2>2. Contents = <<>>
    BY <2>1 DEF Contents
  <2> QED BY <2>2 DEF Init, PushedSoFar, ShiftedSoFar, Queue!Init, Offered
<1>2. FInv /\ IInv' /\ [InServiceNext]_vars => StepsAsQueue
  <2>1. FInv /\ UNCHANGED vars => StepsAsQueue
    BY Quiet DEF StepsAsQueue, FInv, PushedSoFar, ShiftedSoFar, vars
  <2> QED BY <2>1, ProducerStepsAsQueue, ConsumerStepsAsQueue DEF InServiceNext, Next
<1>3. IInv /\ [InServiceNext]_vars => IInv'
  BY ProducerKeepsIInv, ConsumerKeepsIInv, StutterKeepsIInv
     DEF InServiceNext, Next
<1> QED BY <1>1, <1>2, <1>3, InitIInv, PTL
        DEF InServiceSpec, ImplementsFifo, Queue!Spec, FInv, StepsAsQueue
=============================================================================
