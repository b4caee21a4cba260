------------------------ MODULE ContiguousRingsProof ------------------------
(***************************************************************************)
(* Theorems about the two contiguous rings, for every S and N, every width  *)
(* of size_t and every set of values: the indices and cells stay in range,  *)
(* the two copies of DoubleRingBuffer agree, and both rings are queues.     *)
(***************************************************************************)
EXTENDS ContiguousRings, NaturalLemmas

-----------------------------------------------------------------------------
(***************************************************************************)
(* DoubleRingBuffer.                                                       *)
(***************************************************************************)

\* The slot n after slot i, of S.
Wrapped(i, n) == IF i + n < S THEN i + n ELSE i + n - S

IInv == TypeOK /\ Size <= S /\ Mirrored

\* The values in both copies of the slot of the k-th that waits.
InSlot(cells, k, v) ==
    /\ cells[Wrapped(start % S, k)] = v
    /\ cells[Wrapped(start % S, k) + S] = v

\* Indices as slots: `end` is Size after `start`.
LEMMA Places ==
    ASSUME TypeOK, Size <= S
    PROVE  /\ Size \in 0 .. S
           /\ start % S \in 0 .. S - 1
           /\ end % S = Wrapped(start % S, Size)
           /\ end = Plus(start, Size)
           /\ \A k \in 0 .. S : (start + k) % S = Wrapped(start % S, k)
<1>1. /\ S \in Nat \ {0} /\ IndexRange \in Nat /\ 2 * S <= IndexRange
      /\ S <= IndexRange /\ IndexRange % S = 0
  BY DoubleRingAssumption
<1>2. start \in Indices /\ end \in Indices /\ start \in Nat
  BY DEF TypeOK, Indices
<1>3. Size \in 0 .. S /\ end = Plus(start, Size)
  BY <1>1, <1>2 DEF Size, Minus, Plus, Indices
<1>4. start % S \in 0 .. S - 1
  BY <1>1, <1>2, DivisionFacts
<1>5. Plus(start, Size) % S = Wrapped(start % S, Size)
  BY <1>1, <1>2, <1>3, SlotOfPlus DEF Wrapped, Plus, Indices
<1>6. \A k \in 0 .. S : (start + k) % S = Wrapped(start % S, k)
  BY <1>1, <1>2, SlotOfSum DEF Wrapped
<1> QED BY <1>3, <1>4, <1>5, <1>6

\* The copies agree, said of slots.
LEMMA MirroredSlots ==
    ASSUME IInv, NEW k \in 0 .. Size - 1
    PROVE  /\ InSlot(data, k, StartData[k + 1])
           /\ StartData[k + 1] \in Values
<1> DEFINE a == start % S
           w == Wrapped(a, k)
<1>0. S \in Nat \ {0}
  BY DoubleRingAssumption
<1>1. Size \in 0 .. S /\ a \in 0 .. S - 1 /\ (start + k) % S = w
  BY Places, <1>0 DEF IInv
<1>2. data[w] = data[w + S] /\ data[w] \in Values
  BY <1>1 DEF IInv, Mirrored
<1>3. StartData[k + 1] = data[a + k]
  <2>1. k + 1 \in 1 .. Size /\ a + (k + 1) - 1 = a + k
    BY <1>1
  <2> QED BY <2>1 DEF StartData
<1>4. w = a + k \/ w + S = a + k
  BY <1>0, <1>1 DEF Wrapped
<1> QED BY <1>2, <1>3, <1>4 DEF InSlot

\* What waits is a sequence of values that were put.
LEMMA WaitingType ==
    ASSUME IInv
    PROVE  StartData \in Seq(Values) /\ Len(StartData) = Size /\ Size \in 0 .. S
<1>1. Size \in 0 .. S
  BY Places DEF IInv
<1>2. ASSUME NEW k \in 1 .. Size PROVE StartData[k] \in Values
  <2>1. k - 1 \in 0 .. Size - 1 /\ (k - 1) + 1 = k
    BY <1>1
  <2> QED BY <2>1, MirroredSlots
<1>3. DOMAIN StartData = 1 .. Size /\ StartData = [k \in 1 .. Size |-> StartData[k]]
  BY DEF StartData
<1> HIDE DEF StartData
<1> QED BY <1>1, <1>2, <1>3

\* If the slots of `waiting` hold its values, in both copies, it is what waits.
SlotsTell ==
    \A waiting \in Seq(Values) :
        /\ TypeOK /\ Size <= S /\ Len(waiting) = Size
        /\ \A k \in 0 .. Size - 1 : InSlot(data, k, waiting[k + 1])
        => IInv /\ StartData = waiting

LEMMA WaitingIs == SlotsTell
<1> SUFFICES ASSUME TypeOK, Size <= S,
                    NEW waiting \in Seq(Values), Len(waiting) = Size,
                    \A k \in 0 .. Size - 1 : InSlot(data, k, waiting[k + 1])
             PROVE  IInv /\ StartData = waiting
  BY DEF SlotsTell
<1> DEFINE a == start % S
<1>0. S \in Nat \ {0}
  BY DoubleRingAssumption
<1>1. /\ Size \in 0 .. S /\ a \in 0 .. S - 1
      /\ \A k \in 0 .. Size - 1 : (start + k) % S = Wrapped(a, k)
  BY Places, <1>0
<1>2. waiting = [k \in 1 .. Size |-> waiting[k]] /\ \A k \in 1 .. Size : waiting[k] \in Values
  BY <1>1
<1>3. Mirrored
  <2>1. ASSUME NEW k \in 0 .. Size - 1
        PROVE  LET i == (start + k) % S IN data[i] = data[i + S] /\ data[i] \in Values
    <3>1. k + 1 \in 1 .. Size
      BY <1>1
    <3> QED BY <1>1, <1>2, <3>1 DEF InSlot
  <2> QED BY <2>1 DEF Mirrored
<1>4. ASSUME NEW k \in 1 .. Size PROVE data[a + k - 1] = waiting[k]
  <2> DEFINE w == Wrapped(a, k - 1)
  <2>1. k - 1 \in 0 .. Size - 1 /\ (k - 1) + 1 = k
    BY <1>1
  <2>2. data[w] = waiting[k] /\ data[w + S] = waiting[k]
    BY <2>1 DEF InSlot
  <2>3. w = a + k - 1 \/ w + S = a + k - 1
    BY <1>0, <1>1, <2>1 DEF Wrapped
  <2> QED BY <2>2, <2>3
<1>5. StartData = waiting
  BY <1>2, <1>4 DEF StartData
<1> QED BY <1>3, <1>5 DEF IInv

LEMMA WaitingIsNext == SlotsTell'
BY WaitingIs, PTL

\* The parts of two sequences put together.
LEMMA Joined ==
    ASSUME NEW T, NEW p \in Seq(T), NEW q \in Seq(T)
    PROVE  /\ p \o q \in Seq(T) /\ Len(p \o q) = Len(p) + Len(q)
           /\ \A k \in 1 .. Len(p) : (p \o q)[k] = p[k]
           /\ \A j \in 1 .. Len(q) : (p \o q)[Len(p) + j] = q[j]
OBVIOUS

\* A sequence as a function.
LEMMA AsFunction ==
    ASSUME NEW T, NEW q \in Seq(T), NEW n \in Nat, Len(q) = n
    PROVE  q = [k \in 1 .. n |-> q[k]] /\ q \in [1 .. n -> T]
OBVIOUS

\* A call that leaves what waits where it is and puts a batch behind it.
LEMMA Appends ==
    ASSUME IInv, NEW batch \in Seq(Values), Len(batch) <= S - Size,
           end' = Plus(end, Len(batch)), put' \in Seq(Values), UNCHANGED <<start, taken>>,
           data' \in [Cells -> Values \union {Junk}],
           \A k \in 0 .. Size - 1 : InSlot(data', k, StartData[k + 1]),
           \A j \in 0 .. Len(batch) - 1 : InSlot(data', Size + j, batch[j + 1])
    PROVE  IInv' /\ StartData' = StartData \o batch /\ Size' = Size + Len(batch)
<1>0. S \in Nat \ {0} /\ IndexRange \in Nat /\ 2 * S <= IndexRange
  BY DoubleRingAssumption
<1>1. PICK n \in 0 .. S : n = Len(batch) /\ n <= S - Size
  BY <1>0, WaitingType
<1>2. PICK z \in 0 .. S : z = Size
  BY WaitingType
<1>3. PICK w \in Seq(Values) :
        /\ w = StartData \o batch
        /\ Len(w) = z + n
        /\ \A k \in 1 .. z : w[k] = StartData[k]
        /\ \A j \in 1 .. n : w[z + j] = batch[j]
  <2>1. StartData \in Seq(Values) /\ Len(StartData) = z
    BY <1>2, WaitingType
  <2>2. PICK s \in Seq(Values) : s = StartData
    BY <2>1
  <2>3. /\ s \o batch \in Seq(Values) /\ Len(s \o batch) = Len(s) + Len(batch)
        /\ \A k \in 1 .. Len(s) : (s \o batch)[k] = s[k]
        /\ \A j \in 1 .. Len(batch) : (s \o batch)[Len(s) + j] = batch[j]
    BY Joined
  <2>4. PICK w : w = s \o batch
    OBVIOUS
  <2> QED BY <1>1, <2>1, <2>2, <2>3, <2>4
<1>4. start \in Indices /\ end \in Indices
  BY DEF IInv, TypeOK
<1>5. end' \in Indices /\ Size' = z + n
  <2>1. end' = Plus(end, n) /\ start' = start
    BY <1>1
  <2> QED BY <2>1, <1>0, <1>1, <1>2, <1>4 DEF Plus, Minus, Size, Indices
<1>6. TypeOK'
  BY <1>4, <1>5 DEF IInv, TypeOK
<1>7. ASSUME NEW k \in 0 .. z + n - 1 PROVE InSlot(data, k, w[k + 1])'
  <2>1. InSlot(data', k, w[k + 1])
    <3>1. CASE k < z
      <4>1. k \in 0 .. Size - 1 /\ k + 1 \in 1 .. z
        BY <1>2, <3>1
      <4>2. w[k + 1] = StartData[k + 1]
        BY <4>1, <1>3
      <4>3. InSlot(data', k, StartData[k + 1])
        BY <4>1
      <4> QED BY <4>2, <4>3
    <3>2. CASE ~(k < z)
      <4>1. PICK j \in 0 .. n - 1 : k = z + j
        BY <3>2
      <4>2. w[k + 1] = batch[j + 1]
        <5>1. j + 1 \in 1 .. n /\ k + 1 = z + (j + 1)
          BY <4>1
        <5> QED BY <5>1, <1>3
      <4>3. InSlot(data', Size + j, batch[j + 1])
        BY <1>1, <4>1
      <4> QED BY <1>2, <4>1, <4>2, <4>3
    <3> QED BY <3>1, <3>2
  <2>2. start' = start
    OBVIOUS
  <2> QED BY <2>1, <2>2 DEF InSlot
<1>8. IInv' /\ StartData' = w
  <2>1. Size' <= S /\ Len(w) = Size'
    BY <1>0, <1>1, <1>2, <1>3, <1>5
  <2>2. \A k \in 0 .. Size' - 1 : InSlot(data, k, w[k + 1])'
    BY <1>5, <1>7
  <2> QED BY <1>6, <2>1, <2>2, WaitingIsNext DEF SlotsTell
<1> QED BY <1>1, <1>2, <1>3, <1>5, <1>8

\* A call that consumes the first n of what waits.
LEMMA Consumes ==
    ASSUME IInv, NEW n \in 0 .. S, n <= Size, start' = Plus(start, n),
           taken' \in Seq(Values \union {Junk}), UNCHANGED <<end, data, put>>
    PROVE  IInv' /\ StartData' = SubSeq(StartData, n + 1, Size)
<1>0. /\ S \in Nat \ {0} /\ IndexRange \in Nat /\ 2 * S <= IndexRange
      /\ S <= IndexRange /\ IndexRange % S = 0
  BY DoubleRingAssumption
<1>1. PICK z \in 0 .. S : z = Size /\ n <= z
  BY WaitingType
<1>2. PICK a \in 0 .. S - 1 : a = start % S
  BY Places DEF IInv
<1>3. start \in Indices /\ end \in Indices
  BY DEF IInv, TypeOK
<1>4. start' \in Indices /\ Size' = z - n
  BY <1>0, <1>1, <1>3 DEF Plus, Minus, Size, Indices
<1>5. TypeOK'
  BY <1>3, <1>4 DEF IInv, TypeOK
<1>6. start' % S = Wrapped(a, n)
  <2>1. n \in 0 .. S /\ start' = Plus(start, n) /\ start \in 0 .. IndexRange - 1
    BY <1>1, <1>3 DEF Indices
  <2>2. (IF start + n < IndexRange THEN start + n ELSE start + n - IndexRange) % S =
          IF (start % S) + n < S THEN (start % S) + n ELSE (start % S) + n - S
    BY <1>0, <2>1, SlotOfPlus
  <2> QED BY <1>2, <2>1, <2>2 DEF Wrapped, Plus
<1>7. PICK w \in Seq(Values) :
        /\ w = SubSeq(StartData, n + 1, Size)
        /\ Len(w) = z - n
        /\ \A k \in 1 .. z - n : w[k] = StartData[n + k]
  <2>1. PICK s \in Seq(Values) : s = StartData /\ Len(s) = z
    BY <1>1, WaitingType
  <2>2. PICK w : w = SubSeq(s, n + 1, z)
    OBVIOUS
  <2>3. /\ w \in Seq(Values) /\ Len(w) = z - n
        /\ \A k \in 1 .. z - n : w[k] = s[n + k]
    BY <1>1, <2>1, <2>2
  <2> QED BY <1>1, <2>1, <2>2, <2>3
<1>8. ASSUME NEW k \in 0 .. z - n - 1 PROVE InSlot(data, k, w[k + 1])'
  <2>1. n + k \in 0 .. Size - 1 /\ k + 1 \in 1 .. z - n /\ n + (k + 1) = (n + k) + 1
    BY <1>1
  <2>2. InSlot(data, n + k, w[k + 1])
    BY <2>1, <1>7, MirroredSlots
  <2>3. Wrapped(Wrapped(a, n), k) = Wrapped(a, n + k)
    BY <1>0, <1>1, <2>1 DEF Wrapped
  <2> QED BY <1>2, <1>6, <2>2, <2>3 DEF InSlot
<1>9. IInv' /\ StartData' = w
  <2>1. Size' <= S /\ Len(w) = Size'
    BY <1>0, <1>1, <1>4, <1>7
  <2>2. \A k \in 0 .. Size' - 1 : InSlot(data, k, w[k + 1])'
    BY <1>4, <1>8
  <2> QED BY <1>5, <2>1, <2>2, WaitingIsNext DEF SlotsTell
<1> QED BY <1>7, <1>9

\* The slot of a cell.
LEMMA CellSlot ==
    ASSUME NEW s \in 0 .. S - 1
    PROVE  s \in Cells /\ s + S \in Cells /\ s % S = s /\ (s + S) % S = s
<1>0. S \in Nat \ {0}
  BY DoubleRingAssumption
<1>1. s \in Nat /\ s = S * 0 + s /\ s + S \in Nat /\ s + S = S * 1 + s
  BY <1>0
<1>2. s % S = s /\ (s + S) % S = s
  BY <1>0, <1>1, RemainderIs
<1> QED BY <1>0, <1>2 DEF Cells

\* push() puts a value behind what waits, in both copies.
LEMMA PushAppends ==
    ASSUME IInv, NEW t \in Values, Push(t)
    PROVE  IInv' /\ StartData' = StartData \o <<t>> /\ Size + 1 <= S
<1>0. S \in Nat \ {0} /\ IndexRange \in Nat /\ 2 * S <= IndexRange
  BY DoubleRingAssumption
<1>1. PICK z \in 0 .. S : z = Size
  BY WaitingType
<1>2. z + 1 <= S
  BY <1>0, <1>1 DEF Push, Capacity, Minus
<1>3. PICK a \in 0 .. S - 1 : a = start % S /\ end % S = Wrapped(a, z)
  BY <1>1, Places DEF IInv
<1>4. /\ data' = [c \in Cells |-> IF c % S = Wrapped(a, z) THEN t ELSE data[c]]
      /\ end' = Plus(end, 1) /\ put' = <<t>> /\ UNCHANGED <<start, taken>>
  BY <1>3 DEF Push
<1>5. PICK b \in Seq(Values) : b = <<t>> /\ Len(b) = 1 /\ b[1] = t
  <2>1. <<t>> \in Seq(Values) /\ Len(<<t>>) = 1 /\ <<t>>[1] = t
    OBVIOUS
  <2> WITNESS <<t>> \in Seq(Values)
  <2> QED BY <2>1
<1>6. data' \in [Cells -> Values \union {Junk}]
  BY <1>4 DEF IInv, TypeOK
<1>7. ASSUME NEW k \in 0 .. Size - 1 PROVE InSlot(data', k, StartData[k + 1])
  <2> DEFINE s == Wrapped(a, k)
  <2>1. s \in 0 .. S - 1 /\ s # Wrapped(a, z)
    BY <1>0, <1>1, <1>2 DEF Wrapped
  <2> HIDE DEF s
  <2>2. data'[s] = data[s] /\ data'[s + S] = data[s + S]
    BY <1>4, <2>1, CellSlot
  <2>3. InSlot(data, k, StartData[k + 1])
    BY MirroredSlots
  <2> QED BY <1>3, <2>2, <2>3 DEF InSlot, s
<1>8. InSlot(data', Size, t)
  <2> DEFINE s == Wrapped(a, z)
  <2>1. s \in 0 .. S - 1
    BY <1>0, <1>1, <1>2 DEF Wrapped
  <2> HIDE DEF s
  <2>2. data' = [c \in Cells |-> IF c % S = s THEN t ELSE data[c]]
    BY <1>4 DEF s
  <2>3. data'[s] = t /\ data'[s + S] = t
    BY <2>1, <2>2, CellSlot
  <2> QED BY <1>1, <1>3, <2>3 DEF InSlot, s
<1>9. \A j \in 0 .. Len(b) - 1 : InSlot(data', Size + j, b[j + 1])
  BY <1>1, <1>5, <1>8
<1>10. Len(b) <= S - Size /\ end' = Plus(end, Len(b)) /\ put' \in Seq(Values)
  BY <1>0, <1>1, <1>2, <1>4, <1>5
<1>11. StartData' = StartData \o b /\ IInv'
  BY <1>4, <1>6, <1>7, <1>9, <1>10, Appends
<1> QED BY <1>0, <1>1, <1>2, <1>5, <1>11

\* The second half of endIncr(), cell by cell.
LEMMA BackwardIs ==
    ASSUME NEW cells, NEW n
    PROVE  \A c \in Cells : Backward(cells, n)[c] =
             IF c < ((end % S) + n) - S THEN cells[c + S] ELSE cells[c]
BY DEF Backward

\* endData(), the caller's writes and endIncr() put what stays of the batch behind
\* what waits, in both copies, though the batch may straddle the end of either.
LEMMA FillAppends ==
    ASSUME IInv, NEW batch \in Seq(Values), NEW n \in 0 .. S, Fill(batch, n)
    PROVE  /\ IInv' /\ StartData' = StartData \o put'
           /\ put' \in [1 .. n -> Values] /\ Size + n <= S
<1>0. S \in Nat \ {0} /\ IndexRange \in Nat /\ 2 * S <= IndexRange
  BY DoubleRingAssumption
<1>1. PICK z \in 0 .. S : z = Size
  BY WaitingType
<1>2. PICK L \in 0 .. S : L = Len(batch) /\ n <= L /\ z + L <= S
  BY <1>0, <1>1 DEF Fill, Capacity, Minus
<1>3. PICK a \in 0 .. S - 1 : a = start % S /\ end % S = Wrapped(a, z)
  BY <1>1, Places DEF IInv
<1>4. PICK e \in 0 .. S - 1 : e = Wrapped(a, z) /\ end % S = e
  BY <1>0, <1>3 DEF Wrapped
<1>5. /\ data' = Backward(Forward(Written(batch), n), n)
      /\ end' = Plus(end, n) /\ put' = SubSeq(batch, 1, n) /\ UNCHANGED <<start, taken>>
  BY DEF Fill
<1>6. PICK p \in Seq(Values) : p = put' /\ Len(p) = n /\ (\A j \in 1 .. n : p[j] = batch[j])
  BY <1>2, <1>5
<1>7. PICK V : /\ V = Written(batch)
               /\ \A c \in Cells : V[c] = IF e <= c /\ c < e + L THEN batch[c - e + 1] ELSE data[c]
  <2>1. \A c \in Cells : c \in e .. e + L - 1 <=> e <= c /\ c < e + L
    BY <1>0 DEF Cells
  <2>2. Written(batch) = [c \in Cells |-> IF c \in e .. e + L - 1 THEN batch[c - e + 1]
                                         ELSE data[c]]
    BY <1>2, <1>4 DEF Written
  <2> QED BY <2>1, <2>2
<1>8. PICK F : /\ F = Forward(V, n)
               /\ \A c \in Cells : F[c] = IF S + e <= c /\ c < S + e + n /\ c < S + S
                                          THEN V[c - S] ELSE V[c]
  <2> DEFINE e2 == IF e + n < S THEN e + n ELSE S
  <2>1. \A c \in Cells : c \in S + e .. S + e2 - 1 <=> S + e <= c /\ c < S + e + n /\ c < S + S
    BY <1>0 DEF Cells
  <2>2. Forward(V, n) = [c \in Cells |-> IF c \in S + e .. S + e2 - 1 THEN V[c - S] ELSE V[c]]
    BY <1>4 DEF Forward
  <2> QED BY <2>1, <2>2
<1>9. \A c \in Cells : data'[c] = IF c < e + n - S THEN F[c + S] ELSE F[c]
  <2>1. data' = Backward(F, n)
    BY <1>5, <1>7, <1>8, Zenon
  <2>2. \A c \in Cells : Backward(F, n)[c] =
          IF c < ((end % S) + n) - S THEN F[c + S] ELSE F[c]
    BY BackwardIs
  <2>3. ((end % S) + n) - S = e + n - S
    <3>1. (end % S) + n = e + n
      BY <1>4
    <3> QED BY <1>0, <3>1
  <2> QED BY <2>1, <2>2, <2>3
<1>10. ASSUME NEW j \in 0 .. n - 1, NEW s \in 0 .. S - 1, s = Wrapped(e, j)
       PROVE  data'[s] = batch[j + 1] /\ data'[s + S] = batch[j + 1]
  <2>1. s \in Cells /\ s + S \in Cells
    BY CellSlot
  <2>2. CASE e + j < S
    <3>1. s = e + j /\ s - e + 1 = j + 1 /\ ~(s < e + n - S) /\ ~(s + S < e + n - S)
      BY <1>0, <1>10, <2>2 DEF Wrapped
    <3>2. V[s] = batch[j + 1]
      <4>1. e <= s /\ s < e + L
        BY <1>0, <1>2, <3>1
      <4> QED BY <1>7, <2>1, <3>1, <4>1
    <3>3. F[s] = V[s] /\ F[s + S] = V[s]
      <4>1. ~(S + e <= s) /\ S + e <= s + S /\ s + S < S + e + n /\ s + S < S + S
            /\ (s + S) - S = s
        BY <1>0, <3>1
      <4> QED BY <1>8, <2>1, <4>1
    <3> QED BY <1>9, <2>1, <3>1, <3>2, <3>3
  <2>3. CASE ~(e + j < S)
    <3>1. s + S = e + j /\ (s + S) - e + 1 = j + 1 /\ s < e + n - S /\ ~(s + S < e + n - S)
      BY <1>0, <1>10, <2>3 DEF Wrapped
    <3>2. V[s + S] = batch[j + 1]
      BY <1>0, <1>2, <1>7, <2>1, <3>1
    <3>3. F[s + S] = V[s + S]
      BY <1>0, <1>8, <2>1, <3>1
    <3> QED BY <1>9, <2>1, <3>1, <3>2, <3>3
  <2> QED BY <2>2, <2>3
<1>11. ASSUME NEW k \in 0 .. z - 1, NEW s \in 0 .. S - 1, s = Wrapped(a, k)
       PROVE  data'[s] = data[s] /\ data'[s + S] = data[s + S]
  <2>1. s \in Cells /\ s + S \in Cells
    BY CellSlot
  <2>2. /\ ~(e <= s /\ s < e + L)
        /\ ~(e <= s + S /\ s + S < e + L)
        /\ ~(s < e + n - S) /\ ~(s + S < e + n - S)
        /\ ~(S + e <= s)
        /\ ~(S + e <= s + S /\ s + S < S + e + n)
    BY <1>0, <1>2, <1>4, <1>11 DEF Wrapped
  <2>3. V[s] = data[s] /\ V[s + S] = data[s + S]
    BY <1>7, <2>1, <2>2
  <2>4. F[s] = V[s] /\ F[s + S] = V[s + S]
    BY <1>8, <2>1, <2>2
  <2> QED BY <1>9, <2>1, <2>2, <2>3, <2>4
<1>12. data' \in [Cells -> Values \union {Junk}]
  <2>1. /\ data \in [Cells -> Values \union {Junk}]
        /\ \A j \in 1 .. L : batch[j] \in Values
    BY <1>2 DEF IInv, TypeOK
  <2>2. \A c \in Cells : V[c] \in Values \union {Junk}
    <3> SUFFICES ASSUME NEW c \in Cells PROVE V[c] \in Values \union {Junk}
      OBVIOUS
    <3>1. CASE e <= c /\ c < e + L
      <4>1. c - e + 1 \in 1 .. L
        BY <1>0, <3>1 DEF Cells
      <4> QED BY <1>7, <2>1, <3>1, <4>1
    <3>2. CASE ~(e <= c /\ c < e + L)
      BY <1>7, <2>1, <3>2
    <3> QED BY <3>1, <3>2
  <2>3. \A c \in Cells : F[c] \in Values \union {Junk}
    <3>1. \A c \in Cells : S + e <= c => c - S \in Cells
      BY <1>0 DEF Cells
    <3> QED BY <1>8, <2>2, <3>1
  <2>4. \A c \in Cells : c < e + n - S => c + S \in Cells
    BY <1>0 DEF Cells
  <2>5. \A c \in Cells : data'[c] \in Values \union {Junk}
    BY <1>9, <2>3, <2>4
  <2>6. data' = [c \in Cells |-> data'[c]]
    BY <1>5 DEF Backward
  <2> QED BY <2>5, <2>6
<1>13. ASSUME NEW k \in 0 .. Size - 1 PROVE InSlot(data', k, StartData[k + 1])
  <2>1. Wrapped(a, k) \in 0 .. S - 1 /\ k \in 0 .. z - 1
    BY <1>0, <1>1 DEF Wrapped
  <2>2. InSlot(data, k, StartData[k + 1])
    BY MirroredSlots
  <2>3. PICK s \in 0 .. S - 1 : s = Wrapped(a, k)
    BY <2>1
  <2>4. data'[s] = data[s] /\ data'[s + S] = data[s + S]
    BY <1>11, <2>1, <2>3
  <2> QED BY <1>3, <2>2, <2>3, <2>4 DEF InSlot
<1>14. ASSUME NEW j \in 0 .. Len(p) - 1 PROVE InSlot(data', Size + j, p[j + 1])
  <2>1. j \in 0 .. n - 1 /\ j + 1 \in 1 .. n
    BY <1>6
  <2>2. PICK s \in 0 .. S - 1 : s = Wrapped(e, j)
    <3>1. Wrapped(e, j) \in 0 .. S - 1
      BY <1>0, <2>1 DEF Wrapped
    <3> QED BY <3>1
  <2>3. s = Wrapped(a, z + j)
    BY <1>0, <1>2, <1>4, <2>1, <2>2 DEF Wrapped
  <2>4. data'[s] = p[j + 1] /\ data'[s + S] = p[j + 1]
    BY <1>6, <1>10, <2>1, <2>2
  <2> QED BY <1>1, <1>3, <2>3, <2>4 DEF InSlot
<1>15. Len(p) <= S - Size /\ end' = Plus(end, Len(p)) /\ put' \in Seq(Values)
  BY <1>0, <1>1, <1>2, <1>5, <1>6
<1>16. StartData' = StartData \o p /\ IInv'
  BY <1>5, <1>12, <1>13, <1>14, <1>15, Appends
<1>17. p \in [1 .. n -> Values]
  BY <1>6
<1> QED BY <1>0, <1>1, <1>2, <1>6, <1>16, <1>17

\* The first element of a sequence, as a part of it.
LEMMA FirstOnly ==
    ASSUME NEW T, NEW v \in Seq(T), 1 <= Len(v)
    PROVE  SubSeq(v, 1, 1) = <<v[1]>>
<1>1. PICK q \in Seq(T) : q = SubSeq(v, 1, 1)
  <2>1. SubSeq(v, 1, 1) \in Seq(T)
    OBVIOUS
  <2> QED BY <2>1
<1>2. Len(q) = 1 /\ q[1] = v[1]
  BY <1>1
<1>3. q = [i \in 1 .. 1 |-> q[1]]
  BY <1>2
<1>4. <<v[1]>> = [i \in 1 .. 1 |-> v[1]]
  OBVIOUS
<1> QED BY <1>1, <1>2, <1>3, <1>4

\* Every call keeps the invariant and is one of the queue's.
LEMMA DoubleStep ==
    ASSUME IInv, [Next]_dvars
    PROVE  IInv' /\ [Queue!Next]_(Queue!qvars)
<1>0. S \in Nat \ {0}
  BY DoubleRingAssumption
<1>1. PICK z \in 0 .. S : /\ z = Size /\ StartData \in Seq(Values) /\ Len(StartData) = z
                          /\ Capacity = S - z
  BY <1>0, WaitingType DEF Capacity, Minus
<1>2. ASSUME NEW t \in Values, Push(t)
      PROVE  IInv' /\ [Queue!Next]_(Queue!qvars)
  <2>1. IInv' /\ StartData' = StartData \o put' /\ z + 1 <= S /\ UNCHANGED taken
    BY <1>1, <1>2, PushAppends DEF Push
  <2>2. 1 \in 0 .. S - Len(StartData) /\ put' \in [1 .. 1 -> Values]
    <3>1. <<t>> \in [1 .. 1 -> Values]
      OBVIOUS
    <3> QED BY <1>0, <1>1, <1>2, <2>1, <3>1 DEF Push
  <2>3. Queue!Put
    BY <2>1, <2>2 DEF Queue!Put
  <2> QED BY <2>1, <2>3 DEF Queue!Next
<1>3. ASSUME NEW n \in 0 .. S, NEW batch \in Seq(Values), Fill(batch, n)
      PROVE  IInv' /\ [Queue!Next]_(Queue!qvars)
  <2>1. /\ IInv' /\ StartData' = StartData \o put' /\ put' \in [1 .. n -> Values]
        /\ z + n <= S /\ UNCHANGED taken
    BY <1>1, <1>3, FillAppends DEF Fill
  <2>2. n \in 0 .. S - Len(StartData)
    BY <1>0, <1>1, <2>1
  <2>3. Queue!Put
    BY <2>1, <2>2 DEF Queue!Put
  <2> QED BY <2>1, <2>3 DEF Queue!Next
<1>4. ASSUME NEW n \in 0 .. S, n <= z, taken' = SubSeq(StartData, 1, n),
             start' = Plus(start, n), UNCHANGED <<end, data, put>>
      PROVE  IInv' /\ StartData' = SubSeq(StartData, n + 1, z)
  <2>1. PICK w \in Seq(Values) : w = StartData /\ Len(w) = z
    BY <1>1
  <2>2. SubSeq(w, 1, n) \in Seq(Values \union {Junk})
    BY <1>4, <2>1
  <2> QED BY <1>1, <1>4, <2>1, <2>2, Consumes
<1>5. ASSUME NEW n \in 0 .. S, Take(n)
      PROVE  IInv' /\ [Queue!Next]_(Queue!qvars)
  <2>1. n <= z /\ taken' = SubSeq(StartData, 1, n) /\ start' = Plus(start, n)
        /\ UNCHANGED <<end, data, put>>
    BY <1>1, <1>5 DEF Take
  <2>2. n \in 0 .. Len(StartData)
    BY <1>1, <2>1
  <2>3. Queue!Take
    BY <1>1, <1>4, <2>1, <2>2 DEF Queue!Take
  <2> QED BY <1>4, <2>1, <2>3 DEF Queue!Next
<1>6. CASE Shift
  <2>1. 1 <= z /\ taken' = <<data[start % S]>> /\ start' = Plus(start, 1)
        /\ UNCHANGED <<end, data, put>>
    BY <1>1, <1>6 DEF Shift
  <2>2. StartData[1] = data[start % S]
    <3>1. 0 \in 0 .. Size - 1 /\ 0 + 1 = 1
      BY <1>1, <2>1
    <3>2. InSlot(data, 0, StartData[1])
      BY <3>1, MirroredSlots
    <3>3. Wrapped(start % S, 0) = start % S
      <4>1. start % S \in 0 .. S - 1
        BY Places DEF IInv
      <4> QED BY <1>0, <4>1 DEF Wrapped
    <3> QED BY <3>2, <3>3 DEF InSlot
  <2>3. taken' = SubSeq(StartData, 1, 1)
    <3>1. PICK w \in Seq(Values) : w = StartData /\ Len(w) = z
      BY <1>1
    <3>2. SubSeq(w, 1, 1) = <<w[1]>>
      <4>1. 1 <= Len(w)
        BY <2>1, <3>1
      <4> QED BY <4>1, FirstOnly
    <3> QED BY <2>1, <2>2, <3>1, <3>2
  <2>4. 1 \in 0 .. S /\ 1 \in 0 .. Len(StartData)
    <3>1. Len(StartData) = z /\ 1 <= z
      BY <1>1, <2>1
    <3> QED BY <1>0, <3>1
  <2>5. Queue!Take
    BY <1>1, <1>4, <2>1, <2>3, <2>4 DEF Queue!Take
  <2> QED BY <1>4, <2>1, <2>3, <2>4, <2>5 DEF Queue!Next
<1>7. CASE Clear
  <2>1. start' = Plus(start, z) /\ UNCHANGED <<end, data, put, taken>>
    BY <1>1, <1>7, Places DEF Clear, IInv
  <2>2. taken' \in Seq(Values \union {Junk})
    BY <2>1 DEF IInv, TypeOK
  <2>3. IInv' /\ StartData' = SubSeq(StartData, z + 1, z)
    BY <1>1, <2>1, <2>2, Consumes
  <2>4. SubSeq(StartData, z + 1, z) = <<>>
    BY <1>1
  <2>5. Queue!Clear
    BY <2>1, <2>3, <2>4 DEF Queue!Clear
  <2> QED BY <2>3, <2>5 DEF Queue!Next
<1>8. CASE UNCHANGED dvars
  <2>1. IInv'
    BY <1>8 DEF dvars, IInv, TypeOK, Mirrored, Size
  <2>2. UNCHANGED Queue!qvars
    BY <1>8 DEF dvars, Queue!qvars, StartData, Size
  <2> QED BY <2>1, <2>2
<1>9. \A w \in 0 .. S : [1 .. w -> Values] \subseteq Seq(Values)
  BY <1>0
<1> QED BY <1>2, <1>3, <1>5, <1>6, <1>7, <1>8, <1>9 DEF Next

LEMMA DoubleInit == Init => IInv /\ Queue!Init
<1> SUFFICES ASSUME Init PROVE IInv /\ Queue!Init
  OBVIOUS
<1>0. S \in Nat \ {0} /\ IndexRange \in Nat /\ 2 * S <= IndexRange
  BY DoubleRingAssumption
<1>1. Size = 0
  BY DEF Init, Size, Minus
<1>2. TypeOK
  BY <1>0 DEF Init, TypeOK, Indices
<1>3. Mirrored
  BY <1>1 DEF Mirrored
<1>4. StartData = <<>>
  BY <1>1 DEF StartData
<1> QED BY <1>0, <1>1, <1>2, <1>3, <1>4 DEF IInv, Init, Queue!Init

-----------------------------------------------------------------------------
(***************************************************************************)
(* AppleRingBuffer.                                                        *)
(***************************************************************************)

\* What the block holds where, after a batch of at most `room` went in.
Appended(room, batch) ==
    /\ room <= Apple!Capacity /\ Len(batch) <= room
    /\ block' = [c \in Apple!Cells |->
                   IF c \in Apple!Top(room) .. Apple!Top(room) + Len(batch) - 1
                   THEN batch[c - Apple!Top(room) + 1] ELSE Apple!Moved(room)[c]]
    /\ first' = Apple!Base(room)
    /\ last' = Apple!Top(room) + Len(batch)
    /\ put' = batch
    /\ UNCHANGED consumed

\* There is room for it, behind what waits and in front of the end of the block.
LEMMA AppleRoom ==
    ASSUME Apple!TypeOK, NEW room \in 0 .. S, room <= Apple!Capacity
    PROVE  /\ Apple!Size \in 0 .. S /\ Apple!Size + room <= S
           /\ Apple!Base(room) \in 0 .. N /\ Apple!Top(room) \in 0 .. N
           /\ Apple!Top(room) + room <= N
           /\ Apple!Top(room) = Apple!Base(room) + Apple!Size
           /\ Apple!Base(room) < first => first > N - S
<1>0. S \in Nat \ {0} /\ N \in Nat /\ S <= N
  BY DoubleRingAssumption, BlockAssumption
<1>1. /\ first \in 0 .. N /\ last \in 0 .. N /\ first <= last
      /\ Apple!Size = last - first /\ last - first <= S
      /\ room <= S - (last - first)
  BY <1>0 DEF Apple!TypeOK, Apple!Size, Apple!Capacity
<1>2. CASE last + room > N
  <2>1. Apple!Base(room) = 0 /\ Apple!Top(room) = Apple!Size
    BY <1>2 DEF Apple!Base, Apple!Top, Apple!Overflows
  <2> QED BY <1>0, <1>1, <1>2, <2>1
<1>3. CASE ~(last + room > N)
  <2>1. Apple!Base(room) = first /\ Apple!Top(room) = last
    BY <1>3 DEF Apple!Base, Apple!Top, Apple!Overflows
  <2> QED BY <1>0, <1>1, <1>3, <2>1
<1> QED BY <1>2, <1>3

\* The move of returnBuffer() takes what waits along.
LEMMA AppleMoves ==
    ASSUME Apple!TypeOK, NEW room \in 0 .. S, room <= Apple!Capacity
    PROVE  /\ Apple!Moved(room) \in [Apple!Cells -> Values \union {Junk}]
           /\ \A k \in 1 .. Apple!Size :
                 Apple!Moved(room)[Apple!Base(room) + k - 1] = block[first + k - 1]
<1>0. S \in Nat \ {0} /\ N \in Nat /\ S <= N
  BY DoubleRingAssumption, BlockAssumption
<1>1. PICK z \in 0 .. S : /\ z = Apple!Size /\ z = last - first
                          /\ first \in 0 .. N /\ last \in 0 .. N
  BY AppleRoom DEF Apple!Size, Apple!TypeOK
<1>2. block \in [Apple!Cells -> Values \union {Junk}]
  BY DEF Apple!TypeOK
<1>3. CASE Apple!Overflows(room)
  <2>1. /\ Apple!Base(room) = 0
        /\ Apple!Moved(room) = [c \in Apple!Cells |-> IF c < z THEN block[first + c] ELSE block[c]]
    BY <1>1, <1>3 DEF Apple!Base, Apple!Moved
  <2>2. \A c \in Apple!Cells : c < z => first + c \in Apple!Cells
    BY <1>0, <1>1 DEF Apple!Cells
  <2>3. \A k \in 1 .. z : /\ 0 + k - 1 \in Apple!Cells /\ 0 + k - 1 < z
                          /\ first + (0 + k - 1) = first + k - 1
    BY <1>0, <1>1 DEF Apple!Cells
  <2>4. Apple!Moved(room) \in [Apple!Cells -> Values \union {Junk}]
    BY <1>2, <2>1, <2>2
  <2>5. \A k \in 1 .. z : Apple!Moved(room)[0 + k - 1] = block[first + k - 1]
    BY <2>1, <2>3
  <2> QED BY <1>1, <2>1, <2>4, <2>5
<1>4. CASE ~Apple!Overflows(room)
  BY <1>2, <1>4 DEF Apple!Base, Apple!Moved
<1> QED BY <1>3, <1>4

\* What waits is a sequence.
LEMMA AppleWaiting ==
    ASSUME Apple!TypeOK
    PROVE  /\ Apple!Size \in 0 .. S
           /\ Apple!StartData \in Seq(Values \union {Junk})
           /\ Len(Apple!StartData) = Apple!Size
           /\ \A k \in 1 .. Apple!Size : Apple!StartData[k] = block[first + k - 1]
<1>0. S \in Nat \ {0} /\ N \in Nat /\ S <= N
  BY DoubleRingAssumption, BlockAssumption
<1>1. /\ first \in 0 .. N /\ last \in 0 .. N /\ first <= last
      /\ Apple!Size = last - first /\ last - first \in 0 .. S
  BY <1>0 DEF Apple!TypeOK, Apple!Size
<1>2. PICK z \in 0 .. S : z = Apple!Size /\ z = last - first
  BY <1>1
<1>3. \A k \in 1 .. z : first + k - 1 \in Apple!Cells
  BY <1>0, <1>1, <1>2 DEF Apple!Cells
<1>4. \A k \in 1 .. z : block[first + k - 1] \in Values \union {Junk}
  BY <1>3 DEF Apple!TypeOK
<1>5. Apple!StartData = [k \in 1 .. z |-> block[first + k - 1]]
  BY <1>2 DEF Apple!StartData
<1>6. Apple!StartData \in Seq(Values \union {Junk}) /\ Len(Apple!StartData) = z
  BY <1>4, <1>5
<1> QED BY <1>2, <1>5, <1>6

\* push() and endData() with endIncr() put their batch behind what waits, moved or not.
LEMMA AppleAppends ==
    ASSUME Apple!TypeOK, NEW room \in 0 .. S, NEW batch \in Seq(Values),
           Appended(room, batch)
    PROVE  /\ Apple!TypeOK' /\ Apple!StartData' = Apple!StartData \o batch
           /\ batch \in [1 .. Len(batch) -> Values] /\ Apple!Size + Len(batch) <= S
           /\ first' < first => first > N - S
<1>0. S \in Nat \ {0} /\ N \in Nat /\ S <= N /\ room <= Apple!Capacity
  BY DoubleRingAssumption, BlockAssumption DEF Appended
<1>1. PICK z \in 0 .. S : z = Apple!Size /\ z + room <= S
  BY <1>0, AppleRoom
<1>2. PICK n \in 0 .. room : n = Len(batch)
  BY DEF Appended
<1>3. PICK low \in 0 .. N : low = Apple!Base(room) /\ (low < first => first > N - S)
  BY <1>0, AppleRoom
<1>4. PICK top \in 0 .. N : top = Apple!Top(room) /\ top = low + z /\ top + room <= N
  BY <1>0, <1>1, <1>3, AppleRoom
<1>5. PICK M \in [Apple!Cells -> Values \union {Junk}] :
        M = Apple!Moved(room) /\ \A k \in 1 .. z : M[low + k - 1] = block[first + k - 1]
  BY <1>0, <1>1, <1>3, AppleMoves
<1>6. /\ block' = [c \in Apple!Cells |-> IF c \in top .. top + n - 1
                                         THEN batch[c - top + 1] ELSE M[c]]
      /\ first' = low /\ last' = top + n /\ put' = batch /\ consumed' = consumed
  BY <1>2, <1>3, <1>4, <1>5 DEF Appended
<1>7. \A j \in 1 .. n : batch[j] \in Values
  BY <1>2
<1>8. block' \in [Apple!Cells -> Values \union {Junk}]
  <2>1. \A c \in Apple!Cells : c \in top .. top + n - 1 => c - top + 1 \in 1 .. n
    BY <1>0, <1>4 DEF Apple!Cells
  <2> QED BY <1>5, <1>6, <1>7, <2>1
<1>9. Apple!Size' = z + n /\ last' \in first' .. N /\ z + n <= S
  <2>1. Apple!Size' = (top + n) - low
    BY <1>6 DEF Apple!Size
  <2>2. (top + n) - low = z + n /\ top + n \in low .. N /\ z + n <= S
    BY <1>0, <1>1, <1>4
  <2> QED BY <1>6, <2>1, <2>2
<1>10. Apple!TypeOK'
  BY <1>0, <1>3, <1>6, <1>8, <1>9 DEF Apple!TypeOK
<1>11. PICK w : /\ w = Apple!StartData \o batch
                /\ w = [k \in 1 .. z + n |-> w[k]]
                /\ \A k \in 1 .. z : w[k] = block[first + k - 1]
                /\ \A j \in 1 .. n : w[z + j] = batch[j]
  <2>1. PICK s \in Seq(Values \union {Junk}) :
          /\ s = Apple!StartData /\ Len(s) = z
          /\ \A k \in 1 .. z : s[k] = block[first + k - 1]
    BY <1>1, AppleWaiting
  <2>2. batch \in Seq(Values \union {Junk})
    OBVIOUS
  <2>3. /\ s \o batch \in Seq(Values \union {Junk}) /\ Len(s \o batch) = Len(s) + Len(batch)
        /\ \A k \in 1 .. Len(s) : (s \o batch)[k] = s[k]
        /\ \A j \in 1 .. Len(batch) : (s \o batch)[Len(s) + j] = batch[j]
    BY <2>2, Joined
  <2>4. PICK w \in Seq(Values \union {Junk}) : w = s \o batch
    BY <2>3
  <2>5. Len(w) = z + n
    BY <1>2, <2>1, <2>3, <2>4
  <2>6. w = [k \in 1 .. z + n |-> w[k]]
    BY <2>5
  <2>7. /\ w = Apple!StartData \o batch
        /\ \A k \in 1 .. z : w[k] = block[first + k - 1]
        /\ \A j \in 1 .. n : w[z + j] = batch[j]
    BY <1>2, <2>1, <2>3, <2>4
  <2> QED BY <2>6, <2>7
<1>12. ASSUME NEW k \in 1 .. z + n PROVE block'[low + k - 1] = w[k]
  <2>1. low + k - 1 \in Apple!Cells
    BY <1>0, <1>1, <1>2, <1>4 DEF Apple!Cells
  <2>2. CASE k <= z
    <3>1. k \in 1 .. z /\ ~(low + k - 1 \in top .. top + n - 1)
      BY <1>4, <2>2
    <3> QED BY <1>5, <1>6, <1>11, <2>1, <3>1
  <2>3. CASE ~(k <= z)
    <3>1. PICK j \in 1 .. n : k = z + j
      BY <2>3
    <3>2. low + k - 1 \in top .. top + n - 1 /\ (low + k - 1) - top + 1 = j
      BY <1>4, <3>1
    <3>3. block'[low + k - 1] = batch[j]
      BY <1>6, <2>1, <3>2
    <3> QED BY <1>11, <3>1, <3>3
  <2> QED BY <2>2, <2>3
<1>13. Apple!StartData' = w
  <2>1. Apple!StartData' = [k \in 1 .. z + n |-> block'[low + k - 1]]
    BY <1>6, <1>9 DEF Apple!StartData
  <2> QED BY <1>11, <1>12, <2>1
<1>14. batch \in [1 .. n -> Values]
  BY <1>2
<1> QED BY <1>1, <1>2, <1>3, <1>6, <1>9, <1>10, <1>11, <1>13, <1>14

\* startData() and startIncr(n), or shift(), take the first of what waits.
LEMMA AppleConsumes ==
    ASSUME Apple!TypeOK, NEW n \in 0 .. S, Apple!Take(n)
    PROVE  /\ Apple!TypeOK' /\ n \in 0 .. Len(Apple!StartData)
           /\ Apple!StartData' = SubSeq(Apple!StartData, n + 1, Len(Apple!StartData))
<1>0. S \in Nat \ {0} /\ N \in Nat /\ S <= N
  BY DoubleRingAssumption, BlockAssumption
<1>1. PICK z \in 0 .. S : z = Apple!Size /\ n <= z /\ z = last - first
  BY AppleWaiting DEF Apple!Take, Apple!Size
<1>2. first' = first + n /\ UNCHANGED <<last, block, put>>
      /\ consumed' = SubSeq(Apple!StartData, 1, n)
  BY DEF Apple!Take
<1>3. first \in 0 .. N /\ last \in 0 .. N
  BY <1>0 DEF Apple!TypeOK
<1>4. PICK s \in Seq(Values \union {Junk}) :
        /\ s = Apple!StartData /\ Len(s) = z
        /\ \A k \in 1 .. z : s[k] = block[first + k - 1]
  BY <1>1, AppleWaiting
<1>5. Apple!Size' = z - n /\ first' \in 0 .. N /\ last' \in first' .. N /\ z - n <= S
  <2>1. Apple!Size' = last - (first + n)
    BY <1>2 DEF Apple!Size
  <2>2. last - (first + n) = z - n /\ first + n \in 0 .. N /\ last \in first + n .. N
        /\ z - n <= S
    BY <1>0, <1>1, <1>3
  <2> QED BY <1>2, <2>1, <2>2
<1>6. consumed' \in Seq(Values \union {Junk})
  BY <1>1, <1>2, <1>4
<1>7. Apple!TypeOK'
  BY <1>2, <1>5, <1>6 DEF Apple!TypeOK
<1>8. Apple!StartData' = SubSeq(s, n + 1, z)
  <2>1. Apple!StartData' = [k \in 1 .. z - n |-> block[first + n + k - 1]]
    BY <1>2, <1>5 DEF Apple!StartData
  <2>2. PICK m \in Nat : m = z - n
    BY <1>1
  <2>3. /\ SubSeq(s, n + 1, z) \in Seq(Values \union {Junk})
        /\ Len(SubSeq(s, n + 1, z)) = m
        /\ \A k \in 1 .. m : SubSeq(s, n + 1, z)[k] = s[n + k]
    BY <1>1, <1>4, <2>2
  <2>4. PICK w \in Seq(Values \union {Junk}) :
          w = SubSeq(s, n + 1, z) /\ Len(w) = m /\ \A k \in 1 .. m : w[k] = s[n + k]
    BY <2>3
  <2>5. \A k \in 1 .. m : w[k] = block[first + n + k - 1]
    <3>1. \A k \in 1 .. m : n + k \in 1 .. z /\ first + (n + k) - 1 = first + n + k - 1
      BY <1>1, <1>3, <2>2
    <3> QED BY <1>4, <2>4, <3>1
  <2>6. w = [k \in 1 .. m |-> w[k]]
    BY <2>4, AsFunction, Zenon
  <2> QED BY <2>1, <2>2, <2>4, <2>5, <2>6
<1> QED BY <1>1, <1>4, <1>7, <1>8

AppleStepped ==
    /\ Apple!TypeOK'
    /\ [Apple!Queue!Next]_(Apple!Queue!qvars)
    /\ first' < first => first > N - S

\* Every call keeps the ring in range and is one of the queue's.
LEMMA AppleStep ==
    ASSUME Apple!TypeOK, [Apple!Next]_(Apple!avars)
    PROVE  AppleStepped
<1>0. S \in Nat \ {0} /\ N \in Nat /\ S <= N
  BY DoubleRingAssumption, BlockAssumption
<1>1. ASSUME NEW room \in 0 .. S, NEW batch \in Seq(Values), Appended(room, batch)
      PROVE  AppleStepped
  <2>1. /\ Apple!TypeOK' /\ Apple!StartData' = Apple!StartData \o put'
        /\ put' \in [1 .. Len(batch) -> Values] /\ Apple!Size + Len(batch) <= S
        /\ first' < first => first > N - S
        /\ UNCHANGED consumed
    BY <1>1, AppleAppends DEF Appended
  <2>2. Len(batch) \in 0 .. S - Len(Apple!StartData)
    BY <1>0, <2>1, AppleWaiting
  <2>3. Apple!Queue!Put
    BY <2>1, <2>2 DEF Apple!Queue!Put
  <2> QED BY <2>1, <2>3 DEF Apple!Queue!Next, AppleStepped
<1>2. ASSUME NEW t \in Values, Apple!Push(t)
      PROVE  AppleStepped
  <2>1. 1 <= Apple!Capacity /\ 1 \in 0 .. S
    BY <1>0, <1>2 DEF Apple!Push
  <2>2. PICK top \in 0 .. N : top = Apple!Top(1) /\ top + 1 <= N
    BY <2>1, AppleRoom
  <2>3. PICK M \in [Apple!Cells -> Values \union {Junk}] : M = Apple!Moved(1)
    BY <2>1, AppleMoves
  <2>4. PICK b \in Seq(Values) : b = <<t>> /\ Len(b) = 1 /\ b[1] = t
    <3>1. <<t>> \in Seq(Values) /\ Len(<<t>>) = 1 /\ <<t>>[1] = t
      OBVIOUS
    <3> WITNESS <<t>> \in Seq(Values)
    <3> QED BY <3>1
  <2>5. block' = [c \in Apple!Cells |-> IF c \in top .. top + 1 - 1 THEN b[c - top + 1] ELSE M[c]]
    <3>1. block' = [c \in Apple!Cells |-> IF c = top THEN t ELSE M[c]]
      BY <1>2, <2>2, <2>3 DEF Apple!Push
    <3>2. \A c \in Apple!Cells : /\ c \in top .. top + 1 - 1 <=> c = top
                                 /\ c = top => c - top + 1 = 1
      BY <1>0, <2>2 DEF Apple!Cells
    <3> QED BY <2>4, <3>1, <3>2
  <2>6. Appended(1, b)
    BY <1>2, <2>1, <2>2, <2>3, <2>4, <2>5 DEF Apple!Push, Appended
  <2> QED BY <1>1, <2>1, <2>6
<1>3. ASSUME NEW room \in 0 .. S, NEW w \in 0 .. room, NEW batch \in [1 .. w -> Values],
             Apple!Fill(room, batch)
      PROVE  AppleStepped
  <2>1. batch \in Seq(Values)
    BY <1>0
  <2>2. Appended(room, batch)
    BY <1>3 DEF Apple!Fill, Appended
  <2> QED BY <1>1, <2>1, <2>2
<1>4. ASSUME NEW n \in 0 .. S, Apple!Take(n)
      PROVE  AppleStepped
  <2>1. Apple!TypeOK' /\ Apple!Queue!Take
    BY <1>4, AppleConsumes DEF Apple!Take, Apple!Queue!Take
  <2>2. ~(first' < first)
    BY <1>0, <1>4 DEF Apple!Take, Apple!TypeOK
  <2> QED BY <2>1, <2>2 DEF AppleStepped, Apple!Queue!Next
<1>5. CASE UNCHANGED Apple!avars
  <2>1. Apple!TypeOK'
    BY <1>5 DEF Apple!avars, Apple!TypeOK, Apple!Size
  <2>2. UNCHANGED Apple!Queue!qvars
    BY <1>5 DEF Apple!avars, Apple!Queue!qvars, Apple!StartData, Apple!Size
  <2>3. ~(first' < first)
    BY <1>0, <1>5 DEF Apple!avars, Apple!TypeOK
  <2> QED BY <2>1, <2>2, <2>3 DEF AppleStepped
<1> QED BY <1>2, <1>3, <1>4, <1>5 DEF Apple!Next

LEMMA AppleInit == Apple!Init => Apple!TypeOK /\ Apple!Queue!Init
<1> SUFFICES ASSUME Apple!Init PROVE Apple!TypeOK /\ Apple!Queue!Init
  OBVIOUS
<1>0. S \in Nat \ {0} /\ N \in Nat
  BY DoubleRingAssumption, BlockAssumption
<1>1. Apple!Size = 0
  BY DEF Apple!Init, Apple!Size
<1>2. Apple!StartData = <<>>
  BY <1>1 DEF Apple!StartData
<1>3. Apple!TypeOK
  BY <1>0, <1>1 DEF Apple!Init, Apple!TypeOK
<1> QED BY <1>2, <1>3 DEF Apple!Init, Apple!Queue!Init

-----------------------------------------------------------------------------
(***************************************************************************)
(* The two rings.                                                          *)
(***************************************************************************)

\* A step of the two is one of each.
LEMMA RingsStep ==
    ASSUME Apple!TypeOK, [RingsNext]_ringVars
    PROVE  [Next]_dvars /\ [Apple!Next]_(Apple!avars)
<1>0. S \in Nat \ {0}
  BY DoubleRingAssumption
<1>1. ASSUME NEW t \in Values, Push(t), Apple!Push(t)
      PROVE  Next /\ Apple!Next
  BY <1>1 DEF Next, Apple!Next
<1>2. ASSUME NEW room \in 1 .. S, NEW w \in 1 .. room, NEW batch \in [1 .. w -> Values],
             NEW n \in 1 .. w, Fill(batch, n), Apple!Fill(room, SubSeq(batch, 1, n))
      PROVE  Next /\ Apple!Next
  <2>1. room \in 0 .. S /\ w \in 0 .. S /\ n \in 0 .. S /\ n \in 0 .. room
    BY <1>0
  <2>2. SubSeq(batch, 1, n) \in [1 .. n -> Values]
    <3>1. batch \in Seq(Values) /\ Len(batch) = w
      OBVIOUS
    <3>2. SubSeq(batch, 1, n) \in Seq(Values) /\ Len(SubSeq(batch, 1, n)) = n
      BY <3>1
    <3>3. n \in Nat
      BY <1>0, <2>1
    <3> QED BY <3>2, <3>3, AsFunction, Zenon
  <2>3. Next
    BY <1>2, <2>1 DEF Next
  <2>4. Apple!Next
    BY <1>2, <2>1, <2>2 DEF Apple!Next
  <2> QED BY <2>3, <2>4
<1>3. ASSUME NEW n \in 1 .. S, Take(n), Apple!Take(n)
      PROVE  Next /\ Apple!Next
  <2>1. n \in 0 .. S
    BY <1>0
  <2> QED BY <1>3, <2>1 DEF Next, Apple!Next
<1>4. CASE Shift /\ Apple!Take(1)
  <2>1. 1 \in 0 .. S
    BY <1>0
  <2> QED BY <1>4, <2>1 DEF Next, Apple!Next
<1>5. CASE Clear /\ Apple!Take(Apple!Size)
  <2>1. Apple!Size \in 0 .. S
    BY AppleWaiting
  <2> QED BY <1>5, <2>1 DEF Next, Apple!Next
<1>6. CASE UNCHANGED ringVars
  BY <1>6 DEF ringVars, dvars, Apple!avars
<1> QED BY <1>1, <1>2, <1>3, <1>4, <1>5, <1>6 DEF RingsNext

RingsInv == IInv /\ Apple!TypeOK

LEMMA RingsKeep ==
    /\ RingsInit => RingsInv /\ Queue!Init /\ Apple!Queue!Init
    /\ RingsInv /\ [RingsNext]_ringVars =>
         RingsInv' /\ [Queue!Next]_(Queue!qvars) /\ AppleStepped
<1>1. RingsInit => RingsInv /\ Queue!Init /\ Apple!Queue!Init
  BY DoubleInit, AppleInit DEF RingsInit, RingsInv
<1>2. ASSUME RingsInv, [RingsNext]_ringVars
      PROVE  RingsInv' /\ [Queue!Next]_(Queue!qvars) /\ AppleStepped
  <2>1. [Next]_dvars /\ [Apple!Next]_(Apple!avars)
    BY <1>2, RingsStep DEF RingsInv
  <2>2. IInv' /\ [Queue!Next]_(Queue!qvars)
    BY <1>2, <2>1, DoubleStep DEF RingsInv
  <2>3. AppleStepped
    BY <1>2, <2>1, AppleStep DEF RingsInv
  <2> QED BY <2>2, <2>3 DEF RingsInv, AppleStepped
<1> QED BY <1>1, <1>2

\* Every index and cell of both rings is in range, and the two copies of the first
\* agree, so that shift() and startData() read the same.
THEOREM RingsSafety == RingsSpec => [](RingsTypeOK /\ Mirrored)
<1>1. RingsInv => RingsTypeOK /\ Mirrored
  BY DEF RingsInv, IInv, RingsTypeOK
<1> QED BY <1>1, RingsKeep, PTL DEF RingsSpec

\* What either ring's startData() points at is the queue of what was put into it and
\* not yet taken, wherever its indices stand and however often it moved its values.
THEOREM RingsRefinement == RingsSpec => ImplementsQueue /\ AppleIsQueue
<1>1. AppleStepped => [Apple!Queue!Next]_(Apple!Queue!qvars)
  BY DEF AppleStepped
<1> QED BY <1>1, RingsKeep, PTL
        DEF RingsSpec, ImplementsQueue, Queue!Spec, AppleIsQueue, Apple!ImplementsQueue,
            Apple!Queue!Spec

\* Between two moves of the AppleRingBuffer at least N - S values are consumed.
THEOREM RareMoves == RingsSpec => MovesAreRare
<1>1. AppleStepped => (first' < first => first > N - S)
  BY DEF AppleStepped
<1> QED BY <1>1, RingsKeep, PTL DEF RingsSpec, MovesAreRare, Apple!MovesAreRare
=============================================================================
