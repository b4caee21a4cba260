------------------------ MODULE SmartCorePanelProof ------------------------
(***************************************************************************)
(* The lookup of elements by index is unambiguous, and the arrays of a      *)
(* SmartCoreProcessor give every element values of its own, for any panel.  *)
(*                                                                         *)
(* count() adds the elements' counts up one by one, so an element's numbers *)
(* start at the total of those before it: LaterIsAbove.  From that no two   *)
(* elements share a number (NumbersAreApart), which is what the lookup      *)
(* (Lookup) and the writes through numbers (OneIsWritten, LightsAreWritten) *)
(* rest on.  RunningTotal and FlattenSeq are recursive functions: that they *)
(* exist, and what they satisfy, is proved by induction over a set of       *)
(* numbers (InductionUpTo).                                                 *)
(***************************************************************************)
EXTENDS SmartCorePanel, NaturalLemmas, SequenceTheorems

-----------------------------------------------------------------------------
(***************************************************************************)
(* The kinds of element.                                                   *)
(***************************************************************************)
LEMMA KindsAre ==
    Kinds = {"ImageElement", "Knob", "SliderLight", "EncoderRGB", "JackInput", "JackOutput",
             "DualLight", "RgbLight", "DynamicGraphicDisplay", "AltParamChoice", "TextDisplay"}
BY DEF Kinds, CountOf

LEMMA CountsAre ==
    ASSUME NEW kind \in Kinds
    PROVE  /\ CountOf[kind] \in [Fields -> 0 .. 3]
           /\ \A f \in {"params", "inputs", "outputs"} : CountOf[kind][f] <= 1
<1>1. \A p, l, i, o \in 0 .. 3 : Counts(p, l, i, o) \in [Fields -> 0 .. 3]
  BY DEF Counts, Fields
<1>2. \A p, i, o \in 0 .. 1, l \in 0 .. 3 :
        \A f \in {"params", "inputs", "outputs"} : Counts(p, l, i, o)[f] <= 1
  BY DEF Counts
<1>3. CASE kind \in {"ImageElement", "TextDisplay"}
  <2>1. CountOf[kind] = Counts(0, 0, 0, 0)
    BY <1>3 DEF CountOf
  <2> QED BY <1>1, <1>2, <2>1
<1>4. CASE kind \in {"Knob", "AltParamChoice"}
  <2>1. CountOf[kind] = Counts(1, 0, 0, 0)
    BY <1>4 DEF CountOf
  <2> QED BY <1>1, <1>2, <2>1
<1>5. CASE kind = "SliderLight"
  <2>1. CountOf[kind] = Counts(1, 1, 0, 0)
    BY <1>5 DEF CountOf
  <2> QED BY <1>1, <1>2, <2>1
<1>6. CASE kind = "EncoderRGB"
  <2>1. CountOf[kind] = Counts(1, 3, 0, 0)
    BY <1>6 DEF CountOf
  <2> QED BY <1>1, <1>2, <2>1
<1>7. CASE kind = "JackInput"
  <2>1. CountOf[kind] = Counts(0, 0, 1, 0)
    BY <1>7 DEF CountOf
  <2> QED BY <1>1, <1>2, <2>1
<1>8. CASE kind = "JackOutput"
  <2>1. CountOf[kind] = Counts(0, 0, 0, 1)
    BY <1>8 DEF CountOf
  <2> QED BY <1>1, <1>2, <2>1
<1>9. CASE kind = "DualLight"
  <2>1. CountOf[kind] = Counts(0, 2, 0, 0)
    BY <1>9 DEF CountOf
  <2> QED BY <1>1, <1>2, <2>1
<1>10. CASE kind = "RgbLight"
  <2>1. CountOf[kind] = Counts(0, 3, 0, 0)
    BY <1>10 DEF CountOf
  <2> QED BY <1>1, <1>2, <2>1
<1>11. CASE kind = "DynamicGraphicDisplay"
  <2>1. CountOf[kind] = Counts(0, 1, 0, 0)
    BY <1>11 DEF CountOf
  <2> QED BY <1>1, <1>2, <2>1
<1> QED BY <1>3, <1>4, <1>5, <1>6, <1>7, <1>8, <1>9, <1>10, <1>11, KindsAre

\* The base class of an element, if it has one, is of one field.
LEMMA FieldsAre ==
    ASSUME NEW kind \in Kinds, FieldOf[kind] # {}
    PROVE  \E f \in Fields : FieldOf[kind] = {f}
<1>1. CASE kind \in {"Knob", "SliderLight", "EncoderRGB"}
  <2>1. FieldOf[kind] = {"params"}
    BY <1>1 DEF FieldOf
  <2> QED BY <2>1 DEF Fields
<1>2. CASE kind \in {"DualLight", "RgbLight", "DynamicGraphicDisplay", "TextDisplay"}
  <2>1. FieldOf[kind] = {"lights"}
    BY <1>2 DEF FieldOf
  <2> QED BY <2>1 DEF Fields
<1>3. CASE kind = "JackInput"
  <2>1. FieldOf[kind] = {"inputs"}
    BY <1>3 DEF FieldOf
  <2> QED BY <2>1 DEF Fields
<1>4. CASE kind = "JackOutput"
  <2>1. FieldOf[kind] = {"outputs"}
    BY <1>4 DEF FieldOf
  <2> QED BY <2>1 DEF Fields
<1>5. CASE kind \in {"ImageElement", "AltParamChoice"}
  <2>1. FieldOf[kind] = {}
    BY <1>5, KindsAre DEF FieldOf
  <2> QED BY <2>1
<1> QED BY <1>1, <1>2, <1>3, <1>4, <1>5, KindsAre

-----------------------------------------------------------------------------
(***************************************************************************)
(* The running totals.                                                     *)
(***************************************************************************)
IsTotal(g, p, n) ==
    g = [i \in 0 .. n |-> IF i = 0 THEN Counts(0, 0, 0, 0) ELSE Added(g[i - 1], CountOf[p[i]])]

\* There is a function as count() defines it.
LEMMA TotalExists ==
    ASSUME NEW p, NEW n \in Nat
    PROVE  \E g : IsTotal(g, p, n)
<1> DEFINE T == {m \in 0 .. n : \E g : IsTotal(g, p, m)}
<1>1. 0 \in T
  <2> DEFINE g == [i \in 0 .. 0 |-> Counts(0, 0, 0, 0)]
             h == [i \in 0 .. 0 |-> IF i = 0 THEN Counts(0, 0, 0, 0) ELSE Added(g[i - 1], CountOf[p[i]])]
  <2>1. \A i \in 0 .. 0 : g[i] = h[i]
    OBVIOUS
  <2>2. g = h
    <3> HIDE DEF Counts, Added, CountOf
    <3> QED BY <2>1
  <2>3. IsTotal(g, p, 0)
    BY <2>2 DEF IsTotal
  <2> QED BY <2>3
<1>2. ASSUME NEW k \in 0 .. n - 1, k \in T PROVE k + 1 \in T
  <2>1. PICK g : IsTotal(g, p, k)
    BY <1>2
  <2> DEFINE h == [i \in 0 .. k + 1 |-> IF i <= k THEN g[i] ELSE Added(g[k], CountOf[p[k + 1]])]
             s == [i \in 0 .. k + 1 |-> IF i = 0 THEN Counts(0, 0, 0, 0) ELSE Added(h[i - 1], CountOf[p[i]])]
  <2>2. \A i \in 0 .. k : g[i] = IF i = 0 THEN Counts(0, 0, 0, 0) ELSE Added(g[i - 1], CountOf[p[i]])
    BY <2>1 DEF IsTotal
  <2>3. ASSUME NEW i \in 0 .. k + 1 PROVE h[i] = s[i]
    <3>1. CASE i = 0
      BY <2>2, <3>1
    <3>2. CASE i # 0 /\ i <= k
      <4>1. i - 1 \in 0 .. k + 1 /\ i - 1 <= k /\ i \in 0 .. k
        BY <3>2
      <4>2. h[i] = g[i] /\ h[i - 1] = g[i - 1]
        BY <3>2, <4>1
      <4>3. s[i] = Added(h[i - 1], CountOf[p[i]])
        BY <3>2
      <4>4. g[i] = Added(g[i - 1], CountOf[p[i]])
        BY <2>2, <3>2, <4>1
      <4> QED BY <4>2, <4>3, <4>4
    <3>3. CASE i = k + 1
      <4>1. i - 1 = k /\ k \in 0 .. k + 1 /\ i # 0 /\ ~(i <= k)
        BY <3>3
      <4>2. h[i] = Added(g[k], CountOf[p[k + 1]]) /\ h[k] = g[k]
        BY <4>1
      <4>3. s[i] = Added(h[i - 1], CountOf[p[i]])
        BY <4>1
      <4> QED BY <3>3, <4>1, <4>2, <4>3
    <3> QED BY <3>1, <3>2, <3>3
  <2>4. h = s
    <3>1. h = [i \in 0 .. k + 1 |-> h[i]] /\ s = [i \in 0 .. k + 1 |-> s[i]]
      OBVIOUS
    <3> HIDE DEF h, s
    <3> QED BY <2>3, <3>1
  <2>5. IsTotal(h, p, k + 1)
    BY <2>4 DEF IsTotal
  <2> QED BY <2>5
<1> HIDE DEF T
<1>3. 0 .. n \subseteq T
  BY <1>1, <1>2, InductionUpTo
<1>4. n \in T
  BY <1>3
<1> QED BY <1>4 DEF T

LEMMA TotalIs ==
    ASSUME NEW p, Len(p) \in Nat
    PROVE  IsTotal(RunningTotal(p), p, Len(p))
<1>1. \E g : IsTotal(g, p, Len(p))
  BY TotalExists
<1>2. RunningTotal(p) = CHOOSE g : IsTotal(g, p, Len(p))
  BY DEF RunningTotal, IsTotal
<1> QED BY <1>1, <1>2, Zenon

\* The f of the elements up to the i-th, and of the i-th.
Total(p, i, f) == RunningTotal(p)[i][f]
Has(p, i, f) == CountOf[p[i]][f]

LEMMA HasIs ==
    ASSUME NEW p \in Seq(Kinds), NEW i \in 1 .. Len(p), NEW f \in Fields
    PROVE  Has(p, i, f) \in 0 .. 3
<1>1. p[i] \in Kinds
  OBVIOUS
<1>2. CountOf[p[i]] \in [Fields -> 0 .. 3]
  BY <1>1, CountsAre
<1> QED BY <1>2 DEF Has

LEMMA TotalStarts ==
    ASSUME NEW p \in Seq(Kinds), NEW f \in Fields
    PROVE  Total(p, 0, f) = 0
<1>1. IsTotal(RunningTotal(p), p, Len(p))
  BY TotalIs
<1>2. RunningTotal(p)[0] = Counts(0, 0, 0, 0)
  BY <1>1 DEF IsTotal
<1> QED BY <1>2 DEF Total, Counts, Fields

LEMMA TotalAdds ==
    ASSUME NEW p \in Seq(Kinds), NEW f \in Fields, NEW i \in 1 .. Len(p)
    PROVE  Total(p, i, f) = Total(p, i - 1, f) + Has(p, i, f)
<1>1. IsTotal(RunningTotal(p), p, Len(p))
  BY TotalIs
<1>2. RunningTotal(p)[i] = Added(RunningTotal(p)[i - 1], CountOf[p[i]])
  BY <1>1 DEF IsTotal
<1> QED BY <1>2 DEF Total, Has, Added

\* Totals are numbers, at most three for an element.
LEMMA TotalIsSmall ==
    ASSUME NEW p \in Seq(Kinds), NEW f \in Fields, NEW n \in 0 .. Len(p)
    PROVE  Total(p, n, f) \in 0 .. 3 * n
<1> DEFINE T == {m \in 0 .. Len(p) : Total(p, m, f) \in 0 .. 3 * m}
<1>1. 0 \in T
  BY TotalStarts
<1>2. ASSUME NEW k \in 0 .. Len(p) - 1, k \in T PROVE k + 1 \in T
  <2>1. k + 1 \in 1 .. Len(p) /\ k + 1 - 1 = k
    OBVIOUS
  <2>2. Total(p, k + 1, f) = Total(p, k, f) + Has(p, k + 1, f)
    BY <2>1, TotalAdds
  <2>3. Has(p, k + 1, f) \in 0 .. 3
    BY <2>1, HasIs
  <2> QED BY <1>2, <2>2, <2>3
<1> HIDE DEF T
<1>3. Len(p) \in Nat
  OBVIOUS
<1>4. 0 .. Len(p) \subseteq T
  BY <1>1, <1>2, <1>3, InductionUpTo, Zenon
<1> QED BY <1>4 DEF T

\* Of params, inputs and outputs an element has one at most.
LEMMA TotalOfOnes ==
    ASSUME NEW p \in Seq(Kinds), NEW f \in {"params", "inputs", "outputs"}, NEW n \in 0 .. Len(p)
    PROVE  Total(p, n, f) \in 0 .. n
<1>0. f \in Fields
  BY DEF Fields
<1> DEFINE T == {m \in 0 .. Len(p) : Total(p, m, f) \in 0 .. m}
<1>1. 0 \in T
  BY <1>0, TotalStarts
<1>2. ASSUME NEW k \in 0 .. Len(p) - 1, k \in T PROVE k + 1 \in T
  <2>1. k + 1 \in 1 .. Len(p) /\ k + 1 - 1 = k /\ p[k + 1] \in Kinds
    OBVIOUS
  <2>2. Total(p, k + 1, f) = Total(p, k, f) + Has(p, k + 1, f)
    BY <1>0, <2>1, TotalAdds
  <2>3. Has(p, k + 1, f) \in 0 .. 3
    BY <1>0, <2>1, HasIs
  <2>4. Has(p, k + 1, f) <= 1
    BY <2>1, CountsAre DEF Has
  <2> QED BY <1>2, <2>2, <2>3, <2>4
<1> HIDE DEF T
<1>3. Len(p) \in Nat
  OBVIOUS
<1>4. 0 .. Len(p) \subseteq T
  BY <1>1, <1>2, <1>3, InductionUpTo, Zenon
<1> QED BY <1>4 DEF T

LEMMA TotalGrows ==
    ASSUME NEW p \in Seq(Kinds), NEW f \in Fields, NEW n \in 0 .. Len(p), NEW m \in 0 .. n
    PROVE  Total(p, m, f) <= Total(p, n, f)
<1> DEFINE T == {l \in 0 .. Len(p) : m <= l => Total(p, m, f) <= Total(p, l, f)}
<1>0. m \in 0 .. Len(p) /\ Total(p, m, f) \in Nat
  BY TotalIsSmall
<1>1. 0 \in T
  <2>1. m <= 0 => m = 0
    OBVIOUS
  <2> QED BY <1>0, <2>1
<1>2. ASSUME NEW k \in 0 .. Len(p) - 1, k \in T PROVE k + 1 \in T
  <2>1. k + 1 \in 1 .. Len(p) /\ k + 1 - 1 = k /\ k \in 0 .. Len(p) /\ k + 1 \in 0 .. Len(p)
    OBVIOUS
  <2>2. Total(p, k + 1, f) = Total(p, k, f) + Has(p, k + 1, f)
    BY <2>1, TotalAdds
  <2>3. Has(p, k + 1, f) \in 0 .. 3 /\ Total(p, k, f) \in Nat
    BY <2>1, HasIs, TotalIsSmall
  <2>4. CASE m <= k
    BY <1>0, <1>2, <2>1, <2>2, <2>3, <2>4
  <2>5. CASE m = k + 1
    BY <1>0, <2>1, <2>5
  <2>6. CASE m > k + 1
    BY <2>1, <2>6
  <2> QED BY <2>4, <2>5, <2>6
<1> HIDE DEF T
<1>3. Len(p) \in Nat
  OBVIOUS
<1>4. 0 .. Len(p) \subseteq T
  BY <1>1, <1>2, <1>3, InductionUpTo, Zenon
<1> QED BY <1>4 DEF T

\* An element that comes later starts where the earlier one has ended.
LEMMA LaterIsAbove ==
    ASSUME NEW p \in Seq(Kinds), NEW f \in Fields,
           NEW i \in 1 .. Len(p), NEW j \in 1 .. Len(p), i < j
    PROVE  Total(p, i - 1, f) + Has(p, i, f) <= Total(p, j - 1, f)
<1>1. j - 1 \in 0 .. Len(p) /\ i \in 0 .. j - 1
  OBVIOUS
<1>2. Total(p, i, f) <= Total(p, j - 1, f)
  BY <1>1, TotalGrows
<1> QED BY <1>2, TotalAdds

\* So a number belongs to one element, and is its k-th for one k.
LEMMA NumbersAreApart ==
    ASSUME NEW p \in Seq(Kinds), NEW f \in Fields,
           NEW i \in 1 .. Len(p), NEW j \in 1 .. Len(p),
           NEW k \in 1 .. Has(p, i, f), NEW l \in 1 .. Has(p, j, f),
           Total(p, i - 1, f) + k = Total(p, j - 1, f) + l
    PROVE  i = j /\ k = l
<1>1. Has(p, i, f) \in 0 .. 3 /\ Has(p, j, f) \in 0 .. 3
  BY HasIs
<1>2. i - 1 \in 0 .. Len(p) /\ j - 1 \in 0 .. Len(p)
  OBVIOUS
<1>3. Total(p, i - 1, f) \in Nat /\ Total(p, j - 1, f) \in Nat
  BY <1>2, TotalIsSmall
<1>4. CASE i < j
  BY <1>1, <1>3, <1>4, LaterIsAbove
<1>5. CASE j < i
  BY <1>1, <1>3, <1>5, LaterIsAbove
<1>6. CASE i = j
  BY <1>1, <1>3, <1>6
<1> QED BY <1>4, <1>5, <1>6

\* The numbers of an element are numbers of the panel.
LEMMA NumbersAreThere ==
    ASSUME NEW p \in Seq(Kinds), NEW f \in Fields,
           NEW i \in 1 .. Len(p), NEW k \in 1 .. Has(p, i, f)
    PROVE  Total(p, i - 1, f) + k - 1 \in 0 .. Total(p, Len(p), f) - 1
<1>1. Has(p, i, f) \in 0 .. 3
  BY HasIs
<1>2. i - 1 \in 0 .. Len(p) /\ i \in 0 .. Len(p) /\ Len(p) \in 0 .. Len(p)
  OBVIOUS
<1>3. Total(p, i - 1, f) \in Nat /\ Total(p, i, f) \in Nat /\ Total(p, Len(p), f) \in Nat
  BY <1>2, TotalIsSmall
<1>4. Total(p, i, f) <= Total(p, Len(p), f)
  BY <1>2, TotalGrows
<1>5. Total(p, i, f) = Total(p, i - 1, f) + Has(p, i, f)
  BY TotalAdds
<1> QED BY <1>1, <1>3, <1>4, <1>5

-----------------------------------------------------------------------------
(***************************************************************************)
(* Looking an element up.                                                  *)
(***************************************************************************)
\* The params, the lights, the inputs and the outputs of a panel number at most 255
\* each: what the uint8_t of set_index can tell apart, and from the 255 that it makes
\* of the marker.
Fits(p) == \A f \in Fields : Count(p)[f] <= 255

PanelTypes ==
    /\ panel \in Seq(PanelKinds)
    /\ Len(panel) <= MaxElements
    /\ \A f \in Fields : DOMAIN store[f] = 0 .. Count(panel)[f] - 1
    /\ DOMAIN store = Fields

LEMMA IndexIs ==
    ASSUME NEW p \in Seq(Kinds), NEW i \in 1 .. Len(p), NEW f \in Fields
    PROVE  GetIndices(p)[i][f] = IF Has(p, i, f) = 0 THEN NoElementMarker ELSE Total(p, i - 1, f)
<1>1. i \in DOMAIN p
  OBVIOUS
<1>2. GetIndices(p)[i] = MarkUnused(RunningTotal(p)[i - 1], CountOf[p[i]])
  BY <1>1 DEF GetIndices
<1> QED BY <1>2 DEF MarkUnused, Total, Has

\* An index in common is an index of one element.
LEMMA MatchedIsOne ==
    ASSUME NEW p \in Seq(Kinds), NEW i \in 1 .. Len(p), NEW j \in 1 .. Len(p),
           Matched(GetIndices(p)[i], GetIndices(p)[j])
    PROVE  i = j
<1>1. PICK f \in Fields : /\ GetIndices(p)[i][f] = GetIndices(p)[j][f]
                          /\ GetIndices(p)[i][f] # NoElementMarker
  BY DEF Matched
<1>2. Has(p, i, f) # 0 /\ Has(p, j, f) # 0 /\ Total(p, i - 1, f) = Total(p, j - 1, f)
  BY <1>1, IndexIs
<1>3. 1 \in 1 .. Has(p, i, f) /\ 1 \in 1 .. Has(p, j, f)
  BY <1>2, HasIs
<1> QED BY <1>2, <1>3, NumbersAreApart

SmallIndex(a) == a \in 0 .. 254 /\ a % 256 = a /\ a # NoElementMarker

LEMMA ByteIs ==
    ASSUME NEW a \in Nat, NEW b \in Nat, a + 1 - 1 \in 0 .. b - 1, b <= 255
    PROVE  SmallIndex(a)
BY DEF NoElementMarker, SmallIndex

\* An index that is not the marker fits the byte it is put back from, with room for
\* what set_index makes of the marker.
LEMMA IndexFits ==
    ASSUME NEW p \in Seq(Kinds), Fits(p), NEW i \in 1 .. Len(p), NEW f \in Fields,
           Has(p, i, f) # 0
    PROVE  SmallIndex(Total(p, i - 1, f))
<1>1. 1 \in 1 .. Has(p, i, f)
  BY HasIs
<1>2. Total(p, i - 1, f) + 1 - 1 \in 0 .. Total(p, Len(p), f) - 1
  BY <1>1, NumbersAreThere
<1>3. Total(p, Len(p), f) \in Nat /\ Total(p, Len(p), f) <= 255 /\ Total(p, i - 1, f) \in Nat
  <2>1. Len(p) \in 0 .. Len(p) /\ i - 1 \in 0 .. Len(p)
    OBVIOUS
  <2> QED BY <2>1, TotalIsSmall DEF Fits, Count, Total
<1> QED BY <1>2, <1>3, ByteIs, Zenon

KeptIndex(p, i) == GetIndex(p[i], GetIndices(p)[i])

\* An element of a base class it counts in is found by the index it kept, and it alone.
LEMMA KeptIsOne ==
    ASSUME NEW p \in Seq(Kinds), Fits(p), NEW i \in 1 .. Len(p), NEW j \in 1 .. Len(p),
           NEW f \in Fields, FieldOf[p[i]] = {f}, CountOf[p[i]][f] # 0
    PROVE  /\ KeptIndex(p, i) # NoElementMarker
           /\ Matched(SetIndex(p[i], KeptIndex(p, i)), GetIndices(p)[j]) <=> i = j
<1> DEFINE kind == p[i]
           kept == SetIndex(kind, KeptIndex(p, i))
<1>1. kind \in Kinds
  OBVIOUS
<1>3. Has(p, i, f) # 0
  BY DEF Has
<1>4. 1 \in 1 .. Has(p, i, f)
  BY <1>3, HasIs
<1>7. /\ Total(p, i - 1, f) \in 0 .. 254
      /\ Total(p, i - 1, f) % 256 = Total(p, i - 1, f)
      /\ Total(p, i - 1, f) # NoElementMarker
  BY <1>3, IndexFits DEF SmallIndex
<1>8. KeptIndex(p, i) = Total(p, i - 1, f)
  <2>1. (CHOOSE g \in {f} : TRUE) = f
    OBVIOUS
  <2>2. KeptIndex(p, i) = GetIndices(p)[i][f]
    BY <2>1 DEF GetIndex, KeptIndex
  <2> QED BY <2>2, <1>3, IndexIs
<1>9. kind # "AltParamChoice"
  <2>1. kind = "AltParamChoice" => FieldOf[kind] = {}
    BY <1>1 DEF FieldOf
  <2> QED BY <2>1
<1>10. kept = [g \in Fields |-> IF g = f THEN Total(p, i - 1, f) ELSE NoElementMarker]
  <2>2. kept = [g \in Fields |-> IF g \in {f} THEN Total(p, i - 1, f) % 256 ELSE NoElementMarker]
    BY <1>8, <1>9 DEF SetIndex
  <2> QED BY <1>7, <2>2
<1> HIDE DEF kept
<1>11. ASSUME Matched(kept, GetIndices(p)[j]) PROVE i = j
  <2>1. PICK g \in Fields : kept[g] = GetIndices(p)[j][g] /\ kept[g] # NoElementMarker
    BY <1>11 DEF Matched
  <2>2. g = f /\ GetIndices(p)[j][f] = Total(p, i - 1, f)
    BY <2>1, <1>10
  <2>3. GetIndices(p)[j][f] # NoElementMarker
    BY <1>7, <2>2, Zenon
  <2>4. Has(p, j, f) # 0 /\ Total(p, i - 1, f) = Total(p, j - 1, f)
    BY <2>2, <2>3, IndexIs
  <2>5. 1 \in 1 .. Has(p, j, f)
    BY <2>4, HasIs
  <2> QED BY <1>4, <2>4, <2>5, NumbersAreApart
<1>12. ASSUME i = j PROVE Matched(kept, GetIndices(p)[j])
  <2>1. GetIndices(p)[j][f] = Total(p, i - 1, f)
    BY <1>3, <1>12, IndexIs
  <2>2. kept[f] = Total(p, i - 1, f)
    BY <1>10
  <2>3. kept[f] # NoElementMarker
    BY <1>7, <2>2, Zenon
  <2> QED BY <2>1, <2>2, <2>3 DEF Matched
<1>13. KeptIndex(p, i) # NoElementMarker
  BY <1>7, <1>8, Zenon
<1> QED BY <1>11, <1>12, <1>13 DEF kept

\* An element that kept the marker is put back with 255 or with no index at all, and
\* no element has an index 255.
LEMMA KeptIsNone ==
    ASSUME NEW p \in Seq(Kinds), Fits(p), NEW i \in 1 .. Len(p), NEW j \in 1 .. Len(p),
           KeptIndex(p, i) = NoElementMarker
    PROVE  ~Matched(SetIndex(p[i], KeptIndex(p, i)), GetIndices(p)[j])
<1> DEFINE kept == SetIndex(p[i], KeptIndex(p, i))
<1>1. \A g \in Fields : kept[g] \in {255, NoElementMarker}
  <2>1. NoElementMarker % 256 = 255
    BY DEF NoElementMarker
  <2> QED BY <2>1 DEF SetIndex
<1> HIDE DEF kept
<1>2. ASSUME Matched(kept, GetIndices(p)[j]) PROVE FALSE
  <2>1. PICK g \in Fields : kept[g] = GetIndices(p)[j][g] /\ kept[g] # NoElementMarker
    BY <1>2 DEF Matched
  <2>2. GetIndices(p)[j][g] = 255 /\ GetIndices(p)[j][g] # NoElementMarker
    BY <1>1, <2>1
  <2>3. Has(p, j, g) # 0 /\ Total(p, j - 1, g) = 255
    BY <2>2, IndexIs
  <2>4. Total(p, j - 1, g) \in 0 .. 254
    BY <2>3, IndexFits DEF SmallIndex
  <2>5. 255 \in 0 .. 254
    BY <2>3, <2>4, Zenon
  <2> QED BY <2>5
<1> QED BY <1>2 DEF kept

LEMMA KeptFinds ==
    ASSUME NEW p \in Seq(Kinds), Fits(p), NEW i \in 1 .. Len(p), NEW j \in 1 .. Len(p)
    PROVE  Matched(SetIndex(p[i], KeptIndex(p, i)), GetIndices(p)[j])
             <=> i = j /\ KeptIndex(p, i) # NoElementMarker
<1>0. p[i] \in Kinds
  OBVIOUS
<1>1. CASE FieldOf[p[i]] = {}
  <2>1. KeptIndex(p, i) = NoElementMarker
    BY <1>1 DEF KeptIndex, GetIndex
  <2> QED BY <2>1, KeptIsNone
<1>2. CASE \E f \in Fields : FieldOf[p[i]] = {f} /\ CountOf[p[i]][f] # 0
  BY <1>2, KeptIsOne
<1>3. CASE \E f \in Fields : FieldOf[p[i]] = {f} /\ CountOf[p[i]][f] = 0
  <2>1. PICK f \in Fields : FieldOf[p[i]] = {f} /\ Has(p, i, f) = 0
    BY <1>3 DEF Has
  <2>2. (CHOOSE g \in {f} : TRUE) = f
    OBVIOUS
  <2>3. KeptIndex(p, i) = GetIndices(p)[i][f]
    BY <2>1, <2>2 DEF KeptIndex, GetIndex
  <2>4. KeptIndex(p, i) = NoElementMarker
    BY <2>1, <2>3, IndexIs
  <2> QED BY <2>4, KeptIsNone
<1> QED BY <1>0, <1>1, <1>2, <1>3, FieldsAre

-----------------------------------------------------------------------------
(***************************************************************************)
(* The panel is fixed, and the arrays are as long as its counts.           *)
(***************************************************************************)
LEMMA PanelIs ==
    ASSUME panel \in Seq(PanelKinds)
    PROVE  panel \in Seq(Kinds)
BY PanelAssumption

LEMMA PanelInit == Init => PanelTypes
<1> SUFFICES ASSUME Init PROVE PanelTypes
  OBVIOUS
<1>1. PICK n \in 0 .. MaxElements : panel \in [1 .. n -> PanelKinds]
  BY DEF Init, Panels
<1>2. panel \in Seq(PanelKinds) /\ Len(panel) = n
  BY <1>1, PanelAssumption
<1>3. store = [f \in Fields |-> [id \in 0 .. Count(panel)[f] - 1 |-> 0]]
  BY DEF Init
<1>4. DOMAIN store = Fields
  BY <1>3
<1>5. \A f \in Fields : DOMAIN store[f] = 0 .. Count(panel)[f] - 1
  BY <1>3
<1> QED BY <1>1, <1>2, <1>4, <1>5, PanelAssumption DEF PanelTypes

\* Writing an array in place keeps what the others are indexed by.
LEMMA OneArrayWritten ==
    ASSUME NEW st, NEW f \in DOMAIN st, NEW r, DOMAIN r = DOMAIN st[f]
    PROVE  /\ DOMAIN [st EXCEPT ![f] = r] = DOMAIN st
           /\ \A g \in DOMAIN st : DOMAIN [st EXCEPT ![f] = r][g] = DOMAIN st[g]
OBVIOUS

LEMMA PanelStep == PanelTypes /\ [Next]_vars => PanelTypes'
<1> SUFFICES ASSUME PanelTypes, [Next]_vars PROVE PanelTypes'
  OBVIOUS
<1>1. ASSUME panel' = panel, DOMAIN store' = DOMAIN store,
             \A f \in Fields : DOMAIN store'[f] = DOMAIN store[f]
      PROVE  PanelTypes'
  <2>1. Count(panel)' = Count(panel)
    BY <1>1 DEF Count, RunningTotal
  <2> QED BY <1>1, <2>1 DEF PanelTypes
<1>2. DOMAIN store = Fields
  BY DEF PanelTypes
<1>3. ASSUME NEW f \in {"params", "inputs"}, NEW id \in 0 .. MaxElements, NEW v \in Values,
             SetByNumber(f, id, v)
      PROVE  PanelTypes'
  BY <1>1, <1>3 DEF SetByNumber
<1>4. ASSUME NEW i \in DOMAIN panel, NEW v \in Values, SetOutput(i, v)
      PROVE  PanelTypes'
  <2> DEFINE set == [store["outputs"] EXCEPT ![Index(i).outputs] = v]
  <2>1. store' = [store EXCEPT !["outputs"] = set] /\ panel' = panel
    BY <1>4, Zenon DEF SetOutput
  <2>2. DOMAIN set = DOMAIN store["outputs"]
    OBVIOUS
  <2>3. "outputs" \in DOMAIN store
    BY <1>2 DEF Fields
  <2> HIDE DEF set
  <2>4. DOMAIN store' = DOMAIN store /\ \A f \in Fields : DOMAIN store'[f] = DOMAIN store[f]
    BY <1>2, <2>1, <2>2, <2>3, OneArrayWritten, Zenon
  <2> QED BY <1>1, <2>1, <2>4
<1>5. ASSUME NEW i \in DOMAIN panel, NEW color \in ConvertLED(panel[i]), SetLED(i, color)
      PROVE  PanelTypes'
  <2> DEFINE first == Index(i).lights
             lit == [id \in DOMAIN store.lights |->
                       IF id \in first .. first + Len(color) - 1
                       THEN color[id - first + 1] ELSE store.lights[id]]
  <2>1. store' = [store EXCEPT !.lights = lit] /\ panel' = panel
    BY <1>5 DEF SetLED
  <2>2. DOMAIN lit = DOMAIN store.lights
    OBVIOUS
  <2>3. "lights" \in DOMAIN store
    BY <1>2 DEF Fields
  <2> HIDE DEF lit
  <2>4. DOMAIN store' = DOMAIN store /\ \A f \in Fields : DOMAIN store'[f] = DOMAIN store[f]
    BY <1>2, <2>1, <2>2, <2>3, OneArrayWritten, Zenon
  <2> QED BY <1>1, <2>1, <2>4
<1>6. CASE UNCHANGED vars
  BY <1>1, <1>6 DEF vars
<1> QED BY <1>3, <1>4, <1>5, <1>6 DEF Next

\* matched() tells the elements of a panel apart by the indices get_indices gives
\* them.  By the one index that get_index keeps and set_index puts back an element
\* finds itself and no other, and one of a kind that get_index has no index of finds
\* nothing: on every panel that has at most 255 of each, of elements of every kind.
THEOREM Lookup == Spec => [](PanelTypes /\ (Fits(panel) => OnlyItselfMatches))
<1>1. PanelTypes => (Fits(panel) => OnlyItselfMatches)
  <2> SUFFICES ASSUME PanelTypes, Fits(panel), NEW i \in DOMAIN panel, NEW j \in DOMAIN panel
               PROVE  /\ Matched(Index(i), Index(j)) => i = j
                      /\ Matched(Kept(i), Index(j)) <=> i = j /\ Keeps(i)
    BY DEF OnlyItselfMatches
  <2>1. panel \in Seq(Kinds)
    BY PanelIs DEF PanelTypes
  <2>2. i \in 1 .. Len(panel) /\ j \in 1 .. Len(panel)
    BY <2>1
  <2>3. Matched(Index(i), Index(j)) => i = j
    BY <2>1, <2>2, MatchedIsOne DEF Index
  <2>4. Matched(Kept(i), Index(j)) <=> i = j /\ Keeps(i)
    BY <2>1, <2>2, KeptFinds, Zenon DEF Index, Kept, Keeps, KeptIndex
  <2> QED BY <2>3, <2>4
<1> QED BY <1>1, PanelInit, PanelStep, PTL DEF Spec

\* Which holds of every panel of at most 85 elements: none has more than three lights.
COROLLARY LookupOfSmallPanels ==
    ASSUME MaxElements <= 85
    PROVE  Spec => []OnlyItselfMatches
<1>1. PanelTypes => Fits(panel)
  <2> SUFFICES ASSUME PanelTypes, NEW f \in Fields PROVE Count(panel)[f] <= 255
    BY DEF Fits
  <2>1. panel \in Seq(Kinds)
    BY PanelIs DEF PanelTypes
  <2>2. Len(panel) \in Nat /\ Len(panel) <= 85
    BY <2>1, PanelAssumption DEF PanelTypes
  <2>3. Total(panel, Len(panel), f) \in 0 .. 3 * Len(panel)
    BY <2>1, <2>2, TotalIsSmall
  <2> QED BY <2>2, <2>3 DEF Count, Total
<1> QED BY <1>1, Lookup, PTL

-----------------------------------------------------------------------------
(***************************************************************************)
(* The elements in the order of their numbers, as PanelValues counts them.  *)
(***************************************************************************)
Owned(p, f) == {q \in (DOMAIN p) \X (1 .. 3) : q[2] <= CountOf[p[q[1]]][f]}
NumberOf(p, f, o) == Total(p, o[1] - 1, f) + o[2]

Owning(p, f) == [i \in DOMAIN p |-> [k \in 1 .. CountOf[p[i]][f] |-> <<i, k>>]]

LEMMA OwnedPair ==
    ASSUME NEW p \in Seq(Kinds), NEW f \in Fields, NEW o
    PROVE  o \in Owned(p, f) <=>
             /\ o = <<o[1], o[2]>>
             /\ o[1] \in 1 .. Len(p)
             /\ o[2] \in 1 .. Has(p, o[1], f)
<1>1. DOMAIN p = 1 .. Len(p)
  OBVIOUS
<1>2. ASSUME o \in Owned(p, f)
      PROVE  o = <<o[1], o[2]>> /\ o[1] \in 1 .. Len(p) /\ o[2] \in 1 .. Has(p, o[1], f)
  <2>1. o \in (1 .. Len(p)) \X (1 .. 3) /\ o[2] <= Has(p, o[1], f)
    BY <1>1, <1>2 DEF Owned, Has
  <2>2. Has(p, o[1], f) \in 0 .. 3
    BY <2>1, HasIs
  <2> QED BY <2>1, <2>2
<1>3. ASSUME o = <<o[1], o[2]>>, o[1] \in 1 .. Len(p), o[2] \in 1 .. Has(p, o[1], f)
      PROVE  o \in Owned(p, f)
  <2>1. Has(p, o[1], f) \in 0 .. 3
    BY <1>3, HasIs
  <2>2. o[2] \in 1 .. 3 /\ o[2] <= Has(p, o[1], f)
    BY <1>3, <2>1
  <2>3. o \in (1 .. Len(p)) \X (1 .. 3)
    BY <1>3, <2>2
  <2> QED BY <1>1, <2>2, <2>3 DEF Owned, Has
<1> QED BY <1>2, <1>3

\* A number is of one element's value.
LEMMA OneOwner ==
    ASSUME NEW p \in Seq(Kinds), NEW f \in Fields,
           NEW o \in Owned(p, f), NEW q \in Owned(p, f), NumberOf(p, f, o) = NumberOf(p, f, q)
    PROVE  o = q
<1>1. o[1] = q[1] /\ o[2] = q[2]
  BY OwnedPair, NumbersAreApart DEF NumberOf
<1> QED BY <1>1, OwnedPair

LEMMA OwnerIsThere ==
    ASSUME NEW p \in Seq(Kinds), NEW f \in Fields, NEW o \in Owned(p, f)
    PROVE  /\ NumberOf(p, f, o) \in 1 .. Total(p, Len(p), f)
           /\ NumberOf(p, f, o) - 1 \in 0 .. Total(p, Len(p), f) - 1
<1>1. o[1] \in 1 .. Len(p) /\ o[2] \in 1 .. Has(p, o[1], f)
  BY OwnedPair
<1>2. Total(p, o[1] - 1, f) + o[2] - 1 \in 0 .. Total(p, Len(p), f) - 1
  BY <1>1, NumbersAreThere
<1>3. NumberOf(p, f, o) = Total(p, o[1] - 1, f) + o[2]
  BY DEF NumberOf
<1>4. Total(p, o[1] - 1, f) \in Nat /\ Total(p, Len(p), f) \in Nat /\ o[2] \in Nat
  <2>1. Has(p, o[1], f) \in 0 .. 3 /\ o[1] - 1 \in 0 .. Len(p) /\ Len(p) \in 0 .. Len(p)
    BY <1>1, HasIs
  <2> QED BY <1>1, <2>1, TotalIsSmall
<1> QED BY <1>2, <1>3, <1>4

-----------------------------------------------------------------------------
IsFlat(g, s, n) ==
    g = [i \in 1 .. n |-> IF i = 1 THEN s[i] ELSE g[i - 1] \o s[i]]

\* There is a function as FlattenSeq defines it.
LEMMA FlatExists ==
    ASSUME NEW s, NEW n \in Nat
    PROVE  \E g : IsFlat(g, s, n)
<1> DEFINE T == {m \in 0 .. n : \E g : IsFlat(g, s, m)}
<1>1. 0 \in T
  <2> DEFINE g == [i \in 1 .. 0 |-> s]
             h == [i \in 1 .. 0 |-> IF i = 1 THEN s[i] ELSE g[i - 1] \o s[i]]
  <2>1. \A i \in 1 .. 0 : g[i] = h[i]
    OBVIOUS
  <2>2. g = h
    <3>1. g = [i \in 1 .. 0 |-> g[i]] /\ h = [i \in 1 .. 0 |-> h[i]]
      OBVIOUS
    <3> HIDE DEF g, h
    <3> QED BY <2>1, <3>1
  <2>3. IsFlat(g, s, 0)
    BY <2>2 DEF IsFlat
  <2> QED BY <2>3
<1>2. ASSUME NEW k \in 0 .. n - 1, k \in T PROVE k + 1 \in T
  <2>1. PICK g : IsFlat(g, s, k)
    BY <1>2
  <2> DEFINE new == IF k = 0 THEN s[1] ELSE g[k] \o s[k + 1]
             h == [i \in 1 .. k + 1 |-> IF i <= k THEN g[i] ELSE new]
             t == [i \in 1 .. k + 1 |-> IF i = 1 THEN s[i] ELSE h[i - 1] \o s[i]]
  <2>2. \A i \in 1 .. k : g[i] = IF i = 1 THEN s[i] ELSE g[i - 1] \o s[i]
    BY <2>1 DEF IsFlat
  <2>3. ASSUME NEW i \in 1 .. k + 1 PROVE h[i] = t[i]
    <3>1. CASE i = 1 /\ k # 0
      <4>1. i <= k /\ i \in 1 .. k
        BY <3>1
      <4> QED BY <2>2, <3>1, <4>1
    <3>2. CASE i # 1 /\ i <= k
      <4>1. i - 1 \in 1 .. k + 1 /\ i - 1 <= k /\ i \in 1 .. k
        BY <3>2
      <4>2. h[i] = g[i] /\ h[i - 1] = g[i - 1]
        BY <3>2, <4>1
      <4>3. t[i] = h[i - 1] \o s[i]
        BY <3>2
      <4>4. g[i] = g[i - 1] \o s[i]
        BY <2>2, <3>2, <4>1
      <4> QED BY <4>2, <4>3, <4>4
    <3>3. CASE i = k + 1 /\ k # 0
      <4>1. i - 1 = k /\ k \in 1 .. k + 1 /\ i # 1 /\ ~(i <= k)
        BY <3>3
      <4>0. new = g[k] \o s[k + 1]
        BY <3>3
      <4> HIDE DEF new
      <4>2. h[i] = new /\ h[k] = g[k]
        <5>1. k <= k
          OBVIOUS
        <5> QED BY <4>1, <5>1, Zenon
      <4>3. t[i] = h[i - 1] \o s[i]
        BY <4>1
      <4>4. h[i] = h[i - 1] \o s[i]
        BY <3>3, <4>0, <4>1, <4>2
      <4> QED BY <4>3, <4>4
    <3>4. CASE k = 0
      <4>1. i = 1 /\ ~(i <= k)
        BY <3>4
      <4> QED BY <3>4, <4>1
    <3> QED BY <3>1, <3>2, <3>3, <3>4
  <2>4. h = t
    <3>1. h = [i \in 1 .. k + 1 |-> h[i]] /\ t = [i \in 1 .. k + 1 |-> t[i]]
      OBVIOUS
    <3> HIDE DEF h, t
    <3> QED BY <2>3, <3>1
  <2>5. IsFlat(h, s, k + 1)
    BY <2>4 DEF IsFlat
  <2> QED BY <2>5
<1> HIDE DEF T
<1>3. 0 .. n \subseteq T
  BY <1>1, <1>2, InductionUpTo
<1>4. n \in T
  BY <1>3
<1> QED BY <1>4 DEF T

\* FlattenSeq, from one concatenation to the next.
LEMMA FlattenIs ==
    ASSUME NEW s, Len(s) \in Nat, Len(s) # 0
    PROVE  \E g : IsFlat(g, s, Len(s)) /\ FlattenSeq(s) = g[Len(s)]
<1> DEFINE flat == CHOOSE g : IsFlat(g, s, Len(s))
<1>1. \E g : IsFlat(g, s, Len(s))
  BY FlatExists
<1>2. IsFlat(flat, s, Len(s))
  BY <1>1
<1>3. FlattenSeq(s) = flat[Len(s)]
  BY DEF FlattenSeq, IsFlat
<1> QED BY <1>2, <1>3

FlatAt(g, s, i) == (i = 1 => g[i] = s[i]) /\ (i # 1 => g[i] = g[i - 1] \o s[i])

LEMMA FlatStep ==
    ASSUME NEW g, NEW s, NEW n, IsFlat(g, s, n), NEW i \in 1 .. n
    PROVE  FlatAt(g, s, i)
BY Zenon DEF IsFlat, FlatAt

Joined(g, s, i) == g[i] = g[i - 1] \o s[i]

LEMMA FlatLater ==
    ASSUME NEW g, NEW s, NEW i, FlatAt(g, s, i), i # 1
    PROVE  Joined(g, s, i)
BY Zenon DEF FlatAt, Joined

LEMMA OwningIs ==
    ASSUME NEW p \in Seq(Kinds), NEW f \in Fields, NEW n \in 1 .. Len(p)
    PROVE  Owning(p, f)[n] = [k \in 1 .. Has(p, n, f) |-> <<n, k>>]
<1>1. n \in DOMAIN p
  OBVIOUS
<1> QED BY <1>1, Zenon DEF Owning, Has

\* A sequence lists values of elements by number.
Lists(g, p, f, n) ==
    /\ g \in Seq(Owned(p, f))
    /\ Len(g) = Total(p, n, f)
    /\ \A m \in 1 .. Len(g) : NumberOf(p, f, g[m]) = m

LEMMA ListsMore ==
    ASSUME NEW p \in Seq(Kinds), NEW f \in Fields, NEW n \in 1 .. Len(p),
           NEW g, Lists(g, p, f, n - 1)
    PROVE  Lists(g \o Owning(p, f)[n], p, f, n)
<1> DEFINE s == Owning(p, f)[n]
<1>1. s = [k \in 1 .. Has(p, n, f) |-> <<n, k>>]
  BY OwningIs
<1>2. Has(p, n, f) \in 0 .. 3
  BY HasIs
<1>3. \A k \in 1 .. Has(p, n, f) : <<n, k>> \in Owned(p, f)
  <2> SUFFICES ASSUME NEW k \in 1 .. Has(p, n, f) PROVE <<n, k>> \in Owned(p, f)
    OBVIOUS
  <2>1. <<n, k>>[1] = n /\ <<n, k>>[2] = k
    OBVIOUS
  <2> QED BY <2>1, OwnedPair
<1>4. s \in Seq(Owned(p, f)) /\ Len(s) = Has(p, n, f)
  BY <1>1, <1>2, <1>3
<1>5. \A k \in 1 .. Has(p, n, f) : s[k] = <<n, k>>
  BY <1>1
<1>6. g \in Seq(Owned(p, f)) /\ Len(g) = Total(p, n - 1, f) /\ Len(g) \in Nat
  BY DEF Lists
<1> HIDE DEF s
<1>7. /\ g \o s \in Seq(Owned(p, f))
      /\ Len(g \o s) = Len(g) + Len(s)
      /\ \A m \in 1 .. Len(g) + Len(s) : (g \o s)[m] = IF m <= Len(g) THEN g[m] ELSE s[m - Len(g)]
  BY <1>4, <1>6, ConcatProperties, Zenon
<1>8. Len(g \o s) = Total(p, n, f)
  BY <1>4, <1>6, <1>7, TotalAdds
<1>9. ASSUME NEW m \in 1 .. Len(g \o s) PROVE NumberOf(p, f, (g \o s)[m]) = m
  <2>1. m \in 1 .. Len(g) + Len(s)
    BY <1>7
  <2>2. CASE m <= Len(g)
    <3>1. m \in 1 .. Len(g) /\ (g \o s)[m] = g[m]
      BY <1>6, <1>7, <2>1, <2>2
    <3> QED BY <3>1 DEF Lists
  <2>3. CASE ~(m <= Len(g))
    <3>1. m - Len(g) \in 1 .. Has(p, n, f)
      BY <1>2, <1>4, <1>6, <2>1, <2>3
    <3>2. (g \o s)[m] = <<n, m - Len(g)>>
      BY <1>5, <1>7, <2>1, <2>3, <3>1
    <3>3. NumberOf(p, f, <<n, m - Len(g)>>) = Total(p, n - 1, f) + (m - Len(g))
      BY DEF NumberOf
    <3> QED BY <1>6, <2>1, <3>2, <3>3
  <2> QED BY <2>2, <2>3
<1> QED BY <1>7, <1>8, <1>9 DEF Lists, s

LEMMA OwnersAreListed ==
    ASSUME NEW p \in Seq(Kinds), NEW f \in Fields
    PROVE  Lists(FlattenSeq(Owning(p, f)), p, f, Len(p))
<1> DEFINE s == Owning(p, f)
<1>1. DOMAIN s = 1 .. Len(p) /\ Len(p) \in Nat
  BY DEF Owning
<1>2. Len(s) = Len(p)
  <2> DEFINE S == {s[i] : i \in 1 .. Len(p)}
  <2>1. s \in [1 .. Len(p) -> S]
    <3>1. s = [i \in 1 .. Len(p) |-> s[i]]
      BY <1>1, Zenon DEF Owning
    <3> HIDE DEF s
    <3> QED BY <3>1
  <2> HIDE DEF s, S
  <2>2. s \in Seq(S)
    BY <1>1, <2>1
  <2> QED BY <1>1, <2>1, <2>2
<1>3. CASE Len(p) = 0
  <2>1. s = <<>>
    <3>1. DOMAIN p = {}
      BY <1>3
    <3> QED BY <3>1 DEF Owning
  <2>2. FlattenSeq(s) = <<>>
    BY <1>2, <1>3, <2>1, Zenon DEF FlattenSeq
  <2>3. Total(p, Len(p), f) = 0
    BY <1>3, TotalStarts
  <2> HIDE DEF s
  <2>4. Lists(<<>>, p, f, Len(p))
    BY <2>3 DEF Lists
  <2> QED BY <2>2, <2>4, Zenon DEF s
<1>4. CASE Len(p) # 0
  <2> HIDE DEF s
  <2>1. PICK g : IsFlat(g, s, Len(p)) /\ FlattenSeq(s) = g[Len(p)]
    BY <1>1, <1>2, <1>4, FlattenIs, Zenon
  <2> DEFINE T == {m \in 0 .. Len(p) : m # 0 => Lists(g[m], p, f, m)}
  <2>2. 0 \in T
    BY <1>1
  <2>3. ASSUME NEW k \in 0 .. Len(p) - 1, k \in T PROVE k + 1 \in T
    <3>1. k + 1 \in 1 .. Len(p) /\ k + 1 - 1 = k /\ k \in 0 .. Len(p) /\ k + 1 \in 0 .. Len(p)
      OBVIOUS
    <3>2. FlatAt(g, s, k + 1)
      BY <2>1, <3>1, FlatStep
    <3>3. CASE k = 0
      <4>1. Lists(<<>>, p, f, 0)
        BY TotalStarts DEF Lists
      <4>2. Lists(<<>> \o s[1], p, f, 1)
        <5>1. 1 \in 1 .. Len(p) /\ 1 - 1 = 0
          BY <3>1, <3>3
        <5> QED BY <4>1, <5>1, ListsMore DEF s
      <4>3. s[1] \in Seq(Owned(p, f))
        <5>1. 1 \in 1 .. Len(p) /\ 1 \in DOMAIN p
          BY <3>1, <3>3
        <5>2. s[1] = [j \in 1 .. Has(p, 1, f) |-> <<1, j>>]
          BY <5>1, OwningIs DEF s
        <5>3. Has(p, 1, f) \in 0 .. 3
          BY <5>1, HasIs
        <5>4. \A j \in 1 .. Has(p, 1, f) : <<1, j>> \in Owned(p, f)
          <6> SUFFICES ASSUME NEW j \in 1 .. Has(p, 1, f) PROVE <<1, j>> \in Owned(p, f)
            OBVIOUS
          <6>1. <<1, j>>[1] = 1 /\ <<1, j>>[2] = j
            OBVIOUS
          <6> QED BY <5>1, <6>1, OwnedPair
        <5> QED BY <5>2, <5>3, <5>4
      <4>4. <<>> \o s[1] = s[1]
        BY <4>3, ConcatEmptySeq
      <4>5. g[1] = s[1]
        <5>1. k + 1 = 1
          BY <3>3
        <5>2. FlatAt(g, s, 1)
          BY <3>2, <5>1
        <5> QED BY <5>2 DEF FlatAt
      <4> QED BY <3>1, <3>3, <4>2, <4>4, <4>5
    <3>4. CASE k # 0
      <4>1. PICK n \in 1 .. Len(p) : n = k + 1 /\ n - 1 = k /\ n # 1
        BY <3>1, <3>4
      <4>2. Joined(g, s, n)
        BY <3>2, <4>1, FlatLater
      <4>3. g[n] = g[n - 1] \o s[n]
        BY <4>2, Zenon DEF Joined
      <4>4. Lists(g[n - 1], p, f, n - 1)
        BY <2>3, <3>4, <4>1
      <4>5. Lists(g[n - 1] \o s[n], p, f, n)
        BY <4>4, ListsMore DEF s
      <4>6. Lists(g[n], p, f, n)
        BY <4>3, <4>5, Zenon
      <4> QED BY <3>1, <4>1, <4>6
    <3> QED BY <3>3, <3>4
  <2> HIDE DEF T
  <2>4. 0 .. Len(p) \subseteq T
    BY <1>1, <2>2, <2>3, InductionUpTo, Zenon
  <2>5. Len(p) \in T /\ Len(p) \in 0 .. Len(p)
    BY <1>1, <2>4
  <2> QED BY <1>4, <2>1, <2>5 DEF T, s
<1> QED BY <1>3, <1>4

-----------------------------------------------------------------------------
(***************************************************************************)
(* The values of the elements, from the panel and the arrays.              *)
(***************************************************************************)
View(p, st) ==
    [f \in Fields |-> [o \in Owned(p, f) |-> st[f][NumberOf(p, f, o) - 1]]]

\* The arrays have the numbers of the panel.
Sized(p, st) ==
    /\ DOMAIN st = Fields
    /\ \A f \in Fields : DOMAIN st[f] = 0 .. Total(p, Len(p), f) - 1

LEMMA ReadsView ==
    ASSUME NEW p \in Seq(Kinds), NEW st, Sized(p, st), NEW f \in Fields, NEW o \in Owned(p, f)
    PROVE  (LET id == GetIndices(p)[o[1]][f] + o[2] - 1
            IN  IF id \in DOMAIN st[f] THEN st[f][id] ELSE 0) = st[f][NumberOf(p, f, o) - 1]
<1>1. o[1] \in 1 .. Len(p) /\ o[2] \in 1 .. Has(p, o[1], f)
  BY OwnedPair
<1>2. Has(p, o[1], f) # 0
  BY <1>1, HasIs
<1>3. GetIndices(p)[o[1]][f] = Total(p, o[1] - 1, f)
  BY <1>1, <1>2, IndexIs
<1>4. GetIndices(p)[o[1]][f] + o[2] - 1 = NumberOf(p, f, o) - 1
  <2>1. Has(p, o[1], f) \in 0 .. 3 /\ o[1] - 1 \in 0 .. Len(p)
    BY <1>1, HasIs
  <2>2. Total(p, o[1] - 1, f) \in Nat /\ o[2] \in Nat
    BY <1>1, <2>1, TotalIsSmall
  <2> QED BY <1>3, <2>2 DEF NumberOf
<1>5. NumberOf(p, f, o) - 1 \in DOMAIN st[f]
  BY OwnerIsThere DEF Sized
<1> QED BY <1>4, <1>5

\* What the elements show is that view, before a step and after it.
LEMMA ShownIsView ==
    ASSUME panel \in Seq(Kinds), Sized(panel, store)
    PROVE  Shown = View(panel, store)
<1>1. \A f \in Fields : \A o \in Owned(panel, f) :
        ReadBack(f, o[1], o[2]) = store[f][NumberOf(panel, f, o) - 1]
  BY ReadsView DEF ReadBack, Index
<1>2. Shown = [f \in Fields |-> [o \in Owned(panel, f) |-> ReadBack(f, o[1], o[2])]]
  BY Zenon DEF Shown, Owned
<1> QED BY <1>1, <1>2 DEF View

LEMMA ShownIsViewNext ==
    ASSUME panel' \in Seq(Kinds), Sized(panel', store')
    PROVE  Shown' = View(panel', store')
<1>1. \A f \in Fields : \A o \in Owned(panel', f) :
        ReadBack(f, o[1], o[2])' = store'[f][NumberOf(panel', f, o) - 1]
  BY ReadsView DEF ReadBack, Index
<1>2. Shown' = [f \in Fields |-> [o \in Owned(panel', f) |-> ReadBack(f, o[1], o[2])']]
  BY Zenon DEF Shown, Owned
<1> QED BY <1>1, <1>2 DEF View

-----------------------------------------------------------------------------
(***************************************************************************)
(* The names of PanelValues.                                               *)
(***************************************************************************)
LEMMA SameFields == Own!Fields = Fields
BY DEF Own!Fields, Fields

LEMMA SameCounts == Own!CountOf = CountOf
BY Zenon DEF Own!CountOf, CountOf, Own!Counts, Counts

LEMMA SameFlatten ==
    ASSUME NEW s
    PROVE  Own!FlattenSeq(s) = FlattenSeq(s)
BY Zenon DEF Own!FlattenSeq, FlattenSeq

LEMMA SameOwners ==
    ASSUME NEW f
    PROVE  Own!Owners(f) = FlattenSeq(Owning(panel, f))
<1>1. Own!Owners(f) = Own!FlattenSeq(Owning(panel, f))
  BY SameCounts, Zenon DEF Own!Owners, Owning
<1> QED BY <1>1, SameFlatten

LEMMA OwnersOfIs ==
    ASSUME panel \in Seq(Kinds)
    PROVE  /\ DOMAIN Own!OwnersOf = Fields
           /\ \A f \in Fields : Own!OwnersOf[f] = Owned(panel, f)
<1>1. Own!OwnersOf = [f \in Fields |-> Own!ToSet(Own!Owners(f))]
  BY SameFields, Zenon DEF Own!OwnersOf
<1>2. ASSUME NEW f \in Fields PROVE Own!OwnersOf[f] = Owned(panel, f)
  <2> DEFINE own == FlattenSeq(Owning(panel, f))
  <2>1. Lists(own, panel, f, Len(panel))
    BY OwnersAreListed
  <2>2. Own!OwnersOf[f] = {own[m] : m \in DOMAIN own}
    BY <1>1, SameOwners, Zenon DEF Own!ToSet
  <2> HIDE DEF own
  <2>3. own \in Seq(Owned(panel, f)) /\ DOMAIN own = 1 .. Len(own)
    BY <2>1 DEF Lists
  <2>4. \A m \in DOMAIN own : own[m] \in Owned(panel, f)
    BY <2>3
  <2>5. ASSUME NEW o \in Owned(panel, f) PROVE \E m \in DOMAIN own : own[m] = o
    <3>1. NumberOf(panel, f, o) \in 1 .. Total(panel, Len(panel), f)
      BY OwnerIsThere
    <3>2. NumberOf(panel, f, o) \in 1 .. Len(own)
      BY <2>1, <3>1 DEF Lists
    <3>3. NumberOf(panel, f, own[NumberOf(panel, f, o)]) = NumberOf(panel, f, o)
      BY <2>1, <3>2 DEF Lists
    <3>4. own[NumberOf(panel, f, o)] = o
      BY <2>3, <2>4, <3>2, <3>3, OneOwner
    <3> QED BY <2>3, <3>2, <3>4
  <2> QED BY <2>2, <2>4, <2>5
<1> QED BY <1>1, <1>2

-----------------------------------------------------------------------------
(***************************************************************************)
(* What a write of the arrays does to the elements.                        *)
(***************************************************************************)
\* With one of the numbers set, its element's value is set.
OneWritten(p, st, f, o, v) ==
    View(p, [st EXCEPT ![f][NumberOf(p, f, o) - 1] = v]) = [View(p, st) EXCEPT ![f][o] = v]

\* With as many lights set from an element's first as it has, all of its lights are set.
LightsWritten(p, st, i, color, first) ==
    View(p, [st EXCEPT !["lights"] =
               [id \in DOMAIN st["lights"] |->
                  IF id \in first .. first + Len(color) - 1
                  THEN color[id - first + 1] ELSE st["lights"][id]]])
      = [View(p, st) EXCEPT !["lights"] =
           [o \in Owned(p, "lights") |->
              IF o[1] = i THEN color[o[2]] ELSE View(p, st)["lights"][o]]]

LEMMA OneIsWritten ==
    ASSUME NEW p \in Seq(Kinds), NEW st, Sized(p, st), NEW f \in Fields,
           NEW o \in Owned(p, f), NEW v
    PROVE  OneWritten(p, st, f, o, v)
<1> DEFINE n == NumberOf(p, f, o) - 1
           array == [st[f] EXCEPT ![n] = v]
           new == [st EXCEPT ![f] = array]
           values == [View(p, st)[f] EXCEPT ![o] = v]
<1>1. n \in DOMAIN st[f] /\ NumberOf(p, f, o) \in Nat
  <2>1. NumberOf(p, f, o) \in 1 .. Total(p, Len(p), f) /\ n \in DOMAIN st[f]
    BY OwnerIsThere DEF Sized
  <2> QED BY <2>1
<1>2. ASSUME NEW q \in Owned(p, f)
      PROVE  array[NumberOf(p, f, q) - 1] = IF q = o THEN v ELSE st[f][NumberOf(p, f, q) - 1]
  <2>1. NumberOf(p, f, q) \in 1 .. Total(p, Len(p), f) /\ NumberOf(p, f, q) - 1 \in DOMAIN st[f]
    BY OwnerIsThere DEF Sized
  <2>2. NumberOf(p, f, q) - 1 = n <=> q = o
    BY <1>1, <2>1, OneOwner
  <2> HIDE DEF n
  <2> QED BY <2>1, <2>2
<1>3. View(p, st)[f] = [q \in Owned(p, f) |-> st[f][NumberOf(p, f, q) - 1]]
  BY DEF View
<1>4. values = [q \in Owned(p, f) |-> IF q = o THEN v ELSE st[f][NumberOf(p, f, q) - 1]]
  BY <1>3
<1>5. values = [q \in Owned(p, f) |-> array[NumberOf(p, f, q) - 1]]
  <2> HIDE DEF values, array
  <2> QED BY <1>2, <1>4
<1>6. DOMAIN st = Fields
  BY DEF Sized
<1> HIDE DEF values, array
<1>7. View(p, new) = [View(p, st) EXCEPT ![f] = values]
  <2>1. \A g \in Fields : new[g] = IF g = f THEN array ELSE st[g]
    BY <1>6
  <2> HIDE DEF new
  <2>2. ASSUME NEW g \in Fields
        PROVE  View(p, new)[g] = IF g = f THEN values ELSE View(p, st)[g]
    <3>1. View(p, new)[g] = [q \in Owned(p, g) |-> new[g][NumberOf(p, g, q) - 1]]
      BY DEF View
    <3>2. CASE g = f
      BY <1>5, <2>1, <3>1, <3>2
    <3>3. CASE g # f
      <4>1. View(p, st)[g] = [q \in Owned(p, g) |-> st[g][NumberOf(p, g, q) - 1]]
        BY DEF View
      <4> QED BY <2>1, <3>1, <3>3, <4>1
    <3> QED BY <3>2, <3>3
  <2>3. /\ View(p, new) = [g \in Fields |-> View(p, new)[g]]
        /\ View(p, st) = [g \in Fields |-> View(p, st)[g]]
    BY DEF View
  <2> QED BY <2>2, <2>3
<1> QED BY <1>7 DEF values, array, OneWritten

LEMMA LightsAreWritten ==
    ASSUME NEW p \in Seq(Kinds), NEW st, Sized(p, st), NEW i \in 1 .. Len(p),
           NEW color, Len(color) = Has(p, i, "lights"), NEW first,
           first = Total(p, i - 1, "lights")
    PROVE  LightsWritten(p, st, i, color, first)
<1> DEFINE f == "lights"
           array == [id \in DOMAIN st[f] |->
                       IF id \in first .. first + Len(color) - 1
                       THEN color[id - first + 1] ELSE st[f][id]]
           new == [st EXCEPT ![f] = array]
           values == [o \in Owned(p, f) |-> IF o[1] = i THEN color[o[2]] ELSE View(p, st)[f][o]]
<1>1. f \in Fields
  BY DEF Fields
<1>2. first \in Nat /\ Len(color) \in 0 .. 3
  <2>1. i - 1 \in 0 .. Len(p)
    OBVIOUS
  <2> QED BY <1>1, <2>1, TotalIsSmall, HasIs
<1> HIDE DEF f
<1>3. ASSUME NEW q \in Owned(p, f)
      PROVE  array[NumberOf(p, f, q) - 1]
               = IF q[1] = i THEN color[q[2]] ELSE st[f][NumberOf(p, f, q) - 1]
  <2> DEFINE n == NumberOf(p, f, q) - 1
  <2> SUFFICES array[n] = IF q[1] = i THEN color[q[2]] ELSE st[f][n]
    OBVIOUS
  <2>1. n \in DOMAIN st[f] /\ NumberOf(p, f, q) \in 1 .. Total(p, Len(p), f)
    BY <1>1, OwnerIsThere DEF Sized
  <2>2. q[1] \in 1 .. Len(p) /\ q[2] \in 1 .. Has(p, q[1], f) /\ q[2] \in Nat
    BY <1>1, OwnedPair, HasIs
  <2>3. NumberOf(p, f, q) = Total(p, q[1] - 1, f) + q[2]
    BY DEF NumberOf
  <2>4. CASE q[1] = i
    <3>1. NumberOf(p, f, q) = first + q[2] /\ q[2] \in 1 .. Len(color)
      BY <2>2, <2>3, <2>4 DEF f
    <3>2. n \in first .. first + Len(color) - 1 /\ n - first + 1 = q[2]
      BY <1>2, <2>2, <3>1
    <3> HIDE DEF n
    <3> QED BY <2>1, <2>4, <3>2
  <2>5. CASE q[1] # i
    <3>1. ASSUME n \in first .. first + Len(color) - 1 PROVE FALSE
      <4> DEFINE k == NumberOf(p, f, q) - first
      <4>1. NumberOf(p, f, q) \in Nat
        BY <2>1
      <4>2. k \in 1 .. Len(color) /\ first + k = NumberOf(p, f, q)
        BY <1>2, <3>1, <4>1
      <4> HIDE DEF k
      <4>3. k \in 1 .. Has(p, i, f) /\ Total(p, i - 1, f) + k = Total(p, q[1] - 1, f) + q[2]
        BY <2>3, <4>2 DEF f
      <4>4. i = q[1]
        BY <1>1, <2>2, <4>3, NumbersAreApart
      <4> QED BY <2>5, <4>4
    <3> HIDE DEF n
    <3> QED BY <2>1, <2>5, <3>1
  <2> QED BY <2>4, <2>5
<1>4. View(p, st)[f] = [q \in Owned(p, f) |-> st[f][NumberOf(p, f, q) - 1]]
  BY <1>1 DEF View
<1>5. values = [q \in Owned(p, f) |-> array[NumberOf(p, f, q) - 1]]
  <2>1. \A q \in Owned(p, f) : View(p, st)[f][q] = st[f][NumberOf(p, f, q) - 1]
    BY <1>4
  <2> HIDE DEF array
  <2> QED BY <1>3, <2>1
<1>6. DOMAIN st = Fields
  BY DEF Sized
<1> HIDE DEF values, array
<1>7. View(p, new) = [View(p, st) EXCEPT ![f] = values]
  <2>1. \A g \in Fields : new[g] = IF g = f THEN array ELSE st[g]
    BY <1>6
  <2> HIDE DEF new
  <2>2. ASSUME NEW g \in Fields
        PROVE  View(p, new)[g] = IF g = f THEN values ELSE View(p, st)[g]
    <3>1. View(p, new)[g] = [q \in Owned(p, g) |-> new[g][NumberOf(p, g, q) - 1]]
      BY DEF View
    <3>2. CASE g = f
      BY <1>5, <2>1, <3>1, <3>2
    <3>3. CASE g # f
      <4>1. View(p, st)[g] = [q \in Owned(p, g) |-> st[g][NumberOf(p, g, q) - 1]]
        BY DEF View
      <4> QED BY <2>1, <3>1, <3>3, <4>1
    <3> QED BY <3>2, <3>3
  <2>3. /\ View(p, new) = [g \in Fields |-> View(p, new)[g]]
        /\ View(p, st) = [g \in Fields |-> View(p, st)[g]]
    BY DEF View
  <2> QED BY <1>1, <2>2, <2>3
<1> QED BY <1>7 DEF values, array, f, LightsWritten

-----------------------------------------------------------------------------
(***************************************************************************)
(* The arrays implement PanelValues.                                       *)
(***************************************************************************)
LEMMA PanelSized ==
    ASSUME PanelTypes
    PROVE  panel \in Seq(Kinds) /\ Sized(panel, store)
BY PanelIs DEF PanelTypes, Sized, Count, Total

LEMMA PanelSizedNext ==
    ASSUME PanelTypes'
    PROVE  panel' \in Seq(Kinds) /\ Sized(panel', store')
<1>1. panel' \in Seq(Kinds)
  BY PanelAssumption DEF PanelTypes
<1> QED BY <1>1 DEF PanelTypes, Sized, Count, Total

\* The lights a colour sets are those of the kind.
LEMMA ColorsFit ==
    ASSUME NEW kind \in Kinds, NEW color \in ConvertLED(kind)
    PROVE  Len(color) = CountOf[kind]["lights"]
<1>1. CASE kind = "DualLight"
  <2>1. PICK c \in {-2, 1} : color = BipolarColor(c)
    BY <1>1 DEF ConvertLED
  <2>2. Len(color) = 2
    BY <2>1 DEF BipolarColor
  <2> QED BY <1>1, <2>2 DEF CountOf, Counts
<1>2. CASE kind = "RgbLight"
  <2>1. PICK c \in 0 .. 2 : color = FullColor(c)
    BY <1>2 DEF ConvertLED
  <2>2. Len(color) = 3
    BY <2>1 DEF FullColor
  <2> QED BY <1>2, <2>2 DEF CountOf, Counts
<1>3. CASE kind = "EncoderRGB"
  <2>1. color \in {<<0, 2, 0>>, <<2, 0, 1>>}
    BY <1>3 DEF ConvertLED
  <2>2. Len(color) = 3
    BY <2>1
  <2> QED BY <1>3, <2>2 DEF CountOf, Counts
<1>4. CASE kind \in {"SliderLight", "DynamicGraphicDisplay"}
  <2>1. color \in {<<0>>, <<2>>}
    BY <1>4 DEF ConvertLED
  <2>2. Len(color) = 1
    BY <2>1
  <2> QED BY <1>4, <2>2 DEF CountOf, Counts
<1>5. CASE kind \notin {"DualLight", "RgbLight", "EncoderRGB", "SliderLight", "DynamicGraphicDisplay"}
  <2>1. ConvertLED(kind) = {}
    BY <1>5 DEF ConvertLED
  <2> QED BY <2>1
<1> QED BY <1>1, <1>2, <1>3, <1>4, <1>5

LEMMA OwnInit == Init => Own!Init
<1> SUFFICES ASSUME Init PROVE Own!Init
  OBVIOUS
<1>1. PanelTypes
  BY PanelInit
<1>2. panel \in Seq(Kinds) /\ Sized(panel, store)
  BY <1>1, PanelSized
<1>3. Shown = View(panel, store)
  BY <1>2, ShownIsView
<1>4. ASSUME NEW f \in Fields
      PROVE  [o \in Owned(panel, f) |-> store[f][NumberOf(panel, f, o) - 1]]
               = [o \in Owned(panel, f) |-> 0]
  <2>1. store[f] = [id \in 0 .. Count(panel)[f] - 1 |-> 0]
    BY DEF Init
  <2>2. \A o \in Owned(panel, f) : NumberOf(panel, f, o) - 1 \in 0 .. Count(panel)[f] - 1
    BY <1>2, OwnerIsThere DEF Count, Total
  <2> QED BY <2>1, <2>2
<1>5. Shown = [f \in Fields |-> [o \in Owned(panel, f) |-> 0]]
  BY <1>3, <1>4 DEF View
<1>6. \A f \in Fields : Own!OwnersOf[f] = Owned(panel, f)
  BY <1>2, OwnersOfIs
<1>7. [f \in Fields |-> [o \in Own!OwnersOf[f] |-> 0]] = [f \in Fields |-> [o \in Owned(panel, f) |-> 0]]
  BY <1>6
<1> QED BY <1>5, <1>7, SameFields, Zenon DEF Own!Init

\* Every step of the module or the engine is a step of PanelValues, or changes nothing.
LEMMA OwnStep == PanelTypes /\ PanelTypes' /\ [Next]_vars => [Own!Next]_<<panel, Shown>>
<1> SUFFICES ASSUME PanelTypes, PanelTypes', [Next]_vars PROVE [Own!Next]_<<panel, Shown>>
  OBVIOUS
<1>1. panel \in Seq(Kinds) /\ Sized(panel, store)
  BY PanelSized
<1>2. panel' \in Seq(Kinds) /\ Sized(panel', store')
  BY PanelSizedNext
<1>3. Shown = View(panel, store) /\ Shown' = View(panel', store')
  BY <1>1, <1>2, ShownIsView, ShownIsViewNext
<1>4. CASE UNCHANGED vars
  BY <1>3, <1>4 DEF vars
<1>5. ASSUME NEW f \in {"params", "inputs"}, NEW id \in 0 .. MaxElements, NEW v \in Values,
             SetByNumber(f, id, v)
      PROVE  [Own!Next]_<<panel, Shown>>
  <2>1. CASE id \notin DOMAIN store[f]
    BY <1>3, <1>5, <2>1 DEF SetByNumber
  <2>2. CASE id \in DOMAIN store[f]
    <3> DEFINE own == FlattenSeq(Owning(panel, f))
               o == own[id + 1]
    <3>1. f \in Fields
      BY DEF Fields
    <3>2. Lists(own, panel, f, Len(panel))
      BY <1>1, <3>1, OwnersAreListed
    <3> HIDE DEF own
    <3>3. id \in 0 .. Total(panel, Len(panel), f) - 1 /\ Len(panel) \in Nat
      <4>1. DOMAIN store[f] = 0 .. Total(panel, Len(panel), f) - 1
        BY <1>1, <3>1 DEF Sized
      <4> QED BY <1>1, <2>2, <4>1
    <3>4. Total(panel, Len(panel), f) \in 0 .. Len(panel)
      BY <1>1, <3>3, TotalOfOnes
    <3>5. id + 1 \in 1 .. Len(own) /\ id < Len(own) /\ id \in 0 .. Len(panel)
      BY <3>2, <3>3, <3>4 DEF Lists
    <3>6. o \in Owned(panel, f) /\ NumberOf(panel, f, o) = id + 1
      BY <3>2, <3>5 DEF Lists
    <3> HIDE DEF o
    <3>7. NumberOf(panel, f, o) - 1 = id
      BY <3>3, <3>6
    <3>8. store' = [store EXCEPT ![f][id] = v] /\ panel' = panel
      BY <1>5, <2>2 DEF SetByNumber
    <3>9. OneWritten(panel, store, f, o, v)
      BY <1>1, <3>1, <3>6, OneIsWritten
    <3>10. Shown' = [Shown EXCEPT ![f][o] = v]
      BY <1>3, <3>7, <3>8, <3>9, Zenon DEF OneWritten
    <3>11. Own!SetByNumber(f, id, v)
      <4>1. Own!Owners(f) = own
        BY SameOwners DEF own
      <4> QED BY <3>5, <3>10, <4>1, Zenon DEF Own!SetByNumber, o
    <3> QED BY <3>5, <3>8, <3>11, Zenon DEF Own!Next
  <2> QED BY <2>1, <2>2
<1>6. ASSUME NEW i \in DOMAIN panel, NEW v \in Values, SetOutput(i, v)
      PROVE  [Own!Next]_<<panel, Shown>>
  <2> DEFINE f == "outputs"
             o == <<i, 1>>
  <2>1. f \in Fields
    BY DEF Fields
  <2>2. i \in 1 .. Len(panel) /\ panel[i] \in Kinds
    BY <1>1
  <2>3. Has(panel, i, f) = 1
    BY <1>6 DEF SetOutput, Has
  <2>4. panel[i] = "JackOutput"
    BY <2>2, <2>3, KindsAre DEF Has, CountOf, Counts
  <2>5. o[1] = i /\ o[2] = 1
    OBVIOUS
  <2>6. o \in Owned(panel, f)
    BY <1>1, <2>1, <2>2, <2>3, <2>5, OwnedPair
  <2>7. Index(i)[f] = NumberOf(panel, f, o) - 1
    <3>1. i - 1 \in 0 .. Len(panel)
      BY <1>1, <2>2
    <3>2. Total(panel, i - 1, f) \in Nat
      BY <1>1, <2>1, <3>1, TotalIsSmall
    <3>3. Index(i)[f] = Total(panel, i - 1, f)
      BY <1>1, <2>1, <2>2, <2>3, IndexIs DEF Index
    <3> QED BY <2>5, <3>2, <3>3 DEF NumberOf
  <2>8. store' = [store EXCEPT ![f][Index(i)[f]] = v] /\ panel' = panel
    BY <1>6, Zenon DEF SetOutput
  <2> HIDE DEF o, f
  <2>9. OneWritten(panel, store, f, o, v)
    BY <1>1, <2>1, <2>6, OneIsWritten
  <2>10. Shown' = [Shown EXCEPT ![f][o] = v]
    BY <1>3, <2>7, <2>8, <2>9, Zenon DEF OneWritten
  <2>11. Own!SetOutput(i, v)
    BY <2>4, <2>10, Zenon DEF Own!SetOutput, o, f
  <2> QED BY <2>8, <2>11, Zenon DEF Own!Next
<1>7. ASSUME NEW i \in DOMAIN panel, NEW color \in ConvertLED(panel[i]), SetLED(i, color)
      PROVE  [Own!Next]_<<panel, Shown>>
  <2> DEFINE first == Index(i).lights
             lit == [id \in DOMAIN store["lights"] |->
                       IF id \in first .. first + Len(color) - 1
                       THEN color[id - first + 1] ELSE store["lights"][id]]
             set == [o \in Owned(panel, "lights") |->
                       IF o[1] = i THEN color[o[2]] ELSE Shown["lights"][o]]
  <2>1. "lights" \in Fields
    BY DEF Fields
  <2>2. i \in 1 .. Len(panel) /\ panel[i] \in Kinds
    BY <1>1
  <2>3. Len(color) = Has(panel, i, "lights") /\ Has(panel, i, "lights") # 0
    <3>1. CountOf[panel[i]].lights > 0
      BY <1>7 DEF SetLED
    <3>2. Has(panel, i, "lights") \in 0 .. 3
      BY <1>1, <2>1, <2>2, HasIs
    <3> QED BY <2>2, <3>1, <3>2, ColorsFit DEF Has
  <2>4. first = Total(panel, i - 1, "lights")
    BY <1>1, <2>1, <2>2, <2>3, IndexIs DEF Index
  <2>5. store' = [store EXCEPT !["lights"] = lit] /\ panel' = panel
    BY <1>7, Zenon DEF SetLED
  <2> HIDE DEF first
  <2>6. LightsWritten(panel, store, i, color, first)
    BY <1>1, <2>2, <2>3, <2>4, LightsAreWritten
  <2>7. Shown' = [Shown EXCEPT !["lights"] = set]
    BY <1>3, <2>5, <2>6, Zenon DEF LightsWritten
  <2>8. Own!OwnersOf["lights"] = Owned(panel, "lights")
    BY <1>1, <2>1, OwnersOfIs
  <2>9. Own!SetLights(i, color)
    BY <2>7, <2>8, Zenon DEF Own!SetLights
  <2> QED BY <2>5, <2>9, Zenon DEF Own!Next
<1> QED BY <1>4, <1>5, <1>6, <1>7 DEF Next

\* The arrays of params, lights, inputs and outputs implement elements with values of
\* their own: setOutput and setLED set those of the element they name and no other, and
\* the engine's numbers count the elements' params and inputs in the order of the panel.
THEOREM PanelRefinement == Spec => ImplementsPanel
<1>1. Spec => []PanelTypes
  BY PanelInit, PanelStep, PTL DEF Spec
<1> QED BY <1>1, OwnInit, OwnStep, PTL DEF Spec, ImplementsPanel, Own!Spec
=============================================================================
