--------------------------- MODULE NaturalLemmas ---------------------------
(***************************************************************************)
(* Facts about natural numbers that the proofs of several components need: *)
(* remainders, as the indices of rings use them, induction over a set,      *)
(* which the provers can instantiate, and sums.                            *)
(***************************************************************************)
EXTENDS Integers, Functions, FiniteSetTheorems, WellFoundedInduction, TLAPS

\* Division with remainder, as the provers know it.
LEMMA DivisionFacts ==
    ASSUME NEW a \in Nat, NEW b \in Nat \ {0}
    PROVE  /\ a \div b \in Nat
           /\ a % b \in 0 .. b - 1
           /\ a = b * (a \div b) + (a % b)
<1>1. a % b \in 0 .. b - 1 OBVIOUS
<1>2. a \div b \in Int OBVIOUS
<1>3. a = b * (a \div b) + (a % b) OBVIOUS
<1>4. a \div b >= 0 OBVIOUS
<1> QED BY <1>1, <1>2, <1>3, <1>4

\* A remainder is unique.
LEMMA RemainderIs ==
    ASSUME NEW y \in Nat, NEW b \in Nat \ {0}, NEW q \in Int,
           NEW r \in 0 .. b - 1, y = b * q + r
    PROVE  y % b = r
<1> DEFINE p == y \div b
           m == y % b
<1>1. p \in Int /\ m \in 0 .. b - 1 /\ y = b * p + m
  <2>1. y \div b \in Nat /\ y % b \in 0 .. b - 1 /\ y = b * (y \div b) + (y % b)
    BY DivisionFacts, Zenon
  <2> QED
    BY <2>1
<1> SUFFICES m = r
  OBVIOUS
<1> HIDE DEF p, m
<1>2. CASE p = q BY <1>1, <1>2
<1>3. CASE p < q
  <2>1. b * (q - p) >= b BY <1>1, <1>3
  <2>2. b * (q - p) = b * q - b * p BY <1>1
  <2> QED BY <2>1, <2>2, <1>1
<1>4. CASE q < p
  <2>1. b * (p - q) >= b BY <1>1, <1>4
  <2>2. b * (p - q) = b * p - b * q BY <1>1
  <2> QED BY <2>1, <2>2, <1>1
<1> QED BY <1>1, <1>2, <1>3, <1>4

\* And so is a quotient.
LEMMA QuotientIs ==
    ASSUME NEW y \in Nat, NEW b \in Nat \ {0}, NEW q \in Int,
           NEW r \in 0 .. b - 1, y = b * q + r
    PROVE  y \div b = q
<1> DEFINE p == y \div b
<1>1. p \in Int /\ y = b * p + r
  <2>1. y % b = r
    BY RemainderIs
  <2>2. y \div b \in Nat /\ y = b * (y \div b) + (y % b)
    BY DivisionFacts, Zenon
  <2> QED BY <2>1, <2>2
<1> HIDE DEF p
<1>2. b * p = b * q
  BY <1>1
<1>3. CASE p < q
  <2>1. b * (q - p) >= b /\ b * (q - p) = b * q - b * p
    BY <1>1, <1>3
  <2> QED BY <2>1, <1>2
<1>4. CASE q < p
  <2>1. b * (p - q) >= b /\ b * (p - q) = b * p - b * q
    BY <1>1, <1>4
  <2> QED BY <2>1, <1>2
<1> QED BY <1>1, <1>3, <1>4 DEF p

\* What is one turn too far wraps once.
LEMMA Wraps ==
    ASSUME NEW b \in Nat \ {0}, NEW y \in 0 .. 2 * b - 1
    PROVE  y % b = IF y < b THEN y ELSE y - b
<1>1. CASE y < b
  <2>1. y \in 0 .. b - 1 /\ y = b * 0 + y
    BY <1>1
  <2> QED BY <1>1, <2>1, RemainderIs
<1>2. CASE ~(y < b)
  <2>1. y - b \in 0 .. b - 1 /\ y = b * 1 + (y - b) /\ y \in Nat
    BY <1>2
  <2> QED BY <1>2, <2>1, RemainderIs
<1> QED BY <1>1, <1>2

\* Counting n slots on, of b, from that of index x gives the slot of x + n.
LEMMA SlotOfSum ==
    ASSUME NEW b \in Nat \ {0}, NEW x \in Nat, NEW n \in 0 .. b
    PROVE  (x + n) % b = IF (x % b) + n < b THEN (x % b) + n ELSE (x % b) + n - b
<1> DEFINE q == x \div b
           r == x % b
<1>1. q \in Nat /\ r \in 0 .. b - 1 /\ x = b * q + r
  BY DivisionFacts
<1> HIDE DEF q, r
<1>2. CASE r + n < b
  <2>1. r + n \in 0 .. b - 1 /\ x + n = b * q + (r + n) /\ x + n \in Nat
    BY <1>1, <1>2
  <2>2. (x + n) % b = r + n
    BY <1>1, <2>1, RemainderIs
  <2> QED BY <2>2, <1>2 DEF r
<1>3. CASE ~(r + n < b)
  <2>1. /\ r + n - b \in 0 .. b - 1 /\ q + 1 \in Int
        /\ x + n = b * (q + 1) + (r + n - b) /\ x + n \in Nat
    BY <1>1, <1>3
  <2>2. (x + n) % b = r + n - b
    BY <2>1, RemainderIs
  <2> QED BY <2>2, <1>3 DEF r
<1> QED BY <1>2, <1>3

\* The same for the sum of SizeT's Plus, unless it wraps at a range that b does not
\* divide.
LEMMA SlotOfPlus ==
    ASSUME NEW range \in Nat, NEW b \in Nat \ {0}, b <= range,
           NEW x \in 0 .. range - 1, NEW n \in 0 .. b,
           range % b = 0 \/ x + n < range
    PROVE  (IF x + n < range THEN x + n ELSE x + n - range) % b =
             IF (x % b) + n < b THEN (x % b) + n ELSE (x % b) + n - b
<1>0. x \in Nat
  OBVIOUS
<1>1. (x + n) % b = IF (x % b) + n < b THEN (x % b) + n ELSE (x % b) + n - b
  BY <1>0, SlotOfSum
<1>2. CASE x + n < range
  BY <1>1, <1>2
<1>3. CASE ~(x + n < range)
  <2> DEFINE z == x + n - range
             k == range \div b
             q == z \div b
             r == z % b
  <2>1. z \in Nat /\ x + n \in Nat /\ x + n = z + range
    BY <1>0, <1>3
  <2>2. range = b * k /\ k \in Nat
    <3>1. k \in Nat /\ range = b * k + (range % b)
      BY DivisionFacts
    <3>2. range % b = 0
      BY <1>3
    <3> HIDE DEF k
    <3> QED BY <3>1, <3>2
  <2>3. q \in Nat /\ r \in 0 .. b - 1 /\ z = b * q + r
    <3> HIDE DEF z
    <3> QED BY <2>1, DivisionFacts
  <2>4. (x + n) % b = r
    <3> HIDE DEF z, k, q, r
    <3>1. b * (q + k) = b * q + b * k
      BY <2>2, <2>3
    <3>2. x + n = b * (q + k) + r /\ q + k \in Int
      BY <3>1, <2>1, <2>2, <2>3
    <3> QED BY <3>2, <2>1, <2>3, RemainderIs
  <2> QED BY <2>4, <1>1, <1>3
<1> QED BY <1>2, <1>3

-----------------------------------------------------------------------------
\* A set of numbers that is not empty has a least one.
LEMMA LeastOf ==
    ASSUME NEW T, T \subseteq Nat, T # {}
    PROVE  \E m \in T : \A y \in T : m <= y
<1> DEFINE less == OpToRel(<, Nat)
<1>1. PICK m \in T : \A y \in T : ~(<<y, m>> \in less)
  BY NatLessThanWellFounded, WFMin
<1>2. \A x, y \in Nat : x < y => <<x, y>> \in less
  BY DEF OpToRel
<1> HIDE DEF less
<1>3. \A y \in T : ~(y < m) /\ y \in Nat /\ m \in Nat
  BY <1>1, <1>2
<1> QED BY <1>3

\* A set of numbers up to n that is not empty has a greatest one.
LEMMA GreatestOf ==
    ASSUME NEW n \in Nat, NEW T, T \subseteq 0 .. n, T # {}
    PROVE  \E m \in T : \A y \in T : y <= m
<1> DEFINE left == {n - y : y \in T}
<1>1. left \subseteq Nat /\ left # {}
  <2>1. \A y \in T : n - y \in left
    BY DEF left
  <2>2. \A l \in left : l \in Nat
    BY DEF left
  <2> QED BY <2>1, <2>2
<1> HIDE DEF left
<1>2. PICK l \in left : \A z \in left : l <= z
  BY <1>1, LeastOf
<1>3. PICK m \in T : l = n - m
  BY <1>2 DEF left
<1>4. ASSUME NEW y \in T PROVE y <= m
  <2>1. n - y \in left
    BY DEF left
  <2>2. l <= n - y
    BY <1>2, <2>1
  <2> QED BY <1>3, <2>2
<1> QED BY <1>4

\* A set with 0 and, with each of the numbers below n, the next has all up to n.
LEMMA InductionUpTo ==
    ASSUME NEW n \in Nat, NEW T, 0 \in T,
           \A k \in 0 .. n - 1 : k \in T => k + 1 \in T
    PROVE  0 .. n \subseteq T
<1> DEFINE missing == (0 .. n) \ T
<1> SUFFICES ASSUME missing # {} PROVE FALSE
  OBVIOUS
<1>0. missing \subseteq Nat
  OBVIOUS
<1> HIDE DEF missing
<1>1. PICK m \in missing : \A y \in missing : m <= y
  BY <1>0, LeastOf
<1> USE DEF missing
<1>2. m # 0 /\ m - 1 \in 0 .. n - 1 /\ ~(m <= m - 1)
  BY <1>1
<1>3. m - 1 \in T
  BY <1>1, <1>2
<1> QED BY <1>1, <1>2, <1>3

-----------------------------------------------------------------------------
(***************************************************************************)
(* Sums.  SumFunctionOnSet takes the elements out of a finite set one by    *)
(* one, in an order of its own; the sum does not depend on it.             *)
(***************************************************************************)
Chosen(s) == CHOOSE x \in s : TRUE

\* What is left after one is taken out.
Rest(s) == s \ {Chosen(s)}

IsSum(g, f, U) == g = [s \in U |-> IF s = {} THEN 0 ELSE f[Chosen(s)] + g[Rest(s)]]

\* The subsets of at most n elements.
Smaller(S, n) == {s \in SUBSET S : Cardinality(s) <= n}

LEMMA TakeOut ==
    ASSUME NEW S, IsFiniteSet(S), NEW s \in SUBSET S, NEW x \in s
    PROVE  /\ Cardinality(s) \in Nat \ {0}
           /\ s \ {x} \in SUBSET S
           /\ Cardinality(s \ {x}) = Cardinality(s) - 1
<1>1. IsFiniteSet(s)
  BY FS_Subset
<1>2. Cardinality(s) \in Nat /\ Cardinality(s \ {x}) = Cardinality(s) - 1 /\ IsFiniteSet(s \ {x})
  BY <1>1, FS_CardinalityType, FS_RemoveElement
<1>3. Cardinality(s \ {x}) \in Nat
  BY <1>2, FS_CardinalityType
<1> QED BY <1>2, <1>3

LEMMA Subsets ==
    ASSUME NEW S, IsFiniteSet(S), NEW s \in SUBSET S
    PROVE  /\ Cardinality(s) \in 0 .. Cardinality(S)
           /\ Cardinality(S) \in Nat
           /\ s = {} <=> Cardinality(s) = 0
<1>1. IsFiniteSet(s) /\ Cardinality(s) <= Cardinality(S)
  BY FS_Subset
<1> QED BY <1>1, FS_CardinalityType, FS_EmptySet

LEMMA AllAreSmaller ==
    ASSUME NEW S, IsFiniteSet(S)
    PROVE  Smaller(S, Cardinality(S)) = SUBSET S
BY Subsets DEF Smaller

LEMMA RestIsSmaller ==
    ASSUME NEW S, IsFiniteSet(S), NEW n \in Nat, NEW s \in Smaller(S, n), s # {}
    PROVE  /\ Chosen(s) \in s
           /\ n # 0
           /\ Rest(s) \in Smaller(S, n - 1)
           /\ Rest(s) \in Smaller(S, n)
<1>1. Chosen(s) \in s
  BY DEF Chosen
<1>2. s \in SUBSET S /\ Cardinality(s) <= n
  BY DEF Smaller
<1>3. Cardinality(s) \in Nat \ {0} /\ Rest(s) \in SUBSET S /\ Cardinality(Rest(s)) = Cardinality(s) - 1
  BY <1>1, <1>2, TakeOut DEF Rest
<1> QED BY <1>1, <1>2, <1>3 DEF Smaller

LEMMA SumAt ==
    ASSUME NEW g, NEW f, NEW U, IsSum(g, f, U), NEW s \in U
    PROVE  (s = {} => g[s] = 0) /\ (s # {} => g[s] = f[Chosen(s)] + g[Rest(s)])
BY Zenon DEF IsSum

\* There is a function as SumFunctionOnSet defines it.
LEMMA SumExists ==
    ASSUME NEW S, IsFiniteSet(S), NEW f
    PROVE  \E g : IsSum(g, f, SUBSET S)
<1> DEFINE n == Cardinality(S)
           T == {m \in 0 .. n : \E g : IsSum(g, f, Smaller(S, m))}
<1>0. n \in Nat
  BY FS_CardinalityType
<1> HIDE DEF n
<1>1. 0 \in T
  <2> DEFINE g == [s \in Smaller(S, 0) |-> 0]
             h == [s \in Smaller(S, 0) |-> IF s = {} THEN 0 ELSE f[Chosen(s)] + g[Rest(s)]]
  <2>1. \A s \in Smaller(S, 0) : s = {}
    BY RestIsSmaller
  <2>2. g = h
    BY <2>1
  <2>3. IsSum(g, f, Smaller(S, 0))
    BY <2>2 DEF IsSum
  <2> QED BY <1>0, <2>3
<1>2. ASSUME NEW k \in 0 .. n - 1, k \in T PROVE k + 1 \in T
  <2>1. PICK g : IsSum(g, f, Smaller(S, k))
    BY <1>2
  <2> DEFINE h == [s \in Smaller(S, k + 1) |-> IF s = {} THEN 0 ELSE f[Chosen(s)] + g[Rest(s)]]
             t == [s \in Smaller(S, k + 1) |-> IF s = {} THEN 0 ELSE f[Chosen(s)] + h[Rest(s)]]
  <2>2. k \in Nat /\ k + 1 \in Nat /\ k + 1 - 1 = k
    BY <1>0
  <2>3. ASSUME NEW s \in Smaller(S, k + 1), s # {} PROVE h[Rest(s)] = g[Rest(s)]
    <3>1. Rest(s) \in Smaller(S, k) /\ Rest(s) \in Smaller(S, k + 1)
      BY <2>2, <2>3, RestIsSmaller
    <3> DEFINE r == Rest(s)
    <3> HIDE DEF r
    <3>2. h[r] = IF r = {} THEN 0 ELSE f[Chosen(r)] + g[Rest(r)]
      BY <3>1 DEF r
    <3>3. (r = {} => g[r] = 0) /\ (r # {} => g[r] = f[Chosen(r)] + g[Rest(r)])
      BY <2>1, <3>1, SumAt DEF r
    <3> QED BY <3>2, <3>3 DEF r
  <2>4. h = t
    <3>1. \A s \in Smaller(S, k + 1) : h[s] = t[s]
      BY <2>3
    <3>2. h = [s \in Smaller(S, k + 1) |-> h[s]] /\ t = [s \in Smaller(S, k + 1) |-> t[s]]
      OBVIOUS
    <3> HIDE DEF h, t
    <3> QED BY <3>1, <3>2
  <2>5. IsSum(h, f, Smaller(S, k + 1))
    BY <2>4 DEF IsSum
  <2> QED BY <1>0, <2>5
<1> HIDE DEF T
<1>3. 0 .. n \subseteq T
  BY <1>0, <1>1, <1>2, InductionUpTo
<1>4. n \in T
  BY <1>0, <1>3
<1> QED BY <1>4, AllAreSmaller DEF T, n

\* And only one.
LEMMA SumIsOne ==
    ASSUME NEW S, IsFiniteSet(S), NEW f, NEW g, NEW h,
           IsSum(g, f, SUBSET S), IsSum(h, f, SUBSET S), NEW s \in SUBSET S
    PROVE  g[s] = h[s]
<1> DEFINE n == Cardinality(S)
           T == {m \in 0 .. n : \A t \in Smaller(S, m) : g[t] = h[t]}
<1>0. n \in Nat
  BY FS_CardinalityType
<1> HIDE DEF n
<1>1. ASSUME NEW m \in Nat, NEW t \in Smaller(S, m), t # {} => g[Rest(t)] = h[Rest(t)]
      PROVE  g[t] = h[t]
  <2>1. t \in SUBSET S
    BY DEF Smaller
  <2> QED BY <1>1, <2>1, SumAt
<1>2. 0 \in T
  BY <1>0, <1>1, RestIsSmaller
<1>3. ASSUME NEW k \in 0 .. n - 1, k \in T PROVE k + 1 \in T
  <2>1. k \in Nat /\ k + 1 \in Nat /\ k + 1 - 1 = k /\ k + 1 \in 0 .. n
    BY <1>0
  <2>2. ASSUME NEW t \in Smaller(S, k + 1) PROVE g[t] = h[t]
    <3>1. t # {} => Rest(t) \in Smaller(S, k)
      BY <2>1, RestIsSmaller
    <3> QED BY <1>1, <1>3, <2>1, <3>1
  <2> QED BY <2>1, <2>2
<1> HIDE DEF T
<1>4. 0 .. n \subseteq T
  BY <1>0, <1>2, <1>3, InductionUpTo
<1>5. n \in T
  BY <1>0, <1>4
<1>6. s \in Smaller(S, n)
  BY AllAreSmaller DEF n
<1> QED BY <1>5, <1>6 DEF T

\* It is a number, whichever element was taken out last.
IntsOn(f, S) == \A x \in S : f[x] \in Int
ByAny(g, f, S) ==
    \A s \in SUBSET S : g[s] \in Int /\ \A x \in s : g[s] = f[x] + g[s \ {x}]

LEMMA SumByAny ==
    ASSUME NEW S, IsFiniteSet(S), NEW f, IntsOn(f, S), NEW g, IsSum(g, f, SUBSET S)
    PROVE  ByAny(g, f, S)
<1> DEFINE n == Cardinality(S)
           Good(s) == g[s] \in Int /\ \A x \in s : g[s] = f[x] + g[s \ {x}]
           T == {m \in 0 .. n : \A s \in Smaller(S, m) : Good(s)}
<1>0. n \in Nat
  BY FS_CardinalityType
<1> HIDE DEF n
<1>1. Good({})
  <2>1. {} \in SUBSET S
    OBVIOUS
  <2>2. g[{}] = 0
    BY <2>1, SumAt
  <2> QED BY <2>2
<1>2. 0 \in T
  <2>1. \A s \in Smaller(S, 0) : s = {}
    BY RestIsSmaller
  <2> HIDE DEF Good
  <2> QED BY <1>0, <1>1, <2>1
<1>3. ASSUME NEW k \in 0 .. n - 1, k \in T PROVE k + 1 \in T
  <2>1. k \in Nat /\ k + 1 \in Nat /\ k + 1 - 1 = k /\ k + 1 \in 0 .. n
    BY <1>0
  <2>2. ASSUME NEW s \in Smaller(S, k + 1), s # {} PROVE Good(s)
    <3> DEFINE c == Chosen(s)
    <3>1. c \in s /\ s \in SUBSET S /\ Cardinality(s) <= k + 1
      BY <2>1, <2>2, RestIsSmaller DEF Smaller
    <3>2. g[s] = f[c] + g[s \ {c}]
      BY <2>2, <3>1, SumAt DEF Rest
    <3> HIDE DEF c
    <3>3. \A x \in s : s \ {x} \in Smaller(S, k)
      BY <2>1, <3>1, TakeOut DEF Smaller
    <3>4. \A x \in s : Good(s \ {x})
      BY <1>3, <3>3
    <3>5. \A x \in s : f[x] \in Int
      BY <3>1 DEF IntsOn
    <3>6. ASSUME NEW x \in s PROVE g[s] = f[x] + g[s \ {x}]
      <4>1. CASE x = c
        BY <3>2, <4>1
      <4>2. CASE x # c
        <5>1. g[s \ {c}] = f[x] + g[(s \ {c}) \ {x}]
          BY <3>1, <3>4, <4>2
        <5>2. g[s \ {x}] = f[c] + g[(s \ {x}) \ {c}]
          BY <3>1, <3>4, <4>2
        <5>3. (s \ {c}) \ {x} = (s \ {x}) \ {c}
          OBVIOUS
        <5>4. (s \ {c}) \ {x} \in Smaller(S, k)
          <6>1. s \ {c} \in SUBSET S /\ x \in s \ {c}
            BY <3>1, <4>2
          <6>2. /\ Cardinality(s \ {c}) = Cardinality(s) - 1
                /\ Cardinality(s) \in Nat
            BY <3>1, TakeOut
          <6> DEFINE u == s \ {c}
          <6> HIDE DEF u
          <6>3. Cardinality(u \ {x}) = Cardinality(u) - 1 /\ u \ {x} \in SUBSET S
            BY <6>1, TakeOut DEF u
          <6>4. Cardinality(u \ {x}) <= k
            BY <2>1, <3>1, <6>2, <6>3 DEF u
          <6> QED BY <6>3, <6>4 DEF Smaller, u
        <5>5. g[(s \ {c}) \ {x}] \in Int
          BY <1>3, <5>4
        <5>6. f[x] \in Int /\ f[c] \in Int
          BY <3>1, <3>5
        <5>7. \A a, b, d \in Int : a + (b + d) = b + (a + d)
          OBVIOUS
        <5>8. f[c] + (f[x] + g[(s \ {c}) \ {x}]) = f[x] + (f[c] + g[(s \ {c}) \ {x}])
          BY <5>5, <5>6, <5>7, Zenon
        <5> QED BY <3>2, <5>1, <5>2, <5>3, <5>8, Zenon
      <4> QED BY <4>1, <4>2
    <3>7. g[s] \in Int
      <4>1. f[c] \in Int /\ g[s \ {c}] \in Int
        BY <3>1, <3>4, <3>5
      <4>2. \A a, b \in Int : a + b \in Int
        OBVIOUS
      <4> QED BY <3>2, <4>1, <4>2, Zenon
    <3> QED BY <3>6, <3>7
  <2> HIDE DEF Good
  <2>3. \A s \in Smaller(S, k + 1) : Good(s)
    BY <1>1, <2>2
  <2> QED BY <2>1, <2>3
<1> HIDE DEF T
<1>4. 0 .. n \subseteq T
  BY <1>0, <1>2, <1>3, InductionUpTo
<1>5. n \in T
  BY <1>0, <1>4
<1>6. Smaller(S, n) = SUBSET S
  BY AllAreSmaller DEF n
<1> QED BY <1>5, <1>6 DEF T, ByAny

LEMMA SumOnIs ==
    ASSUME NEW S, IsFiniteSet(S), NEW f
    PROVE  \E g : IsSum(g, f, SUBSET S) /\ SumFunctionOnSet(f, S) = g[S]
<1> DEFINE sum == CHOOSE g : IsSum(g, f, SUBSET S)
<1>1. \E g : IsSum(g, f, SUBSET S)
  BY SumExists
<1>2. IsSum(sum, f, SUBSET S)
  BY <1>1
<1>3. SumFunctionOnSet(f, S) = sum[S]
  BY DEF SumFunctionOnSet, FoldFunctionOnSet, MapThenFoldSet, IsSum, Chosen, Rest
<1> QED BY <1>2, <1>3

LEMMA SumOfSubset ==
    ASSUME NEW S, IsFiniteSet(S), NEW f, NEW g, IsSum(g, f, SUBSET S), NEW T \in SUBSET S
    PROVE  SumFunctionOnSet(f, T) = g[T]
<1>1. IsFiniteSet(T)
  BY FS_Subset
<1>2. PICK h : IsSum(h, f, SUBSET T) /\ SumFunctionOnSet(f, T) = h[T]
  BY <1>1, SumOnIs
<1> DEFINE part == [s \in SUBSET T |-> g[s]]
           sum == [s \in SUBSET T |-> IF s = {} THEN 0 ELSE f[Chosen(s)] + part[Rest(s)]]
<1>3. ASSUME NEW s \in SUBSET T PROVE part[s] = sum[s]
  <2>1. s \in SUBSET S /\ Rest(s) \in SUBSET T
    BY DEF Rest
  <2> QED BY <2>1, SumAt
<1>4. part = sum
  <2>1. part = [s \in SUBSET T |-> part[s]] /\ sum = [s \in SUBSET T |-> sum[s]]
    OBVIOUS
  <2> HIDE DEF part, sum
  <2> QED BY <1>3, <2>1
<1>5. IsSum(part, f, SUBSET T)
  BY <1>4 DEF IsSum
<1>6. T \in SUBSET T /\ part[T] = g[T]
  OBVIOUS
<1> HIDE DEF part
<1> QED BY <1>1, <1>2, <1>5, <1>6, SumIsOne

\* The sum over 0 .. n - 1.
Sum(f, n) == SumFunctionOnSet(f, 0 .. n - 1)

Ints(f, n) == \A i \in 0 .. n - 1 : f[i] \in Int

LEMMA SumOfNone ==
    ASSUME NEW f
    PROVE  Sum(f, 0) = 0
<1>1. PICK g : IsSum(g, f, SUBSET {}) /\ SumFunctionOnSet(f, {}) = g[{}]
  BY SumOnIs, FS_EmptySet
<1>2. g[{}] = 0
  BY <1>1, SumAt
<1>3. 0 .. 0 - 1 = {}
  OBVIOUS
<1> QED BY <1>1, <1>2, <1>3 DEF Sum

LEMMA SumOfMore ==
    ASSUME NEW f, NEW n \in Nat, Ints(f, n + 1)
    PROVE  Sum(f, n + 1) = Sum(f, n) + f[n] /\ Sum(f, n) \in Int
<1> DEFINE S == 0 .. n
           T == 0 .. n - 1
<1>1. IsFiniteSet(S)
  BY FS_Interval
<1>2. PICK g : IsSum(g, f, SUBSET S) /\ SumFunctionOnSet(f, S) = g[S]
  BY <1>1, SumOnIs
<1>3. n \in S /\ S \ {n} = T /\ T \in SUBSET S /\ S \in SUBSET S
  OBVIOUS
<1>4. IntsOn(f, S) /\ f[n] \in Int
  BY DEF Ints, IntsOn
<1> HIDE DEF S, T
<1>5. g[S] = f[n] + g[S \ {n}] /\ g[T] \in Int
  <2>1. ByAny(g, f, S)
    BY <1>1, <1>2, <1>4, SumByAny
  <2> QED BY <1>3, <2>1, Zenon DEF ByAny
<1>6. SumFunctionOnSet(f, T) = g[T]
  BY <1>1, <1>2, <1>3, SumOfSubset
<1>7. Sum(f, n + 1) = SumFunctionOnSet(f, S)
  BY DEF Sum, S
<1>8. Sum(f, n) = g[T]
  BY <1>6 DEF Sum, T
<1>9. Sum(f, n + 1) = f[n] + g[T] /\ f[n] \in Int
  BY <1>2, <1>3, <1>4, <1>5, <1>7, Zenon
<1> QED BY <1>5, <1>8, <1>9

LEMMA SumIsInt ==
    ASSUME NEW f, NEW n \in Nat, Ints(f, n)
    PROVE  Sum(f, n) \in Int
<1>1. CASE n = 0
  BY <1>1, SumOfNone
<1>2. CASE n # 0
  <2>1. n - 1 \in Nat /\ n - 1 + 1 = n
    BY <1>2
  <2>2. PICK m \in Nat : m = n - 1 /\ m + 1 = n
    BY <2>1
  <2>3. Sum(f, m + 1) = Sum(f, m) + f[m] /\ Sum(f, m) \in Int
    BY <2>2, SumOfMore
  <2>4. f[m] \in Int
    BY <2>2 DEF Ints
  <2> QED BY <2>2, <2>3, <2>4
<1> QED BY <1>1, <1>2

\* Terms that are 0 at the end do not count.
ZeroFrom(f, m, n) == \A i \in m .. n - 1 : f[i] = 0

LEMMA SumOfZeros ==
    ASSUME NEW f, NEW n \in Nat, NEW m \in 0 .. n, Ints(f, n), ZeroFrom(f, m, n)
    PROVE  Sum(f, n) = Sum(f, m)
<1> DEFINE T == {k \in 0 .. n : m <= k => Sum(f, k) = Sum(f, m)}
<1>1. 0 \in T
  <2>1. m <= 0 => m = 0
    OBVIOUS
  <2> QED BY <2>1
<1>2. ASSUME NEW k \in 0 .. n - 1, k \in T PROVE k + 1 \in T
  <2>1. k \in Nat /\ k + 1 \in 0 .. n /\ Ints(f, k + 1) /\ f[k] \in Int
    BY DEF Ints
  <2>2. Sum(f, k + 1) = Sum(f, k) + f[k] /\ Sum(f, k) \in Int
    BY <2>1, SumOfMore
  <2>3. CASE m <= k
    <3>1. f[k] = 0
      BY <2>3 DEF ZeroFrom
    <3>2. Sum(f, k) = Sum(f, m)
      BY <1>2, <2>3
    <3> QED BY <2>1, <2>2, <3>1, <3>2
  <2>4. CASE m = k + 1
    BY <2>1, <2>4
  <2>5. CASE m > k + 1
    BY <2>1, <2>5
  <2> QED BY <2>3, <2>4, <2>5
<1> HIDE DEF T
<1>3. 0 .. n \subseteq T
  BY <1>1, <1>2, InductionUpTo
<1>4. n \in T
  BY <1>3
<1> QED BY <1>4 DEF T

\* Sums add term by term.
AddsUp(f, g, h, n) == \A i \in 0 .. n - 1 : h[i] = f[i] + g[i]

LEMMA SumOfBoth ==
    ASSUME NEW f, NEW g, NEW h, NEW n \in Nat, Ints(f, n), Ints(g, n), AddsUp(f, g, h, n)
    PROVE  Sum(h, n) = Sum(f, n) + Sum(g, n)
<1> DEFINE T == {k \in 0 .. n : Sum(h, k) = Sum(f, k) + Sum(g, k)}
<1>1. 0 \in T
  BY SumOfNone
<1>2. ASSUME NEW k \in 0 .. n - 1, k \in T PROVE k + 1 \in T
  <2>1. \A i \in 0 .. n - 1 : h[i] \in Int
    BY DEF Ints, AddsUp
  <2>2. k \in Nat /\ k + 1 \in 0 .. n /\ Ints(f, k + 1) /\ Ints(g, k + 1) /\ Ints(h, k + 1)
    BY <2>1 DEF Ints
  <2>3. /\ Sum(f, k + 1) = Sum(f, k) + f[k] /\ Sum(f, k) \in Int
        /\ Sum(g, k + 1) = Sum(g, k) + g[k] /\ Sum(g, k) \in Int
        /\ Sum(h, k + 1) = Sum(h, k) + h[k] /\ Sum(h, k) \in Int
    BY <2>2, SumOfMore
  <2>4. h[k] = f[k] + g[k] /\ f[k] \in Int /\ g[k] \in Int
    BY DEF AddsUp, Ints
  <2>5. Sum(h, k) = Sum(f, k) + Sum(g, k)
    BY <1>2
  <2>6. Sum(h, k + 1) = Sum(f, k + 1) + Sum(g, k + 1)
    BY <2>3, <2>4, <2>5
  <2> QED BY <2>2, <2>6
<1> HIDE DEF T
<1>3. 0 .. n \subseteq T
  BY <1>1, <1>2, InductionUpTo
<1>4. n \in T
  BY <1>3
<1> QED BY <1>4 DEF T

\* A sum can be cut: p are the n terms of f from the m-th.
Part(p, f, m, n) == \A i \in 0 .. n - 1 : p[i] = f[m + i]

LEMMA SumOfPart ==
    ASSUME NEW f, NEW p, NEW m \in Nat, NEW n \in Nat, Ints(f, m + n), Part(p, f, m, n)
    PROVE  Sum(f, m + n) = Sum(f, m) + Sum(p, n)
<1> DEFINE T == {k \in 0 .. n : Sum(f, m + k) = Sum(f, m) + Sum(p, k)}
<1>0. Ints(f, m) /\ Ints(p, n)
  BY DEF Ints, Part
<1>1. 0 \in T
  <2>1. Sum(f, m) \in Int /\ m + 0 = m
    BY <1>0, SumIsInt
  <2> QED BY <2>1, SumOfNone
<1>2. ASSUME NEW k \in 0 .. n - 1, k \in T PROVE k + 1 \in T
  <2>1. k \in Nat /\ k + 1 \in 0 .. n /\ Ints(p, k + 1)
    BY <1>0 DEF Ints
  <2>2. PICK l \in Nat : l = m + k /\ l + 1 = m + (k + 1)
    OBVIOUS
  <2>3. Ints(f, l + 1)
    BY <2>2 DEF Ints
  <2>4. /\ Sum(f, l + 1) = Sum(f, l) + f[l] /\ Sum(f, l) \in Int
        /\ Sum(p, k + 1) = Sum(p, k) + p[k] /\ Sum(p, k) \in Int
    BY <2>1, <2>2, <2>3, SumOfMore
  <2>5. p[k] = f[l] /\ f[l] \in Int /\ Sum(f, m) \in Int
    BY <1>0, <2>2, <2>3, SumIsInt DEF Part, Ints
  <2>6. Sum(f, l) = Sum(f, m) + Sum(p, k)
    BY <1>2, <2>2
  <2>7. Sum(f, m + (k + 1)) = Sum(f, m) + Sum(p, k + 1)
    BY <2>2, <2>4, <2>5, <2>6
  <2> QED BY <2>1, <2>7
<1> HIDE DEF T
<1>3. 0 .. n \subseteq T
  BY <1>1, <1>2, InductionUpTo
<1>4. n \in T
  BY <1>3
<1> QED BY <1>4 DEF T

LEMMA SumOfSame ==
    ASSUME NEW f, NEW g, NEW n \in Nat, Ints(f, n), Part(g, f, 0, n)
    PROVE  Sum(f, n) = Sum(g, n)
<1>1. Ints(f, 0 + n) /\ 0 + n = n
  OBVIOUS
<1>2. Sum(f, 0 + n) = Sum(f, 0) + Sum(g, n)
  BY <1>1, SumOfPart
<1>3. Ints(g, n)
  BY DEF Ints, Part
<1>4. Sum(f, 0) = 0 /\ Sum(g, n) \in Int
  BY <1>3, SumOfNone, SumIsInt
<1> QED BY <1>1, <1>2, <1>4

\* Or be taken block by block: c are the sums of the k blocks of b terms.
Blocks(c, f, b, k) ==
    \A i \in 0 .. k - 1 : \E p : Part(p, f, i * b, b) /\ c[i] = Sum(p, b)

LEMMA SumInBlocks ==
    ASSUME NEW c, NEW f, NEW b \in Nat, NEW n \in Nat, Ints(f, n * b), Blocks(c, f, b, n)
    PROVE  Sum(c, n) = Sum(f, n * b)
<1> DEFINE T == {k \in 0 .. n : Sum(c, k) = Sum(f, k * b)}
<1>1. 0 \in T
  <2>1. 0 * b = 0
    OBVIOUS
  <2> QED BY <2>1, SumOfNone
<1>2. ASSUME NEW k \in 0 .. n - 1 PROVE k * b \in Nat /\ (k + 1) * b = k * b + b /\ (k + 1) * b <= n * b
  OBVIOUS
<1>3. ASSUME NEW k \in 0 .. n - 1
      PROVE  c[k] \in Int /\ Sum(f, (k + 1) * b) = Sum(f, k * b) + c[k] /\ Sum(f, k * b) \in Int
  <2>1. PICK l \in Nat : l = k * b /\ l + b = (k + 1) * b /\ l + b <= n * b
    BY <1>2
  <2>2. Ints(f, l + b) /\ Ints(f, l)
    BY <2>1 DEF Ints
  <2>3. PICK p : Part(p, f, l, b) /\ c[k] = Sum(p, b)
    BY <2>1 DEF Blocks
  <2>4. Sum(f, l + b) = Sum(f, l) + Sum(p, b)
    BY <2>2, <2>3, SumOfPart
  <2>5. Ints(p, b)
    BY <2>1, <2>2, <2>3 DEF Ints, Part
  <2>6. Sum(p, b) \in Int /\ Sum(f, l) \in Int
    BY <2>2, <2>5, SumIsInt
  <2> QED BY <2>1, <2>3, <2>4, <2>6
<1>4. ASSUME NEW k \in 0 .. n - 1, k \in T PROVE k + 1 \in T
  <2>1. k \in Nat /\ k + 1 \in 0 .. n /\ Ints(c, k + 1)
    BY <1>3 DEF Ints
  <2>2. Sum(c, k + 1) = Sum(c, k) + c[k]
    BY <2>1, SumOfMore
  <2>3. Sum(c, k) = Sum(f, k * b)
    BY <1>4
  <2>4. Sum(c, k + 1) = Sum(f, (k + 1) * b)
    BY <1>3, <2>2, <2>3
  <2> QED BY <2>1, <2>4
<1> HIDE DEF T
<1>5. 0 .. n \subseteq T
  BY <1>1, <1>4, InductionUpTo
<1>6. n \in T
  BY <1>5
<1> QED BY <1>6 DEF T
=============================================================================
