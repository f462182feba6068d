---------------------------- MODULE FiniteLemmas ----------------------------
(***************************************************************************)
(* Facts about finite sets of numbers that the proofs share: they have a    *)
(* smallest and a greatest element, and taking the n smallest leaves         *)
(* nothing only when there are no more than n. Facts about remainders.       *)
(***************************************************************************)
EXTENDS Integers, FiniteSetsExt, FiniteSetTheorems, TLAPS

\* A finite set in a total order has a first element. The elements up to it are
\* the smallest set of its kind.
LEMMA FirstOfOrder ==
    ASSUME NEW S, NEW R, IsFiniteSet(S), S # {},
           \A x, y \in S : <<x, y>> \in R \/ <<y, x>> \in R,
           \A x, y, z \in S : <<x, y>> \in R /\ <<y, z>> \in R => <<x, z>> \in R
    PROVE  \E x \in S : \A y \in S : <<x, y>> \in R
<1> DEFINE UpTo(x) == {y \in S : <<y, x>> \in R}
           D == {UpTo(x) : x \in S}
<1>1. D \subseteq FiniteSubsetsOf(S) /\ D # {}
  <2>1. ASSUME NEW x \in S PROVE UpTo(x) \in FiniteSubsetsOf(S)
    <3>1. UpTo(x) \in SUBSET S
      OBVIOUS
    <3>2. QED
      BY <3>1, FS_Subset DEF FiniteSubsetsOf
  <2>2. D # {}
    OBVIOUS
  <2>3. ASSUME NEW d \in D PROVE d \in FiniteSubsetsOf(S)
    <3>1. PICK x \in S : d = UpTo(x)
      OBVIOUS
    <3>2. QED
      BY <2>1, <3>1
  <2>4. QED
    BY <2>2, <2>3
<1>2. IsWellFoundedOn(StrictSubsetOrdering(S), FiniteSubsetsOf(S))
  BY FS_StrictSubsetOrderingWellFounded
<1>3. PICK d \in D : \A e \in D : ~ (<<e, d>> \in StrictSubsetOrdering(S))
  <2> HIDE DEF D
  <2>1. QED
    BY <1>1, <1>2, WFMin
<1>4. PICK x \in S : d = UpTo(x)
  OBVIOUS
<1>5. ASSUME NEW y \in S, <<x, y>> \notin R PROVE FALSE
  <2>1. UpTo(y) \subseteq UpTo(x) /\ x \in UpTo(x) /\ x \notin UpTo(y)
    BY <1>5
  <2>2. <<UpTo(y), UpTo(x)>> \in StrictSubsetOrdering(S)
    BY <2>1 DEF StrictSubsetOrdering
  <2>3. QED
    BY <1>3, <1>4, <2>2
<1>6. QED
  BY <1>5

\* A finite set of numbers that is not empty has a smallest element, Min.
LEMMA MinIsLeast ==
    ASSUME NEW S, S \subseteq Int, IsFiniteSet(S), S # {}
    PROVE  Min(S) \in S /\ \A y \in S : Min(S) <= y
<1> DEFINE R == {p \in S \X S : p[1] <= p[2]}
<1>1. \A x, y \in S : (<<x, y>> \in R <=> x <= y) /\ x \in Int
  OBVIOUS
<1> HIDE DEF R
<1>2. \E x \in S : \A y \in S : <<x, y>> \in R
  <2>1. ASSUME NEW x \in S, NEW y \in S PROVE <<x, y>> \in R \/ <<y, x>> \in R
    <3>1. x \in Int /\ y \in Int
      OBVIOUS
    <3>2. x <= y \/ y <= x
      BY <3>1
    <3>3. QED
      BY <1>1, <3>2
  <2>2. \A x, y, z \in S : <<x, y>> \in R /\ <<y, z>> \in R => <<x, z>> \in R
    BY <1>1
  <2>3. QED
    BY <2>1, <2>2, FirstOfOrder
<1>3. QED
  BY <1>1, <1>2 DEF Min

\* And a greatest one.
LEMMA GreatestExists ==
    ASSUME NEW S, S \subseteq Int, IsFiniteSet(S), S # {}
    PROVE  \E x \in S : \A y \in S : y <= x
<1> DEFINE R == {p \in S \X S : p[2] <= p[1]}
<1>1. \A x, y \in S : (<<x, y>> \in R <=> y <= x) /\ x \in Int
  OBVIOUS
<1> HIDE DEF R
<1>2. \E x \in S : \A y \in S : <<x, y>> \in R
  <2>1. ASSUME NEW x \in S, NEW y \in S PROVE <<x, y>> \in R \/ <<y, x>> \in R
    <3>1. x \in Int /\ y \in Int
      OBVIOUS
    <3>2. x <= y \/ y <= x
      BY <3>1
    <3>3. QED
      BY <1>1, <3>2
  <2>2. \A x, y, z \in S : <<x, y>> \in R /\ <<y, z>> \in R => <<x, z>> \in R
    BY <1>1
  <2>3. QED
    BY <2>1, <2>2, FirstOfOrder
<1>3. QED
  BY <1>1, <1>2

\* Fewer than n elements of S are below each of them, for every n from the size
\* of S on and for no smaller one.
LEMMA AllAreSmallest ==
    ASSUME NEW S, S \subseteq Int, IsFiniteSet(S), NEW n \in Int, S # {}
    PROVE  (\A i \in S : Cardinality({j \in S : j < i}) < n) <=> Cardinality(S) <= n
<1>0. Cardinality(S) \in Nat
  BY FS_CardinalityType
<1>1. ASSUME NEW i \in S
      PROVE  /\ Cardinality({j \in S : j < i}) \in Nat
             /\ Cardinality({j \in S : j < i}) < Cardinality(S)
  <2> DEFINE T == {j \in S : j < i}
  <2>1. T \in SUBSET S /\ i \notin T
    OBVIOUS
  <2>2. T # S
    BY <2>1
  <2> HIDE DEF T
  <2>3. IsFiniteSet(T) /\ Cardinality(T) <= Cardinality(S) /\ Cardinality(S) # Cardinality(T)
    BY <2>1, <2>2, FS_Subset
  <2>4. Cardinality(T) \in Nat
    BY <2>3, FS_CardinalityType
  <2>5. Cardinality(T) < Cardinality(S)
    BY <1>0, <2>3, <2>4
  <2>6. QED
    BY <2>4, <2>5 DEF T
<1>2. ASSUME Cardinality(S) <= n, NEW i \in S PROVE Cardinality({j \in S : j < i}) < n
  BY <1>0, <1>1, <1>2
<1>3. ASSUME \A i \in S : Cardinality({j \in S : j < i}) < n PROVE Cardinality(S) <= n
  <2>1. PICK x \in S : \A y \in S : y <= x
    BY GreatestExists
  <2>2. {j \in S : j < x} = S \ {x}
    <3>1. ASSUME NEW j \in S PROVE j < x <=> j # x
      BY <2>1
    <3>2. QED
      BY <3>1
  <2>3. Cardinality(S \ {x}) = Cardinality(S) - 1
    BY FS_RemoveElement
  <2>4. Cardinality(S) - 1 < n
    BY <1>3, <2>1, <2>2, <2>3
  <2>5. QED
    BY <1>0, <2>4
<1>4. QED
  BY <1>2, <1>3

\* The first n numbers, from 1 or from 0.
LEMMA CountOfSegment ==
    ASSUME NEW n \in Nat
    PROVE  /\ IsFiniteSet(1 .. n) /\ Cardinality(1 .. n) = n
           /\ IsFiniteSet(0 .. n - 1) /\ Cardinality(0 .. n - 1) = n
<1>1. 0 \in Int /\ 1 \in Int /\ n \in Int /\ n - 1 \in Int
  OBVIOUS
<1>2. /\ IsFiniteSet(1 .. n)
      /\ Cardinality(1 .. n) = IF 1 > n THEN 0 ELSE n - 1 + 1
      /\ IsFiniteSet(0 .. n - 1)
      /\ Cardinality(0 .. n - 1) = IF 0 > n - 1 THEN 0 ELSE n - 1 - 0 + 1
  BY <1>1, FS_Interval
<1>3. QED
  BY <1>2

\* What holds of 0, and of the successor of each number it holds of, holds of all.
LEMMA AllNumbers ==
    ASSUME NEW P, 0 \in P, \A n \in Nat : n \in P => n + 1 \in P
    PROVE  Nat \subseteq P
<1> SUFFICES ASSUME NEW m \in Nat, m \notin P PROVE FALSE
  OBVIOUS
<1> DEFINE S == {i \in 0 .. m : i \notin P}
<1>1. IsFiniteSet(0 .. m)
  <2>1. m + 1 \in Nat /\ (m + 1) - 1 = m
    OBVIOUS
  <2>2. IsFiniteSet(0 .. (m + 1) - 1)
    BY <2>1, CountOfSegment
  <2>3. QED
    BY <2>1, <2>2
<1>2. S \in SUBSET (0 .. m) /\ S \subseteq Int /\ m \in S
  OBVIOUS
<1>3. IsFiniteSet(S)
  BY <1>1, <1>2, FS_Subset
<1>4. PICK k \in S : \A y \in S : k <= y
  BY <1>2, <1>3, MinIsLeast
<1>5. k \in Nat /\ k <= m /\ k \notin P /\ k # 0
  BY <1>2
<1>6. k - 1 \in Nat /\ k - 1 <= m /\ (k - 1) + 1 = k
  BY <1>5
<1>7. k - 1 \notin P
  BY <1>5, <1>6
<1>8. k - 1 \in S
  BY <1>6, <1>7
<1>9. QED
  BY <1>4, <1>5, <1>8
-----------------------------------------------------------------------------
(* Remainders.                                                             *)

\* A number is a multiple of m and its remainder, which is less than m.
LEMMA DivMod ==
    ASSUME NEW a \in Int, NEW m \in Nat \ {0}
    PROVE  /\ a % m \in 0 .. m - 1
           /\ \E q \in Int : a = q * m + (a % m)
<1>1. a % m \in 0 .. m - 1
  OBVIOUS
<1>2. a \div m \in Int /\ a = (a \div m) * m + (a % m)
  OBVIOUS
<1>3. QED
  BY <1>1, <1>2

\* The remainder is the only number below m that a multiple of m is added to.
LEMMA ModIs ==
    ASSUME NEW m \in Nat \ {0}, NEW q \in Int, NEW r \in 0 .. m - 1
    PROVE  (q * m + r) % m = r
<1> DEFINE a == q * m + r
<1>1. a \in Int
  OBVIOUS
<1>2. PICK p \in Int : a = p * m + (a % m)
  <2> HIDE DEF a
  <2>1. QED
    BY <1>1, DivMod
<1>3. a % m \in 0 .. m - 1
  BY <1>1
<1>4. (q - p) * m = (a % m) - r
  BY <1>1, <1>2, <1>3
<1>5. q - p = 0
  <2>1. CASE q - p >= 1
    <3>1. (q - p) * m >= m
      BY <2>1
    <3>2. QED
      BY <1>3, <1>4, <3>1
  <2>2. CASE q - p <= -1
    <3>1. (q - p) * m <= -m
      BY <2>2
    <3>2. QED
      BY <1>3, <1>4, <3>1
  <2>3. QED
    BY <2>1, <2>2
<1>6. QED
  BY <1>3, <1>4, <1>5

\* Two numbers less than m apart with the same remainder are the same.
LEMMA SameMod ==
    ASSUME NEW a \in Int, NEW b \in Int, NEW m \in Nat \ {0},
           a % m = b % m, a - b < m, b - a < m
    PROVE  a = b
<1>1. PICK p \in Int : a = p * m + (a % m)
  BY DivMod
<1>2. PICK q \in Int : b = q * m + (b % m)
  BY DivMod
<1>3. a % m \in Int /\ b % m \in Int
  OBVIOUS
<1>4. (p - q) * m = a - b
  BY <1>1, <1>2, <1>3
<1>5. p - q = 0
  <2>1. CASE p - q >= 1
    <3>1. (p - q) * m >= m
      BY <2>1
    <3>2. QED
      BY <1>4, <3>1
  <2>2. CASE p - q <= -1
    <3>1. (p - q) * m <= -m
      BY <2>2
    <3>2. QED
      BY <1>4, <3>1
  <2>3. QED
    BY <2>1, <2>2
<1>6. QED
  BY <1>4, <1>5

\* A product of a sum.
LEMMA Distribute ==
    ASSUME NEW p \in Int, NEW q \in Int, NEW m \in Int
    PROVE  (p + q) * m = p * m + q * m
OBVIOUS

\* A product of three.
LEMMA Associate ==
    ASSUME NEW p \in Int, NEW q \in Int, NEW m \in Int
    PROVE  p * (q * m) = (p * q) * m /\ p * q \in Int
OBVIOUS

\* Taking the remainder before an addition changes nothing.
LEMMA ModAdd ==
    ASSUME NEW a \in Int, NEW b \in Int, NEW m \in Nat \ {0}
    PROVE  ((a % m) + b) % m = (a + b) % m
<1>1. PICK r \in 0 .. m - 1 : r = a % m
  OBVIOUS
<1>2. PICK p \in Int : a = p * m + r
  BY <1>1, DivMod
<1>3. PICK s \in 0 .. m - 1 : s = (r + b) % m
  OBVIOUS
<1>4. PICK q \in Int : r + b = q * m + s
  <2>1. r + b \in Int
    OBVIOUS
  <2>2. \E q \in Int : r + b = q * m + ((r + b) % m)
    BY <2>1, DivMod, Zenon
  <2>3. QED
    BY <1>3, <2>2
<1>5. a + b = (p + q) * m + s
  <2>1. p * m \in Int /\ q * m \in Int
    OBVIOUS
  <2>2. a + b = p * m + q * m + s
    BY <1>2, <1>4, <2>1
  <2>3. QED
    BY <2>1, <2>2, Distribute
<1>6. p + q \in Int /\ s \in 0 .. m - 1
  OBVIOUS
<1>7. (a + b) % m = s
  BY <1>5, <1>6, ModIs
<1>8. QED
  BY <1>1, <1>3, <1>7

\* Nor does taking it by a multiple of m before taking it by m.
LEMMA ModOfMod ==
    ASSUME NEW a \in Int, NEW m \in Nat \ {0}, NEW k \in Nat \ {0}, k % m = 0
    PROVE  (a % k) % m = a % m
<1>1. PICK r \in 0 .. k - 1 : r = a % k
  OBVIOUS
<1>2. PICK p \in Int : a = p * k + r
  BY <1>1, DivMod
<1>3. PICK c \in Int : k = c * m
  <2>0. k \in Int
    OBVIOUS
  <2>1. PICK c \in Int : k = c * m + (k % m)
    BY <2>0, DivMod, Zenon
  <2>2. c * m \in Int
    OBVIOUS
  <2>3. QED
    BY <2>1, <2>2
<1>4. PICK s \in 0 .. m - 1 : s = r % m
  OBVIOUS
<1>5. PICK q \in Int : r = q * m + s
  <2>1. r \in Int
    OBVIOUS
  <2>2. \E q \in Int : r = q * m + (r % m)
    BY <2>1, DivMod, Zenon
  <2>3. QED
    BY <1>4, <2>2
<1>6. a = (p * c + q) * m + s
  <2>1. (p * c) * m \in Int /\ q * m \in Int /\ p * c \in Int
    OBVIOUS
  <2>2. a = (p * c) * m + q * m + s
    BY <1>2, <1>3, <1>5, <2>1, Associate
  <2>3. QED
    BY <2>1, <2>2, Distribute
<1>7. p * c + q \in Int /\ s \in 0 .. m - 1
  OBVIOUS
<1>8. a % m = s
  BY <1>6, <1>7, ModIs
<1>9. QED
  BY <1>1, <1>4, <1>8
=============================================================================
