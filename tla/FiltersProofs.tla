---------------------------- MODULE FiltersProofs ----------------------------
(***************************************************************************)
(* What Filters keeps for any bodies, any sizes and any order in which the   *)
(* threads run: its types for any peers, and for one peer that sends no more *)
(* bodies than there are flags that every body arrives once and whole or was *)
(* stopped by Close, which is that the filters implement Courier, and that   *)
(* only slices of stopped bodies stay in the map.                            *)
(***************************************************************************)
EXTENDS Filters, FiniteLemmas, SequenceTheorems, TLAPS

-----------------------------------------------------------------------------
(* Sequences without repetition.                                             *)

Once(s) == \A i, j \in 1 .. Len(s) : s[i] = s[j] => i = j

\* What Append adds.
LEMMA OnceAppend ==
    ASSUME NEW S, NEW s \in Seq(S), NEW e \in S
    PROVE  /\ Append(s, e) \in Seq(S) /\ Append(s, e) # <<>>
           /\ Range(Append(s, e)) = Range(s) \cup {e}
           /\ Once(s) /\ e \notin Range(s) => Once(Append(s, e))
<1>1. Range(s) = {s[i] : i \in 1 .. Len(s)} /\ Len(s) \in Nat
  BY RangeEquality, LenProperties
<1>2. /\ Append(s, e) \in Seq(S) /\ Append(s, e) # <<>> /\ Len(Append(s, e)) = Len(s) + 1
      /\ Append(s, e)[Len(s) + 1] = e
      /\ \A i \in 1 .. Len(s) : Append(s, e)[i] = s[i]
  BY AppendProperties
<1>3. Range(Append(s, e)) = {Append(s, e)[i] : i \in 1 .. Len(s) + 1}
  BY <1>2, RangeEquality
<1>4. \A i \in 1 .. Len(s) + 1 : i = Len(s) + 1 \/ i \in 1 .. Len(s)
  BY <1>1
<1>5. Range(Append(s, e)) = Range(s) \cup {e}
  <2>1. ASSUME NEW i \in 1 .. Len(s) + 1 PROVE Append(s, e)[i] \in Range(s) \cup {e}
    BY <1>1, <1>2, <1>4
  <2>2. e \in Range(Append(s, e)) /\ Range(s) \subseteq Range(Append(s, e))
    BY <1>1, <1>2, <1>3
  <2>3. QED
    BY <1>3, <2>1, <2>2
<1>6. ASSUME Once(s), e \notin Range(s),
             NEW i \in 1 .. Len(s) + 1, NEW j \in 1 .. Len(s) + 1, Append(s, e)[i] = Append(s, e)[j]
      PROVE  i = j
  <2>1. CASE i \in 1 .. Len(s) /\ j \in 1 .. Len(s)
    BY <1>2, <1>6, <2>1 DEF Once
  <2>2. CASE i = Len(s) + 1 /\ j \in 1 .. Len(s)
    BY <1>1, <1>2, <1>6, <2>2
  <2>3. CASE j = Len(s) + 1 /\ i \in 1 .. Len(s)
    BY <1>1, <1>2, <1>6, <2>3
  <2>4. QED
    BY <1>4, <2>1, <2>2, <2>3
<1>7. QED
  BY <1>2, <1>5, <1>6 DEF Once

\* What a sequence is without its head.
LEMMA OnceTail ==
    ASSUME NEW S, NEW s \in Seq(S), s # <<>>
    PROVE  /\ Tail(s) \in Seq(S) /\ Head(s) \in S /\ Head(s) \in Range(s)
           /\ Len(Tail(s)) = Len(s) - 1
           /\ Range(s) = Range(Tail(s)) \cup {Head(s)}
           /\ Once(s) => Once(Tail(s)) /\ Head(s) \notin Range(Tail(s))
<1>1. Range(s) = {s[i] : i \in 1 .. Len(s)} /\ Len(s) \in Nat \ {0}
  BY RangeEquality, EmptySeq
<1>2. /\ Tail(s) \in Seq(S) /\ Head(s) \in S /\ Len(Tail(s)) = Len(s) - 1
      /\ \A i \in 1 .. Len(s) - 1 : Tail(s)[i] = s[i + 1]
  BY HeadTailProperties
<1>3. Range(Tail(s)) = {Tail(s)[i] : i \in 1 .. Len(s) - 1}
  BY <1>2, RangeEquality
<1>4. Head(s) = s[1]
  OBVIOUS
<1>5. ASSUME NEW i \in 1 .. Len(s), i # 1 PROVE s[i] \in Range(Tail(s))
  <2>1. i - 1 \in 1 .. Len(s) - 1 /\ Tail(s)[i - 1] = s[i]
    BY <1>1, <1>2, <1>5
  <2>2. QED
    BY <1>3, <2>1
<1>6. ASSUME NEW i \in 1 .. Len(s) - 1 PROVE i + 1 \in 1 .. Len(s) /\ i + 1 # 1 /\ i \in Int
  BY <1>1
<1>7. Range(s) = Range(Tail(s)) \cup {Head(s)} /\ Head(s) \in Range(s)
  BY <1>1, <1>2, <1>3, <1>4, <1>5, <1>6
<1>8. ASSUME Once(s) PROVE Once(Tail(s)) /\ Head(s) \notin Range(Tail(s))
  <2>1. ASSUME NEW i \in 1 .. Len(s) - 1, NEW j \in 1 .. Len(s) - 1, Tail(s)[i] = Tail(s)[j]
        PROVE  i = j
    <3>1. i + 1 = j + 1
      BY <1>2, <1>6, <1>8, <2>1 DEF Once
    <3>2. QED
      BY <1>6, <3>1
  <2>2. ASSUME NEW i \in 1 .. Len(s) - 1 PROVE Tail(s)[i] # Head(s)
    BY <1>1, <1>2, <1>4, <1>6, <1>8 DEF Once
  <2>3. QED
    BY <1>2, <1>3, <2>1, <2>2 DEF Once
<1>9. QED
  BY <1>2, <1>7, <1>8

\* And without its last element, which is what Pop takes.
LEMMA OnceFront ==
    ASSUME NEW S, NEW s \in Seq(S), s # <<>>
    PROVE  /\ Front(s) \in Seq(S) /\ Last(s) \in S /\ Last(s) \in Range(s)
           /\ Len(Front(s)) = Len(s) - 1
           /\ Range(s) = Range(Front(s)) \cup {Last(s)}
           /\ Once(s) => Once(Front(s)) /\ Last(s) \notin Range(Front(s))
<1>1. Range(s) = {s[i] : i \in 1 .. Len(s)} /\ Len(s) \in Nat \ {0}
      /\ \A i \in 1 .. Len(s) : s[i] \in S
  BY RangeEquality, EmptySeq, ElementOfSeq
<1>2. /\ Front(s) \in Seq(S) /\ Len(Front(s)) = Len(s) - 1
      /\ \A i \in 1 .. Len(s) - 1 : Front(s)[i] = s[i]
  <2>1. 1 \in Int /\ Len(s) - 1 \in Int /\ \A i \in 1 .. Len(s) - 1 : s[i] \in S
    BY <1>1
  <2>2. /\ SubSeq(s, 1, Len(s) - 1) \in Seq(S)
        /\ Len(SubSeq(s, 1, Len(s) - 1)) = IF 1 <= Len(s) - 1 THEN Len(s) - 1 - 1 + 1 ELSE 0
        /\ \A i \in 1 .. Len(s) - 1 - 1 + 1 : SubSeq(s, 1, Len(s) - 1)[i] = s[1 + i - 1]
    BY <2>1, SubSeqProperties
  <2>3. Len(s) - 1 - 1 + 1 = Len(s) - 1
        /\ (~ (1 <= Len(s) - 1) => Len(s) - 1 = 0)
    <3>1. PICK n \in Nat \ {0} : n = Len(s)
      BY <1>1
    <3>2. QED
      BY <3>1
  <2>4. \A i \in 1 .. Len(s) - 1 : 1 + i - 1 = i
    BY <1>1
  <2>5. QED
    BY <1>1, <2>2, <2>3, <2>4 DEF Front
<1>3. Range(Front(s)) = {Front(s)[i] : i \in 1 .. Len(s) - 1}
  BY <1>2, RangeEquality
<1>4. Last(s) = s[Len(s)] /\ Len(s) \in 1 .. Len(s)
  BY <1>1 DEF Last
<1>5. \A i \in 1 .. Len(s) : i = Len(s) \/ i \in 1 .. Len(s) - 1
  BY <1>1
<1>6. \A i \in 1 .. Len(s) - 1 : i \in 1 .. Len(s) /\ i # Len(s)
  BY <1>1
<1>7. Range(s) = Range(Front(s)) \cup {Last(s)} /\ Last(s) \in Range(s)
  BY <1>1, <1>2, <1>3, <1>4, <1>5, <1>6
<1>8. ASSUME Once(s) PROVE Once(Front(s)) /\ Last(s) \notin Range(Front(s))
  BY <1>2, <1>3, <1>4, <1>6, <1>8 DEF Once
<1>9. QED
  BY <1>1, <1>2, <1>4, <1>7, <1>8
-----------------------------------------------------------------------------
(* Cutting.                                                                  *)

\* No body has more slices than the head of one can count.
Short == \A len \in Lengths : SliceNum(len) < FlagLimit

\* The i-th slice of a body, from 0.
Slice(b, f, i) ==
    [flag |-> f, count |-> SliceNum(b.len), index |-> i,
     piece |-> [body |-> b, from |-> i * SliceLimit, len |-> PieceLen(b.len, i)]]

\* The slices that there can be.
SlicesOf(b, f) == {Slice(b, f, i) : i \in 0 .. SliceNum(b.len) - 1}
Packet == UNION {SlicesOf(b, f) : b \in Body, f \in Flag}

\* A product of a number and the length of a slice, and the next one.
LEMMA Product ==
    ASSUME NEW i \in Int
    PROVE  i * SliceLimit \in Int /\ (i + 1) * SliceLimit = i * SliceLimit + SliceLimit
<1>1. SliceLimit \in Int
  BY FiltersAssumption
<1>2. QED
  BY <1>1

\* The slices of a body cover it, each but the last in full.
LEMMA CutsWhole ==
    ASSUME NEW len \in Nat \ {0}
    PROVE  /\ SliceNum(len) \in Nat \ {0}
           /\ \A i \in 0 .. SliceNum(len) - 1 :
                 /\ i * SliceLimit \in Nat /\ PieceLen(len, i) \in Nat
                 /\ i * SliceLimit + PieceLen(len, i) <= len
                 /\ i # SliceNum(len) - 1 => PieceLen(len, i) = SliceLimit
                 /\ i = SliceNum(len) - 1 => i * SliceLimit + PieceLen(len, i) = len
<1> DEFINE q == len \div SliceLimit
           r == len % SliceLimit
           n == SliceNum(len)
<1>0. SliceLimit \in Nat \ {0} /\ SliceLimit \in Int
  BY FiltersAssumption
<1>1. q \in Int /\ r \in 0 .. SliceLimit - 1 /\ len = q * SliceLimit + r
  <2>1. q \in Int /\ r \in 0 .. SliceLimit - 1 /\ len = SliceLimit * q + r
    BY <1>0
  <2>2. SliceLimit * q = q * SliceLimit
    BY <1>0, <2>1
  <2>3. QED
    BY <2>1, <2>2
<1>2. q \in Nat
  BY <1>0
<1>3. n = IF r > 0 THEN q + 1 ELSE q
  BY <1>1, <1>2 DEF SliceNum
<1>4. n \in Nat \ {0}
  <2>1. CASE r > 0
    BY <1>2, <1>3, <2>1
  <2>2. CASE r = 0
    <3>1. q # 0
      BY <1>0, <1>1, <2>2
    <3>2. QED
      BY <1>2, <1>3, <2>2, <3>1
  <2>3. QED
    BY <1>1, <2>1, <2>2
<1>5. (n - 1) * SliceLimit < len /\ len <= (n - 1) * SliceLimit + SliceLimit
  <2>1. q * SliceLimit \in Int /\ (q - 1) * SliceLimit + SliceLimit = q * SliceLimit
        /\ (q - 1) * SliceLimit \in Int
    <3>1. q - 1 \in Int /\ (q - 1) + 1 = q
      BY <1>1
    <3>2. QED
      BY <1>1, <3>1, Product
  <2>2. CASE r > 0
    <3>1. n - 1 = q
      BY <1>1, <1>3, <2>2
    <3>2. QED
      BY <1>0, <1>1, <2>1, <2>2, <3>1
  <2>3. CASE r = 0
    <3>1. n - 1 = q - 1
      BY <1>3, <2>3
    <3>2. (n - 1) * SliceLimit = (q - 1) * SliceLimit
      BY <3>1
    <3>3. len = q * SliceLimit
      BY <1>1, <2>1, <2>3
    <3>4. QED
      BY <1>0, <2>1, <3>2, <3>3
  <2>4. QED
    BY <1>1, <2>2, <2>3
<1> HIDE DEF q, r, n
<1>6. ASSUME NEW i \in 0 .. n - 1
      PROVE  /\ i * SliceLimit \in Nat /\ PieceLen(len, i) \in Nat
             /\ i * SliceLimit + PieceLen(len, i) <= len
             /\ i # n - 1 => PieceLen(len, i) = SliceLimit
             /\ i = n - 1 => i * SliceLimit + PieceLen(len, i) = len
  <2>1. i \in Nat /\ i \in Int /\ n \in Int /\ n - 1 - i \in Nat /\ n - 1 \in Int
    BY <1>4
  <2>2. i * SliceLimit \in Nat
    BY <1>0, <2>1
  <2>3. CASE i = n - 1
    BY <1>0, <1>5, <2>2, <2>3 DEF PieceLen
  <2>4. CASE i # n - 1
    <3>1. (n - 1) * SliceLimit >= i * SliceLimit + SliceLimit
      <4>1. n - 2 - i \in Nat
        BY <2>1, <2>4
      <4>2. (i + 1) * SliceLimit = i * SliceLimit + SliceLimit
        BY <2>1, Product
      <4>3. (n - 1) * SliceLimit = (i + 1) * SliceLimit + (n - 2 - i) * SliceLimit
        <5>1. n - 1 = (i + 1) + (n - 2 - i) /\ i + 1 \in Int /\ n - 2 - i \in Int
          BY <2>1, <4>1
        <5>2. QED
          BY <1>0, <5>1, Distribute
      <4>4. (n - 2 - i) * SliceLimit \in Nat /\ (i + 1) * SliceLimit \in Int
        BY <1>0, <2>1, <4>1
      <4>5. QED
        BY <1>0, <2>2, <4>2, <4>3, <4>4
    <3>2. len - i * SliceLimit > SliceLimit
      BY <1>0, <1>5, <2>1, <2>2, <3>1, Product
    <3>3. PieceLen(len, i) = SliceLimit
      BY <1>0, <2>2, <3>2 DEF PieceLen
    <3>4. QED
      BY <1>0, <2>2, <2>4, <3>2, <3>3
  <2>5. QED
    BY <2>3, <2>4
<1>7. QED
  BY <1>4, <1>6 DEF n

\* What the slices of a body look like, from 0.
LEMMA SlicesAre ==
    ASSUME Short, NEW b \in Body, NEW f \in Flag
    PROVE  /\ SliceNum(b.len) \in Nat \ {0} /\ SliceNum(b.len) < FlagLimit
           /\ Len(Slices(b, f)) = SliceNum(b.len)
           /\ \A i \in 1 .. SliceNum(b.len) : Slices(b, f)[i] = Slice(b, f, i - 1)
           /\ Slices(b, f) \in Seq(Packet)
<1> DEFINE n == SliceNum(b.len)
<1>1. b.len \in Lengths /\ b.len \in Nat \ {0} /\ FlagLimit \in Nat \ {0}
  BY FiltersAssumption DEF Body
<1>2. n \in Nat \ {0} /\ n < FlagLimit
  BY <1>1, CutsWhole DEF Short
<1> HIDE DEF n
<1>3. n % FlagLimit = n
  BY <1>1, <1>2
<1>4. Slices(b, f) = [i \in 1 .. n |->
                        [flag |-> f, count |-> n % FlagLimit, index |-> (i - 1) % FlagLimit,
                         piece |-> [body |-> b, from |-> (i - 1) * SliceLimit,
                                    len |-> PieceLen(b.len, i - 1)]]]
  BY DEF Slices, n
<1>5. ASSUME NEW i \in 1 .. n PROVE (i - 1) % FlagLimit = i - 1
  <2>1. i - 1 \in 0 .. FlagLimit - 1
    BY <1>1, <1>2
  <2>2. QED
    BY <1>1, <2>1
<1>6. ASSUME NEW i \in 1 .. n
      PROVE  Slices(b, f)[i] = Slice(b, f, i - 1) /\ Slice(b, f, i - 1) \in Packet
  <2>1. Slices(b, f)[i] = Slice(b, f, i - 1)
    BY <1>3, <1>4, <1>5 DEF Slice, n
  <2>2. i - 1 \in 0 .. n - 1
    BY <1>2
  <2>3. i - 1 \in 0 .. SliceNum(b.len) - 1
    BY <2>2 DEF n
  <2>4. Slice(b, f, i - 1) \in SlicesOf(b, f)
    BY <2>3 DEF SlicesOf
  <2>5. Slice(b, f, i - 1) \in Packet
    BY <2>4 DEF Packet
  <2>6. QED
    BY <2>1, <2>5
<1>7. Slices(b, f) \in Seq(Packet) /\ Len(Slices(b, f)) = n
  <2>1. n \in Nat
    BY <1>2
  <2>2. Slices(b, f) \in [1 .. n -> Packet]
    BY <1>4, <1>6
  <2>3. Slices(b, f) \in Seq(Packet)
    BY <2>1, <2>2
  <2>4. DOMAIN Slices(b, f) = 1 .. n
    BY <1>4
  <2>5. QED
    BY <2>1, <2>3, <2>4, LenProperties
<1>8. QED
  BY <1>2, <1>6, <1>7 DEF n

\* What a slice that there can be looks like.
LEMMA PacketIs ==
    ASSUME Short, NEW x \in Packet
    PROVE  /\ x.piece.body \in Body /\ x.flag \in Flag
           /\ SliceNum(x.piece.body.len) \in Nat \ {0}
           /\ x.count = SliceNum(x.piece.body.len) /\ x.count \in Flag
           /\ x.index \in 0 .. SliceNum(x.piece.body.len) - 1 /\ x.index \in Nat
           /\ x = Slice(x.piece.body, x.flag, x.index)
           /\ x.piece.from = x.index * SliceLimit
           /\ x.piece.len = PieceLen(x.piece.body.len, x.index)
           /\ x.piece \in Piece /\ x.piece.from + x.piece.len <= x.piece.body.len
<1>1. PICK b \in Body, f \in Flag : x \in SlicesOf(b, f)
  BY DEF Packet
<1>2. PICK i \in 0 .. SliceNum(b.len) - 1 : x = Slice(b, f, i)
  BY <1>1 DEF SlicesOf
<1>3. /\ x.flag = f /\ x.count = SliceNum(b.len) /\ x.index = i
      /\ x.piece.body = b /\ x.piece.from = i * SliceLimit /\ x.piece.len = PieceLen(b.len, i)
      /\ x.piece = [body |-> b, from |-> i * SliceLimit, len |-> PieceLen(b.len, i)]
  BY <1>2 DEF Slice
<1>4. b.len \in Lengths /\ b.len \in Nat \ {0} /\ FlagLimit \in Nat \ {0}
  BY FiltersAssumption DEF Body
<1>5. /\ SliceNum(b.len) \in Nat \ {0} /\ SliceNum(b.len) < FlagLimit
      /\ i * SliceLimit \in Nat /\ PieceLen(b.len, i) \in Nat
      /\ i * SliceLimit + PieceLen(b.len, i) <= b.len
  BY <1>4, CutsWhole DEF Short
<1>6. x.count \in Flag /\ i \in Nat
  BY <1>3, <1>4, <1>5 DEF Flag
<1>7. x.piece \in Piece
  BY <1>3, <1>5 DEF Piece
<1>8. QED
  BY <1>2, <1>3, <1>5, <1>6, <1>7
-----------------------------------------------------------------------------
(* Sorting.                                                                  *)

\* The slices that come no later than the i-th.
NotLater(parts, i) ==
    {j \in 1 .. Len(parts) :
        \/ parts[j].index < parts[i].index
        \/ parts[j].index = parts[i].index /\ j <= i}

\* Every place of the sorted sequence is that of one slice.
LEMMA RankIsPlace ==
    ASSUME NEW parts, Len(parts) \in Nat, \A i \in 1 .. Len(parts) : parts[i].index \in Nat
    PROVE  /\ \A i \in 1 .. Len(parts) : Rank(parts, i) \in 1 .. Len(parts)
           /\ \A i, j \in 1 .. Len(parts) : Rank(parts, i) = Rank(parts, j) => i = j
           /\ \A k \in 1 .. Len(parts) : \E i \in 1 .. Len(parts) : Rank(parts, i) = k
<1>0. PICK n \in Nat : n = Len(parts)
  OBVIOUS
<1> DEFINE g == [i \in 1 .. n |-> Rank(parts, i)]
<1>1. 1 \in Int /\ n \in Int /\ n >= 1 - 1 /\ n - 1 + 1 = n
  OBVIOUS
<1>2. IsFiniteSet(1 .. n) /\ Cardinality(1 .. n) = n
  <2>1. IsFiniteSet(1 .. n) /\ Cardinality(1 .. n) = IF 1 > n THEN 0 ELSE n - 1 + 1
    BY <1>1, FS_Interval
  <2>2. QED
    BY <1>1, <2>1
<1>3. ASSUME NEW i \in 1 .. n
      PROVE  /\ NotLater(parts, i) \in SUBSET (1 .. n) /\ i \in NotLater(parts, i)
             /\ IsFiniteSet(NotLater(parts, i)) /\ Rank(parts, i) = Cardinality(NotLater(parts, i))
             /\ Rank(parts, i) \in 1 .. n
  <2>1. NotLater(parts, i) \in SUBSET (1 .. n) /\ i \in NotLater(parts, i)
    BY <1>0 DEF NotLater
  <2>2. IsFiniteSet(NotLater(parts, i)) /\ Cardinality(NotLater(parts, i)) <= n
    BY <1>2, <2>1, FS_Subset
  <2>3. Cardinality(NotLater(parts, i)) \in Nat
    BY <2>2, FS_CardinalityType
  <2>4. Cardinality(NotLater(parts, i)) # 0
    BY <2>1, <2>2, FS_EmptySet
  <2>5. Rank(parts, i) = Cardinality(NotLater(parts, i))
    BY DEF Rank, NotLater
  <2>6. QED
    BY <2>1, <2>2, <2>3, <2>4, <2>5
<1>4. ASSUME NEW i \in 1 .. n, NEW j \in 1 .. n, i \in NotLater(parts, j), i # j
      PROVE  Rank(parts, i) # Rank(parts, j)
  <2>1. NotLater(parts, i) \in SUBSET NotLater(parts, j)
    <3>1. ASSUME NEW k \in NotLater(parts, i) PROVE k \in NotLater(parts, j)
      <4>1. /\ k \in 1 .. n
            /\ parts[k].index \in Nat /\ parts[i].index \in Nat /\ parts[j].index \in Nat
        BY <1>0, <3>1 DEF NotLater
      <4>2. QED
        BY <1>0, <1>4, <3>1, <4>1 DEF NotLater
    <3>2. QED
      BY <3>1
  <2>2. j \notin NotLater(parts, i)
    <3>1. parts[i].index \in Nat /\ parts[j].index \in Nat
      BY <1>0
    <3>2. QED
      BY <1>4, <3>1 DEF NotLater
  <2>3. j \in NotLater(parts, j)
    BY <1>3
  <2>4. NotLater(parts, i) # NotLater(parts, j)
    BY <2>2, <2>3
  <2>5. Cardinality(NotLater(parts, i)) # Cardinality(NotLater(parts, j))
    BY <1>3, <2>1, <2>4, FS_Subset
  <2>6. QED
    BY <1>3, <2>5
<1>5. ASSUME NEW i \in 1 .. n, NEW j \in 1 .. n
      PROVE  i \in NotLater(parts, j) \/ j \in NotLater(parts, i)
  <2>1. parts[i].index \in Nat /\ parts[j].index \in Nat
    BY <1>0
  <2>2. QED
    BY <1>0, <2>1 DEF NotLater
<1>6. \A i, j \in 1 .. n : Rank(parts, i) = Rank(parts, j) => i = j
  BY <1>4, <1>5
<1>7. g \in Injection(1 .. n, 1 .. n)
  BY <1>3, <1>6 DEF Injection, IsInjective
<1>8. g \in Surjection(1 .. n, 1 .. n)
  <2> HIDE DEF g
  <2>1. QED
    BY <1>2, <1>7, FS_Injection
<1>9. ASSUME NEW k \in 1 .. n PROVE \E i \in 1 .. n : Rank(parts, i) = k
  BY <1>8 DEF Surjection
<1>10. QED
  BY <1>0, <1>3, <1>6, <1>9

\* Sorting changes the places of the slices and nothing else.
LEMMA SortedIs ==
    ASSUME NEW parts, Len(parts) \in Nat, \A i \in 1 .. Len(parts) : parts[i].index \in Nat
    PROVE  /\ DOMAIN Sorted(parts) = 1 .. Len(parts)
           /\ \A i \in 1 .. Len(parts) : Sorted(parts)[Rank(parts, i)] = parts[i]
           /\ \A k \in 1 .. Len(parts) : \E i \in 1 .. Len(parts) :
                 Rank(parts, i) = k /\ Sorted(parts)[k] = parts[i]
<1>1. ASSUME NEW k \in 1 .. Len(parts), NEW i \in 1 .. Len(parts), Rank(parts, i) = k
      PROVE  Sorted(parts)[k] = parts[i]
  <2>1. i = CHOOSE j \in 1 .. Len(parts) : Rank(parts, j) = k
    BY <1>1, RankIsPlace
  <2>2. QED
    BY <2>1 DEF Sorted
<1>2. QED
  BY <1>1, RankIsPlace DEF Sorted

\* What is joined is a sequence of pieces, one per slice.
LEMMA JoinedIs ==
    ASSUME Short, NEW parts \in Seq(Packet)
    PROVE  /\ Len(parts) \in Nat /\ \A i \in 1 .. Len(parts) : parts[i].index \in Nat
           /\ Joined(parts) \in Seq(Piece) /\ Len(Joined(parts)) = Len(parts)
           /\ \A k \in 1 .. Len(parts) : Joined(parts)[k] = Sorted(parts)[k].piece
<1>1. Len(parts) \in Nat /\ \A i \in 1 .. Len(parts) : parts[i] \in Packet
  BY LenProperties, ElementOfSeq
<1>2. \A i \in 1 .. Len(parts) : parts[i].index \in Nat /\ parts[i].piece \in Piece
  BY <1>1, PacketIs
<1>3. ASSUME NEW k \in 1 .. Len(parts) PROVE Sorted(parts)[k].piece \in Piece
  <2>1. PICK i \in 1 .. Len(parts) : Sorted(parts)[k] = parts[i]
    BY <1>1, <1>2, SortedIs
  <2>2. QED
    BY <1>2, <2>1
<1>4. Joined(parts) \in [1 .. Len(parts) -> Piece]
  BY <1>3 DEF Joined
<1>5. Joined(parts) \in Seq(Piece)
  BY <1>1, <1>4
<1>6. Len(Joined(parts)) = Len(parts)
  <2>1. DOMAIN Joined(parts) = 1 .. Len(parts)
    BY DEF Joined
  <2>2. QED
    BY <1>1, <1>5, <2>1, LenProperties
<1>7. QED
  BY <1>1, <1>2, <1>5, <1>6 DEF Joined
-----------------------------------------------------------------------------
(* Types, for any peers.                                                     *)

SendTypes ==
    /\ bodies \in [Peer -> Seq(Body)] /\ toFilter \in [Peer -> Seq(Body)]
    /\ curFlag \in [Peer -> Flag] /\ closed \subseteq Peer /\ refused \subseteq Body
    /\ cutting \in [Peer -> Seq(Packet)] /\ toProcess \in [Peer -> Seq(Packet)]
    /\ net \in [Peer -> Seq(Packet)]

RecvTypes ==
    /\ toRelieve \in Seq(Packet) /\ slices \in [Flag -> Seq(Packet)]
    /\ toUpper \in Seq(Seq(Piece)) /\ received \in Seq(Seq(Piece))

Typed == SendTypes /\ RecvTypes

\* What a sequence holds is of its type.
LEMMA RangeTyped ==
    ASSUME NEW S, NEW s \in Seq(S)
    PROVE  Range(s) \subseteq S /\ Range(s) = {s[i] : i \in 1 .. Len(s)}
BY RangeEquality, ElementOfSeq

\* The types of the slices make up the type invariant of the model.
LEMMA TypedIsTypeOK == ASSUME Short, Typed PROVE TypeOK
<1>1. ASSUME NEW s \in Packet
      PROVE  /\ s.flag \in Flag /\ s.count \in Flag /\ s.index \in 0 .. s.count - 1
             /\ s.piece \in Piece /\ s.piece.from + s.piece.len <= s.piece.body.len
  BY PacketIs
<1>2. Range(toRelieve) \subseteq Packet
  BY RangeTyped DEF Typed, RecvTypes
<1>3. UNION {Range(slices[f]) : f \in Flag} \subseteq Packet
  <2>1. \A f \in Flag : Range(slices[f]) \subseteq Packet
    BY RangeTyped DEF Typed, RecvTypes
  <2>2. QED
    BY <2>1
<1>4. UNION {Range(cutting[p] \o toProcess[p] \o net[p]) : p \in Peer} \subseteq Packet
  <2>1. ASSUME NEW p \in Peer PROVE Range(cutting[p] \o toProcess[p] \o net[p]) \subseteq Packet
    <3>1. cutting[p] \in Seq(Packet) /\ toProcess[p] \in Seq(Packet) /\ net[p] \in Seq(Packet)
      BY DEF Typed, SendTypes
    <3>2. cutting[p] \o toProcess[p] \in Seq(Packet)
      BY <3>1, ConcatProperties
    <3>3. cutting[p] \o toProcess[p] \o net[p] \in Seq(Packet)
      BY <3>1, <3>2, ConcatProperties
    <3>4. QED
      BY <3>3, RangeTyped
  <2>2. QED
    BY <2>1
<1>5. \A r \in Range(toUpper \o received) : r \in Seq(Piece)
  <2>1. toUpper \o received \in Seq(Seq(Piece))
    BY ConcatProperties DEF Typed, RecvTypes
  <2>2. QED
    BY <2>1, RangeTyped
<1>6. ASSUME NEW s \in Range(toRelieve) \cup (UNION {Range(slices[f]) : f \in Flag})
                      \cup (UNION {Range(cutting[p] \o toProcess[p] \o net[p]) : p \in Peer})
      PROVE  s \in Packet
  <2>1. CASE s \in Range(toRelieve)
    BY <1>2, <2>1
  <2>2. CASE s \in UNION {Range(slices[f]) : f \in Flag}
    BY <1>3, <2>2, Zenon
  <2>3. CASE s \in UNION {Range(cutting[p] \o toProcess[p] \o net[p]) : p \in Peer}
    BY <1>4, <2>3, Zenon
  <2>4. QED
    BY <1>6, <2>1, <2>2, <2>3, Zenon
<1>7. /\ bodies \in [Peer -> Seq(Body)] /\ toFilter \in [Peer -> Seq(Body)]
      /\ curFlag \in [Peer -> Flag] /\ closed \subseteq Peer /\ refused \subseteq Body
  BY DEF Typed, SendTypes
<1>8. QED
  BY <1>1, <1>5, <1>6, <1>7, Zenon DEF TypeOK

\* They hold at first,
LEMMA InitTyped == Init => Typed
<1>1. \A S : <<>> \in Seq(S)
  BY EmptySeq
<1>2. 0 \in Flag
  BY FiltersAssumption DEF Flag
<1>3. QED
  BY <1>1, <1>2 DEF Init, Typed, SendTypes, RecvTypes

\* and every step of a sender keeps them,
LEMMA SendTyped ==
    ASSUME Short, Typed, NEW p \in Peer,
           \/ \E len \in Lengths : SendBody(p, len)
           \/ FilterProcess(p) \/ SendSlice(p) \/ Process(p) \/ Close(p) \/ Arrive(p)
    PROVE  Typed'
<1>1. ASSUME NEW len \in Lengths, SendBody(p, len) PROVE Typed'
  <2>1. PICK b : /\ b = [peer |-> p, no |-> Len(bodies[p]) + 1, len |-> len]
                 /\ bodies' = [bodies EXCEPT ![p] = Append(@, b)]
                 /\ toFilter' = [toFilter EXCEPT ![p] = Push(@, b)]
    BY <1>1 DEF SendBody
  <2>2. b \in Body
    <3>1. Len(bodies[p]) \in Nat /\ Len(bodies[p]) < MaxBodies /\ MaxBodies \in Nat
      BY <1>1, LenProperties, FiltersAssumption DEF SendBody, Typed, SendTypes
    <3>2. Len(bodies[p]) + 1 \in 1 .. MaxBodies
      BY <3>1
    <3>3. QED
      BY <2>1, <3>2 DEF Body
  <2>3. Append(bodies[p], b) \in Seq(Body) /\ Push(toFilter[p], b) \in Seq(Body)
    BY <2>2, AppendProperties DEF Push, Typed, SendTypes
  <2>4. QED
    BY <1>1, <2>1, <2>3 DEF SendBody, recvVars, Typed, SendTypes, RecvTypes
<1>2. CASE FilterProcess(p)
  <2>1. PICK f : /\ f = (curFlag[p] + 1) % FlagLimit
                 /\ curFlag' = [curFlag EXCEPT ![p] = f]
                 /\ cutting' = [cutting EXCEPT ![p] = Slices(Last(toFilter[p]), f)]
    BY <1>2 DEF FilterProcess
  <2>2. f \in Flag
    BY <2>1, FiltersAssumption DEF Flag, Typed, SendTypes
  <2>3. Front(toFilter[p]) \in Seq(Body) /\ Last(toFilter[p]) \in Body
    BY <1>2, OnceFront DEF FilterProcess, Typed, SendTypes
  <2>4. Slices(Last(toFilter[p]), f) \in Seq(Packet)
    BY <2>2, <2>3, SlicesAre
  <2>5. QED
    BY <1>2, <2>1, <2>2, <2>3, <2>4 DEF FilterProcess, Pop, recvVars, Typed, SendTypes, RecvTypes
<1>3. CASE SendSlice(p)
  <2>1. /\ Tail(cutting[p]) \in Seq(Packet) /\ Head(cutting[p]) \in Packet
        /\ Head(cutting[p]).piece.body \in Body /\ <<>> \in Seq(Packet)
    BY <1>3, OnceTail, PacketIs, EmptySeq DEF SendSlice, Typed, SendTypes
  <2>2. Push(toProcess[p], Head(cutting[p])) \in Seq(Packet)
    BY <2>1, AppendProperties DEF Push, Typed, SendTypes
  <2>3. QED
    BY <1>3, <2>1, <2>2 DEF SendSlice, recvVars, Typed, SendTypes, RecvTypes
<1>4. CASE Process(p)
  <2>1. Front(toProcess[p]) \in Seq(Packet) /\ Last(toProcess[p]) \in Packet
    BY <1>4, OnceFront DEF Process, Typed, SendTypes
  <2>2. Append(net[p], Last(toProcess[p])) \in Seq(Packet)
    BY <2>1, AppendProperties DEF Typed, SendTypes
  <2>3. QED
    BY <1>4, <2>1, <2>2 DEF Process, Pop, recvVars, Typed, SendTypes, RecvTypes
<1>5. CASE Close(p)
  BY <1>5 DEF Close, recvVars, Typed, SendTypes, RecvTypes
<1>6. CASE Arrive(p)
  <2>1. Tail(net[p]) \in Seq(Packet) /\ Head(net[p]) \in Packet
    BY <1>6, OnceTail DEF Arrive, Typed, SendTypes
  <2>2. Push(toRelieve, Head(net[p])) \in Seq(Packet)
    BY <2>1, AppendProperties DEF Push, Typed, RecvTypes
  <2>3. QED
    BY <1>6, <2>1, <2>2 DEF Arrive, Typed, SendTypes, RecvTypes
<1>7. QED
  BY <1>1, <1>2, <1>3, <1>4, <1>5, <1>6

\* as every step of the receiver.
LEMMA RecvTyped ==
    ASSUME Short, Typed, RelieveFilterProcess \/ RecvMessageToUpper PROVE Typed'
<1>1. CASE RelieveFilterProcess
  <2>1. PICK head : head = Last(toRelieve)
    OBVIOUS
  <2>2. PICK parts : parts = Append(slices[head.flag], head)
    OBVIOUS
  <2>3. \/ toUpper' = Push(toUpper, Joined(parts)) /\ slices' = Erased(head.flag)
        \/ slices' = [slices EXCEPT ![head.flag] = parts] /\ toUpper' = toUpper
    BY <1>1, <2>1, <2>2 DEF RelieveFilterProcess
  <2>4. Front(toRelieve) \in Seq(Packet) /\ head \in Packet
    BY <1>1, <2>1, OnceFront DEF RelieveFilterProcess, Typed, RecvTypes
  <2>5. head.flag \in Flag
    BY <2>4, PacketIs
  <2>6. parts \in Seq(Packet) /\ <<>> \in Seq(Packet)
    BY <2>2, <2>4, <2>5, AppendProperties, EmptySeq DEF Typed, RecvTypes
  <2>7. Push(toUpper, Joined(parts)) \in Seq(Seq(Piece))
    <3>1. Joined(parts) \in Seq(Piece)
      BY <2>6, JoinedIs
    <3>2. QED
      BY <3>1, AppendProperties DEF Push, Typed, RecvTypes
  <2>8. slices' \in [Flag -> Seq(Packet)] /\ toUpper' \in Seq(Seq(Piece))
    BY <2>3, <2>5, <2>6, <2>7 DEF Erased, Typed, RecvTypes
  <2>9. toRelieve' = Front(toRelieve) /\ received' = received /\ SendTypes'
    BY <1>1 DEF RelieveFilterProcess, Pop, sendVars, Typed, SendTypes
  <2>10. QED
    BY <2>4, <2>8, <2>9 DEF Typed, RecvTypes
<1>2. CASE RecvMessageToUpper
  <2>1. Front(toUpper) \in Seq(Seq(Piece)) /\ Last(toUpper) \in Seq(Piece)
    BY <1>2, OnceFront DEF RecvMessageToUpper, Typed, RecvTypes
  <2>2. Append(received, Last(toUpper)) \in Seq(Seq(Piece))
    BY <2>1, AppendProperties DEF Typed, RecvTypes
  <2>3. QED
    BY <1>2, <2>1, <2>2 DEF RecvMessageToUpper, Pop, sendVars, Typed, SendTypes, RecvTypes
<1>3. QED
  BY <1>1, <1>2

\* All steps keep the types.
LEMMA TypedKept == ASSUME Short, Typed, [Next]_vars PROVE Typed'
<1>1. CASE UNCHANGED vars
  BY <1>1 DEF vars, sendVars, recvVars, Typed, SendTypes, RecvTypes
<1>2. QED
  BY <1>1, SendTyped, RecvTyped DEF Next, Threads

\* The variables keep their types for any peers and any bodies, as long as no body
\* has more slices than the head of one can count.
THEOREM TypeCorrect == ASSUME Short PROVE Spec => []TypeOK
<1>1. Typed /\ [Next]_vars => Typed'
  BY TypedKept
<1>2. Typed => TypeOK
  BY TypedIsTypeOK
<1>3. QED
  BY <1>1, <1>2, InitTyped, PTL DEF Spec
-----------------------------------------------------------------------------
(* One peer. Each slice is in one place, once, from where it is cut to where *)
(* it is joined. Flags tell bodies apart. A body waits to be cut, moves in   *)
(* slices, has been joined or was stopped; one that was stopped lacks a      *)
(* slice for ever, so that it is never joined.                               *)

Alone == \E p : Peer = {p}
Few == MaxBodies < FlagLimit

Sender == CHOOSE p \in Peer : TRUE

\* Where slices are, on their way to be joined.
Cut  == Range(cutting[Sender])
Own  == Range(toProcess[Sender])
Sea  == Range(net[Sender])
Come == Range(toRelieve)
Kept == UNION {Range(slices[f]) : f \in Flag}
Way  == Cut \cup Own \cup Sea \cup Come \cup Kept

Apart(A, B, C, D, E) ==
    /\ A \cap (B \cup C \cup D \cup E) = {} /\ B \cap (C \cup D \cup E) = {}
    /\ C \cap (D \cup E) = {} /\ D \cap E = {}

EachOnce ==
    /\ Once(cutting[Sender]) /\ Once(toProcess[Sender]) /\ Once(net[Sender]) /\ Once(toRelieve)
    /\ \A f \in Flag : Once(slices[f])
    /\ Apart(Cut, Own, Sea, Come, Kept)

\* The map keeps slices under their flags, as long as some of their body are missing.
ByFlag ==
    \A f \in Flag : \A x \in Range(slices[f]) : x.flag = f /\ Len(slices[f]) < x.count

\* Bodies are numbered, and flags are counted up.
Numbered ==
    /\ \A i \in 1 .. Len(bodies[Sender]) : bodies[Sender][i].no = i
    /\ curFlag[Sender] + Len(toFilter[Sender]) = Len(bodies[Sender])
    /\ Len(bodies[Sender]) <= MaxBodies

OneFlag ==
    /\ \A x \in Way : x.flag <= curFlag[Sender]
    /\ \A x \in Cut : x.flag = curFlag[Sender]
    /\ \A x, y \in Way : x.flag = y.flag <=> x.piece.body = y.piece.body

\* The bodies that wait, move and have been joined.
Title(r) == r[1].body
Waiting  == Range(toFilter[Sender])
Moving   == {x.piece.body : x \in Way}
Joins    == Range(toUpper) \cup Range(received)
Done     == {Title(r) : r \in Joins}

BodiesApart ==
    /\ Once(toFilter[Sender])
    /\ Waiting \cap (Moving \cup Done \cup refused) = {}
    /\ Done \cap (Moving \cup refused) = {}
    /\ Waiting \cup Moving \cup Done \cup refused \subseteq Sent
    /\ \A x \in Cut : x.piece.body \notin refused

\* A body that was stopped lacks a slice, and one that moves lacks none.
Indices(b) == 0 .. SliceNum(b.len) - 1
Stopped ==
    \A b \in refused : \E i \in Indices(b) : \A x \in Way : x.piece.body = b => x.index # i
AllThere ==
    \A b \in Sent \ (refused \cup Waiting \cup Done) :
        \A i \in Indices(b) : \E x \in Way : x.piece.body = b /\ x.index = i

\* What has been joined is a body, and no body twice.
OnceJoined ==
    /\ \A r \in Joins : Whole(r, Title(r))
    /\ Once(toUpper) /\ \A r, s \in Range(toUpper) : Title(r) = Title(s) => r = s
    /\ \A r \in Range(toUpper), s \in Range(received) : Title(r) # Title(s)

Followed == Numbered /\ OneFlag /\ BodiesApart /\ Stopped /\ AllThere /\ OnceJoined

FilterInv == EachOnce /\ ByFlag /\ Followed
-----------------------------------------------------------------------------
(* Joining.                                                                  *)

\* A sequence of slices of one body, as many as it has and none twice: all of
\* them are there, and sorted each comes to the place of its index.
LEMMA AllPresent ==
    ASSUME Short, NEW parts \in Seq(Packet), Once(parts), NEW b \in Body, NEW f \in Flag,
           \A x \in Range(parts) : x.piece.body = b /\ x.flag = f, Len(parts) = SliceNum(b.len)
    PROVE  /\ \A i \in Indices(b) : \E x \in Range(parts) : x.index = i
           /\ \A k \in 1 .. Len(parts) : Sorted(parts)[k] = Slice(b, f, k - 1)
<1>0. PICK n \in Nat : n = Len(parts)
  BY LenProperties
<1> DEFINE g == [k \in 1 .. n |-> parts[k].index]
<1>1. ASSUME NEW k \in 1 .. n
      PROVE  /\ parts[k] \in Range(parts) /\ parts[k].index \in 0 .. n - 1
             /\ parts[k] = Slice(b, f, parts[k].index)
  <2>1. parts[k] \in Packet /\ parts[k] \in Range(parts)
    BY <1>0, RangeTyped, ElementOfSeq
  <2>2. parts[k].piece.body = b /\ parts[k].flag = f
    BY <2>1
  <2>3. QED
    BY <1>0, <2>1, <2>2, PacketIs
<1>2. ASSUME NEW k \in 1 .. n, NEW j \in 1 .. n, parts[k].index = parts[j].index PROVE k = j
  <2>1. parts[k] = parts[j]
    BY <1>1, <1>2
  <2>2. QED
    BY <1>0, <2>1 DEF Once
<1>3. g \in Injection(1 .. n, 0 .. n - 1)
  BY <1>1, <1>2 DEF Injection, IsInjective
<1>4. /\ IsFiniteSet(1 .. n) /\ Cardinality(1 .. n) = n
      /\ IsFiniteSet(0 .. n - 1) /\ Cardinality(0 .. n - 1) = n
  BY CountOfSegment
<1>5. g \in Surjection(1 .. n, 0 .. n - 1)
  <2> HIDE DEF g
  <2>1. QED
    BY <1>3, <1>4, FS_Injection
<1>6. ASSUME NEW i \in 0 .. n - 1 PROVE \E k \in 1 .. n : parts[k].index = i
  BY <1>5 DEF Surjection
<1>7. ASSUME NEW i \in Indices(b) PROVE \E x \in Range(parts) : x.index = i
  <2>1. i \in 0 .. n - 1
    BY <1>0 DEF Indices
  <2>2. PICK k \in 1 .. n : parts[k].index = i
    BY <1>6, <2>1
  <2>3. QED
    BY <1>1, <2>2
<1>8. ASSUME NEW k \in 1 .. n PROVE Rank(parts, k) = parts[k].index + 1
  <2> DEFINE m == parts[k].index
             T == NotLater(parts, k)
             h == [j \in T |-> parts[j].index]
  <2>1. T = {j \in 1 .. n : parts[j].index <= m}
    <3>1. ASSUME NEW j \in 1 .. n
          PROVE  (parts[j].index < m \/ (parts[j].index = m /\ j <= k)) <=> parts[j].index <= m
      <4>1. /\ parts[j].index \in Int /\ m \in Int /\ j \in Int
            /\ (parts[j].index = m => j = k)
        BY <1>1, <1>2
      <4>2. QED
        BY <4>1
    <3>2. QED
      BY <1>0, <3>1 DEF NotLater
  <2>2. m \in 0 .. n - 1
    BY <1>1
  <2>3. h \in Injection(T, 0 .. m)
    <3>1. \A j \in T : j \in 1 .. n /\ parts[j].index \in 0 .. m
      BY <1>1, <2>1, <2>2
    <3>2. QED
      BY <1>2, <3>1 DEF Injection, IsInjective
  <2>4. h \in Surjection(T, 0 .. m)
    <3>1. ASSUME NEW i \in 0 .. m PROVE \E j \in T : h[j] = i
      <4>1. i \in 0 .. n - 1 /\ i <= m
        BY <2>2
      <4>2. PICK j \in 1 .. n : parts[j].index = i
        BY <1>6, <4>1
      <4>3. j \in T
        BY <2>1, <4>1, <4>2
      <4>4. QED
        BY <4>2, <4>3
    <3>2. QED
      BY <2>3, <3>1 DEF Surjection, Injection, IsInjective
  <2>5. IsFiniteSet(0 .. m) /\ Cardinality(0 .. m) = m + 1
    <3>1. 0 \in Int /\ m \in Int /\ m >= 0
      BY <2>2
    <3>2. IsFiniteSet(0 .. m) /\ Cardinality(0 .. m) = IF 0 > m THEN 0 ELSE m - 0 + 1
      BY <3>1, FS_Interval
    <3>3. QED
      BY <3>1, <3>2
  <2> HIDE DEF h, T, m
  <2>6. Cardinality(T) = Cardinality(0 .. m)
    BY <2>3, <2>4, <2>5, FS_Injection
  <2>7. Rank(parts, k) = Cardinality(T)
    BY DEF Rank, NotLater, T
  <2>8. QED
    BY <2>5, <2>6, <2>7 DEF m
<1>9. ASSUME NEW k \in 1 .. n PROVE Sorted(parts)[k] = Slice(b, f, k - 1)
  <2>1. PICK i \in 1 .. n : Rank(parts, i) = k /\ Sorted(parts)[k] = parts[i]
    BY <1>0, SortedIs, JoinedIs
  <2>2. parts[i].index = k - 1
    <3>1. parts[i].index \in Int
      BY <1>1
    <3>2. Rank(parts, i) = parts[i].index + 1
      BY <1>8
    <3>3. QED
      BY <2>1, <3>1, <3>2
  <2>3. QED
    BY <1>1, <2>1, <2>2
<1>10. QED
  BY <1>0, <1>7, <1>9

\* Joined, they are the whole body.
LEMMA JoinsWhole ==
    ASSUME Short, NEW parts \in Seq(Packet), Once(parts), NEW b \in Body, NEW f \in Flag,
           \A x \in Range(parts) : x.piece.body = b /\ x.flag = f, Len(parts) = SliceNum(b.len)
    PROVE  Whole(Joined(parts), b) /\ Title(Joined(parts)) = b
<1>0. PICK n \in Nat \ {0} : n = Len(parts) /\ n = SliceNum(b.len)
  BY SlicesAre
<1>1. b.len \in Nat \ {0}
  BY FiltersAssumption DEF Body
<1>2. PICK r \in Seq(Piece) : r = Joined(parts)
  BY JoinedIs
<1>3. Len(r) = n
  BY <1>0, <1>2, JoinedIs
<1>4. ASSUME NEW k \in 1 .. n
      PROVE  /\ r[k].body = b /\ r[k].from = (k - 1) * SliceLimit
             /\ r[k].len = PieceLen(b.len, k - 1)
  <2>1. r[k] = Slice(b, f, k - 1).piece
    BY <1>0, <1>2, JoinedIs, AllPresent
  <2>2. QED
    BY <2>1 DEF Slice
<1>5. ASSUME NEW k \in 1 .. n PROVE r[k].from = IF k = 1 THEN 0 ELSE r[k - 1].from + r[k - 1].len
  <2>1. CASE k = 1
    <3>1. 0 * SliceLimit = 0
      BY FiltersAssumption
    <3>2. k - 1 = 0
      BY <2>1
    <3>3. QED
      BY <1>4, <2>1, <3>1, <3>2
  <2>2. CASE k # 1
    <3>1. k - 1 \in 1 .. n /\ (k - 1) - 1 \in 0 .. SliceNum(b.len) - 1
          /\ (k - 1) - 1 # SliceNum(b.len) - 1 /\ (k - 1) - 1 \in Int /\ ((k - 1) - 1) + 1 = k - 1
      BY <1>0, <2>2
    <3>2. r[k - 1].from = ((k - 1) - 1) * SliceLimit /\ r[k - 1].len = SliceLimit
      BY <1>1, <1>4, <3>1, CutsWhole
    <3>3. (k - 1) * SliceLimit = ((k - 1) - 1) * SliceLimit + SliceLimit
      BY <3>1, Product
    <3>4. QED
      BY <1>4, <2>2, <3>2, <3>3
  <2>3. QED
    BY <2>1, <2>2
<1>6. Last(r).from + Last(r).len = b.len
  <2>1. n \in 1 .. n /\ n - 1 \in 0 .. SliceNum(b.len) - 1 /\ n - 1 = SliceNum(b.len) - 1
    BY <1>0
  <2>2. (n - 1) * SliceLimit + PieceLen(b.len, n - 1) = b.len
    BY <1>1, <2>1, CutsWhole
  <2>3. QED
    BY <1>3, <1>4, <2>1, <2>2 DEF Last
<1>7. r # <<>>
  BY <1>3, EmptySeq
<1>8. r[1].body = b
  <2>1. 1 \in 1 .. n
    BY <1>0
  <2>2. QED
    BY <1>4, <2>1
<1>9. Whole(r, b)
  BY <1>3, <1>4, <1>5, <1>6, <1>7 DEF Whole
<1>10. QED
  BY <1>2, <1>8, <1>9 DEF Title
-----------------------------------------------------------------------------
(* Where the slices are.                                                     *)

\* The one peer there is.
LEMMA SenderIs ==
    ASSUME Alone
    PROVE  Sender \in Peer /\ Peer = {Sender} /\ \A p \in Peer : p = Sender
BY DEF Alone, Sender

\* What the sender and the receiver have is of its type.
LEMMA WayTyped ==
    ASSUME Alone, Typed
    PROVE  /\ cutting[Sender] \in Seq(Packet) /\ toProcess[Sender] \in Seq(Packet)
           /\ net[Sender] \in Seq(Packet) /\ toRelieve \in Seq(Packet)
           /\ \A f \in Flag : slices[f] \in Seq(Packet)
           /\ toFilter[Sender] \in Seq(Body) /\ bodies[Sender] \in Seq(Body)
           /\ curFlag[Sender] \in Flag /\ curFlag[Sender] \in Nat
           /\ Cut \subseteq Packet /\ Own \subseteq Packet /\ Sea \subseteq Packet
           /\ Come \subseteq Packet /\ Kept \subseteq Packet /\ Way \subseteq Packet
           /\ Sent = Range(bodies[Sender]) /\ Sent \subseteq Body
<1>1. /\ cutting[Sender] \in Seq(Packet) /\ toProcess[Sender] \in Seq(Packet)
      /\ net[Sender] \in Seq(Packet) /\ toRelieve \in Seq(Packet)
      /\ \A f \in Flag : slices[f] \in Seq(Packet)
      /\ toFilter[Sender] \in Seq(Body) /\ bodies[Sender] \in Seq(Body)
      /\ curFlag[Sender] \in Flag
  BY SenderIs DEF Typed, SendTypes, RecvTypes
<1>2. /\ Cut \subseteq Packet /\ Own \subseteq Packet /\ Sea \subseteq Packet
      /\ Come \subseteq Packet
  BY <1>1, RangeTyped DEF Cut, Own, Sea, Come
<1>3. Kept \subseteq Packet
  <2>1. \A f \in Flag : Range(slices[f]) \subseteq Packet
    BY <1>1, RangeTyped
  <2>2. QED
    BY <2>1 DEF Kept
<1>4. Sent = Range(bodies[Sender])
  BY SenderIs DEF Sent
<1>5. Range(bodies[Sender]) \subseteq Body
  BY <1>1, RangeTyped
<1>6. curFlag[Sender] \in Nat
  BY <1>1, FiltersAssumption DEF Flag
<1>7. QED
  BY <1>1, <1>2, <1>3, <1>4, <1>5, <1>6 DEF Way

\* A slice on the way is known by its body and its index.
LEMMA SameSlice ==
    ASSUME Short, Way \subseteq Packet, OneFlag, NEW x \in Way, NEW y \in Way,
           x.piece.body = y.piece.body, x.index = y.index
    PROVE  x = y
<1>1. x \in Packet /\ y \in Packet /\ x.flag = y.flag
  BY DEF OneFlag
<1>2. x = Slice(x.piece.body, x.flag, x.index) /\ y = Slice(y.piece.body, y.flag, y.index)
  BY <1>1, PacketIs
<1>3. QED
  BY <1>1, <1>2

\* A step that moves slices on changes nothing else that is followed.
LEMMA FollowedSame ==
    ASSUME Followed, Way' = Way, Cut' \subseteq Cut,
           UNCHANGED <<bodies, toFilter, curFlag, refused, toUpper, received>>
    PROVE  Followed'
<1>1. /\ Waiting' = Waiting /\ Moving' = Moving /\ Joins' = Joins /\ Done' = Done
      /\ Sent' = Sent /\ refused' = refused
  BY DEF Waiting, Moving, Joins, Done, Sent
<1>2. Numbered'
  BY DEF Followed, Numbered
<1>3. OneFlag'
  BY DEF Followed, OneFlag
<1>4. BodiesApart'
  BY <1>1 DEF Followed, BodiesApart
<1>5. Stopped' /\ AllThere'
  BY <1>1 DEF Followed, Stopped, AllThere, Indices
<1>6. OnceJoined'
  BY <1>1 DEF Followed, OnceJoined
<1>7. QED
  BY <1>2, <1>3, <1>4, <1>5, <1>6 DEF Followed

\* The next slice goes to the process queue,
LEMMA SendMoves ==
    ASSUME Alone, Typed, FilterInv, SendSlice(Sender), Sender \notin closed
    PROVE  FilterInv'
<1>1. PICK x : x = Head(cutting[Sender])
  OBVIOUS
<1>2. /\ cutting[Sender] # <<>>
      /\ toProcess' = [toProcess EXCEPT ![Sender] = Append(@, x)]
      /\ cutting' = [cutting EXCEPT ![Sender] = Tail(@)]
      /\ UNCHANGED <<refused, bodies, toFilter, curFlag, net, toRelieve, slices, toUpper, received>>
  BY <1>1 DEF SendSlice, Push, recvVars
<1>3. /\ cutting'[Sender] = Tail(cutting[Sender])
      /\ toProcess'[Sender] = Append(toProcess[Sender], x)
  BY <1>2, SenderIs DEF Typed, SendTypes
<1>4. x \in Cut /\ x \in Packet /\ Cut = Cut' \cup {x} /\ x \notin Cut' /\ Once(cutting'[Sender])
  BY <1>1, <1>2, <1>3, WayTyped, OnceTail DEF FilterInv, EachOnce, Cut
<1>5. Own' = Own \cup {x} /\ (x \notin Own => Once(toProcess'[Sender]))
  BY <1>3, <1>4, WayTyped, OnceAppend DEF FilterInv, EachOnce, Own
<1>6. Sea' = Sea /\ Come' = Come /\ Kept' = Kept
  BY <1>2 DEF Sea, Come, Kept
<1>7. x \notin Own /\ Apart(Cut', Own', Sea', Come', Kept')
  BY <1>4, <1>5, <1>6 DEF FilterInv, EachOnce, Apart
<1>8. EachOnce'
  BY <1>2, <1>4, <1>5, <1>7 DEF FilterInv, EachOnce
<1>9. Way' = Way
  BY <1>4, <1>5, <1>6 DEF Way
<1>10. Followed'
  BY <1>2, <1>4, <1>9, FollowedSame DEF FilterInv
<1>11. ByFlag'
  BY <1>2 DEF FilterInv, ByFlag
<1>12. QED
  BY <1>8, <1>10, <1>11 DEF FilterInv

\* from there to the net,
LEMMA ProcessMoves ==
    ASSUME Alone, Typed, FilterInv, Process(Sender) PROVE FilterInv'
<1>1. PICK x : x = Last(toProcess[Sender])
  OBVIOUS
<1>2. /\ toProcess[Sender] # <<>>
      /\ net' = [net EXCEPT ![Sender] = Append(@, x)]
      /\ toProcess' = [toProcess EXCEPT ![Sender] = Front(@)]
      /\ UNCHANGED <<refused, bodies, toFilter, curFlag, cutting, toRelieve, slices, toUpper,
                     received>>
  BY <1>1 DEF Process, Pop, recvVars
<1>3. /\ toProcess'[Sender] = Front(toProcess[Sender])
      /\ net'[Sender] = Append(net[Sender], x)
  BY <1>2, SenderIs DEF Typed, SendTypes
<1>4. x \in Own /\ x \in Packet /\ Own = Own' \cup {x} /\ x \notin Own' /\ Once(toProcess'[Sender])
  <2>1. toProcess[Sender] \in Seq(Packet) /\ Once(toProcess[Sender])
    BY WayTyped DEF FilterInv, EachOnce
  <2>2. /\ x \in Packet /\ x \in Range(toProcess[Sender])
        /\ Range(toProcess[Sender]) = Range(Front(toProcess[Sender])) \cup {x}
        /\ Once(Front(toProcess[Sender])) /\ x \notin Range(Front(toProcess[Sender]))
    BY <1>1, <1>2, <2>1, OnceFront
  <2>3. QED
    BY <1>3, <2>2 DEF Own
<1>5. Sea' = Sea \cup {x} /\ (x \notin Sea => Once(net'[Sender]))
  BY <1>3, <1>4, WayTyped, OnceAppend DEF FilterInv, EachOnce, Sea
<1>6. Cut' = Cut /\ Come' = Come /\ Kept' = Kept
  BY <1>2 DEF Cut, Come, Kept
<1>7. x \notin Sea /\ Apart(Cut', Own', Sea', Come', Kept')
  BY <1>4, <1>5, <1>6 DEF FilterInv, EachOnce, Apart
<1>8. EachOnce'
  BY <1>2, <1>4, <1>5, <1>7 DEF FilterInv, EachOnce
<1>9. Way' = Way
  BY <1>4, <1>5, <1>6 DEF Way
<1>10. Followed'
  BY <1>2, <1>6, <1>9, FollowedSame DEF FilterInv
<1>11. ByFlag'
  BY <1>2 DEF FilterInv, ByFlag
<1>12. QED
  BY <1>8, <1>10, <1>11 DEF FilterInv

\* and from the net to the receiver.
LEMMA ArriveMoves ==
    ASSUME Alone, Typed, FilterInv, Arrive(Sender) PROVE FilterInv'
<1>1. PICK x : x = Head(net[Sender])
  OBVIOUS
<1>2. /\ net[Sender] # <<>>
      /\ toRelieve' = Append(toRelieve, x)
      /\ net' = [net EXCEPT ![Sender] = Tail(@)]
      /\ UNCHANGED <<refused, bodies, toFilter, curFlag, cutting, toProcess, slices, toUpper,
                     received>>
  BY <1>1 DEF Arrive, Push
<1>3. net'[Sender] = Tail(net[Sender])
  BY <1>2, SenderIs DEF Typed, SendTypes
<1>4. x \in Sea /\ x \in Packet /\ Sea = Sea' \cup {x} /\ x \notin Sea' /\ Once(net'[Sender])
  BY <1>1, <1>2, <1>3, WayTyped, OnceTail DEF FilterInv, EachOnce, Sea
<1>5. Come' = Come \cup {x} /\ (x \notin Come => Once(toRelieve'))
  BY <1>2, <1>4, WayTyped, OnceAppend DEF FilterInv, EachOnce, Come
<1>6. Cut' = Cut /\ Own' = Own /\ Kept' = Kept
  BY <1>2 DEF Cut, Own, Kept
<1>7. x \notin Come /\ Apart(Cut', Own', Sea', Come', Kept')
  BY <1>4, <1>5, <1>6 DEF FilterInv, EachOnce, Apart
<1>8. EachOnce'
  BY <1>2, <1>4, <1>5, <1>7 DEF FilterInv, EachOnce
<1>9. Way' = Way
  BY <1>4, <1>5, <1>6 DEF Way
<1>10. Followed'
  BY <1>2, <1>6, <1>9, FollowedSame DEF FilterInv
<1>11. ByFlag'
  BY <1>2 DEF FilterInv, ByFlag
<1>12. QED
  BY <1>8, <1>10, <1>11 DEF FilterInv

\* A body that is handed over is a new one, and waits.
LEMMA SendBodyFollowed ==
    ASSUME Alone, Short, Typed, FilterInv, NEW len \in Lengths, SendBody(Sender, len)
    PROVE  FilterInv' /\ (\E b \in Body \ Sent : Sent' = Sent \cup {b})
<1>1. PICK b : b = [peer |-> Sender, no |-> Len(bodies[Sender]) + 1, len |-> len]
  OBVIOUS
<1>2. /\ Len(bodies[Sender]) < MaxBodies
      /\ bodies' = [bodies EXCEPT ![Sender] = Append(@, b)]
      /\ toFilter' = [toFilter EXCEPT ![Sender] = Append(@, b)]
      /\ UNCHANGED <<cutting, curFlag, toProcess, net, refused>>
      /\ UNCHANGED <<toRelieve, slices, toUpper, received>>
  BY <1>1 DEF SendBody, Push, recvVars
<1>3. /\ bodies'[Sender] = Append(bodies[Sender], b)
      /\ toFilter'[Sender] = Append(toFilter[Sender], b)
  BY <1>2, SenderIs DEF Typed, SendTypes
<1>4. PICK n \in Nat : n = Len(bodies[Sender]) /\ n + 1 <= MaxBodies
  BY <1>2, WayTyped, LenProperties, FiltersAssumption
<1>5. b \in Body
  <2>1. n + 1 \in 1 .. MaxBodies
    BY <1>4, FiltersAssumption
  <2>2. QED
    BY <1>1, <1>4, <2>1, SenderIs DEF Body
<1>6. Sent = {bodies[Sender][i] : i \in 1 .. n}
  BY <1>4, WayTyped, RangeTyped
<1>7. b \notin Sent
  <2>1. \A i \in 1 .. n : bodies[Sender][i].no = i /\ i # n + 1
    BY <1>4 DEF FilterInv, Followed, Numbered
  <2>2. b.no = n + 1
    BY <1>1, <1>4
  <2>3. QED
    BY <1>6, <2>1, <2>2
<1>8. Sent' = Sent \cup {b}
  <2>1. Sent' = Range(Append(bodies[Sender], b))
    BY <1>3, SenderIs DEF Sent
  <2>2. QED
    BY <1>5, <2>1, WayTyped, OnceAppend
<1>9. Waiting' = Waiting \cup {b} /\ b \notin Waiting /\ Once(toFilter'[Sender])
  BY <1>3, <1>5, <1>7, WayTyped, OnceAppend DEF Waiting, FilterInv, Followed, BodiesApart
<1>10. /\ Cut' = Cut /\ Own' = Own /\ Sea' = Sea /\ Come' = Come /\ Kept' = Kept /\ Way' = Way
       /\ Moving' = Moving /\ Joins' = Joins /\ Done' = Done /\ refused' = refused
  BY <1>2 DEF Cut, Own, Sea, Come, Kept, Way, Moving, Joins, Done
<1>11. EachOnce' /\ ByFlag'
  BY <1>2, <1>10 DEF FilterInv, EachOnce, ByFlag
<1>12. Numbered'
  <2>1. Len(toFilter[Sender]) \in Nat /\ curFlag[Sender] \in Nat /\ MaxBodies \in Nat
    BY WayTyped, LenProperties, FiltersAssumption
  <2>2. /\ Len(bodies'[Sender]) = n + 1 /\ Len(toFilter'[Sender]) = Len(toFilter[Sender]) + 1
        /\ bodies'[Sender][n + 1] = b
        /\ \A i \in 1 .. n : bodies'[Sender][i] = bodies[Sender][i]
    BY <1>3, <1>4, <1>5, WayTyped, AppendProperties
  <2>3. \A i \in 1 .. n + 1 : bodies'[Sender][i].no = i
    <3>1. \A i \in 1 .. n + 1 : i \in 1 .. n \/ i = n + 1
      BY <1>4
    <3>2. QED
      BY <1>1, <1>4, <2>2, <3>1 DEF FilterInv, Followed, Numbered
  <2>4. curFlag'[Sender] + Len(toFilter'[Sender]) = n + 1
    <3>1. curFlag[Sender] + Len(toFilter[Sender]) = n
      BY <1>4 DEF FilterInv, Followed, Numbered
    <3>2. curFlag'[Sender] = curFlag[Sender]
      BY <1>2
    <3>3. QED
      BY <2>1, <2>2, <3>1, <3>2
  <2>5. QED
    BY <1>4, <2>2, <2>3, <2>4 DEF Numbered
<1>13. OneFlag'
  BY <1>2, <1>10 DEF FilterInv, Followed, OneFlag
<1>14. BodiesApart'
  BY <1>7, <1>8, <1>9, <1>10 DEF FilterInv, Followed, BodiesApart
<1>15. Stopped' /\ AllThere'
  <2>1. Sent' \ (refused' \cup Waiting' \cup Done')
          \subseteq Sent \ (refused \cup Waiting \cup Done)
    BY <1>8, <1>9, <1>10
  <2>2. QED
    BY <1>10, <2>1 DEF FilterInv, Followed, Stopped, AllThere, Indices
<1>16. OnceJoined'
  BY <1>2, <1>10 DEF FilterInv, Followed, OnceJoined
<1>17. QED
  BY <1>5, <1>7, <1>8, <1>11, <1>12, <1>13, <1>14, <1>15, <1>16 DEF FilterInv, Followed

\* A body that is cut has a flag of its own, and all its slices are on the way.
LEMMA CutFollowed ==
    ASSUME Alone, Short, Few, Typed, FilterInv, FilterProcess(Sender)
    PROVE  FilterInv'
<1>1. PICK b : b = Last(toFilter[Sender])
  OBVIOUS
<1>2. PICK f : f = (curFlag[Sender] + 1) % FlagLimit
  OBVIOUS
<1>3. /\ cutting[Sender] = <<>> /\ toFilter[Sender] # <<>>
      /\ curFlag' = [curFlag EXCEPT ![Sender] = f]
      /\ cutting' = [cutting EXCEPT ![Sender] = Slices(b, f)]
      /\ toFilter' = [toFilter EXCEPT ![Sender] = Front(@)]
      /\ UNCHANGED <<bodies, toProcess, net, refused, toRelieve, slices, toUpper, received>>
  BY <1>1, <1>2 DEF FilterProcess, Pop, recvVars
<1>4. /\ curFlag'[Sender] = f /\ cutting'[Sender] = Slices(b, f)
      /\ toFilter'[Sender] = Front(toFilter[Sender])
  BY <1>3, SenderIs DEF Typed, SendTypes
<1>5. /\ b \in Body /\ Front(toFilter[Sender]) \in Seq(Body) /\ b \in Waiting
      /\ Len(Front(toFilter[Sender])) = Len(toFilter[Sender]) - 1
      /\ Waiting = Waiting' \cup {b} /\ b \notin Waiting' /\ Once(toFilter'[Sender])
  <2>1. toFilter[Sender] \in Seq(Body) /\ Once(toFilter[Sender])
    BY WayTyped DEF FilterInv, Followed, BodiesApart
  <2>2. /\ b \in Body /\ Front(toFilter[Sender]) \in Seq(Body) /\ b \in Range(toFilter[Sender])
        /\ Len(Front(toFilter[Sender])) = Len(toFilter[Sender]) - 1
        /\ Range(toFilter[Sender]) = Range(Front(toFilter[Sender])) \cup {b}
        /\ Once(Front(toFilter[Sender])) /\ b \notin Range(Front(toFilter[Sender]))
    BY <1>1, <1>3, <2>1, OnceFront
  <2>3. QED
    BY <1>4, <2>2 DEF Waiting
<1>6. f = curFlag[Sender] + 1 /\ f \in Flag /\ f \in Nat
  <2>1. Len(toFilter[Sender]) \in Nat \ {0} /\ Len(bodies[Sender]) \in Nat
    BY <1>3, WayTyped, EmptySeq, LenProperties
  <2>2. curFlag[Sender] + 1 \in 0 .. FlagLimit - 1
    BY <2>1, WayTyped, FiltersAssumption DEF FilterInv, Followed, Numbered, Few
  <2>3. QED
    BY <1>2, <2>2, FiltersAssumption DEF Flag
<1>7. PICK n \in Nat \ {0} : n = SliceNum(b.len)
  BY <1>5, <1>6, SlicesAre
<1>8. /\ Len(Slices(b, f)) = n /\ \A i \in 1 .. n : Slices(b, f)[i] = Slice(b, f, i - 1)
      /\ Slices(b, f) \in Seq(Packet)
  BY <1>5, <1>6, <1>7, SlicesAre
<1>9. \A i, j \in 1 .. n : Slice(b, f, i - 1) = Slice(b, f, j - 1) => i = j
  <2>1. ASSUME NEW i \in 1 .. n, NEW j \in 1 .. n, Slice(b, f, i - 1) = Slice(b, f, j - 1)
        PROVE  i = j
    <3>1. i - 1 = j - 1
      BY <2>1 DEF Slice
    <3>2. QED
      BY <3>1
  <2>2. QED
    BY <2>1
<1>10. Once(cutting'[Sender])
  BY <1>4, <1>8, <1>9 DEF Once
<1>11. Cut' = {Slice(b, f, i - 1) : i \in 1 .. n}
  <2>1. Range(Slices(b, f)) = {Slices(b, f)[i] : i \in 1 .. n}
    BY <1>8, RangeTyped
  <2>2. Cut' = Range(Slices(b, f))
    BY <1>4 DEF Cut
  <2>3. QED
    BY <1>8, <2>1, <2>2
<1>12. \A x \in Cut' : x.flag = f /\ x.piece.body = b
  BY <1>11 DEF Slice
<1>13. Cut = {}
  <2>1. 1 .. 0 = {}
    OBVIOUS
  <2>2. QED
    BY <1>3, <2>1, WayTyped, RangeTyped, EmptySeq DEF Cut
<1>14. Own' = Own /\ Sea' = Sea /\ Come' = Come /\ Kept' = Kept /\ Joins' = Joins /\ Done' = Done
       /\ Sent' = Sent /\ refused' = refused
  BY <1>3 DEF Own, Sea, Come, Kept, Joins, Done, Sent
<1>15. Way' = Way \cup Cut'
  BY <1>13, <1>14 DEF Way
<1>16. \A x \in Way : x.flag # f /\ x.piece.body # b
  <2>1. ASSUME NEW x \in Way PROVE x.flag # f
    <3>1. x.flag \in Nat
      BY WayTyped, PacketIs, FiltersAssumption DEF Flag
    <3>2. x.flag <= curFlag[Sender]
      BY DEF FilterInv, Followed, OneFlag
    <3>3. QED
      BY <1>6, <3>1, <3>2, WayTyped
  <2>2. ASSUME NEW x \in Way PROVE x.piece.body # b
    BY <1>5 DEF FilterInv, Followed, BodiesApart, Moving
  <2>3. QED
    BY <2>1, <2>2
<1>17. EachOnce'
  <2>1. Cut' \cap (Own \cup Sea \cup Come \cup Kept) = {}
    BY <1>12, <1>16 DEF Way
  <2>2. Apart(Cut', Own', Sea', Come', Kept')
    BY <1>14, <2>1 DEF FilterInv, EachOnce, Apart
  <2>3. QED
    BY <1>3, <1>10, <2>2 DEF FilterInv, EachOnce
<1>18. ByFlag'
  BY <1>3 DEF FilterInv, ByFlag
<1>19. Numbered'
  <2>1. Len(toFilter[Sender]) \in Nat /\ curFlag[Sender] \in Nat
    BY WayTyped, LenProperties
  <2>2. curFlag'[Sender] + Len(toFilter'[Sender]) = curFlag[Sender] + Len(toFilter[Sender])
    <3>1. PICK a \in Nat, l \in Nat : a = curFlag[Sender] /\ l = Len(toFilter[Sender])
      BY <2>1
    <3>2. curFlag'[Sender] = a + 1 /\ Len(toFilter'[Sender]) = l - 1
      BY <1>4, <1>5, <1>6, <3>1
    <3>3. QED
      BY <3>1, <3>2
  <2>3. bodies' = bodies
    BY <1>3
  <2>4. QED
    BY <2>2, <2>3 DEF FilterInv, Followed, Numbered
<1>20. OneFlag'
  <2>1. ASSUME NEW x \in Way' PROVE x.flag <= f
    <3>1. x \in Way \/ x.flag = f
      BY <1>12, <1>15
    <3>2. CASE x \in Way
      <4>1. x.flag \in Nat /\ x.flag <= curFlag[Sender]
        BY <3>2, WayTyped, PacketIs, FiltersAssumption DEF FilterInv, Followed, OneFlag, Flag
      <4>2. QED
        BY <1>6, <4>1, WayTyped
    <3>3. QED
      BY <1>6, <3>1, <3>2
  <2>2. ASSUME NEW x \in Way', NEW y \in Way'
        PROVE  x.flag = y.flag <=> x.piece.body = y.piece.body
    <3>1. CASE x \in Way /\ y \in Way
      BY <3>1 DEF FilterInv, Followed, OneFlag
    <3>2. CASE x \in Cut' \/ y \in Cut'
      BY <1>12, <1>15, <1>16, <3>2
    <3>3. QED
      BY <1>15, <3>1, <3>2
  <2>3. QED
    BY <1>4, <1>12, <2>1, <2>2 DEF OneFlag
<1>21. Moving' = Moving \cup {b}
  <2>1. Slice(b, f, 1 - 1) \in Cut'
    <3>1. 1 \in 1 .. n
      BY <1>7
    <3>2. QED
      BY <1>11, <3>1
  <2>2. QED
    BY <1>12, <1>15, <2>1 DEF Moving
<1>22. BodiesApart'
  <2>1. b \notin Moving \cup Done \cup refused /\ b \in Sent
    BY <1>5 DEF FilterInv, Followed, BodiesApart
  <2>2. QED
    BY <1>5, <1>12, <1>14, <1>21, <2>1 DEF FilterInv, Followed, BodiesApart
<1>23. Stopped'
  <2>1. ASSUME NEW c \in refused
        PROVE  \E i \in Indices(c) : \A x \in Way' : x.piece.body = c => x.index # i
    <3>1. c # b
      BY <1>5, <2>1 DEF FilterInv, Followed, BodiesApart
    <3>2. PICK i \in Indices(c) : \A x \in Way : x.piece.body = c => x.index # i
      BY <2>1 DEF FilterInv, Followed, Stopped
    <3>3. QED
      BY <1>12, <1>15, <3>1, <3>2
  <2>2. QED
    BY <1>14, <2>1 DEF Stopped, Indices
<1>24. AllThere'
  <2>1. ASSUME NEW c \in Sent \ (refused \cup Waiting' \cup Done), NEW i \in Indices(c)
        PROVE  \E x \in Way' : x.piece.body = c /\ x.index = i
    <3>1. CASE c = b
      <4>1. i \in 0 .. n - 1 /\ (i + 1) - 1 = i /\ i + 1 \in 1 .. n
        BY <1>7, <3>1 DEF Indices
      <4>2. Slice(b, f, (i + 1) - 1) \in Cut'
        BY <1>11, <4>1
      <4>3. Slice(b, f, i) \in Way'
        BY <1>15, <4>1, <4>2
      <4>4. Slice(b, f, i).piece.body = c /\ Slice(b, f, i).index = i
        BY <3>1 DEF Slice
      <4>5. QED
        BY <4>3, <4>4
    <3>2. CASE c # b
      <4>1. c \in Sent \ (refused \cup Waiting \cup Done)
        BY <1>5, <2>1, <3>2
      <4>2. QED
        BY <1>15, <2>1, <4>1 DEF FilterInv, Followed, AllThere
    <3>3. QED
      BY <3>1, <3>2
  <2>2. QED
    BY <1>14, <2>1 DEF AllThere, Indices
<1>25. OnceJoined'
  BY <1>3, <1>14 DEF FilterInv, Followed, OnceJoined
<1>26. QED
  BY <1>17, <1>18, <1>19, <1>20, <1>22, <1>23, <1>24, <1>25 DEF FilterInv, Followed

\* A refusal takes the rest of the body that is being cut off the way.
LEMMA RefusalFollowed ==
    ASSUME Alone, Short, Typed, FilterInv, SendSlice(Sender), Sender \in closed
    PROVE  /\ FilterInv'
           /\ \E b \in Sent \ (Done \cup refused) : refused' = refused \cup {b}
<1>1. PICK x : x = Head(cutting[Sender])
  OBVIOUS
<1>2. PICK b : b = x.piece.body
  OBVIOUS
<1>3. /\ cutting[Sender] # <<>>
      /\ cutting' = [cutting EXCEPT ![Sender] = <<>>]
      /\ refused' = refused \cup {b}
      /\ UNCHANGED <<bodies, toFilter, curFlag, toProcess, net, toRelieve, slices, toUpper,
                     received>>
  BY <1>1, <1>2 DEF SendSlice, recvVars
<1>4. cutting'[Sender] = <<>>
  BY <1>3, SenderIs DEF Typed, SendTypes
<1>5. x \in Cut /\ x \in Way
  BY <1>1, <1>3, WayTyped, OnceTail DEF Cut, Way
<1>6. x \in Packet /\ b \in Moving
  BY <1>2, <1>5, WayTyped DEF Moving
<1>7. Cut' = {} /\ Once(cutting'[Sender])
  <2>1. Range(<<>>) = {}
    <3>1. PICK s \in Seq(Packet) : s = <<>> /\ Len(s) = 0
      BY EmptySeq
    <3>2. 1 .. 0 = {}
      OBVIOUS
    <3>3. Range(s) = {s[i] : i \in 1 .. Len(s)}
      BY RangeTyped
    <3>4. QED
      BY <3>1, <3>2, <3>3
  <2>2. Once(<<>>)
    BY EmptySeq DEF Once
  <2>3. QED
    BY <1>4, <2>1, <2>2 DEF Cut
<1>8. Own' = Own /\ Sea' = Sea /\ Come' = Come /\ Kept' = Kept /\ Waiting' = Waiting
      /\ Joins' = Joins /\ Done' = Done /\ Sent' = Sent
  BY <1>3 DEF Own, Sea, Come, Kept, Waiting, Joins, Done, Sent
<1>9. Way' \subseteq Way /\ Way \subseteq Way' \cup Cut /\ Way' \cap Cut = {}
  BY <1>7, <1>8 DEF Way, FilterInv, EachOnce, Apart
<1>10. b \in Sent \ (Done \cup refused) /\ b \notin Waiting
  BY <1>2, <1>5, <1>6 DEF FilterInv, Followed, BodiesApart
<1>11. EachOnce'
  BY <1>3, <1>7, <1>8 DEF FilterInv, EachOnce, Apart
<1>12. ByFlag' /\ Numbered'
  BY <1>3 DEF FilterInv, Followed, ByFlag, Numbered
<1>13. OneFlag'
  BY <1>3, <1>7, <1>9 DEF FilterInv, Followed, OneFlag
<1>14. BodiesApart'
  <2>1. Moving' \subseteq Moving
    BY <1>9 DEF Moving
  <2>2. Once(toFilter'[Sender])
    BY <1>3 DEF FilterInv, Followed, BodiesApart
  <2>3. QED
    BY <1>3, <1>7, <1>8, <1>10, <2>1, <2>2 DEF FilterInv, Followed, BodiesApart
<1>15. Stopped'
  <2>1. ASSUME NEW c \in refused
        PROVE  \E i \in Indices(c) : \A y \in Way' : y.piece.body = c => y.index # i
    BY <1>9, <2>1 DEF FilterInv, Followed, Stopped
  <2>2. x.index \in Indices(b)
    BY <1>2, <1>6, PacketIs DEF Indices
  <2>3. ASSUME NEW y \in Way', y.piece.body = b PROVE y.index # x.index
    <3>1. y \in Way /\ y # x
      BY <1>5, <1>9, <2>3
    <3>2. OneFlag /\ Way \subseteq Packet
      BY WayTyped DEF FilterInv, Followed
    <3>3. QED
      BY <1>2, <1>5, <2>3, <3>1, <3>2, SameSlice
  <2>4. QED
    BY <1>3, <2>1, <2>2, <2>3 DEF Stopped, Indices
<1>16. AllThere'
  <2>1. ASSUME NEW c \in Sent \ (refused' \cup Waiting \cup Done), NEW i \in Indices(c)
        PROVE  \E y \in Way' : y.piece.body = c /\ y.index = i
    <3>1. PICK y \in Way : y.piece.body = c /\ y.index = i
      BY <1>3, <2>1 DEF FilterInv, Followed, AllThere
    <3>2. y \notin Cut
      <4>1. y.piece.body # x.piece.body
        BY <1>2, <1>3, <2>1, <3>1
      <4>2. y.flag # x.flag
        BY <1>5, <4>1 DEF FilterInv, Followed, OneFlag
      <4>3. QED
        BY <1>5, <4>2 DEF FilterInv, Followed, OneFlag
    <3>3. QED
      BY <1>9, <3>1, <3>2
  <2>2. QED
    BY <1>8, <2>1 DEF AllThere, Indices
<1>17. OnceJoined'
  BY <1>3, <1>8 DEF FilterInv, Followed, OnceJoined
<1>18. QED
  BY <1>3, <1>10, <1>11, <1>12, <1>13, <1>14, <1>15, <1>16, <1>17 DEF FilterInv, Followed

\* Nothing that is followed changes when the connection is closed or nothing happens.
LEMMA CloseFollowed ==
    ASSUME FilterInv,
           UNCHANGED <<bodies, toFilter, cutting, curFlag, toProcess, net, refused, recvVars>>
    PROVE  FilterInv'
<1>1. Cut' = Cut /\ Own' = Own /\ Sea' = Sea /\ Come' = Come /\ Kept' = Kept /\ Way' = Way
  BY DEF Cut, Own, Sea, Come, Kept, Way, recvVars
<1>2. EachOnce' /\ ByFlag'
  BY <1>1 DEF FilterInv, EachOnce, ByFlag, recvVars
<1>3. Followed'
  BY <1>1, FollowedSame DEF FilterInv, recvVars
<1>4. QED
  BY <1>2, <1>3 DEF FilterInv

\* What the receiver takes from its queue, and what it has of that body then.
LEMMA Relieved ==
    ASSUME Alone, Short, Typed, FilterInv, toRelieve # <<>>,
           NEW head, head = Last(toRelieve), NEW parts, parts = Append(slices[head.flag], head)
    PROVE  /\ head \in Come /\ head \in Way /\ head \in Packet /\ head.flag \in Flag
           /\ Front(toRelieve) \in Seq(Packet) /\ Once(Front(toRelieve))
           /\ Come = Range(Front(toRelieve)) \cup {head} /\ head \notin Range(Front(toRelieve))
           /\ parts \in Seq(Packet) /\ Once(parts) /\ parts # <<>>
           /\ Range(parts) = Range(slices[head.flag]) \cup {head} /\ Range(parts) \subseteq Way
           /\ \A x \in Range(parts) : /\ x.flag = head.flag /\ x.piece.body = head.piece.body
                                      /\ x.count = head.count
           /\ Len(parts) \in Nat /\ Len(parts) <= head.count
           /\ Len(parts) % FlagLimit = Len(parts)
<1>1. toRelieve \in Seq(Packet) /\ Once(toRelieve)
  BY WayTyped DEF FilterInv, EachOnce
<1>2. /\ head \in Packet /\ head \in Come
      /\ Front(toRelieve) \in Seq(Packet) /\ Once(Front(toRelieve))
      /\ Come = Range(Front(toRelieve)) \cup {head} /\ head \notin Range(Front(toRelieve))
  BY <1>1, OnceFront DEF Come
<1>3. head \in Way /\ head.flag \in Flag /\ head.count \in Flag /\ head.count \in Nat \ {0}
  BY <1>2, PacketIs DEF Way
<1>4. PICK kept \in Seq(Packet) : kept = slices[head.flag]
  BY <1>3, WayTyped
<1>5. Range(kept) \subseteq Kept /\ Once(kept) /\ head \notin Range(kept)
  <2>1. Range(kept) \subseteq Kept /\ Once(kept)
    BY <1>3, <1>4 DEF Kept, FilterInv, EachOnce
  <2>2. QED
    BY <1>2, <2>1 DEF FilterInv, EachOnce, Apart
<1>6. /\ parts \in Seq(Packet) /\ Once(parts) /\ parts # <<>>
      /\ Range(parts) = Range(kept) \cup {head} /\ Len(parts) = Len(kept) + 1
  BY <1>2, <1>4, <1>5, OnceAppend, AppendProperties
<1>7. Range(parts) \subseteq Way
  BY <1>3, <1>5, <1>6 DEF Way
<1>8. ASSUME NEW x \in Range(parts)
      PROVE  x.flag = head.flag /\ x.piece.body = head.piece.body /\ x.count = head.count
  <2>1. x.flag = head.flag
    BY <1>3, <1>4, <1>6 DEF FilterInv, ByFlag
  <2>2. x.piece.body = head.piece.body
    BY <1>3, <1>7, <2>1 DEF FilterInv, Followed, OneFlag
  <2>3. x \in Packet
    BY <1>7, WayTyped
  <2>4. QED
    BY <1>2, <2>1, <2>2, <2>3, PacketIs
<1>9. PICK n \in Nat : n = Len(kept)
  BY LenProperties
<1>10. n + 1 <= head.count
  <2>1. CASE n = 0
    BY <1>3, <2>1
  <2>2. CASE n # 0
    <3>1. 1 \in 1 .. n
      BY <2>2
    <3>2. kept[1] \in Range(kept)
      BY <1>9, <3>1, RangeTyped
    <3>3. n < kept[1].count
      BY <1>3, <1>4, <1>9, <3>2 DEF FilterInv, ByFlag
    <3>4. kept[1].count = head.count
      BY <1>6, <1>8, <3>2
    <3>5. QED
      BY <1>3, <3>3, <3>4
  <2>3. QED
    BY <2>1, <2>2
<1>11. (n + 1) % FlagLimit = n + 1
  <2>1. n + 1 \in 0 .. FlagLimit - 1
    BY <1>3, <1>10, FiltersAssumption DEF Flag
  <2>2. FlagLimit \in Nat \ {0}
    BY FiltersAssumption
  <2>3. QED
    BY <2>1, <2>2
<1>12. QED
  BY <1>2, <1>3, <1>4, <1>6, <1>7, <1>8, <1>9, <1>10, <1>11

\* A slice that does not complete its body goes into the map.
LEMMA CollectFollowed ==
    ASSUME Alone, Short, Typed, FilterInv, toRelieve # <<>>,
           NEW head, head = Last(toRelieve), NEW parts, parts = Append(slices[head.flag], head),
           ~ Complete(head, parts), slices' = [slices EXCEPT ![head.flag] = parts],
           toRelieve' = Front(toRelieve), UNCHANGED <<sendVars, toUpper, received>>
    PROVE  FilterInv'
<1>1. /\ slices \in [Flag -> Seq(Packet)] /\ head.flag \in Flag
      /\ slices'[head.flag] = parts
      /\ \A f \in Flag \ {head.flag} : slices'[f] = slices[f]
  BY Relieved DEF Typed, RecvTypes
<1>2. Come = Come' \cup {head} /\ head \notin Come' /\ Once(toRelieve')
  BY Relieved DEF Come
<1>3. Kept' = Kept \cup {head}
  <2>1. Range(parts) = Range(slices[head.flag]) \cup {head}
    BY Relieved
  <2>2. Kept' \subseteq Kept \cup {head}
    <3>1. ASSUME NEW f \in Flag PROVE Range(slices'[f]) \subseteq Range(slices[f]) \cup {head}
      BY <1>1, <2>1
    <3>2. QED
      BY <3>1 DEF Kept
  <2>3. Kept \cup {head} \subseteq Kept'
    <3>1. ASSUME NEW f \in Flag PROVE Range(slices[f]) \subseteq Range(slices'[f])
      BY <1>1, <2>1
    <3>2. head \in Range(slices'[head.flag])
      BY <1>1, <2>1
    <3>3. QED
      BY <1>1, <3>1, <3>2 DEF Kept
  <2>4. QED
    BY <2>2, <2>3
<1>4. Cut' = Cut /\ Own' = Own /\ Sea' = Sea
  BY DEF Cut, Own, Sea, sendVars
<1>5. EachOnce'
  <2>1. Apart(Cut', Own', Sea', Come', Kept')
    BY <1>2, <1>3, <1>4 DEF FilterInv, EachOnce, Apart
  <2>2. \A f \in Flag : Once(slices'[f])
    BY <1>1, Relieved DEF FilterInv, EachOnce
  <2>3. Once(cutting'[Sender]) /\ Once(toProcess'[Sender]) /\ Once(net'[Sender])
    BY DEF sendVars, FilterInv, EachOnce
  <2>4. QED
    BY <1>2, <2>1, <2>2, <2>3 DEF EachOnce
<1>6. ByFlag'
  <2>0. /\ head \in Packet /\ Len(parts) \in Nat /\ Len(parts) <= head.count
        /\ Len(parts) % FlagLimit = Len(parts)
    BY Relieved
  <2>r. \A x \in Range(parts) : x.flag = head.flag /\ x.count = head.count
    BY Relieved
  <2>1. ASSUME NEW x \in Range(parts) PROVE x.flag = head.flag /\ Len(parts) < x.count
    <3>1. head.count # Len(parts)
      BY <2>0 DEF Complete
    <3>2. head.count \in Nat
      BY <2>0, PacketIs
    <3>3. Len(parts) < head.count
      BY <2>0, <3>1, <3>2
    <3>4. QED
      BY <2>1, <2>r, <3>3
  <2>2. QED
    BY <1>1, <2>1 DEF FilterInv, ByFlag
<1>7. Way' = Way
  BY <1>2, <1>3, <1>4 DEF Way
<1>8. Followed'
  BY <1>4, <1>7, FollowedSame DEF FilterInv, sendVars
<1>9. QED
  BY <1>5, <1>6, <1>8 DEF FilterInv

\* A slice that completes its body takes all of it off the way, joined.
LEMMA JoinFollowed ==
    ASSUME Alone, Short, Typed, FilterInv, toRelieve # <<>>,
           NEW head, head = Last(toRelieve), NEW parts, parts = Append(slices[head.flag], head),
           Complete(head, parts), slices' = Erased(head.flag),
           toUpper' = Append(toUpper, Joined(parts)),
           toRelieve' = Front(toRelieve), UNCHANGED <<sendVars, received>>
    PROVE  FilterInv'
<1>1. /\ slices \in [Flag -> Seq(Packet)] /\ head.flag \in Flag
      /\ slices'[head.flag] = <<>>
      /\ \A f \in Flag \ {head.flag} : slices'[f] = slices[f]
  BY Relieved DEF Typed, RecvTypes, Erased
<1>2. PICK b \in Body : b = head.piece.body
  BY Relieved, PacketIs
<1>3. Len(parts) = SliceNum(b.len)
  BY <1>2, Relieved, PacketIs DEF Complete
<1>4. /\ \A i \in Indices(b) : \E x \in Range(parts) : x.index = i
      /\ Whole(Joined(parts), b) /\ Title(Joined(parts)) = b
      /\ Joined(parts) \in Seq(Piece)
  <2>1. /\ parts \in Seq(Packet) /\ Once(parts) /\ head.flag \in Flag
        /\ \A x \in Range(parts) : x.piece.body = head.piece.body /\ x.flag = head.flag
    BY Relieved
  <2>2. PICK f \in Flag : f = head.flag
    BY <2>1
  <2>3. \A x \in Range(parts) : x.piece.body = b /\ x.flag = f
    BY <1>2, <2>1, <2>2
  <2>4. \A i \in Indices(b) : \E x \in Range(parts) : x.index = i
    BY <1>3, <2>1, <2>3, AllPresent
  <2>5. Whole(Joined(parts), b) /\ Title(Joined(parts)) = b
    <3>1. \A q \in Seq(Packet), c \in Body, e \in Flag :
             /\ Once(q) /\ Len(q) = SliceNum(c.len)
             /\ \A x \in Range(q) : x.piece.body = c /\ x.flag = e
             => Whole(Joined(q), c) /\ Title(Joined(q)) = c
      BY JoinsWhole
    <3>2. /\ parts \in Seq(Packet) /\ b \in Body /\ f \in Flag
          /\ Once(parts) /\ Len(parts) = SliceNum(b.len)
          /\ \A x \in Range(parts) : x.piece.body = b /\ x.flag = f
      BY <1>3, <2>1, <2>3
    <3>3. Whole(Joined(parts), b)
      BY <3>1, <3>2
    <3>4. Title(Joined(parts)) = b
      BY <3>1, <3>2
    <3>5. QED
      BY <3>3, <3>4
  <2>6. Joined(parts) \in Seq(Piece)
    BY <2>1, JoinedIs
  <2>7. QED
    BY <2>4, <2>5, <2>6
<1>5. Range(slices'[head.flag]) = {}
  <2>1. PICK s \in Seq(Packet) : s = <<>> /\ Len(s) = 0
    BY EmptySeq
  <2>2. Range(s) = {s[i] : i \in 1 .. Len(s)} /\ 1 .. 0 = {}
    <3>1. 1 .. 0 = {}
      OBVIOUS
    <3>2. QED
      BY <3>1, RangeTyped
  <2>3. QED
    BY <1>1, <2>1, <2>2
<1>6. \A x \in Kept' : x \in Kept /\ x.flag # head.flag
  <2>1. ASSUME NEW f \in Flag, NEW x \in Range(slices'[f])
        PROVE  x \in Kept /\ x.flag # head.flag
    <3>1. f # head.flag /\ x \in Range(slices[f])
      BY <1>1, <1>5, <2>1
    <3>2. QED
      BY <3>1 DEF Kept, FilterInv, ByFlag
  <2>2. QED
    BY <2>1 DEF Kept
<1>7. \A x \in Kept : x.flag # head.flag => x \in Kept'
  <2>1. ASSUME NEW f \in Flag, NEW x \in Range(slices[f]), x.flag # head.flag PROVE x \in Kept'
    <3>1. f # head.flag
      BY <2>1 DEF FilterInv, ByFlag
    <3>2. x \in Range(slices'[f])
      BY <1>1, <2>1, <3>1
    <3>3. QED
      BY <3>2 DEF Kept
  <2>2. QED
    BY <2>1 DEF Kept
<1>8. Come = Come' \cup {head} /\ head \notin Come' /\ Once(toRelieve')
  BY Relieved DEF Come
<1>9. /\ Cut' = Cut /\ Own' = Own /\ Sea' = Sea
      /\ Waiting' = Waiting /\ Sent' = Sent /\ refused' = refused
  BY DEF Cut, Own, Sea, Waiting, Sent, sendVars
<1>10. Way' \subseteq Way /\ \A x \in Way : x.flag # head.flag => x \in Way'
  BY <1>6, <1>7, <1>8, <1>9 DEF Way
<1>11. \A x \in Range(parts) : x \notin Way'
  <2>1. ASSUME NEW x \in Range(parts) PROVE x \notin Way'
    <3>1. x.flag = head.flag /\ (x = head \/ x \in Range(slices[head.flag]))
      <4>1. /\ Range(parts) = Range(slices[head.flag]) \cup {head}
            /\ \A y \in Range(parts) : y.flag = head.flag
        BY Relieved
      <4>2. QED
        BY <2>1, <4>1, Zenon
    <3>2. x \notin Kept'
      BY <1>6, <3>1
    <3>3. x \in Come \/ x \in Kept
      BY <1>1, <1>8, <3>1 DEF Kept
    <3>4. x \notin Cut \cup Own \cup Sea
      BY <3>3 DEF FilterInv, EachOnce, Apart
    <3>5. x \notin Come'
      BY <1>1, <1>8, <3>1 DEF Kept, FilterInv, EachOnce, Apart
    <3>6. QED
      BY <1>9, <3>2, <3>4, <3>5 DEF Way
  <2>2. QED
    BY <2>1
<1>12. \A x \in Way' : x.piece.body # b
  <2>1. ASSUME NEW x \in Way', x.piece.body = b PROVE FALSE
    <3>1. x \in Way /\ x \in Packet /\ x.index \in Indices(b)
      BY <1>10, <2>1, WayTyped, PacketIs DEF Indices
    <3>2. PICK y \in Range(parts) : y.index = x.index
      BY <1>4, <3>1
    <3>3. y \in Way /\ y.piece.body = b
      BY <1>2, <3>2, Relieved
    <3>4. x = y
      <4>1. OneFlag /\ Way \subseteq Packet
        BY WayTyped DEF FilterInv, Followed
      <4>2. QED
        BY <2>1, <3>1, <3>2, <3>3, <4>1, SameSlice
    <3>5. QED
      BY <1>11, <2>1, <3>2, <3>4
  <2>2. QED
    BY <2>1
<1>13. b \in Moving /\ b \notin refused
  <2>1. head \in Way
    BY Relieved
  <2>2. ASSUME b \in refused PROVE FALSE
    <3>1. PICK i \in Indices(b) : \A x \in Way : x.piece.body = b => x.index # i
      BY <2>2 DEF FilterInv, Followed, Stopped
    <3>2. PICK x \in Range(parts) : x.index = i
      BY <1>4
    <3>3. x \in Way /\ x.piece.body = b
      BY <1>2, Relieved
    <3>4. QED
      BY <3>1, <3>2, <3>3
  <2>3. QED
    BY <1>2, <2>1, <2>2 DEF Moving
<1>14. b \notin Done /\ b \notin Waiting /\ b \in Sent
  BY <1>13 DEF FilterInv, Followed, BodiesApart
<1>15. PICK r \in Seq(Piece) : r = Joined(parts)
  BY <1>4
<1>16. Range(toUpper') = Range(toUpper) \cup {r} /\ (r \notin Range(toUpper) => Once(toUpper'))
  BY <1>15, OnceAppend DEF Typed, RecvTypes, FilterInv, Followed, OnceJoined
<1>17. Joins' = Joins \cup {r} /\ Done' = Done \cup {b}
  BY <1>4, <1>15, <1>16 DEF Joins, Done
<1>18. EachOnce'
  <2>1. Apart(Cut', Own', Sea', Come', Kept')
    BY <1>6, <1>8, <1>9 DEF FilterInv, EachOnce, Apart
  <2>2. \A f \in Flag : Once(slices'[f])
    <3>1. Once(<<>>)
      BY EmptySeq DEF Once
    <3>2. QED
      BY <1>1, <3>1 DEF FilterInv, EachOnce
  <2>3. Once(cutting'[Sender]) /\ Once(toProcess'[Sender]) /\ Once(net'[Sender])
    BY DEF sendVars, FilterInv, EachOnce
  <2>4. QED
    BY <1>8, <2>1, <2>2, <2>3 DEF EachOnce
<1>19. ByFlag'
  BY <1>1, <1>5 DEF FilterInv, ByFlag
<1>20. Numbered'
  BY DEF FilterInv, Followed, Numbered, sendVars
<1>21. OneFlag'
  BY <1>9, <1>10 DEF FilterInv, Followed, OneFlag, sendVars
<1>22. BodiesApart'
  <2>1. Moving' \subseteq Moving \ {b}
    BY <1>10, <1>12 DEF Moving
  <2>2. Once(toFilter'[Sender])
    BY DEF FilterInv, Followed, BodiesApart, sendVars
  <2>3. QED
    BY <1>9, <1>13, <1>14, <1>17, <2>1, <2>2 DEF FilterInv, Followed, BodiesApart
<1>23. Stopped'
  BY <1>9, <1>10 DEF FilterInv, Followed, Stopped, Indices
<1>24. AllThere'
  <2>1. ASSUME NEW c \in Sent \ (refused \cup Waiting \cup Done'), NEW i \in Indices(c)
        PROVE  \E x \in Way' : x.piece.body = c /\ x.index = i
    <3>1. PICK x \in Way : x.piece.body = c /\ x.index = i
      BY <1>17, <2>1 DEF FilterInv, Followed, AllThere
    <3>2. x.flag # head.flag
      <4>1. c # b /\ head \in Way
        BY <1>17, <2>1, Relieved
      <4>2. QED
        BY <1>2, <3>1, <4>1 DEF FilterInv, Followed, OneFlag
    <3>3. QED
      BY <1>10, <3>1, <3>2
  <2>2. QED
    BY <1>9, <2>1 DEF AllThere, Indices
<1>25. OnceJoined'
  <2>1. \A s \in Joins : Title(s) # b
    BY <1>14 DEF Done
  <2>2. r \notin Range(toUpper)
    BY <1>4, <1>15, <2>1 DEF Joins
  <2>3. Title(r) = b /\ Whole(r, Title(r))
    BY <1>4, <1>15
  <2>4. \A s \in Joins' : Whole(s, Title(s))
    BY <1>17, <2>3 DEF FilterInv, Followed, OnceJoined
  <2>5. \A s, t \in Range(toUpper') : Title(s) = Title(t) => s = t
    BY <1>16, <2>1, <2>3 DEF Joins, FilterInv, Followed, OnceJoined
  <2>6. \A s \in Range(toUpper'), t \in Range(received') : Title(s) # Title(t)
    BY <1>16, <2>1, <2>3 DEF Joins, FilterInv, Followed, OnceJoined
  <2>7. QED
    BY <1>16, <2>2, <2>4, <2>5, <2>6 DEF OnceJoined
<1>26. QED
  BY <1>18, <1>19, <1>20, <1>21, <1>22, <1>23, <1>24, <1>25 DEF FilterInv, Followed

\* The user receives a body that was joined and not received.
LEMMA ReceiveFollowed ==
    ASSUME Alone, Short, Typed, FilterInv, RecvMessageToUpper
    PROVE  /\ FilterInv'
           /\ \E r \in Seq(Piece) :
                 /\ received' = Append(received, r) /\ Whole(r, Title(r))
                 /\ Title(r) \in Sent \ refused /\ \A s \in Range(received) : Title(s) # Title(r)
<1>1. /\ toUpper # <<>> /\ toUpper \in Seq(Seq(Piece)) /\ received \in Seq(Seq(Piece))
      /\ Once(toUpper)
  BY DEF RecvMessageToUpper, Typed, RecvTypes, FilterInv, Followed, OnceJoined
<1>2. PICK r \in Seq(Piece) : r = Last(toUpper)
  BY <1>1, OnceFront
<1>3. /\ toUpper' = Front(toUpper) /\ received' = Append(received, r)
      /\ UNCHANGED <<sendVars, toRelieve, slices>>
  BY <1>2 DEF RecvMessageToUpper, Pop
<1>4. /\ Range(toUpper) = Range(toUpper') \cup {r} /\ r \notin Range(toUpper') /\ Once(toUpper')
      /\ r \in Range(toUpper)
  BY <1>1, <1>2, <1>3, OnceFront
<1>5. Range(received') = Range(received) \cup {r}
  BY <1>1, <1>3, OnceAppend
<1>6. Joins' = Joins /\ Done' = Done
  BY <1>4, <1>5 DEF Joins, Done
<1>7. /\ Cut' = Cut /\ Own' = Own /\ Sea' = Sea /\ Come' = Come /\ Kept' = Kept /\ Way' = Way
      /\ Waiting' = Waiting /\ Moving' = Moving /\ Sent' = Sent /\ refused' = refused
  BY <1>3 DEF Cut, Own, Sea, Come, Kept, Way, Waiting, Moving, Sent, sendVars
<1>8. EachOnce' /\ ByFlag'
  BY <1>3, <1>7 DEF FilterInv, EachOnce, ByFlag, sendVars
<1>9. Numbered' /\ OneFlag'
  BY <1>3, <1>7 DEF FilterInv, Followed, Numbered, OneFlag, sendVars
<1>10. BodiesApart'
  BY <1>3, <1>6, <1>7 DEF FilterInv, Followed, BodiesApart, sendVars
<1>11. Stopped' /\ AllThere'
  BY <1>6, <1>7 DEF FilterInv, Followed, Stopped, AllThere, Indices
<1>12. OnceJoined'
  <2>1. \A s, t \in Range(toUpper') : Title(s) = Title(t) => s = t
    BY <1>4 DEF FilterInv, Followed, OnceJoined
  <2>2. \A s \in Range(toUpper'), t \in Range(received') : Title(s) # Title(t)
    BY <1>4, <1>5 DEF FilterInv, Followed, OnceJoined
  <2>3. QED
    BY <1>4, <1>6, <2>1, <2>2 DEF FilterInv, Followed, OnceJoined
<1>13. /\ Whole(r, Title(r)) /\ Title(r) \in Sent \ refused
       /\ \A s \in Range(received) : Title(s) # Title(r)
  <2>1. r \in Joins /\ Title(r) \in Done
    BY <1>4 DEF Joins, Done
  <2>2. QED
    BY <1>4, <2>1 DEF FilterInv, Followed, OnceJoined, BodiesApart
<1>14. QED
  BY <1>3, <1>8, <1>9, <1>10, <1>11, <1>12, <1>13 DEF FilterInv, Followed

\* The receiver's filter thread takes a slice and keeps it or joins its body.
LEMMA RelieveFollowed ==
    ASSUME Alone, Short, Typed, FilterInv, RelieveFilterProcess
    PROVE  FilterInv' /\ UNCHANGED <<sendVars, received>>
<1> DEFINE head  == Last(toRelieve)
           parts == Append(slices[head.flag], head)
<1>1. /\ toRelieve # <<>> /\ toRelieve' = Front(toRelieve) /\ UNCHANGED <<sendVars, received>>
      /\ \/ /\ Complete(head, parts)
            /\ toUpper' = Append(toUpper, Joined(parts)) /\ slices' = Erased(head.flag)
         \/ /\ ~ Complete(head, parts)
            /\ slices' = [slices EXCEPT ![head.flag] = parts] /\ UNCHANGED toUpper
  BY DEF RelieveFilterProcess, Push, Pop
<1>2. CASE Complete(head, parts)
  <2>1. toUpper' = Append(toUpper, Joined(parts)) /\ slices' = Erased(head.flag)
    BY <1>1, <1>2
  <2>2. QED
    BY <1>1, <1>2, <2>1, JoinFollowed
<1>3. CASE ~ Complete(head, parts)
  <2>1. slices' = [slices EXCEPT ![head.flag] = parts] /\ UNCHANGED toUpper
    BY <1>1, <1>3
  <2>2. QED
    BY <1>1, <1>3, <2>1, CollectFollowed
<1>4. QED
  BY <1>2, <1>3, <1>1
-----------------------------------------------------------------------------
(* The courier.                                                              *)

Given == [i \in 1 .. Len(received) |-> Meant(received[i])]

\* A whole body is meant by its title.
LEMMA MeantIsTitle == ASSUME NEW r, Whole(r, Title(r)) PROVE Meant(r) = Title(r)
BY DEF Meant, Title

\* The courier has given what has been received.
LEMMA GivenIs ==
    ASSUME Typed, FilterInv
    PROVE  Range(Given) = {Title(r) : r \in Range(received)}
<1>1. PICK n \in Nat : n = Len(received)
  BY LenProperties DEF Typed, RecvTypes
<1>2. Range(received) = {received[i] : i \in 1 .. n}
  BY <1>1, RangeTyped DEF Typed, RecvTypes
<1>3. \A i \in 1 .. n : Meant(received[i]) = Title(received[i])
  <2>1. \A i \in 1 .. n : Whole(received[i], Title(received[i]))
    BY <1>2 DEF FilterInv, Followed, OnceJoined, Joins
  <2>2. QED
    BY <2>1, MeantIsTitle
<1>4. Range(Given) = {Meant(received[i]) : i \in 1 .. n}
  BY <1>1 DEF Given, Range
<1>5. QED
  BY <1>2, <1>3, <1>4

\* A step keeps the invariant and is a step of the courier, or nothing to it.
LEMMA StepFollowed ==
    ASSUME Alone, Short, Few, Typed, FilterInv, [Next]_vars
    PROVE  FilterInv' /\ [TheCourier!Next]_(TheCourier!courierVars)
<1>1. /\ Sender \in Peer /\ \A p \in Peer : p = Sender
  BY SenderIs
<1>2. ASSUME UNCHANGED <<bodies, received, refused>>
      PROVE  [TheCourier!Next]_(TheCourier!courierVars)
  BY <1>2 DEF TheCourier!courierVars, Sent
<1>3. CASE UNCHANGED vars \/ Close(Sender)
  <2>1. UNCHANGED <<bodies, toFilter, cutting, curFlag, toProcess, net, refused, recvVars>>
    BY <1>3 DEF vars, sendVars, Close
  <2>2. UNCHANGED <<bodies, received, refused>>
    BY <2>1 DEF recvVars
  <2>3. QED
    BY <1>2, <2>1, <2>2, CloseFollowed
<1>4. ASSUME NEW len \in Lengths, SendBody(Sender, len)
      PROVE  FilterInv' /\ TheCourier!Next
  <2>1. FilterInv' /\ (\E b \in Body \ Sent : Sent' = Sent \cup {b})
    BY <1>4, SendBodyFollowed
  <2>2. PICK b \in Body \ Sent : Sent' = Sent \cup {b}
    BY <2>1
  <2>3. UNCHANGED <<received, refused>>
    BY <1>4 DEF SendBody, recvVars
  <2>4. TheCourier!Take(b)
    BY <2>2, <2>3 DEF TheCourier!Take
  <2>5. QED
    BY <2>1, <2>4 DEF TheCourier!Next
<1>5. CASE FilterProcess(Sender) \/ Process(Sender) \/ Arrive(Sender)
           \/ (SendSlice(Sender) /\ Sender \notin closed)
  <2>1. UNCHANGED <<bodies, received, refused>>
    BY <1>5 DEF FilterProcess, Process, Arrive, SendSlice, recvVars
  <2>2. FilterInv'
    BY <1>5, CutFollowed, ProcessMoves, ArriveMoves, SendMoves
  <2>3. QED
    BY <1>2, <2>1, <2>2
<1>6. CASE SendSlice(Sender) /\ Sender \in closed
  <2>1. FilterInv' /\ \E b \in Sent \ (Done \cup refused) : refused' = refused \cup {b}
    BY <1>6, RefusalFollowed
  <2>2. PICK b \in Sent \ (Done \cup refused) : refused' = refused \cup {b}
    BY <2>1
  <2>3. b \in Body /\ b \in Sent \ (Range(Given) \cup refused)
    <3>1. Range(Given) \subseteq Done
      BY GivenIs DEF Done, Joins
    <3>2. QED
      BY <2>2, <3>1, WayTyped
  <2>4. UNCHANGED <<bodies, received>>
    BY <1>6 DEF SendSlice, recvVars
  <2>5. TheCourier!Return(b)
    BY <2>2, <2>3, <2>4 DEF TheCourier!Return, TheCourier!Range, Range, Given, Sent
  <2>6. QED
    BY <2>1, <2>3, <2>5 DEF TheCourier!Next
<1>7. CASE RelieveFilterProcess
  <2>1. FilterInv' /\ UNCHANGED <<sendVars, received>>
    BY <1>7, RelieveFollowed
  <2>2. UNCHANGED <<bodies, received, refused>>
    BY <2>1 DEF sendVars
  <2>3. QED
    BY <1>2, <2>1, <2>2
<1>8. CASE RecvMessageToUpper
  <2>1. FilterInv'
    BY <1>8, ReceiveFollowed
  <2>2. PICK r \in Seq(Piece) :
           /\ received' = Append(received, r) /\ Whole(r, Title(r))
           /\ Title(r) \in Sent \ refused /\ \A s \in Range(received) : Title(s) # Title(r)
    BY <1>8, ReceiveFollowed
  <2>3. PICK b \in Sent \ refused : b = Title(r)
    BY <2>2
  <2>4. b \in Body /\ b \in Sent \ (Range(Given) \cup refused)
    BY <2>2, <2>3, GivenIs, WayTyped
  <2>5. Given' = Append(Given, b)
    <3>1. PICK n \in Nat : n = Len(received)
      BY LenProperties DEF Typed, RecvTypes
    <3>2. /\ Len(received') = n + 1 /\ received'[n + 1] = r
          /\ \A i \in 1 .. n : received'[i] = received[i]
      BY <2>2, <3>1, AppendProperties DEF Typed, RecvTypes
    <3>3. Given' = [i \in 1 .. n + 1 |-> Meant(received'[i])]
      BY <3>2 DEF Given
    <3>4. Given = [i \in 1 .. n |-> Meant(received[i])]
      BY <3>1 DEF Given
    <3>5. Meant(r) = b
      BY <2>2, <2>3, MeantIsTitle
    <3> DEFINE T == {Meant(received[i]) : i \in 1 .. n} \cup {b}
    <3>6. Given \in Seq(T) /\ Given' \in Seq(T)
      <4>1. \A i \in 1 .. n + 1 : Meant(received'[i]) \in T
        BY <3>2, <3>5
      <4>2. Given \in [1 .. n -> T] /\ Given' \in [1 .. n + 1 -> T]
        BY <3>3, <3>4, <4>1
      <4>3. n \in Nat /\ n + 1 \in Nat
        OBVIOUS
      <4>4. \A S : Seq(S) = UNION {[1 .. k -> S] : k \in Nat}
        BY SeqDef
      <4>5. Seq(T) = UNION {[1 .. k -> T] : k \in Nat}
        BY <4>4, Zenon
      <4> HIDE DEF T
      <4>6. QED
        BY <4>2, <4>3, <4>5, Zenon
    <3>7. Len(Given) = n /\ Len(Given') = n + 1
      <4>1. /\ Len(Given) \in Nat /\ 1 .. Len(Given) = 1 .. n
            /\ Len(Given') \in Nat /\ 1 .. Len(Given') = 1 .. n + 1
        <5> HIDE DEF T
        <5>1. DOMAIN Given = 1 .. n /\ DOMAIN Given' = 1 .. n + 1
          BY <3>3, <3>4
        <5>2. QED
          BY <3>6, <5>1, LenProperties
      <4>2. QED
        BY <4>1
    <3>8. QED
      <4>1. /\ Append(Given, b) \in Seq(T) /\ Len(Append(Given, b)) = n + 1
            /\ \A i \in 1 .. n : Append(Given, b)[i] = Given[i]
            /\ Append(Given, b)[n + 1] = b
        <5>1. b \in T
          OBVIOUS
        <5> HIDE DEF T
        <5>2. QED
          BY <3>6, <3>7, <5>1, AppendProperties
      <4>2. ASSUME NEW i \in 1 .. n + 1 PROVE Given'[i] = Append(Given, b)[i]
        <5>1. CASE i = n + 1
          BY <3>2, <3>3, <3>5, <4>1, <5>1
        <5>2. CASE i \in 1 .. n
          BY <3>2, <3>3, <3>4, <4>1, <5>2
        <5>3. i = n + 1 \/ i \in 1 .. n
          OBVIOUS
        <5>4. QED
          BY <5>1, <5>2, <5>3
      <4> HIDE DEF T
      <4>3. QED
        BY <3>6, <3>7, <4>1, <4>2, SeqEqual
  <2>6. UNCHANGED <<bodies, refused>>
    BY <1>8 DEF RecvMessageToUpper, sendVars
  <2>7. TheCourier!Give(b)
    <3>1. [i \in 1 .. Len(received') |-> Meant(received'[i])]
             = Append([i \in 1 .. Len(received) |-> Meant(received[i])], b)
      BY <2>5 DEF Given
    <3>2. UNCHANGED <<Sent, refused>>
      BY <2>6 DEF Sent
    <3>3. TheCourier!Range(Given) = Range(Given)
      BY DEF TheCourier!Range, Range
    <3>4. b \in Sent \ (TheCourier!Range([i \in 1 .. Len(received) |-> Meant(received[i])])
                          \cup refused)
      BY <2>4, <3>3 DEF Given
    <3>5. QED
      BY <3>1, <3>2, <3>4 DEF TheCourier!Give
  <2>8. QED
    BY <2>1, <2>4, <2>7 DEF TheCourier!Next
<1>9. QED
  BY <1>1, <1>3, <1>4, <1>5, <1>6, <1>7, <1>8 DEF Next, Threads
-----------------------------------------------------------------------------
(* What holds of one peer.                                                   *)

\* The empty sequence holds nothing, and that once.
LEMMA OfNothing == Once(<<>>) /\ Range(<<>>) = {}
<1>1. 1 .. 0 = {}
  OBVIOUS
<1>2. PICK s \in Seq({}) : s = <<>> /\ Len(s) = 0
  BY EmptySeq
<1>3. QED
  BY <1>1, <1>2, RangeTyped DEF Once

\* At first there is nothing anywhere.
LEMMA FilterInvInit == ASSUME Alone, Init PROVE FilterInv
<1>1. /\ bodies[Sender] = <<>> /\ toFilter[Sender] = <<>> /\ cutting[Sender] = <<>>
      /\ toProcess[Sender] = <<>> /\ net[Sender] = <<>> /\ curFlag[Sender] = 0
      /\ toRelieve = <<>> /\ toUpper = <<>> /\ received = <<>> /\ refused = {}
      /\ \A f \in Flag : slices[f] = <<>>
  BY SenderIs DEF Init
<1>2. Cut = {} /\ Own = {} /\ Sea = {} /\ Come = {} /\ Kept = {}
  BY <1>1, OfNothing DEF Cut, Own, Sea, Come, Kept
<1>3. Way = {} /\ Waiting = {} /\ Moving = {} /\ Joins = {} /\ Done = {}
  BY <1>1, <1>2, OfNothing DEF Way, Waiting, Moving, Joins, Done
<1>4. Sent = {}
  BY <1>1, OfNothing, SenderIs DEF Sent
<1>5. EachOnce /\ ByFlag
  BY <1>1, <1>2, OfNothing DEF EachOnce, Apart, ByFlag
<1>6. Numbered
  <2>1. Len(bodies[Sender]) = 0 /\ Len(toFilter[Sender]) = 0
    BY <1>1, EmptySeq
  <2>2. 1 .. 0 = {} /\ 0 + 0 = 0 /\ 0 <= MaxBodies
    BY FiltersAssumption
  <2>3. QED
    BY <1>1, <2>1, <2>2 DEF Numbered
<1>7. OneFlag /\ BodiesApart /\ Stopped /\ AllThere
  BY <1>1, <1>2, <1>3, <1>4, OfNothing DEF OneFlag, BodiesApart, Stopped, AllThere
<1>8. OnceJoined
  BY <1>1, <1>3, OfNothing DEF OnceJoined
<1>9. QED
  BY <1>5, <1>6, <1>7, <1>8 DEF FilterInv, Followed

\* When nothing is on its way to the map, and a body is in it that was not stopped,
\* all slices of the body are, which is more than the map keeps.
LEMMA LeftBehindFollows == ASSUME Alone, Short, Typed, FilterInv PROVE LeftBehind
<1> SUFFICES ASSUME AtRest, NEW f \in Flag, NEW s \in Range(slices[f]),
                    s.piece.body \notin refused
             PROVE  FALSE
  BY DEF LeftBehind
<1>1. Way = Kept
  <2>1. /\ cutting[Sender] = <<>> /\ toProcess[Sender] = <<>> /\ net[Sender] = <<>>
        /\ toRelieve = <<>>
    BY SenderIs DEF AtRest
  <2>2. QED
    BY <2>1, OfNothing DEF Way, Cut, Own, Sea, Come
<1>2. PICK kept \in Seq(Packet) : kept = slices[f]
  BY WayTyped
<1>3. s \in Way /\ s \in Packet
  BY <1>1, WayTyped DEF Kept
<1>4. PICK b \in Body : b = s.piece.body
  BY <1>3, PacketIs
<1>5. b \in Sent \ (refused \cup Waiting \cup Done)
  <2>1. b \in Moving
    BY <1>3, <1>4 DEF Moving
  <2>2. QED
    BY <1>4, <2>1 DEF FilterInv, Followed, BodiesApart
<1>6. PICK n \in Nat \ {0} : n = SliceNum(b.len) /\ n = s.count
  BY <1>3, <1>4, PacketIs
<1>7. PICK m \in Nat : m = Len(kept)
  BY LenProperties
<1>8. m < n
  BY <1>2, <1>6, <1>7 DEF FilterInv, ByFlag
<1>9. ASSUME NEW i \in 0 .. n - 1 PROVE \E k \in 1 .. m : kept[k].index = i
  <2>1. i \in Indices(b)
    BY <1>6 DEF Indices
  <2>2. PICK x \in Way : x.piece.body = b /\ x.index = i
    BY <1>5, <2>1 DEF FilterInv, Followed, AllThere
  <2>3. x.flag = f
    <3>1. x.flag = s.flag
      BY <1>3, <1>4, <2>2 DEF FilterInv, Followed, OneFlag
    <3>2. s.flag = f
      BY DEF FilterInv, ByFlag
    <3>3. QED
      BY <3>1, <3>2
  <2>4. x \in Range(kept)
    BY <1>1, <1>2, <2>3 DEF Kept, FilterInv, ByFlag
  <2>5. QED
    BY <1>7, <2>2, <2>4, RangeTyped
<1>10. ASSUME NEW k \in 1 .. m PROVE kept[k].index \in 0 .. n - 1
  <2>1. kept[k] \in Range(kept)
    BY <1>7, RangeTyped
  <2>2. kept[k] \in Way /\ kept[k] \in Packet
    BY <1>1, <1>2, <2>1, WayTyped DEF Kept
  <2>3. kept[k].piece.body = b
    BY <1>2, <1>3, <1>4, <2>1, <2>2 DEF FilterInv, ByFlag, Followed, OneFlag
  <2>4. QED
    BY <1>6, <2>2, <2>3, PacketIs
<1> DEFINE g == [k \in 1 .. m |-> kept[k].index]
<1>11. g \in Surjection(1 .. m, 0 .. n - 1)
  BY <1>9, <1>10 DEF Surjection
<1>12. /\ IsFiniteSet(1 .. m) /\ Cardinality(1 .. m) = m
       /\ IsFiniteSet(0 .. n - 1) /\ Cardinality(0 .. n - 1) = n
  BY CountOfSegment
<1> HIDE DEF g
<1>13. n <= m
  BY <1>11, <1>12, FS_Surjection
<1>14. QED
  BY <1>8, <1>13

\* The inductive invariant of one peer holds in every reachable state.
LEMMA FilterInvCorrect == ASSUME Alone, Short, Few PROVE Spec => [](Typed /\ FilterInv)
<1>1. Init => Typed /\ FilterInv
  BY InitTyped, FilterInvInit
<1>2. Typed /\ FilterInv /\ [Next]_vars => (Typed /\ FilterInv)'
  BY TypedKept, StepFollowed
<1>3. QED
  BY <1>1, <1>2, PTL DEF Spec

\* What one peer leaves in the map for ever belongs to bodies that Close stopped:
\* no mixing of slices, in whatever order the queues give them, loses a body.
THEOREM StoppedIsLeftBehind == ASSUME Alone, Short, Few PROVE Spec => []LeftBehind
<1>1. Typed /\ FilterInv => LeftBehind
  BY LeftBehindFollows
<1>2. QED
  BY <1>1, FilterInvCorrect, PTL

\* The chain of filters of one peer implements the courier: it gives every body
\* whole, once, and never one that was stopped.
THEOREM FiltersAreACourier == ASSUME Alone, Short, Few PROVE Spec => ImplementsCourier
<1>1. Init => TheCourier!Init
  <2>1. ASSUME Init PROVE TheCourier!Init
    <3>1. Sent = {}
      BY <2>1, OfNothing, SenderIs DEF Init, Sent
    <3>2. Given = <<>>
      BY <2>1, EmptySeq DEF Init, Given
    <3>3. QED
      BY <2>1, <3>1, <3>2 DEF Init, TheCourier!Init, Given
  <2>2. QED
    BY <2>1
<1>2. Typed /\ FilterInv /\ [Next]_vars => [TheCourier!Next]_(TheCourier!courierVars)
  BY StepFollowed
<1>3. QED
  BY <1>1, <1>2, FilterInvCorrect, PTL DEF Spec, ImplementsCourier, TheCourier!Spec
=============================================================================
