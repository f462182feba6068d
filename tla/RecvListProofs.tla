--------------------------- MODULE RecvListProofs ---------------------------
(***************************************************************************)
(* Proofs about RecvList: what the three receive lists pass up, for every   *)
(* size of the id space, of the cache and of the window of comparison, and  *)
(* for any number of messages and of copies of them.                        *)
(***************************************************************************)
EXTENDS RecvList, FiniteLemmas, SequenceTheorems, TLAPS

-----------------------------------------------------------------------------
(* Ids and slots.                                                          *)

\* A message's id is in a nonempty id space that the cache divides, so that the
\* cache, and with it the window of comparison, is no larger.
LEMMA Sizes ==
    ASSUME firstId \in FirstIds
    PROVE  /\ IdSpace \in Nat \ {0} /\ CacheSize \in Nat \ {0} /\ firstId \in Nat
           /\ CacheSize <= IdSpace /\ MaxCompare \in Nat /\ MaxCompare < CacheSize
<1>1. firstId \in 0 .. IdSpace - 1 /\ IdSpace \in Nat /\ CacheSize \in Nat \ {0}
  BY RecvListAssumption DEF Ids
<1>2. PICK c \in Int : IdSpace = c * CacheSize
  <2>0. IdSpace \in Int
    BY <1>1
  <2>1. PICK c \in Int : IdSpace = c * CacheSize + (IdSpace % CacheSize)
    BY <1>1, <2>0, DivMod, Zenon
  <2>2. PICK p \in Int : p = c * CacheSize
    BY <1>1
  <2>3. IdSpace % CacheSize = 0
    BY RecvListAssumption
  <2>4. QED
    BY <2>1, <2>2, <2>3
<1>3. c >= 1
  <2>1. ASSUME c <= 0 PROVE FALSE
    <3>1. c * CacheSize <= 0
      BY <1>1, <2>1
    <3>2. QED
      BY <1>1, <1>2, <3>1
  <2>2. QED
    BY <2>1
<1>4. c * CacheSize >= CacheSize
  BY <1>1, <1>3
<1>5. QED
  BY <1>1, <1>2, <1>4, RecvListAssumption

\* An id is an id, and its slot, counted from the first id, a slot.
LEMMA IdAndSlot ==
    ASSUME firstId \in FirstIds, NEW n \in Nat
    PROVE  /\ Id(n) \in Ids /\ Id(n) \in Nat
           /\ Hash(Id(n)) \in Slots
           /\ Hash(Id(n)) = (firstId + n - 1) % CacheSize
<1>1. firstId + n - 1 \in Int /\ IdSpace \in Nat \ {0} /\ CacheSize \in Nat \ {0}
  BY Sizes
<1>2. Id(n) \in 0 .. IdSpace - 1
  BY <1>1 DEF Id
<1>3. Hash(Id(n)) = (firstId + n - 1) % CacheSize
  <2>1. IdSpace % CacheSize = 0
    BY RecvListAssumption
  <2>2. ((firstId + n - 1) % IdSpace) % CacheSize = (firstId + n - 1) % CacheSize
    BY <1>1, <2>1, ModOfMod, Zenon
  <2>3. QED
    BY <2>2 DEF Hash, Id
<1>4. (firstId + n - 1) % CacheSize \in 0 .. CacheSize - 1
  BY <1>1
<1>5. QED
  BY <1>2, <1>3, <1>4 DEF Ids, Slots

\* Messages less than a turn of the ids apart have different ids.
LEMMA IdsDiffer ==
    ASSUME firstId \in FirstIds, NEW x \in Nat, NEW y \in Nat, Id(x) = Id(y),
           x - y < IdSpace, y - x < IdSpace
    PROVE  x = y
<1> DEFINE a == firstId + x - 1
           b == firstId + y - 1
<1>1. a \in Int /\ b \in Int /\ IdSpace \in Nat \ {0}
  BY Sizes
<1>2. a % IdSpace = b % IdSpace
  BY DEF Id
<1>3. a - b < IdSpace /\ b - a < IdSpace
  BY Sizes
<1>4. a = b
  <2> HIDE DEF a, b
  <2>1. QED
    BY <1>1, <1>2, <1>3, SameMod
<1>5. QED
  BY <1>4, Sizes

\* Messages less than a turn of the cache apart have different slots.
LEMMA SlotsDiffer ==
    ASSUME firstId \in FirstIds, NEW x \in Nat, NEW y \in Nat,
           Hash(Id(x)) = Hash(Id(y)), x - y < CacheSize, y - x < CacheSize
    PROVE  x = y
<1> DEFINE a == firstId + x - 1
           b == firstId + y - 1
<1>1. a \in Int /\ b \in Int /\ CacheSize \in Nat \ {0}
  BY Sizes
<1>2. a % CacheSize = b % CacheSize
  BY IdAndSlot
<1>3. a - b < CacheSize /\ b - a < CacheSize
  BY Sizes
<1>4. a = b
  <2> HIDE DEF a, b
  <2>1. QED
    BY <1>1, <1>2, <1>3, SameMod
<1>5. QED
  BY <1>4, Sizes

\* The expected id after len more messages, and the slots on from one.
LEMMA IdAfter ==
    ASSUME firstId \in FirstIds, NEW n \in Nat, NEW len \in Nat
    PROVE  /\ After(Id(n), len) = Id(n + len)
           /\ Hash(Id(n + len)) = (Hash(Id(n)) + len) % CacheSize
<1> DEFINE a == firstId + n - 1
<1>1. a \in Int /\ len \in Int /\ IdSpace \in Nat \ {0} /\ CacheSize \in Nat \ {0}
  BY Sizes
<1>2. firstId + (n + len) - 1 = a + len
  BY Sizes
<1> HIDE DEF a
<1>3. ((a % IdSpace) + len) % IdSpace = (a + len) % IdSpace
  BY <1>1, ModAdd
<1>4. ((a % CacheSize) + len) % CacheSize = (a + len) % CacheSize
  BY <1>1, ModAdd
<1>5. Id(n) = a % IdSpace /\ Id(n + len) = (a + len) % IdSpace
  BY <1>2 DEF Id, a
<1>6. Hash(Id(n)) = a % CacheSize
  BY IdAndSlot DEF a
<1>7. Hash(Id(n + len)) = (a + len) % CacheSize
  <2>1. n + len \in Nat
    OBVIOUS
  <2>2. QED
    BY <1>2, <2>1, IdAndSlot
<1>8. QED
  BY <1>3, <1>4, <1>5, <1>6, <1>7 DEF After

\* A slot other than the expected one is that of every message that is neither
\* too far nor the expected one; the expected message is never too far.
LEMMA NearSlots ==
    ASSUME firstId \in FirstIds, NEW n \in Nat, Expected(n) \in Ids
    PROVE  /\ Id(n) = Expected(n) => ~ TooFar(n)
           /\ ~ TooFar(n) /\ Id(n) # Expected(n) => Hash(Id(n)) # Hash(Expected(n))
<1>0. PICK e \in Nat : e = Expected(n) /\ e < IdSpace
  BY Sizes DEF Ids
<1>1. PICK i \in Nat : i = Id(n) /\ i < IdSpace
  BY IdAndSlot, Sizes DEF Ids
<1>2. TooFar(n) <=> \/ i - e > MaxCompare \/ e - i > MaxCompare
                    \/ e > IdSpace - 1 - MaxCompare \div 2 /\ i < MaxCompare \div 2
  BY <1>0, <1>1 DEF TooFar
<1>3. MaxCompare \div 2 \in Nat /\ 2 * (MaxCompare \div 2) <= MaxCompare
  BY Sizes
<1>4. ASSUME i = e PROVE ~ TooFar(n)
  BY <1>2, <1>3, <1>4, Sizes
<1>5. ASSUME ~ TooFar(n), i # e PROVE Hash(i) # Hash(e)
  <2>1. i - e < CacheSize /\ e - i < CacheSize
    BY <1>2, <1>5, Sizes
  <2>2. i % CacheSize # e % CacheSize
    BY <1>5, <2>1, SameMod, Sizes
  <2>3. QED
    BY <2>2 DEF Hash
<1>6. QED
  BY <1>0, <1>1, <1>4, <1>5

\* RunLength is how many slots from a filled one on are filled.
LEMMA RunLengthIs ==
    ASSUME NEW f, NEW h \in Slots, f[h] # Null
    PROVE  /\ RunLength(f, h) \in 1 .. CacheSize
           /\ \A i \in 0 .. RunLength(f, h) - 1 : f[(h + i) % CacheSize] # Null
           /\ \/ RunLength(f, h) = CacheSize
              \/ f[(h + RunLength(f, h)) % CacheSize] = Null
<1> DEFINE P(k) == /\ \A i \in 0 .. k - 1 : f[(h + i) % CacheSize] # Null
                   /\ k = CacheSize \/ f[(h + k) % CacheSize] = Null
           S == {k \in 1 .. CacheSize - 1 : f[(h + k) % CacheSize] = Null}
<1>1. CacheSize \in Nat \ {0}
  BY RecvListAssumption
<1>2. f[(h + 0) % CacheSize] # Null
  <2>1. (h + 0) % CacheSize = h
    BY <1>1 DEF Slots
  <2>2. QED
    BY <2>1
<1>3. \E k \in 1 .. CacheSize : P(k)
  <2>1. CASE S = {}
    <3>1. \A i \in 1 .. CacheSize - 1 : f[(h + i) % CacheSize] # Null
      BY <2>1
    <3>2. P(CacheSize)
      BY <1>1, <1>2, <3>1
    <3>3. QED
      BY <1>1, <3>2
  <2>2. CASE S # {}
    <3>1. IsFiniteSet(S) /\ S \subseteq Int
      <4>1. IsFiniteSet(1 .. CacheSize - 1)
        BY <1>1, FS_Interval
      <4>2. S \in SUBSET (1 .. CacheSize - 1)
        OBVIOUS
      <4>3. S \subseteq Int
        BY <1>1
      <4> HIDE DEF S
      <4>4. QED
        BY <4>1, <4>2, <4>3, FS_Subset
    <3>2. Min(S) \in S /\ \A y \in S : Min(S) <= y
      <4> HIDE DEF S
      <4>1. QED
        BY <2>2, <3>1, MinIsLeast
    <3>3. PICK k \in 1 .. CacheSize - 1 :
             f[(h + k) % CacheSize] = Null /\ \A y \in S : k <= y
      BY <3>2
    <3>4. ASSUME NEW i \in 0 .. k - 1 PROVE f[(h + i) % CacheSize] # Null
      <4>1. CASE i = 0
        BY <1>2, <4>1
      <4>2. CASE i # 0
        <5>1. i \in 1 .. CacheSize - 1 /\ ~ (k <= i)
          BY <1>1, <4>2
        <5>2. QED
          BY <3>3, <5>1
      <4>3. QED
        BY <4>1, <4>2
    <3>5. P(k)
      BY <3>3, <3>4
    <3>6. QED
      BY <1>1, <3>5
  <2>3. QED
    BY <2>1, <2>2
<1>4. RunLength(f, h) = CHOOSE k \in 1 .. CacheSize : P(k)
  BY DEF RunLength
<1> HIDE DEF P
<1>5. RunLength(f, h) \in 1 .. CacheSize /\ P(RunLength(f, h))
  BY <1>3, <1>4
<1>6. QED
  BY <1>5 DEF P
-----------------------------------------------------------------------------
(* The types.                                                              *)

\* Message n arrives at the slot h, is put there, which makes the slots full, and
\* the run of len messages from it on is passed up.
Takes(n, len, h, run, full) ==
    /\ h = Hash(Id(n)) /\ full = [slot EXCEPT ![h] = n]
    /\ Len(run) = len /\ delivered' = delivered \o run
    /\ \A i \in 1 .. len : run[i] = full[(h + i - 1) % CacheSize]
    /\ len = CacheSize \/ full[(h + len) % CacheSize] = Null
    /\ slot' \in [Slots -> Numbers \cup {Null}]
    /\ \A s \in Slots : slot'[s] =
          IF \E i \in 1 .. len : s = (h + i - 1) % CacheSize THEN Null ELSE full[s]
    /\ expect' = After(Id(n), len)

\* The arrival of the expected message: it is put in its slot, the filled slots
\* from it on are passed up in order and emptied, up to an empty one or all
\* around.
LEMMA TakeRun ==
    ASSUME TypeOK, NEW n \in Numbers, InsertReliableOrderly(n),
           ~ TooFar(n), Id(n) = Expected(n)
    PROVE  \E len \in 1 .. CacheSize, h \in Slots, run \in Seq(Numbers) :
             \E full \in [Slots -> Numbers \cup {Null}] :
               Takes(n, len, h, run, full)
<1>1. PICK h \in Slots : h = Hash(Id(n))
  BY IdAndSlot DEF TypeOK, Numbers
<1>2. PICK full \in [Slots -> Numbers \cup {Null}] : full = [slot EXCEPT ![h] = n]
  BY DEF TypeOK
<1>3. full[h] = n /\ n # Null
  BY <1>2 DEF TypeOK, Numbers, Null
<1>4. PICK len \in 1 .. CacheSize :
        /\ len = RunLength(full, h)
        /\ \A i \in 0 .. len - 1 : full[(h + i) % CacheSize] # Null
        /\ len = CacheSize \/ full[(h + len) % CacheSize] = Null
  BY <1>3, RunLengthIs
<1> DEFINE turn == [i \in 1 .. len |-> (h + i - 1) % CacheSize]
           run  == [i \in 1 .. len |-> full[turn[i]]]
<1>5. /\ delivered' = delivered \o run
      /\ slot' = [s \in Slots |-> IF s \in ToSet(turn) THEN Null ELSE full[s]]
      /\ expect' = After(Expected(n), len)
  <2> DEFINE Taken(f, k, t) ==
               /\ delivered' = delivered \o [i \in 1 .. k |-> f[t[i]]]
               /\ slot' = [s \in Slots |-> IF s \in ToSet(t) THEN Null ELSE f[s]]
               /\ expect' = After(Expected(n), k)
  <2>1. Taken([slot EXCEPT ![Hash(Id(n))] = n],
              RunLength([slot EXCEPT ![Hash(Id(n))] = n], Hash(Id(n))),
              [i \in 1 .. RunLength([slot EXCEPT ![Hash(Id(n))] = n], Hash(Id(n))) |->
                 (Hash(Id(n)) + i - 1) % CacheSize])
    BY DEF InsertReliableOrderly
  <2>2. Taken(full, RunLength(full, h),
              [i \in 1 .. RunLength(full, h) |-> (h + i - 1) % CacheSize])
    <3> HIDE DEF Taken
    <3>1. QED
      BY <1>1, <1>2, <2>1
  <2>3. Taken(full, len, turn)
    <3> HIDE DEF Taken
    <3>1. QED
      BY <1>4, <2>2
  <2>4. QED
    BY <2>3
<1>6. CacheSize \in Nat \ {0} /\ h \in Nat /\ len \in Nat
  BY RecvListAssumption DEF Slots
<1>7. \A i \in 1 .. len : (h + i - 1) % CacheSize \in Slots
  BY <1>6 DEF Slots
<1>8. \A i \in 1 .. len : turn[i] \in Slots /\ run[i] = full[(h + i - 1) % CacheSize]
  BY <1>7
<1>9. \A i \in 1 .. len : run[i] \in Numbers
  <2>1. ASSUME NEW i \in 1 .. len PROVE full[(h + i - 1) % CacheSize] \in Numbers
    <3>1. i - 1 \in 0 .. len - 1 /\ h + i - 1 = h + (i - 1)
      BY <1>6
    <3>2. full[(h + i - 1) % CacheSize] # Null
      BY <1>4, <3>1
    <3>3. QED
      BY <1>7, <3>2
  <2>2. QED
    BY <1>8, <2>1
<1>10. run \in Seq(Numbers) /\ Len(run) = len
  <2>1. run \in [1 .. len -> Numbers]
    BY <1>9
  <2>2. run \in Seq(Numbers)
    BY <1>6, <2>1, SeqDef
  <2>3. DOMAIN run = 1 .. len
    OBVIOUS
  <2> HIDE DEF run
  <2>4. QED
    BY <1>6, <2>2, <2>3, LenProperties
<1>11. \A s \in Slots : s \in ToSet(turn) <=> \E i \in 1 .. len : s = (h + i - 1) % CacheSize
  BY DEF ToSet
<1> HIDE DEF run
<1>12. /\ slot' \in [Slots -> Numbers \cup {Null}]
       /\ \A s \in Slots : slot'[s] = IF \E i \in 1 .. len : s = (h + i - 1) % CacheSize
                                      THEN Null ELSE full[s]
  BY <1>5, <1>11
<1>13. \A i \in 1 .. len : run[i] = full[(h + i - 1) % CacheSize]
  BY <1>8
<1>14. expect' = After(Id(n), len)
  BY <1>5
<1>15. Takes(n, len, h, run, full)
  BY <1>1, <1>2, <1>4, <1>5, <1>10, <1>12, <1>13, <1>14 DEF Takes
<1>16. QED
  BY <1>10, <1>15

\* The expected id of an arriving message is an id.
LEMMA ExpectedIsId ==
    ASSUME TypeOK, NEW n \in Numbers
    PROVE  Expected(n) \in Ids /\ n \in Nat /\ firstId \in FirstIds
BY IdAndSlot DEF TypeOK, Expected, Numbers

\* The answers and discards are of their types after any arrival.
LEMMA AnswersTyped ==
    ASSUME TypeOK, NEW n \in Numbers
    PROVE  /\ Answer(n) => answered' \subseteq Numbers /\ breaks' \in Nat
           /\ Discard(n) => answered' \subseteq Numbers /\ breaks' \in Nat /\ discards' \in Nat
<1>1. Answer(n) => answered' \subseteq Numbers /\ breaks' \in Nat
  BY DEF TypeOK, Answer
<1>2. QED
  BY <1>1 DEF Discard, TypeOK

\* The types hold at every step.
LEMMA TypeStep == TypeOK /\ [Next]_vars => TypeOK'
<1> SUFFICES ASSUME TypeOK, Next PROVE TypeOK'
  BY DEF TypeOK, vars
<1>1. PICK n \in Numbers : Arrive(n)
  BY DEF Next
<1>2. /\ Expected(n) \in Ids /\ n \in Nat /\ Id(n) \in Ids
      /\ Hash(Id(n)) \in Slots
  BY ExpectedIsId, IdAndSlot
<1>3. /\ kind' \in Kinds /\ firstId' \in FirstIds
      /\ arrivals' \in [Numbers -> 0 .. Copies] /\ inOrder' \in BOOLEAN
  <2>1. arrivals' = [arrivals EXCEPT ![n] = @ + 1] /\ arrivals[n] < Copies
    BY <1>1 DEF Arrive
  <2>2. arrivals' \in [Numbers -> 0 .. Copies]
    BY <2>1, RecvListAssumption DEF TypeOK
  <2>3. QED
    BY <1>1, <2>2 DEF Arrive, TypeOK
<1>4. CASE InsertReliableOrderly(n)
  <2>1. CASE TooFar(n) /\ Discard(n)
    BY <1>2, <1>3, <2>1, AnswersTyped DEF Discard, TypeOK
  <2>2. CASE ~ TooFar(n) /\ Id(n) = Expected(n)
    <3>1. Answer(n) /\ UNCHANGED <<seen, discards>>
      BY <1>4, <2>2 DEF InsertReliableOrderly
    <3>2. PICK len \in 1 .. CacheSize, run \in Seq(Numbers) :
             /\ delivered' = delivered \o run
             /\ slot' \in [Slots -> Numbers \cup {Null}]
             /\ expect' = After(Id(n), len)
      BY <1>4, <2>2, TakeRun DEF Takes
    <3>3. expect' \in Ids
      <4>1. After(Id(n), len) = Id(n + len)
        BY <1>2, ExpectedIsId, IdAfter
      <4>2. QED
        BY <1>2, <3>2, <4>1, ExpectedIsId, IdAndSlot
    <3>4. delivered' \in Seq(Numbers)
      BY <3>2, ConcatProperties DEF TypeOK
    <3>5. QED
      BY <1>3, <3>1, <3>2, <3>3, <3>4, AnswersTyped DEF TypeOK
  <2>3. CASE ~ TooFar(n) /\ Id(n) # Expected(n)
    <3>1. /\ Answer(n) /\ UNCHANGED <<seen, discards, delivered>>
          /\ expect' = Expected(n)
          /\ slot' = slot \/ slot' = [slot EXCEPT ![Hash(Id(n))] = n]
      BY <1>4, <2>3 DEF InsertReliableOrderly
    <3>2. slot' \in [Slots -> Numbers \cup {Null}]
      BY <3>1 DEF TypeOK
    <3>3. QED
      BY <1>2, <1>3, <3>1, <3>2, AnswersTyped DEF TypeOK
  <2>4. QED
    BY <1>4, <2>1, <2>2, <2>3 DEF InsertReliableOrderly
<1>5. CASE InsertReliable(n)
  <2>1. Answer(n) /\ UNCHANGED <<slot, discards>>
    BY <1>5 DEF InsertReliable
  <2>2. /\ expect' \in Ids
        /\ seen' \in [Slots -> Ids]
        /\ delivered' \in Seq(Numbers)
    <3>1. CASE UNCHANGED <<seen, delivered>> /\ expect' = Expected(n)
      BY <1>2, <3>1 DEF TypeOK
    <3>2. CASE /\ seen' = [seen EXCEPT ![Hash(Id(n))] = Id(n)]
               /\ delivered' = Append(delivered, n)
               /\ expect' = Id(n)
      BY <1>2, <3>2, AppendProperties DEF TypeOK
    <3>3. QED
      BY <1>5, <3>1, <3>2 DEF InsertReliable
  <2>3. QED
    BY <1>3, <2>1, <2>2, AnswersTyped DEF TypeOK
<1>6. CASE InsertOrderly(n)
  <2>1. CASE TooFar(n) /\ Discard(n)
    BY <1>2, <1>3, <2>1, AnswersTyped DEF Discard, TypeOK
  <2>2. CASE ~ (TooFar(n) /\ Discard(n))
    <3>1. /\ Answer(n) /\ UNCHANGED <<slot, seen, discards>>
          /\ \/ UNCHANGED <<expect, delivered>>
             \/ expect' = Id(n) /\ delivered' = Append(delivered, n)
      BY <1>6, <2>2 DEF InsertOrderly
    <3>2. expect' \in Ids \cup {NoId} /\ delivered' \in Seq(Numbers)
      BY <1>2, <3>1, AppendProperties DEF TypeOK
    <3>3. QED
      BY <1>3, <3>1, <3>2, AnswersTyped DEF TypeOK
  <2>3. QED
    BY <2>1, <2>2
<1>7. QED
  BY <1>1, <1>4, <1>5, <1>6 DEF Arrive

\* The id of the first message, if there is one, is in the id space.
LEMMA TypeInit == Init => TypeOK
<1>1. ASSUME Init PROVE firstId \in FirstIds /\ 0 \in Ids
  BY <1>1, Sizes DEF Init, Ids
<1>2. <<>> \in Seq(Numbers)
  BY EmptySeq
<1>3. QED
  BY <1>1, <1>2, RecvListAssumption DEF Init, TypeOK

\* The types of every variable, whatever the network repeats and delays.
THEOREM TypeCorrect == Spec => []TypeOK
<1>1. QED
  BY TypeInit, TypeStep, PTL DEF Spec
-----------------------------------------------------------------------------
(* The slot of the expected message.                                       *)

\* Each message held is in the slot of its id.
SlotsKept == \A h \in Slots : slot[h] # Null => Hash(Id(slot[h])) = h

\* What the run of messages that is passed up leaves: each message of it was in
\* its slot, the next slot is empty, and the others hold what they held.
Leaves(len, h, run, full) ==
    /\ \A s \in Slots : full[s] # Null => Hash(Id(full[s])) = s
    /\ \A s \in Slots : slot'[s] = full[s] \/ slot'[s] = Null
    /\ \A i \in 1 .. len : run[i] \in Numbers /\ Hash(Id(run[i])) = (h + i - 1) % CacheSize
    /\ (h + len) % CacheSize \in Slots /\ slot'[(h + len) % CacheSize] = Null
    /\ delivered' # <<>> /\ Last(delivered') = run[len]
    /\ expect' \in Ids /\ Hash(expect') = (h + len) % CacheSize

\* Each message held is in the slot of its id, so that a run leaves what it says.
LEMMA AfterRun ==
    ASSUME TypeOK, SlotsKept, NEW n \in Numbers, NEW len \in 1 .. CacheSize, NEW h \in Slots,
           NEW run \in Seq(Numbers), NEW full \in [Slots -> Numbers \cup {Null}],
           Takes(n, len, h, run, full)
    PROVE  Leaves(len, h, run, full)
<1>1. /\ CacheSize \in Nat \ {0} /\ h \in Nat /\ h < CacheSize /\ len \in Nat \ {0}
      /\ n \in Nat /\ firstId \in FirstIds
  BY RecvListAssumption DEF Slots, Numbers, TypeOK
<1>2. \A s \in Slots : full[s] # Null => Hash(Id(full[s])) = s
  <2>1. full[h] = n /\ Hash(Id(n)) = h
    BY DEF Takes, TypeOK
  <2>2. \A s \in Slots : s # h => full[s] = slot[s]
    BY DEF Takes, TypeOK
  <2>3. QED
    BY <2>1, <2>2 DEF SlotsKept
<1>3. \A s \in Slots : slot'[s] = full[s] \/ slot'[s] = Null
  BY DEF Takes
<1>4. ASSUME NEW i \in 1 .. len
      PROVE  run[i] \in Numbers /\ Hash(Id(run[i])) = (h + i - 1) % CacheSize
  <2>1. run[i] \in Numbers
    BY ElementOfSeq DEF Takes
  <2>2. run[i] = full[(h + i - 1) % CacheSize]
    BY DEF Takes
  <2>3. (h + i - 1) % CacheSize \in Slots
    BY <1>1 DEF Slots
  <2>4. run[i] # Null
    BY <2>1 DEF Numbers, Null
  <2>5. QED
    BY <1>2, <2>1, <2>2, <2>3, <2>4
<1>5. (h + len) % CacheSize \in Slots
  BY <1>1 DEF Slots
<1>6. slot'[(h + len) % CacheSize] = Null
  <2>1. CASE len = CacheSize
    <3>1. (h + CacheSize) % CacheSize = h
      <4>1. h + CacheSize = 1 * CacheSize + h /\ h \in 0 .. CacheSize - 1
        BY <1>1
      <4>2. (1 * CacheSize + h) % CacheSize = h
        <5>1. 1 \in Int
          OBVIOUS
        <5>2. QED
          BY <1>1, <4>1, <5>1, ModIs, Zenon
      <4>3. QED
        BY <4>1, <4>2
    <3>2. (h + 1 - 1) % CacheSize = h /\ 1 \in 1 .. len
      BY <1>1
    <3>3. slot'[h] = Null
      BY <3>2 DEF Takes
    <3>4. QED
      BY <2>1, <3>1, <3>3
  <2>2. CASE full[(h + len) % CacheSize] = Null
    BY <1>3, <1>5, <2>2
  <2>3. QED
    BY <2>1, <2>2 DEF Takes
<1>7. delivered' # <<>> /\ Last(delivered') = run[len]
  <2>1. /\ delivered' = delivered \o run /\ Len(run) = len /\ delivered \in Seq(Numbers)
    BY DEF Takes, TypeOK
  <2>2. Len(delivered) \in Nat
    BY <2>1, LenProperties
  <2>3. Len(delivered') = Len(delivered) + len
    BY <2>1, ConcatProperties
  <2>4. delivered'[Len(delivered) + len] = run[Len(delivered) + len - Len(delivered)]
    BY <1>1, <2>1, <2>2, ConcatProperties
  <2>5. delivered' # <<>>
    BY <1>1, <2>2, <2>3, EmptySeq
  <2>6. QED
    BY <1>1, <2>2, <2>3, <2>4, <2>5 DEF Last
<1>8. expect' \in Ids /\ Hash(expect') = (h + len) % CacheSize
  <2>1. expect' = Id(n + len)
    BY <1>1, IdAfter DEF Takes
  <2>2. Hash(Id(n + len)) = (Hash(Id(n)) + len) % CacheSize
    BY <1>1, IdAfter
  <2>3. Id(n + len) \in Ids
    BY <1>1, IdAndSlot
  <2>4. QED
    BY <2>1, <2>2, <2>3 DEF Takes
<1>9. QED
  BY <1>2, <1>3, <1>4, <1>5, <1>6, <1>7, <1>8 DEF Leaves

\* A step of the list inserts one message, by the insertion of its kind.
LEMMA OneInsert ==
    ASSUME Next
    PROVE  \E n \in Numbers :
             /\ Arrive(n) /\ firstId' = firstId /\ kind' = kind
             /\ \/ InsertReliableOrderly(n) /\ kind = "reliable_orderly"
                \/ InsertReliable(n) /\ kind = "reliable" /\ slot' = slot
                \/ InsertOrderly(n) /\ kind = "orderly" /\ slot' = slot
<1>1. PICK n \in Numbers : Arrive(n)
  BY DEF Next
<1>2. InsertReliableOrderly(n) => kind = "reliable_orderly"
  BY DEF InsertReliableOrderly
<1>3. InsertReliable(n) => kind = "reliable" /\ slot' = slot
  BY DEF InsertReliable
<1>4. InsertOrderly(n) => kind = "orderly" /\ slot' = slot
  BY DEF InsertOrderly, Discard
<1>5. QED
  BY <1>1, <1>2, <1>3, <1>4 DEF Arrive

\* The three things an arrival does to the reliable orderly list.
LEMMA ThreeCases ==
    ASSUME TypeOK, NEW n \in Numbers, InsertReliableOrderly(n)
    PROVE  \/ Discard(n) /\ TooFar(n)
           \/ /\ Answer(n) /\ discards' = discards /\ Id(n) = Expected(n)
              /\ \E len \in 1 .. CacheSize, h \in Slots, run \in Seq(Numbers) :
                   \E full \in [Slots -> Numbers \cup {Null}] : Takes(n, len, h, run, full)
           \/ /\ Answer(n) /\ discards' = discards /\ delivered' = delivered
              /\ ~ TooFar(n) /\ Id(n) # Expected(n) /\ expect' = Expected(n)
              /\ slot' = IF slot[Hash(Id(n))] = Null
                         THEN [slot EXCEPT ![Hash(Id(n))] = n] ELSE slot
<1>1. CASE TooFar(n) /\ Discard(n)
  BY <1>1
<1>2. CASE ~ TooFar(n) /\ Id(n) = Expected(n)
  <2>1. Answer(n) /\ discards' = discards
    BY <1>2 DEF InsertReliableOrderly
  <2>2. QED
    BY <1>2, <2>1, TakeRun
<1>3. CASE ~ TooFar(n) /\ Id(n) # Expected(n)
  BY <1>3 DEF InsertReliableOrderly
<1>4. QED
  BY <1>1, <1>2, <1>3 DEF InsertReliableOrderly

\* Every message stays in the slot of its id.
LEMMA SlotsKeptStep == TypeOK /\ SlotsKept /\ [Next]_vars => SlotsKept'
<1> SUFFICES ASSUME TypeOK, SlotsKept, [Next]_vars,
                    NEW s \in Slots, NEW m, m = slot'[s], m # Null
             PROVE  Hash(Id(m))' = s
  BY DEF SlotsKept, Hash, Id
<1>1. ASSUME slot'[s] = slot[s], firstId' = firstId
      PROVE  Hash(Id(m))' = s
  BY <1>1 DEF SlotsKept, Hash, Id
<1>2. CASE UNCHANGED vars
  BY <1>1, <1>2 DEF vars
<1>3. CASE Next
  <2>1. PICK n \in Numbers :
          /\ firstId' = firstId
          /\ InsertReliableOrderly(n) \/ slot' = slot
    BY <1>3, OneInsert
  <2>2. Hash(Id(m))' = Hash(Id(m))
    BY <2>1 DEF Hash, Id
  <2>3. CASE slot' = slot
    BY <1>1, <2>1, <2>3
  <2>4. CASE InsertReliableOrderly(n)
    <3>1. CASE Discard(n)
      BY <1>1, <2>1, <3>1 DEF Discard
    <3>2. CASE \E len \in 1 .. CacheSize, h \in Slots, run \in Seq(Numbers) :
                 \E full \in [Slots -> Numbers \cup {Null}] : Takes(n, len, h, run, full)
      <4>1. PICK len \in 1 .. CacheSize, h \in Slots, run \in Seq(Numbers),
                 full \in [Slots -> Numbers \cup {Null}] : Takes(n, len, h, run, full)
        BY <3>2
      <4>2. Leaves(len, h, run, full)
        BY <4>1, AfterRun
      <4>3. /\ full[s] # Null => Hash(Id(full[s])) = s
            /\ slot'[s] = full[s] \/ slot'[s] = Null
        BY <4>2 DEF Leaves
      <4>4. QED
        BY <2>2, <4>3
    <3>3. CASE slot' = IF slot[Hash(Id(n))] = Null
                       THEN [slot EXCEPT ![Hash(Id(n))] = n] ELSE slot
      <4>1. slot'[s] = slot[s] \/ (slot'[s] = n /\ s = Hash(Id(n)))
        BY <3>3 DEF TypeOK
      <4>2. QED
        BY <1>1, <2>1, <2>2, <4>1
    <3>4. QED
      BY <2>4, <3>1, <3>2, <3>3, ThreeCases
  <2>5. QED
    BY <2>1, <2>3, <2>4
<1>4. QED
  BY <1>2, <1>3

\* The slot of the expected id, which is that of the message after the last one
\* passed up, is free. The list expects nothing until it has passed one up.
NextSlotFree ==
    kind = "reliable_orderly" =>
        /\ (expect = NoId) <=> (delivered = <<>>)
        /\ expect # NoId => /\ Hash(expect) = Hash(Id(Last(delivered) + 1))
                            /\ slot[Hash(expect)] = Null

\* What is last passed up is a message.
LEMMA LastIsOne ==
    ASSUME TypeOK, delivered # <<>>
    PROVE  Last(delivered) \in Numbers /\ Last(delivered) \in Nat /\ Last(delivered) > 0
<1>1. delivered \in Seq(Numbers) /\ Len(delivered) \in Nat \ {0}
  BY EmptySeq DEF TypeOK
<1>2. delivered[Len(delivered)] \in Numbers
  BY <1>1, ElementOfSeq
<1>3. QED
  BY <1>2 DEF Last, Numbers

\* The list knows what it expects when a message is discarded or held.
LEMMA ExpectedIsKnown ==
    ASSUME TypeOK, NEW n \in Numbers, TooFar(n) \/ Id(n) # Expected(n)
    PROVE  expect # NoId /\ Expected(n) = expect /\ expect \in Ids
<1>1. ASSUME expect = NoId PROVE FALSE
  <2>1. Expected(n) = Id(n)
    BY <1>1 DEF Expected
  <2>2. QED
    BY <2>1, ExpectedIsId, NearSlots
<1>2. QED
  BY <1>1 DEF Expected, TypeOK

\* The next slot stays free: a run is passed up to an empty slot, and of the
\* messages that are not too far only the expected one goes to its slot.
LEMMA NextFreeStep == TypeOK /\ SlotsKept /\ NextSlotFree /\ [Next]_vars => NextSlotFree'
<1> SUFFICES ASSUME TypeOK, SlotsKept, NextSlotFree, [Next]_vars PROVE NextSlotFree'
  OBVIOUS
<1>1. ASSUME UNCHANGED <<kind, firstId, expect, slot, delivered>> PROVE NextSlotFree'
  BY <1>1 DEF NextSlotFree, Hash, Id
<1>2. CASE UNCHANGED vars
  BY <1>1, <1>2 DEF vars
<1>3. CASE Next
  <2>1. PICK n \in Numbers :
          /\ firstId' = firstId /\ kind' = kind
          /\ kind = "reliable_orderly" => InsertReliableOrderly(n)
    BY <1>3, OneInsert
  <2>2. CASE kind # "reliable_orderly"
    BY <2>1, <2>2 DEF NextSlotFree
  <2>3. CASE InsertReliableOrderly(n) /\ kind = "reliable_orderly"
    <3>1. CASE Discard(n) /\ TooFar(n)
      <4>1. UNCHANGED <<slot, delivered>> /\ expect' = expect
        BY <3>1, ExpectedIsKnown DEF Discard
      <4>2. QED
        BY <1>1, <2>1, <4>1
    <3>2. CASE \E len \in 1 .. CacheSize, h \in Slots, run \in Seq(Numbers) :
                 \E full \in [Slots -> Numbers \cup {Null}] : Takes(n, len, h, run, full)
      <4>1. PICK len \in 1 .. CacheSize, h \in Slots, run \in Seq(Numbers),
                 full \in [Slots -> Numbers \cup {Null}] : Takes(n, len, h, run, full)
        BY <3>2
      <4>2. Leaves(len, h, run, full)
        BY <4>1, AfterRun
      <4>3. delivered' # <<>> /\ expect' # NoId
        BY <4>2 DEF Leaves, Ids, NoId
      <4>4. PICK m \in Numbers : m = run[len] /\ Hash(Id(m)) = (h + len - 1) % CacheSize
        <5>1. len \in 1 .. len
          BY RecvListAssumption
        <5>2. QED
          BY <4>2, <5>1 DEF Leaves
      <4>5. Hash(Id(m + 1)) = (h + len) % CacheSize
        <5>1. Hash(Id(m + 1)) = (((h + len - 1) % CacheSize) + 1) % CacheSize
          BY <4>4, IdAfter, ExpectedIsId
        <5>2. h + len - 1 \in Int /\ CacheSize \in Nat \ {0} /\ 1 \in Int
          BY RecvListAssumption DEF Slots
        <5>3. (((h + len - 1) % CacheSize) + 1) % CacheSize = (h + len - 1 + 1) % CacheSize
          BY <5>2, ModAdd, Zenon
        <5>4. h + len - 1 + 1 = h + len
          BY RecvListAssumption DEF Slots
        <5>5. QED
          BY <5>1, <5>3, <5>4
      <4>6. Hash(Id(m + 1))' = Hash(Id(m + 1))
        BY <2>1 DEF Hash, Id
      <4>7. Last(delivered)' = m
        BY <4>2, <4>4 DEF Leaves, Last
      <4>8. Hash(expect') = Hash(Id(m + 1))
        BY <4>2, <4>5 DEF Leaves
      <4>9. slot'[Hash(expect')] = Null
        BY <4>2 DEF Leaves
      <4>10. Hash(Id(Last(delivered) + 1))' = Hash(Id(m + 1))
        BY <2>1, <4>7 DEF Hash, Id
      <4>11. QED
        BY <4>3, <4>8, <4>9, <4>10 DEF NextSlotFree, Hash
    <3>3. CASE /\ delivered' = delivered
               /\ ~ TooFar(n) /\ Id(n) # Expected(n) /\ expect' = Expected(n)
               /\ slot' = IF slot[Hash(Id(n))] = Null
                          THEN [slot EXCEPT ![Hash(Id(n))] = n] ELSE slot
      <4>1. expect # NoId /\ Expected(n) = expect /\ expect' = expect /\ expect \in Ids
        BY <3>3, ExpectedIsKnown
      <4>2. Hash(Id(n)) # Hash(expect)
        BY <3>3, <4>1, ExpectedIsId, NearSlots
      <4>3. slot'[Hash(expect)] = slot[Hash(expect)]
        BY <3>3, <4>2 DEF TypeOK
      <4>4. QED
        BY <2>1, <3>3, <4>1, <4>3 DEF NextSlotFree, Hash, Id
    <3>4. QED
      BY <2>3, <3>1, <3>2, <3>3, ThreeCases
  <2>4. QED
    BY <2>1, <2>2, <2>3
<1>4. QED
  BY <1>2, <1>3

\* At first the slots are empty, and nothing is expected or passed up.
LEMMA SlotsInit == Init => SlotsKept /\ NextSlotFree
BY DEF Init, SlotsKept, NextSlotFree, Null

\* The two together are an invariant.
LEMMA SlotsInv == Spec => [](TypeOK /\ SlotsKept /\ NextSlotFree)
<1>1. Init => TypeOK /\ SlotsKept /\ NextSlotFree
  BY TypeInit, SlotsInit
<1>2. TypeOK /\ SlotsKept /\ NextSlotFree /\ [Next]_vars
        => (TypeOK /\ SlotsKept /\ NextSlotFree)'
  BY TypeStep, SlotsKeptStep, NextFreeStep
<1>3. QED
  BY <1>1, <1>2, PTL DEF Spec

\* The reliable orderly list never holds the message after the last one it has
\* passed up, also when what is left in its slots has led it astray.
THEOREM NextIsNeverHeld == Spec => []NothingHeldBack
<1>1. TypeOK /\ SlotsKept /\ NextSlotFree => NothingHeldBack
  <2> SUFFICES ASSUME TypeOK, SlotsKept, NextSlotFree, kind = "reliable_orderly",
                      delivered # <<>>, NEW h \in Slots, slot[h] = Last(delivered) + 1
               PROVE  FALSE
    BY DEF NothingHeldBack
  <2>1. slot[h] # Null
    BY LastIsOne DEF Null
  <2>2. Hash(Id(Last(delivered) + 1)) = h
    BY <2>1 DEF SlotsKept
  <2>3. QED
    BY <2>1, <2>2 DEF NextSlotFree
<1>2. QED
  BY <1>1, SlotsInv, PTL
-----------------------------------------------------------------------------
(* No gap, and few acked messages lost.                                    *)

\* Within one turn of the cache the expected message is the one after the last.
NextIsExpected ==
    kind = "reliable_orderly" /\ LastMsg < CacheSize =>
        /\ (expect = NoId) <=> (delivered = <<>>)
        /\ expect # NoId => expect = Id(Last(delivered) + 1)

\* Within one turn of the cache the run that message n starts is n, n + 1, and on:
\* a slot after it holds no other message, and none after the last.
LEMMA RunIsGapless ==
    ASSUME TypeOK, SlotsKept, LastMsg < CacheSize, NEW n \in Numbers,
           NEW len \in 1 .. CacheSize, NEW h \in Slots, NEW run \in Seq(Numbers),
           NEW full \in [Slots -> Numbers \cup {Null}], Takes(n, len, h, run, full)
    PROVE  \A i \in 1 .. len : run[i] = n + i - 1
<1>1. /\ CacheSize \in Nat /\ LastMsg \in Nat /\ len \in Nat /\ n \in Nat
      /\ 1 <= n /\ n <= LastMsg /\ firstId \in FirstIds
  BY RecvListAssumption DEF Numbers, TypeOK
<1>2. ASSUME NEW i \in 1 .. len, n + i - 1 <= LastMsg + 1 PROVE run[i] = n + i - 1
  <2>1. PICK m \in Numbers : m = run[i] /\ Hash(Id(m)) = (h + i - 1) % CacheSize
    BY AfterRun DEF Leaves
  <2>2. i - 1 \in Nat /\ n + (i - 1) \in Nat
    BY <1>1
  <2>3. Hash(Id(n + (i - 1))) = (Hash(Id(n)) + (i - 1)) % CacheSize
    BY <1>1, <2>2, IdAfter
  <2>4. h + (i - 1) = h + i - 1 /\ Hash(Id(n)) = h
    BY <1>1 DEF Takes, Slots
  <2>5. Hash(Id(m)) = Hash(Id(n + (i - 1)))
    BY <2>1, <2>3, <2>4
  <2>6. m \in Nat /\ m - (n + (i - 1)) < CacheSize /\ (n + (i - 1)) - m < CacheSize
    BY <1>1, <1>2 DEF Numbers
  <2>7. m = n + (i - 1)
    BY <1>1, <2>2, <2>5, <2>6, SlotsDiffer
  <2>8. QED
    BY <1>1, <2>1, <2>7
<1>3. ASSUME n + len - 1 > LastMsg PROVE FALSE
  <2>1. PICK j \in 1 .. len : n + j - 1 = LastMsg + 1
    <3>1. LastMsg + 2 - n \in 1 .. len
      BY <1>1, <1>3
    <3>2. n + (LastMsg + 2 - n) - 1 = LastMsg + 1
      BY <1>1
    <3>3. QED
      BY <3>1, <3>2
  <2>2. run[j] = LastMsg + 1
    <3>1. n + j - 1 <= LastMsg + 1
      BY <1>1, <2>1
    <3>2. run[j] = n + j - 1
      BY <1>2, <3>1
    <3>3. QED
      BY <2>1, <3>2
  <2>3. run[j] \in Numbers
    BY AfterRun DEF Leaves
  <2>4. QED
    BY <1>1, <2>2, <2>3 DEF Numbers
<1>4. QED
  BY <1>1, <1>2, <1>3

\* A run follows on from what was passed up before it, and leaves the message
\* after it expected.
LEMMA RunFollows ==
    ASSUME TypeOK, SlotsKept, InOrderWithoutGap, NextIsExpected, LastMsg < CacheSize,
           kind = "reliable_orderly", NEW n \in Numbers, Id(n) = Expected(n),
           NEW len \in 1 .. CacheSize, NEW h \in Slots, NEW run \in Seq(Numbers),
           NEW full \in [Slots -> Numbers \cup {Null}], Takes(n, len, h, run, full)
    PROVE  /\ \A i \in DOMAIN delivered' : delivered'[i] = delivered'[1] + i - 1
           /\ delivered' # <<>> /\ expect' # NoId
           /\ expect' = Id(Last(delivered') + 1)
<1>1. /\ CacheSize \in Nat /\ LastMsg \in Nat /\ len \in Nat \ {0} /\ n \in Nat
      /\ 1 <= n /\ n <= LastMsg /\ firstId \in FirstIds
  BY RecvListAssumption DEF Numbers, TypeOK
<1>2. \A i \in 1 .. len : run[i] = n + i - 1
  BY RunIsGapless
<1>3. Leaves(len, h, run, full)
  BY AfterRun
<1>4. delivered' # <<>> /\ expect' # NoId
  BY <1>3 DEF Leaves, Ids, NoId
<1>5. expect' = Id(Last(delivered') + 1)
  <2>1. Last(delivered') = n + len - 1
    BY <1>1, <1>2, <1>3 DEF Leaves
  <2>2. expect' = Id(n + len)
    BY <1>1, IdAfter DEF Takes
  <2>3. n + len - 1 + 1 = n + len
    BY <1>1
  <2>4. QED
    BY <2>1, <2>2, <2>3
<1>6. PICK L \in Nat : L = Len(delivered) /\ delivered \in Seq(Numbers) /\ DOMAIN delivered = 1 .. L
  BY LenProperties DEF TypeOK
<1>7. /\ DOMAIN delivered' = 1 .. L + len
      /\ \A i \in 1 .. L + len : delivered'[i] = IF i <= L THEN delivered[i] ELSE run[i - L]
  <2>1. delivered' = delivered \o run /\ Len(run) = len
    BY DEF Takes
  <2>2. delivered' \in Seq(Numbers) /\ Len(delivered') = L + len
    BY <1>6, <2>1, ConcatProperties
  <2>3. QED
    BY <1>6, <2>1, <2>2, ConcatProperties, LenProperties
<1>8. CASE L = 0
  <2>1. \A i \in 1 .. L + len : delivered'[i] = n + i - 1
    BY <1>1, <1>2, <1>7, <1>8
  <2>2. QED
    BY <1>1, <1>4, <1>5, <1>7, <1>8, <2>1
<1>9. CASE L # 0
  <2>1. delivered # <<>> /\ L \in 1 .. L /\ 1 \in 1 .. L
    BY <1>6, <1>9, EmptySeq
  <2>2. PICK f \in Numbers : f = delivered[1]
    BY <1>6, <2>1, ElementOfSeq
  <2>3. \A i \in 1 .. L : delivered[i] = f + i - 1
    BY <1>6, <2>2 DEF InOrderWithoutGap
  <2>4. Last(delivered) = f + L - 1
    BY <1>6, <2>1, <2>3 DEF Last
  <2>5. f + L - 1 \in Numbers
    BY <2>1, <2>4, LastIsOne
  <2>6. n = f + L
    <3>1. f + L - 1 + 1 = f + L /\ f + L \in Nat
      <4>1. f \in Nat
        BY <1>1 DEF Numbers
      <4>2. QED
        BY <1>6, <4>1
    <3>2. expect # NoId /\ expect = Id(f + L)
      BY <2>1, <2>4, <3>1 DEF NextIsExpected
    <3>3. Id(n) = Id(f + L)
      BY <3>2 DEF Expected
    <3>4. n - (f + L) < IdSpace /\ (f + L) - n < IdSpace
      BY <1>1, <2>5, <3>1, Sizes DEF Numbers
    <3>5. QED
      BY <1>1, <3>1, <3>3, <3>4, IdsDiffer
  <2>7. \A i \in 1 .. L + len : delivered'[i] = f + i - 1
    <3> SUFFICES ASSUME NEW i \in 1 .. L + len PROVE delivered'[i] = f + i - 1
      OBVIOUS
    <3>1. f \in Nat
      BY DEF Numbers
    <3>2. CASE i <= L
      BY <1>7, <2>3, <3>2
    <3>3. CASE i > L
      <4>1. i - L \in 1 .. len /\ ~ (i <= L)
        BY <1>1, <1>6, <3>3
      <4>2. run[i - L] = n + (i - L) - 1
        BY <1>2, <4>1
      <4>3. QED
        BY <1>1, <1>6, <1>7, <2>6, <3>1, <4>1, <4>2
    <3>4. QED
      BY <1>6, <3>2, <3>3
  <2>8. delivered'[1] = f
    <3>1. 1 \in 1 .. L + len /\ f + 1 - 1 = f
      BY <1>1, <1>6, <2>2 DEF Numbers
    <3>2. QED
      BY <2>7, <3>1
  <2>9. QED
    BY <1>4, <1>5, <1>7, <2>7, <2>8
<1>10. QED
  BY <1>8, <1>9

\* What is passed up stays gapless, and followed by what is expected.
LEMMA GaplessStep ==
    TypeOK /\ SlotsKept /\ InOrderWithoutGap /\ NextIsExpected /\ [Next]_vars
        => InOrderWithoutGap' /\ NextIsExpected'
<1> SUFFICES ASSUME TypeOK, SlotsKept, InOrderWithoutGap, NextIsExpected, [Next]_vars
             PROVE  InOrderWithoutGap' /\ NextIsExpected'
  OBVIOUS
<1>1. ASSUME UNCHANGED <<kind, firstId, expect, delivered>>
      PROVE  InOrderWithoutGap' /\ NextIsExpected'
  BY <1>1 DEF InOrderWithoutGap, NextIsExpected, Id
<1>2. CASE UNCHANGED vars
  BY <1>1, <1>2 DEF vars
<1>3. CASE Next
  <2>1. PICK n \in Numbers :
          /\ firstId' = firstId /\ kind' = kind
          /\ kind = "reliable_orderly" => InsertReliableOrderly(n)
    BY <1>3, OneInsert
  <2>2. CASE kind # "reliable_orderly" \/ ~ (LastMsg < CacheSize)
    BY <2>1, <2>2 DEF InOrderWithoutGap, NextIsExpected
  <2>3. CASE InsertReliableOrderly(n) /\ kind = "reliable_orderly" /\ LastMsg < CacheSize
    <3>1. CASE Discard(n) /\ TooFar(n)
      <4>1. UNCHANGED delivered /\ expect' = expect
        BY <3>1, ExpectedIsKnown DEF Discard
      <4>2. QED
        BY <1>1, <2>1, <4>1
    <3>2. CASE /\ Id(n) = Expected(n)
               /\ \E len \in 1 .. CacheSize, h \in Slots, run \in Seq(Numbers) :
                    \E full \in [Slots -> Numbers \cup {Null}] : Takes(n, len, h, run, full)
      <4>1. PICK len \in 1 .. CacheSize, h \in Slots, run \in Seq(Numbers),
                 full \in [Slots -> Numbers \cup {Null}] : Takes(n, len, h, run, full)
        BY <3>2
      <4>2. /\ \A i \in DOMAIN delivered' : delivered'[i] = delivered'[1] + i - 1
            /\ delivered' # <<>> /\ expect' # NoId
            /\ expect' = Id(Last(delivered') + 1)
        BY <2>3, <3>2, <4>1, RunFollows
      <4>3. Id(Last(delivered') + 1) = Id(Last(delivered) + 1)'
        BY <2>1 DEF Id, Last
      <4>4. QED
        BY <4>2, <4>3 DEF InOrderWithoutGap, NextIsExpected
    <3>3. CASE delivered' = delivered /\ Id(n) # Expected(n) /\ expect' = Expected(n)
      <4>1. expect' = expect
        BY <3>3, ExpectedIsKnown
      <4>2. QED
        BY <1>1, <2>1, <3>3, <4>1
    <3>4. QED
      BY <2>3, <3>1, <3>2, <3>3, ThreeCases
  <2>4. QED
    BY <2>1, <2>2, <2>3
<1>4. QED
  BY <1>2, <1>3

\* Within one turn of its cache the reliable orderly list passes up the messages
\* in order, without a gap and each once.
THEOREM NoGap == Spec => []InOrderWithoutGap
<1>1. Init => InOrderWithoutGap /\ NextIsExpected
  BY DEF Init, InOrderWithoutGap, NextIsExpected
<1>2. TypeOK /\ SlotsKept /\ InOrderWithoutGap /\ NextIsExpected /\ [Next]_vars
        => InOrderWithoutGap' /\ NextIsExpected'
  BY GaplessStep
<1>3. QED
  BY <1>1, <1>2, SlotsInv, PTL DEF Spec

\* When the list has passed up messages, the expected one is the one after the last.
LEMMA NextArrives ==
    ASSUME TypeOK, NextIsExpected, LastMsg < CacheSize, kind = "reliable_orderly",
           delivered # <<>>, NEW n \in Numbers, Id(n) = Expected(n)
    PROVE  n = Last(delivered) + 1
<1>1. PICK l \in Numbers : l = Last(delivered)
  BY LastIsOne
<1>2. expect # NoId /\ expect = Id(l + 1)
  BY <1>1 DEF NextIsExpected
<1>3. Id(n) = Id(l + 1)
  BY <1>2 DEF Expected
<1>4. /\ n \in Nat /\ l + 1 \in Nat /\ firstId \in FirstIds
      /\ n - (l + 1) < IdSpace /\ (l + 1) - n < IdSpace
  BY Sizes, RecvListAssumption DEF Numbers, TypeOK
<1>5. QED
  BY <1>1, <1>3, <1>4, IdsDiffer

\* What the first element and the last of two sequences joined are.
LEMMA EndsOfConcat ==
    ASSUME NEW S, NEW s \in Seq(S), NEW t \in Seq(S), t # <<>>
    PROVE  (s \o t)[1] = IF s = <<>> THEN t[1] ELSE s[1]
<1>1. Len(s) \in Nat /\ Len(t) \in Nat /\ Len(t) # 0 /\ (s = <<>> <=> Len(s) = 0)
  BY LenProperties, EmptySeq
<1>2. \A i \in 1 .. Len(s) + Len(t) : (s \o t)[i] = IF i <= Len(s) THEN s[i] ELSE t[i - Len(s)]
  BY ConcatProperties
<1>3. 1 \in 1 .. Len(s) + Len(t)
  BY <1>1
<1>4. QED
  BY <1>1, <1>2, <1>3

\* How many acked messages are lost: no more than were discarded and acked.
LossInv ==
    kind = "reliable_orderly" /\ LastMsg < CacheSize =>
        /\ delivered = <<>> => answered = {}
        /\ delivered # <<>> =>
             /\ delivered[1] <= Window
             /\ Cardinality(Lost) <= discards /\ Cardinality(Lost) < DiscardLimit

\* There is a number of what is lost, and what is added to it is at most one.
LEMMA LostNumber ==
    ASSUME TypeOK
    PROVE  /\ IsFiniteSet(Lost) /\ Cardinality(Lost) \in Nat
           /\ \A S : S \subseteq Lost =>
                Cardinality(S) \in Nat /\ Cardinality(S) <= Cardinality(Lost)
           /\ \A S, n : S \subseteq Lost \cup {n} =>
                Cardinality(S) \in Nat /\ Cardinality(S) <= Cardinality(Lost) + 1
<1>1. IsFiniteSet(Lost)
  <2>1. LastMsg \in Int /\ 1 \in Int
    BY RecvListAssumption
  <2>2. IsFiniteSet(Numbers)
    BY <2>1, FS_Interval DEF Numbers
  <2>3. Lost \subseteq Numbers
    BY DEF Lost, TypeOK
  <2>4. QED
    BY <2>2, <2>3, FS_Subset
<1>2. Cardinality(Lost) \in Nat
  BY <1>1, FS_CardinalityType
<1>3. ASSUME NEW S, S \subseteq Lost
      PROVE  Cardinality(S) \in Nat /\ Cardinality(S) <= Cardinality(Lost)
  BY <1>1, <1>3, FS_Subset, FS_CardinalityType
<1>4. ASSUME NEW S, NEW n, S \subseteq Lost \cup {n}
      PROVE  Cardinality(S) \in Nat /\ Cardinality(S) <= Cardinality(Lost) + 1
  <2>1. /\ IsFiniteSet(Lost \cup {n})
        /\ Cardinality(Lost \cup {n}) = Cardinality(Lost)
             \/ Cardinality(Lost \cup {n}) = Cardinality(Lost) + 1
    BY <1>1, FS_AddElement
  <2>2. Cardinality(S) \in Nat /\ Cardinality(S) <= Cardinality(Lost \cup {n})
    BY <1>4, <2>1, FS_Subset, FS_CardinalityType
  <2>3. QED
    BY <1>2, <2>1, <2>2
<1>5. QED
  BY <1>1, <1>2, <1>3, <1>4

\* A message that is discarded and acked is one more, and one more was discarded.
LEMMA LossByDiscard ==
    ASSUME TypeOK, NextIsExpected, LossInv, LastMsg < CacheSize, kind = "reliable_orderly",
           kind' = kind, firstId' = firstId, NEW n \in Numbers, TooFar(n), Discard(n)
    PROVE  LossInv'
<1>1. /\ UNCHANGED <<slot, delivered>> /\ discards' = discards + 1
      /\ \/ answered' = answered
         \/ answered' \subseteq answered \cup {n} /\ discards' < DiscardLimit
  <2>1. ~ Breaking(discards + 1) => discards + 1 < DiscardLimit
    BY RecvListAssumption DEF Breaking, TypeOK
  <2>2. QED
    BY <2>1 DEF Discard, Answer
<1>2. delivered # <<>>
  BY ExpectedIsKnown DEF NextIsExpected
<1>3. /\ delivered[1] <= Window
      /\ Cardinality(Lost) <= discards /\ Cardinality(Lost) < DiscardLimit
  BY <1>2 DEF LossInv
<1>4. discards \in Nat /\ DiscardLimit \in Nat
  BY RecvListAssumption DEF TypeOK
<1>5. Cardinality(Lost') <= discards' /\ Cardinality(Lost') < DiscardLimit
  <2>1. CASE answered' = answered
    <3>1. Lost' = Lost
      BY <1>1, <2>1 DEF Lost, Last, Hash, Id
    <3>2. QED
      BY <1>1, <1>3, <1>4, <3>1, LostNumber
  <2>2. CASE answered' \subseteq answered \cup {n} /\ discards' < DiscardLimit
    <3>1. Lost' \subseteq Lost \cup {n}
      BY <1>1, <2>2 DEF Lost, Last, Hash, Id
    <3>2. PICK S : S = Lost'
      OBVIOUS
    <3>3. Cardinality(S) \in Nat /\ Cardinality(S) <= Cardinality(Lost) + 1
      BY <3>1, <3>2, LostNumber
    <3>4. Cardinality(S) <= discards' /\ Cardinality(S) < DiscardLimit
      BY <1>1, <1>3, <1>4, <2>2, <3>3, LostNumber
    <3>5. QED
      BY <3>2, <3>4
  <2>3. QED
    BY <1>1, <2>1, <2>2
<1>6. QED
  BY <1>1, <1>2, <1>3, <1>5 DEF LossInv

\* A message that is held until its turn is not lost.
LEMMA LossByHolding ==
    ASSUME TypeOK, SlotsKept, NextIsExpected, LossInv, LastMsg < CacheSize,
           kind = "reliable_orderly", kind' = kind, firstId' = firstId,
           NEW n \in Numbers, Id(n) # Expected(n), Answer(n),
           UNCHANGED <<discards, delivered>>,
           slot' = IF slot[Hash(Id(n))] = Null
                   THEN [slot EXCEPT ![Hash(Id(n))] = n] ELSE slot
    PROVE  LossInv'
<1>1. /\ CacheSize \in Nat \ {0} /\ LastMsg \in Nat /\ n \in Nat /\ firstId \in FirstIds
      /\ n # Null
  BY RecvListAssumption DEF Numbers, TypeOK, Null
<1>2. PICK h \in Slots : h = Hash(Id(n))
  BY <1>1, IdAndSlot
<1>3. slot[h] # Null => slot[h] = n
  <2> SUFFICES ASSUME slot[h] # Null PROVE slot[h] = n
    OBVIOUS
  <2>1. slot[h] \in Numbers /\ slot[h] \in Nat
    BY DEF TypeOK, Numbers
  <2>2. Hash(Id(slot[h])) = Hash(Id(n))
    BY <1>2 DEF SlotsKept
  <2>3. slot[h] - n < CacheSize /\ n - slot[h] < CacheSize
    BY <1>1, <2>1 DEF Numbers
  <2>4. QED
    BY <1>1, <2>1, <2>2, <2>3, SlotsDiffer
<1>4. slot'[h] = n
  BY <1>2, <1>3 DEF TypeOK
<1>5. ASSUME NEW m \in Lost' PROVE m \in Lost
  <2>1. m # n
    BY <1>2, <1>4 DEF Lost, Hash, Id
  <2>2. m \in answered /\ m \in Nat /\ m \in Numbers /\ m > Last(delivered)
    BY <2>1 DEF Lost, Answer, TypeOK, Numbers, Last
  <2>3. Hash(Id(m)) \in Slots
    BY <1>1, <2>2, IdAndSlot
  <2>4. slot[Hash(Id(m))] # m
    <3>1. slot[Hash(Id(m))] = m => slot'[Hash(Id(m))] = m
      <4>1. m # Null
        BY <2>2 DEF Numbers, Null
      <4>2. QED
        BY <2>3, <4>1 DEF TypeOK
    <3>2. slot'[Hash(Id(m))] # m
      BY DEF Lost, Hash, Id
    <3>3. QED
      BY <3>1, <3>2
  <2>5. QED
    BY <2>2, <2>4 DEF Lost
<1>6. delivered # <<>>
  BY ExpectedIsKnown DEF NextIsExpected
<1>7. Cardinality(Lost') <= discards /\ Cardinality(Lost') < DiscardLimit
  <2>1. PICK S : S = Lost'
    OBVIOUS
  <2>2. Cardinality(S) \in Nat /\ Cardinality(S) <= Cardinality(Lost)
    BY <1>5, <2>1, LostNumber
  <2>3. discards \in Nat /\ DiscardLimit \in Nat
    BY RecvListAssumption DEF TypeOK
  <2>4. Cardinality(S) <= discards /\ Cardinality(S) < DiscardLimit
    BY <1>6, <2>2, <2>3, LostNumber DEF LossInv
  <2>5. QED
    BY <2>1, <2>4
<1>8. QED
  BY <1>6, <1>7 DEF LossInv

\* Nothing is lost when a run is passed up: what it does not hold stays held. The
\* first message of all was let out with those before it unacked.
LEMMA LossByRun ==
    ASSUME TypeOK, SlotsKept, InOrderWithoutGap, NextIsExpected, LossInv,
           LastMsg < CacheSize, kind = "reliable_orderly",
           kind' = kind, firstId' = firstId,
           NEW n \in Numbers, Id(n) = Expected(n), Answer(n), discards' = discards,
           Cardinality((1 .. n - 1) \ answered) < Window,
           NEW len \in 1 .. CacheSize, NEW h \in Slots, NEW run \in Seq(Numbers),
           NEW full \in [Slots -> Numbers \cup {Null}], Takes(n, len, h, run, full)
    PROVE  LossInv'
<1>1. /\ CacheSize \in Nat \ {0} /\ LastMsg \in Nat /\ n \in Nat /\ n > 0 /\ n <= LastMsg
      /\ firstId \in FirstIds /\ len \in Nat \ {0} /\ DiscardLimit \in Nat \ {0}
      /\ Window \in Nat /\ discards \in Nat
  BY RecvListAssumption DEF Numbers, TypeOK
<1>2. \A i \in 1 .. len : run[i] = n + i - 1
  BY RunIsGapless
<1>3. delivered' # <<>> /\ Last(delivered') = n + len - 1
  <2>1. delivered' # <<>> /\ Last(delivered') = run[len]
    <3>1. Leaves(len, h, run, full)
      BY AfterRun
    <3>2. QED
      BY <3>1 DEF Leaves
  <2>2. QED
    BY <1>1, <1>2, <2>1
<1>4. delivered'[1] = IF delivered = <<>> THEN n ELSE delivered[1]
  <2>1. run # <<>> /\ run[1] = n
    BY <1>1, <1>2, EmptySeq DEF Takes
  <2>2. QED
    BY <2>1, EndsOfConcat DEF Takes, TypeOK
<1>5. answered' = answered \cup {n}
  BY DEF Answer
<1>6. CASE delivered = <<>>
  <2>1. answered = {}
    BY <1>6 DEF LossInv
  <2>2. n <= Window
    <3>1. (1 .. n - 1) \ answered = 1 .. n - 1
      BY <2>1
    <3>2. Cardinality(1 .. n - 1) = n - 1
      <4>1. 1 \in Int /\ n - 1 \in Int
        BY <1>1
      <4>2. Cardinality(1 .. n - 1) = IF 1 > n - 1 THEN 0 ELSE (n - 1) - 1 + 1
        BY <4>1, FS_Interval
      <4>3. QED
        BY <1>1, <4>2
    <3>3. Cardinality(1 .. n - 1) < Window
      BY <3>1, Zenon
    <3>4. QED
      BY <1>1, <3>2, <3>3
  <2>3. Lost' = {}
    <3>1. ~ (n > n + len - 1)
      BY <1>1
    <3>2. QED
      BY <1>3, <1>5, <2>1, <3>1 DEF Lost
  <2>4. Cardinality(Lost') = 0
    BY <2>3, FS_EmptySet
  <2>5. QED
    BY <1>1, <1>3, <1>4, <1>6, <2>2, <2>4 DEF LossInv
<1>7. CASE delivered # <<>>
  <2>1. PICK l \in Numbers : l = Last(delivered) /\ n = l + 1
    BY <1>7, LastIsOne, NextArrives
  <2>2. ASSUME NEW m \in Lost' PROVE m \in Lost
    <3>1. m \in answered' /\ m > n + len - 1 /\ slot'[Hash(Id(m))] # m
      BY <1>3 DEF Lost, Hash, Id
    <3>2. m \in answered \cup {n} /\ m \in Nat /\ m <= LastMsg
      BY <1>1, <1>5, <3>1 DEF TypeOK, Numbers
    <3>3. m \in answered /\ m > l /\ l \in Nat
      BY <1>1, <2>1, <3>1, <3>2 DEF Numbers
    <3>4. PICK s \in Slots : s = Hash(Id(m))
      BY <1>1, <3>2, IdAndSlot
    <3>5. ASSUME slot[s] = m PROVE FALSE
      <4>1. s # h
        <5>1. SUFFICES ASSUME s = h PROVE FALSE
          OBVIOUS
        <5>2. Hash(Id(m)) = Hash(Id(n))
          BY <3>4, <5>1 DEF Takes
        <5>3. m - n < CacheSize /\ n - m < CacheSize
          BY <1>1, <3>2
        <5>4. m = n
          BY <1>1, <3>2, <5>2, <5>3, SlotsDiffer
        <5>5. QED
          BY <1>1, <3>1, <5>4
      <4>2. full[s] = m
        BY <3>5, <4>1 DEF Takes, TypeOK
      <4>3. slot'[s] # m
        BY <3>1, <3>4
      <4>4. PICK i \in 1 .. len : s = (h + i - 1) % CacheSize
        BY <4>2, <4>3 DEF Takes
      <4>5. run[i] = m
        BY <4>2, <4>4 DEF Takes
      <4>6. m = n + i - 1 /\ i <= len /\ i \in Nat
        BY <1>1, <1>2, <4>5
      <4>7. QED
        BY <1>1, <3>1, <4>6
    <3>6. QED
      BY <2>1, <3>3, <3>4, <3>5 DEF Lost
  <2>3. PICK S : S = Lost'
    OBVIOUS
  <2>4. Cardinality(S) \in Nat /\ Cardinality(S) <= Cardinality(Lost)
    BY <2>2, <2>3, LostNumber
  <2>5. /\ delivered[1] <= Window
        /\ Cardinality(Lost) <= discards /\ Cardinality(Lost) < DiscardLimit
    BY <1>7 DEF LossInv
  <2>6. Cardinality(S) <= discards /\ Cardinality(S) < DiscardLimit
    BY <1>1, <2>4, <2>5, LostNumber
  <2>7. QED
    BY <1>3, <1>4, <1>7, <2>3, <2>5, <2>6 DEF LossInv
<1>8. QED
  BY <1>6, <1>7

\* Whatever arrives, the lost messages stay as few.
LEMMA LossStep ==
    TypeOK /\ SlotsKept /\ InOrderWithoutGap /\ NextIsExpected /\ LossInv /\ [Next]_vars
        => LossInv'
<1> SUFFICES ASSUME TypeOK, SlotsKept, InOrderWithoutGap, NextIsExpected, LossInv, [Next]_vars
             PROVE  LossInv'
  OBVIOUS
<1>1. CASE UNCHANGED vars
  BY <1>1 DEF vars, LossInv, Lost, Last, Hash, Id
<1>2. CASE Next
  <2>1. PICK n \in Numbers :
          /\ Arrive(n) /\ firstId' = firstId /\ kind' = kind
          /\ kind = "reliable_orderly" => InsertReliableOrderly(n)
    BY <1>2, OneInsert
  <2>2. CASE kind # "reliable_orderly" \/ ~ (LastMsg < CacheSize)
    BY <2>1, <2>2 DEF LossInv
  <2>3. CASE InsertReliableOrderly(n) /\ kind = "reliable_orderly" /\ LastMsg < CacheSize
    <3>1. CASE Discard(n) /\ TooFar(n)
      BY <2>1, <2>3, <3>1, LossByDiscard
    <3>2. CASE /\ Answer(n) /\ discards' = discards /\ Id(n) = Expected(n)
               /\ \E len \in 1 .. CacheSize, h \in Slots, run \in Seq(Numbers) :
                    \E full \in [Slots -> Numbers \cup {Null}] : Takes(n, len, h, run, full)
      <4>1. PICK len \in 1 .. CacheSize, h \in Slots, run \in Seq(Numbers),
                 full \in [Slots -> Numbers \cup {Null}] : Takes(n, len, h, run, full)
        BY <3>2
      <4>2. Cardinality((1 .. n - 1) \ answered) < Window
        BY <2>1, <2>3 DEF Arrive
      <4>3. QED
        BY <2>1, <2>3, <3>2, <4>1, <4>2, LossByRun
    <3>3. CASE /\ Answer(n) /\ discards' = discards /\ delivered' = delivered
               /\ Id(n) # Expected(n)
               /\ slot' = IF slot[Hash(Id(n))] = Null
                          THEN [slot EXCEPT ![Hash(Id(n))] = n] ELSE slot
      BY <2>1, <2>3, <3>3, LossByHolding
    <3>4. QED
      BY <2>3, <3>1, <3>2, <3>3, ThreeCases
  <2>4. QED
    BY <2>1, <2>2, <2>3
<1>3. QED
  BY <1>1, <1>2

\* Until a break is reported, fewer messages are acked and lost than the discards
\* that break, and the messages before the first to arrive fit in the window; all
\* the others that are acked are passed up or held until their turn.
THEOREM FewLosses == Spec => []FewAreLost
<1>1. Init => InOrderWithoutGap /\ NextIsExpected /\ LossInv
  BY DEF Init, InOrderWithoutGap, NextIsExpected, LossInv
<1>2. TypeOK /\ SlotsKept /\ InOrderWithoutGap /\ NextIsExpected /\ LossInv /\ [Next]_vars
        => InOrderWithoutGap' /\ NextIsExpected' /\ LossInv'
  BY GaplessStep, LossStep
<1>3. LossInv => FewAreLost
  BY DEF LossInv, FewAreLost
<1>4. QED
  BY <1>1, <1>2, <1>3, SlotsInv, PTL DEF Spec
-----------------------------------------------------------------------------
(* A stream in order.                                                      *)

\* A stream that came complete and in order has left every slot free.
Straight ==
    kind = "reliable_orderly" /\ inOrder =>
        \E m \in 0 .. LastMsg :
            /\ \A n \in Numbers : arrivals[n] = IF n <= m THEN 1 ELSE 0
            /\ delivered = [i \in 1 .. m |-> i]
            /\ slot = [h \in Slots |-> Null]
            /\ expect = IF m = 0 THEN NoId ELSE Id(m + 1)

\* The next message of such a stream is expected, and no other one with it.
LEMMA StraightStep == TypeOK /\ SlotsKept /\ Straight /\ [Next]_vars => Straight'
<1> SUFFICES ASSUME TypeOK, SlotsKept, Straight, [Next]_vars PROVE Straight'
  OBVIOUS
<1>1. CASE UNCHANGED vars
  BY <1>1 DEF vars, Straight, Id
<1>2. CASE Next
  <2>1. PICK n \in Numbers :
          /\ Arrive(n) /\ firstId' = firstId /\ kind' = kind
          /\ kind = "reliable_orderly" => InsertReliableOrderly(n)
    BY <1>2, OneInsert
  <2>2. CASE ~ (kind = "reliable_orderly" /\ inOrder')
    BY <2>1, <2>2 DEF Straight
  <2>3. CASE InsertReliableOrderly(n) /\ kind = "reliable_orderly" /\ inOrder'
    <3>1. /\ inOrder /\ \A k \in Numbers : arrivals[k] = IF k < n THEN 1 ELSE 0
          /\ arrivals' = [arrivals EXCEPT ![n] = @ + 1]
      BY <2>1, <2>3 DEF Arrive
    <3>2. PICK m \in 0 .. LastMsg :
            /\ \A k \in Numbers : arrivals[k] = IF k <= m THEN 1 ELSE 0
            /\ delivered = [i \in 1 .. m |-> i]
            /\ slot = [h \in Slots |-> Null]
            /\ expect = IF m = 0 THEN NoId ELSE Id(m + 1)
      BY <2>3, <3>1 DEF Straight
    <3>3. LastMsg \in Nat /\ m \in Nat /\ n \in Nat /\ n \in 1 .. LastMsg
      BY RecvListAssumption DEF Numbers
    <3>4. n = m + 1
      <4>1. ~ (n <= m)
        <5>1. arrivals[n] = 0
          BY <3>1, <3>3
        <5>2. QED
          BY <3>2, <5>1
      <4>2. ~ (m + 1 < n)
        <5>1. ASSUME m + 1 < n PROVE FALSE
          <6>1. m + 1 \in Numbers /\ ~ (m + 1 <= m)
            BY <3>3, <5>1 DEF Numbers
          <6>2. arrivals[m + 1] = 1 /\ arrivals[m + 1] = 0
            BY <3>1, <3>2, <5>1, <6>1
          <6>3. QED
            BY <6>2
        <5>2. QED
          BY <5>1
      <4>3. QED
        BY <3>3, <4>1, <4>2
    <3>5. Id(n) = Expected(n)
      BY <3>2, <3>3, <3>4 DEF Expected
    <3>6. ~ TooFar(n)
      BY <3>5, ExpectedIsId, NearSlots
    <3>7. PICK len \in 1 .. CacheSize, h \in Slots, run \in Seq(Numbers),
               full \in [Slots -> Numbers \cup {Null}] : Takes(n, len, h, run, full)
      BY <2>3, <3>5, <3>6, TakeRun
    <3>8. Leaves(len, h, run, full)
      BY <3>7, AfterRun
    <3>9. /\ h = Hash(Id(n)) /\ full = [slot EXCEPT ![h] = n]
          /\ CacheSize \in Nat \ {0} /\ firstId \in FirstIds /\ h \in 0 .. CacheSize - 1
      BY <3>7, RecvListAssumption DEF Takes, TypeOK, Slots
    <3>10. \A s \in Slots : s # h => full[s] = Null
      BY <3>2, <3>9
    <3>11. len = 1
      <4>1. ASSUME 2 <= len PROVE FALSE
        <5>1. 2 \in 1 .. len /\ h + 2 - 1 = h + 1 /\ 1 < CacheSize
          BY <3>9, <4>1
        <5>2. run[2] \in Numbers /\ run[2] = full[(h + 1) % CacheSize]
          BY <3>7, <3>8, <5>1 DEF Takes, Leaves
        <5>3. (h + 1) % CacheSize \in Slots
          BY <3>9 DEF Slots
        <5>4. (h + 1) % CacheSize = h
          BY <3>10, <5>2, <5>3 DEF Numbers, Null
        <5>5. Hash(Id(n + 1)) = Hash(Id(n))
          BY <3>3, <3>9, <5>4, IdAfter
        <5>6. n + 1 = n
          BY <3>3, <3>9, <5>1, <5>5, SlotsDiffer
        <5>7. QED
          BY <3>3, <5>6
      <4>2. QED
        BY <3>9, <4>1
    <3>12. (h + 1 - 1) % CacheSize = h
      BY <3>9
    <3>13. run[1] = n
      <4>1. full[h] = n
        BY <3>9 DEF TypeOK
      <4>2. QED
        BY <3>7, <3>11, <3>12, <4>1 DEF Takes
    <3>14. slot' = [s \in Slots |-> Null]
      <4>1. slot' \in [Slots -> Numbers \cup {Null}]
        BY <3>7 DEF Takes
      <4>2. slot'[h] = Null
        BY <3>7, <3>11, <3>12 DEF Takes
      <4>3. ASSUME NEW s \in Slots PROVE slot'[s] = Null
        BY <3>8, <3>10, <4>2 DEF Leaves
      <4>4. QED
        BY <4>1, <4>3
    <3>15. expect' = Id(n + 1)
      BY <3>3, <3>7, <3>9, <3>11, IdAfter DEF Takes
    <3>16. delivered' = [i \in 1 .. n |-> i]
      <4>1. delivered \in Seq(Numbers) /\ DOMAIN delivered = 1 .. m
        BY <3>2 DEF TypeOK
      <4>2. Len(delivered) = m
        BY <3>3, <4>1, LenProperties
      <4>3. delivered' = delivered \o run /\ Len(run) = 1
        BY <3>7, <3>11 DEF Takes
      <4>4. /\ delivered' \in Seq(Numbers) /\ Len(delivered') = n
            /\ \A i \in 1 .. n : delivered'[i] = IF i <= m THEN delivered[i] ELSE run[i - m]
        <5>1. m + 1 = n /\ Len(delivered) + Len(run) = n
          BY <3>3, <3>4, <4>2, <4>3
        <5>2. /\ delivered \o run \in Seq(Numbers) /\ Len(delivered \o run) = n
              /\ \A i \in 1 .. n : (delivered \o run)[i] =
                    IF i <= Len(delivered) THEN delivered[i] ELSE run[i - Len(delivered)]
          BY <4>1, <5>1, ConcatProperties
        <5>3. QED
          BY <4>2, <4>3, <5>2
      <4>5. DOMAIN delivered' = 1 .. n /\ delivered' \in [1 .. n -> Numbers]
        BY <4>4, LenProperties
      <4>6. ASSUME NEW i \in 1 .. n PROVE delivered'[i] = i
        <5>1. CASE i <= m
          <6>1. i \in 1 .. m
            BY <3>3, <5>1
          <6>2. QED
            BY <3>2, <4>4, <5>1, <6>1
        <5>2. CASE ~ (i <= m)
          <6>1. i = n /\ i - m = 1
            BY <3>3, <3>4, <5>2
          <6>2. QED
            BY <3>13, <4>4, <5>2, <6>1
        <5>3. QED
          BY <5>1, <5>2
      <4>7. QED
        BY <4>5, <4>6
    <3>17. \A k \in Numbers : arrivals'[k] = IF k <= n THEN 1 ELSE 0
      <4>1. ASSUME NEW k \in Numbers PROVE arrivals'[k] = IF k <= n THEN 1 ELSE 0
        <5>1. arrivals[n] = 0
          BY <3>1, <3>3
        <5>2. CASE k = n
          BY <3>1, <3>3, <5>1, <5>2 DEF TypeOK
        <5>3. CASE k # n
          BY <3>1, <3>3, <5>3 DEF TypeOK, Numbers
        <5>4. QED
          BY <5>2, <5>3
      <4>2. QED
        BY <4>1
    <3>18. n \in 0 .. LastMsg /\ n # 0 /\ Id(n + 1)' = Id(n + 1)
      BY <2>1, <3>3 DEF Id
    <3>19. QED
      BY <3>14, <3>15, <3>16, <3>17, <3>18 DEF Straight
  <2>4. QED
    BY <2>1, <2>2, <2>3
<1>3. QED
  BY <1>1, <1>2

\* A stream that arrives complete and in order is passed up as it comes, from any
\* first id and over any number of turns of the ids and of the cache.
THEOREM WrapIsCrossed == Spec => []CrossesTheWrap
<1>1. Init => Straight
  <2> SUFFICES ASSUME Init PROVE Straight
    OBVIOUS
  <2>1. 0 \in 0 .. LastMsg
    BY RecvListAssumption
  <2>2. delivered = [i \in 1 .. 0 |-> i]
    BY DEF Init
  <2>3. \A n \in Numbers : arrivals[n] = IF n <= 0 THEN 1 ELSE 0
    BY DEF Init, Numbers
  <2>4. QED
    BY <2>1, <2>2, <2>3 DEF Init, Straight
<1>2. Straight => CrossesTheWrap
  BY DEF Straight, CrossesTheWrap
<1>3. QED
  BY <1>1, <1>2, StraightStep, SlotsInv, PTL DEF Spec
-----------------------------------------------------------------------------
(* The reliable list.                                                      *)

\* What a sequence of messages holds with one more at its end.
LEMMA ToSetAppend ==
    ASSUME NEW S, NEW s \in Seq(S), NEW e \in S
    PROVE  ToSet(Append(s, e)) = ToSet(s) \cup {e}
<1>1. PICK k \in Nat : k = Len(s) /\ DOMAIN s = 1 .. k
  BY LenProperties
<1>2. /\ DOMAIN Append(s, e) = 1 .. k + 1 /\ Append(s, e)[k + 1] = e
      /\ \A i \in 1 .. k : Append(s, e)[i] = s[i]
  <2>1. Append(s, e) \in Seq(S) /\ Len(Append(s, e)) = k + 1
    BY <1>1, AppendProperties
  <2>2. QED
    BY <1>1, <2>1, AppendProperties, LenProperties
<1>3. k + 1 \in 1 .. k + 1 /\ \A i \in 1 .. k + 1 : i \in 1 .. k \/ i = k + 1
  OBVIOUS
<1>4. 1 .. k \subseteq 1 .. k + 1
  OBVIOUS
<1>5. ToSet(Append(s, e)) \subseteq ToSet(s) \cup {e}
  BY <1>1, <1>2, <1>3 DEF ToSet
<1>6. ToSet(s) \cup {e} \subseteq ToSet(Append(s, e))
  BY <1>1, <1>2, <1>3, <1>4 DEF ToSet
<1>7. QED
  BY <1>5, <1>6

\* A sequence without repeats stays one when what it does not hold is appended.
LEMMA AppendIsInjective ==
    ASSUME NEW S, NEW s \in Seq(S), NEW e \in S, IsInjective(s), e \notin ToSet(s)
    PROVE  IsInjective(Append(s, e))
<1>1. PICK k \in Nat : k = Len(s) /\ DOMAIN s = 1 .. k
  BY LenProperties
<1>2. /\ DOMAIN Append(s, e) = 1 .. k + 1 /\ Append(s, e)[k + 1] = e
      /\ \A i \in 1 .. k : Append(s, e)[i] = s[i]
  <2>1. Append(s, e) \in Seq(S) /\ Len(Append(s, e)) = k + 1
    BY <1>1, AppendProperties
  <2>2. QED
    BY <1>1, <2>1, AppendProperties, LenProperties
<1>3. \A i \in 1 .. k + 1 : i \in 1 .. k \/ i = k + 1
  OBVIOUS
<1>4. \A i \in 1 .. k : s[i] # e
  BY <1>1 DEF ToSet
<1>5. QED
  BY <1>1, <1>2, <1>3, <1>4 DEF IsInjective

\* The list remembers the id of each message it has passed up, and nothing else
\* but the zeroes it began with.
Remembers ==
    kind = "reliable" /\ LastMsg <= CacheSize =>
        /\ \A m \in ToSet(delivered) : seen[Hash(Id(m))] = Id(m)
        /\ \A h \in Slots : seen[h] = 0 \/ \E m \in ToSet(delivered) : Id(m) = seen[h]

\* A repeat is known by its id, and only message of id 0 is taken for one
\* when it is not.
LEMMA RememberStep ==
    TypeOK /\ Remembers /\ ReliableOnceEach /\ [Next]_vars => Remembers' /\ ReliableOnceEach'
<1> SUFFICES ASSUME TypeOK, Remembers, ReliableOnceEach, [Next]_vars
             PROVE  Remembers' /\ ReliableOnceEach'
  OBVIOUS
<1>1. CASE UNCHANGED vars
  BY <1>1 DEF vars, Remembers, ReliableOnceEach, Id, Hash
<1>2. CASE Next
  <2>1. PICK n \in Numbers :
          /\ firstId' = firstId /\ kind' = kind
          /\ kind = "reliable" => InsertReliable(n)
    BY <1>2, OneInsert
  <2>2. CASE ~ (kind = "reliable" /\ LastMsg <= CacheSize)
    BY <2>1, <2>2 DEF Remembers, ReliableOnceEach
  <2>3. CASE InsertReliable(n) /\ kind = "reliable" /\ LastMsg <= CacheSize
    <3>0. /\ CacheSize \in Nat \ {0} /\ LastMsg \in Nat /\ n \in Nat /\ firstId \in FirstIds
          /\ Hash(Id(n)) \in Slots /\ delivered \in Seq(Numbers) /\ seen \in [Slots -> Ids]
      <4>1. n \in Nat /\ firstId \in FirstIds
        BY DEF Numbers, TypeOK
      <4>2. Hash(Id(n)) \in Slots
        BY <4>1, IdAndSlot
      <4>3. QED
        BY <4>1, <4>2, RecvListAssumption DEF TypeOK
    <3>1. ToSet(delivered) \subseteq Numbers
      BY <3>0, LenProperties, ElementOfSeq DEF ToSet
    <3>2. answered' \subseteq answered \cup {n}
      BY <2>3 DEF InsertReliable, Answer
    <3>3. \A x : Id(x)' = Id(x) /\ Hash(Id(x))' = Hash(Id(x))
      BY <2>1 DEF Id, Hash
    <3>4. CASE Repeated(n) /\ UNCHANGED <<seen, delivered>>
      <4>1. n \in ToSet(delivered) \/ Id(n) = 0
        <5>1. seen[Hash(Id(n))] = Id(n)
          BY <3>4 DEF Repeated
        <5>2. ASSUME NEW m \in ToSet(delivered), Id(m) = Id(n) PROVE m = n
          <6>1. m \in Nat /\ m - n < IdSpace /\ n - m < IdSpace
            BY <2>3, <3>0, <3>1, Sizes DEF Numbers
          <6>2. QED
            BY <3>0, <5>2, <6>1, IdsDiffer
        <5>3. QED
          BY <2>3, <3>0, <5>1, <5>2 DEF Remembers
      <4>2. Remembers'
        BY <2>3, <3>3, <3>4 DEF Remembers, Id, Hash
      <4>3. ReliableOnceEach'
        BY <2>3, <3>2, <3>4, <4>1, <3>3 DEF ReliableOnceEach, Id
      <4>4. QED
        BY <4>2, <4>3
    <3>5. CASE /\ ~ Repeated(n)
               /\ seen' = [seen EXCEPT ![Hash(Id(n))] = Id(n)]
               /\ delivered' = Append(delivered, n)
      <4>1. n \notin ToSet(delivered)
        BY <2>3, <3>5 DEF Remembers, Repeated
      <4>2. ToSet(delivered') = ToSet(delivered) \cup {n}
        BY <3>0, <3>5, ToSetAppend
      <4>3. IsInjective(delivered')
        BY <2>3, <3>0, <3>5, <4>1, AppendIsInjective DEF ReliableOnceEach
      <4>4. \A m \in ToSet(delivered) : Hash(Id(m)) # Hash(Id(n)) /\ Hash(Id(m)) \in Slots
        <5>1. ASSUME NEW m \in ToSet(delivered), Hash(Id(m)) = Hash(Id(n)) PROVE FALSE
          <6>1. m \in Nat /\ m - n < CacheSize /\ n - m < CacheSize
            BY <2>3, <3>0, <3>1 DEF Numbers
          <6>2. m = n
            BY <3>0, <5>1, <6>1, SlotsDiffer
          <6>3. QED
            BY <4>1, <6>2
        <5>2. ASSUME NEW m \in ToSet(delivered) PROVE Hash(Id(m)) \in Slots
          <6>1. m \in Nat
            BY <3>1 DEF Numbers
          <6>2. QED
            BY <3>0, <6>1, IdAndSlot
        <5>3. QED
          BY <5>1, <5>2
      <4>5. \A m \in ToSet(delivered') : seen'[Hash(Id(m))] = Id(m)
        <5>1. seen'[Hash(Id(n))] = Id(n)
          BY <3>0, <3>5
        <5>2. ASSUME NEW m \in ToSet(delivered) PROVE seen'[Hash(Id(m))] = Id(m)
          BY <2>3, <3>0, <3>5, <4>4 DEF Remembers
        <5>3. QED
          BY <4>2, <5>1, <5>2
      <4>6. \A h \in Slots : seen'[h] = 0 \/ \E m \in ToSet(delivered') : Id(m) = seen'[h]
        <5>1. ASSUME NEW h \in Slots
              PROVE  seen'[h] = 0 \/ \E m \in ToSet(delivered') : Id(m) = seen'[h]
          <6>1. CASE h = Hash(Id(n))
            BY <3>0, <3>5, <4>2, <6>1
          <6>2. CASE h # Hash(Id(n))
            BY <2>3, <3>0, <3>5, <4>2, <6>2 DEF Remembers
          <6>3. QED
            BY <6>1, <6>2
        <5>2. QED
          BY <5>1
      <4>7. Remembers'
        BY <2>1, <4>5, <4>6 DEF Remembers, Id, Hash
      <4>8. ReliableOnceEach'
        <5>1. \A m \in answered' : m \in ToSet(delivered') \/ Id(m) = 0
          BY <2>3, <3>2, <4>2 DEF ReliableOnceEach
        <5>2. QED
          BY <2>1, <4>3, <5>1 DEF ReliableOnceEach, Id
      <4>9. QED
        BY <4>7, <4>8
    <3>6. QED
      BY <2>3, <3>4, <3>5 DEF InsertReliable
  <2>4. QED
    BY <2>1, <2>2, <2>3
<1>3. QED
  BY <1>1, <1>2

\* The reliable list passes up each message once, and each it acks but the one
\* of id 0, within one turn of its cache.
THEOREM OnceEach == Spec => []ReliableOnceEach
<1>1. Init => Remembers /\ ReliableOnceEach
  BY DEF Init, Remembers, ReliableOnceEach, IsInjective, ToSet
<1>2. QED
  BY <1>1, RememberStep, TypeCorrect, PTL DEF Spec
-----------------------------------------------------------------------------
(* The orderly list.                                                       *)

\* The list expects the id of the last message it has passed up, which is the
\* latest of them.
LastIsLatest ==
    kind = "orderly" /\ LastMsg + MaxCompare <= IdSpace =>
        /\ (expect = NoId) <=> (delivered = <<>>)
        /\ expect # NoId => expect = Id(Last(delivered))

\* What is neither too far nor past is no earlier message, unless ids come up again.
LEMMA NearIsLater ==
    ASSUME TypeOK, NEW n \in Numbers, NEW d \in Numbers, Expected(n) = Id(d),
           ~ TooFar(n), ~ Past(n), LastMsg + MaxCompare <= IdSpace
    PROVE  d <= n
<1>1. /\ firstId \in FirstIds /\ IdSpace \in Nat \ {0} /\ MaxCompare \in Nat
      /\ LastMsg \in Nat /\ d \in Nat /\ n \in Nat
      /\ 1 <= d /\ d <= LastMsg /\ 1 <= n /\ n <= LastMsg
  BY RecvListAssumption, Sizes DEF TypeOK, Numbers
<1>2. PICK i \in Nat : i = Id(n)
  BY <1>1, IdAndSlot
<1>3. PICK e \in Nat : e = Id(d)
  BY <1>1, IdAndSlot
<1>4. e <= i /\ i - e <= MaxCompare
  <2>1. Expected(n) = e
    BY <1>3
  <2>2. ~ (i - e > MaxCompare) /\ ~ (i < e)
    BY <1>2, <2>1 DEF TooFar, Past
  <2>3. QED
    BY <1>1, <2>2
<1>5. PICK c \in Nat : c = i - e /\ c <= MaxCompare
  BY <1>4
<1>6. Id(d + c) = Id(n)
  <2>1. After(Id(d), c) = Id(d + c)
    BY <1>1, IdAfter
  <2>2. (e + c) % IdSpace = i
    <3>1. i \in 0 .. IdSpace - 1 /\ e + c = i
      BY <1>1, <1>2, <1>5, IdAndSlot DEF Ids
    <3>2. QED
      BY <1>1, <3>1
  <2>3. QED
    BY <1>2, <1>3, <2>1, <2>2 DEF After
<1>7. ASSUME n < d PROVE FALSE
  <2>1. (d + c) - n < IdSpace /\ n - (d + c) < IdSpace /\ d + c \in Nat
    BY <1>1, <1>5, <1>7
  <2>2. d + c = n
    BY <1>1, <1>6, <2>1, IdsDiffer
  <2>3. QED
    BY <1>1, <1>7, <2>2
<1>8. QED
  BY <1>1, <1>7

\* Of the messages in the window after the last id only those after the last
\* message are left.
LEMMA OrderlyStep ==
    TypeOK /\ LastIsLatest /\ OrderlyNeverGoesBack /\ [Next]_vars
        => LastIsLatest' /\ OrderlyNeverGoesBack'
<1> SUFFICES ASSUME TypeOK, LastIsLatest, OrderlyNeverGoesBack, [Next]_vars
             PROVE  LastIsLatest' /\ OrderlyNeverGoesBack'
  OBVIOUS
<1>1. ASSUME UNCHANGED <<kind, firstId, expect, delivered>>
      PROVE  LastIsLatest' /\ OrderlyNeverGoesBack'
  BY <1>1 DEF LastIsLatest, OrderlyNeverGoesBack, Id
<1>2. CASE UNCHANGED vars
  BY <1>1, <1>2 DEF vars
<1>3. CASE Next
  <2>1. PICK n \in Numbers :
          /\ firstId' = firstId /\ kind' = kind
          /\ kind = "orderly" => InsertOrderly(n)
    BY <1>3, OneInsert
  <2>2. CASE ~ (kind = "orderly" /\ LastMsg + MaxCompare <= IdSpace)
    BY <2>1, <2>2 DEF LastIsLatest, OrderlyNeverGoesBack
  <2>3. CASE InsertOrderly(n) /\ kind = "orderly" /\ LastMsg + MaxCompare <= IdSpace
    <3>1. CASE TooFar(n) /\ Discard(n)
      <4>1. UNCHANGED delivered /\ expect' = expect
        BY <3>1, ExpectedIsKnown DEF Discard
      <4>2. QED
        BY <1>1, <2>1, <4>1
    <3>2. CASE UNCHANGED <<expect, delivered>>
      BY <1>1, <2>1, <3>2
    <3>3. CASE /\ ~ TooFar(n) /\ ~ Past(n)
               /\ expect' = Id(n) /\ delivered' = Append(delivered, n)
      <4>1. PICK k \in Nat : /\ k = Len(delivered) /\ delivered \in Seq(Numbers)
                             /\ DOMAIN delivered = 1 .. k
        BY LenProperties DEF TypeOK
      <4>2. /\ DOMAIN delivered' = 1 .. k + 1 /\ delivered'[k + 1] = n
            /\ \A i \in 1 .. k : delivered'[i] = delivered[i]
            /\ Len(delivered') = k + 1
        <5>1. delivered' \in Seq(Numbers) /\ Len(delivered') = k + 1
          BY <3>3, <4>1, AppendProperties
        <5>2. QED
          BY <3>3, <4>1, <5>1, AppendProperties, LenProperties
      <4>3. Last(delivered') = n /\ delivered' # <<>>
        BY <4>2, EmptySeq DEF Last
      <4>4. expect' # NoId
        BY <3>3, ExpectedIsId, IdAndSlot DEF Ids, NoId
      <4>5. LastIsLatest'
        BY <2>1, <3>3, <4>3, <4>4 DEF LastIsLatest, Last, Id
      <4>6. \A i \in 1 .. k : delivered[i] <= n
        <5> SUFFICES ASSUME NEW i \in 1 .. k PROVE delivered[i] <= n
          OBVIOUS
        <5>1. delivered # <<>> /\ k \in 1 .. k
          BY <4>1, EmptySeq
        <5>2. PICK d \in Numbers : d = Last(delivered) /\ d = delivered[k]
          BY <4>1, <5>1, LastIsOne DEF Last
        <5>3. expect = Id(d) /\ expect # NoId
          BY <2>3, <5>1, <5>2 DEF LastIsLatest
        <5>4. Expected(n) = Id(d)
          BY <5>3 DEF Expected
        <5>5. delivered[i] <= d
          <6>1. delivered[i] \in Numbers
            BY <4>1, ElementOfSeq
          <6>2. CASE i = k
            BY <5>2, <6>1, <6>2, RecvListAssumption DEF Numbers
          <6>3. CASE i # k
            <7>1. i < k
              BY <6>3
            <7>2. QED
              BY <2>3, <4>1, <5>1, <5>2, <7>1 DEF OrderlyNeverGoesBack
          <6>4. QED
            BY <6>2, <6>3
        <5>6. d <= n
          BY <2>3, <3>3, <5>4, NearIsLater DEF Numbers
        <5>7. delivered[i] \in Nat /\ d \in Nat /\ n \in Nat
          <6>1. delivered[i] \in Numbers
            BY <4>1, ElementOfSeq
          <6>2. QED
            BY <6>1, RecvListAssumption DEF Numbers
        <5>8. QED
          BY <5>5, <5>6, <5>7
      <4>7. \A i, j \in 1 .. k + 1 : i < j => delivered'[i] <= delivered'[j]
        <5> SUFFICES ASSUME NEW i \in 1 .. k + 1, NEW j \in 1 .. k + 1, i < j
                     PROVE  delivered'[i] <= delivered'[j]
          OBVIOUS
        <5>1. i \in 1 .. k
          OBVIOUS
        <5>2. CASE j = k + 1
          BY <4>2, <4>6, <5>1, <5>2
        <5>3. CASE j # k + 1
          <6>1. j \in 1 .. k
            BY <5>3
          <6>2. QED
            BY <2>3, <4>1, <4>2, <5>1, <6>1 DEF OrderlyNeverGoesBack
        <5>4. QED
          BY <5>2, <5>3
      <4>8. OrderlyNeverGoesBack'
        BY <4>2, <4>7 DEF OrderlyNeverGoesBack
      <4>9. QED
        BY <4>5, <4>8
    <3>4. QED
      BY <2>3, <3>1, <3>2, <3>3 DEF InsertOrderly
  <2>4. QED
    BY <2>1, <2>2, <2>3
<1>4. QED
  BY <1>2, <1>3

\* The orderly list passes up messages in sending order, as long as the ids of
\* all of them and a window more fit into the id space.
THEOREM NeverBack == Spec => []OrderlyNeverGoesBack
<1>1. Init => LastIsLatest /\ OrderlyNeverGoesBack
  BY DEF Init, LastIsLatest, OrderlyNeverGoesBack
<1>2. QED
  BY <1>1, OrderlyStep, TypeCorrect, PTL DEF Spec
=============================================================================
