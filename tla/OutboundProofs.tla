--------------------------- MODULE OutboundProofs ---------------------------
(***************************************************************************)
(* What Outbound keeps for any number of messages and acks, any sizes and   *)
(* any interleaving of the three threads: its types, the balance of Adds    *)
(* and Gets of the flow queue, how often a message can be sent, and the     *)
(* watch over the acks that are held back.                                  *)
(***************************************************************************)
EXTENDS Outbound, FiniteLemmas, SequenceTheorems, TLAPS

-----------------------------------------------------------------------------
(* Sequences.                                                                *)

\* What a sequence holds after an element is added at its end.
LEMMA RangeOfAppend ==
    ASSUME NEW S, NEW s \in Seq(S), NEW e \in S
    PROVE  Range(Append(s, e)) = Range(s) \cup {e}
<1>1. Range(s) = {s[i] : i \in 1 .. Len(s)}
  BY RangeEquality
<1>2. Range(Append(s, e)) = {Append(s, e)[i] : i \in 1 .. Len(Append(s, e))}
  <2>1. Append(s, e) \in Seq(S)
    BY AppendProperties
  <2>2. QED
    BY <2>1, RangeEquality
<1>3. Len(s) \in Nat
  BY LenProperties
<1>4. /\ Len(Append(s, e)) = Len(s) + 1 /\ Append(s, e)[Len(s) + 1] = e
      /\ \A i \in 1 .. Len(s) : Append(s, e)[i] = s[i]
  BY AppendProperties
<1>5. e \in Range(Append(s, e))
  BY <1>2, <1>3, <1>4
<1>6. Range(s) \subseteq Range(Append(s, e))
  BY <1>1, <1>2, <1>3, <1>4
<1>7. ASSUME NEW i \in 1 .. Len(s) + 1 PROVE Append(s, e)[i] \in Range(s) \cup {e}
  <2>1. CASE i = Len(s) + 1
    BY <1>4, <2>1
  <2>2. CASE i \in 1 .. Len(s)
    BY <1>1, <1>4, <2>2
  <2>3. QED
    BY <1>3, <2>1, <2>2
<1>8. QED
  BY <1>2, <1>4, <1>5, <1>6, <1>7

\* And after its head is taken off.
LEMMA RangeOfTail ==
    ASSUME NEW S, NEW s \in Seq(S), s # <<>>
    PROVE  Range(s) = {Head(s)} \cup Range(Tail(s))
<1>1. Range(s) = {s[i] : i \in 1 .. Len(s)} /\ Len(s) \in Nat \ {0}
  BY RangeEquality, EmptySeq
<1>2. Range(Tail(s)) = {Tail(s)[i] : i \in 1 .. Len(Tail(s))}
  BY HeadTailProperties, RangeEquality
<1>3. Len(Tail(s)) = Len(s) - 1 /\ \A i \in 1 .. Len(s) - 1 : Tail(s)[i] = s[i + 1]
  BY HeadTailProperties
<1>4. Head(s) = s[1]
  OBVIOUS
<1>5. ASSUME NEW i \in 1 .. Len(s), i # 1 PROVE s[i] \in Range(Tail(s))
  <2>1. i - 1 \in 1 .. Len(s) - 1 /\ Tail(s)[i - 1] = s[i]
    BY <1>1, <1>3, <1>5
  <2>2. QED
    BY <1>2, <1>3, <2>1
<1>6. QED
  BY <1>1, <1>2, <1>3, <1>4, <1>5

\* RemoveFirst takes out one occurrence of e at most, and nothing else.
LEMMA RemoveFirstKeeps ==
    ASSUME NEW S, NEW s \in Seq(S), NEW e
    PROVE  /\ RemoveFirst(s, e) \in Seq(S)
           /\ Len(RemoveFirst(s, e)) <= Len(s)
           /\ Range(RemoveFirst(s, e)) \subseteq Range(s)
           /\ Range(s) \ {e} \subseteq Range(RemoveFirst(s, e))
<1> DEFINE I == {i \in 1 .. Len(s) : s[i] = e}
           k == Min(I)
           a == SubSeq(s, 1, k - 1)
           b == SubSeq(s, k + 1, Len(s))
<1>0. Len(s) \in Nat /\ \A i \in 1 .. Len(s) : s[i] \in S
  BY LenProperties, ElementOfSeq
<1>1. CASE I = {}
  <2>1. RemoveFirst(s, e) = s
    BY <1>1 DEF RemoveFirst
  <2>2. QED
    BY <1>0, <2>1
<1>2. CASE I # {}
  <2>1. k \in 1 .. Len(s) /\ s[k] = e
    <3>1. IsFiniteSet(1 .. Len(s)) /\ I \in SUBSET (1 .. Len(s)) /\ I \subseteq Int
      BY <1>0, FS_Interval
    <3>2. k \in I
      BY <1>2, <3>1, FS_Subset, MinIsLeast
    <3>3. QED
      BY <3>2
  <2>2. RemoveFirst(s, e) = a \o b
    BY <1>2 DEF RemoveFirst, RemoveAt, SelectInSeq
  <2> HIDE DEF k
  <2>3. /\ a \in Seq(S) /\ Len(a) = k - 1
        /\ \A i \in 1 .. k - 1 : a[i] = s[i]
    <3>1. \A i \in 1 .. k - 1 : s[i] \in S
      BY <1>0, <2>1
    <3>2. QED
      BY <1>0, <2>1, <3>1, SubSeqProperties
  <2>4. /\ b \in Seq(S) /\ Len(b) = Len(s) - k
        /\ \A i \in 1 .. Len(s) - k : b[i] = s[k + i]
    <3>1. \A i \in k + 1 .. Len(s) : s[i] \in S
      BY <1>0, <2>1
    <3>2. QED
      BY <1>0, <2>1, <3>1, SubSeqProperties
  <2> HIDE DEF a, b
  <2>5. Range(a) = {s[i] : i \in 1 .. k - 1}
    BY <2>3, RangeEquality
  <2>6. Range(b) = {s[k + i] : i \in 1 .. Len(s) - k}
    BY <2>4, RangeEquality
  <2>7. Range(s) = {s[i] : i \in 1 .. Len(s)}
    BY RangeEquality
  <2>8. Range(a \o b) = Range(a) \cup Range(b) /\ a \o b \in Seq(S) /\ Len(a \o b) = Len(s) - 1
    <3>1. Range(a \o b) = Range(a) \cup Range(b)
      BY <2>3, <2>4, RangeConcatenation
    <3>2. a \o b \in Seq(S) /\ Len(a \o b) = Len(a) + Len(b)
      BY <2>3, <2>4, ConcatProperties
    <3>3. Len(a) + Len(b) = Len(s) - 1
      BY <1>0, <2>1, <2>3, <2>4
    <3>4. QED
      BY <3>1, <3>2, <3>3
  <2>9. Range(a) \subseteq Range(s) /\ Range(b) \subseteq Range(s)
    BY <1>0, <2>1, <2>5, <2>6, <2>7
  <2>10. ASSUME NEW i \in 1 .. Len(s), s[i] # e PROVE s[i] \in Range(a) \cup Range(b)
    <3>1. CASE i < k
      BY <1>0, <2>1, <2>5, <3>1
    <3>2. CASE i > k
      <4>1. i - k \in 1 .. Len(s) - k /\ k + (i - k) = i
        BY <1>0, <2>1, <3>2
      <4>2. QED
        BY <2>6, <4>1
    <3>3. QED
      BY <1>0, <2>1, <2>10, <3>1, <3>2
  <2>11. Range(s) \ {e} \subseteq Range(a) \cup Range(b)
    BY <2>7, <2>10
  <2>12. Len(s) - 1 <= Len(s)
    BY <1>0
  <2>13. QED
    BY <2>2, <2>8, <2>9, <2>11, <2>12
<1>3. QED
  BY <1>1, <1>2
-----------------------------------------------------------------------------
(* Types. They need what a thread has in its hands at each step, that the    *)
(* flow queue holds messages that were handed over, and that the messages    *)
(* are handed over in order; that there is one ack timer at most needs the   *)
(* flag.                                                                     *)

AckTypes ==
    /\ pend \subseteq AckId /\ IsFiniteSet(pend) /\ curSize \in 0 .. SizeLimit - 1
    /\ carried \in [Msg -> SUBSET AckId]
    /\ due \subseteq AckId /\ wiped \subseteq AckId /\ cut \in BOOLEAN

TimerTypes ==
    /\ inTimer \in BOOLEAN /\ ackTimers \in 0 .. 1
    /\ ackTimers = 1 => inTimer \/ at["process"] = "flag"

\* The messages with a timer that they do not name.
Loose == {m \in Msg : loose[m] > 0}

InOrder == \E n \in 0 .. Messages : Handed = 1 .. n

MsgTypes ==
    /\ kind \in [Msg -> Kind \cup {"none"}] /\ InOrder
    /\ timers \subseteq Reliable /\ Loose \subseteq Handed /\ Paced \subseteq wasPaced
    /\ wasPaced \subseteq Bodied /\ wasResent \subseteq Handed
    /\ hot \in BOOLEAN /\ work \in 0 .. MaxWork
    /\ acked \subseteq Sent /\ Sent \subseteq Handed

\* How many timers a message has, how often it was handed over and sent.
CountTypes ==
    /\ loose \in [Msg -> Nat] /\ paced \in [Msg -> Nat]
    /\ handed \in [Msg -> Nat] /\ sends \in [Msg -> Nat]

QueueTypes ==
    /\ resend \in Seq(Msg) /\ normal \in Seq(Msg)
    /\ Range(resend) \cup Range(normal) \subseteq Handed

StepNames == {"idle", "size", "flag", "acks", "extra", "resend", "attach", "get", "pace"}

HandTypes ==
    /\ at \in [Thread -> StepNames]
    /\ on \in [Thread -> Handed \cup {None}] /\ got \in [Thread -> Handed \cup {None}]
    /\ \A t \in Thread :
        /\ at[t] \in {"attach", "extra", "resend"} => on[t] # None
        /\ at[t] = "pace" <=> got[t] # None

Typed == AckTypes /\ TimerTypes /\ MsgTypes /\ CountTypes /\ QueueTypes /\ HandTypes

\* The messages with a timer or a body are among those handed over.
LEMMA HandedTypes ==
    /\ Handed \subseteq Msg /\ None \notin Msg /\ Msg \subseteq Nat
    /\ Reliable \subseteq Handed /\ Bodied \subseteq Handed
BY OutboundAssumption DEF Handed, Msg, None, Reliable, Bodied

\* The parts make up the type invariant of the model.
LEMMA TypedIsTypeOK == Typed => TypeOK
BY HandedTypes
   DEF Typed, AckTypes, TimerTypes, MsgTypes, CountTypes, QueueTypes, HandTypes, StepNames, TypeOK
-----------------------------------------------------------------------------
(* GetAck.                                                                   *)

\* How many acks fit is a number.
LEMMA CapacityType == \A limit \in Nat : Capacity(limit) \in Nat
BY DEF Capacity, AckLength, IdLength, TimeLength

\* What is counted modulo SizeLimit stays below it.
LEMMA SizesType ==
    /\ SizeLimit \in Nat \ {0} /\ AckLimit \in Nat
    /\ \A x \in Int : x % SizeLimit \in 0 .. SizeLimit - 1
<1>1. SizeLimit \in Nat \ {0} /\ AckLimit \in Nat
  BY OutboundAssumption DEF AckLength, IdLength, TimeLength
<1>2. QED
  BY <1>1

\* What GetAck leaves, and that it says so when it leaves an ack behind.
LEMMA GetAckLeaves ==
    ASSUME AckTypes, NEW limit \in Nat, GetAck(limit)
    PROVE  /\ Gone(limit) \subseteq pend /\ pend' = pend \ Gone(limit)
           /\ pend' \subseteq AckId /\ IsFiniteSet(pend')
           /\ curSize' \in 0 .. SizeLimit - 1
           /\ cut' \in BOOLEAN /\ (cut => cut') /\ (pend' # {} => cut')
<1>1. Gone(limit) \subseteq pend
  BY DEF Gone, Smallest
<1>2. pend' = pend \ Gone(limit) /\ cut' = (cut \/ pend' # {})
  BY DEF GetAck, LeftOver
<1>3. IsFiniteSet(pend \ Gone(limit))
  BY FS_Difference DEF AckTypes
<1>4. curSize' \in 0 .. SizeLimit - 1
  <2>1. Cardinality(pend) \in Nat /\ Capacity(limit) \in Nat /\ curSize \in Nat
    BY FS_CardinalityType, CapacityType, SizesType DEF AckTypes
  <2>2. Charged(Cardinality(pend), limit) \in Int
    BY <2>1 DEF Charged, AckLength, IdLength, TimeLength
  <2>3. curSize - Charged(Cardinality(pend), limit) \in Int
    BY <2>1, <2>2
  <2>4. QED
    BY <2>3, SizesType DEF GetAck
<1>5. QED
  BY <1>1, <1>2, <1>3, <1>4 DEF AckTypes

\* A GetAck that leaves nothing takes off what it takes.
LEMMA GetAckOfAll ==
    ASSUME AckTypes, NEW limit \in Nat, GetAck(limit), ~ cut'
    PROVE  /\ ~ cut /\ pend' = {}
           /\ curSize' = (curSize - AckLength * Cardinality(pend)) % SizeLimit
<1> DEFINE n == Cardinality(pend)
           c == Capacity(limit)
<1>1. ~ cut /\ pend' = {}
  BY GetAckLeaves
<1>2. n \in Nat /\ c \in Nat
  BY FS_CardinalityType, CapacityType DEF AckTypes
<1>3. n <= c
  <2>1. CASE pend = {}
    <3>1. n = 0
      BY <2>1, FS_EmptySet
    <3>2. QED
      BY <1>2, <3>1
  <2>2. CASE pend # {} /\ ~ (n <= c)
    <3>1. Taken(n, limit) = c
      BY <2>2 DEF Taken
    <3>2. pend \subseteq Int
      BY OutboundAssumption DEF AckTypes
    <3>3. \A i \in pend : Cardinality({j \in pend : j < i}) < c
      <4>1. pend = Gone(limit)
        BY <1>1, GetAckLeaves
      <4>2. Gone(limit) = {i \in pend : Cardinality({j \in pend : j < i}) < c}
        BY <3>1 DEF Gone, Smallest
      <4>3. QED
        BY <4>1, <4>2
    <3>4. n <= c
      <4>1. c \in Int /\ pend # {} /\ IsFiniteSet(pend)
        BY <1>2, <2>2 DEF AckTypes
      <4> HIDE DEF c
      <4>2. (\A i \in pend : Cardinality({j \in pend : j < i}) < c) <=> Cardinality(pend) <= c
        BY <3>2, <4>1, AllAreSmallest
      <4>3. QED
        BY <3>3, <4>2
    <3>5. QED
      BY <2>2, <3>4
  <2>3. QED
    BY <2>1, <2>2
<1>4. Charged(n, limit) = AckLength * n
  BY <1>3 DEF Charged
<1>5. QED
  BY <1>1, <1>4 DEF GetAck
-----------------------------------------------------------------------------
(* Each step keeps the types.                                                *)

\* The types hold at the start.
LEMMA InitTyped == Init => Typed
<1> SUFFICES ASSUME Init PROVE Typed
  OBVIOUS
<1>1. Handed = {} /\ InOrder
  <2>1. Handed = 1 .. 0 /\ 0 \in 0 .. Messages
    BY OutboundAssumption DEF Init, Handed
  <2>2. QED
    BY <2>1 DEF InOrder
<1>2. Range(<<>>) = {} /\ <<>> \in Seq(Msg)
  BY EmptySeq DEF Range
<1>3. 0 \in 0 .. SizeLimit - 1 /\ 0 \in 0 .. MaxWork /\ 0 \in 0 .. 1
  BY SizesType, OutboundAssumption
<1>4. AckTypes
  BY <1>3, FS_EmptySet DEF Init, AckTypes
<1>5. TimerTypes
  <2>1. inTimer = FALSE /\ ackTimers = 0
    BY DEF Init
  <2>2. ackTimers \in 0 .. 1 /\ ackTimers # 1
    BY <1>3, <2>1
  <2>3. QED
    BY <2>1, <2>2 DEF TimerTypes
<1>6. MsgTypes
  <2>1. Sent = {} /\ Paced = {} /\ Loose = {}
    BY DEF Init, Sent, Paced, Loose
  <2>2. QED
    BY <1>1, <1>3, <2>1 DEF Init, MsgTypes
<1>counts. CountTypes
  BY DEF Init, CountTypes
<1>7. QueueTypes
  BY <1>1, <1>2 DEF Init, QueueTypes
<1>8. HandTypes
  BY DEF Init, HandTypes, StepNames
<1>9. QED
  BY <1>4, <1>5, <1>6, <1>counts, <1>7, <1>8 DEF Typed

\* A step that leaves the kinds alone leaves the sets made of them, and a part
\* of the state whose variables do not change keeps its types.
LEMMA KindKept ==
    ASSUME kind' = kind
    PROVE  /\ Handed' = Handed /\ Reliable' = Reliable /\ Bodied' = Bodied
           /\ (InOrder => InOrder')
BY DEF Handed, Reliable, Bodied, InOrder

\* The pended acks and those on messages.
LEMMA AckTypesKept ==
    ASSUME AckTypes, UNCHANGED <<pend, curSize, carried, due, wiped, cut>> PROVE AckTypes'
BY DEF AckTypes

\* The flag and the ack timer: the process thread stays between the two.
LEMMA TimerTypesKept ==
    ASSUME TimerTypes, UNCHANGED <<inTimer, ackTimers>>,
           at["process"] = "flag" => at'["process"] = "flag"
    PROVE  TimerTypes'
BY DEF TimerTypes

\* The messages and what is counted of them.
LEMMA MsgTypesKept ==
    ASSUME MsgTypes, UNCHANGED <<kind, timerVars, paceVars, work, sends, acked>>
    PROVE  MsgTypes'
BY KindKept DEF MsgTypes, timerVars, paceVars, Sent, Paced, Loose

\* And the counts.
LEMMA CountTypesKept ==
    ASSUME CountTypes, UNCHANGED <<loose, paced, handed, sends>> PROVE CountTypes'
BY DEF CountTypes

\* The flow queue.
LEMMA QueueTypesKept ==
    ASSUME QueueTypes, kind' = kind, UNCHANGED queueVars PROVE QueueTypes'
BY KindKept DEF QueueTypes, queueVars

\* A step of thread t to step, with m on its hands and g taken from the queue.
LEMMA HandsMove ==
    ASSUME HandTypes, kind' = kind, NEW t \in Thread, NEW step \in StepNames,
           NEW m \in Handed \cup {None}, NEW g \in Handed \cup {None},
           at' = [at EXCEPT ![t] = step], on' = [on EXCEPT ![t] = m],
           got' = [got EXCEPT ![t] = g],
           step \in {"attach", "extra", "resend"} => m # None,
           step = "pace" <=> g # None
    PROVE  HandTypes'
<1>1. Handed' = Handed
  BY KindKept
<1>2. QED
  BY <1>1 DEF HandTypes

\* One that leaves both as they are.
LEMMA HandsStep ==
    ASSUME HandTypes, kind' = kind, NEW t \in Thread, NEW step \in StepNames,
           Go(t, step), UNCHANGED <<on, got>>,
           step \in {"attach", "extra", "resend"} => on[t] # None,
           step = "pace" <=> got[t] # None
    PROVE  HandTypes'
<1>1. Handed' = Handed
  BY KindKept
<1>2. QED
  BY <1>1 DEF HandTypes, Go

\* A timer that its message no longer names is one more of its loose ones.
LEMMA UnnamedType ==
    ASSUME CountTypes, NEW m \in Msg
    PROVE  /\ Unnamed(m) \in [Msg -> Nat]
           /\ \A n \in Msg : n # m => Unnamed(m)[n] = loose[n]
           /\ Unnamed(m)[m] = IF m \in timers THEN loose[m] + 1 ELSE loose[m]
BY DEF Unnamed, CountTypes

\* ToSend of a message that has a kind by then.
LEMMA TypedToSend ==
    ASSUME Typed, NEW m \in Msg, ToSend(m), m \in Handed',
           kind' \in [Msg -> Kind \cup {"none"}], InOrder',
           Handed \subseteq Handed', Reliable \subseteq Reliable', Bodied \subseteq Bodied',
           kind'[m] # "plain" => m \in Reliable'
    PROVE  Typed'
<1>1. /\ work < MaxWork /\ work' = work + 1 /\ handed' = [handed EXCEPT ![m] = @ + 1]
      /\ \/ kind'[m] # "plain" /\ timers' = timers \cup {m} /\ loose' = Unnamed(m)
         \/ UNCHANGED timerVars
      /\ at' = [at EXCEPT !["process"] = "attach"] /\ on' = [on EXCEPT !["process"] = m]
      /\ at["process"] = "idle"
      /\ UNCHANGED <<ackVars, queueVars, paceVars, got, due, wiped, cut, sends, acked>>
  BY DEF ToSend, Go
<1>2. AckTypes'
  BY <1>1, AckTypesKept DEF Typed, ackVars
<1>3. TimerTypes'
  BY <1>1, TimerTypesKept DEF Typed, ackVars
<1>4. MsgTypes'
  <2>1. timers' \subseteq Reliable'
    BY <1>1 DEF Typed, MsgTypes, timerVars
  <2>2. work' \in 0 .. MaxWork
    BY <1>1, OutboundAssumption DEF Typed, MsgTypes
  <2>3. Sent' = Sent /\ Paced' = Paced
    BY <1>1 DEF Sent, Paced, paceVars
  <2>4. Loose' \subseteq Loose \cup {m}
    BY <1>1, UnnamedType DEF Loose, Typed, timerVars
  <2>5. QED
    BY <1>1, <2>1, <2>2, <2>3, <2>4 DEF Typed, MsgTypes, paceVars
<1>5. CountTypes'
  <2>1. Unnamed(m) \in [Msg -> Nat]
    BY UnnamedType DEF Typed
  <2>2. loose' \in [Msg -> Nat]
    BY <1>1, <2>1 DEF Typed, CountTypes, timerVars
  <2>3. handed' \in [Msg -> Nat]
    BY <1>1 DEF Typed, CountTypes
  <2>4. QED
    BY <1>1, <2>2, <2>3 DEF Typed, CountTypes, paceVars
<1>6. QueueTypes'
  BY <1>1 DEF Typed, QueueTypes, queueVars
<1>7. HandTypes'
  BY <1>1, HandedTypes DEF Typed, HandTypes, StepNames, Thread
<1>8. QED
  BY <1>2, <1>3, <1>4, <1>5, <1>6, <1>7 DEF Typed

\* The next message is one that was not handed over before.
LEMMA NextMessage ==
    ASSUME Typed, NEW k \in Kind, Submit(k)
    PROVE  \E m \in Msg :
               /\ m \notin Handed /\ kind[m] = "none" /\ Handed' = Handed \cup {m}
               /\ kind' = [kind EXCEPT ![m] = k] /\ ToSend(m) /\ InOrder'
<1> DEFINE m == Cardinality(Handed) + 1
<1>1. PICK n \in 0 .. Messages : Handed = 1 .. n
  BY DEF Typed, MsgTypes, InOrder
<1>2. n \in Nat /\ m = n + 1 /\ m \in Msg /\ m \notin Handed
  <2>1. n \in Nat /\ n \in Int /\ 1 \in Int
    BY <1>1, OutboundAssumption
  <2>2. Cardinality(1 .. n) = n
    BY <2>1, FS_Interval
  <2>3. QED
    BY <1>1, <2>1, <2>2 DEF Submit
<1> HIDE DEF m
<1>3. kind' = [kind EXCEPT ![m] = k] /\ ToSend(m)
  BY DEF Submit, m
<1>4. k # "none" /\ kind \in [Msg -> Kind \cup {"none"}]
  BY DEF Kind, Typed, MsgTypes
<1>5. kind[m] = "none"
  BY <1>2 DEF Handed
<1>6. Handed' = Handed \cup {m}
  BY <1>2, <1>3, <1>4 DEF Handed
<1>7. InOrder'
  <2>1. Handed' = 1 .. n + 1
    BY <1>1, <1>2, <1>6
  <2>2. n + 1 \in 0 .. Messages
    BY <1>2, OutboundAssumption DEF Msg
  <2>3. QED
    BY <2>1, <2>2 DEF InOrder
<1>8. QED
  BY <1>2, <1>3, <1>5, <1>6, <1>7

\* A new message is handed over.
LEMMA TypedSubmit ==
    ASSUME Typed, NEW k \in Kind, Submit(k) PROVE Typed'
<1>1. PICK m \in Msg :
          /\ m \notin Handed /\ kind[m] = "none" /\ Handed' = Handed \cup {m}
          /\ kind' = [kind EXCEPT ![m] = k] /\ ToSend(m) /\ InOrder'
  BY NextMessage
<1>2. kind \in [Msg -> Kind \cup {"none"}]
  BY DEF Typed, MsgTypes
<1>3. kind' \in [Msg -> Kind \cup {"none"}] /\ kind'[m] = k
  BY <1>1, <1>2
<1>4. Reliable \subseteq Reliable' /\ Bodied \subseteq Bodied'
      /\ (kind'[m] # "plain" => m \in Reliable')
  BY <1>1, <1>2, <1>3 DEF Reliable, Bodied, Kind
<1>5. m \in Handed' /\ Handed \subseteq Handed'
  BY <1>1
<1>6. QED
  BY <1>1, <1>3, <1>4, <1>5, TypedToSend

\* One that is in flight is handed over again.
LEMMA TypedQuickResend ==
    ASSUME Typed, NEW m \in Msg, QuickResend(m) PROVE Typed'
<1>1. m \in Reliable /\ kind' = kind /\ ToSend(m)
  BY DEF QuickResend
<1>2. Handed' = Handed /\ Reliable' = Reliable /\ Bodied' = Bodied /\ InOrder'
  BY <1>1, KindKept DEF Typed, MsgTypes
<1>3. m \in Handed' /\ kind' \in [Msg -> Kind \cup {"none"}]
  BY <1>1, <1>2, HandedTypes DEF Typed, MsgTypes
<1>4. QED
  BY <1>1, <1>2, <1>3, TypedToSend

\* What RemoveTimer leaves of the timers.
LEMMA EraseLeaves ==
    ASSUME TimerTypes, CountTypes, NEW named, EraseList(named)
    PROVE  /\ timers' \subseteq timers \ named
           /\ loose' \in [Msg -> Nat] /\ \A m \in Msg : loose'[m] <= loose[m]
           /\ Loose' \subseteq Loose
           /\ ackTimers' \in 0 .. 1 /\ ackTimers' <= ackTimers
<1>1. PICK left \in [Msg -> 0 .. MaxWork] : (\A m \in Msg : left[m] <= loose[m]) /\ loose' = left
  BY DEF EraseList
<1>2. left \in [Msg -> Nat]
  BY <1>1, OutboundAssumption
<1>3. ackTimers' \in 0 .. 1 /\ ackTimers' <= ackTimers
  BY DEF EraseList, TimerTypes
<1>4. timers' \subseteq timers \ named
  BY DEF EraseList
<1>5. Loose' \subseteq Loose
  BY <1>1, <1>2 DEF Loose, CountTypes
<1>6. QED
  BY <1>1, <1>2, <1>3, <1>4, <1>5

\* The ack timer with its neighbours: the flag stays up without it.
LEMMA TimerTypesErased ==
    ASSUME TimerTypes, at["process"] = "idle", at' = at, inTimer' = inTimer,
           ackTimers' \in 0 .. 1, ackTimers' <= ackTimers
    PROVE  TimerTypes'
<1>1. inTimer \in BOOLEAN /\ ackTimers \in 0 .. 1 /\ (ackTimers = 1 => inTimer)
  BY DEF TimerTypes
<1>2. ackTimers' = 1 => inTimer'
  BY <1>1
<1>3. QED
  BY <1>1, <1>2 DEF TimerTypes

\* AckDone takes the message out of the queues.
LEMMA TypedAckDone ==
    ASSUME Typed, NEW m \in Msg, AckDone(m) PROVE Typed'
<1>1. /\ kind' = kind /\ m \in Sent \cap Reliable /\ acked' = acked \cup {m}
      /\ EraseList({m}) /\ at["process"] = "idle"
      /\ resend' = RemoveFirst(resend, m)
      /\ (normal' = normal \/ normal' = RemoveFirst(normal, m))
      /\ UNCHANGED <<pend, curSize, inTimer, carried, paceVars, threadVars, ackHistory, handed,
                     sends>>
  BY DEF AckDone, ResendWithout, NormalWithout
<1>2. /\ timers' \subseteq timers /\ loose' \in [Msg -> Nat] /\ Loose' \subseteq Loose
      /\ ackTimers' \in 0 .. 1 /\ ackTimers' <= ackTimers
  BY <1>1, EraseLeaves DEF Typed
<1>3. AckTypes'
  BY <1>1, AckTypesKept DEF Typed, ackHistory
<1>4. TimerTypes'
  BY <1>1, <1>2, TimerTypesErased DEF Typed, threadVars
<1>5. MsgTypes'
  <2>1. Sent' = Sent /\ Paced' = Paced
    BY <1>1 DEF Sent, Paced, paceVars
  <2>2. Handed' = Handed /\ Reliable' = Reliable /\ Bodied' = Bodied /\ InOrder'
    BY <1>1, KindKept DEF Typed, MsgTypes
  <2>3. QED
    BY <1>1, <1>2, <2>1, <2>2 DEF Typed, MsgTypes, paceVars, ackHistory
<1>6. CountTypes'
  BY <1>1, <1>2 DEF Typed, CountTypes, paceVars
<1>7. QueueTypes'
  <2>1. RemoveFirst(resend, m) \in Seq(Msg) /\ Range(RemoveFirst(resend, m)) \subseteq Range(resend)
    BY RemoveFirstKeeps DEF Typed, QueueTypes
  <2>2. RemoveFirst(normal, m) \in Seq(Msg) /\ Range(RemoveFirst(normal, m)) \subseteq Range(normal)
    BY RemoveFirstKeeps DEF Typed, QueueTypes
  <2>3. QED
    BY <1>1, <2>1, <2>2, KindKept DEF Typed, QueueTypes
<1>8. HandTypes'
  BY <1>1, KindKept DEF Typed, HandTypes, threadVars
<1>9. QED
  BY <1>3, <1>4, <1>5, <1>6, <1>7, <1>8 DEF Typed

\* Another socket's AckDone takes timers at most.
LEMMA TypedElsewhere == Typed /\ AckDoneElsewhere => Typed'
<1> SUFFICES ASSUME Typed, AckDoneElsewhere PROVE Typed'
  OBVIOUS
<1>1. /\ timers' \subseteq timers /\ loose' \in [Msg -> Nat] /\ Loose' \subseteq Loose
      /\ ackTimers' \in 0 .. 1 /\ ackTimers' <= ackTimers
  BY EraseLeaves DEF AckDoneElsewhere, Typed
<1>2. AckTypes'
  BY AckTypesKept DEF AckDoneElsewhere, Typed, ackHistory
<1>3. TimerTypes'
  BY <1>1, TimerTypesErased DEF AckDoneElsewhere, Typed, threadVars
<1>4. MsgTypes'
  <2>1. Sent' = Sent /\ Paced' = Paced
    BY DEF AckDoneElsewhere, Sent, Paced, paceVars, msgHistory
  <2>2. Handed' = Handed /\ Reliable' = Reliable /\ Bodied' = Bodied /\ InOrder'
    BY KindKept DEF AckDoneElsewhere, Typed, MsgTypes
  <2>3. QED
    BY <1>1, <2>1, <2>2 DEF AckDoneElsewhere, Typed, MsgTypes, paceVars, ackHistory, msgHistory
<1>5. CountTypes'
  BY <1>1 DEF AckDoneElsewhere, Typed, CountTypes, paceVars, msgHistory
<1>6. QueueTypes'
  BY QueueTypesKept DEF AckDoneElsewhere, Typed
<1>7. HandTypes'
  BY KindKept DEF AckDoneElsewhere, Typed, HandTypes, threadVars
<1>8. QED
  BY <1>2, <1>3, <1>4, <1>5, <1>6, <1>7 DEF Typed

\* AddAck pends an ack and leaves the process thread at its test.
LEMMA TypedAddAck ==
    ASSUME Typed, NEW i \in AckId, AddAck(i) PROVE Typed'
<1>1. AckTypes'
  <2>1. pend' = pend \cup {i} /\ IsFiniteSet(pend \cup {i})
    BY FS_AddElement DEF AddAck, Typed, AckTypes
  <2>2. curSize' \in 0 .. SizeLimit - 1
    <3>1. curSize + AckLength \in Int
      BY SizesType DEF Typed, AckTypes, AckLength, IdLength, TimeLength
    <3>2. QED
      BY <3>1, SizesType DEF AddAck
  <2>3. QED
    BY <2>1, <2>2 DEF AddAck, Typed, AckTypes
<1>2. TimerTypes'
  BY TimerTypesKept DEF AddAck, Typed
<1>3. MsgTypes'
  <2>1. work' \in 0 .. MaxWork
    BY OutboundAssumption DEF AddAck, Typed, MsgTypes
  <2>2. QED
    BY <2>1, KindKept
       DEF AddAck, Typed, MsgTypes, timerVars, paceVars, msgHistory, Sent, Paced, Loose
<1>4. QueueTypes'
  BY QueueTypesKept DEF AddAck, Typed
<1>5. HandTypes'
  <2>1. "process" \in Thread /\ "size" \in StepNames
    BY DEF Thread, StepNames
  <2>2. got["process"] = None
    BY <2>1 DEF AddAck, Typed, HandTypes
  <2>3. QED
    BY <2>1, <2>2, HandsStep DEF AddAck, Typed
<1>6. CountTypes'
  BY CountTypesKept DEF AddAck, Typed, timerVars, paceVars, msgHistory
<1>7. QED
  BY <1>1, <1>2, <1>3, <1>4, <1>5, <1>6 DEF Typed

\* ArmTimer sets no second ack timer, as a down flag means that there is none.
LEMMA TypedArmTimer ==
    ASSUME Typed, ArmTimer PROVE Typed'
<1>1. AckTypes'
  <2>1. CASE GetAck(AckRoom) /\ Leave(Gone(AckRoom))
    BY <2>1, GetAckLeaves, OutboundAssumption DEF ArmTimer, Leave, Typed, AckTypes
  <2>2. CASE UNCHANGED <<pend, curSize, cut, due>>
    BY <2>2, AckTypesKept DEF ArmTimer, Typed
  <2>3. QED
    BY <2>1, <2>2 DEF ArmTimer
<1>2. TimerTypes'
  <2>1. inTimer' = inTimer /\ inTimer \in BOOLEAN /\ ackTimers \in {0, 1}
        /\ at["process"] = "size" /\ (ackTimers = 1 => inTimer)
    BY DEF ArmTimer, Typed, TimerTypes
  <2>2. CASE ~ inTimer
    <3>1. ackTimers = 0 /\ ackTimers' = 1 /\ at'["process"] = "flag"
      BY <2>1, <2>2 DEF ArmTimer, NeedsTimer, Go, Typed, HandTypes, Thread
    <3>2. ackTimers' \in 0 .. 1
      BY <3>1
    <3>3. QED
      BY <2>1, <3>1, <3>2 DEF TimerTypes
  <2>3. CASE inTimer
    <3>1. ackTimers' = ackTimers
      BY <2>3 DEF ArmTimer, NeedsTimer
    <3>2. ackTimers' \in 0 .. 1
      BY <2>1, <3>1
    <3>3. QED
      BY <2>1, <2>3, <3>2 DEF TimerTypes
  <2>4. QED
    BY <2>2, <2>3
<1>3. MsgTypes'
  BY MsgTypesKept DEF ArmTimer, Typed, timerVars, msgHistory
<1>4. QueueTypes'
  BY QueueTypesKept DEF ArmTimer, Typed
<1>5. HandTypes'
  <2>1. "process" \in Thread /\ "flag" \in StepNames /\ "idle" \in StepNames
    BY DEF Thread, StepNames
  <2>2. got["process"] = None
    BY <2>1 DEF ArmTimer, Typed, HandTypes
  <2>3. CASE Go("process", "flag")
    BY <2>1, <2>2, <2>3, HandsStep DEF ArmTimer, Typed
  <2>4. CASE Go("process", "idle")
    BY <2>1, <2>2, <2>4, HandsStep DEF ArmTimer, Typed
  <2>5. QED
    BY <2>3, <2>4 DEF ArmTimer
<1>6. CountTypes'
  BY CountTypesKept DEF ArmTimer, Typed, timerVars, paceVars, msgHistory
<1>7. QED
  BY <1>1, <1>2, <1>3, <1>4, <1>5, <1>6 DEF Typed

\* RaiseFlag raises the flag of the timer that was set, or of none.
LEMMA TypedRaiseFlag ==
    ASSUME Typed, RaiseFlag PROVE Typed'
<1>1. AckTypes'
  BY AckTypesKept DEF RaiseFlag, Typed, ackHistory
<1>2. TimerTypes'
  BY DEF RaiseFlag, FlagUp, Typed, TimerTypes
<1>3. MsgTypes'
  BY MsgTypesKept DEF RaiseFlag, Typed, timerVars, msgHistory, ackHistory
<1>4. QueueTypes'
  BY QueueTypesKept DEF RaiseFlag, Typed
<1>5. HandTypes'
  <2>1. "process" \in Thread /\ "idle" \in StepNames
    BY DEF Thread, StepNames
  <2>2. got["process"] = None
    BY <2>1 DEF RaiseFlag, Typed, HandTypes
  <2>3. QED
    BY <2>1, <2>2, HandsStep DEF RaiseFlag, Typed
<1>6. CountTypes'
  BY CountTypesKept DEF RaiseFlag, Typed, timerVars, paceVars, msgHistory
<1>7. QED
  BY <1>1, <1>2, <1>3, <1>4, <1>5, <1>6 DEF Typed

\* AckTimerOut takes the ack timer and the flag down together.
LEMMA TypedAckTimerOut ==
    ASSUME Typed, AckTimerOut PROVE Typed'
<1>1. AckTypes'
  BY AckTypesKept DEF AckTimerOut, Typed, ackHistory
<1>2. TimerTypes'
  <2>1. ackTimers' = 0 /\ inTimer' = FALSE
    BY DEF AckTimerOut, Typed, TimerTypes
  <2>2. ackTimers' \in 0 .. 1 /\ ackTimers' # 1
    BY <2>1
  <2>3. QED
    BY <2>1, <2>2 DEF TimerTypes
<1>3. MsgTypes'
  BY MsgTypesKept DEF AckTimerOut, Typed, timerVars, msgHistory, ackHistory
<1>4. QueueTypes'
  BY QueueTypesKept DEF AckTimerOut, Typed
<1>5. HandTypes'
  <2>1. "timer" \in Thread /\ "acks" \in StepNames
    BY DEF Thread, StepNames
  <2>2. got["timer"] = None
    BY <2>1 DEF AckTimerOut, Typed, HandTypes
  <2>3. QED
    BY <2>1, <2>2, HandsStep DEF AckTimerOut, Typed
<1>6. CountTypes'
  BY CountTypesKept DEF AckTimerOut, Typed, timerVars, paceVars, msgHistory
<1>7. QED
  BY <1>1, <1>2, <1>3, <1>4, <1>5, <1>6 DEF Typed

\* SendAcks takes pended acks and leaves the timer thread idle.
LEMMA TypedSendAcks ==
    ASSUME Typed, SendAcks PROVE Typed'
<1>0. "timer" \in Thread /\ "idle" \in StepNames
  BY DEF Thread, StepNames
<1>1. AckTypes'
  BY GetAckLeaves, OutboundAssumption DEF SendAcks, Leave, Typed, AckTypes
<1>2. TimerTypes'
  BY <1>0, TimerTypesKept DEF SendAcks, Rest, Typed, HandTypes, Thread
<1>3. MsgTypes'
  BY MsgTypesKept DEF SendAcks, Typed, timerVars, msgHistory
<1>4. QueueTypes'
  BY QueueTypesKept DEF SendAcks, Typed
<1>5. HandTypes'
  <2>1. got["timer"] = None
    BY <1>0 DEF SendAcks, Typed, HandTypes
  <2>2. Handed' = Handed
    BY KindKept DEF SendAcks
  <2>3. QED
    BY <1>0, <2>1, <2>2 DEF SendAcks, Rest, Typed, HandTypes
<1>6. CountTypes'
  BY CountTypesKept DEF SendAcks, Typed, timerVars, paceVars, msgHistory
<1>7. QED
  BY <1>1, <1>2, <1>3, <1>4, <1>5, <1>6 DEF Typed

\* TimerOut gives the thread a message that was handed over.
LEMMA TypedTimerOut ==
    ASSUME Typed, NEW t \in Thread, NEW m \in Msg, TimerOut(t, m) PROVE Typed'
<1>1. AckTypes'
  BY AckTypesKept DEF TimerOut, Typed, ackVars, ackHistory
<1>2. TimerTypes'
  BY TimerTypesKept DEF TimerOut, Go, Typed, HandTypes, Thread, ackVars
<1>3. MsgTypes'
  <2>1. Handed' = Handed /\ Reliable' = Reliable /\ Bodied' = Bodied /\ InOrder'
    BY KindKept DEF TimerOut, Typed, MsgTypes
  <2>2. Sent' = Sent /\ Paced' \subseteq Paced
    BY DEF TimerOut, Sent, Paced, msgHistory, Typed, CountTypes
  <2>3. timers' \subseteq timers /\ Loose' \subseteq Loose
    BY DEF TimerOut, timerVars, Loose, Typed, CountTypes
  <2>4. QED
    BY <2>1, <2>2, <2>3 DEF TimerOut, Typed, MsgTypes, ackHistory, msgHistory
<1>4. QueueTypes'
  BY QueueTypesKept DEF TimerOut, Typed
<1>5. HandTypes'
  <2>1. m \in Handed /\ m # None
    <3>1. m \in timers \/ m \in Loose \/ m \in Paced
      BY DEF TimerOut, Paced, Loose
    <3>2. QED
      BY <3>1, HandedTypes DEF Typed, MsgTypes
  <2>2. got[t] = None /\ Handed' = Handed
    BY KindKept DEF TimerOut, Typed, HandTypes
  <2>3. QED
    BY <2>1, <2>2 DEF TimerOut, FirstStep, Go, Typed, HandTypes, StepNames
<1>6. CountTypes'
  <2>1. /\ loose[m] > 0 => [loose EXCEPT ![m] = @ - 1] \in [Msg -> Nat]
        /\ paced[m] > 0 => [paced EXCEPT ![m] = @ - 1] \in [Msg -> Nat]
    BY DEF Typed, CountTypes
  <2>2. loose' \in [Msg -> Nat] /\ paced' \in [Msg -> Nat]
    BY <2>1 DEF TimerOut, timerVars, Typed, CountTypes
  <2>3. QED
    BY <2>2 DEF TimerOut, msgHistory, Typed, CountTypes
<1>7. QED
  BY <1>1, <1>2, <1>3, <1>4, <1>5, <1>6 DEF Typed

\* What Enqueue leaves, on whichever thread.
LEMMA EnqueueLeaves ==
    ASSUME Typed, NEW t \in Thread, at[t] \in {"attach", "resend"}, NEW resent, Enqueue(t, resent)
    PROVE  /\ on[t] \in Handed /\ Room(on[t]) \in Nat
           /\ GetAck(Room(on[t])) /\ Gone(Room(on[t])) \subseteq pend
           /\ carried' \in [Msg -> SUBSET AckId] /\ wiped' \subseteq AckId
           /\ \/ resend' = Append(resend, on[t]) /\ normal' = normal
              \/ normal' = Append(normal, on[t]) /\ resend' = resend
<1>1. on[t] \in Handed /\ on[t] \in Msg
  BY HandedTypes DEF Typed, HandTypes
<1>2. Room(on[t]) \in Nat
  BY OutboundAssumption DEF Room
<1>3. GetAck(Room(on[t])) /\ Gone(Room(on[t])) \subseteq pend
  BY <1>2, GetAckLeaves DEF Enqueue, Typed
<1>4. carried' \in [Msg -> SUBSET AckId] /\ wiped' \subseteq AckId
  BY <1>1, <1>3 DEF Enqueue, Typed, AckTypes
<1>5. QED
  BY <1>1, <1>2, <1>3, <1>4 DEF Enqueue

\* Enqueue keeps all types but those of the messages, which it leaves alone.
LEMMA EnqueueTypes ==
    ASSUME Typed, kind' = kind, NEW t \in Thread, at[t] \in {"attach", "resend"}, NEW resent,
           Enqueue(t, resent), UNCHANGED <<inTimer, ackTimers, on, got, due>>
    PROVE  AckTypes' /\ TimerTypes' /\ QueueTypes' /\ HandTypes'
<1>1. AckTypes'
  BY EnqueueLeaves, GetAckLeaves DEF Typed, AckTypes
<1>2. TimerTypes'
  BY TimerTypesKept DEF Enqueue, Go, Typed, HandTypes, Thread
<1>3. QueueTypes'
  <2>1. on[t] \in Msg /\ on[t] \in Handed
    BY EnqueueLeaves, HandedTypes
  <2>2. /\ Append(resend, on[t]) \in Seq(Msg) /\ Append(normal, on[t]) \in Seq(Msg)
        /\ Range(Append(resend, on[t])) = Range(resend) \cup {on[t]}
        /\ Range(Append(normal, on[t])) = Range(normal) \cup {on[t]}
    BY <2>1, AppendProperties, RangeOfAppend DEF Typed, QueueTypes
  <2>3. Handed' = Handed
    BY KindKept
  <2>4. QED
    BY <2>1, <2>2, <2>3, EnqueueLeaves DEF Typed, QueueTypes
<1>4. HandTypes'
  <2>1. got[t] = None /\ "get" \in StepNames
    BY DEF Typed, HandTypes, StepNames
  <2>2. QED
    BY <2>1, HandsStep DEF Enqueue, Typed
<1>5. QED
  BY <1>1, <1>2, <1>3, <1>4

\* Attach ends in Enqueue.
LEMMA TypedAttach ==
    ASSUME Typed, Attach PROVE Typed'
<1>1. "process" \in Thread
  BY DEF Thread
<1>2. AckTypes' /\ TimerTypes' /\ QueueTypes' /\ HandTypes'
  BY <1>1, EnqueueTypes DEF Attach
<1>3. MsgTypes'
  BY MsgTypesKept DEF Attach, Typed, timerVars, msgHistory
<1>4. CountTypes'
  BY CountTypesKept DEF Attach, Typed, timerVars, paceVars, msgHistory
<1>5. QED
  BY <1>2, <1>3, <1>4 DEF Typed

\* Resend gives the message up or ends in Enqueue.
LEMMA TypedResend ==
    ASSUME Typed, NEW t \in Thread, Resend(t) PROVE Typed'
<1>0. on[t] \in Handed /\ on[t] \in Msg /\ got[t] = None
  BY HandedTypes DEF Resend, Typed, HandTypes
<1>kept. Handed' = Handed /\ Reliable' = Reliable /\ Bodied' = Bodied /\ InOrder'
  BY KindKept DEF Resend, Typed, MsgTypes
<1>same. UNCHANGED <<Sent, Paced, Loose, timers, work, wasPaced, hot, acked>> /\ CountTypes'
  BY CountTypesKept DEF Resend, Sent, Paced, Loose, timerVars, msgHistory, Typed
<1>1. CASE /\ Rest(t) /\ wiped' = wiped \cup carried[on[t]]
           /\ UNCHANGED <<pend, curSize, cut, carried, queueVars, wasResent>>
  <2>1. AckTypes'
    BY <1>0, <1>1 DEF Resend, Typed, AckTypes
  <2>2. TimerTypes'
    BY <1>1, TimerTypesKept DEF Resend, Rest, Typed, HandTypes, Thread
  <2>3. MsgTypes'
    BY <1>0, <1>kept, <1>same, <1>1 DEF Resend, Typed, MsgTypes
  <2>4. QueueTypes'
    BY <1>1, QueueTypesKept DEF Resend, Typed
  <2>5. HandTypes'
    BY <1>0, <1>kept, <1>1 DEF Resend, Rest, Typed, HandTypes, StepNames
  <2>6. QED
    BY <2>1, <2>2, <2>3, <2>4, <2>5, <1>same DEF Typed
<1>2. CASE /\ wasResent' = wasResent \cup {on[t]} /\ Enqueue(t, wasResent')
           /\ UNCHANGED on
  <2>1. AckTypes' /\ TimerTypes' /\ QueueTypes' /\ HandTypes'
    BY <1>2, EnqueueTypes DEF Resend
  <2>2. MsgTypes'
    BY <1>0, <1>kept, <1>same, <1>2 DEF Resend, Typed, MsgTypes
  <2>3. QED
    BY <2>1, <2>2, <1>same DEF Typed
<1>3. QED
  BY <1>1, <1>2 DEF Resend

\* What Get takes, and where the thread goes.
LEMMA GetLeaves ==
    ASSUME Typed, NEW t \in Thread, Get(t)
    PROVE  \/ /\ resend # <<>> /\ resend' = Tail(resend) /\ normal' = normal
              /\ Head(resend) \in Handed /\ got' = [got EXCEPT ![t] = Head(resend)]
              /\ Go(t, "pace")
           \/ /\ resend = <<>> /\ normal # <<>> /\ normal' = Tail(normal) /\ resend' = resend
              /\ Head(normal) \in Handed /\ got' = [got EXCEPT ![t] = Head(normal)]
              /\ Go(t, "pace")
           \/ /\ resend = <<>> /\ normal = <<>> /\ UNCHANGED <<got, queueVars>>
              /\ Go(t, IF at[t] = "get" THEN "idle" ELSE "resend")
<1>1. got[t] = None /\ got \in [Thread -> Handed \cup {None}] /\ None \notin Handed
  BY HandedTypes DEF Get, Typed, HandTypes
<1>2. CASE resend # <<>>
  <2>1. Head(resend) \in Handed
    BY <1>2, RangeOfTail DEF Typed, QueueTypes
  <2>2. /\ got' = [got EXCEPT ![t] = Head(resend)] /\ resend' = Tail(resend) /\ normal' = normal
    BY <1>2 DEF Get, Queued, Popped
  <2>3. got'[t] # None
    BY <1>1, <2>1, <2>2
  <2>4. QED
    BY <1>2, <2>1, <2>2, <2>3 DEF Get
<1>3. CASE resend = <<>> /\ normal # <<>>
  <2>1. Head(normal) \in Handed
    BY <1>3, RangeOfTail DEF Typed, QueueTypes
  <2>2. /\ got' = [got EXCEPT ![t] = Head(normal)] /\ normal' = Tail(normal) /\ resend' = resend
    BY <1>3 DEF Get, Queued, Popped
  <2>3. got'[t] # None
    BY <1>1, <2>1, <2>2
  <2>4. QED
    BY <1>3, <2>1, <2>2, <2>3 DEF Get
<1>4. CASE resend = <<>> /\ normal = <<>>
  BY <1>1, <1>4 DEF Get, Queued
<1>5. QED
  BY <1>2, <1>3, <1>4

\* Get takes a message that was handed over, or none.
LEMMA TypedGet ==
    ASSUME Typed, NEW t \in Thread, Get(t) PROVE Typed'
<1>0. Handed' = Handed
  BY KindKept DEF Get
<1>1. AckTypes'
  BY AckTypesKept DEF Get, Typed, ackVars, ackHistory
<1>2. TimerTypes'
  BY TimerTypesKept DEF Get, Go, Typed, HandTypes, Thread, ackVars
<1>3. MsgTypes'
  BY MsgTypesKept DEF Get, Typed, timerVars, msgHistory, ackHistory
<1>4. QueueTypes'
  <2>1. resend # <<>> => Tail(resend) \in Seq(Msg) /\ Range(Tail(resend)) \subseteq Range(resend)
    BY HeadTailProperties, RangeOfTail DEF Typed, QueueTypes
  <2>2. normal # <<>> => Tail(normal) \in Seq(Msg) /\ Range(Tail(normal)) \subseteq Range(normal)
    BY HeadTailProperties, RangeOfTail DEF Typed, QueueTypes
  <2>3. QED
    BY <1>0, <2>1, <2>2, GetLeaves DEF Typed, QueueTypes, queueVars
<1>5. HandTypes'
  <2>1. on' = IF at[t] = "get" THEN [on EXCEPT ![t] = None] ELSE on
    BY DEF Get
  <2>2. at[t] = "get" \/ (at[t] = "extra" /\ on[t] # None)
    BY DEF Get, Typed, HandTypes
  <2>3. got[t] = None /\ None \notin Handed
    BY <2>2, HandedTypes DEF Typed, HandTypes
  <2>4. ASSUME NEW m \in Handed, got' = [got EXCEPT ![t] = m], Go(t, "pace") PROVE HandTypes'
    BY <1>0, <2>1, <2>2, <2>3, <2>4 DEF Go, Typed, HandTypes, StepNames
  <2>5. ASSUME UNCHANGED got, Go(t, IF at[t] = "get" THEN "idle" ELSE "resend") PROVE HandTypes'
    BY <1>0, <2>1, <2>2, <2>3, <2>5 DEF Go, Typed, HandTypes, StepNames
  <2>6. QED
    BY <2>4, <2>5, GetLeaves
<1>6. CountTypes'
  BY CountTypesKept DEF Get, Typed, timerVars, paceVars, msgHistory
<1>7. QED
  BY <1>1, <1>2, <1>3, <1>4, <1>5, <1>6 DEF Typed

\* Pace sends or holds what the thread has taken.
LEMMA TypedPace ==
    ASSUME Typed, NEW t \in Thread, Pace(t) PROVE Typed'
<1> DEFINE m == got[t]
<1>0. m \in Handed /\ m \in Msg
  BY HandedTypes DEF Pace, Typed, HandTypes
<1>kept. Handed' = Handed /\ Reliable' = Reliable /\ Bodied' = Bodied /\ InOrder'
  BY KindKept DEF Pace, Typed, MsgTypes
<1>1. AckTypes'
  BY <1>0 DEF Pace, Leave, Typed, AckTypes
<1>2. TimerTypes'
  BY TimerTypesKept DEF Pace, Go, Typed, HandTypes, Thread
<1>counts. /\ [sends EXCEPT ![m] = @ + 1] \in [Msg -> Nat]
           /\ [paced EXCEPT ![m] = @ + 1] \in [Msg -> Nat]
           /\ Unnamed(m) \in [Msg -> Nat]
  BY <1>0, UnnamedType DEF Typed, CountTypes
<1>loose. Loose' \subseteq Loose \cup {m}
  BY <1>0, UnnamedType DEF Pace, timerVars, Loose, Typed
<1>3. MsgTypes'
  <2>1. CASE /\ sends' = [sends EXCEPT ![m] = @ + 1] /\ hot' \in BOOLEAN
             /\ UNCHANGED <<timers, paced, wasPaced>>
    <3>1. Sent' = Sent \cup {m}
      BY <1>0, <1>counts, <2>1 DEF Sent, Typed, CountTypes
    <3>2. Paced' = Paced
      BY <2>1 DEF Paced
    <3>3. UNCHANGED <<kind, wasResent, work, acked>>
      BY DEF Pace
    <3>4. QED
      BY <1>0, <1>kept, <1>loose, <2>1, <3>1, <3>2, <3>3 DEF Typed, MsgTypes
  <2>2. CASE /\ m \in Bodied /\ paced' = [paced EXCEPT ![m] = @ + 1]
             /\ wasPaced' = wasPaced \cup {m} /\ timers' = timers \ {m}
             /\ UNCHANGED <<sends, hot>>
    <3>1. Sent' = Sent
      BY <2>2 DEF Sent
    <3>2. Paced' \subseteq Paced \cup {m}
      BY <2>2 DEF Paced, Typed, CountTypes
    <3>3. UNCHANGED <<kind, wasResent, work, acked>>
      BY DEF Pace
    <3>4. QED
      BY <1>0, <1>kept, <1>loose, <2>2, <3>1, <3>2, <3>3 DEF Typed, MsgTypes
  <2>3. hot \in BOOLEAN
    BY DEF Typed, MsgTypes
  <2>4. QED
    BY <2>1, <2>2, <2>3 DEF Pace, timerVars
<1>4. QueueTypes'
  BY QueueTypesKept DEF Pace, Typed
<1>5. HandTypes'
  <2>1. at' = [at EXCEPT ![t] = IF on[t] = None THEN "idle" ELSE "resend"]
        /\ on' = on /\ got' = [got EXCEPT ![t] = None]
    BY DEF Pace, Go
  <2>2. QED
    BY <1>kept, <2>1 DEF Typed, HandTypes, StepNames
<1>6. CountTypes'
  BY <1>counts DEF Pace, timerVars, Typed, CountTypes
<1>7. QED
  BY <1>1, <1>2, <1>3, <1>4, <1>5, <1>6 DEF Typed

\* A stutter changes no type.
LEMMA TypedStutter == Typed /\ UNCHANGED vars => Typed'
<1> SUFFICES ASSUME Typed, UNCHANGED vars PROVE Typed'
  OBVIOUS
<1> USE DEF vars, ackVars, timerVars, paceVars, threadVars, ackHistory, msgHistory
<1>1. AckTypes' /\ TimerTypes' /\ MsgTypes' /\ QueueTypes'
  BY AckTypesKept, TimerTypesKept, MsgTypesKept, QueueTypesKept DEF Typed
<1>counts. CountTypes'
  BY CountTypesKept DEF Typed
<1>2. HandTypes'
  BY KindKept DEF Typed, HandTypes
<1>3. QED
  BY <1>1, <1>2, <1>counts DEF Typed

\* All steps together.
LEMMA TypedKept == Typed /\ [Next]_vars => Typed'
<1> SUFFICES ASSUME Typed, [Next]_vars PROVE Typed'
  OBVIOUS
<1>1. "process" \in Thread /\ "timer" \in Thread /\ "pacer" \in Thread
  BY DEF Thread
<1>2. CASE Process
  BY <1>1, <1>2, TypedAttach, TypedArmTimer, TypedRaiseFlag, TypedGet, TypedPace DEF Process, Steps
<1>3. ASSUME NEW t \in Thread, TimerThread(t) PROVE Typed'
  BY <1>3, TypedTimerOut, TypedAckTimerOut, TypedSendAcks, TypedResend, TypedGet, TypedPace
     DEF TimerThread, Steps
<1>4. QED
  BY <1>1, <1>2, <1>3, TypedSubmit, TypedQuickResend, TypedAckDone, TypedElsewhere, TypedAddAck,
     TypedStutter DEF Next

\* Every step keeps the types of the state, and no second ack timer is ever set.
THEOREM TypeCorrect == Spec => []TypeOK
BY InitTyped, TypedKept, TypedIsTypeOK, PTL DEF Spec
-----------------------------------------------------------------------------
(* The flow queue holds no more than the Gets to come: each Add is made by a *)
(* thread that goes on to its Get, and each Get takes one if there is one.   *)

Getters == {t \in Thread : at[t] = "get"}

Queues == Len(resend) + Len(normal)

\* The Gets to come are a number.
LEMMA GettersCount == IsFiniteSet(Getters) /\ Cardinality(Getters) \in Nat
<1>1. IsFiniteSet(Thread)
  <2>1. Thread = {"process"} \cup {"timer"} \cup {"pacer"}
    BY DEF Thread
  <2>2. QED
    BY <2>1, FS_Singleton, FS_Union
<1>2. IsFiniteSet(Getters)
  <2>1. Getters \in SUBSET Thread
    BY DEF Getters
  <2>2. QED
    BY <1>1, <2>1, FS_Subset
<1>3. QED
  BY <1>2, FS_CardinalityType

\* So is what is queued.
LEMMA QueuesCount ==
    ASSUME QueueTypes
    PROVE  /\ Len(resend) \in Nat /\ Len(normal) \in Nat /\ Queues \in Nat
           /\ (Queues = 0 <=> resend = <<>> /\ normal = <<>>)
<1>1. Len(resend) \in Nat /\ Len(normal) \in Nat
  BY LenProperties DEF QueueTypes
<1>2. (Len(resend) = 0 <=> resend = <<>>) /\ (Len(normal) = 0 <=> normal = <<>>)
  BY EmptySeq DEF QueueTypes
<1>3. QED
  BY <1>1, <1>2 DEF Queues

\* How a step of thread t changes the number of Gets to come.
LEMMA GettersMove ==
    ASSUME HandTypes, NEW t \in Thread, NEW step, Go(t, step)
    PROVE  /\ at[t] # "get" /\ step = "get" => Cardinality(Getters') = Cardinality(Getters) + 1
           /\ at[t] = "get" /\ step # "get" => Cardinality(Getters') = Cardinality(Getters) - 1
           /\ at[t] # "get" /\ step # "get" => Getters' = Getters
<1>1. at' = [at EXCEPT ![t] = step] /\ at \in [Thread -> StepNames]
  BY DEF Go, HandTypes
<1>2. ASSUME at[t] # "get", step = "get" PROVE Cardinality(Getters') = Cardinality(Getters) + 1
  <2>1. Getters' = Getters \cup {t} /\ t \notin Getters
    BY <1>1, <1>2 DEF Getters
  <2>2. QED
    BY <2>1, GettersCount, FS_AddElement
<1>3. ASSUME at[t] = "get", step # "get" PROVE Cardinality(Getters') = Cardinality(Getters) - 1
  <2>1. Getters' = Getters \ {t} /\ t \in Getters
    BY <1>1, <1>3 DEF Getters
  <2>2. QED
    BY <2>1, GettersCount, FS_RemoveElement
<1>4. ASSUME at[t] # "get", step # "get" PROVE Getters' = Getters
  BY <1>1, <1>4 DEF Getters
<1>5. QED
  BY <1>2, <1>3, <1>4

Balanced == Queues <= Cardinality(Getters)

\* A step that adds nothing to the queues and takes no thread from its Get.
LEMMA BalanceKept ==
    ASSUME Typed, Balanced, Queues' <= Queues, Queues' \in Nat, Getters' = Getters
    PROVE  Balanced'
<1>1. Cardinality(Getters') = Cardinality(Getters)
  BY Zenon
<1>2. QED
  BY <1>1, GettersCount, QueuesCount DEF Balanced, Typed

\* An Add adds one message, and one thread to those at their Get.
LEMMA EnqueueBalanced ==
    ASSUME Typed, Balanced, NEW t \in Thread, at[t] \in {"attach", "resend"}, NEW resent,
           Enqueue(t, resent)
    PROVE  Balanced'
<1>1. Queues' = Queues + 1
  <2>1. on[t] \in Msg
    BY EnqueueLeaves, HandedTypes
  <2>2. /\ Len(Append(resend, on[t])) = Len(resend) + 1
        /\ Len(Append(normal, on[t])) = Len(normal) + 1
    BY <2>1, AppendProperties DEF Typed, QueueTypes
  <2>3. QED
    BY <2>2, EnqueueLeaves, QueuesCount DEF Typed, Queues
<1>2. Cardinality(Getters') = Cardinality(Getters) + 1
  BY GettersMove DEF Enqueue, Typed
<1>3. QED
  BY <1>1, <1>2, GettersCount, QueuesCount DEF Balanced, Typed

\* A Get takes one message if there is one. The Get of a paced message was not
\* counted and makes no difference then.
LEMMA GetBalanced ==
    ASSUME Typed, Balanced, NEW t \in Thread, Get(t) PROVE Balanced'
<1>1. PICK step : Go(t, step) /\ step # "get"
  BY DEF Get
<1>2. \/ Queues' = Queues - 1
      \/ Queues = 0 /\ Queues' = 0
  <2>1. resend # <<>> => Len(Tail(resend)) = Len(resend) - 1
    BY HeadTailProperties DEF Typed, QueueTypes
  <2>2. normal # <<>> => Len(Tail(normal)) = Len(normal) - 1
    BY HeadTailProperties DEF Typed, QueueTypes
  <2>3. QED
    BY <2>1, <2>2, GetLeaves, QueuesCount DEF Queues, Typed, queueVars
<1>3. \/ Cardinality(Getters') = Cardinality(Getters) - 1
      \/ Cardinality(Getters') = Cardinality(Getters) /\ Queues' <= Queues
  <2>1. CASE at[t] = "get"
    BY <1>1, <2>1, GettersMove DEF Typed
  <2>2. CASE at[t] # "get"
    <3>1. Getters' = Getters
      BY <1>1, <2>2, GettersMove DEF Typed
    <3>2. Queues' <= Queues
      BY <1>2, QueuesCount DEF Typed
    <3>3. QED
      BY <3>1, <3>2
  <2>3. QED
    BY <2>1, <2>2
<1>4. Cardinality(Getters') \in Nat
  <2>1. CASE at[t] = "get"
    <3>1. Getters' = Getters \ {t}
      BY <1>1, <2>1 DEF Getters, Go, Typed, HandTypes
    <3>2. QED
      BY <3>1, GettersCount, FS_Difference, FS_CardinalityType
  <2>2. CASE at[t] # "get"
    BY <1>1, <2>2, GettersMove, GettersCount DEF Typed
  <2>3. QED
    BY <2>1, <2>2
<1>5. QED
  BY <1>2, <1>3, <1>4, GettersCount, QueuesCount DEF Balanced, Typed

\* All steps keep the balance.
LEMMA BalancedKept == Typed /\ Balanced /\ [Next]_vars => Balanced'
<1> SUFFICES ASSUME Typed, Balanced, [Next]_vars PROVE Balanced'
  OBVIOUS
<1>1. "process" \in Thread /\ "timer" \in Thread /\ "pacer" \in Thread
  BY DEF Thread
<1>2. ASSUME NEW t \in Thread, NEW step, step # "get", at[t] # "get", Go(t, step),
             UNCHANGED queueVars
      PROVE  Balanced'
  <2>1. Getters' = Getters /\ Queues' = Queues
    BY <1>2, GettersMove DEF Typed, Queues, queueVars
  <2>2. Queues \in Nat
    BY QueuesCount DEF Typed
  <2>3. QED
    BY <2>1, <2>2, BalanceKept
<1>3. ASSUME at' = at, UNCHANGED queueVars PROVE Balanced'
  <2>1. Getters' = Getters /\ Queues' = Queues
    BY <1>3 DEF Getters, Queues, queueVars
  <2>2. Queues \in Nat
    BY QueuesCount DEF Typed
  <2>3. QED
    BY <2>1, <2>2, BalanceKept
<1>4. ASSUME NEW m \in Msg, ToSend(m) PROVE Balanced'
  BY <1>1, <1>2, <1>4 DEF ToSend
<1>5. ASSUME NEW m \in Msg, AckDone(m) PROVE Balanced'
  <2>1. Getters' = Getters
    BY <1>5 DEF AckDone, threadVars, Getters
  <2>2. /\ Len(RemoveFirst(resend, m)) <= Len(resend) /\ Len(RemoveFirst(resend, m)) \in Nat
        /\ Len(RemoveFirst(normal, m)) <= Len(normal) /\ Len(RemoveFirst(normal, m)) \in Nat
    BY RemoveFirstKeeps, LenProperties DEF Typed, QueueTypes
  <2>3. /\ resend' = RemoveFirst(resend, m)
        /\ (normal' = normal \/ normal' = RemoveFirst(normal, m))
    BY <1>5 DEF AckDone, ResendWithout, NormalWithout
  <2>4. Queues' <= Queues /\ Queues' \in Nat
    BY <2>2, <2>3, QueuesCount DEF Queues, Typed
  <2>5. QED
    BY <2>1, <2>4, BalanceKept
<1>6. ASSUME NEW i \in AckId, AddAck(i) PROVE Balanced'
  BY <1>1, <1>2, <1>6 DEF AddAck
<1>7. ASSUME NEW t \in Thread, Steps(t) PROVE Balanced'
  <2>1. CASE Pace(t)
    BY <1>2, <2>1 DEF Pace
  <2>2. QED
    BY <1>7, <2>1, GetBalanced DEF Steps
<1>8. CASE Process
  <2>1. CASE Attach
    BY <1>1, <2>1, EnqueueBalanced DEF Attach
  <2>2. CASE ArmTimer
    BY <1>1, <1>2, <2>2 DEF ArmTimer
  <2>3. CASE RaiseFlag
    BY <1>1, <1>2, <2>3 DEF RaiseFlag
  <2>4. QED
    BY <1>1, <1>7, <1>8, <2>1, <2>2, <2>3 DEF Process
<1>9. ASSUME NEW t \in Thread, TimerThread(t) PROVE Balanced'
  <2>1. ASSUME NEW m \in Msg, TimerOut(t, m) PROVE Balanced'
    BY <1>2, <2>1 DEF TimerOut, FirstStep
  <2>2. CASE AckTimerOut
    BY <1>1, <1>2, <2>2 DEF AckTimerOut
  <2>3. CASE SendAcks
    BY <1>1, <1>2, <2>3 DEF SendAcks, Rest, Go
  <2>4. CASE Resend(t)
    <3>1. CASE Rest(t) /\ UNCHANGED queueVars
      BY <1>2, <2>4, <3>1 DEF Resend, Rest, Go
    <3>2. CASE Enqueue(t, wasResent')
      BY <2>4, <3>2, EnqueueBalanced DEF Resend
    <3>3. QED
      BY <2>4, <3>1, <3>2 DEF Resend
  <2>5. QED
    BY <1>7, <1>9, <2>1, <2>2, <2>3, <2>4 DEF TimerThread
<1>10. CASE AckDoneElsewhere
  BY <1>3, <1>10 DEF AckDoneElsewhere, threadVars
<1>11. CASE UNCHANGED vars
  BY <1>3, <1>11 DEF vars, threadVars
<1>12. QED
  BY <1>1, <1>4, <1>5, <1>6, <1>8, <1>9, <1>10, <1>11, NextMessage DEF Next, QuickResend

\* Nothing is queued at the start.
LEMMA InitBalanced == Init => Balanced
<1> SUFFICES ASSUME Init PROVE Balanced
  OBVIOUS
<1>1. Queues = 0
  BY EmptySeq DEF Init, Queues
<1>2. QED
  BY <1>1, GettersCount DEF Balanced

\* However the threads take each other's messages, nothing is left in the flow
\* queue: no more is queued than there are Gets to come.
THEOREM NoneIsStranded == Spec => []NothingStranded
<1>1. Balanced => NothingStranded
  BY DEF Balanced, NothingStranded, Queues, Getters
<1>2. QED
  BY <1>1, InitTyped, TypedKept, InitBalanced, BalancedKept, PTL DEF Spec
-----------------------------------------------------------------------------
(* The watch over the pended acks.                                           *)

\* Each step keeps the watch.
LEMMA WatchKept == Typed /\ AcksAreWatched /\ [Next]_vars => AcksAreWatched'
<1> SUFFICES ASSUME Typed, AcksAreWatched, [Next]_vars PROVE AcksAreWatched'
  OBVIOUS
<1> USE DEF AcksAreWatched, StuckFlag
<1>1. "process" \in Thread /\ "timer" \in Thread
      /\ at \in [Thread -> StepNames] /\ "process" # "timer"
  BY DEF Thread, Typed, HandTypes
<1>2. ASSUME NEW limit \in Nat, GetAck(limit) PROVE AcksAreWatched'
  BY <1>2, GetAckLeaves DEF Typed
<1>3. ASSUME UNCHANGED <<pend, inTimer, ackTimers, cut>>,
             at["process"] = "size" => at'["process"] = "size",
             at["timer"] = "acks" => at'["timer"] = "acks"
      PROVE  AcksAreWatched'
  BY <1>3
<1>4. ASSUME NEW m \in Msg, ToSend(m) PROVE AcksAreWatched'
  BY <1>1, <1>3, <1>4 DEF ToSend, Go, ackVars
\* The list that is erased may hold the ack timer, and then the flag is stuck.
<1>5. ASSUME NEW named, EraseList(named), at["process"] = "idle",
             UNCHANGED <<pend, inTimer, cut, at>>
      PROVE  AcksAreWatched'
  <2>1. ackTimers \in {0, 1} /\ ackTimers' \in {0, 1} /\ ackTimers' <= ackTimers
    BY <1>5, EraseLeaves DEF Typed, TimerTypes
  <2>2. CASE ackTimers' = ackTimers
    BY <1>5, <2>2
  <2>3. CASE ackTimers = 1 /\ ackTimers' = 0
    BY <1>5, <2>3 DEF Typed, TimerTypes
  <2>4. QED
    BY <2>1, <2>2, <2>3
<1>6. ASSUME NEW i \in AckId, AddAck(i) PROVE AcksAreWatched'
  BY <1>1, <1>6 DEF AddAck, Go
<1>7. ASSUME NEW t \in Thread, Steps(t) PROVE AcksAreWatched'
  BY <1>1, <1>3, <1>7 DEF Steps, Get, Pace, Go, ackVars, ackHistory
<1>8. CASE Process
  <2>1. CASE Attach
    BY <1>1, <1>2, <2>1, EnqueueLeaves DEF Attach
  <2>2. CASE ArmTimer
    <3>1. CASE AckNow
      BY <1>2, <2>2, <3>1, OutboundAssumption DEF ArmTimer
    <3>2. CASE ~ AckNow /\ inTimer
      <4>1. UNCHANGED <<pend, inTimer, ackTimers, cut>>
        BY <2>2, <3>2 DEF ArmTimer, NeedsTimer
      <4>2. ackTimers \in {0, 1}
        BY DEF Typed, TimerTypes
      <4>3. QED
        BY <3>2, <4>1, <4>2
    <3>3. CASE ~ AckNow /\ ~ inTimer
      <4>1. ackTimers' = ackTimers + 1
        BY <2>2, <3>3 DEF ArmTimer, NeedsTimer
      <4>2. ackTimers \in {0, 1} /\ ackTimers # 1
        BY <2>2, <3>3 DEF ArmTimer, Typed, TimerTypes
      <4>3. ackTimers' = 1
        BY <4>1, <4>2
      <4>4. QED
        BY <4>3
    <3>4. QED
      BY <3>1, <3>2, <3>3
  <2>3. CASE RaiseFlag
    <3>1. inTimer' /\ ackTimers' = ackTimers
      BY <2>3 DEF RaiseFlag, FlagUp
    <3>2. ackTimers \in {0, 1}
      BY DEF Typed, TimerTypes
    <3>3. QED
      BY <3>1, <3>2
  <2>4. QED
    BY <1>1, <1>7, <1>8, <2>1, <2>2, <2>3 DEF Process
<1>9. ASSUME NEW t \in Thread, TimerThread(t) PROVE AcksAreWatched'
  <2>1. ASSUME NEW m \in Msg, TimerOut(t, m) PROVE AcksAreWatched'
    BY <1>1, <1>3, <2>1 DEF TimerOut, FirstStep, Go, ackVars, ackHistory
  <2>2. CASE AckTimerOut
    BY <1>1, <2>2 DEF AckTimerOut, Go
  <2>3. CASE SendAcks
    BY <1>2, <2>3, OutboundAssumption DEF SendAcks
  <2>4. CASE Resend(t)
    <3>1. CASE Rest(t) /\ UNCHANGED <<pend, cut>>
      BY <1>1, <1>3, <2>4, <3>1 DEF Resend, Rest
    <3>2. CASE Enqueue(t, wasResent')
      BY <1>2, <2>4, <3>2, EnqueueLeaves DEF Resend
    <3>3. QED
      BY <2>4, <3>1, <3>2 DEF Resend
  <2>5. QED
    BY <1>7, <1>9, <2>1, <2>2, <2>3, <2>4 DEF TimerThread
<1>10. CASE AckDoneElsewhere \/ \E m \in Msg : AckDone(m)
  BY <1>5, <1>10 DEF AckDoneElsewhere, AckDone, threadVars, ackHistory
<1>11. CASE UNCHANGED vars
  BY <1>3, <1>11 DEF vars, ackVars, threadVars, ackHistory
<1>12. QED
  BY <1>4, <1>6, <1>8, <1>9, <1>10, <1>11, NextMessage DEF Next, QuickResend, Thread

\* Pended acks have a timer or a thread about to set one or to take them along,
\* unless the flag is stuck or a GetAck has left some behind.
THEOREM AcksWatched == Spec => []AcksAreWatched
<1>1. Init => AcksAreWatched
  BY DEF Init, AcksAreWatched
<1>2. QED
  BY <1>1, InitTyped, TypedKept, WatchKept, PTL DEF Spec
-----------------------------------------------------------------------------
(* Where the acks are that have not left. A message that is only in the      *)
(* hands of a thread at its Get does not count: another thread may have      *)
(* taken it from the queue and sent it.                                      *)

OnItsWay(m) ==
    \/ m \in Paced \cup Range(resend) \cup Range(normal)
    \/ \E t \in Thread :
         \/ on[t] = m /\ at[t] \in {"attach", "extra", "resend", "pace"}
         \/ got[t] = m

Kept ==
    \A i \in due \ wiped :
        \/ i \in pend
        \/ \E m \in Msg : i \in carried[m] /\ (OnItsWay(m) \/ m \in acked)

\* What keeps a message on its way in a step of thread t.
LEMMA WayKept ==
    ASSUME Typed, NEW t \in Thread, NEW m \in Msg, OnItsWay(m),
           m \in Paced => m \in Paced',
           m \in Range(resend) \cup Range(normal) =>
               m \in Range(resend') \cup Range(normal') \/ got'[t] = m,
           \A u \in Thread \ {t} : on'[u] = on[u] /\ at'[u] = at[u] /\ got'[u] = got[u],
           on[t] = m /\ at[t] \in {"attach", "extra", "resend", "pace"} =>
               on'[t] = m /\ at'[t] \in {"attach", "extra", "resend", "pace"},
           got[t] = m => got'[t] = m
    PROVE  OnItsWay(m)'
<1>1. CASE m \in Paced \cup Range(resend) \cup Range(normal)
  BY <1>1 DEF OnItsWay
<1>2. ASSUME NEW u \in Thread,
             \/ on[u] = m /\ at[u] \in {"attach", "extra", "resend", "pace"}
             \/ got[u] = m
      PROVE  OnItsWay(m)'
  <2>1. \/ on'[u] = m /\ at'[u] \in {"attach", "extra", "resend", "pace"}
        \/ got'[u] = m
    BY <1>2
  <2>2. QED
    BY <2>1 DEF OnItsWay
<1>3. QED
  BY <1>1, <1>2 DEF OnItsWay

\* A step that gives no message acks and takes none off its way.
LEMMA KeptBySame ==
    ASSUME Kept, due' \ wiped' \subseteq due \ wiped, pend \subseteq pend', carried' = carried,
           \A m \in Msg : OnItsWay(m) \/ m \in acked => OnItsWay(m)' \/ m \in acked'
    PROVE  Kept'
<1> SUFFICES ASSUME NEW i \in due' \ wiped', i \notin pend'
             PROVE  \E m \in Msg : i \in carried'[m] /\ (OnItsWay(m)' \/ m \in acked')
  BY DEF Kept
<1>1. PICK m \in Msg : i \in carried[m] /\ (OnItsWay(m) \/ m \in acked)
  BY DEF Kept
<1>2. QED
  BY <1>1

\* Enqueue clears the acks a message had and gives it what is pended.
LEMMA KeptByEnqueue ==
    ASSUME Typed, Kept, NEW t \in Thread, at[t] \in {"attach", "resend"}, NEW resent,
           Enqueue(t, resent), UNCHANGED <<paced, on, got, due, acked>>
    PROVE  Kept'
<1>0. PICK m \in Msg : m = on[t]
  BY EnqueueLeaves, HandedTypes
<1> DEFINE limit == Room(m)
<1>1. /\ carried' = [carried EXCEPT ![m] = Gone(limit)]
      /\ wiped' = wiped \cup carried[m] /\ pend' = pend \ Gone(limit)
      /\ at' = [at EXCEPT ![t] = "get"]
  BY <1>0, EnqueueLeaves, GetAckLeaves, HandedTypes DEF Enqueue, Go, Typed
<1>2. carried \in [Msg -> SUBSET AckId] /\ at \in [Thread -> StepNames] /\ got[t] = None
      /\ None \notin Msg
  BY HandedTypes DEF Typed, AckTypes, HandTypes
<1>3. m \in Range(resend') \cup Range(normal')
      /\ Range(resend) \cup Range(normal) \subseteq Range(resend') \cup Range(normal')
  <2>1. /\ Range(Append(resend, m)) = Range(resend) \cup {m}
        /\ Range(Append(normal, m)) = Range(normal) \cup {m}
    BY RangeOfAppend DEF Typed, QueueTypes
  <2>2. \/ resend' = Append(resend, m) /\ normal' = normal
        \/ normal' = Append(normal, m) /\ resend' = resend
    BY <1>0, EnqueueLeaves
  <2>3. QED
    BY <2>1, <2>2
<1>4. OnItsWay(m)'
  BY <1>3 DEF OnItsWay
<1>5. ASSUME NEW n \in Msg, n # m, OnItsWay(n) PROVE OnItsWay(n)'
  <2>1. Paced' = Paced
    BY DEF Paced
  <2>2. QED
    BY <1>0, <1>1, <1>2, <1>3, <1>5, <2>1, WayKept
<1> SUFFICES ASSUME NEW i \in due' \ wiped', i \notin pend'
             PROVE  \E n \in Msg : i \in carried'[n] /\ (OnItsWay(n)' \/ n \in acked')
  BY DEF Kept
<1>6. CASE i \in pend
  BY <1>1, <1>2, <1>4, <1>6
<1>7. CASE i \notin pend
  <2>1. PICK n \in Msg : i \in carried[n] /\ (OnItsWay(n) \/ n \in acked)
    BY <1>1, <1>7 DEF Kept
  <2>2. n # m
    BY <1>1, <2>1
  <2>3. i \in carried'[n]
    BY <1>1, <1>2, <2>1, <2>2
  <2>4. QED
    BY <1>5, <2>1, <2>2, <2>3
<1>8. QED
  BY <1>6, <1>7

\* A refusal wipes the acks of the message.
LEMMA KeptByRefusal ==
    ASSUME Typed, Kept, NEW t \in Thread, at[t] = "resend", Rest(t),
           wiped' = wiped \cup carried[on[t]],
           UNCHANGED <<pend, carried, queueVars, paced, got, due, acked>>
    PROVE  Kept'
<1>1. on \in [Thread -> Handed \cup {None}] /\ at \in [Thread -> StepNames]
  BY DEF Typed, HandTypes
<1>2. ASSUME NEW n \in Msg, n # on[t], OnItsWay(n) PROVE OnItsWay(n)'
  <2>1. Paced' = Paced
    BY DEF Paced
  <2>2. QED
    BY <1>1, <1>2, <2>1, WayKept DEF Rest, queueVars
<1> SUFFICES ASSUME NEW i \in due' \ wiped', i \notin pend'
             PROVE  \E n \in Msg : i \in carried'[n] /\ (OnItsWay(n)' \/ n \in acked')
  BY DEF Kept
<1>3. PICK n \in Msg : i \in carried[n] /\ (OnItsWay(n) \/ n \in acked)
  BY DEF Kept
<1>4. n # on[t]
  BY <1>3
<1>5. QED
  BY <1>2, <1>3, <1>4

\* Get moves a message from a queue to the hands of its thread.
LEMMA KeptByGet ==
    ASSUME Typed, Kept, NEW t \in Thread, Get(t) PROVE Kept'
<1>1. /\ on \in [Thread -> Handed \cup {None}] /\ at \in [Thread -> StepNames]
      /\ got \in [Thread -> Handed \cup {None}] /\ got[t] = None /\ None \notin Msg
      /\ at[t] \in {"get", "extra"}
      /\ on' = IF at[t] = "get" THEN [on EXCEPT ![t] = None] ELSE on
  BY HandedTypes DEF Get, Typed, HandTypes
<1>2. PICK step : /\ Go(t, step)
                  /\ at[t] = "extra" => step \in {"pace", "resend"}
  BY GetLeaves
<1>3. got' \in [Thread -> Handed \cup {None}] /\ \A u \in Thread \ {t} : got'[u] = got[u]
  BY <1>1, GetLeaves
<1>4. ASSUME NEW m \in Range(resend) \cup Range(normal)
      PROVE  m \in Range(resend') \cup Range(normal') \/ got'[t] = m
  <2>0. Range(<<>>) = {}
    BY DEF Range
  <2>1. resend # <<>> => Range(resend) = {Head(resend)} \cup Range(Tail(resend))
    BY RangeOfTail DEF Typed, QueueTypes
  <2>2. normal # <<>> => Range(normal) = {Head(normal)} \cup Range(Tail(normal))
    BY RangeOfTail DEF Typed, QueueTypes
  <2>3. QED
    BY <1>1, <1>4, <2>0, <2>1, <2>2, GetLeaves
<1>5. ASSUME NEW m \in Msg, OnItsWay(m) PROVE OnItsWay(m)'
  <2>1. Paced' = Paced
    BY DEF Get, paceVars, Paced
  <2>2. \A u \in Thread \ {t} : on'[u] = on[u] /\ at'[u] = at[u] /\ got'[u] = got[u]
    BY <1>1, <1>2, <1>3 DEF Go
  <2>3. on[t] = m /\ at[t] \in {"attach", "extra", "resend", "pace"} =>
            on'[t] = m /\ at'[t] \in {"attach", "extra", "resend", "pace"}
    BY <1>1, <1>2 DEF Go
  <2>4. got[t] # m
    BY <1>1
  <2>5. QED
    BY <1>4, <1>5, <2>1, <2>2, <2>3, <2>4, WayKept
<1>6. QED
  BY <1>5, KeptBySame DEF Get, ackVars, ackHistory, msgHistory

\* Pace sends the acks along or moves the message to the pacing timer.
LEMMA KeptByPace ==
    ASSUME Typed, Kept, NEW t \in Thread, Pace(t) PROVE Kept'
<1>0. PICK m \in Msg : m = got[t]
  BY HandedTypes DEF Pace, Typed, HandTypes
<1>1. /\ on \in [Thread -> Handed \cup {None}] /\ at \in [Thread -> StepNames]
      /\ got \in [Thread -> Handed \cup {None}] /\ None \notin Msg
      /\ carried \in [Msg -> SUBSET AckId]
  BY HandedTypes DEF Pace, Typed, HandTypes, AckTypes
<1>2. /\ at' = [at EXCEPT ![t] = IF on[t] = None THEN "idle" ELSE "resend"]
      /\ got' = [got EXCEPT ![t] = None]
      /\ UNCHANGED <<pend, queueVars, on, wiped, acked>>
  BY DEF Pace, Go
<1>paced. /\ Paced \subseteq Paced'
          /\ paced' = [paced EXCEPT ![m] = @ + 1] => m \in Paced'
  BY <1>0 DEF Pace, Paced, Typed, CountTypes
<1>3. ASSUME NEW n \in Msg, n # m, OnItsWay(n) PROVE OnItsWay(n)'
  BY <1>0, <1>1, <1>2, <1>paced, <1>3, WayKept DEF queueVars
<1>4. CASE paced' = [paced EXCEPT ![m] = @ + 1] /\ UNCHANGED <<due, carried>>
  <2>1. OnItsWay(m)'
    BY <1>4, <1>paced DEF OnItsWay
  <2>2. \A n \in Msg : OnItsWay(n) \/ n \in acked => OnItsWay(n)' \/ n \in acked'
    BY <1>2, <1>3, <2>1
  <2>3. QED
    BY <1>2, <1>4, <2>2, KeptBySame
<1>5. CASE due' = due \ carried[m] /\ carried' = [carried EXCEPT ![m] = {}]
  <2> SUFFICES ASSUME NEW i \in due' \ wiped', i \notin pend'
               PROVE  \E n \in Msg : i \in carried'[n] /\ (OnItsWay(n)' \/ n \in acked')
    BY DEF Kept
  <2>1. PICK n \in Msg : i \in carried[n] /\ (OnItsWay(n) \/ n \in acked)
    BY <1>2, <1>5 DEF Kept
  <2>2. n # m /\ i \in carried'[n]
    BY <1>1, <1>5, <2>1
  <2>3. QED
    BY <1>2, <1>3, <2>1, <2>2
<1>6. QED
  BY <1>0, <1>4, <1>5 DEF Pace, Leave

\* All steps keep the acks.
LEMMA KeptKept == Typed /\ Kept /\ [Next]_vars => Kept'
<1> SUFFICES ASSUME Typed, Kept, [Next]_vars PROVE Kept'
  OBVIOUS
<1>0. /\ "process" \in Thread /\ "timer" \in Thread
      /\ at \in [Thread -> StepNames] /\ on \in [Thread -> Handed \cup {None}]
      /\ got \in [Thread -> Handed \cup {None}] /\ None \notin Msg
      /\ \A t \in Thread : at[t] # "pace" => got[t] = None
  BY HandedTypes DEF Thread, Typed, HandTypes
\* A step of an idle thread, or of one that holds no message, and one that
\* leaves the threads alone.
<1>1. ASSUME NEW t \in Thread, at[t] \in {"idle", "size", "flag", "acks"}, got' = got,
             \A u \in Thread \ {t} : on'[u] = on[u] /\ at'[u] = at[u], queueVars' = queueVars,
             NEW m \in Msg, OnItsWay(m),
             m \in Paced => m \in Paced'
      PROVE  OnItsWay(m)'
  BY <1>0, <1>1, WayKept DEF queueVars
<1>2. ASSUME UNCHANGED <<due, wiped, pend, carried, acked, paced, queueVars, threadVars>>
      PROVE  Kept'
  <2>1. ASSUME NEW m \in Msg, OnItsWay(m) PROVE OnItsWay(m)'
    BY <1>2, <2>1 DEF OnItsWay, Paced, queueVars, threadVars
  <2>2. QED
    BY <1>2, <2>1, KeptBySame
<1>3. ASSUME NEW n \in Msg, ToSend(n) PROVE Kept'
  <2>1. ASSUME NEW m \in Msg, OnItsWay(m) PROVE OnItsWay(m)'
    BY <1>0, <1>1, <1>3, <2>1 DEF ToSend, Go, paceVars, Paced
  <2>2. QED
    BY <1>3, <2>1, KeptBySame DEF ToSend, ackVars
<1>4. ASSUME NEW m \in Msg, AckDone(m) PROVE Kept'
  <2>1. ASSUME NEW n \in Msg, OnItsWay(n), n # m PROVE OnItsWay(n)'
    <3>1. /\ Range(resend) \ {m} \subseteq Range(RemoveFirst(resend, m))
          /\ Range(normal) \ {m} \subseteq Range(RemoveFirst(normal, m))
      BY RemoveFirstKeeps DEF Typed, QueueTypes
    <3>2. /\ resend' = RemoveFirst(resend, m)
          /\ (normal' = normal \/ normal' = RemoveFirst(normal, m))
          /\ UNCHANGED <<paced, threadVars>>
      BY <1>4 DEF AckDone, ResendWithout, NormalWithout, paceVars
    <3>3. QED
      BY <2>1, <3>1, <3>2 DEF OnItsWay, Paced, threadVars
  <2>2. QED
    BY <1>4, <2>1, KeptBySame DEF AckDone, ackHistory
<1>5. ASSUME NEW i \in AckId, AddAck(i) PROVE Kept'
  <2>1. ASSUME NEW m \in Msg, OnItsWay(m) PROVE OnItsWay(m)'
    BY <1>0, <1>1, <1>5, <2>1 DEF AddAck, Go, paceVars, Paced
  <2>2. ASSUME NEW j \in due' \ wiped', j \notin pend'
        PROVE  \E m \in Msg : j \in carried'[m] /\ (OnItsWay(m)' \/ m \in acked')
    <3>1. j \in due \ wiped /\ j \notin pend
      BY <1>5, <2>2 DEF AddAck
    <3>2. QED
      BY <1>5, <2>1, <3>1 DEF AddAck, Kept, msgHistory
  <2>3. QED
    BY <2>2 DEF Kept
<1>6. ASSUME NEW t \in Thread, at[t] \in {"size", "acks"}, NEW limit \in Nat, GetAck(limit),
             Leave(Gone(limit)), \A u \in Thread \ {t} : on'[u] = on[u] /\ at'[u] = at[u],
             UNCHANGED <<carried, wiped, acked, paced, queueVars, got>>
      PROVE  Kept'
  <2>1. ASSUME NEW m \in Msg, OnItsWay(m) PROVE OnItsWay(m)'
    BY <1>1, <1>6, <2>1 DEF Paced
  <2>2. ASSUME NEW j \in due' \ wiped', j \notin pend'
        PROVE  \E m \in Msg : j \in carried'[m] /\ (OnItsWay(m)' \/ m \in acked')
    <3>1. j \in due \ wiped /\ j \notin pend
      BY <1>6, <2>2, GetAckLeaves DEF Leave, Typed
    <3>2. QED
      BY <1>6, <2>1, <3>1 DEF Kept
  <2>3. QED
    BY <2>2 DEF Kept
<1>7. ASSUME NEW t \in Thread, Steps(t) PROVE Kept'
  BY <1>7, KeptByGet, KeptByPace DEF Steps
<1>8. CASE Process
  <2>1. CASE Attach
    BY <1>0, <2>1, KeptByEnqueue DEF Attach, paceVars, msgHistory
  <2>2. CASE ArmTimer
    <3>1. CASE AckNow
      BY <1>0, <1>6, <2>2, <3>1, OutboundAssumption DEF ArmTimer, Go, paceVars, msgHistory
    <3>2. CASE ~ AckNow
      <4>1. ASSUME NEW m \in Msg, OnItsWay(m) PROVE OnItsWay(m)'
        BY <1>0, <1>1, <2>2, <4>1 DEF ArmTimer, Go, paceVars, Paced
      <4>2. QED
        BY <2>2, <3>2, <4>1, KeptBySame DEF ArmTimer, msgHistory
    <3>3. QED
      BY <3>1, <3>2
  <2>3. CASE RaiseFlag
    <3>1. ASSUME NEW m \in Msg, OnItsWay(m) PROVE OnItsWay(m)'
      BY <1>0, <1>1, <2>3, <3>1 DEF RaiseFlag, Go, paceVars, Paced
    <3>2. QED
      BY <2>3, <3>1, KeptBySame DEF RaiseFlag, ackHistory, msgHistory
  <2>4. QED
    BY <1>0, <1>7, <1>8, <2>1, <2>2, <2>3 DEF Process
<1>9. ASSUME NEW t \in Thread, TimerThread(t) PROVE Kept'
  <2>1. ASSUME NEW m \in Msg, TimerOut(t, m) PROVE Kept'
    <3>1. ASSUME NEW n \in Msg, OnItsWay(n) PROVE OnItsWay(n)'
      <4>1. /\ at[t] = "idle" /\ on' = [on EXCEPT ![t] = m] /\ UNCHANGED <<got, queueVars>>
            /\ Paced \ {m} \subseteq Paced' /\ Go(t, FirstStep(m))
        BY <2>1 DEF TimerOut, Paced, Typed, CountTypes
      <4>2. CASE n = m
        <5>1. on'[t] = m /\ at'[t] \in {"extra", "resend"}
          BY <1>0, <4>1 DEF Go, FirstStep
        <5>2. QED
          BY <4>2, <5>1 DEF OnItsWay
      <4>3. CASE n # m
        BY <1>0, <1>1, <3>1, <4>1, <4>3 DEF Go
      <4>4. QED
        BY <4>2, <4>3
    <3>2. QED
      BY <2>1, <3>1, KeptBySame DEF TimerOut, ackVars, ackHistory, msgHistory
  <2>2. CASE AckTimerOut
    <3>1. ASSUME NEW m \in Msg, OnItsWay(m) PROVE OnItsWay(m)'
      BY <1>0, <1>1, <2>2, <3>1 DEF AckTimerOut, Go, paceVars, Paced
    <3>2. QED
      BY <2>2, <3>1, KeptBySame DEF AckTimerOut, ackHistory, msgHistory
  <2>3. CASE SendAcks
    BY <1>0, <1>6, <2>3, OutboundAssumption DEF SendAcks, Rest, paceVars, msgHistory
  <2>4. CASE Resend(t)
    <3>1. CASE Enqueue(t, wasResent') /\ UNCHANGED on
      BY <2>4, <3>1, KeptByEnqueue DEF Resend, msgHistory
    <3>2. CASE /\ Rest(t) /\ wiped' = wiped \cup carried[on[t]]
               /\ UNCHANGED <<pend, carried, queueVars>>
      BY <2>4, <3>2, KeptByRefusal DEF Resend, msgHistory
    <3>3. QED
      BY <2>4, <3>1, <3>2 DEF Resend
  <2>5. QED
    BY <1>7, <1>9, <2>1, <2>2, <2>3, <2>4 DEF TimerThread
<1>10. CASE AckDoneElsewhere \/ UNCHANGED vars
  BY <1>2, <1>10 DEF AckDoneElsewhere, vars, ackVars, paceVars, ackHistory, msgHistory
<1>11. QED
  BY <1>3, <1>4, <1>5, <1>8, <1>9, <1>10, NextMessage DEF Next, QuickResend, Thread

\* An ack that has not left is pended or goes with a message that is on its way,
\* but for those whose message was cleared or refused.
THEOREM AcksKept == Spec => []AcksAreKept
<1>1. Init => Kept
  BY DEF Init, Kept
<1>2. Kept => AcksAreKept
  BY DEF Kept, OnItsWay, AcksAreKept, ToGo
<1>3. QED
  BY <1>1, <1>2, InitTyped, TypedKept, KeptKept, PTL DEF Spec
-----------------------------------------------------------------------------
(* The size that is kept of the pended acks. Between two AddAcks it stays    *)
(* below the limit, which keeps it from its wrap; an AddAck may go over it,  *)
(* but then there is an ack to take.                                         *)

SizeInv ==
    ~ cut =>
        /\ curSize >= AckLength * Cardinality(pend)
        /\ curSize < AckLimit \/ (/\ curSize < AckLimit + AckLength
                                  /\ pend # {} /\ at["process"] = "size")

\* A number below SizeLimit does not wrap.
LEMMA NoWrap == \A x \in 0 .. SizeLimit - 1 : x % SizeLimit = x
BY SizesType

\* A GetAck that leaves nothing brings the size below the limit.
LEMMA SizeByGetAck ==
    ASSUME Typed, SizeInv, NEW limit \in Nat, GetAck(limit)
    PROVE  SizeInv'
<1> SUFFICES ASSUME ~ cut' PROVE /\ curSize' >= AckLength * Cardinality(pend')
                                 /\ curSize' < AckLimit
  BY DEF SizeInv
<1> DEFINE n == Cardinality(pend)
<1>1. ~ cut /\ pend' = {} /\ curSize' = (curSize - AckLength * n) % SizeLimit
  BY GetAckOfAll DEF Typed
<1>2. n \in Nat /\ curSize \in Nat /\ (pend # {} => n # 0) /\ AckLength = 10
  BY FS_CardinalityType, FS_EmptySet, SizesType
     DEF Typed, AckTypes, AckLength, IdLength, TimeLength
<1>3. /\ curSize >= AckLength * n /\ curSize < AckLimit + AckLength
      /\ pend = {} => curSize < AckLimit
  BY <1>1, <1>2, SizesType DEF SizeInv
<1>4. AckLimit + AckLength <= SizeLimit /\ AckLimit \in Nat /\ SizeLimit \in Nat
  BY OutboundAssumption
<1>5. curSize - AckLength * n \in 0 .. SizeLimit - 1 /\ curSize - AckLength * n < AckLimit
  <2>1. n = 0 \/ n >= 1
    BY <1>2
  <2>2. CASE n = 0
    BY <1>2, <1>3, <1>4, <2>2
  <2>3. CASE n >= 1
    BY <1>2, <1>3, <1>4, <2>3
  <2>4. QED
    BY <2>1, <2>2, <2>3
<1>6. curSize' = curSize - AckLength * n
  BY <1>1, <1>5, NoWrap
<1>7. AckLength * Cardinality(pend') = 0
  <2>1. Cardinality(pend') = 0
    BY <1>1, FS_EmptySet
  <2>2. QED
    BY <1>2, <2>1
<1>8. QED
  BY <1>5, <1>6, <1>7

\* Each step keeps the size above what is pended and below its wrap.
LEMMA SizeKept == Typed /\ SizeInv /\ [Next]_vars => SizeInv'
<1> SUFFICES ASSUME Typed, SizeInv, [Next]_vars PROVE SizeInv'
  OBVIOUS
<1>1. "process" \in Thread /\ "timer" \in Thread /\ at \in [Thread -> StepNames]
  BY DEF Thread, Typed, HandTypes
<1>2. ASSUME UNCHANGED <<pend, curSize, cut>>, at["process"] = "size" => at'["process"] = "size"
      PROVE  SizeInv'
  BY <1>2 DEF SizeInv
<1>3. ASSUME NEW m \in Msg, ToSend(m) PROVE SizeInv'
  BY <1>2, <1>3 DEF ToSend, ackVars
<1>4. ASSUME NEW m \in Msg, AckDone(m) PROVE SizeInv'
  BY <1>2, <1>4 DEF AckDone, threadVars, ackHistory
<1>5. ASSUME NEW i \in AckId, AddAck(i) PROVE SizeInv'
  <2> SUFFICES ASSUME ~ cut PROVE SizeInv'
    BY <1>5 DEF AddAck, SizeInv
  <2>1. /\ pend' = pend \cup {i} /\ curSize' = (curSize + AckLength) % SizeLimit
        /\ at["process"] = "idle" /\ at'["process"] = "size"
    BY <1>1, <1>5 DEF AddAck, Go
  <2>2. /\ Cardinality(pend) \in Nat /\ Cardinality(pend') \in Nat
        /\ Cardinality(pend') <= Cardinality(pend) + 1
    <3>1. IsFiniteSet(pend) /\ Cardinality(pend) \in Nat
      BY FS_CardinalityType DEF Typed, AckTypes
    <3>2. /\ IsFiniteSet(pend \cup {i})
          /\ Cardinality(pend \cup {i}) =
                IF i \in pend THEN Cardinality(pend) ELSE Cardinality(pend) + 1
      BY <3>1, FS_AddElement
    <3>3. QED
      BY <2>1, <3>1, <3>2
  <2>3. curSize \in Nat /\ AckLength = 10
    BY SizesType DEF Typed, AckTypes, AckLength, IdLength, TimeLength
  <2>4. curSize < AckLimit /\ curSize >= AckLength * Cardinality(pend)
    BY <2>1 DEF SizeInv
  <2>5. curSize + AckLength \in 0 .. SizeLimit - 1
    BY <2>3, <2>4, OutboundAssumption
  <2>6. curSize' = curSize + AckLength
    BY <2>1, <2>5, NoWrap
  <2>7. curSize' >= AckLength * Cardinality(pend') /\ curSize' < AckLimit + AckLength
    BY <2>2, <2>3, <2>4, <2>6, SizesType
  <2>8. QED
    BY <2>1, <2>7 DEF SizeInv
<1>6. ASSUME NEW t \in Thread, Steps(t) PROVE SizeInv'
  BY <1>1, <1>2, <1>6 DEF Steps, Get, Pace, Go, ackVars, ackHistory
<1>7. CASE Process
  <2>1. CASE Attach
    BY <1>1, <2>1, EnqueueLeaves, SizeByGetAck DEF Attach
  <2>2. CASE ArmTimer
    <3>1. CASE AckNow
      BY <2>2, <3>1, SizeByGetAck, OutboundAssumption DEF ArmTimer
    <3>2. CASE ~ AckNow
      <4>1. curSize < AckLimit /\ UNCHANGED <<pend, curSize, cut>>
        BY <2>2, <3>2, SizesType DEF ArmTimer, AckNow, Typed, AckTypes
      <4>2. QED
        BY <4>1 DEF SizeInv
    <3>3. QED
      BY <3>1, <3>2
  <2>3. CASE RaiseFlag
    BY <1>2, <2>3 DEF RaiseFlag, ackHistory
  <2>4. QED
    BY <1>1, <1>6, <1>7, <2>1, <2>2, <2>3 DEF Process
<1>8. ASSUME NEW t \in Thread, TimerThread(t) PROVE SizeInv'
  <2>1. ASSUME NEW m \in Msg, TimerOut(t, m) PROVE SizeInv'
    BY <1>1, <1>2, <2>1 DEF TimerOut, Go, ackVars, ackHistory
  <2>2. CASE AckTimerOut
    BY <1>1, <1>2, <2>2 DEF AckTimerOut, Go, ackHistory
  <2>3. CASE SendAcks
    BY <2>3, SizeByGetAck, OutboundAssumption DEF SendAcks
  <2>4. CASE Resend(t)
    <3>1. CASE Enqueue(t, wasResent')
      BY <2>4, <3>1, EnqueueLeaves, SizeByGetAck DEF Resend
    <3>2. CASE Rest(t) /\ UNCHANGED <<pend, curSize, cut>>
      BY <1>1, <1>2, <2>4, <3>2 DEF Resend, Rest
    <3>3. QED
      BY <2>4, <3>1, <3>2 DEF Resend
  <2>5. QED
    BY <1>6, <1>8, <2>1, <2>2, <2>3, <2>4 DEF TimerThread
<1>9. CASE AckDoneElsewhere \/ UNCHANGED vars
  BY <1>2, <1>9 DEF AckDoneElsewhere, vars, ackVars, threadVars, ackHistory
<1>10. QED
  BY <1>3, <1>4, <1>5, <1>7, <1>8, <1>9, NextMessage DEF Next, QuickResend, Thread

\* Until a GetAck leaves an ack behind, _cur_size covers what is pended, and no
\* more stays pended than the limit.
THEOREM SizeIsCovered == Spec => []SizeCovers
<1>1. Init => SizeInv
  <2> SUFFICES ASSUME Init PROVE SizeInv
    OBVIOUS
  <2>1. Cardinality(pend) = 0 /\ curSize = 0 /\ curSize < AckLimit
    BY FS_EmptySet, OutboundAssumption DEF Init
  <2>2. AckLength * Cardinality(pend) = 0
    BY <2>1 DEF AckLength, IdLength, TimeLength
  <2>3. QED
    BY <2>1, <2>2 DEF SizeInv
<1>2. Typed /\ SizeInv => SizeCovers
  <2> SUFFICES ASSUME Typed, SizeInv PROVE SizeCovers
    OBVIOUS
  <2>1. AckLength * Cardinality(pend) \in Int /\ curSize \in Int /\ AckLimit \in Int
    BY FS_CardinalityType, SizesType DEF Typed, AckTypes, AckLength, IdLength, TimeLength
  <2>2. QED
    BY <2>1 DEF SizeInv, SizeCovers
<1>3. QED
  BY <1>1, <1>2, InitTyped, TypedKept, SizeKept, PTL DEF Spec
-----------------------------------------------------------------------------
(* How often a message is sent. A call of ToSend puts a copy of it in the    *)
(* hands of the process thread and one in a timer, if it has one. From there *)
(* the copies go on one by one, so that those sent and those under way are   *)
(* no more than were put in.                                                 *)

\* Where s holds m.
PlacesIn(s, m) == {i \in 1 .. Len(s) : s[i] = m}
Occ(s, m) == Cardinality(PlacesIn(s, m))

\* The threads that are to queue m, and those that have taken it.
Working(m) == {t \in Thread : on[t] = m /\ at[t] # "get"}
Holding(m) == {t \in Thread : got[t] = m}

Named(m)   == IF m \in timers THEN 1 ELSE 0
Waiting(m) == Named(m) + loose[m] + paced[m]
InQueue(m) == Occ(resend, m) + Occ(normal, m)
InHands(m) == Cardinality(Working(m)) + Cardinality(Holding(m))

Allowed(m) == (IF m \in Reliable THEN 2 ELSE 1) * handed[m]

Copies(m) == sends[m] + Waiting(m) + InQueue(m) + InHands(m)

BoundedOf(m) ==
    /\ Copies(m) <= Allowed(m)
    /\ m \notin Handed => handed[m] = 0

Bounded == \A m \in Msg : BoundedOf(m)

\* A set with an injection into a finite one is no larger.
LEMMA NoLarger ==
    ASSUME NEW S, NEW T, IsFiniteSet(T), NEW f \in [S -> T],
           \A x, y \in S : f[x] = f[y] => x = y
    PROVE  /\ Cardinality(S) \in Nat /\ Cardinality(T) \in Nat
           /\ Cardinality(S) <= Cardinality(T)
<1>1. f \in Injection(S, T)
  BY DEF Injection, IsInjective
<1>2. QED
  BY <1>1, FS_Injection, FS_CardinalityType

\* The places in a sequence are a number.
LEMMA OccType ==
    ASSUME NEW S, NEW s \in Seq(S), NEW m
    PROVE  IsFiniteSet(PlacesIn(s, m)) /\ Occ(s, m) \in Nat
<1>1. Len(s) \in Nat
  BY LenProperties
<1>2. IsFiniteSet(1 .. Len(s)) /\ PlacesIn(s, m) \in SUBSET (1 .. Len(s))
  BY <1>1, CountOfSegment DEF PlacesIn
<1>3. IsFiniteSet(PlacesIn(s, m))
  BY <1>2, FS_Subset
<1>4. QED
  BY <1>3, FS_CardinalityType DEF Occ

\* Append adds one place of what it appends.
LEMMA OccOfAppend ==
    ASSUME NEW S, NEW s \in Seq(S), NEW e \in S, NEW m
    PROVE  /\ m = e => Occ(Append(s, e), m) = Occ(s, m) + 1
           /\ m # e => Occ(Append(s, e), m) = Occ(s, m)
<1>1. /\ Len(s) \in Nat /\ Len(Append(s, e)) = Len(s) + 1 /\ Append(s, e)[Len(s) + 1] = e
      /\ \A i \in 1 .. Len(s) : Append(s, e)[i] = s[i]
  BY AppendProperties, LenProperties
<1>2. CASE m = e
  <2>1. PlacesIn(Append(s, e), m) = PlacesIn(s, m) \cup {Len(s) + 1}
    BY <1>1, <1>2 DEF PlacesIn
  <2>2. Len(s) + 1 \notin PlacesIn(s, m)
    BY <1>1 DEF PlacesIn
  <2>3. Cardinality(PlacesIn(s, m) \cup {Len(s) + 1}) = Cardinality(PlacesIn(s, m)) + 1
    BY <2>2, OccType, FS_AddElement
  <2>4. QED
    BY <1>2, <2>1, <2>3 DEF Occ
<1>3. CASE m # e
  <2>1. PlacesIn(Append(s, e), m) = PlacesIn(s, m)
    BY <1>1, <1>3 DEF PlacesIn
  <2>2. QED
    BY <1>3, <2>1 DEF Occ
<1>4. QED
  BY <1>2, <1>3

\* Tail takes off one place of the head.
LEMMA OccOfTail ==
    ASSUME NEW S, NEW s \in Seq(S), s # <<>>, NEW m
    PROVE  /\ Occ(Tail(s), m) \in Nat /\ Occ(s, m) \in Nat
           /\ m = Head(s) => Occ(Tail(s), m) + 1 <= Occ(s, m)
           /\ m # Head(s) => Occ(Tail(s), m) <= Occ(s, m)
<1>1. /\ Tail(s) \in Seq(S) /\ Len(s) \in Nat /\ Len(Tail(s)) = Len(s) - 1 /\ Len(s) > 0
      /\ \A i \in 1 .. Len(s) - 1 : Tail(s)[i] = s[i + 1]
      /\ Head(s) = s[1]
  BY HeadTailProperties, LenProperties, EmptySeq
<1>2. Occ(Tail(s), m) \in Nat /\ Occ(s, m) \in Nat /\ IsFiniteSet(PlacesIn(s, m))
  BY <1>1, OccType
<1> DEFINE f == [i \in PlacesIn(Tail(s), m) |-> i + 1]
<1>3. \A i \in PlacesIn(Tail(s), m) : i \in Nat /\ i + 1 \in PlacesIn(s, m) \ {1}
  BY <1>1 DEF PlacesIn
<1>4. f \in [PlacesIn(Tail(s), m) -> PlacesIn(s, m) \ {1}]
      /\ \A i, j \in PlacesIn(Tail(s), m) : f[i] = f[j] => i = j
  BY <1>3
<1>5. IsFiniteSet(PlacesIn(s, m) \ {1})
  BY <1>2, FS_Difference
<1> HIDE DEF f
<1>6. Cardinality(PlacesIn(Tail(s), m)) <= Cardinality(PlacesIn(s, m) \ {1})
  BY <1>4, <1>5, NoLarger
<1>7. 1 \in PlacesIn(s, m) <=> m = Head(s)
  BY <1>1 DEF PlacesIn
<1>8. CASE m = Head(s)
  <2>1. Cardinality(PlacesIn(s, m) \ {1}) = Cardinality(PlacesIn(s, m)) - 1
    BY <1>2, <1>7, <1>8, FS_RemoveElement
  <2>2. QED
    BY <1>2, <1>6, <1>8, <2>1 DEF Occ
<1>9. CASE m # Head(s)
  <2>1. PlacesIn(s, m) \ {1} = PlacesIn(s, m)
    BY <1>7, <1>9
  <2>2. QED
    BY <1>2, <1>6, <1>9, <2>1 DEF Occ
<1>10. QED
  BY <1>8, <1>9

\* RemoveFirst adds no place of anything.
LEMMA OccOfRemove ==
    ASSUME NEW S, NEW s \in Seq(S), NEW e, NEW m
    PROVE  Occ(RemoveFirst(s, e), m) \in Nat /\ Occ(RemoveFirst(s, e), m) <= Occ(s, m)
<1> DEFINE I == {i \in 1 .. Len(s) : s[i] = e}
           k == Min(I)
           a == SubSeq(s, 1, k - 1)
           b == SubSeq(s, k + 1, Len(s))
<1>0. Len(s) \in Nat /\ (\A i \in 1 .. Len(s) : s[i] \in S) /\ Occ(s, m) \in Nat
  BY LenProperties, ElementOfSeq, OccType
<1>1. CASE I = {}
  <2>1. RemoveFirst(s, e) = s
    BY <1>1 DEF RemoveFirst
  <2>2. QED
    BY <1>0, <2>1
<1>2. CASE I # {}
  <2>1. k \in 1 .. Len(s)
    <3>1. IsFiniteSet(1 .. Len(s)) /\ I \in SUBSET (1 .. Len(s)) /\ I \subseteq Int
      BY <1>0, FS_Interval
    <3>2. k \in I
      BY <1>2, <3>1, FS_Subset, MinIsLeast
    <3>3. QED
      BY <3>2
  <2>2. RemoveFirst(s, e) = a \o b
    BY <1>2 DEF RemoveFirst, RemoveAt, SelectInSeq
  <2> HIDE DEF k
  <2>3. a \in Seq(S) /\ Len(a) = k - 1 /\ \A i \in 1 .. k - 1 : a[i] = s[i]
    <3>1. \A i \in 1 .. k - 1 : s[i] \in S
      BY <1>0, <2>1
    <3>2. QED
      BY <1>0, <2>1, <3>1, SubSeqProperties
  <2>4. b \in Seq(S) /\ Len(b) = Len(s) - k /\ \A i \in 1 .. Len(s) - k : b[i] = s[k + i]
    <3>1. \A i \in k + 1 .. Len(s) : s[i] \in S
      BY <1>0, <2>1
    <3>2. QED
      BY <1>0, <2>1, <3>1, SubSeqProperties
  <2> HIDE DEF a, b
  <2> DEFINE c == a \o b
  <2>5. c \in Seq(S) /\ Len(c) = Len(s) - 1
        /\ \A i \in 1 .. Len(s) - 1 : c[i] = IF i <= k - 1 THEN a[i] ELSE b[i - (k - 1)]
    <3>1. c \in Seq(S) /\ Len(c) = Len(a) + Len(b)
          /\ \A i \in 1 .. Len(a) + Len(b) : c[i] = IF i <= Len(a) THEN a[i] ELSE b[i - Len(a)]
      BY <2>3, <2>4, ConcatProperties
    <3>2. Len(a) + Len(b) = Len(s) - 1
      BY <1>0, <2>1, <2>3, <2>4
    <3>3. QED
      BY <3>1, <3>2, <2>3
  <2> HIDE DEF c
  <2>6. ASSUME NEW i \in 1 .. Len(s) - 1
        PROVE  c[i] = s[IF i < k THEN i ELSE i + 1]
    <3>1. CASE i < k
      <4>1. i <= k - 1 /\ i \in 1 .. k - 1
        BY <1>0, <2>1, <3>1
      <4>2. QED
        BY <2>3, <2>5, <3>1, <4>1
    <3>2. CASE ~ (i < k)
      <4>1. ~ (i <= k - 1) /\ i - (k - 1) \in 1 .. Len(s) - k /\ k + (i - (k - 1)) = i + 1
        BY <1>0, <2>1, <3>2
      <4>2. QED
        BY <2>4, <2>5, <3>2, <4>1
    <3>3. QED
      BY <3>1, <3>2
  <2> DEFINE f == [i \in PlacesIn(c, m) |-> IF i < k THEN i ELSE i + 1]
  <2>7. \A i \in PlacesIn(c, m) : i \in 1 .. Len(s) - 1 /\ c[i] = m
    BY <2>5 DEF PlacesIn
  <2>8. ASSUME NEW i \in PlacesIn(c, m) PROVE f[i] \in PlacesIn(s, m)
    <3>1. s[IF i < k THEN i ELSE i + 1] = m
      BY <2>6, <2>7
    <3>2. (IF i < k THEN i ELSE i + 1) \in 1 .. Len(s)
      BY <1>0, <2>1, <2>7
    <3>3. QED
      BY <3>1, <3>2 DEF PlacesIn
  <2>9. \A i, j \in PlacesIn(c, m) : f[i] = f[j] => i = j
    BY <1>0, <2>1, <2>7
  <2>10. f \in [PlacesIn(c, m) -> PlacesIn(s, m)]
    BY <2>8
  <2> HIDE DEF f
  <2>11. Cardinality(PlacesIn(c, m)) \in Nat
         /\ Cardinality(PlacesIn(c, m)) <= Cardinality(PlacesIn(s, m))
    BY <2>9, <2>10, OccType, NoLarger
  <2>12. QED
    BY <2>2, <2>11 DEF Occ, c
<1>3. QED
  BY <1>1, <1>2

\* Two sets of threads that differ by t at most.
LEMMA OneThread ==
    ASSUME NEW A, NEW B, A \subseteq Thread, B \subseteq Thread, NEW t \in Thread,
           A \ {t} = B \ {t}
    PROVE  /\ Cardinality(A) \in Nat /\ Cardinality(B) \in Nat
           /\ Cardinality(B) <= Cardinality(A) + 1
           /\ (t \in B => t \in A) => Cardinality(B) <= Cardinality(A)
           /\ t \in A /\ t \notin B => Cardinality(B) + 1 <= Cardinality(A)
<1>1. IsFiniteSet(Thread)
  <2>1. Thread = {"process"} \cup {"timer"} \cup {"pacer"}
    BY DEF Thread
  <2>2. QED
    BY <2>1, FS_Singleton, FS_Union
<1>2. IsFiniteSet(A) /\ IsFiniteSet(B)
  BY <1>1, FS_Subset
<1>3. Cardinality(A) \in Nat /\ Cardinality(B) \in Nat
  BY <1>2, FS_CardinalityType
<1>4. CASE t \in A /\ t \notin B
  <2>1. B = A \ {t}
    BY <1>4
  <2>2. Cardinality(B) = Cardinality(A) - 1
    BY <1>2, <1>4, <2>1, FS_RemoveElement
  <2>3. QED
    BY <1>3, <1>4, <2>2
<1>5. CASE t \notin A /\ t \in B
  <2>1. B = A \cup {t}
    BY <1>5
  <2>2. Cardinality(B) = Cardinality(A) + 1
    BY <1>2, <1>5, <2>1, FS_AddElement
  <2>3. QED
    BY <1>3, <1>5, <2>2
<1>6. CASE t \in A <=> t \in B
  <2>1. A = B
    BY <1>6
  <2>2. QED
    BY <1>3, <1>6, <2>1
<1>7. QED
  BY <1>4, <1>5, <1>6

\* The parts are numbers, before a step and after it.
CopiesFit ==
    \A m \in Msg :
        /\ sends[m] \in Nat /\ Named(m) \in Nat /\ loose[m] \in Nat /\ paced[m] \in Nat
        /\ Waiting(m) \in Nat /\ Occ(resend, m) \in Nat /\ Occ(normal, m) \in Nat
        /\ InQueue(m) \in Nat /\ Cardinality(Working(m)) \in Nat
        /\ Cardinality(Holding(m)) \in Nat /\ InHands(m) \in Nat
        /\ Copies(m) \in Nat /\ handed[m] \in Nat /\ Allowed(m) \in Nat

\* In a state of the right types they are.
LEMMA CopiesType == Typed => CopiesFit
<1> SUFFICES ASSUME Typed, NEW m \in Msg
             PROVE  /\ sends[m] \in Nat /\ Named(m) \in Nat
                    /\ loose[m] \in Nat /\ paced[m] \in Nat
                    /\ Waiting(m) \in Nat /\ Occ(resend, m) \in Nat /\ Occ(normal, m) \in Nat
                    /\ InQueue(m) \in Nat /\ Cardinality(Working(m)) \in Nat
                    /\ Cardinality(Holding(m)) \in Nat /\ InHands(m) \in Nat
                    /\ Copies(m) \in Nat /\ handed[m] \in Nat /\ Allowed(m) \in Nat
  BY DEF CopiesFit
<1>1. sends[m] \in Nat /\ loose[m] \in Nat /\ paced[m] \in Nat /\ handed[m] \in Nat
  BY DEF Typed, CountTypes
<1>2. Named(m) \in Nat
  BY DEF Named
<1>3. Occ(resend, m) \in Nat /\ Occ(normal, m) \in Nat
  BY OccType DEF Typed, QueueTypes
<1>4. Cardinality(Working(m)) \in Nat /\ Cardinality(Holding(m)) \in Nat
  <2>1. "timer" \in Thread /\ Working(m) \subseteq Thread /\ Holding(m) \subseteq Thread
    BY DEF Thread, Working, Holding
  <2>2. QED
    BY <2>1, OneThread
<1>5. Waiting(m) \in Nat
  BY <1>1, <1>2 DEF Waiting
<1>6. InQueue(m) \in Nat
  BY <1>3 DEF InQueue
<1>7. InHands(m) \in Nat
  BY <1>4 DEF InHands
<1>8. Allowed(m) \in Nat
  BY <1>1 DEF Allowed
<1>9. Copies(m) \in Nat
  BY <1>1, <1>5, <1>6, <1>7 DEF Copies
<1>10. QED
  BY <1>1, <1>2, <1>3, <1>4, <1>5, <1>6, <1>7, <1>8, <1>9

\* So they are after a step that keeps the types.
LEMMA CopiesTypeNext == Typed' => CopiesFit'
BY CopiesType, PTL

\* A step that hands over nothing and makes no copy.
LEMMA NoCopy ==
    ASSUME Typed, Typed', NEW m \in Msg, BoundedOf(m), kind' = kind, handed' = handed,
           Copies(m)' <= Copies(m)
    PROVE  BoundedOf(m)'
<1>1. Reliable' = Reliable /\ Handed' = Handed
  BY KindKept
<1>2. Allowed(m)' = Allowed(m)
  BY <1>1 DEF Allowed
<1>3. Copies(m) \in Nat /\ Copies(m)' \in Nat /\ Allowed(m) \in Nat
  BY CopiesType, CopiesTypeNext DEF CopiesFit
<1>4. Copies(m)' <= Allowed(m)'
  BY <1>2, <1>3 DEF BoundedOf
<1>5. QED
  BY <1>1, <1>4 DEF BoundedOf

\* What a step of thread t does to the hands that hold m.
LEMMA HandsOf ==
    ASSUME Typed, Typed', NEW m \in Msg, NEW t \in Thread,
           \A u \in Thread \ {t} : on'[u] = on[u] /\ at'[u] = at[u] /\ got'[u] = got[u]
    PROVE  /\ Cardinality(Working(m))' <= Cardinality(Working(m)) + 1
           /\ (on'[t] = m /\ at'[t] # "get" => on[t] = m /\ at[t] # "get")
                => Cardinality(Working(m))' <= Cardinality(Working(m))
           /\ on[t] = m /\ at[t] # "get" /\ ~ (on'[t] = m /\ at'[t] # "get")
                => Cardinality(Working(m))' + 1 <= Cardinality(Working(m))
           /\ Cardinality(Holding(m))' <= Cardinality(Holding(m)) + 1
           /\ (got'[t] = m => got[t] = m) => Cardinality(Holding(m))' <= Cardinality(Holding(m))
           /\ got[t] = m /\ got'[t] # m => Cardinality(Holding(m))' + 1 <= Cardinality(Holding(m))
<1>1. PICK A, B : A = Working(m) /\ B = Working(m)'
  OBVIOUS
<1>2. PICK C, D : C = Holding(m) /\ D = Holding(m)'
  OBVIOUS
<1>3. A \subseteq Thread /\ B \subseteq Thread /\ A \ {t} = B \ {t}
      /\ (t \in A <=> on[t] = m /\ at[t] # "get") /\ (t \in B <=> on'[t] = m /\ at'[t] # "get")
  BY <1>1 DEF Working
<1>4. C \subseteq Thread /\ D \subseteq Thread /\ C \ {t} = D \ {t}
      /\ (t \in C <=> got[t] = m) /\ (t \in D <=> got'[t] = m)
  BY <1>2 DEF Holding
<1>5. /\ Cardinality(B) <= Cardinality(A) + 1
      /\ (t \in B => t \in A) => Cardinality(B) <= Cardinality(A)
      /\ t \in A /\ t \notin B => Cardinality(B) + 1 <= Cardinality(A)
  BY <1>3, OneThread
<1>6. /\ Cardinality(D) <= Cardinality(C) + 1
      /\ (t \in D => t \in C) => Cardinality(D) <= Cardinality(C)
      /\ t \in C /\ t \notin D => Cardinality(D) + 1 <= Cardinality(C)
  BY <1>4, OneThread
<1>7. /\ Cardinality(Working(m)) = Cardinality(A) /\ Cardinality(Working(m))' = Cardinality(B)
      /\ Cardinality(Holding(m)) = Cardinality(C) /\ Cardinality(Holding(m))' = Cardinality(D)
  BY <1>1, <1>2
<1>8. QED
  BY <1>3, <1>4, <1>5, <1>6, <1>7

\* A step that takes up no message, or puts one down.
LEMMA HandsOnly ==
    ASSUME Typed, Typed', NEW m \in Msg, BoundedOf(m), kind' = kind, handed' = handed,
           NEW t \in Thread,
           \A u \in Thread \ {t} : on'[u] = on[u] /\ at'[u] = at[u] /\ got'[u] = got[u],
           on'[t] = m /\ at'[t] # "get" => on[t] = m /\ at[t] # "get", got'[t] = got[t],
           UNCHANGED <<timerVars, paced, queueVars, sends>>
    PROVE  BoundedOf(m)'
<1>1. Waiting(m)' = Waiting(m)
  BY DEF Waiting, Named, timerVars
<1>2. InQueue(m)' = InQueue(m)
  BY DEF InQueue, Occ, PlacesIn, queueVars
<1>3. InHands(m)' <= InHands(m)
  <2>1. Cardinality(Working(m))' <= Cardinality(Working(m))
        /\ Cardinality(Holding(m))' <= Cardinality(Holding(m))
    BY HandsOf
  <2>2. QED
    BY <2>1, CopiesType, CopiesTypeNext DEF InHands, CopiesFit
<1>4. Copies(m)' <= Copies(m)
  BY <1>1, <1>2, <1>3, CopiesType, CopiesTypeNext DEF Copies, CopiesFit
<1>5. QED
  BY <1>4, NoCopy

\* ToSend makes as many copies as it allows for.
LEMMA CopiedByToSend ==
    ASSUME Typed, Typed', Bounded, NEW n \in Msg, ToSend(n),
           n \in Handed', Handed \subseteq Handed',
           \A m \in Msg : m # n => (m \in Reliable' <=> m \in Reliable) /\
                                   (m \in Handed' <=> m \in Handed),
           n \in Handed => (n \in Reliable' <=> n \in Reliable),
           kind'[n] # "plain" => n \in Reliable'
    PROVE  Bounded'
<1>1. /\ handed' = [handed EXCEPT ![n] = @ + 1] /\ handed \in [Msg -> Nat]
      /\ UNCHANGED <<sends, paced, queueVars, got>>
      /\ at["process"] = "idle" /\ "process" \in Thread
      /\ \A u \in Thread \ {"process"} : on'[u] = on[u] /\ at'[u] = at[u] /\ got'[u] = got[u]
      /\ on'["process"] = n /\ at'["process"] = "attach"
  BY DEF ToSend, Go, paceVars, Typed, CountTypes, HandTypes, Thread
<1>2. ASSUME NEW m \in Msg
      PROVE  InQueue(m)' = InQueue(m) /\ Cardinality(Holding(m))' <= Cardinality(Holding(m))
  <2>1. InQueue(m)' = InQueue(m)
    BY <1>1 DEF InQueue, Occ, PlacesIn, queueVars
  <2>2. QED
    BY <1>1, <2>1, HandsOf
<1>3. ASSUME NEW m \in Msg, m # n PROVE BoundedOf(m)'
  <2>1. Waiting(m)' = Waiting(m)
    BY <1>1, <1>3, UnnamedType DEF ToSend, timerVars, Waiting, Named, Typed
  <2>2. Cardinality(Working(m))' <= Cardinality(Working(m))
    BY <1>1, <1>3, HandsOf
  <2>3. Copies(m)' <= Copies(m)
    BY <1>1, <1>2, <2>1, <2>2, CopiesType, CopiesTypeNext DEF Copies, InHands, CopiesFit
  <2>4. Allowed(m)' = Allowed(m) /\ (m \in Handed' <=> m \in Handed) /\ handed'[m] = handed[m]
    BY <1>1, <1>3 DEF Allowed
  <2>5. Copies(m)' <= Allowed(m)'
    BY <2>3, <2>4, CopiesType, CopiesTypeNext DEF CopiesFit, Bounded, BoundedOf
  <2>6. QED
    BY <2>4, <2>5 DEF Bounded, BoundedOf
<1>4. BoundedOf(n)'
  <2>1. Cardinality(Working(n))' <= Cardinality(Working(n)) + 1
    BY <1>1, HandsOf
  <2>2. Waiting(n)' <= Waiting(n) + (IF n \in Reliable' THEN 1 ELSE 0)
    <3>1. CASE timers' = timers \cup {n} /\ loose' = Unnamed(n) /\ n \in Reliable'
      <4>1. Unnamed(n)[n] = IF n \in timers THEN loose[n] + 1 ELSE loose[n]
        BY UnnamedType DEF Typed
      <4>2. Named(n)' = 1 /\ Named(n) = IF n \in timers THEN 1 ELSE 0
        BY <3>1 DEF Named
      <4>3. Waiting(n)' = 1 + loose'[n] + paced[n] /\ Waiting(n) = Named(n) + loose[n] + paced[n]
        BY <1>1, <4>2 DEF Waiting
      <4>4. loose[n] \in Nat /\ paced[n] \in Nat
        BY CopiesType DEF CopiesFit
      <4>5. QED
        BY <3>1, <4>1, <4>2, <4>3, <4>4
    <3>2. CASE UNCHANGED timerVars
      <4>1. Waiting(n)' = Waiting(n)
        BY <1>1, <3>2 DEF Waiting, Named, timerVars
      <4>2. QED
        BY <4>1, CopiesType DEF CopiesFit
    <3>3. QED
      BY <3>1, <3>2 DEF ToSend
  <2>3. Copies(n)' <= Copies(n) + (IF n \in Reliable' THEN 2 ELSE 1)
    BY <1>1, <1>2, <2>1, <2>2, CopiesType, CopiesTypeNext DEF Copies, InHands, CopiesFit
  <2>4. Allowed(n)' = Allowed(n) + (IF n \in Reliable' THEN 2 ELSE 1)
    <3>1. handed'[n] = handed[n] + 1 /\ handed[n] \in Nat
      BY <1>1
    <3>2. CASE n \in Handed
      BY <3>1, <3>2 DEF Allowed
    <3>3. CASE n \notin Handed
      BY <3>1, <3>3 DEF Allowed, Bounded, BoundedOf
    <3>4. QED
      BY <3>2, <3>3
  <2>5. Copies(n) <= Allowed(n)
    BY DEF Bounded, BoundedOf
  <2>6. Copies(n)' <= Allowed(n)'
    BY <2>3, <2>4, <2>5, CopiesType, CopiesTypeNext DEF CopiesFit
  <2>7. QED
    BY <2>6 DEF BoundedOf
<1>5. QED
  BY <1>3, <1>4 DEF Bounded

\* AckDone and RemoveTimer take copies away.
LEMMA CopiedByErase ==
    ASSUME Typed, Typed', NEW m \in Msg, BoundedOf(m), kind' = kind, handed' = handed,
           NEW named, EraseList(named), NEW e,
           UNCHANGED queueVars \/ (resend' = ResendWithout(e) /\ normal' = NormalWithout(e)),
           UNCHANGED <<paced, threadVars, sends>>
    PROVE  BoundedOf(m)'
<1>1. Waiting(m)' <= Waiting(m)
  <2>1. loose'[m] <= loose[m] /\ timers' \subseteq timers
    BY EraseLeaves DEF Typed
  <2>2. Named(m)' <= Named(m)
    BY <2>1 DEF Named
  <2>3. QED
    BY <2>1, <2>2, CopiesType, CopiesTypeNext DEF Waiting, CopiesFit
<1>2. InQueue(m)' <= InQueue(m)
  <2>1. CASE UNCHANGED queueVars
    <3>1. InQueue(m)' = InQueue(m)
      BY <2>1 DEF InQueue, Occ, PlacesIn, queueVars
    <3>2. QED
      BY <3>1, CopiesType DEF CopiesFit
  <2>2. CASE resend' = ResendWithout(e) /\ normal' = NormalWithout(e)
    <3>1. /\ Occ(RemoveFirst(resend, e), m) <= Occ(resend, m)
          /\ Occ(RemoveFirst(normal, e), m) <= Occ(normal, m)
          /\ Occ(RemoveFirst(resend, e), m) \in Nat /\ Occ(RemoveFirst(normal, e), m) \in Nat
      BY OccOfRemove DEF Typed, QueueTypes
    <3>2. InQueue(m)' = Occ(resend', m) + Occ(normal', m)
      BY DEF InQueue, Occ, PlacesIn
    <3>3. Occ(resend', m) <= Occ(resend, m) /\ Occ(resend', m) \in Nat
      BY <2>2, <3>1 DEF ResendWithout
    <3>4. Occ(normal', m) <= Occ(normal, m) /\ Occ(normal', m) \in Nat
      BY <2>2, <3>1, CopiesType DEF NormalWithout, CopiesFit
    <3>5. QED
      BY <3>2, <3>3, <3>4, CopiesType DEF InQueue, CopiesFit
  <2>3. QED
    BY <2>1, <2>2
<1>3. InHands(m)' = InHands(m)
  BY DEF InHands, Working, Holding, threadVars
<1>4. Copies(m)' <= Copies(m)
  BY <1>1, <1>2, <1>3, CopiesType, CopiesTypeNext DEF Copies, CopiesFit
<1>5. QED
  BY <1>4, NoCopy

\* TimerOut moves a copy from a timer to the hands of a thread.
LEMMA CopiedByTimerOut ==
    ASSUME Typed, Typed', NEW m \in Msg, BoundedOf(m), NEW t \in Thread, NEW n \in Msg,
           TimerOut(t, n)
    PROVE  BoundedOf(m)'
<1>1. /\ kind' = kind /\ handed' = handed /\ UNCHANGED <<sends, queueVars, got>>
      /\ at[t] = "idle" /\ on' = [on EXCEPT ![t] = n]
      /\ \A u \in Thread \ {t} : on'[u] = on[u] /\ at'[u] = at[u] /\ got'[u] = got[u]
      /\ on'[t] = n
  BY DEF TimerOut, Go, msgHistory, Typed, HandTypes
<1>2. InQueue(m)' = InQueue(m)
  BY <1>1 DEF InQueue, Occ, PlacesIn, queueVars
<1>3. Cardinality(Holding(m))' <= Cardinality(Holding(m))
      /\ Cardinality(Working(m))' <= Cardinality(Working(m)) + (IF m = n THEN 1 ELSE 0)
  <2>1. Cardinality(Holding(m))' <= Cardinality(Holding(m))
        /\ Cardinality(Working(m))' <= Cardinality(Working(m)) + 1
        /\ (m # n => Cardinality(Working(m))' <= Cardinality(Working(m)))
    BY <1>1, HandsOf
  <2>2. QED
    BY <2>1, CopiesType, CopiesTypeNext DEF CopiesFit
<1>4. Waiting(m)' = Waiting(m) - (IF m = n THEN 1 ELSE 0)
  <2>1. /\ loose \in [Msg -> Nat] /\ paced \in [Msg -> Nat]
        /\ Named(m) \in Nat /\ loose[m] \in Nat /\ paced[m] \in Nat
    BY CopiesType DEF Typed, CountTypes, CopiesFit
  <2>2. CASE n \in timers /\ timers' = timers \ {n} /\ UNCHANGED <<loose, paced>>
    <3>1. Named(m)' = Named(m) - (IF m = n THEN 1 ELSE 0)
      BY <2>2 DEF Named
    <3>2. QED
      BY <2>1, <2>2, <3>1 DEF Waiting
  <2>3. CASE loose' = [loose EXCEPT ![n] = @ - 1] /\ UNCHANGED <<timers, paced>>
    <3>1. Named(m)' = Named(m) /\ loose'[m] = loose[m] - (IF m = n THEN 1 ELSE 0)
      BY <2>1, <2>3 DEF Named
    <3>2. QED
      BY <2>1, <2>3, <3>1 DEF Waiting
  <2>4. CASE paced' = [paced EXCEPT ![n] = @ - 1] /\ UNCHANGED timerVars
    <3>1. Named(m)' = Named(m) /\ paced'[m] = paced[m] - (IF m = n THEN 1 ELSE 0)
          /\ loose'[m] = loose[m]
      BY <2>1, <2>4 DEF Named, timerVars
    <3>2. QED
      BY <2>1, <3>1 DEF Waiting
  <2>5. QED
    BY <2>2, <2>3, <2>4 DEF TimerOut
<1>5. Copies(m)' <= Copies(m)
  BY <1>1, <1>2, <1>3, <1>4, CopiesType, CopiesTypeNext DEF Copies, InHands, CopiesFit
<1>6. QED
  BY <1>1, <1>5, NoCopy

\* Enqueue moves one from the hands of the thread to a queue.
LEMMA CopiedByEnqueue ==
    ASSUME Typed, Typed', NEW m \in Msg, BoundedOf(m), NEW t \in Thread,
           at[t] \in {"attach", "resend"}, NEW resent, Enqueue(t, resent),
           UNCHANGED <<kind, handed, sends, timerVars, paced, on, got>>
    PROVE  BoundedOf(m)'
<1>0. PICK n \in Msg : n = on[t]
  BY EnqueueLeaves, HandedTypes
<1>1. at'[t] = "get" /\ \A u \in Thread \ {t} : on'[u] = on[u] /\ at'[u] = at[u] /\ got'[u] = got[u]
  BY DEF Enqueue, Go, Typed, HandTypes
<1>2. Waiting(m)' = Waiting(m)
  BY DEF Waiting, Named, timerVars
<1>3. InQueue(m)' = InQueue(m) + (IF m = n THEN 1 ELSE 0)
  <2>1. /\ Occ(Append(resend, n), m) = Occ(resend, m) + (IF m = n THEN 1 ELSE 0)
        /\ Occ(Append(normal, n), m) = Occ(normal, m) + (IF m = n THEN 1 ELSE 0)
    <3>1. resend \in Seq(Msg) /\ normal \in Seq(Msg)
      BY DEF Typed, QueueTypes
    <3>2. Occ(resend, m) \in Nat /\ Occ(normal, m) \in Nat
      BY CopiesType DEF CopiesFit
    <3>3. QED
      BY <3>1, <3>2, OccOfAppend
  <2>2. InQueue(m)' = Occ(resend', m) + Occ(normal', m)
    BY DEF InQueue, Occ, PlacesIn
  <2>3. \/ resend' = Append(resend, n) /\ normal' = normal
        \/ normal' = Append(normal, n) /\ resend' = resend
    BY <1>0, EnqueueLeaves
  <2>4. InQueue(m) = Occ(resend, m) + Occ(normal, m)
        /\ Occ(resend, m) \in Nat /\ Occ(normal, m) \in Nat
    BY CopiesType DEF InQueue, CopiesFit
  <2>5. CASE resend' = Append(resend, n) /\ normal' = normal
    <3>1. InQueue(m)' = Occ(Append(resend, n), m) + Occ(normal, m)
      BY <2>2, <2>5
    <3>2. QED
      BY <2>1, <2>4, <3>1
  <2>6. CASE normal' = Append(normal, n) /\ resend' = resend
    <3>1. InQueue(m)' = Occ(resend, m) + Occ(Append(normal, n), m)
      BY <2>2, <2>6
    <3>2. QED
      BY <2>1, <2>4, <3>1
  <2>7. QED
    BY <2>3, <2>5, <2>6
<1>4. Cardinality(Holding(m))' <= Cardinality(Holding(m))
      /\ Cardinality(Working(m))' + (IF m = n THEN 1 ELSE 0) <= Cardinality(Working(m))
  <2>1. /\ Cardinality(Holding(m))' <= Cardinality(Holding(m))
        /\ Cardinality(Working(m))' <= Cardinality(Working(m))
        /\ m = n => Cardinality(Working(m))' + 1 <= Cardinality(Working(m))
    BY <1>0, <1>1, HandsOf
  <2>2. QED
    BY <2>1, CopiesType, CopiesTypeNext DEF CopiesFit
<1>5. Copies(m)' <= Copies(m)
  BY <1>2, <1>3, <1>4, CopiesType, CopiesTypeNext DEF Copies, InHands, CopiesFit
<1>6. QED
  BY <1>5, NoCopy

\* Get moves one from a queue to the hands of the thread.
LEMMA CopiedByGet ==
    ASSUME Typed, Typed', NEW m \in Msg, BoundedOf(m), NEW t \in Thread, Get(t)
    PROVE  BoundedOf(m)'
<1>1. /\ UNCHANGED <<kind, handed, sends, timerVars, paced>>
      /\ at[t] \in {"get", "extra"} /\ got[t] = None /\ None \notin Msg
      /\ at \in [Thread -> StepNames] /\ got \in [Thread -> Handed \cup {None}]
      /\ on \in [Thread -> Handed \cup {None}]
      /\ on' = IF at[t] = "get" THEN [on EXCEPT ![t] = None] ELSE on
  BY HandedTypes DEF Get, paceVars, msgHistory, Typed, HandTypes
<1>2. Waiting(m)' = Waiting(m)
  BY <1>1 DEF Waiting, Named, timerVars
<1>3. InQueue(m)' = Occ(resend', m) + Occ(normal', m)
      /\ InQueue(m) = Occ(resend, m) + Occ(normal, m)
      /\ InQueue(m) \in Nat /\ Occ(resend, m) \in Nat /\ Occ(normal, m) \in Nat
  BY CopiesType DEF InQueue, Occ, PlacesIn, CopiesFit
<1>4. ASSUME NEW h \in Handed, got' = [got EXCEPT ![t] = h], Go(t, "pace"),
             InQueue(m)' + (IF m = h THEN 1 ELSE 0) <= InQueue(m)
      PROVE  BoundedOf(m)'
  <2>1. /\ \A u \in Thread \ {t} : on'[u] = on[u] /\ at'[u] = at[u] /\ got'[u] = got[u]
        /\ got'[t] = h /\ (on'[t] = m => on[t] = m /\ at[t] # "get")
    BY <1>1, <1>4 DEF Go
  <2>2. /\ Cardinality(Working(m))' <= Cardinality(Working(m))
        /\ Cardinality(Holding(m))' <= Cardinality(Holding(m)) + 1
        /\ m # h => Cardinality(Holding(m))' <= Cardinality(Holding(m))
    BY <2>1, HandsOf
  <2>3. Cardinality(Holding(m))' <= Cardinality(Holding(m)) + (IF m = h THEN 1 ELSE 0)
    BY <2>2, CopiesType, CopiesTypeNext DEF CopiesFit
  <2>4. Copies(m)' <= Copies(m)
    BY <1>1, <1>2, <1>4, <2>2, <2>3, CopiesType, CopiesTypeNext DEF Copies, InHands, CopiesFit
  <2>5. QED
    BY <1>1, <2>4, NoCopy
<1>5. CASE /\ resend # <<>> /\ resend' = Tail(resend) /\ normal' = normal
           /\ Head(resend) \in Handed /\ got' = [got EXCEPT ![t] = Head(resend)]
           /\ Go(t, "pace")
  <2>1. /\ Occ(Tail(resend), m) \in Nat
        /\ Occ(Tail(resend), m) + (IF m = Head(resend) THEN 1 ELSE 0) <= Occ(resend, m)
    BY <1>3, <1>5, OccOfTail DEF Typed, QueueTypes
  <2>2. InQueue(m)' = Occ(Tail(resend), m) + Occ(normal, m)
    BY <1>3, <1>5
  <2>3. InQueue(m)' + (IF m = Head(resend) THEN 1 ELSE 0) <= InQueue(m)
    BY <1>3, <2>1, <2>2
  <2>4. QED
    BY <1>4, <1>5, <2>3
<1>6. CASE /\ normal # <<>> /\ normal' = Tail(normal) /\ resend' = resend
           /\ Head(normal) \in Handed /\ got' = [got EXCEPT ![t] = Head(normal)]
           /\ Go(t, "pace")
  <2>1. /\ Occ(Tail(normal), m) \in Nat
        /\ Occ(Tail(normal), m) + (IF m = Head(normal) THEN 1 ELSE 0) <= Occ(normal, m)
    BY <1>3, <1>6, OccOfTail DEF Typed, QueueTypes
  <2>2. InQueue(m)' = Occ(resend, m) + Occ(Tail(normal), m)
    BY <1>3, <1>6
  <2>3. InQueue(m)' + (IF m = Head(normal) THEN 1 ELSE 0) <= InQueue(m)
    BY <1>3, <2>1, <2>2
  <2>4. QED
    BY <1>4, <1>6, <2>3
<1>7. CASE UNCHANGED <<got, queueVars>> /\ Go(t, IF at[t] = "get" THEN "idle" ELSE "resend")
  <2>1. /\ \A u \in Thread \ {t} : on'[u] = on[u] /\ at'[u] = at[u] /\ got'[u] = got[u]
        /\ (on'[t] = m => on[t] = m /\ at[t] # "get") /\ got'[t] = got[t]
    BY <1>1, <1>7 DEF Go
  <2>2. QED
    BY <1>1, <1>7, <2>1, HandsOnly
<1>8. QED
  BY <1>5, <1>6, <1>7, GetLeaves

\* Pace sends the copy in the thread's hands or puts it in the pacing timer.
LEMMA CopiedByPace ==
    ASSUME Typed, Typed', NEW m \in Msg, BoundedOf(m), NEW t \in Thread, Pace(t)
    PROVE  BoundedOf(m)'
<1>0. PICK n \in Msg : n = got[t]
  BY HandedTypes DEF Pace, Typed, HandTypes
<1>1. /\ UNCHANGED <<kind, handed, queueVars, on>> /\ None \notin Msg
      /\ \A u \in Thread \ {t} : on'[u] = on[u] /\ at'[u] = at[u] /\ got'[u] = got[u]
      /\ got'[t] = None /\ at[t] = "pace"
  BY HandedTypes DEF Pace, Go, Typed, HandTypes
<1>2. InQueue(m)' = InQueue(m)
  BY <1>1 DEF InQueue, Occ, PlacesIn, queueVars
<1>3. /\ Cardinality(Working(m))' <= Cardinality(Working(m))
      /\ Cardinality(Holding(m))' + (IF m = n THEN 1 ELSE 0) <= Cardinality(Holding(m))
  <2>1. on'[t] = on[t] /\ at[t] # "get" /\ (got'[t] = m => got[t] = m)
    BY <1>1
  <2>2. /\ Cardinality(Working(m))' <= Cardinality(Working(m))
        /\ Cardinality(Holding(m))' <= Cardinality(Holding(m))
        /\ m = n => Cardinality(Holding(m))' + 1 <= Cardinality(Holding(m))
    BY <1>0, <1>1, <2>1, HandsOf
  <2>3. QED
    BY <2>2, CopiesType, CopiesTypeNext DEF CopiesFit
<1>4. sends'[m] + Waiting(m)' <= sends[m] + Waiting(m) + (IF m = n THEN 1 ELSE 0)
  <2>1. /\ sends \in [Msg -> Nat] /\ paced \in [Msg -> Nat]
        /\ sends[m] \in Nat /\ Named(m) \in Nat /\ loose[m] \in Nat /\ paced[m] \in Nat
        /\ Waiting(m) = Named(m) + loose[m] + paced[m]
        /\ Waiting(m)' = Named(m)' + loose'[m] + paced'[m]
    BY CopiesType DEF Typed, CountTypes, CopiesFit, Waiting
  <2>2. CASE sends' = [sends EXCEPT ![n] = @ + 1] /\ UNCHANGED <<timerVars, paced>>
    <3>1. Named(m)' = Named(m) /\ loose' = loose
      BY <2>2 DEF Named, timerVars
    <3>2. sends'[m] = sends[m] + (IF m = n THEN 1 ELSE 0)
      BY <2>1, <2>2
    <3>3. QED
      BY <2>1, <2>2, <3>1, <3>2
  <2>3. CASE /\ paced' = [paced EXCEPT ![n] = @ + 1] /\ timers' = timers \ {n}
             /\ loose' = Unnamed(n) /\ sends' = sends
    <3>1. Named(m)' + loose'[m] = Named(m) + loose[m]
      <4>1. /\ Unnamed(n)[n] = IF n \in timers THEN loose[n] + 1 ELSE loose[n]
            /\ m # n => Unnamed(n)[m] = loose[m]
        BY UnnamedType DEF Typed
      <4>2. CASE m = n
        <5>1. Named(m)' = 0 /\ Named(m) = IF n \in timers THEN 1 ELSE 0
          BY <2>3, <4>2 DEF Named
        <5>2. QED
          BY <2>1, <2>3, <4>1, <4>2, <5>1
      <4>3. CASE m # n
        <5>1. Named(m)' = Named(m)
          BY <2>3, <4>3 DEF Named
        <5>2. QED
          BY <2>1, <2>3, <4>1, <4>3, <5>1
      <4>4. QED
        BY <4>2, <4>3
    <3>2. paced'[m] = paced[m] + (IF m = n THEN 1 ELSE 0)
      BY <2>1, <2>3
    <3>3. Named(m)' \in Nat /\ loose'[m] \in Nat
      BY CopiesTypeNext DEF CopiesFit
    <3>4. QED
      BY <2>1, <2>3, <3>1, <3>2, <3>3
  <2>4. QED
    BY <1>0, <2>2, <2>3 DEF Pace
<1>5. Copies(m)' <= Copies(m)
  BY <1>2, <1>3, <1>4, CopiesType, CopiesTypeNext DEF Copies, InHands, CopiesFit
<1>6. QED
  BY <1>1, <1>5, NoCopy

\* Every step keeps the copies within what the calls allow for.
LEMMA BoundedKept == Typed /\ Bounded /\ [Next]_vars => Bounded'
<1> SUFFICES ASSUME Typed, Bounded, [Next]_vars PROVE Bounded'
  OBVIOUS
<1>0. Typed' /\ "process" \in Thread /\ "timer" \in Thread /\ "pacer" \in Thread
  BY TypedKept DEF Thread
<1>types. /\ at \in [Thread -> StepNames] /\ on \in [Thread -> Handed \cup {None}]
          /\ got \in [Thread -> Handed \cup {None}] /\ None \notin Msg
  BY HandedTypes DEF Typed, HandTypes
<1>1. ASSUME NEW k \in Kind, Submit(k) PROVE Bounded'
  <2>1. PICK n \in Msg :
            /\ n \notin Handed /\ kind[n] = "none" /\ Handed' = Handed \cup {n}
            /\ kind' = [kind EXCEPT ![n] = k] /\ ToSend(n) /\ InOrder'
    BY <1>1, NextMessage
  <2>2. kind \in [Msg -> Kind \cup {"none"}]
    BY DEF Typed, MsgTypes
  <2>3. kind'[n] = k /\ \A m \in Msg : m # n => kind'[m] = kind[m]
    BY <2>1, <2>2
  <2>4. (kind'[n] # "plain" => n \in Reliable')
        /\ \A m \in Msg : m # n => (m \in Reliable' <=> m \in Reliable)
    BY <2>3 DEF Reliable, Kind
  <2>5. \A m \in Msg : m # n => (m \in Handed' <=> m \in Handed)
    BY <2>1
  <2>6. QED
    BY <1>0, <2>1, <2>4, <2>5, CopiedByToSend
<1>2. ASSUME NEW n \in Msg, QuickResend(n) PROVE Bounded'
  <2>1. Handed' = Handed /\ Reliable' = Reliable /\ n \in Reliable /\ n \in Handed /\ ToSend(n)
    BY <1>2, KindKept, HandedTypes DEF QuickResend
  <2>2. QED
    BY <1>0, <2>1, CopiedByToSend
<1> SUFFICES ASSUME NEW m \in Msg, BoundedOf(m),
                    \A k \in Kind : ~ Submit(k), \A n \in Msg : ~ QuickResend(n)
             PROVE  BoundedOf(m)'
  BY <1>1, <1>2 DEF Bounded
<1>3. ASSUME NEW n \in Msg, AckDone(n) PROVE BoundedOf(m)'
  BY <1>0, <1>3, CopiedByErase DEF AckDone, paceVars
<1>4. CASE AckDoneElsewhere
  BY <1>0, <1>4, CopiedByErase DEF AckDoneElsewhere, paceVars, msgHistory
\* A step that leaves all messages where they are.
<1>5. ASSUME NEW t \in Thread, NEW step, Go(t, step), at[t] # "get",
             UNCHANGED <<kind, timerVars, paced, queueVars, on, got, msgHistory>>
      PROVE  BoundedOf(m)'
  <2>1. \A u \in Thread \ {t} : on'[u] = on[u] /\ at'[u] = at[u] /\ got'[u] = got[u]
    BY <1>5, <1>types DEF Go
  <2>2. (on'[t] = m /\ at'[t] # "get" => on[t] = m /\ at[t] # "get") /\ got'[t] = got[t]
    BY <1>5
  <2>3. UNCHANGED <<kind, handed, timerVars, paced, queueVars, sends>>
    BY <1>5 DEF msgHistory
  <2>4. QED
    BY <1>0, <2>1, <2>2, <2>3, HandsOnly
<1>6. ASSUME NEW t \in Thread, Rest(t),
             UNCHANGED <<kind, timerVars, paced, queueVars, got, msgHistory>>
      PROVE  BoundedOf(m)'
  <2>1. \A u \in Thread \ {t} : on'[u] = on[u] /\ at'[u] = at[u] /\ got'[u] = got[u]
    BY <1>6, <1>types DEF Rest
  <2>2. on'[t] # m /\ got'[t] = got[t]
    BY <1>6, <1>types DEF Rest
  <2>3. UNCHANGED <<kind, handed, timerVars, paced, queueVars, sends>>
    BY <1>6 DEF msgHistory
  <2>4. QED
    BY <1>0, <2>1, <2>2, <2>3, HandsOnly
<1>7. ASSUME NEW i \in AckId, AddAck(i) PROVE BoundedOf(m)'
  BY <1>0, <1>5, <1>7 DEF AddAck, paceVars
<1>8. ASSUME NEW t \in Thread, Steps(t) PROVE BoundedOf(m)'
  BY <1>0, <1>8, CopiedByGet, CopiedByPace DEF Steps
<1>9. CASE Process
  <2>1. CASE Attach
    BY <1>0, <2>1, CopiedByEnqueue DEF Attach, paceVars, msgHistory
  <2>2. CASE ArmTimer
    BY <1>0, <1>5, <2>2 DEF ArmTimer, paceVars
  <2>3. CASE RaiseFlag
    BY <1>0, <1>5, <2>3 DEF RaiseFlag, paceVars
  <2>4. QED
    BY <1>0, <1>8, <1>9, <2>1, <2>2, <2>3 DEF Process
<1>10. ASSUME NEW t \in Thread, TimerThread(t) PROVE BoundedOf(m)'
  <2>1. ASSUME NEW n \in Msg, TimerOut(t, n) PROVE BoundedOf(m)'
    BY <1>0, <2>1, CopiedByTimerOut
  <2>2. CASE AckTimerOut
    BY <1>0, <1>5, <2>2 DEF AckTimerOut, paceVars
  <2>3. CASE SendAcks
    BY <1>0, <1>6, <2>3 DEF SendAcks, paceVars
  <2>4. CASE Resend(t)
    <3>1. CASE Rest(t) /\ UNCHANGED queueVars
      BY <1>6, <2>4, <3>1 DEF Resend
    <3>2. CASE Enqueue(t, wasResent') /\ UNCHANGED on
      BY <1>0, <2>4, <3>2, CopiedByEnqueue DEF Resend, msgHistory
    <3>3. QED
      BY <2>4, <3>1, <3>2 DEF Resend
  <2>5. QED
    BY <1>8, <1>10, <2>1, <2>2, <2>3, <2>4 DEF TimerThread
<1>11. CASE UNCHANGED vars
  <2>1. UNCHANGED <<kind, handed, timerVars, paced, queueVars, threadVars, sends>>
    BY <1>11 DEF vars, paceVars, msgHistory
  <2>2. QED
    BY <1>0, <2>1, HandsOnly DEF threadVars
<1>12. QED
  BY <1>0, <1>3, <1>4, <1>7, <1>9, <1>10, <1>11 DEF Next

\* However often a message is resent and its timer ids overwritten, it goes to the
\* net twice at most for each call of ToSend, and once without a resend timer.
THEOREM SendsAreBounded == Spec => []SendsBounded
<1>1. Init => Bounded
  <2> SUFFICES ASSUME Init, NEW m \in Msg PROVE BoundedOf(m)
    BY DEF Bounded
  <2>1. PlacesIn(<<>>, m) = {}
    BY EmptySeq DEF PlacesIn
  <2>2. Working(m) = {} /\ Holding(m) = {}
    BY HandedTypes DEF Init, Working, Holding
  <2>3. /\ sends[m] = 0 /\ handed[m] = 0 /\ Waiting(m) = 0
        /\ InQueue(m) = 0 /\ InHands(m) = 0
    <3>1. sends[m] = 0 /\ handed[m] = 0
      BY DEF Init
    <3>2. Waiting(m) = 0
      BY DEF Init, Waiting, Named
    <3>3. InQueue(m) = 0
      <4>1. Occ(<<>>, m) = 0
        BY <2>1, FS_EmptySet DEF Occ
      <4>2. QED
        BY <4>1 DEF Init, InQueue
    <3>4. InHands(m) = 0
      BY <2>2, FS_EmptySet DEF InHands
    <3>5. QED
      BY <3>1, <3>2, <3>3, <3>4
  <2>4. Allowed(m) = 0 /\ Copies(m) = 0
    BY <2>3 DEF Allowed, Copies
  <2>5. QED
    BY <2>3, <2>4 DEF BoundedOf
<1>2. Typed /\ Bounded => SendsBounded
  <2> SUFFICES ASSUME Typed, Bounded, NEW m \in Msg
               PROVE  sends[m] <= (IF m \in Reliable THEN 2 ELSE 1) * handed[m]
    BY DEF SendsBounded
  <2>1. sends[m] <= Copies(m) /\ Copies(m) <= Allowed(m)
    BY CopiesType DEF Bounded, BoundedOf, Copies, CopiesFit
  <2>2. sends[m] <= Allowed(m)
    BY <2>1, CopiesType DEF CopiesFit
  <2>3. QED
    BY <2>2 DEF Allowed
<1>3. QED
  BY <1>1, <1>2, InitTyped, TypedKept, BoundedKept, PTL DEF Spec
=============================================================================
