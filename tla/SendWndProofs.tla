--------------------------- MODULE SendWndProofs ---------------------------
(***************************************************************************)
(* What SendWnd keeps for every set of messages, every id space and every   *)
(* window size: its types, the order of the ids, the full use of the        *)
(* window and the counter it is compared with.                              *)
(***************************************************************************)
EXTENDS SendWnd, SequenceTheorems, FiniteSetTheorems, TLAPS

\* Moving the head of one sequence to the end of another keeps their
\* concatenation: what SendNext does to waiting and numbered.
LEMMA MoveHead ==
    ASSUME NEW S, NEW s \in Seq(S), NEW t \in Seq(S), t # <<>>
    PROVE  s \o t = Append(s, Head(t)) \o Tail(t)
<1>1. Head(t) \in S /\ Tail(t) \in Seq(S) /\ <<Head(t)>> \in Seq(S)
  BY HeadTailProperties
<1>2. t = <<Head(t)>> \o Tail(t)
  <2>1. <<Head(t)>> \o Tail(t) \in Seq(S)
    BY <1>1, ConcatProperties
  <2>2. Len(t) = Len(<<Head(t)>> \o Tail(t))
    BY <1>1, ConcatProperties, HeadTailProperties, LenProperties
  <2>3. \A i \in 1 .. Len(t) : t[i] = (<<Head(t)>> \o Tail(t))[i]
    BY <1>1, ConcatProperties, HeadTailProperties, LenProperties
  <2>4. QED
    BY <2>1, <2>2, <2>3, SeqEqual
<1>3. QED
  BY <1>1, <1>2, AppendIsConcat, ConcatAssociative

\* An id is an id, and the next one too.
LEMMA NextIdType == lastId \in Ids => NextId \in Ids
BY SendWndAssumption DEF NextId, Ids

\* Every step keeps the types of the state.
THEOREM TypeCorrect == Spec => []TypeOK
<1> USE SendWndAssumption
<1>1. Init => TypeOK
  BY DEF Init, TypeOK
<1>2. TypeOK /\ [Next]_vars => TypeOK'
  <2> SUFFICES ASSUME TypeOK, [Next]_vars PROVE TypeOK'
    OBVIOUS
  <2> USE DEF TypeOK
  <2>1. ASSUME NEW m \in Msg, PushBackToSendWnd(m)
        PROVE  /\ msgAt' \in [Ids -> Msg \cup {NoMsg}]
               /\ start' \in Msg \cup {NoMsg}
               /\ curSize' \in Int
               /\ lastId' \in Ids
               /\ numbered' \in Seq(Msg)
               /\ ooo' \in Nat
    BY <2>1, NextIdType DEF PushBackToSendWnd, InFlight
  <2>2. ASSUME NEW m \in Msg, PushBack(m)
        PROVE  TypeOK'
    <3>1. CASE Full /\ Park(m) /\ UNCHANGED <<wndVars, numbered>>
      <4>1. /\ msgAt' = msgAt /\ start' = start /\ ooo' = ooo
            /\ curSize' = curSize /\ lastId' = lastId /\ numbered' = numbered
            /\ wndSize' = wndSize /\ pc' = pc /\ acked' = acked /\ resends' = resends
        BY <2>2, <3>1 DEF PushBack, wndVars
      <4>2. waiting' \in Seq(Msg) /\ accepted' \in Seq(Msg) /\ dropped' \subseteq Msg
        <5>1. Append(waiting, m) \in Seq(Msg) /\ Append(accepted, m) \in Seq(Msg)
          BY <2>2, AppendProperties
        <5>2. \/ /\ waiting' = Append(waiting, m) /\ accepted' = Append(accepted, m)
                 /\ dropped' = dropped
              \/ /\ waiting' = waiting /\ accepted' = accepted
                 /\ dropped' = dropped \cup {m}
          BY <3>1 DEF Park
        <5>3. QED
          BY <2>2, <5>1, <5>2
      <4>3. QED
        BY <4>1, <4>2
    <3>2. CASE PushBackToSendWnd(m) /\ accepted' = Append(accepted, m)
                 /\ UNCHANGED <<waiting, dropped>>
      BY <2>1, <2>2, <3>2 DEF PushBack
    <3>3. QED
      BY <2>2, <3>1, <3>2 DEF PushBack
  <2>3. ASSUME NEW id \in Ids, AcceptAck(id)
        PROVE  TypeOK'
    <3>1. start' \in Msg \cup {NoMsg}
      BY <2>3 DEF AcceptAck, StartAfter, InFlight
    <3>2. CountAfter(id) \in Nat
      BY DEF CountAfter
    <3>3. msgAt[id] \in Msg
      BY <2>3 DEF AcceptAck, InFlight
    <3>4. QED
      BY <2>3, <3>1, <3>2, <3>3 DEF AcceptAck, Refill
  <2>4. ASSUME NEW size \in WndSizes, ChangeSendWndSize(size)
        PROVE  TypeOK'
    BY <2>4 DEF ChangeSendWndSize, wndVars, histVars, Refill
  <2>5. CASE SendNext
    <3>1. Head(waiting) \in Msg /\ Tail(waiting) \in Seq(Msg)
      BY <2>5, HeadTailProperties DEF SendNext
    <3>2. QED
      BY <2>1, <2>5, <3>1 DEF SendNext
  <2>6. CASE SendNextDone
    BY <2>6 DEF SendNextDone, wndVars, histVars
  <2>7. CASE UNCHANGED vars
    BY <2>7 DEF vars
  <2>8. QED
    BY <2>2, <2>3, <2>4, <2>5, <2>6, <2>7 DEF Next
<1>3. QED
  BY <1>1, <1>2, PTL DEF Spec
-----------------------------------------------------------------------------
\* How many ids were given out after id.
Age(id) == IF id <= lastId THEN lastId - id ELSE lastId - id + IdSpace

\* The ids in flight are among the last Len(numbered) given out.
RecentIds == \A id \in InFlight : Age(id) < Len(numbered)

\* The invariant behind OrderKept and SizeCountsInFlight. The order needs the
\* work conservation: PushBack sends at once only when nothing waits.
WndInv == WorkConserving /\ OrderKept /\ RecentIds /\ SizeCountsInFlight

LEMMA InFlightIsFinite == IsFiniteSet(InFlight) /\ Cardinality(InFlight) \in Nat
<1>1. InFlight \in SUBSET (0 .. IdSpace - 1)
  BY DEF InFlight, Ids
<1>2. IsFiniteSet(0 .. IdSpace - 1)
  BY FS_Interval, SendWndAssumption
<1>3. QED
  BY <1>1, <1>2, FS_Subset, FS_CardinalityType

\* What numbering a message does to the set of ids in flight.
LEMMA NumberingStep ==
    ASSUME TypeOK, RecentIds, NEW m \in Msg, PushBackToSendWnd(m)
    PROVE  /\ InFlight' = InFlight \cup {NextId}
           /\ RecentIds'
           /\ Len(numbered') = Len(numbered) + 1
           /\ IdsUnused' => IdsUnused /\ NextId \notin InFlight
<1> USE SendWndAssumption DEF TypeOK
<1>1. NextId \in Ids /\ lastId' = NextId
  BY NextIdType DEF PushBackToSendWnd
<1>2. InFlight' = InFlight \cup {NextId}
  BY <1>1 DEF InFlight, PushBackToSendWnd, Msg
<1>3. Len(numbered) \in Nat /\ Len(numbered') = Len(numbered) + 1
  BY LenProperties, AppendProperties DEF PushBackToSendWnd
<1>4. RecentIds'
  <2> SUFFICES ASSUME NEW id \in InFlight' PROVE Age(id)' < Len(numbered')
    BY DEF RecentIds
  <2>1. CASE id = NextId
    BY <1>1, <1>3, <2>1 DEF Age, Ids
  <2>2. CASE id # NextId
    <3>1. id \in InFlight /\ id \in Ids
      BY <1>2, <2>2 DEF InFlight
    <3>2. Age(id) < Len(numbered)
      BY <3>1 DEF RecentIds
    <3>3. Age(id)' = Age(id) + 1
      BY <1>1, <2>2, <3>1 DEF Age, Ids, NextId
    <3>4. QED
      BY <1>1, <1>3, <3>1, <3>2, <3>3 DEF Age, Ids
  <2>3. QED
    BY <2>1, <2>2
<1>5. ASSUME IdsUnused'
      PROVE  IdsUnused /\ NextId \notin InFlight
  <2>1. Len(numbered) < IdSpace
    BY <1>3, <1>5 DEF IdsUnused
  <2>2. Age(NextId) = IdSpace - 1
    BY <1>1 DEF Age, Ids, NextId
  <2>3. QED
    BY <1>3, <2>1, <2>2 DEF RecentIds, IdsUnused
<1>6. QED
  BY <1>2, <1>3, <1>4, <1>5

\* Numbering a message keeps the window's counter right.
LEMMA NumberingKeepsSize ==
    ASSUME TypeOK, RecentIds, SizeCountsInFlight,
           NEW m \in Msg, PushBackToSendWnd(m)
    PROVE  SizeCountsInFlight'
<1>1. /\ InFlight' = InFlight \cup {NextId}
      /\ IdsUnused' => IdsUnused /\ NextId \notin InFlight
  BY NumberingStep
<1>2. IsFiniteSet(InFlight) /\ Cardinality(InFlight) \in Nat
  BY InFlightIsFinite
<1>3. SUFFICES ASSUME IdsUnused' PROVE curSize' = Cardinality(InFlight')
  BY DEF SizeCountsInFlight
<1>4. Cardinality(InFlight') = Cardinality(InFlight) + 1
  BY <1>1, <1>2, <1>3, FS_AddElement
<1>5. curSize' = curSize + 1 /\ curSize = Cardinality(InFlight)
  BY <1>1, <1>3 DEF PushBackToSendWnd, SizeCountsInFlight
<1>6. QED
  BY <1>4, <1>5

\* The invariant is inductive, given the types.
LEMMA WndInvStep ==
    ASSUME TypeOK, WndInv, [Next]_vars
    PROVE  WndInv'
<1> USE DEF WndInv, Full
<1>1. ASSUME NEW m \in Msg, PushBack(m)
      PROVE  WndInv'
  <2>1. CASE Full /\ Park(m) /\ UNCHANGED <<wndVars, numbered>>
    <3>1. UNCHANGED <<msgAt, curSize, lastId, numbered, wndSize>>
      BY <1>1, <2>1 DEF PushBack, wndVars
    <3>2. WorkConserving' /\ RecentIds' /\ SizeCountsInFlight'
      BY <2>1, <3>1 DEF WorkConserving, RecentIds, SizeCountsInFlight, InFlight,
                       Age, IdsUnused
    <3>3. OrderKept'
      <4>1. CASE waiting' = Append(waiting, m) /\ accepted' = Append(accepted, m)
        <5>1. /\ numbered \in Seq(Msg) /\ waiting \in Seq(Msg)
              /\ accepted \in Seq(Msg) /\ <<m>> \in Seq(Msg)
          BY DEF TypeOK
        <5>2. accepted' = accepted \o <<m>> /\ waiting' = waiting \o <<m>>
          BY <4>1, <5>1, AppendIsConcat
        <5>3. (numbered \o waiting) \o <<m>> = numbered \o (waiting \o <<m>>)
          BY <5>1, ConcatAssociative
        <5>4. QED
          BY <3>1, <5>2, <5>3 DEF OrderKept
      <4>2. CASE UNCHANGED <<waiting, accepted>>
        BY <3>1, <4>2 DEF OrderKept
      <4>3. QED
        BY <2>1, <4>1, <4>2 DEF Park
    <3>4. QED
      BY <3>2, <3>3
  <2>2. CASE /\ ~ Full /\ PushBackToSendWnd(m)
             /\ accepted' = Append(accepted, m) /\ UNCHANGED <<waiting, dropped>>
    <3>1. waiting = <<>> /\ waiting' = <<>>
      BY <1>1, <2>2, SendWndAssumption DEF WorkConserving, PushBack, TypeOK
    <3>2. OrderKept'
      <4>1. accepted = numbered
        BY <3>1, ConcatEmptySeq DEF OrderKept, TypeOK
      <4>2. accepted' = numbered' /\ numbered' \in Seq(Msg)
        BY <2>2, <4>1 DEF PushBackToSendWnd, TypeOK
      <4>3. QED
        BY <3>1, <4>2, ConcatEmptySeq DEF OrderKept
    <3>3. QED
      BY <2>2, <3>1, <3>2, NumberingStep, NumberingKeepsSize DEF WorkConserving
  <2>3. QED
    BY <1>1, <2>1, <2>2 DEF PushBack
<1>2. ASSUME NEW id \in Ids, AcceptAck(id)
      PROVE  WndInv'
  <2>1. InFlight' = InFlight \ {id} /\ id \in InFlight
    BY <1>2, SendWndAssumption DEF AcceptAck, InFlight, TypeOK, Msg
  <2>2. UNCHANGED <<lastId, waiting, accepted, numbered>> /\ pc' = "filling"
    BY <1>2 DEF AcceptAck, Refill
  <2>3. WorkConserving' /\ OrderKept' /\ RecentIds'
    BY <2>1, <2>2 DEF WorkConserving, OrderKept, RecentIds, Age
  <2>4. IsFiniteSet(InFlight) /\ Cardinality(InFlight) \in Nat
    BY InFlightIsFinite
  <2>5. Cardinality(InFlight') = Cardinality(InFlight) - 1
    BY <2>1, <2>4, FS_RemoveElement
  <2>6. curSize' = curSize - 1
    BY <1>2 DEF AcceptAck
  <2>7. QED
    BY <2>2, <2>3, <2>5, <2>6 DEF SizeCountsInFlight, IdsUnused
<1>3. ASSUME NEW size \in WndSizes, ChangeSendWndSize(size)
      PROVE  WndInv'
  BY <1>3 DEF ChangeSendWndSize, wndVars, histVars, Refill, WorkConserving,
              OrderKept, RecentIds, Age, InFlight, SizeCountsInFlight, IdsUnused
<1>4. CASE SendNext
  <2>1. /\ PushBackToSendWnd(Head(waiting)) /\ waiting # <<>>
        /\ waiting' = Tail(waiting) /\ UNCHANGED <<pc, accepted>> /\ pc = "filling"
    BY <1>4 DEF SendNext
  <2>2. Head(waiting) \in Msg
    BY <2>1, HeadTailProperties DEF TypeOK
  <2>3. OrderKept'
    BY <2>1, MoveHead DEF OrderKept, PushBackToSendWnd, TypeOK
  <2>4. QED
    BY <2>1, <2>2, <2>3, NumberingStep, NumberingKeepsSize DEF WorkConserving
<1>5. CASE SendNextDone
  BY <1>5, SendWndAssumption
     DEF SendNextDone, wndVars, histVars, WorkConserving, OrderKept, RecentIds,
         Age, InFlight, SizeCountsInFlight, IdsUnused, TypeOK
<1>6. CASE UNCHANGED vars
  BY <1>6 DEF vars, WorkConserving, OrderKept, RecentIds, Age, InFlight,
              SizeCountsInFlight, IdsUnused
<1>7. QED
  BY <1>1, <1>2, <1>3, <1>4, <1>5, <1>6 DEF Next

LEMMA WndInvCorrect == Spec => []WndInv
<1>1. Init => WndInv
  <2> SUFFICES ASSUME Init PROVE WndInv
    OBVIOUS
  <2>1. InFlight = {}
    BY DEF Init, InFlight
  <2>2. <<>> \o <<>> = <<>>
    BY ConcatEmptySeq, EmptySeq
  <2>3. QED
    BY <2>1, <2>2, FS_EmptySet
       DEF Init, WndInv, WorkConserving, OrderKept, RecentIds, SizeCountsInFlight
<1>2. TypeOK /\ WndInv /\ [Next]_vars => WndInv'
  BY WndInvStep
<1>3. QED
  BY <1>1, <1>2, TypeCorrect, PTL DEF Spec

\* Between handlers a message waits only for a full window.
THEOREM WorkIsConserved == Spec => []WorkConserving
<1>1. WndInv => WorkConserving
  BY DEF WndInv
<1>2. QED
  BY <1>1, WndInvCorrect, PTL

\* Messages get their ids in the order of the PushBack calls.
THEOREM OrderIsKept == Spec => []OrderKept
<1>1. WndInv => OrderKept
  BY DEF WndInv
<1>2. QED
  BY <1>1, WndInvCorrect, PTL

\* The counter compared with the window size is the number of messages in
\* flight, until the ids have gone round once.
THEOREM SizeIsInFlight == Spec => []SizeCountsInFlight
<1>1. WndInv => SizeCountsInFlight
  BY DEF WndInv
<1>2. QED
  BY <1>1, WndInvCorrect, PTL
-----------------------------------------------------------------------------
\* Where a message is. The set-valued forms of the sequences keep the steps
\* below free of indices.
Elements(s) == {s[i] : i \in DOMAIN s}
Flying      == {msgAt[id] : id \in InFlight}

AcceptedOnce == \A i, j \in DOMAIN accepted : accepted[i] = accepted[j] => i = j
OneId        == \A a, b \in InFlight : msgAt[a] = msgAt[b] => a = b
FromNumbered == Flying \cup acked \subseteq Elements(numbered)
NotBoth      == Flying \cap acked = {}
AllFound     == IdsUnused => Elements(numbered) \subseteq Flying \cup acked

\* The invariant behind InFlightOrAcked: a message is handed in once, flies
\* under one id, and is acked only as it leaves the window.
PlaceInv == AcceptedOnce /\ OneId /\ FromNumbered /\ NotBoth /\ AllFound

LEMMA AppendElements ==
    ASSUME NEW S, NEW s \in Seq(S), NEW e \in S
    PROVE  Elements(Append(s, e)) = Elements(s) \cup {e}
<1>1. /\ Len(s) \in Nat /\ DOMAIN s = 1 .. Len(s)
      /\ DOMAIN Append(s, e) = 1 .. Len(s) + 1
      /\ \A i \in 1 .. Len(s) : Append(s, e)[i] = s[i]
      /\ Append(s, e)[Len(s) + 1] = e
  BY AppendProperties, LenProperties
<1>2. QED
  BY <1>1 DEF Elements

\* Numbering a message that was never numbered before.
LEMMA NumberingKeepsPlaces ==
    ASSUME TypeOK, RecentIds, OneId, FromNumbered, NotBoth, AllFound,
           NEW m \in Msg, m \notin Elements(numbered),
           PushBackToSendWnd(m), UNCHANGED acked
    PROVE  OneId' /\ FromNumbered' /\ NotBoth' /\ AllFound'
<1>1. /\ InFlight' = InFlight \cup {NextId}
      /\ IdsUnused' => IdsUnused /\ NextId \notin InFlight
  BY NumberingStep
<1>2. NextId \in Ids
  BY NextIdType DEF TypeOK
<1>3. msgAt' = [msgAt EXCEPT ![NextId] = m] /\ msgAt \in [Ids -> Msg \cup {NoMsg}]
  BY DEF PushBackToSendWnd, TypeOK
<1>4. msgAt'[NextId] = m /\ \A id \in InFlight \ {NextId} : msgAt'[id] = msgAt[id]
  BY <1>2, <1>3 DEF InFlight
<1>5. Elements(numbered)' = Elements(numbered) \cup {m}
  BY AppendElements DEF PushBackToSendWnd, TypeOK
<1>6. m \notin Flying /\ m \notin acked
  BY DEF FromNumbered
<1>7. Flying' \subseteq Flying \cup {m} /\ m \in Flying'
  BY <1>1, <1>4 DEF Flying
<1>8. OneId'
  BY <1>1, <1>4, <1>6 DEF OneId, Flying
<1>9. FromNumbered' /\ NotBoth'
  BY <1>5, <1>6, <1>7 DEF FromNumbered, NotBoth
<1>10. AllFound'
  <2>1. SUFFICES ASSUME IdsUnused'
                 PROVE  Elements(numbered)' \subseteq Flying' \cup acked'
    BY DEF AllFound
  <2>2. Flying \subseteq Flying'
    BY <1>1, <1>4, <2>1 DEF Flying
  <2>3. QED
    BY <1>1, <1>5, <1>7, <2>1, <2>2 DEF AllFound
<1>11. QED
  BY <1>8, <1>9, <1>10

\* A message PushBack takes, and one that waits, was never numbered.
LEMMA NewIsNotNumbered ==
    ASSUME TypeOK, OrderKept, AcceptedOnce
    PROVE  /\ \A m \in Fresh : m \notin Elements(accepted) /\ m \notin Elements(numbered)
           /\ waiting # <<>> => Head(waiting) \notin Elements(numbered)
<1>1. /\ numbered \in Seq(Msg) /\ waiting \in Seq(Msg)
      /\ Len(numbered) \in Nat /\ Len(waiting) \in Nat
      /\ DOMAIN numbered = 1 .. Len(numbered)
  BY LenProperties DEF TypeOK
<1>2. /\ accepted \in Seq(Msg)
      /\ Len(accepted) = Len(numbered) + Len(waiting)
      /\ DOMAIN accepted = 1 .. Len(numbered) + Len(waiting)
      /\ \A i \in 1 .. Len(numbered) + Len(waiting) :
           accepted[i] = IF i <= Len(numbered) THEN numbered[i]
                                               ELSE waiting[i - Len(numbered)]
  BY <1>1, ConcatProperties, LenProperties DEF OrderKept
<1>3. Elements(numbered) \subseteq Elements(accepted)
  BY <1>1, <1>2 DEF Elements
<1>4. \A m \in Fresh : m \notin Elements(accepted)
  BY DEF Fresh, Elements
<1>5. ASSUME waiting # <<>>
      PROVE  Head(waiting) \notin Elements(numbered)
  <2>1. Len(waiting) > 0 /\ Head(waiting) = waiting[1]
    BY <1>1, <1>5, EmptySeq
  <2>2. accepted[Len(numbered) + 1] = Head(waiting)
    BY <1>1, <1>2, <2>1
  <2>3. ASSUME NEW i \in 1 .. Len(numbered), numbered[i] = Head(waiting)
        PROVE  FALSE
    <3>1. accepted[i] = accepted[Len(numbered) + 1]
      BY <1>1, <1>2, <2>2, <2>3
    <3>2. i \in DOMAIN accepted /\ Len(numbered) + 1 \in DOMAIN accepted
      BY <1>1, <1>2, <2>1
    <3>3. i = Len(numbered) + 1
      BY <3>1, <3>2 DEF AcceptedOnce
    <3>4. QED
      BY <1>1, <3>3
  <2>4. QED
    BY <1>1, <2>3 DEF Elements
<1>6. QED
  BY <1>3, <1>4, <1>5

\* What an ack does to the messages in flight.
LEMMA AckStep ==
    ASSUME TypeOK, OneId, NEW id \in Ids, AcceptAck(id)
    PROVE  /\ id \in InFlight /\ InFlight' = InFlight \ {id}
           /\ \A i \in InFlight' : msgAt'[i] = msgAt[i]
           /\ msgAt[id] \in Msg /\ msgAt[id] \in Flying
           /\ Flying' = Flying \ {msgAt[id]}
           /\ acked' = acked \cup {msgAt[id]}
<1>1. /\ id \in InFlight /\ InFlight' = InFlight \ {id}
      /\ \A i \in InFlight' : msgAt'[i] = msgAt[i]
      /\ msgAt[id] \in Msg
  BY SendWndAssumption DEF AcceptAck, InFlight, TypeOK, Msg
<1>2. Flying' = Flying \ {msgAt[id]}
  BY <1>1 DEF Flying, OneId
<1>3. QED
  BY <1>1, <1>2 DEF Flying, AcceptAck

LEMMA PlaceInvStep ==
    ASSUME TypeOK, WndInv, PlaceInv, [Next]_vars
    PROVE  PlaceInv'
<1> USE DEF PlaceInv
<1>1. ASSUME NEW m \in Msg, PushBack(m)
      PROVE  PlaceInv'
  <2>1. m \in Fresh /\ m \notin Elements(accepted) /\ m \notin Elements(numbered)
    BY <1>1, NewIsNotNumbered DEF PushBack, WndInv
  <2>2. accepted \in Seq(Msg) /\ Len(accepted) \in Nat
        /\ DOMAIN accepted = 1 .. Len(accepted)
    BY LenProperties DEF TypeOK
  <2>3. ASSUME accepted' = Append(accepted, m)
        PROVE  AcceptedOnce'
    <3>1. /\ DOMAIN accepted' = 1 .. Len(accepted) + 1
          /\ \A i \in 1 .. Len(accepted) : accepted'[i] = accepted[i]
          /\ accepted'[Len(accepted) + 1] = m
      BY <2>2, <2>3, AppendProperties, LenProperties
    <3>2. \A i \in 1 .. Len(accepted) : accepted[i] # m
      BY <2>1, <2>2 DEF Elements
    <3>3. QED
      BY <2>2, <3>1, <3>2 DEF AcceptedOnce
  <2>4. CASE Full /\ Park(m) /\ UNCHANGED <<wndVars, numbered>>
    <3>1. UNCHANGED <<msgAt, numbered, acked>>
      BY <1>1, <2>4 DEF PushBack, wndVars
    <3>2. AcceptedOnce'
      <4>1. accepted' = Append(accepted, m) \/ accepted' = accepted
        BY <2>4 DEF Park
      <4>2. QED
        BY <2>3, <4>1 DEF AcceptedOnce
    <3>3. QED
      BY <3>1, <3>2 DEF OneId, FromNumbered, NotBoth, AllFound, InFlight, Flying,
                        IdsUnused, Elements
  <2>5. CASE PushBackToSendWnd(m) /\ accepted' = Append(accepted, m)
    BY <1>1, <2>1, <2>3, <2>5, NumberingKeepsPlaces DEF PushBack, WndInv
  <2>6. QED
    BY <1>1, <2>4, <2>5 DEF PushBack
<1>2. ASSUME NEW id \in Ids, AcceptAck(id)
      PROVE  PlaceInv'
  <2>1. UNCHANGED <<accepted, numbered>>
    BY <1>2 DEF AcceptAck
  <2>2. OneId'
    BY <1>2, AckStep DEF OneId
  <2>3. FromNumbered' /\ NotBoth' /\ AllFound'
    BY <1>2, <2>1, AckStep DEF FromNumbered, NotBoth, AllFound, IdsUnused, Elements
  <2>4. QED
    BY <2>1, <2>2, <2>3 DEF AcceptedOnce
<1>3. CASE SendNext
  <2>1. /\ PushBackToSendWnd(Head(waiting)) /\ waiting # <<>>
        /\ UNCHANGED <<accepted, acked>>
    BY <1>3 DEF SendNext
  <2>2. Head(waiting) \in Msg /\ Head(waiting) \notin Elements(numbered)
    BY <2>1, HeadTailProperties, NewIsNotNumbered DEF TypeOK, WndInv
  <2>3. QED
    BY <2>1, <2>2, NumberingKeepsPlaces DEF AcceptedOnce, WndInv
<1>4. CASE UNCHANGED <<msgAt, accepted, numbered, acked>>
  BY <1>4 DEF AcceptedOnce, OneId, FromNumbered, NotBoth, AllFound, InFlight,
              Flying, IdsUnused, Elements
<1>5. ASSUME NEW size \in WndSizes, ChangeSendWndSize(size)
      PROVE  PlaceInv'
  BY <1>4, <1>5 DEF ChangeSendWndSize, wndVars, histVars
<1>6. CASE SendNextDone
  BY <1>4, <1>6 DEF SendNextDone, wndVars, histVars
<1>7. CASE UNCHANGED vars
  BY <1>4, <1>7 DEF vars
<1>8. QED
  BY <1>1, <1>2, <1>3, <1>5, <1>6, <1>7 DEF Next

LEMMA PlaceInvCorrect == Spec => []PlaceInv
<1>1. Init => PlaceInv
  <2> SUFFICES ASSUME Init PROVE PlaceInv
    OBVIOUS
  <2>1. /\ InFlight = {} /\ acked = {}
        /\ DOMAIN accepted = {} /\ DOMAIN numbered = {}
    BY DEF Init, InFlight
  <2>2. QED
    BY <2>1 DEF PlaceInv, AcceptedOnce, OneId, FromNumbered, NotBoth, AllFound,
                Flying, Elements
<1>2. TypeOK /\ WndInv /\ PlaceInv /\ [Next]_vars => PlaceInv'
  BY PlaceInvStep
<1>3. QED
  BY <1>1, <1>2, TypeCorrect, WndInvCorrect, PTL DEF Spec

\* A numbered message is in flight or acked and not both, until the ids have
\* gone round once.
THEOREM InFlightXorAcked == Spec => []InFlightOrAcked
<1>1. PlaceInv => InFlightOrAcked
  BY DEF PlaceInv, InFlightOrAcked, FromNumbered, NotBoth, AllFound, Flying, Elements
<1>2. QED
  BY <1>1, PlaceInvCorrect, PTL
-----------------------------------------------------------------------------
ResendInv == IsFiniteSet(acked) /\ ResendsBounded

\* Quick resends are paid for by acks, whatever the order of the acks.
THEOREM ResendsAreBounded == Spec => []ResendsBounded
<1> USE SendWndAssumption
<1>1. Init => ResendInv
  BY FS_EmptySet DEF Init, ResendInv, ResendsBounded
<1>2. TypeOK /\ PlaceInv /\ ResendInv /\ [Next]_vars => ResendInv'
  <2> SUFFICES ASSUME TypeOK, PlaceInv, ResendInv, [Next]_vars
               PROVE  ResendInv'
    OBVIOUS
  <2>1. ASSUME NEW id \in Ids, AcceptAck(id)
        PROVE  ResendInv'
    <3>1. msgAt[id] \notin acked /\ acked' = acked \cup {msgAt[id]}
      BY <2>1, AckStep DEF PlaceInv, NotBoth
    <3>2. IsFiniteSet(acked') /\ Cardinality(acked') = Cardinality(acked) + 1
      BY <3>1, FS_AddElement DEF ResendInv
    <3>3. Cardinality(acked) \in Nat
      BY FS_CardinalityType DEF ResendInv
    <3>4. CountAfter(id) \in Nat /\ CountAfter(id) <= ooo + 1
      BY DEF CountAfter, TypeOK
    <3>5. CASE ooo' = CountAfter(id) /\ resends' = resends
      BY <3>2, <3>3, <3>4, <3>5 DEF ResendInv, ResendsBounded, TypeOK
    <3>6. CASE CountAfter(id) >= QuickLimit /\ ooo' = 0 /\ resends' = resends + 1
      <4>1. QuickLimit * resends' = QuickLimit * resends + QuickLimit
        BY <3>6 DEF TypeOK
      <4>2. QED
        BY <3>2, <3>3, <3>4, <3>6, <4>1 DEF ResendInv, ResendsBounded, TypeOK
    <3>7. QED
      BY <2>1, <3>5, <3>6 DEF AcceptAck, ResendDue
  <2>2. CASE UNCHANGED <<ooo, acked, resends>>
    BY <2>2 DEF ResendInv, ResendsBounded
  <2>3. ASSUME NEW m \in Msg, PushBack(m)
        PROVE  UNCHANGED <<ooo, acked, resends>>
    BY <2>3 DEF PushBack, PushBackToSendWnd, wndVars
  <2>4. ASSUME NEW size \in WndSizes, ChangeSendWndSize(size)
        PROVE  UNCHANGED <<ooo, acked, resends>>
    BY <2>4 DEF ChangeSendWndSize, wndVars, histVars
  <2>5. SendNext => UNCHANGED <<ooo, acked, resends>>
    BY DEF SendNext, PushBackToSendWnd
  <2>6. SendNextDone \/ UNCHANGED vars => UNCHANGED <<ooo, acked, resends>>
    BY DEF SendNextDone, wndVars, histVars, vars
  <2>7. QED
    BY <2>1, <2>2, <2>3, <2>4, <2>5, <2>6 DEF Next
<1>3. ResendInv => ResendsBounded
  BY DEF ResendInv
<1>4. QED
  BY <1>1, <1>2, <1>3, TypeCorrect, PlaceInvCorrect, PTL DEF Spec
-----------------------------------------------------------------------------
\* _start is null only when nothing is in flight; while no id was given out
\* twice it is a message in flight.
THEOREM StartIsInWindow == Spec => []StartInWindow
<1> USE SendWndAssumption
<1> DEFINE StartInv == /\ start = NoMsg => InFlight = {}
                       /\ IdsUnused => start = NoMsg \/ start \in Flying
<1>1. Init => StartInv
  BY DEF Init, InFlight
<1>2. TypeOK /\ WndInv /\ PlaceInv /\ StartInv /\ [Next]_vars => StartInv'
  <2> SUFFICES ASSUME TypeOK, WndInv, PlaceInv, StartInv, [Next]_vars
               PROVE  StartInv'
    OBVIOUS
  <2>1. ASSUME NEW m \in Msg, PushBackToSendWnd(m)
        PROVE  StartInv'
    <3>1. /\ InFlight' = InFlight \cup {NextId}
          /\ IdsUnused' => IdsUnused /\ NextId \notin InFlight
      BY <2>1, NumberingStep DEF WndInv
    <3>2. NextId \in Ids /\ msgAt'[NextId] = m
          /\ \A id \in InFlight \ {NextId} : msgAt'[id] = msgAt[id]
      BY <2>1, NextIdType DEF PushBackToSendWnd, TypeOK, InFlight
    <3>3. m # NoMsg /\ \A id \in InFlight : msgAt[id] # NoMsg
      BY DEF InFlight
    <3>4. CASE start # NoMsg
      BY <2>1, <3>1, <3>2, <3>4 DEF PushBackToSendWnd, Flying
    <3>5. CASE start = NoMsg
      <4>1. start' \in {msgAt'[id] : id \in InFlight \cup {NextId}}
        BY <2>1, <3>2, <3>5 DEF PushBackToSendWnd
      <4>2. start' \in Flying' /\ start' # NoMsg
        BY <3>1, <3>2, <3>3, <4>1 DEF Flying
      <4>3. QED
        BY <4>2
    <3>6. QED
      BY <3>4, <3>5
  <2>2. ASSUME NEW m \in Msg, PushBack(m)
        PROVE  StartInv'
    <3>1. CASE UNCHANGED <<wndVars, numbered>>
      BY <3>1 DEF wndVars, InFlight, Flying, IdsUnused
    <3>2. QED
      BY <2>1, <2>2, <3>1 DEF PushBack
  <2>3. ASSUME NEW id \in Ids, AcceptAck(id)
        PROVE  StartInv'
    <3>1. /\ InFlight' = InFlight \ {id} /\ start' \in StartAfter(id)
          /\ \A i \in InFlight' : msgAt'[i] = msgAt[i] /\ msgAt[i] # NoMsg
      BY <2>3, AckStep DEF AcceptAck, PlaceInv, InFlight
    <3>2. CASE InFlight = {id}
      BY <3>1, <3>2 DEF StartAfter
    <3>3. CASE InFlight # {id}
      BY <3>1, <3>3 DEF StartAfter, Flying
    <3>4. QED
      BY <3>2, <3>3
  <2>4. ASSUME NEW size \in WndSizes, ChangeSendWndSize(size)
        PROVE  StartInv'
    BY <2>4 DEF ChangeSendWndSize, wndVars, histVars, InFlight, Flying, IdsUnused
  <2>5. CASE SendNext
    <3>1. PushBackToSendWnd(Head(waiting)) /\ Head(waiting) \in Msg
      BY <2>5, HeadTailProperties DEF SendNext, TypeOK
    <3>2. QED
      BY <2>1, <3>1
  <2>6. CASE SendNextDone \/ UNCHANGED vars
    BY <2>6 DEF SendNextDone, wndVars, histVars, vars, InFlight, Flying, IdsUnused
  <2>7. QED
    BY <2>2, <2>3, <2>4, <2>5, <2>6 DEF Next
<1>3. StartInv => StartInWindow
  BY DEF StartInWindow, Flying
<1>4. QED
  BY <1>1, <1>2, <1>3, TypeCorrect, WndInvCorrect, PlaceInvCorrect, PTL DEF Spec
-----------------------------------------------------------------------------
\* The counter of the window is the abstract number of unacked messages, even
\* when an id has come up again and a message was overwritten in the map.
SizeInv == IsFiniteSet(acked) /\ curSize = Len(numbered) - Cardinality(acked)

LEMMA SizeInvStep ==
    ASSUME TypeOK, PlaceInv, SizeInv, [Next]_vars
    PROVE  SizeInv'
<1>1. ASSUME NEW m \in Msg, PushBackToSendWnd(m), acked' = acked
      PROVE  SizeInv'
  <2>1. Len(numbered') = Len(numbered) + 1 /\ Len(numbered) \in Nat
    BY <1>1, AppendProperties, LenProperties DEF PushBackToSendWnd, TypeOK
  <2>2. Cardinality(acked) \in Nat
    BY FS_CardinalityType DEF SizeInv
  <2>3. QED
    BY <1>1, <2>1, <2>2 DEF SizeInv, PushBackToSendWnd
<1>2. CASE UNCHANGED <<curSize, numbered, acked>>
  BY <1>2 DEF SizeInv
<1>3. ASSUME NEW m \in Msg, PushBack(m)
      PROVE  SizeInv'
  BY <1>1, <1>2, <1>3 DEF PushBack, wndVars
<1>4. ASSUME NEW id \in Ids, AcceptAck(id)
      PROVE  SizeInv'
  <2>1. msgAt[id] \notin acked /\ acked' = acked \cup {msgAt[id]}
    BY <1>4, AckStep DEF PlaceInv, NotBoth
  <2>2. IsFiniteSet(acked') /\ Cardinality(acked') = Cardinality(acked) + 1
    BY <2>1, FS_AddElement DEF SizeInv
  <2>3. Cardinality(acked) \in Nat /\ Len(numbered) \in Nat
    BY FS_CardinalityType, LenProperties DEF SizeInv, TypeOK
  <2>4. QED
    BY <1>4, <2>2, <2>3 DEF SizeInv, AcceptAck
<1>5. ASSUME NEW size \in WndSizes, ChangeSendWndSize(size)
      PROVE  SizeInv'
  BY <1>2, <1>5 DEF ChangeSendWndSize, wndVars, histVars
<1>6. CASE SendNext
  BY <1>1, <1>6, HeadTailProperties DEF SendNext, TypeOK
<1>7. CASE SendNextDone \/ UNCHANGED vars
  BY <1>2, <1>7 DEF SendNextDone, wndVars, histVars, vars
<1>8. QED
  BY <1>3, <1>4, <1>5, <1>6, <1>7 DEF Next

LEMMA SizeInvCorrect == Spec => []SizeInv
<1>1. Init => SizeInv
  BY FS_EmptySet DEF Init, SizeInv
<1>2. TypeOK /\ PlaceInv /\ SizeInv /\ [Next]_vars => SizeInv'
  BY SizeInvStep
<1>3. QED
  BY <1>1, <1>2, TypeCorrect, PlaceInvCorrect, PTL DEF Spec

\* The window has room exactly when the abstract buffer has.
LEMMA RoomIsNotFull ==
    ASSUME TypeOK, SizeInv
    PROVE  Buffer!Room <=> ~ Full
<1>1. wndSize \in Int /\ curSize \in Int
  BY SendWndAssumption DEF TypeOK
\* The instance brings the library's operator under a name of its own.
<1>2. Buffer!Cardinality(acked) = Cardinality(acked)
  BY Zenon DEF Buffer!Cardinality, Cardinality
<1>3. QED
  BY <1>1, <1>2 DEF Buffer!Room, Full, SizeInv

\* Every step of the window is one of the abstract buffer, or none.
LEMMA BufferStep ==
    ASSUME TypeOK, WndInv, PlaceInv, SizeInv, [Next]_vars
    PROVE  [Buffer!Next]_(Buffer!bufVars)
<1>1. CASE UNCHANGED <<accepted, numbered, acked, dropped, wndSize>>
  BY <1>1 DEF Buffer!bufVars
<1>2. ASSUME NEW m \in Msg, PushBack(m)
      PROVE  Buffer!Next
  <2>1. m \in Buffer!New
    BY <1>2 DEF PushBack, Fresh, Buffer!New, Buffer!Listed, Msg
  <2>2. CASE Full /\ Park(m) /\ UNCHANGED <<wndVars, numbered>>
    <3>1. Buffer!Keep(m) \/ Buffer!Refuse(m)
      BY <1>2, <2>2, RoomIsNotFull DEF PushBack, Park, Buffer!Keep, Buffer!Refuse
    <3>2. QED
      BY <2>1, <3>1 DEF Buffer!Next
  <2>3. CASE /\ ~ Full /\ PushBackToSendWnd(m)
             /\ accepted' = Append(accepted, m) /\ UNCHANGED <<waiting, dropped>>
    <3>1. waiting = <<>>
      BY <1>2, <2>3, SendWndAssumption
         DEF WndInv, WorkConserving, PushBack, Full, TypeOK
    <3>2. numbered = accepted
      BY <3>1, ConcatEmptySeq DEF WndInv, OrderKept, TypeOK
    <3>3. Buffer!Pass(m)
      BY <1>2, <2>3, <3>2, RoomIsNotFull DEF PushBack, PushBackToSendWnd, Buffer!Pass
    <3>4. QED
      BY <2>1, <3>3 DEF Buffer!Next
  <2>4. QED
    BY <1>2, <2>2, <2>3 DEF PushBack
<1>3. ASSUME NEW id \in Ids, AcceptAck(id)
      PROVE  Buffer!Next
  <2>1. /\ msgAt[id] \in Msg /\ msgAt[id] \in Flying
        /\ acked' = acked \cup {msgAt[id]}
    BY <1>3, AckStep DEF PlaceInv
  <2>2. msgAt[id] \in Buffer!Listed(numbered) \ acked
    BY <2>1 DEF PlaceInv, FromNumbered, NotBoth, Elements, Buffer!Listed
  <2>3. Buffer!Ack(msgAt[id])
    BY <1>3, <2>1, <2>2 DEF AcceptAck, Buffer!Ack
  <2>4. QED
    BY <2>1, <2>3 DEF Buffer!Next, Msg
<1>4. ASSUME NEW size \in WndSizes, ChangeSendWndSize(size)
      PROVE  Buffer!Next
  <2>1. Buffer!SetLimit(size)
    BY <1>4 DEF ChangeSendWndSize, histVars, Buffer!SetLimit
  <2>2. QED
    BY <2>1 DEF Buffer!Next
<1>5. CASE SendNext
  <2>1. /\ ~ Full /\ waiting # <<>> /\ numbered' = Append(numbered, Head(waiting))
        /\ UNCHANGED <<accepted, acked, dropped, wndSize>>
    BY <1>5 DEF SendNext, PushBackToSendWnd
  <2>2. /\ numbered \in Seq(Msg) /\ waiting \in Seq(Msg)
        /\ Len(numbered) \in Nat /\ Len(waiting) \in Nat /\ Len(waiting) > 0
        /\ Head(waiting) = waiting[1]
    BY <2>1, LenProperties, EmptySeq DEF TypeOK
  <2>3. /\ Len(accepted) = Len(numbered) + Len(waiting)
        /\ accepted[Len(numbered) + 1] = waiting[1]
    BY <2>2, ConcatProperties DEF WndInv, OrderKept
  <2>4. Buffer!Emit
    BY <2>1, <2>2, <2>3, RoomIsNotFull DEF Buffer!Emit
  <2>5. QED
    BY <2>4 DEF Buffer!Next
<1>6. CASE SendNextDone \/ UNCHANGED vars
  BY <1>1, <1>6 DEF SendNextDone, histVars, vars
<1>7. QED
  BY <1>2, <1>3, <1>4, <1>5, <1>6 DEF Next

\* The send window implements the abstract buffer, ids that come up again
\* included.
THEOREM WindowIsBuffer == Spec => ImplementsBuffer
<1>1. Init => Buffer!Init
  BY DEF Init, Buffer!Init
<1>2. TypeOK /\ WndInv /\ PlaceInv /\ SizeInv /\ [Next]_vars
        => [Buffer!Next]_(Buffer!bufVars)
  BY BufferStep
<1>3. QED
  BY <1>1, <1>2, TypeCorrect, WndInvCorrect, PlaceInvCorrect, SizeInvCorrect, PTL
     DEF Spec, ImplementsBuffer, Buffer!Spec
=============================================================================
