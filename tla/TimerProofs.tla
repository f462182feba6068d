---------------------------- MODULE TimerProofs ----------------------------
(***************************************************************************)
(* What Timer keeps for all messages, delays and waits: its types, that no   *)
(* timer is mislaid, and that the thread sleeps past one by no more than a   *)
(* thread was held up between reading the clock and using it.                *)
(***************************************************************************)
EXTENDS Timer, FiniteLemmas, SequenceTheorems, TLAPS

\* The entries of the map are finitely many milliseconds.
LEMMA EarliestIsWaited ==
    Waited # {} => /\ Min(Waited) \in Waited /\ Min(Waited) \in Times
                   /\ \A t \in Waited : Min(Waited) <= t
<1>1. Waited \subseteq Times /\ Waited \subseteq Int
  BY DEF Waited, Times
<1>2. IsFiniteSet(Waited)
  <2>1. IsFiniteSet(Times)
    BY FS_Interval, TimerAssumption DEF Times
  <2>2. QED
    BY <1>1, <2>1, FS_Subset
<1>3. QED
  BY <1>1, <1>2, MinIsLeast

\* With the types goes that there is a batch exactly while it is called back, and
\* that a call about to insert has its expiry.
Typed ==
    /\ TypeOK
    /\ pc = "call" => batch # <<>> /\ cur # NoTime
    /\ pc # "call" => batch = <<>>
    /\ \A i \in Item : adding[i].step = "insert" => adding[i].expiry \in Times

\* The longer of two times is one of them and not below either.
LEMMA LongerIs ==
    ASSUME NEW x \in Int, NEW y \in Int
    PROVE  /\ Longer(x, y) \in {x, y} /\ Longer(x, y) >= x /\ Longer(x, y) >= y
BY DEF Longer

\* Taking an entry out leaves a map, for NoTime as well.
LEMMA WithoutType ==
    ASSUME TypeOK, NEW t \in Times \cup {NoTime}
    PROVE  Without(t) \in [Times -> Seq(Item)]
BY EmptySeq DEF Without, TypeOK

\* What Take makes of the map, the batch and the program counter.
LEMMA TakeType ==
    ASSUME TypeOK, NEW t \in Times, Take(t)
    PROVE  /\ due' \in [Times -> Seq(Item)]
           /\ batch' \in Seq(Item)
           /\ pc' \in {"look", "call"}
           /\ pc' = "call" <=> batch' # <<>>
           /\ stale' \in [Times -> Nat]
BY WithoutType DEF Take, Taken, TypeOK

\* What becomes of timers is one of the four words.
LEMMA FatedType ==
    ASSUME TypeOK, NEW t, NEW word \in {"none", "asked", "erased", "swallowed"}
    PROVE  Fated(t, word) \in [Item \X Times -> {"none", "asked", "erased", "swallowed"}]
BY DEF Fated, TypeOK

\* Each step of AddTimer keeps the types.
LEMMA TypedKeptByAdding ==
    ASSUME Typed, NEW i \in Item,
           (\E ms \in Delays : AddTimer(i, ms)) \/ Insert(i) \/ WakeUp(i)
    PROVE  Typed'
<1> USE TimerAssumption DEF Typed, TypeOK
<1>1. ASSUME NEW ms \in Delays, AddTimer(i, ms) PROVE Typed'
  <2>1. [step |-> "insert", ms |-> ms, expiry |-> now + ms] \in Calls
    BY <1>1 DEF AddTimer, Calls
  <2>2. adding' \in [Item -> Calls]
    BY <1>1, <2>1 DEF AddTimer
  <2>3. \A j \in Item : adding'[j].step = "insert" => adding'[j].expiry \in Times
    BY <1>1 DEF AddTimer
  <2>4. QED
    BY <1>1, <2>2, <2>3 DEF AddTimer, threadVars, history
<1>2. CASE Insert(i)
  <2>1. /\ adding[i].step = "insert" /\ adding[i].expiry \in Times
        /\ adding[i].ms \in Delays /\ adding[i] \in Calls
    BY <1>2 DEF Insert, Calls, NoCall
  <2>2. adding' \in [Item -> Calls]
    <3>1. [adding[i] EXCEPT !.step = "wake", !.expiry = NoTime] \in Calls
      BY <2>1 DEF Calls, NoCall
    <3>2. QED
      BY <1>2, <3>1 DEF Insert
  <2>3. \A j \in Item : adding'[j].step = "insert" => adding'[j].expiry \in Times
    <3>1. adding'[i].step = "wake"
      BY <1>2, <2>1 DEF Insert, Calls, NoCall
    <3>2. \A j \in Item \ {i} : adding'[j] = adding[j]
      BY <1>2 DEF Insert
    <3>3. QED
      BY <3>1, <3>2
  <2>4. stale' \in [Times -> Nat]
    <3>1. PICK x \in Nat : x = stale[adding[i].expiry]
      BY <2>1
    <3>2. adding[i].expiry \in Int /\ adding[i].ms \in Int
      <4>1. Times \subseteq Int /\ Delays \subseteq Int
        BY DEF Times
      <4>2. QED
        BY <2>1, <4>1
    <3>3. PICK y \in Int : y = now + adding[i].ms - adding[i].expiry
      BY <3>2
    <3>4. Longer(x, y) \in Nat
      BY DEF Longer
    <3>5. QED
      BY <1>2, <3>1, <3>3, <3>4 DEF Insert
  <2>5. due' \in [Times -> Seq(Item)] /\ timerId' \in [Item -> Times \cup {NoTime}]
    BY <1>2, <2>1, AppendProperties DEF Insert
  <2>6. fate' \in [Item \X Times -> {"none", "asked", "erased", "swallowed"}]
    BY <1>2, <2>1 DEF Insert
  <2>7. QED
    BY <1>2, <2>2, <2>3, <2>4, <2>5, <2>6 DEF Insert, threadVars
<1>3. CASE WakeUp(i)
  <2>1. adding' \in [Item -> Calls]
    BY <1>3 DEF WakeUp, Calls
  <2>2. notified' \in BOOLEAN
    BY <1>3 DEF WakeUp, Notify
  <2>3. \A j \in Item : adding'[j].step = "insert" => adding'[j].expiry \in Times
    BY <1>3 DEF WakeUp, NoCall
  <2>4. QED
    BY <1>3, <2>1, <2>2, <2>3 DEF WakeUp, history
<1>4. QED
  BY <1>1, <1>2, <1>3

\* Each step of Run keeps the types, and its batch is empty unless called back.
LEMMA TypedKeptByRun == ASSUME Typed, Run PROVE Typed'
<1> USE TimerAssumption DEF Typed, TypeOK
<1>1. CASE Look
  <2>1. UNCHANGED <<now, timerId, adding, freed, notified, deadline, fate>>
    BY <1>1 DEF Look
  <2>2. lookedAt' \in Nat
    BY <1>1 DEF Look, NoTime
  <2>3. CASE /\ cur' = NoTime /\ waitTime' = EmptyWait
             /\ pc' = "held" /\ UNCHANGED <<due, batch, stale>>
    BY <1>1, <2>1, <2>2, <2>3 DEF NoTime, Look
  <2>4. CASE /\ Waited # {} /\ Min(Waited) > now
             /\ cur' = Min(Waited) /\ waitTime' = WaitFor(Min(Waited))
             /\ pc' = "held" /\ UNCHANGED <<due, batch, stale>>
    <3>1. Min(Waited) \in Times /\ Min(Waited) \in Nat
      BY <2>4, EarliestIsWaited DEF Times
    <3>2. WaitFor(Min(Waited)) \in Nat
      BY <2>4, <3>1 DEF WaitFor
    <3>3. QED
      BY <1>1, <2>1, <2>2, <2>4, <3>1, <3>2 DEF Look
  <2>5. CASE /\ Waited # {} /\ cur' = Min(Waited) /\ waitTime' = 0
             /\ Take(Min(Waited))
    <3>1. Min(Waited) \in Times /\ Min(Waited) # NoTime
      BY <2>5, EarliestIsWaited DEF Times, NoTime
    <3>2. QED
      BY <2>1, <2>2, <2>5, <3>1, TakeType
  <2>6. QED
    BY <1>1, <2>3, <2>4, <2>5 DEF Look
<1>2. CASE Wait
  BY <1>2 DEF Wait, history
<1>3. CASE Wake
  <2>1. cur # NoTime => cur \in Times
    OBVIOUS
  <2>2. /\ UNCHANGED <<now, timerId, adding, waitTime>>
        /\ deadline' = NoTime /\ lookedAt' = NoTime
        /\ notified' = FALSE /\ freed' = FALSE
        /\ cur' = IF pc' = "call" THEN cur ELSE NoTime
        /\ batch = <<>>
    BY <1>3 DEF Wake
  <2>3. CASE cur # NoTime /\ Take(cur) /\ UNCHANGED fate
    <3>1. /\ due' \in [Times -> Seq(Item)] /\ batch' \in Seq(Item)
          /\ pc' \in {"look", "call"} /\ (pc' = "call" <=> batch' # <<>>)
          /\ stale' \in [Times -> Nat]
      BY <2>1, <2>3, TakeType
    <3>2. QED
      BY <2>1, <2>2, <2>3, <3>1 DEF NoTime
  <2>4. CASE pc' = "crashed" /\ UNCHANGED <<due, batch, fate, stale>>
    BY <2>2, <2>4 DEF NoTime
  <2>5. CASE /\ cur # NoTime /\ pc' = "look" /\ due' = Without(cur)
             /\ stale' = [stale EXCEPT ![cur] = 0] /\ fate' = Fated(cur, "swallowed")
             /\ UNCHANGED batch
    <3>1. /\ due' \in [Times -> Seq(Item)] /\ stale' \in [Times -> Nat]
      BY <2>1, <2>5, WithoutType
    <3>2. fate' \in [Item \X Times -> {"none", "asked", "erased", "swallowed"}]
      BY <2>5, FatedType
    <3>3. QED
      BY <2>2, <2>5, <3>1, <3>2 DEF NoTime
  <2>6. CASE pc' = "look" /\ UNCHANGED <<due, batch, fate, stale>>
    BY <2>2, <2>6 DEF NoTime
  <2>7. QED
    BY <1>3, <2>3, <2>4, <2>5, <2>6 DEF Wake
<1>4. CASE TimerOut
  <2>1. batch # <<>> /\ Len(batch) \in Nat /\ cur \in Times /\ Head(batch) \in Item
    BY <1>4, LenProperties, HeadTailProperties DEF TimerOut
  <2>2. Tail(batch) \in Seq(Item) /\ Len(Tail(batch)) = Len(batch) - 1
    BY <2>1, HeadTailProperties
  <2>3. (Len(batch) = 1) <=> (Tail(batch) = <<>>)
    <3>1. Len(<<>>) = 0
      OBVIOUS
    <3>2. Len(batch) # 1 => Len(batch) - 1 # 0
      BY <2>1
    <3>3. Len(batch) = 1 => Len(Tail(batch)) = 0
      BY <2>2
    <3>4. Len(Tail(batch)) = 0 => Tail(batch) = <<>>
      BY <2>2, EmptySeq
    <3>5. QED
      BY <2>2, <3>1, <3>2, <3>3, <3>4
  <2>4. fate' \in [Item \X Times -> {"none", "asked", "erased", "swallowed"}]
    BY <1>4 DEF TimerOut
  <2>5. QED
    BY <1>4, <2>1, <2>2, <2>3, <2>4 DEF TimerOut, NoTime
<1>5. QED
  BY <1>1, <1>2, <1>3, <1>4 DEF Run

\* Each step keeps the types.
LEMMA TypedKept == Typed /\ [Next]_vars => Typed'
<1> SUFFICES ASSUME Typed, [Next]_vars PROVE Typed'
  OBVIOUS
<1>1. ASSUME NEW i \in Item, RemoveTimer(i) PROVE Typed'
  <2> USE DEF Typed, TypeOK
  <2>1. due' \in [Times -> Seq(Item)]
    BY <1>1, WithoutType DEF RemoveTimer
  <2>2. Fated(timerId[i], "erased") \in [Item \X Times -> {"none", "asked", "erased", "swallowed"}]
    BY FatedType
  <2>3. fate' \in [Item \X Times -> {"none", "asked", "erased", "swallowed"}]
    BY <1>1, <2>2 DEF RemoveTimer
  <2>4. stale' \in [Times -> Nat] /\ timerId' \in [Item -> Times \cup {NoTime}]
    BY <1>1 DEF RemoveTimer
  <2>5. notified' \in BOOLEAN /\ freed' \in BOOLEAN
    BY <1>1 DEF RemoveTimer, Notify
  <2>6. QED
    BY <1>1, <2>1, <2>3, <2>4, <2>5 DEF RemoveTimer
<1>2. CASE Tick
  BY <1>2 DEF Tick, threadVars, history, Typed, TypeOK
<1>3. CASE UNCHANGED vars
  BY <1>3 DEF vars, threadVars, history, Typed, TypeOK
<1>4. QED
  BY <1>1, <1>2, <1>3, TypedKeptByAdding, TypedKeptByRun DEF Next

\* The types hold at the start.
LEMMA InitTyped == Init => Typed
<1> SUFFICES ASSUME Init PROVE Typed
  OBVIOUS
<1>1. <<>> \in Seq(Item) /\ EmptyWait \in Nat
  BY TimerAssumption, EmptySeq
<1>2. NoCall \in Calls /\ NoCall.step = "idle"
  BY DEF Calls, NoCall
<1>3. TypeOK
  <2>1. /\ due \in [Times -> Seq(Item)] /\ batch \in Seq(Item)
        /\ adding \in [Item -> Calls] /\ timerId \in [Item -> Times \cup {NoTime}]
        /\ fate \in [Item \X Times -> {"none", "asked", "erased", "swallowed"}]
        /\ stale \in [Times -> Nat]
    BY <1>1, <1>2 DEF Init
  <2>2. /\ pc \in {"look", "held", "wait", "call", "crashed"}
        /\ cur \in Times \cup {NoTime}
        /\ freed \in BOOLEAN /\ notified \in BOOLEAN
    BY DEF Init
  <2>3. now \in Nat \ {0} /\ waitTime \in Nat /\ deadline \in Nat /\ lookedAt \in Nat
    BY <1>1 DEF Init, NoTime
  <2>4. QED
    BY <2>1, <2>2, <2>3 DEF TypeOK
<1>4. QED
  BY <1>2, <1>3 DEF Init, Typed

\* Every step keeps the types of the state.
THEOREM TypeCorrect == Spec => []TypeOK
<1>1. Typed => TypeOK
  BY DEF Typed
<1>2. QED
  BY <1>1, InitTyped, TypedKept, PTL DEF Spec


\* Being late by no more than the hold-ups is not inductive alone: it needs that
\* no call has its expiry from the future, that the wait is as long as it was
\* computed, and that it was computed with every timer of the map.
Awake ==
    /\ LateByHoldUps
    /\ \A i \in Item :
         adding[i].step = "insert" => adding[i].expiry <= now + adding[i].ms
    /\ pc = "wait" => deadline <= now + waitTime
    /\ pc = "held" => \A t \in Waited : lookedAt + waitTime <= t

\* The numbers of a state.
LEMMA Numbers ==
    Typed => /\ now \in Nat /\ waitTime \in Nat /\ deadline \in Nat /\ lookedAt \in Nat
             /\ Times \subseteq Nat /\ Delays \subseteq Nat
             /\ \A t \in Times : stale[t] \in Nat
             /\ \A i \in Item : adding[i].step # "idle" => adding[i].ms \in Nat
<1> SUFFICES ASSUME Typed
    PROVE  /\ now \in Nat /\ waitTime \in Nat /\ deadline \in Nat /\ lookedAt \in Nat
           /\ Times \subseteq Nat /\ Delays \subseteq Nat
           /\ \A t \in Times : stale[t] \in Nat
           /\ \A i \in Item : adding[i].step # "idle" => adding[i].ms \in Nat
  OBVIOUS
<1>1. Times \subseteq Nat /\ Delays \subseteq Nat
  BY TimerAssumption DEF Times
<1>2. \A i \in Item : adding[i].step # "idle" => adding[i].ms \in Delays
  BY DEF Typed, TypeOK, Calls, NoCall
<1>3. QED
  BY <1>1, <1>2 DEF Typed, TypeOK

\* A timer in the map is no obstacle: the wait ends in time for it but for the
\* hold-ups, or a wake up is on its way.
InTime(t) ==
    \/ deadline <= t + HeldUp(t)
    \/ \E i \in Item : adding[i].step = "wake" /\ Sooner(adding[i].ms)

\* Steps that leave the thread and the map alone, and every call that is about to
\* wake the thread, keep each timer in time.
LEMMA InTimeKept ==
    ASSUME NEW t \in Times, InTime(t),
           UNCHANGED <<waitTime, deadline, lookedAt>>, stale'[t] = stale[t],
           \A i \in Item : adding[i].step = "wake" => adding'[i] = adding[i]
    PROVE  InTime(t)'
<1>1. CASE deadline <= t + HeldUp(t)
  BY <1>1 DEF InTime, HeldUp
<1>2. CASE \E i \in Item : adding[i].step = "wake" /\ Sooner(adding[i].ms)
  BY <1>2 DEF InTime, Sooner
<1>3. QED
  BY <1>1, <1>2 DEF InTime

\* A timer inserted during the wait is late by the hold-up of its own call at the
\* most, or it is sooner than the wait and then wakes the thread.
LEMMA InsertedInTime ==
    ASSUME Typed, Awake, NEW i \in Item, Insert(i), pc = "wait",
           NEW t \in Times, t = adding[i].expiry
    PROVE  InTime(t)'
<1>0. PICK ms \in Nat : ms = adding[i].ms
  BY Numbers DEF Insert
<1>1. /\ t \in Times /\ ms \in Nat /\ t \in Nat
      /\ t <= now + ms /\ deadline <= now + waitTime
  BY <1>0, Numbers DEF Insert, Awake, Typed
<1>2. /\ adding'[i].step = "wake" /\ adding'[i].ms = ms
      /\ UNCHANGED <<waitTime, deadline, lookedAt>>
      /\ stale'[t] = Longer(stale[t], now + ms - t)
  <2>1. adding[i] \in Calls /\ adding[i].step = "insert"
    BY DEF Insert, Typed, TypeOK
  <2>2. [adding[i] EXCEPT !.step = "wake", !.expiry = NoTime].step = "wake"
        /\ [adding[i] EXCEPT !.step = "wake", !.expiry = NoTime].ms = ms
    BY <1>0, <2>1 DEF Calls, NoCall
  <2>3. adding'[i] = [adding[i] EXCEPT !.step = "wake", !.expiry = NoTime]
    BY DEF Insert, Typed, TypeOK
  <2>4. stale'[t] = Longer(stale[t], now + ms - t)
    BY <1>0, <1>1 DEF Insert, Typed, TypeOK
  <2>5. QED
    BY <2>2, <2>3, <2>4 DEF Insert, threadVars
<1>3. CASE ms < waitTime
  BY <1>2, <1>3 DEF InTime, Sooner
<1>4. CASE ~ (ms < waitTime)
  <2>1. PICK a \in Nat : a = stale[t]
    BY <1>1, Numbers
  <2>2. now \in Nat /\ waitTime \in Nat /\ deadline \in Nat /\ lookedAt \in Nat
    BY Numbers
  <2>3. Longer(a, now + ms - t) \in Int /\ Longer(a, now + ms - t) >= now + ms - t
    BY <1>1, <2>2 DEF Longer
  <2>4. PICK b \in Int : b = stale'[t] /\ b >= now + ms - t
    BY <1>2, <2>1, <2>3
  <2>5. Longer(b, deadline - waitTime - lookedAt) >= b
        /\ Longer(b, deadline - waitTime - lookedAt) \in Int
    BY <2>2 DEF Longer
  <2>6. deadline <= t + Longer(b, deadline - waitTime - lookedAt)
    <3>1. PICK c \in Int : c = Longer(b, deadline - waitTime - lookedAt) /\ c >= b
      BY <2>5
    <3>2. deadline <= now + ms
      BY <1>1, <1>4, <2>2
    <3>3. QED
      BY <1>1, <2>2, <2>4, <3>1, <3>2
  <2>7. HeldUp(t)' = Longer(b, deadline - waitTime - lookedAt)
    BY <1>2, <2>4 DEF HeldUp
  <2>8. QED
    BY <1>2, <2>6, <2>7 DEF InTime
<1>5. QED
  BY <1>3, <1>4

\* A wait that begins now ends in time for what was in the map at the look.
LEMMA BeginsInTime ==
    ASSUME Typed, Awake, Wait, NEW t \in Waited
    PROVE  InTime(t)'
<1>1. /\ lookedAt + waitTime <= t /\ t \in Times /\ t \in Nat
      /\ deadline' = now + waitTime /\ UNCHANGED <<waitTime, lookedAt, stale>>
  BY Numbers DEF Wait, Awake, Waited, history
<1>2. /\ now \in Nat /\ waitTime \in Nat /\ lookedAt \in Nat /\ stale[t] \in Nat
  BY <1>1, Numbers
<1>3. PICK c \in Int : c = Longer(stale[t], (now + waitTime) - waitTime - lookedAt)
                       /\ c >= (now + waitTime) - waitTime - lookedAt
  <2>1. PICK a \in Nat : a = stale[t]
    BY <1>2
  <2>2. Longer(a, (now + waitTime) - waitTime - lookedAt) \in Int
        /\ Longer(a, (now + waitTime) - waitTime - lookedAt)
             >= (now + waitTime) - waitTime - lookedAt
    BY <1>2 DEF Longer
  <2>3. QED
    BY <2>1, <2>2
<1>4. now + waitTime <= t + c
  BY <1>1, <1>2, <1>3
<1>5. HeldUp(t)' = c
  BY <1>1, <1>3 DEF HeldUp
<1>6. QED
  BY <1>1, <1>4, <1>5 DEF InTime

\* The parts of Awake beside the lateness, after each step.
LEMMA PreparedKept ==
    ASSUME Typed, Awake, [Next]_vars
    PROVE  /\ \A i \in Item :
                adding'[i].step = "insert" => adding'[i].expiry <= now' + adding'[i].ms
           /\ pc' = "wait" => deadline' <= now' + waitTime'
           /\ pc' = "held" => \A t \in Waited' : lookedAt' + waitTime' <= t
<1> DEFINE Calling == \A i \in Item :
               adding'[i].step = "insert" => adding'[i].expiry <= now' + adding'[i].ms
           Waiting == pc' = "wait" => deadline' <= now' + waitTime'
           Looked  == pc' = "held" => \A t \in Waited' : lookedAt' + waitTime' <= t
<1>0. /\ now \in Nat /\ waitTime \in Nat /\ deadline \in Nat /\ lookedAt \in Nat
      /\ Times \subseteq Nat /\ Delays \subseteq Nat
      /\ \A i \in Item : adding[i].step # "idle" => adding[i].ms \in Nat
  BY Numbers
<1>1. ASSUME NEW i \in Item, NEW ms \in Delays, AddTimer(i, ms)
      PROVE  Calling /\ Waiting /\ Looked
  <2>1. /\ UNCHANGED <<now, due, pc, waitTime, deadline, lookedAt>>
        /\ adding'[i] = [step |-> "insert", ms |-> ms, expiry |-> now + ms]
        /\ \A j \in Item \ {i} : adding'[j] = adding[j]
    BY <1>1 DEF AddTimer, threadVars, history, Typed, TypeOK
  <2>2. now + ms <= now + ms
    BY <1>0
  <2>3. Calling
    BY <2>1, <2>2 DEF Awake
  <2>4. QED
    BY <2>1, <2>3 DEF Awake, Waited
<1>2. ASSUME NEW i \in Item, Insert(i) PROVE Calling /\ Waiting /\ Looked
  <2>1. UNCHANGED <<now, pc, waitTime, deadline, lookedAt>> /\ pc # "held"
    BY <1>2 DEF Insert, threadVars
  <2>2. adding[i] \in Calls /\ adding[i].step = "insert"
    BY <1>2 DEF Insert, Typed, TypeOK
  <2>3. adding'[i] = [adding[i] EXCEPT !.step = "wake", !.expiry = NoTime]
        /\ \A j \in Item \ {i} : adding'[j] = adding[j]
    BY <1>2 DEF Insert, Typed, TypeOK
  <2>4. adding'[i].step = "wake"
    BY <2>2, <2>3 DEF Calls, NoCall
  <2>5. QED
    BY <2>1, <2>3, <2>4 DEF Awake
<1>3. ASSUME NEW i \in Item, WakeUp(i) PROVE Calling /\ Waiting /\ Looked
  <2>1. UNCHANGED <<now, due, pc, waitTime, deadline, lookedAt>>
    BY <1>3 DEF WakeUp, history
  <2>2. adding'[i] = NoCall /\ \A j \in Item \ {i} : adding'[j] = adding[j]
    BY <1>3 DEF WakeUp, Typed, TypeOK
  <2>3. QED
    BY <2>1, <2>2 DEF Awake, Waited, NoCall
<1>4. ASSUME NEW i \in Item, RemoveTimer(i) PROVE Calling /\ Waiting /\ Looked
  BY <1>4 DEF RemoveTimer, Awake
<1>5. ASSUME Look PROVE Calling /\ Waiting /\ Looked
  <2>1. UNCHANGED <<now, adding>> /\ (pc' = "held" => lookedAt' = now) /\ pc' # "wait"
    BY <1>5 DEF Look, Take
  <2>2. CASE Waited = {} /\ due' = due
    BY <2>1, <2>2 DEF Awake, Waited
  <2>3. CASE /\ Waited # {} /\ due' = due /\ waitTime' = WaitFor(Min(Waited))
    <3>1. /\ Min(Waited) \in Nat /\ Waited' = Waited /\ Waited \subseteq Nat
          /\ \A t \in Waited : Min(Waited) <= t
      BY <1>0, <2>3, EarliestIsWaited DEF Waited
    <3>2. now + (Min(Waited) - now) = Min(Waited)
      BY <1>0, <3>1
    <3>3. QED
      BY <2>1, <2>3, <3>1, <3>2 DEF Awake, WaitFor
  <2>4. CASE pc' # "held"
    BY <2>1, <2>4 DEF Awake
  <2>5. QED
    BY <1>5, <2>2, <2>3, <2>4 DEF Look, Take
<1>6. ASSUME Wait PROVE Calling /\ Waiting /\ Looked
  BY <1>0, <1>6 DEF Wait, history, Awake
<1>7. ASSUME Wake \/ TimerOut PROVE Calling /\ Waiting /\ Looked
  <2>1. pc' \notin {"wait", "held"} /\ UNCHANGED <<now, adding>>
    BY <1>7 DEF Wake, TimerOut, Take
  <2>2. QED
    BY <2>1 DEF Awake
<1>8. ASSUME Tick PROVE Calling /\ Waiting /\ Looked
  <2>1. UNCHANGED <<due, adding, pc, waitTime, deadline, lookedAt>> /\ now' = now + 1
    BY <1>8 DEF Tick, threadVars, history
  <2>2. Calling
    <3>1. ASSUME NEW i \in Item, adding[i].step = "insert"
          PROVE  adding[i].expiry <= (now + 1) + adding[i].ms
      <4>1. /\ adding[i].ms \in Nat /\ adding[i].expiry \in Nat
            /\ adding[i].expiry <= now + adding[i].ms
        BY <1>0, <3>1 DEF Awake, Typed
      <4>2. QED
        BY <1>0, <4>1
    <3>2. QED
      BY <2>1, <3>1
  <2>3. Waiting
    BY <1>0, <2>1 DEF Awake
  <2>4. QED
    BY <2>1, <2>2, <2>3 DEF Awake, Waited
<1>9. ASSUME UNCHANGED vars PROVE Calling /\ Waiting /\ Looked
  BY <1>9 DEF vars, threadVars, history, Awake, Waited
<1> HIDE DEF Calling, Waiting, Looked
<1>10. Calling /\ Waiting /\ Looked
  BY <1>1, <1>2, <1>3, <1>4, <1>5, <1>6, <1>7, <1>8, <1>9 DEF Next, Run
<1>11. QED
  BY <1>10 DEF Calling, Waiting, Looked

\* Each step keeps the thread in time for every timer of the map.
LEMMA InTimeKeptByAll ==
    ASSUME Typed, Awake, [Next]_vars, pc' = "wait", ~ notified', NEW t \in Waited'
    PROVE  InTime(t)'
<1>1. t \in Times
  BY DEF Waited
<1>2. CASE Wait
  <2>1. t \in Waited
    BY <1>2 DEF Wait, Waited
  <2>2. QED
    BY <1>2, <2>1, BeginsInTime
<1>3. ASSUME NEW i \in Item, NEW ms \in Delays, AddTimer(i, ms) PROVE InTime(t)'
  <2>1. /\ UNCHANGED <<due, pc, notified, waitTime, deadline, lookedAt, stale>>
        /\ \A j \in Item : adding[j].step = "wake" => adding'[j] = adding[j]
    BY <1>3 DEF AddTimer, threadVars, history, Typed, TypeOK, NoCall
  <2>2. InTime(t)
    BY <2>1 DEF Awake, LateByHoldUps, InTime, Waited
  <2>3. QED
    BY <1>1, <2>1, <2>2, InTimeKept
<1>4. ASSUME NEW i \in Item, Insert(i) PROVE InTime(t)'
  <2>1. UNCHANGED <<pc, notified, waitTime, deadline, lookedAt>>
    BY <1>4 DEF Insert, threadVars
  <2>2. CASE t = adding[i].expiry
    BY <1>1, <1>4, <2>1, <2>2, InsertedInTime
  <2>3. CASE t # adding[i].expiry
    <3>1. /\ stale'[t] = stale[t] /\ t \in Waited
          /\ \A j \in Item : adding[j].step = "wake" => adding'[j] = adding[j]
      BY <1>1, <1>4, <2>3 DEF Insert, Typed, TypeOK, Waited
    <3>2. InTime(t)
      BY <2>1, <3>1 DEF Awake, LateByHoldUps, InTime
    <3>3. QED
      BY <1>1, <2>1, <3>1, <3>2, InTimeKept
  <2>4. QED
    BY <2>2, <2>3
<1>5. ASSUME NEW i \in Item, WakeUp(i) PROVE InTime(t)'
  <2>1. /\ UNCHANGED <<due, pc, waitTime, deadline, lookedAt, stale>>
        /\ \A j \in Item \ {i} : adding'[j] = adding[j]
    BY <1>5 DEF WakeUp, history, Typed, TypeOK
  <2>2. ~ Sooner(adding[i].ms) /\ ~ notified
    BY <1>5, <2>1 DEF WakeUp, Notify
  <2>3. InTime(t)
    BY <2>1, <2>2 DEF Awake, LateByHoldUps, InTime, Waited
  <2>4. CASE deadline <= t + HeldUp(t)
    BY <2>1, <2>4 DEF InTime, HeldUp
  <2>5. CASE \E j \in Item : adding[j].step = "wake" /\ Sooner(adding[j].ms)
    BY <2>1, <2>2, <2>5 DEF InTime, Sooner
  <2>6. QED
    BY <2>3, <2>4, <2>5 DEF InTime
<1>6. ASSUME NEW i \in Item, RemoveTimer(i) PROVE FALSE
  BY <1>6 DEF RemoveTimer, Notify
<1>7. CASE Look \/ Wake \/ TimerOut
  <2>1. pc' # "wait"
    BY <1>7 DEF Look, Wake, TimerOut, Take
  <2>2. QED
    BY <2>1
<1>8. CASE Tick \/ UNCHANGED vars
  <2>1. UNCHANGED <<due, pc, notified, waitTime, deadline, lookedAt, stale, adding>>
    BY <1>8 DEF Tick, vars, threadVars, history
  <2>2. InTime(t)
    BY <2>1 DEF Awake, LateByHoldUps, InTime, Waited
  <2>3. QED
    BY <1>1, <2>1, <2>2, InTimeKept
<1>9. QED
  BY <1>2, <1>3, <1>4, <1>5, <1>6, <1>7, <1>8 DEF Next, Run

\* The thread sleeps past a timer by no more than a thread was held up between
\* reading the clock and using it, whatever the delays and the other threads.
THEOREM LateOnlyByHoldUps == Spec => []LateByHoldUps
<1>1. Init => Typed /\ Awake
  BY InitTyped DEF Init, Awake, LateByHoldUps, NoCall
<1>2. Typed /\ Awake /\ [Next]_vars => Awake'
  <2> SUFFICES ASSUME Typed, Awake, [Next]_vars PROVE Awake'
    OBVIOUS
  <2>1. LateByHoldUps'
    BY InTimeKeptByAll DEF LateByHoldUps, InTime
  <2>2. QED
    BY <2>1, PreparedKept DEF Awake
<1>3. Awake => LateByHoldUps
  BY DEF Awake
<1>4. QED
  BY <1>1, <1>2, <1>3, TypedKept, PTL DEF Spec

\* A timer that is asked for is where it should be.
Kept(i, t) == i \in Range(due[t]) \/ InBatch(i, t)

\* What is appended to a sequence is in its range, and so is all there was.
LEMMA RangeOfAppend ==
    ASSUME NEW s \in Seq(Item), NEW i \in Item
    PROVE  Range(Append(s, i)) = Range(s) \cup {i}
<1>1. /\ Append(s, i) \in Seq(Item) /\ Len(Append(s, i)) = Len(s) + 1
      /\ \A n \in 1 .. Len(s) : Append(s, i)[n] = s[n]
      /\ Append(s, i)[Len(s) + 1] = i
  BY AppendProperties
<1>2. DOMAIN s = 1 .. Len(s) /\ DOMAIN Append(s, i) = 1 .. (Len(s) + 1) /\ Len(s) \in Nat
  BY <1>1, LenProperties
<1>3. QED
  BY <1>1, <1>2 DEF Range

\* What is behind the head of a sequence is in its tail.
LEMMA RangeOfTail ==
    ASSUME NEW s \in Seq(Item), s # <<>>, NEW i \in Range(s), i # Head(s)
    PROVE  i \in Range(Tail(s))
<1>1. PICK n \in DOMAIN s : s[n] = i
  BY DEF Range
<1>2. /\ Len(s) \in Nat /\ n \in 1 .. Len(s) /\ n # 1
  BY <1>1, LenProperties, HeadTailProperties
<1>3. /\ Tail(s) \in Seq(Item) /\ Len(Tail(s)) = Len(s) - 1
      /\ \A k \in 1 .. Len(Tail(s)) : Tail(s)[k] = s[k + 1]
  BY HeadTailProperties
<1>4. n - 1 \in 1 .. Len(Tail(s)) /\ Tail(s)[n - 1] = i
  BY <1>1, <1>2, <1>3
<1>5. DOMAIN Tail(s) = 1 .. Len(Tail(s))
  BY <1>3, LenProperties
<1>6. QED
  BY <1>4, <1>5 DEF Range

\* A step that takes nothing out of the map or the batch keeps a timer there.
LEMMA KeptInPlace ==
    ASSUME NEW i \in Item, NEW t \in Times, Kept(i, t),
           due'[t] = due[t], UNCHANGED <<pc, cur, batch>>
    PROVE  Kept(i, t)'
BY DEF Kept, InBatch

\* Steps that leave the map and the batch alone leave timers that are asked for.
LEMMA KeptOutside ==
    ASSUME Typed, NEW i \in Item, NEW t \in Times,
           fate[<<i, t>>] = "asked" => Kept(i, t), fate'[<<i, t>>] = "asked",
           \/ \E j \in Item : (\E ms \in Delays : AddTimer(j, ms)) \/ WakeUp(j)
           \/ Wait \/ Tick \/ UNCHANGED vars
    PROVE  Kept(i, t)'
<1>1. UNCHANGED <<due, fate>> /\ (UNCHANGED pc \/ Wait)
  BY DEF AddTimer, WakeUp, Wait, Tick, vars, threadVars, history
<1>2. Kept(i, t)
  BY <1>1
<1>3. CASE UNCHANGED <<pc, cur, batch>>
  BY <1>1, <1>2, <1>3, KeptInPlace
<1>4. CASE Wait
  BY <1>1, <1>2, <1>4 DEF Wait, Kept, InBatch
<1>5. QED
  BY <1>3, <1>4 DEF AddTimer, WakeUp, Wait, Tick, vars, threadVars, history

\* What the thread takes out of the map is in the batch at once.
LEMMA KeptByTake ==
    ASSUME Typed, NEW u \in Times, Take(u), pc' = "call" => cur' = u, pc # "call",
           NEW i \in Item, NEW t \in Times, Kept(i, t)
    PROVE  Kept(i, t)'
<1>1. i \in Range(due[t]) /\ due[t] # <<>> /\ due[t] \in Seq(Item)
  BY DEF Kept, InBatch, Range, Typed, TypeOK
<1>2. CASE t = u
  <2>1. pc' = "call" /\ batch' = due[t]
    BY <1>1, <1>2 DEF Take, Taken
  <2>2. QED
    BY <1>1, <1>2, <2>1 DEF Kept, InBatch
<1>3. CASE t # u
  BY <1>1, <1>3 DEF Take, Without, Kept, Typed, TypeOK
<1>4. QED
  BY <1>2, <1>3

\* When an entry is erased, what was asked for in it is marked.
LEMMA MarkedOrElsewhere ==
    ASSUME Typed, NEW u \in Times \cup {NoTime}, NEW word \in {"erased", "swallowed"},
           NEW i \in Item, NEW t \in Times, Fated(u, word)[<<i, t>>] = "asked",
           fate[<<i, t>>] = "asked" => Kept(i, t)
    PROVE  Kept(i, t) /\ (t = u => InBatch(i, t))
<1>1. Fated(u, word)[<<i, t>>] =
        IF t = u /\ i \in Range(due[t]) /\ fate[<<i, t>>] = "asked" THEN word ELSE fate[<<i, t>>]
  BY DEF Fated
<1>2. QED
  BY <1>1 DEF Kept

\* Every step keeps what is asked for in the map or the batch.
LEMMA KeptByAll ==
    ASSUME Typed, NoneMislaid, [Next]_vars, NEW i \in Item, NEW t \in Times,
           fate'[<<i, t>>] = "asked"
    PROVE  Kept(i, t)'
<1>1. fate[<<i, t>>] = "asked" => Kept(i, t)
  BY DEF NoneMislaid, Kept
<1>2. <<i, t>> \in Item \X Times /\ due \in [Times -> Seq(Item)]
      /\ fate \in [Item \X Times -> {"none", "asked", "erased", "swallowed"}]
  BY DEF Typed, TypeOK
<1>3. ASSUME NEW j \in Item, Insert(j) PROVE Kept(i, t)'
  <2>1. PICK u \in Times : u = adding[j].expiry
    BY <1>3 DEF Insert, Typed
  <2>2. /\ due' = [due EXCEPT ![u] = Append(@, j)] /\ UNCHANGED <<pc, cur, batch>>
        /\ fate' = [fate EXCEPT ![<<j, u>>] = "asked"]
    BY <1>3, <2>1 DEF Insert, threadVars
  <2>3. CASE t = u
    <3>1. Range(due'[t]) = Range(due[t]) \cup {j}
      BY <1>2, <2>2, <2>3, RangeOfAppend
    <3>2. CASE i = j
      BY <3>1, <3>2 DEF Kept
    <3>3. CASE i # j
      <4>1. fate'[<<i, t>>] = fate[<<i, t>>]
        BY <1>2, <2>2, <3>3
      <4>2. QED
        BY <1>1, <2>2, <3>1, <4>1 DEF Kept, InBatch
    <3>4. QED
      BY <3>2, <3>3
  <2>4. CASE t # u
    <3>1. fate'[<<i, t>>] = fate[<<i, t>>] /\ due'[t] = due[t]
      BY <1>2, <2>2, <2>4
    <3>2. QED
      BY <1>1, <2>2, <3>1, KeptInPlace
  <2>5. QED
    BY <2>3, <2>4
<1>4. ASSUME NEW j \in Item, RemoveTimer(j) PROVE Kept(i, t)'
  <2>1. PICK u \in Times \cup {NoTime} : u = timerId[j]
    BY DEF Typed, TypeOK
  <2>2. /\ due' = Without(u) /\ UNCHANGED <<pc, cur, batch>>
        /\ fate' = [Fated(u, "erased") EXCEPT ![<<j, u>>] = "none"]
    BY <1>4, <2>1 DEF RemoveTimer
  <2>3. Fated(u, "erased")[<<i, t>>] = "asked"
    <3>1. Fated(u, "erased") \in [Item \X Times -> {"none", "asked", "erased", "swallowed"}]
      BY FatedType DEF Typed
    <3>2. fate'[<<i, t>>] \in {"none", Fated(u, "erased")[<<i, t>>]}
      BY <1>2, <2>2, <3>1
    <3>3. QED
      BY <3>2
  <2>4. Kept(i, t) /\ (t = u => InBatch(i, t))
    BY <1>1, <2>3, MarkedOrElsewhere
  <2>5. CASE t = u
    BY <2>2, <2>4, <2>5 DEF Kept, InBatch
  <2>6. CASE t # u
    <3>1. due'[t] = due[t]
      BY <1>2, <2>2, <2>6 DEF Without
    <3>2. QED
      BY <2>2, <2>4, <3>1, KeptInPlace
  <2>7. QED
    BY <2>5, <2>6
<1>5. CASE Look
  <2>1. fate' = fate /\ pc # "call" /\ Kept(i, t)
    BY <1>1, <1>5 DEF Look
  <2>2. CASE UNCHANGED <<due, batch>> /\ pc' = "held"
    BY <2>1, <2>2 DEF Kept, InBatch
  <2>3. CASE Waited # {} /\ cur' = Min(Waited) /\ Take(Min(Waited))
    BY <2>1, <2>3, EarliestIsWaited, KeptByTake
  <2>4. QED
    BY <1>5, <2>2, <2>3 DEF Look
<1>6. CASE Wake
  <2>1. pc # "call" /\ cur' = (IF pc' = "call" THEN cur ELSE NoTime)
    BY <1>6 DEF Wake
  <2>2. CASE cur # NoTime /\ Take(cur) /\ UNCHANGED fate
    <3>1. cur \in Times /\ Kept(i, t)
      BY <1>1, <2>2 DEF Typed, TypeOK
    <3>2. QED
      BY <2>1, <2>2, <3>1, KeptByTake
  <2>3. CASE UNCHANGED <<due, fate>>
    <3>1. i \in Range(due[t])
      BY <1>1, <2>1, <2>3 DEF Kept, InBatch
    <3>2. QED
      BY <2>3, <3>1 DEF Kept
  <2>4. CASE cur # NoTime /\ due' = Without(cur) /\ fate' = Fated(cur, "swallowed")
    <3>1. cur \in Times \cup {NoTime}
      BY DEF Typed, TypeOK
    <3>2. Kept(i, t) /\ (t = cur => InBatch(i, t))
      BY <1>1, <2>4, <3>1, MarkedOrElsewhere
    <3>3. t # cur /\ i \in Range(due[t])
      BY <2>1, <3>2 DEF Kept, InBatch
    <3>4. due'[t] = due[t]
      BY <1>2, <2>4, <3>3 DEF Without
    <3>5. QED
      BY <3>3, <3>4 DEF Kept
  <2>5. QED
    BY <1>6, <2>2, <2>3, <2>4 DEF Wake
<1>7. CASE TimerOut
  <2>1. /\ pc = "call" /\ batch # <<>> /\ batch \in Seq(Item) /\ due' = due
        /\ batch' = Tail(batch)
        /\ fate' = [fate EXCEPT ![<<Head(batch), cur>>] = "none"]
    BY <1>7 DEF TimerOut, Typed, TypeOK
  <2>2. fate[<<i, t>>] = "asked" /\ (i # Head(batch) \/ t # cur)
    BY <1>2, <2>1
  <2>3. CASE i \in Range(due[t])
    BY <2>1, <2>3 DEF Kept
  <2>4. CASE InBatch(i, t)
    <3>1. i \in Range(Tail(batch)) /\ t = cur
      BY <2>1, <2>2, <2>4, RangeOfTail DEF InBatch
    <3>2. Len(batch) # 1
      <4>1. Tail(batch) \in Seq(Item) /\ Len(Tail(batch)) = Len(batch) - 1
        BY <2>1, HeadTailProperties
      <4>2. DOMAIN Tail(batch) = 1 .. Len(Tail(batch)) /\ DOMAIN Tail(batch) # {}
        BY <3>1, <4>1, LenProperties DEF Range
      <4>3. Len(batch) = 1 => 1 .. Len(Tail(batch)) = {}
        BY <4>1
      <4>4. QED
        BY <4>2, <4>3
    <3>3. pc' = "call" /\ cur' = cur
      BY <1>7, <3>2 DEF TimerOut
    <3>4. QED
      BY <2>1, <3>1, <3>3 DEF Kept, InBatch
  <2>5. QED
    BY <1>1, <2>2, <2>3, <2>4 DEF Kept
<1>8. CASE \/ \E j \in Item : (\E ms \in Delays : AddTimer(j, ms)) \/ WakeUp(j)
           \/ Wait \/ Tick \/ UNCHANGED vars
  BY <1>1, <1>8, KeptOutside
<1>9. QED
  BY <1>3, <1>4, <1>5, <1>6, <1>7, <1>8 DEF Next, Run

\* Nothing but RemoveTimer of a neighbour and a pointer to an erased entry ever
\* loses a timer, whatever the messages, the delays and the other threads.
THEOREM TimersAreKept == Spec => []NoneMislaid
<1>1. Init => Typed /\ NoneMislaid
  BY InitTyped DEF Init, NoneMislaid
<1>2. Typed /\ NoneMislaid /\ [Next]_vars => NoneMislaid'
  BY KeptByAll DEF NoneMislaid, Kept
<1>3. QED
  BY <1>1, <1>2, TypedKept, PTL DEF Spec
=============================================================================
