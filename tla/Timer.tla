------------------------------- MODULE Timer -------------------------------
(***************************************************************************)
(* The timer thread (class CTimer, common/Timer.cpp) and the threads that    *)
(* set and remove timers. A timer is a message in the list of the            *)
(* millisecond it expires in; the message remembers that millisecond, its    *)
(* timer id, and nothing else tells it from the others of the list. Run      *)
(* waits on a condition variable for the earliest one. AddTimer reads the    *)
(* clock without the lock, puts the message in under it, and then wakes the  *)
(* thread, again without the lock and only if the thread waits longer than   *)
(* the delay asked for. The clock may advance between any two of these, and  *)
(* between the look of Run at the clock and the wait that follows.           *)
(***************************************************************************)
EXTENDS Integers, Sequences, FiniteSetsExt, SequencesExt

CONSTANTS
    Item,       \* the messages that may be in the timer
    Delays,     \* the ms AddTimer is called with
    EmptyWait,  \* __timer_empty_wait, 60000 ms
    MaxNow,     \* bound: the latest expiry asked for; the clock goes past it
                \* only while the thread waits for a timer
    MaxPending  \* bound: the timers of the map, the batch and the calls together

Times == 1 .. MaxNow
NoTime == 0

ASSUME TimerAssumption ==
    /\ MaxNow \in Nat \ {0} /\ MaxPending \in Nat /\ EmptyWait \in Nat \ {0}
    /\ Delays \subseteq Nat

VARIABLES
    now,       \* the clock
    due,       \* _timer_map: the messages of each millisecond; <<>> is no entry
    timerId,   \* _time_id of each message, NoTime at first
    adding,    \* the call of AddTimer for each message: whether it is about to
               \* "insert" or to "wake" the thread, its ms and its expiry
    pc,        \* Run: "look" at the map; "held", the lock still, the wait about
               \* to begin; "wait"; "call" back; or "crashed"
    cur,       \* cur_timestemp, NoTime when cur_list is null
    freed,     \* cur_list points to an entry that was erased
    waitTime,  \* _wait_time
    deadline,  \* when the wait times out, NoTime outside it
    notified,  \* the condition variable was notified during the wait
    batch,     \* timer_vec
    fate,      \* history: of each <<item, expiry>>, whether it was "asked" for and
               \* has neither fired nor been removed by its own RemoveTimer, or was
               \* then "erased" by RemoveTimer of another message, or "swallowed"
               \* by Run, which erased it through a freed cur_list; else "none"
    lookedAt,  \* history: what the clock read when Run looked, before a wait
    stale      \* history: of each entry of the map, the longest that AddTimer was
               \* held up between reading the clock and inserting there

threadVars == <<pc, cur, freed, waitTime, deadline, notified, batch>>
history == <<fate, lookedAt, stale>>
vars == <<now, due, timerId, adding, threadVars, history>>

NoCall == [step |-> "idle", ms |-> 0, expiry |-> NoTime]
Calls == [step : {"insert", "wake"}, ms : Delays, expiry : Times \cup {NoTime}] \cup {NoCall}

Waited == {t \in Times : due[t] # <<>>}
Pending ==
    Len(batch) + MapThenSumSet(LAMBDA t : Len(due[t]), Times)
        + Cardinality({i \in Item : adding[i].step = "insert"})
Longer(x, y) == IF x >= y THEN x ELSE y

Init ==
    /\ now = 1
    /\ due = [t \in Times |-> <<>>]
    /\ timerId = [i \in Item |-> NoTime]
    /\ adding = [i \in Item |-> NoCall]
    /\ pc = "look"
    /\ cur = NoTime
    /\ freed = FALSE
    /\ waitTime = EmptyWait
    /\ deadline = NoTime
    /\ notified = FALSE
    /\ batch = <<>>
    /\ fate = [x \in Item \X Times |-> "none"]
    /\ lookedAt = NoTime
    /\ stale = [t \in Times |-> 0]
-----------------------------------------------------------------------------
\* Faulty variants of the operators after them; only the mutation runs use them.
NeverSooner(ms)  == FALSE
LeftInMap(t)     == due
WaitReversed(t)  == now - t
FirstOnly(t)     == SubSeq(due[t], 1, 1)

\* AddTimer wakes the thread if it waits longer than ms in all.
Sooner(ms) == ms < waitTime

\* The map without the entry of millisecond t. Erasing a key that is not in
\* the map, as NoTime never is, does nothing.
Without(t) == IF t \in Times THEN [due EXCEPT ![t] = <<>>] ELSE due

\* What Run waits for when the earliest entry is that of t > now.
WaitFor(t) == t - now

Notify == notified' = (notified \/ pc = "wait")

\* AddTimer reads the clock, without the lock.
AddTimer(i, ms) ==
    /\ adding[i] = NoCall
    /\ now + ms \in Times
    /\ Pending < MaxPending
    /\ adding' = [adding EXCEPT ![i] = [step |-> "insert", ms |-> ms, expiry |-> now + ms]]
    /\ UNCHANGED <<now, due, timerId, threadVars, history>>

\* AddTimer under the lock, which Run holds from its look to its wait.
Insert(i) ==
    LET c == adding[i] IN
    /\ c.step = "insert"
    /\ pc # "held"
    /\ due' = [due EXCEPT ![c.expiry] = Append(@, i)]
    /\ timerId' = [timerId EXCEPT ![i] = c.expiry]
    /\ adding' = [adding EXCEPT ![i] = [@ EXCEPT !.step = "wake", !.expiry = NoTime]]
    /\ fate' = [fate EXCEPT ![<<i, c.expiry>>] = "asked"]
    /\ stale' = [stale EXCEPT ![c.expiry] = Longer(@, now + c.ms - c.expiry)]
    /\ UNCHANGED <<now, threadVars, lookedAt>>

\* AddTimer after the lock.
WakeUp(i) ==
    /\ adding[i].step = "wake"
    /\ IF Sooner(adding[i].ms) THEN Notify ELSE UNCHANGED notified
    /\ adding' = [adding EXCEPT ![i] = NoCall]
    /\ UNCHANGED <<now, due, timerId, pc, cur, freed, waitTime, deadline, batch, history>>

\* What becomes of the timers of the entry of t when it is erased.
Fated(t, word) ==
    [x \in Item \X Times |->
        IF x[2] = t /\ x[1] \in Range(due[x[2]]) /\ fate[x] = "asked" THEN word ELSE fate[x]]

\* RemoveTimer takes out the whole entry the message is in, and notifies. The
\* thread may hold a pointer to that entry across its wait.
RemoveTimer(i) ==
    /\ pc # "held"
    /\ due' = Without(timerId[i])
    /\ freed' = (freed \/ (pc = "wait" /\ cur # NoTime /\ cur = timerId[i]))
    /\ fate' = [Fated(timerId[i], "erased") EXCEPT ![<<i, timerId[i]>>] = "none"]
    /\ stale' = [t \in Times |-> IF t = timerId[i] THEN 0 ELSE stale[t]]
    /\ timerId' = [timerId EXCEPT ![i] = NoTime]
    /\ Notify
    /\ UNCHANGED <<now, adding, pc, cur, waitTime, deadline, batch, lookedAt>>

\* The thread takes the entry of t out of the map.
Taken(t) == due[t]
Take(t) ==
    /\ batch' = Taken(t)
    /\ due' = Without(t)
    /\ stale' = [stale EXCEPT ![t] = 0]
    /\ pc' = IF due[t] = <<>> THEN "look" ELSE "call"

\* Run from the top of its loop to the wait, or past it when a timer is due.
Look ==
    /\ pc = "look"
    /\ \/ /\ Waited = {}
          /\ cur' = NoTime
          /\ waitTime' = EmptyWait
          /\ pc' = "held"
          /\ UNCHANGED <<due, batch, stale>>
       \/ /\ Waited # {} /\ Min(Waited) > now
          /\ cur' = Min(Waited)
          /\ waitTime' = WaitFor(Min(Waited))
          /\ pc' = "held"
          /\ UNCHANGED <<due, batch, stale>>
       \/ /\ Waited # {} /\ Min(Waited) <= now
          /\ cur' = Min(Waited)
          /\ waitTime' = 0
          /\ Take(Min(Waited))
    /\ lookedAt' = IF pc' = "held" THEN now ELSE NoTime
    /\ UNCHANGED <<now, timerId, adding, freed, notified, deadline, fate>>

\* wait_for gives the lock back; its deadline is counted from this moment.
Wait ==
    /\ pc = "held"
    /\ deadline' = now + waitTime
    /\ pc' = "wait"
    /\ UNCHANGED <<now, due, timerId, adding, cur, freed, waitTime, notified, batch, history>>

\* The wait ends, by a notification or the deadline. It counts as a timeout
\* when the deadline has passed, whatever ended it. A freed cur_list may crash
\* the thread, look empty, or be the memory of the entry that replaced it.
Wake ==
    /\ pc = "wait"
    /\ notified \/ now >= deadline
    /\ \/ /\ now >= deadline /\ cur # NoTime /\ cur <= now
          /\ \/ /\ Take(cur)
                /\ UNCHANGED fate
             \/ /\ freed /\ pc' = "crashed"
                /\ UNCHANGED <<due, batch, fate, stale>>
             \/ /\ freed /\ pc' = "look"
                /\ due' = Without(cur)
                /\ stale' = [stale EXCEPT ![cur] = 0]
                /\ fate' = Fated(cur, "swallowed")
                /\ UNCHANGED batch
       \/ /\ ~ (now >= deadline /\ cur # NoTime /\ cur <= now)
          /\ pc' = "look"
          /\ UNCHANGED <<due, batch, fate, stale>>
    /\ notified' = FALSE
    /\ freed' = FALSE
    /\ deadline' = NoTime
    /\ lookedAt' = NoTime
    /\ cur' = IF pc' = "call" THEN cur ELSE NoTime
    /\ UNCHANGED <<now, timerId, adding, waitTime>>

\* TimerOut of the next message of the batch, and back to the top after the last.
TimerOut ==
    /\ pc = "call"
    /\ batch' = Tail(batch)
    /\ fate' = [fate EXCEPT ![<<Head(batch), cur>>] = "none"]
    /\ pc' = IF Len(batch) = 1 THEN "look" ELSE "call"
    /\ cur' = IF Len(batch) = 1 THEN NoTime ELSE cur
    /\ UNCHANGED <<now, due, timerId, adding, freed, waitTime, deadline, notified,
                   lookedAt, stale>>

Tick ==
    /\ now < MaxNow \/ (pc = "wait" /\ now < deadline /\ Waited # {})
    /\ now' = now + 1
    /\ UNCHANGED <<due, timerId, adding, threadVars, history>>

Run == Look \/ Wait \/ Wake \/ TimerOut

Next ==
    \/ \E i \in Item :
         \/ \E ms \in Delays : AddTimer(i, ms)
         \/ Insert(i)
         \/ WakeUp(i)
         \/ RemoveTimer(i)
    \/ Run
    \/ Tick

Spec == Init /\ [][Next]_vars

\* The clock and the threads go on.
FairSpec == Spec /\ WF_vars(Tick) /\ WF_vars(Run)
                 /\ \A i \in Item : WF_vars(Insert(i)) /\ WF_vars(WakeUp(i))
-----------------------------------------------------------------------------
TypeOK ==
    /\ now \in Nat \ {0}
    /\ due \in [Times -> Seq(Item)]
    /\ timerId \in [Item -> Times \cup {NoTime}]
    /\ adding \in [Item -> Calls]
    /\ pc \in {"look", "held", "wait", "call", "crashed"}
    /\ cur \in Times \cup {NoTime}
    /\ freed \in BOOLEAN /\ notified \in BOOLEAN
    /\ waitTime \in Nat /\ deadline \in Nat /\ lookedAt \in Nat
    /\ batch \in Seq(Item)
    /\ fate \in [Item \X Times -> {"none", "asked", "erased", "swallowed"}]
    /\ stale \in [Times -> Nat]

\* How long threads were kept between reading the clock and using what they
\* read: the one that set the timer of t, or Run before its present wait.
HeldUp(t) == Longer(stale[t], deadline - waitTime - lookedAt)

\* The thread sleeps past a timer by no more than a thread was held up: unless a
\* wake up is on its way, its wait ends in time for the earliest one but for
\* that, though AddTimer compares its delay with a wait that began earlier, and
\* without the lock.
LateByHoldUps ==
    pc = "wait" /\ ~ notified =>
        \A t \in Waited :
            \/ deadline <= t + HeldUp(t)
            \/ \E i \in Item : adding[i].step = "wake" /\ Sooner(adding[i].ms)

InBatch(i, t) == pc = "call" /\ cur = t /\ i \in Range(batch)

\* A timer asked for is in the map or about to be called back, unless RemoveTimer
\* of another message in its millisecond took it out, or Run did so through a
\* pointer to an entry that was erased. Nothing else loses one.
NoneMislaid ==
    \A i \in Item, t \in Times :
        fate[<<i, t>>] = "asked" => i \in Range(due[t]) \/ InBatch(i, t)

\* Every timer goes off at last, unless it is removed or lost in the ways
\* NoneMislaid names, or the thread has crashed. How late a thread inserts it or
\* begins to wait makes no difference.
TimersGoOff ==
    \A i \in Item, t \in Times :
        fate[<<i, t>>] = "asked" ~> fate[<<i, t>>] # "asked" \/ pc = "crashed"
=============================================================================
