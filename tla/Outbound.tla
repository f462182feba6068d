------------------------------ MODULE Outbound ------------------------------
(***************************************************************************)
(* One socket's way out to the network (net/SocketImpl.cpp): the acks it     *)
(* holds back (common/PendAck.cpp), the flow queue and the pacing of its     *)
(* messages (net/controller/), and the timers they wait in. Three threads    *)
(* run here without a lock of the socket: the process thread, the timer      *)
(* thread and the thread of the pacing timer. They are split where one can   *)
(* see what another left: between the calls that lock, and between a test    *)
(* and what it decides.                                                      *)
(* The send window above has let the messages through, and hands one over    *)
(* again when it resends it quickly. Pacing hands its timer an absolute time *)
(* as the delay, so its timer may go off at any time. The clock that pacing  *)
(* reads stands still: it is read once in the life of the process.           *)
(***************************************************************************)
EXTENDS PendAck, Sequences, SequencesExt, FiniteSets

CONSTANTS
    Messages,    \* bound: how many messages there are
    AckId,       \* ids of messages that arrive and are to be acked
    BodyRoom,    \* bytes that a message with a body leaves for acks
    AckRoom,     \* bytes that a message without a body leaves for acks
    AckLimit,    \* __ack_length_limit
    SizeLimit,   \* 2^32, where _cur_size wraps
    MaxWork      \* bound: calls of ToSend and messages to be acked together

ASSUME OutboundAssumption ==
    /\ Messages \in Nat /\ AckId \subseteq Nat
    /\ BodyRoom \in Nat /\ AckRoom \in Nat /\ MaxWork \in Nat
    /\ AckLimit \in Nat \ {0} /\ SizeLimit \in Nat /\ AckLimit + AckLength <= SizeLimit

Msg == 1 .. Messages
None == 0
Thread == {"process", "timer", "pacer"}
Kind == {"data", "plain", "fin"}

VARIABLES
    kind,      \* what each message is: data that is acked or not, a FIN, or none yet
    \* pended acks
    pend,      \* _ack_map
    curSize,   \* _cur_size
    inTimer,   \* _is_in_timer
    ackTimers, \* the only-ack messages in the timer
    carried,   \* the acks a message has taken along and not sent yet
    \* messages
    resend,    \* _resend_list
    normal,    \* _normal_list
    timers,    \* messages with a resend timer that their timer id names
    loose,     \* how many resend timers a message has that it does not name any more
    paced,     \* how often a message is in the pacing timer
    wasPaced,  \* messages with the flag msg_pacing_send
    wasResent, \* messages with the flag msg_resend
    hot,       \* now < _next_time
    \* threads
    at,        \* what the thread does next
    on,        \* the message it works on
    got,       \* the message it took from the flow queue
    \* history
    work,      \* how many calls of ToSend there were and messages that arrived
    due,       \* their acks that have not left
    wiped,     \* those whose message was given up or cleared with them
    cut,       \* GetAck has left an ack behind
    handed,    \* how often each message was given to ToSend
    sends,     \* how often it went to the net
    acked      \* messages whose ack has come

ackVars    == <<pend, curSize, inTimer, ackTimers, carried>>
queueVars  == <<resend, normal>>
timerVars  == <<timers, loose>>
paceVars   == <<paced, wasPaced, wasResent, hot>>
threadVars == <<at, on, got>>
ackHistory == <<work, due, wiped, cut>>
msgHistory == <<handed, sends, acked>>
vars == <<kind, ackVars, queueVars, timerVars, paceVars, threadVars, ackHistory, msgHistory>>

\* The messages with a resend timer, and those with a body.
Reliable == {m \in Msg : kind[m] \in {"data", "fin"}}
Bodied   == {m \in Msg : kind[m] \in {"data", "plain"}}

Handed == {m \in Msg : kind[m] # "none"}
Sent   == {m \in Msg : sends[m] > 0}
Paced  == {m \in Msg : paced[m] > 0}

Init ==
    /\ kind = [m \in Msg |-> "none"]
    /\ pend = {} /\ curSize = 0 /\ inTimer = FALSE /\ ackTimers = 0
    /\ carried = [m \in Msg |-> {}]
    /\ resend = <<>> /\ normal = <<>>
    /\ timers = {} /\ loose = [m \in Msg |-> 0] /\ paced = [m \in Msg |-> 0]
    /\ wasPaced = {} /\ wasResent = {} /\ hot = FALSE
    /\ at = [t \in Thread |-> "idle"]
    /\ on = [t \in Thread |-> None] /\ got = [t \in Thread |-> None]
    /\ work = 0 /\ due = {} /\ wiped = {} /\ cut = FALSE
    /\ handed = [m \in Msg |-> 0] /\ sends = [m \in Msg |-> 0] /\ acked = {}
-----------------------------------------------------------------------------
\* Faulty variants of the operators after them; only the mutation runs use them.
NowWhenOver      == curSize > AckLimit
FlagNotRaised    == FALSE
ArmedAgain       == inTimer
NoneLeft(limit)  == {}
Peeked(list)     == list
NormalFirst      == IF normal = <<>> THEN "none" ELSE IF resend # <<>> THEN "resend" ELSE "normal"

Go(t, step) == at' = [at EXCEPT ![t] = step]

\* The thread has done what it had to do for its message.
Rest(t) ==
    /\ at' = [at EXCEPT ![t] = "idle"]
    /\ on' = [on EXCEPT ![t] = None]

Room(m) == IF m \in Bodied THEN BodyRoom ELSE AckRoom

\* The smallest n of the pended acks, which is the order of the map.
Smallest(n) == {i \in pend : Cardinality({j \in pend : j < i}) < n}

Gone(limit) == Smallest(Taken(Cardinality(pend), limit))

LeftOver(limit) == pend \ Gone(limit)

\* GetAck with limit bytes left: the acks leave the map. With an empty map
\* nothing changes.
GetAck(limit) ==
    /\ pend' = LeftOver(limit)
    /\ curSize' = (curSize - Charged(Cardinality(pend), limit)) % SizeLimit
    /\ cut' = (cut \/ pend' # {})

\* Acks leave for the network with a message.
Leave(acks) == due' = due \ acks

\* Whether AddAck calls back to send the acks at once.
AckNow == curSize >= AckLimit

\* Whether AddPendAck sets the ack timer, and the flag it leaves then.
NeedsTimer == ~ inTimer
FlagUp == TRUE

\* The flow queue without one occurrence of m, looked for in the resend list first.
ResendWithout(m) == RemoveFirst(resend, m)
NormalWithout(m) == IF m \in Range(resend) THEN normal ELSE RemoveFirst(normal, m)

\* AddTimer of m: its timer id names the new timer, and no longer one it had.
Unnamed(m) == IF m \in timers THEN [loose EXCEPT ![m] = @ + 1] ELSE loose

\* RemoveTimer erases the list of one millisecond, the resend and ack timers
\* of others that go off in it too. Which those are is left open.
EraseList(named) ==
    /\ timers' \in SUBSET (timers \ named)
    /\ \E left \in [Msg -> 0 .. MaxWork] :
         (\A m \in Msg : left[m] <= loose[m]) /\ loose' = left
    /\ ackTimers' \in 0 .. ackTimers

\* The list Get takes from, the resent messages first.
Queued == IF resend # <<>> THEN "resend" ELSE IF normal # <<>> THEN "normal" ELSE "none"

\* pop_front.
Popped(list) == Tail(list)

\* Where TimerOut begins.
FirstStep(m) == IF m \in wasPaced THEN "extra" ELSE "resend"
-----------------------------------------------------------------------------
(* The process thread.                                                       *)

\* ToSend: the resend timer is set. Attach is the rest.
ToSend(m) ==
    /\ at["process"] = "idle"
    /\ work < MaxWork
    /\ work' = work + 1
    /\ handed' = [handed EXCEPT ![m] = @ + 1]
    /\ IF kind'[m] # "plain" THEN timers' = timers \cup {m} /\ loose' = Unnamed(m)
                             ELSE UNCHANGED timerVars
    /\ Go("process", "attach")
    /\ on' = [on EXCEPT !["process"] = m]
    /\ UNCHANGED <<ackVars, queueVars, paceVars, got, due, wiped, cut, sends, acked>>

\* The window lets a new message of kind k through,
Submit(k) ==
    LET m == Cardinality(Handed) + 1
    IN  /\ m \in Msg
        /\ kind' = [kind EXCEPT ![m] = k]
        /\ ToSend(m)

\* or AcceptAck resends one that is in flight, before the AckDone of the acked.
QuickResend(m) ==
    /\ m \in Reliable \ acked
    /\ UNCHANGED kind
    /\ ToSend(m)

\* AckDone: the timer and the flow queue forget the message. An ack of a
\* message that is not in the window any more does not come this far.
AckDone(m) ==
    /\ at["process"] = "idle"
    /\ m \in (Sent \cap Reliable) \ acked
    /\ acked' = acked \cup {m}
    /\ EraseList({m})
    /\ resend' = ResendWithout(m)
    /\ normal' = NormalWithout(m)
    /\ UNCHANGED <<kind, pend, curSize, inTimer, carried, paceVars, threadVars, ackHistory,
                   handed, sends>>

\* AckDone of a message of another socket, whose timers are in the same map.
AckDoneElsewhere ==
    /\ at["process"] = "idle"
    /\ EraseList({})
    /\ UNCHANGED <<kind, pend, curSize, inTimer, carried, queueVars, paceVars, threadVars,
                   ackHistory, msgHistory>>

\* AddAck of a message that has arrived, new or repeated. A repeat is counted
\* in _cur_size though the map does not grow.
AddAck(i) ==
    /\ at["process"] = "idle"
    /\ work < MaxWork
    /\ work' = work + 1
    /\ pend' = pend \cup {i}
    /\ curSize' = (curSize + AckLength) % SizeLimit
    /\ due' = due \cup {i}
    /\ wiped' = wiped \ {i}
    /\ Go("process", "size")
    /\ UNCHANGED <<kind, inTimer, ackTimers, carried, queueVars, timerVars, paceVars, on, got,
                   cut, msgHistory>>

\* AddAck after the unlock, SendAckNowCallBack when the size is at the limit;
\* then AddPendAck sets the ack timer if the flag is down, as it stays,
ArmTimer ==
    /\ at["process"] = "size"
    /\ IF AckNow
         THEN GetAck(AckRoom) /\ Leave(Gone(AckRoom))
         ELSE UNCHANGED <<pend, curSize, cut, due>>
    /\ IF NeedsTimer
         THEN Go("process", "flag") /\ ackTimers' = ackTimers + 1
         ELSE Go("process", "idle") /\ UNCHANGED ackTimers
    /\ UNCHANGED <<kind, inTimer, carried, queueVars, timerVars, paceVars, on, got, work,
                   wiped, msgHistory>>

\* and only then the flag.
RaiseFlag ==
    /\ at["process"] = "flag"
    /\ inTimer' = FlagUp
    /\ Go("process", "idle")
    /\ UNCHANGED <<kind, pend, curSize, ackTimers, carried, queueVars, timerVars, paceVars, on, got,
                   ackHistory, msgHistory>>
-----------------------------------------------------------------------------
(* The timers.                                                               *)

\* TimerOut of the only-ack message, up to the flag.
AckTimerOut ==
    /\ at["timer"] = "idle"
    /\ ackTimers > 0
    /\ ackTimers' = ackTimers - 1
    /\ inTimer' = FALSE
    /\ Go("timer", "acks")
    /\ UNCHANGED <<kind, pend, curSize, carried, queueVars, timerVars, paceVars, on, got,
                   ackHistory, msgHistory>>

\* The rest of it: an only-ack message does not pass the flow queue.
SendAcks ==
    /\ at["timer"] = "acks"
    /\ Rest("timer")
    /\ GetAck(AckRoom)
    /\ Leave(Gone(AckRoom))
    /\ UNCHANGED <<kind, inTimer, ackTimers, carried, queueVars, timerVars, paceVars, got, work,
                   wiped, msgHistory>>

\* TimerOut of a message. One that was paced sends first what the flow queue
\* holds, whichever timer it comes from, as the flag is never taken back.
TimerOut(t, m) ==
    /\ at[t] = "idle"
    /\ \/ /\ t = "timer" /\ m \in timers
          /\ timers' = timers \ {m}
          /\ UNCHANGED <<loose, paced>>
       \/ /\ t = "timer" /\ loose[m] > 0
          /\ loose' = [loose EXCEPT ![m] = @ - 1]
          /\ UNCHANGED <<timers, paced>>
       \/ /\ t = "pacer" /\ paced[m] > 0
          /\ paced' = [paced EXCEPT ![m] = @ - 1]
          /\ UNCHANGED timerVars
    /\ on' = [on EXCEPT ![t] = m]
    /\ Go(t, FirstStep(m))
    /\ UNCHANGED <<kind, ackVars, queueVars, wasPaced, wasResent, hot, got, ackHistory, msgHistory>>
-----------------------------------------------------------------------------
(* Sending, on any thread.                                                   *)

\* AddAckToMsg, which is ClearAck and then what is pended and fits; and Add of
\* the flow queue, where resent messages have a list of their own. Together, as
\* what another thread does between the two changes only which message takes
\* which ack.
Enqueue(t, resent) ==
    LET m == on[t]
    IN  /\ GetAck(Room(m))
        /\ carried' = [carried EXCEPT ![m] = Gone(Room(m))]
        /\ wiped' = wiped \cup carried[m]
        /\ IF m \in resent
             THEN resend' = Append(resend, m) /\ UNCHANGED normal
             ELSE normal' = Append(normal, m) /\ UNCHANGED resend
        /\ Go(t, "get")

\* ToSend after the timer is set.
Attach ==
    /\ at["process"] = "attach"
    /\ Enqueue("process", wasResent)
    /\ UNCHANGED <<kind, inTimer, ackTimers, timerVars, paceVars, on, got, work, due, msgHistory>>

\* TimerOut: the user may refuse; else the message is marked and queued again.
Resend(t) ==
    /\ at[t] = "resend"
    /\ \/ /\ Rest(t)
          /\ wiped' = wiped \cup carried[on[t]]
          /\ UNCHANGED <<pend, curSize, cut, carried, queueVars, wasResent>>
       \/ /\ wasResent' = wasResent \cup {on[t]}
          /\ Enqueue(t, wasResent')
          /\ UNCHANGED on
    /\ UNCHANGED <<kind, inTimer, ackTimers, timerVars, paced, wasPaced, hot, got, work, due,
                   msgHistory>>

\* Get of the flow queue. "extra" is the Get of a
\* paced message's TimerOut, which goes on with Resend.
Get(t) ==
    /\ at[t] \in {"get", "extra"}
    /\ \/ /\ Queued = "resend"
          /\ got' = [got EXCEPT ![t] = Head(resend)]
          /\ resend' = Popped(resend)
          /\ UNCHANGED normal
       \/ /\ Queued = "normal"
          /\ got' = [got EXCEPT ![t] = Head(normal)]
          /\ normal' = Popped(normal)
          /\ UNCHANGED resend
       \/ /\ Queued = "none"
          /\ UNCHANGED <<got, queueVars>>
    /\ Go(t, IF got'[t] # None THEN "pace" ELSE IF at[t] = "get" THEN "idle" ELSE "resend")
    /\ on' = IF at[t] = "get" THEN [on EXCEPT ![t] = None] ELSE on
    /\ UNCHANGED <<kind, ackVars, timerVars, paceVars, ackHistory, msgHistory>>

\* SendMessage of the pacing. A message without a body is not paced; another one
\* is put in the pacing timer while now < _next_time, or sent, after which
\* _next_time is past now unless the body is too short for the rate. As now
\* stands still, it stays past it. The pacing timer overwrites the timer id.
Pace(t) ==
    LET m == got[t]
        Send == /\ sends' = [sends EXCEPT ![m] = @ + 1]
                /\ Leave(carried[m])
                /\ carried' = [carried EXCEPT ![m] = {}]
                /\ UNCHANGED <<timerVars, paced, wasPaced>>
    IN  /\ at[t] = "pace"
        /\ \/ /\ m \notin Bodied
              /\ Send
              /\ UNCHANGED hot
           \/ /\ m \in Bodied /\ hot
              /\ paced' = [paced EXCEPT ![m] = @ + 1]
              /\ wasPaced' = wasPaced \cup {m}
              /\ timers' = timers \ {m} /\ loose' = Unnamed(m)
              /\ UNCHANGED <<sends, due, carried, hot>>
           \/ /\ m \in Bodied /\ ~ hot
              /\ Send
              /\ hot' \in BOOLEAN
        /\ got' = [got EXCEPT ![t] = None]
        /\ Go(t, IF on[t] = None THEN "idle" ELSE "resend")
        /\ UNCHANGED <<kind, pend, curSize, inTimer, ackTimers, queueVars, wasResent, on, work,
                       wiped, cut, handed, acked>>

Steps(t) == Get(t) \/ Pace(t)

Process == Attach \/ ArmTimer \/ RaiseFlag \/ Steps("process")

TimerThread(t) ==
    \/ \E m \in Msg : TimerOut(t, m)
    \/ t = "timer" /\ (AckTimerOut \/ SendAcks)
    \/ Resend(t) \/ Steps(t)

Next ==
    \/ \E k \in Kind : Submit(k)
    \/ \E m \in Msg : QuickResend(m) \/ AckDone(m)
    \/ AckDoneElsewhere
    \/ \E i \in AckId : AddAck(i)
    \/ Process
    \/ TimerThread("timer") \/ TimerThread("pacer")

Spec == Init /\ [][Next]_vars

\* The threads run and timers go off. Nobody has to send, and no message and no
\* ack has to arrive.
FairSpec ==
    /\ Spec
    /\ WF_vars(Process)
    /\ WF_vars(TimerThread("timer"))
    /\ WF_vars(TimerThread("pacer"))
-----------------------------------------------------------------------------
TypeOK ==
    /\ kind \in [Msg -> Kind \cup {"none"}]
    /\ pend \subseteq AckId /\ curSize \in 0 .. SizeLimit - 1
    /\ inTimer \in BOOLEAN /\ ackTimers \in 0 .. 1
    /\ carried \in [Msg -> SUBSET AckId]
    /\ resend \in Seq(Msg) /\ normal \in Seq(Msg)
    /\ timers \subseteq Reliable /\ loose \in [Msg -> Nat] /\ paced \in [Msg -> Nat]
    /\ Paced \subseteq wasPaced /\ wasPaced \subseteq Bodied /\ wasResent \subseteq Msg
    /\ hot \in BOOLEAN
    /\ at \in [Thread -> {"idle", "size", "flag", "acks", "extra", "resend", "attach", "get",
                          "pace"}]
    /\ on \in [Thread -> Msg \cup {None}] /\ got \in [Thread -> Msg \cup {None}]
    /\ work \in 0 .. MaxWork
    /\ due \subseteq AckId /\ wiped \subseteq AckId /\ cut \in BOOLEAN
    /\ handed \in [Msg -> Nat] /\ sends \in [Msg -> Nat]
    /\ acked \subseteq Sent /\ Sent \subseteq Handed

\* Nothing is left in the flow queue: every Add is followed by one Get only, and
\* it may take what another thread has added, or what is resent first, but no
\* more is queued than there are Gets to come.
NothingStranded ==
    Len(resend) + Len(normal) <= Cardinality({t \in Thread : at[t] = "get"})

\* Each time ToSend is called, a message goes to the net twice at most, and once
\* without a resend timer: whichever timer ids are overwritten, however the three
\* threads take its copies from the timers and the queues, before its ack or
\* after, none of them is doubled on the way.
SendsBounded ==
    \A m \in Msg : sends[m] <= (IF m \in Reliable THEN 2 ELSE 1) * handed[m]

\* _is_in_timer is up without a timer: the timer went off between ArmTimer and
\* RaiseFlag, or was erased with the list of its millisecond, and no ack timer is
\* ever set again.
StuckFlag == inTimer /\ ackTimers = 0

\* Pended acks have a timer, or a thread about to set one or to take them along,
\* unless the flag is stuck or a GetAck has left some behind.
AcksAreWatched ==
    pend # {} /\ ~ StuckFlag /\ ~ cut =>
        \/ ackTimers = 1
        \/ at["process"] = "size"
        \/ at["timer"] = "acks"

\* The message is in a queue, a timer or the hands of a thread.
ToGo(m) ==
    \/ m \in Paced \cup Range(resend) \cup Range(normal)
    \/ \E t \in Thread : on[t] = m \/ got[t] = m

\* An ack that has not left is pended or goes with a message that is on its way.
\* Three things lose it: ClearAck of a message that was paced or queued with it
\* and the user's refusal (wiped), and an ack that stops the message it goes with.
AcksAreKept ==
    \A i \in due \ wiped :
        \/ i \in pend
        \/ \E m \in Msg : i \in carried[m] /\ (ToGo(m) \/ m \in acked)

\* Until a GetAck leaves an ack behind, _cur_size covers what is pended, and no
\* more stays pended than the limit, though repeats are counted twice.
SizeCovers ==
    ~ cut =>
        /\ curSize >= AckLength * Cardinality(pend)
        /\ at["process"] # "size" => AckLength * Cardinality(pend) < AckLimit

\* Every message goes to the net at last, unless it has a body and pacing holds
\* bodies back by then, which it does for ever: the one Get per Add may take
\* another message and a resend goes before, but none is left behind. A FIN
\* always leaves.
MessagesLeave == \A m \in Msg : m \in Handed ~> m \in Sent \/ (m \in Bodied /\ hot)
=============================================================================
