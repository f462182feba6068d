------------------------------ MODULE SendWnd ------------------------------
(***************************************************************************)
(* The send window of one delivery class of a socket: class CSendWndImpl    *)
(* (common/SendWnd.cpp) with the id generator it owns                       *)
(* (common/IncrementalId.cpp) and the part of its priority queue that can   *)
(* be reached from it.                                                     *)
(*                                                                         *)
(* PushBack gives a message an id and puts it on the wire, or parks it in   *)
(* the priority queue while the window is full; AcceptAck takes the message *)
(* with an id out of the window and lets parked messages follow;            *)
(* ChangeSendWndSize is the congestion controller's verdict.                *)
(*                                                                         *)
(* The loop of SendNext is one step per iteration: pc is "filling" while a  *)
(* handler is inside it. The windows modelled are the two that are acked    *)
(* (HTF_RELIABLE and HTF_RELIABLE_ORDERLY); the HTF_ORDERLY one is built    *)
(* with _always_send, so it never counts, parks or erases a message.        *)
(***************************************************************************)
EXTENDS Integers, Sequences, FiniteSets

CONSTANTS
    UserMsg,     \* messages of SendTo: internal flag msg_send | msg_with_out_id
    ControlMsg,  \* messages the socket makes itself: msg_with_out_id only
    NoMsg,       \* the null pointer
    IdSpace,     \* number of message ids, 2^16 in the code
    InitWnd,     \* __init_send_wnd_size
    WndSizes,    \* the sizes the congestion controller may ask for
    QuickLimit   \* __quick_resend_limit

Msg == UserMsg \cup ControlMsg
Ids == 0 .. IdSpace - 1

ASSUME SendWndAssumption ==
    /\ NoMsg \notin Msg
    /\ UserMsg \cap ControlMsg = {}
    /\ IdSpace \in Nat \ {0}
    /\ InitWnd \in Nat \ {0}
    /\ WndSizes \subseteq Nat
    /\ QuickLimit \in Nat \ {0}

VARIABLES
    msgAt,    \* _id_msg_map: the message in flight under an id, or NoMsg
    start,    \* _start
    ooo,      \* _out_of_order_count
    wndSize,  \* _send_wnd_size
    curSize,  \* _cur_send_size
    lastId,   \* _incremental_id->_cur_id
    waiting,  \* what the priority queue holds, all of it in its LOW class
    pc,       \* "idle", or "filling": inside the loop of SendNext
    \* history of the calls, read by the properties only
    accepted, \* the messages PushBack kept, in the order of the calls
    numbered, \* the messages that were given an id, in that order
    dropped,  \* the messages the priority queue took and did not store
    acked,    \* the messages AckDone was called for
    resends   \* how many times _start was resent quickly

wndVars  == <<msgAt, start, ooo, curSize, lastId>>
histVars == <<accepted, numbered, dropped, acked, resends>>
vars     == <<msgAt, start, ooo, wndSize, curSize, lastId, waiting, pc,
              accepted, numbered, dropped, acked, resends>>

InFlight == {id \in Ids : msgAt[id] # NoMsg}

\* Messages never handed to PushBack yet.
Fresh == Msg \ ({accepted[i] : i \in DOMAIN accepted} \cup dropped)

Init ==
    /\ msgAt = [id \in Ids |-> NoMsg]
    /\ start = NoMsg
    /\ ooo = 0
    /\ wndSize = InitWnd
    /\ curSize = 0
    /\ lastId \in Ids          \* GetRandomInitialValue()
    /\ waiting = <<>>
    /\ pc = "idle"
    /\ accepted = <<>>
    /\ numbered = <<>>
    /\ dropped = {}
    /\ acked = {}
    /\ resends = 0
-----------------------------------------------------------------------------
\* Faulty variants of the operators after them: an increment, a notification
\* or a limit got wrong. Only the mutation runs use them.
NextIdStuck   == lastId
NextIdWide    == lastId + 1
StartKept(id) == {start}
FullLate == curSize > wndSize
ResendSoon(id, s) == ooo + 2 >= QuickLimit /\ s # NoMsg
RefillMissed  == "idle"
ParkInFront(m) ==
    /\ waiting' = <<m>> \o waiting
    /\ accepted' = Append(accepted, m)
    /\ UNCHANGED dropped

\* The window takes no more: the test of PushBack, and of SendNext reversed.
Full == curSize >= wndSize

\* CIncrementalId::GetNextId on a uint16_t.
NextId == IF lastId = IdSpace - 1 THEN 0 ELSE lastId + 1

\* What _start may become once id has left the map: begin() of an unordered
\* map is any of its elements.
StartAfter(id) ==
    IF InFlight = {id} THEN {NoMsg} ELSE {msgAt[i] : i \in InFlight \ {id}}

\* _out_of_order_count once id is acked, before the limit is looked at.
CountAfter(id) == IF msgAt[id] = start THEN 0 ELSE ooo + 1

\* The message s that _start has become is resent.
ResendDue(id, s) == CountAfter(id) >= QuickLimit /\ s # NoMsg

\* Where AcceptAck goes on: the loop of SendNext.
Refill == "filling"

\* PushBackToSendWnd with AddToEnd. A message still in flight under the same
\* id is overwritten in the map. _start is set when it is null.
PushBackToSendWnd(m) ==
    /\ lastId' = NextId
    /\ msgAt' = [msgAt EXCEPT ![NextId] = m]
    /\ IF start # NoMsg
       THEN UNCHANGED start
       ELSE start' \in {msgAt'[id] : id \in InFlight} \cup {m}
    /\ curSize' = curSize + 1
    /\ numbered' = Append(numbered, m)
    /\ UNCHANGED ooo

\* The window is full: CPriorityQueueImpl::PushBack. It classifies by the
\* internal flag, where only a user message carries a bit (msg_send, 0x10)
\* that reads as a priority (HPF_LOW_PRI); a control message matches no class
\* and is not stored.
Park(m) ==
    \/ /\ m \in UserMsg
       /\ waiting' = Append(waiting, m)
       /\ accepted' = Append(accepted, m)
       /\ UNCHANGED dropped
    \/ /\ m \in ControlMsg
       /\ dropped' = dropped \cup {m}
       /\ UNCHANGED <<waiting, accepted>>

PushBack(m) ==
    /\ pc = "idle"
    /\ m \in Fresh
    /\ \/ /\ Full
          /\ Park(m)
          /\ UNCHANGED <<wndVars, numbered>>
       \/ /\ ~ Full
          /\ PushBackToSendWnd(m)
          /\ accepted' = Append(accepted, m)
          /\ UNCHANGED <<waiting, dropped>>
    /\ UNCHANGED <<wndSize, pc, acked, resends>>

\* AcceptAck(id), up to its call of SendNext. An id that is not in the map is
\* a repeated ack: the handler returns at once and changes nothing.
AcceptAck(id) ==
    /\ pc = "idle"
    /\ id \in InFlight
    /\ msgAt' = [msgAt EXCEPT ![id] = NoMsg]
    /\ curSize' = curSize - 1
    /\ acked' = acked \cup {msgAt[id]}
    /\ start' \in StartAfter(id)
    /\ \/ /\ ResendDue(id, start')
          /\ ooo' = 0
          /\ resends' = resends + 1          \* _start goes out once more
       \/ /\ ~ ResendDue(id, start')
          /\ ooo' = CountAfter(id)
          /\ UNCHANGED resends
    /\ pc' = Refill
    /\ UNCHANGED <<wndSize, lastId, waiting, accepted, numbered, dropped>>

\* ChangeSendWndSize, up to its call of SendNext.
ChangeSendWndSize(size) ==
    /\ pc = "idle"
    /\ size # wndSize
    /\ wndSize' = size
    /\ pc' = Refill
    /\ UNCHANGED <<wndVars, waiting, histVars>>

\* One iteration of the loop of SendNext.
SendNext ==
    /\ pc = "filling"
    /\ ~ Full
    /\ waiting # <<>>
    /\ PushBackToSendWnd(Head(waiting))
    /\ waiting' = Tail(waiting)
    /\ UNCHANGED <<wndSize, pc, accepted, dropped, acked, resends>>

\* The loop ends, and with it the handler: SendAndAck only drains the two
\* queues of calls that are already in the history.
SendNextDone ==
    /\ pc = "filling"
    /\ Full \/ waiting = <<>>
    /\ pc' = "idle"
    /\ UNCHANGED <<wndVars, wndSize, waiting, histVars>>

Next ==
    \/ \E m \in Msg : PushBack(m)
    \/ \E id \in Ids : AcceptAck(id)
    \/ \E size \in WndSizes : ChangeSendWndSize(size)
    \/ SendNext
    \/ SendNextDone

Spec == Init /\ [][Next]_vars

\* The process thread finishes the handler it is in, and the peer's acks of
\* what is in flight keep arriving.
Fairness ==
    /\ WF_vars(SendNext \/ SendNextDone)
    /\ \A m \in Msg :
         SF_vars(\E id \in Ids : msgAt[id] = m /\ AcceptAck(id))

FairSpec == Spec /\ Fairness
-----------------------------------------------------------------------------
TypeOK ==
    /\ msgAt \in [Ids -> Msg \cup {NoMsg}]
    /\ start \in Msg \cup {NoMsg}
    /\ ooo \in Nat
    /\ wndSize \in WndSizes \cup {InitWnd}
    /\ curSize \in Int
    /\ lastId \in Ids
    /\ waiting \in Seq(Msg)
    /\ pc \in {"idle", "filling"}
    /\ accepted \in Seq(Msg)
    /\ numbered \in Seq(Msg)
    /\ dropped \subseteq Msg
    /\ acked \subseteq Msg
    /\ resends \in Nat

\* No id has been given out twice yet.
IdsUnused == Len(numbered) <= IdSpace

\* _cur_send_size, which the window is compared with, is the number of
\* messages in flight: kept by hand in PushBackToSendWnd and AcceptAck, beside
\* a map that counts its own entries. If it drifts the window shrinks for good.
SizeCountsInFlight == IdsUnused => curSize = Cardinality(InFlight)

\* _start, dereferenced and resent by AcceptAck, is a message that is in
\* flight, and is null only when none is.
StartInWindow ==
    IdsUnused => /\ start = NoMsg => InFlight = {}
                 /\ start # NoMsg => \E id \in InFlight : msgAt[id] = start

\* Messages are numbered in the order of the PushBack calls, whether they went
\* out at once or waited for the window: none overtakes a parked one, and none
\* is numbered twice or lost. The receiver orders by these ids.
OrderKept == accepted = numbered \o waiting

\* Between handlers a message waits only for a full window: no handler that
\* makes room forgets to fill it.
WorkConserving == pc = "idle" /\ waiting # <<>> => curSize >= wndSize

\* A message that was numbered is in flight or acked, and not both: the window
\* forgets none before AckDone, and acks none that is still in flight.
InFlightOrAcked ==
    IdsUnused => \A i \in DOMAIN numbered :
                   (\E id \in InFlight : msgAt[id] = numbered[i])
                     <=> numbered[i] \notin acked

\* Quick resends are paid for: each took QuickLimit acks of messages other
\* than _start, so they add at most 1/QuickLimit to the traffic.
ResendsBounded == QuickLimit * resends + ooo <= Cardinality(acked)

\* Every message PushBack parked is sent, as long as acks keep coming and the
\* window does not close.
ParkedIsSent ==
    \A m \in UserMsg :
        (\E i \in DOMAIN waiting : waiting[i] = m)
            ~> (\E i \in DOMAIN numbered : numbered[i] = m)

\* The window does what a send buffer promises: whatever ids, counters and
\* maps it keeps, seen from outside it sends one line in order, never more
\* than the window unacked, and lets a message in directly only when none
\* waits. It holds across the wrap of the ids too.
Buffer == INSTANCE SendBuffer
            WITH Line <- UserMsg, Hasty <- ControlMsg, InitLimit <- InitWnd,
                 Limits <- WndSizes, sent <- numbered, refused <- dropped,
                 limit <- wndSize
ImplementsBuffer == Buffer!Spec
-----------------------------------------------------------------------------
\* A claim of the sources that the window does not keep.
\* CommonFlag.h:51 on Close: "send all msg in cache then send HPF_FIN to
\* remote". The FIN is a control message.
NoneDropped == dropped = {}
=============================================================================
