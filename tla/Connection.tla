----------------------------- MODULE Connection -----------------------------
(***************************************************************************)
(* The life of a connection between two ends: the sockets CSocketManager    *)
(* makes and releases, the status of CSocketImpl (net/SocketImpl.cpp) from   *)
(* the first message through FIN, FIN_ACK and RST to the 2MSL close, the     *)
(* acks that ride on every message, and the network between the ends, which *)
(* delays, reorders, loses and duplicates.                                  *)
(*                                                                         *)
(* Data and FIN go through the reliable orderly window: they stay in        *)
(* "inflight" until acked and are resent by their timer, once, as TimerOut  *)
(* does not arm it again. FIN_ACK and RST go through the orderly window and *)
(* are sent once. Windows have room; SendWnd shows what happens otherwise.  *)
(* A reliable message has a number of its own per end, which stands for its *)
(* id: no id comes up again within a run.                                   *)
(*                                                                         *)
(* Close runs on a thread of the user, and no lock protects the status: both *)
(* SendFinMessage and CheckClose read it, and change it later by what they   *)
(* read. The steps between which the other thread may come are actions.     *)
(***************************************************************************)
EXTENDS Integers, FiniteSets, Bags

CONSTANTS
    End,         \* the two ends
    MaxData,     \* bound: data messages the user of each end sends
    MaxCloses,   \* bound: calls of Close, per end
    MaxResends,  \* bound: resends, in all
    MaxDrops,    \* bound: resends and 2MSL closes that do not come about, in all
    MaxFaults    \* bound: packets the network loses or duplicates

ASSUME ConnectionAssumption ==
    /\ IsFiniteSet(End) /\ Cardinality(End) = 2
    /\ MaxData \in [End -> Nat] /\ MaxCloses \in [End -> Nat]
    /\ MaxResends \in Nat /\ MaxDrops \in Nat /\ MaxFaults \in Nat

Peer(e) == CHOOSE p \in End : p # e

Statuses == {"SS_CLOSE", "SS_READY", "SS_FIN_WAIT_1", "SS_FIN_WAIT_2", "SS_TIME_WAIT",
             "SS_CLOSING", "SS_CLOSE_WIAT", "SS_LAST_ACK"}
Absent   == "absent"   \* not in the socket map: never made, or released
Dead     == "dead"     \* the process of the end has crashed

VARIABLES
    sk,       \* the socket of each end, a record
    closer,   \* the thread in Close: "idle"; "checked" the status; about to
              \* change it to "SS_FIN_WAIT_1" or "SS_LAST_ACK"; or "stale"
              \* when the socket it holds was released meanwhile
    queued,   \* data messages between SendTo and the process thread
    handler,  \* the process thread: "idle", or after the FIN that it found in
              \* SS_READY: "got_fin", "changed" the status, "checked" it again
    net,      \* the bag of packets under way
    sent,     \* how many reliable messages each end has sent
    fins,     \* which of them are FINs
    heard,    \* the FINs of each end that ever reached the other
    budget    \* what is left of the bounds

vars == <<sk, closer, queued, handler, net, sent, fins, heard, budget>>

NoSocket ==
    [status |-> Absent, window |-> FALSE, armed |-> {}, pend |-> {}, got |-> {},
     msl |-> FALSE, life |-> 0]

Types == {"data", "fin", "fin_ack", "rst", "ack"}
Packet(to, type, n, acks) == [to |-> to, type |-> type, n |-> n, acks |-> acks]

Init ==
    /\ sk = [e \in End |-> NoSocket]
    /\ closer = [e \in End |-> "idle"]
    /\ queued = [e \in End |-> 0]
    /\ handler = [e \in End |-> "idle"]
    /\ net = EmptyBag
    /\ sent = [e \in End |-> 0]
    /\ fins = [e \in End |-> {}]
    /\ heard = [e \in End |-> {}]
    /\ budget = [data |-> MaxData, closes |-> MaxCloses,
                 resends |-> MaxResends, drops |-> MaxDrops, faults |-> MaxFaults]
-----------------------------------------------------------------------------
\* Faulty variants of the operators after them; only the mutation runs use them.
TakenUnlisted(s, n, quick) == [s EXCEPT !.pend = @ \cup {n}]
OnFinEarly(st)     == IF st = "SS_FIN_WAIT_1" THEN "SS_FIN_WAIT_2" ELSE "SS_TIME_WAIT"
OnFinAckMissed(st) == IF st = "SS_LAST_ACK" THEN Absent ELSE "SS_FIN_WAIT_2"
OnFinAckDone(st) ==
    CASE st = "SS_LAST_ACK"                     -> Absent
      [] st \in {"SS_CLOSING", "SS_FIN_WAIT_1"} -> "SS_TIME_WAIT"
      [] OTHER                                  -> st

\* The changes StatusChange lets through; any other is logged and refused.
Changes ==
    {<<"SS_CLOSE", "SS_READY">>, <<"SS_READY", "SS_FIN_WAIT_1">>,
     <<"SS_FIN_WAIT_1", "SS_FIN_WAIT_2">>, <<"SS_FIN_WAIT_2", "SS_TIME_WAIT">>,
     <<"SS_CLOSING", "SS_TIME_WAIT">>, <<"SS_FIN_WAIT_1", "SS_CLOSING">>,
     <<"SS_READY", "SS_CLOSE_WIAT">>, <<"SS_CLOSE_WIAT", "SS_LAST_ACK">>}
StatusChange(st, to) == IF <<st, to>> \in Changes THEN to ELSE st

\* CSocketManagerImpl::GetSocket makes a socket when none is in the map.
Found(s) ==
    IF s.status = Absent THEN [s EXCEPT !.status = "SS_CLOSE", !.life = @ + 1] ELSE s

\* The first message RecvMessage sees opens the socket.
Opened(s) == IF s.status = "SS_CLOSE" THEN [s EXCEPT !.status = "SS_READY"] ELSE s

\* GetAckToSendWnd, where the window exists. Repeated acks change nothing.
AcceptAcks(s, acks) ==
    [s EXCEPT !.armed = @ \ acks]

\* CheckClose on HPF_FIN; SS_READY is left by the steps that follow.
OnFin(st) ==
    CASE st = "SS_FIN_WAIT_1" -> "SS_CLOSING"
      [] st = "SS_FIN_WAIT_2" -> "SS_TIME_WAIT"
      [] OTHER                -> st

\* CheckClose on HPF_FIN_ACK.
OnFinAck(st) ==
    CASE st = "SS_LAST_ACK"   -> Absent
      [] st = "SS_FIN_WAIT_1" -> "SS_FIN_WAIT_2"
      [] st = "SS_CLOSING"    -> "SS_TIME_WAIT"
      [] OTHER                -> st

\* The status CheckClose leaves; Wait2MslClose sets the timer of SS_TIME_WAIT.
Moved(s, status) ==
    [s EXCEPT !.status = status, !.msl = status = "SS_TIME_WAIT"]

\* The socket of e becomes s. When it is released its windows, its timers and
\* what waits in queues for it go with it, as messages hold it weakly; a
\* thread in Close keeps it alive.
SetSocket(e, s) ==
    IF s.status \in {Absent, Dead}
    THEN /\ sk' = [sk EXCEPT ![e] = [NoSocket EXCEPT !.status = s.status, !.life = s.life]]
         /\ queued' = [queued EXCEPT ![e] = 0]
         /\ closer' = [closer EXCEPT ![e] = IF @ = "idle" THEN @ ELSE "stale"]
    ELSE /\ sk' = [sk EXCEPT ![e] = s]
         /\ UNCHANGED <<queued, closer>>

\* A reliable message leaves socket s: it takes the pended acks along.
Track(s, n) ==
    [s EXCEPT !.window = TRUE, !.armed = @ \cup {n}, !.pend = {}]

\* Spending one unit of a bound.
Spend(what) == budget[what] > 0 /\ budget' = [budget EXCEPT ![what] = @ - 1]
SpendOf(what, e) ==
    budget[what][e] > 0 /\ budget' = [budget EXCEPT ![what][e] = @ - 1]

NewNumber(e) == sent[e] + 1
CountSent(e, isFin) ==
    /\ sent' = [sent EXCEPT ![e] = @ + 1]
    /\ fins' = IF isFin THEN [fins EXCEPT ![e] = @ \cup {NewNumber(e)}] ELSE fins
-----------------------------------------------------------------------------
\* SendTo of a reliable orderly message, refused once closing has begun.
SendTo(e) ==
    /\ sk[e].status \in {Absent, "SS_CLOSE", "SS_READY"}
    /\ SpendOf("data", e)
    /\ sk' = [sk EXCEPT ![e] = Found(@)]
    /\ queued' = [queued EXCEPT ![e] = @ + 1]
    /\ UNCHANGED <<closer, handler, net, sent, fins, heard>>

\* The process thread takes it, and SendMessage sends it in any status.
SendData(e) ==
    /\ handler[e] = "idle"
    /\ queued[e] > 0
    /\ queued' = [queued EXCEPT ![e] = @ - 1]
    /\ sk' = [sk EXCEPT ![e] = Track(@, NewNumber(e))]
    /\ net' = net (+) SetToBag({Packet(Peer(e), "data", NewNumber(e), sk[e].pend)})
    /\ CountSent(e, FALSE)
    /\ UNCHANGED <<closer, handler, heard, budget>>

\* The check of SendFinMessage.
MaySendFin(e) == sk[e].status \in {"SS_READY", "SS_CLOSE_WIAT"}

\* The rest of it: the FIN goes out whatever the status has become.
SendFin(e, status) ==
    /\ sk' = [sk EXCEPT ![e] =
         Track([sk[e] EXCEPT !.status = StatusChange(@, status)], NewNumber(e))]
    /\ net' = net (+) SetToBag({Packet(Peer(e), "fin", NewNumber(e), sk[e].pend)})
    /\ CountSent(e, TRUE)

\* Close: CloseSocket, then SendFinMessage up to its check.
CloseCheck(e) ==
    /\ closer[e] = "idle"
    /\ SpendOf("closes", e)
    /\ closer' = [closer EXCEPT ![e] = IF MaySendFin(e) THEN "checked" ELSE "idle"]
    /\ UNCHANGED <<sk, queued, handler, net, sent, fins, heard>>

\* The argument of its StatusChange reads the status again.
CloseRead(e) ==
    /\ closer[e] = "checked"
    /\ closer' = [closer EXCEPT ![e] =
         IF sk[e].status = "SS_READY" THEN "SS_FIN_WAIT_1" ELSE "SS_LAST_ACK"]
    /\ UNCHANGED <<sk, queued, handler, net, sent, fins, heard, budget>>

CloseSend(e) ==
    /\ \/ closer[e] \in Statuses /\ SendFin(e, closer[e])
       \/ /\ closer[e] = "stale" /\ sk[e].status # Dead   \* the released socket sends
          /\ net' = net (+) SetToBag({Packet(Peer(e), "fin", NewNumber(e), {})})
          /\ CountSent(e, TRUE)
          /\ UNCHANGED sk
    /\ closer' = [closer EXCEPT ![e] = "idle"]
    /\ UNCHANGED <<queued, handler, heard, budget>>

\* CheckClose on HPF_FIN once it has read SS_READY: SS_CLOSE_WIAT, then
\* SendFinMessage, whose second look at the status never finds SS_READY.
BecomeCloseWait(e) ==
    /\ handler[e] = "got_fin"
    /\ sk' = [sk EXCEPT ![e].status = StatusChange(@, "SS_CLOSE_WIAT")]
    /\ handler' = [handler EXCEPT ![e] = "changed"]
    /\ UNCHANGED <<closer, queued, net, sent, fins, heard, budget>>

AnswerCheck(e) ==
    /\ handler[e] = "changed"
    /\ handler' = [handler EXCEPT ![e] = IF MaySendFin(e) THEN "checked" ELSE "idle"]
    /\ UNCHANGED <<sk, closer, queued, net, sent, fins, heard, budget>>

AnswerFin(e) ==
    /\ handler[e] = "checked"
    /\ SendFin(e, "SS_LAST_ACK")
    /\ handler' = [handler EXCEPT ![e] = "idle"]
    /\ UNCHANGED <<closer, queued, heard, budget>>
-----------------------------------------------------------------------------
\* RecvMsgFromNet and RecvMessage of packet p.
Arrives(p) == BagIn(p, net) /\ handler[p.to] = "idle" /\ sk[p.to].status # Dead

\* GetAckToSendWnd calls through the pointer of a window that may not exist.
Crashes(p) == p.acks # {} /\ ~ sk[p.to].window

\* The socket once it is open and has taken the acks.
Receiver(p) == AcceptAcks(Opened(Found(sk[p.to])), p.acks)

Consume(p, replies) == net' = (net (-) SetToBag({p})) (+) SetToBag(replies)

RecvCrash(p) ==
    /\ Arrives(p) /\ Crashes(p)
    /\ SetSocket(p.to, [Receiver(p) EXCEPT !.status = Dead])
    /\ Consume(p, {})
    /\ UNCHANGED <<handler, sent, fins, heard, budget>>

\* In TIME_WAIT anything is answered by a RST, another RST too.
RecvInTimeWait(p) ==
    /\ Arrives(p) /\ ~ Crashes(p)
    /\ sk[p.to].status = "SS_TIME_WAIT"
    /\ SetSocket(p.to, [Receiver(p) EXCEPT !.pend = {}])
    /\ Consume(p, {Packet(Peer(p.to), "rst", 0, sk[p.to].pend)})
    /\ UNCHANGED <<handler, sent, fins, heard, budget>>

Handled(p) == Arrives(p) /\ ~ Crashes(p) /\ sk[p.to].status # "SS_TIME_WAIT"

\* HEC_BREAK is reported and the socket released.
RecvRst(p) ==
    /\ p.type = "rst" /\ Handled(p)
    /\ SetSocket(p.to, [Receiver(p) EXCEPT !.status = Absent])
    /\ Consume(p, {})
    /\ UNCHANGED <<handler, sent, fins, heard, budget>>

RecvOnlyAck(p) ==
    /\ p.type = "ack" /\ Handled(p)
    /\ SetSocket(p.to, Receiver(p))
    /\ Consume(p, {})
    /\ UNCHANGED <<handler, sent, fins, heard, budget>>

\* AddToRecvList: the ack is pended, or goes out at once when the list finds
\* the message repeated, which it does not always.
Taken(s, n, quick) ==
    [s EXCEPT !.got = @ \cup {n}, !.pend = IF quick THEN @ ELSE @ \cup {n}]
QuickAck(e, n, quick) ==
    IF quick THEN {Packet(Peer(e), "ack", 0, {n})} ELSE {}
MayBeRepeat(p) == IF p.n \in sk[p.to].got THEN BOOLEAN ELSE {FALSE}

RecvData(p) ==
    /\ p.type = "data" /\ Handled(p)
    /\ \E quick \in MayBeRepeat(p) :
         /\ SetSocket(p.to, Taken(Receiver(p), p.n, quick))
         /\ Consume(p, QuickAck(p.to, p.n, quick))
    /\ UNCHANGED <<handler, sent, fins, heard, budget>>

\* The FIN is acted on when it arrives, not when its turn in the list comes.
RecvFin(p) ==
    /\ p.type = "fin" /\ Handled(p)
    /\ \E quick \in MayBeRepeat(p) :
         LET s == Taken(Receiver(p), p.n, quick)
         IN  /\ SetSocket(p.to, Moved([s EXCEPT !.pend = {}], OnFin(s.status)))
             /\ Consume(p, QuickAck(p.to, p.n, quick)
                             \cup {Packet(Peer(p.to), "fin_ack", 0, s.pend)})
             /\ handler' = [handler EXCEPT ![p.to] =
                  IF s.status = "SS_READY" THEN "got_fin" ELSE "idle"]
    /\ heard' = [heard EXCEPT ![Peer(p.to)] = @ \cup {p.n}]
    /\ UNCHANGED <<sent, fins, budget>>

RecvFinAck(p) ==
    /\ p.type = "fin_ack" /\ Handled(p)
    /\ SetSocket(p.to, Moved(Receiver(p), OnFinAck(Receiver(p).status)))
    /\ Consume(p, {})
    /\ UNCHANGED <<handler, sent, fins, heard, budget>>

Recv(p) ==
    \/ RecvCrash(p)
    \/ RecvInTimeWait(p)
    \/ RecvRst(p)
    \/ RecvOnlyAck(p)
    \/ RecvData(p)
    \/ RecvFin(p)
    \/ RecvFinAck(p)
-----------------------------------------------------------------------------
\* TimerOut of a reliable message: it goes out again, with the pended acks,
Resend(e, n) ==
    /\ n \in sk[e].armed
    /\ Spend("resends")
    /\ sk' = [sk EXCEPT ![e].armed = @ \ {n}, ![e].pend = {}]
    /\ net' = net (+) SetToBag({Packet(Peer(e), IF n \in fins[e] THEN "fin" ELSE "data",
                                       n, sk[e].pend)})
    /\ UNCHANGED <<closer, queued, handler, sent, fins, heard>>

\* or the user's callback, which is asked first, does not want it, or its timer was
\* erased with another of the same millisecond (Timer): nothing sends it again.
Drop(e, n) ==
    /\ n \in sk[e].armed
    /\ Spend("drops")
    /\ sk' = [sk EXCEPT ![e].armed = @ \ {n}]
    /\ UNCHANGED <<closer, queued, handler, net, sent, fins, heard>>

\* TimerOut of the pended acks.
AckTimer(e) ==
    /\ sk[e].pend # {}
    /\ sk' = [sk EXCEPT ![e].pend = {}]
    /\ net' = net (+) SetToBag({Packet(Peer(e), "ack", 0, sk[e].pend)})
    /\ UNCHANGED <<closer, queued, handler, sent, fins, heard, budget>>

\* 30 s are longer than any packet is under way, any other timer runs and any
\* thread is kept from its next step; only RSTs, which two ends in TIME_WAIT keep
\* answering each other with, may be left.
Quiet ==
    /\ \/ net = EmptyBag
       \/ /\ \A e \in End : sk[e].status = "SS_TIME_WAIT"
          /\ \A p \in BagToSet(net) : p.type = "rst"
    /\ \A e \in End :
         /\ handler[e] = "idle" /\ closer[e] = "idle" /\ queued[e] = 0
         /\ sk[e].pend = {} /\ sk[e].armed = {}

\* TimerOut of the message of Wait2MslClose: it releases the socket,
Close2Msl(e) ==
    /\ sk[e].status = "SS_TIME_WAIT" /\ sk[e].msl
    /\ Quiet
    /\ SetSocket(e, [sk[e] EXCEPT !.status = Absent])
    /\ UNCHANGED <<handler, net, sent, fins, heard, budget>>

\* unless the user, who is asked as if it were a resend, does not want it, or this
\* timer was erased with another one. Then the socket stays.
Drop2Msl(e) ==
    /\ sk[e].msl
    /\ Spend("drops")
    /\ sk' = [sk EXCEPT ![e].msl = FALSE]
    /\ UNCHANGED <<closer, queued, handler, net, sent, fins, heard>>

\* The network. Reordering is in the bag.
Lose(p) ==
    /\ BagIn(p, net)
    /\ Spend("faults")
    /\ Consume(p, {})
    /\ UNCHANGED <<sk, closer, queued, handler, sent, fins, heard>>
Copy(p) ==
    /\ BagIn(p, net)
    /\ Spend("faults")
    /\ net' = net (+) SetToBag({p})
    /\ UNCHANGED <<sk, closer, queued, handler, sent, fins, heard>>

Next ==
    \/ \E e \in End :
         \/ SendTo(e)
         \/ SendData(e)
         \/ CloseCheck(e)
         \/ CloseRead(e)
         \/ CloseSend(e)
         \/ BecomeCloseWait(e)
         \/ AnswerCheck(e)
         \/ AnswerFin(e)
         \/ \E n \in sk[e].armed : Resend(e, n) \/ Drop(e, n)
         \/ AckTimer(e)
         \/ Close2Msl(e)
         \/ Drop2Msl(e)
    \/ \E p \in BagToSet(net) : Recv(p) \/ Lose(p) \/ Copy(p)

Spec == Init /\ [][Next]_vars

\* The threads of both ends and the timers go on, and packets that are not lost
\* arrive. Nobody has to send, to close or to refuse.
Fairness ==
    /\ \A e \in End :
         /\ WF_vars(SendData(e))
         /\ WF_vars(CloseRead(e) \/ CloseSend(e))
         /\ WF_vars(BecomeCloseWait(e) \/ AnswerCheck(e) \/ AnswerFin(e))
         /\ WF_vars(AckTimer(e))
         /\ WF_vars(Close2Msl(e))
         /\ WF_vars(\E n \in sk[e].armed : Resend(e, n))
         /\ \A type \in Types :
              WF_vars(\E p \in BagToSet(net) : p.to = e /\ p.type = type /\ Recv(p))

FairSpec == Spec /\ Fairness
-----------------------------------------------------------------------------
TypeOK ==
    /\ \A e \in End :
         /\ sk[e].status \in Statuses \cup {Absent, Dead}
         /\ sk[e].window \in BOOLEAN /\ sk[e].msl \in BOOLEAN
         /\ sk[e].life \in Nat
         /\ sk[e].armed \subseteq 1 .. sent[e]
         /\ sk[e].pend \subseteq sk[e].got
         /\ sk[e].got \subseteq 1 .. sent[Peer(e)]
         /\ fins[e] \subseteq 1 .. sent[e]
    /\ closer \in [End -> {"idle", "checked", "SS_FIN_WAIT_1", "SS_LAST_ACK", "stale"}]
    /\ queued \in [End -> Nat]
    /\ handler \in [End -> {"idle", "got_fin", "changed", "checked"}]
    /\ IsABag(net)

Closing == {"SS_CLOSE_WIAT", "SS_LAST_ACK", "SS_CLOSING", "SS_TIME_WAIT"}

\* An end is in one of the states that follow a FIN of the other only when
\* this very socket has got one.
FinWasGot ==
    \A e \in End : sk[e].status \in Closing => sk[e].got \cap fins[Peer(e)] # {}

\* An end takes its FIN for answered only when some FIN of it has reached the
\* other end, though neither FIN_ACK nor RST says which FIN it answers.
HalfClosedIsKnown ==
    \A e \in End :
        sk[e].status \in {"SS_FIN_WAIT_2", "SS_TIME_WAIT"} => heard[e] # {}

\* Neither end has come back after it was released.
FirstConnection == \A e \in End : sk[e].life <= 1

\* In a connection's first life an end that takes its FIN for answered has a
\* peer that is released or has got a FIN of it, on every interleaving of two
\* Closes, repeated FINs and late acks.
PeerFollows ==
    FirstConnection =>
        \A e \in End :
            sk[e].status \in {"SS_FIN_WAIT_2", "SS_TIME_WAIT"} =>
                \/ sk[Peer(e)].status \in {Absent, Dead}
                \/ sk[Peer(e)].got \cap fins[e] # {}

\* Close ends with the socket released, though the network reorders packets and
\* loses or repeats MaxFaults of them, unless the user refuses a resend or the 2MSL
\* close, or one of their timers is erased with another; the connection is opened
\* anew by a late packet; or an end crashes.
CloseCompletes ==
    \A e \in End :
        sk[e].status = "SS_FIN_WAIT_1"
            ~> \/ sk[e].status = Absent
               \/ budget.drops < MaxDrops
               \/ ~ FirstConnection
               \/ sk[e].status = Dead \/ sk[Peer(e)].status = Dead
-----------------------------------------------------------------------------
\* A claim of the sources that the connection does not keep.

\* CommonFlag.h:54: an end that has sent its FIN and gets a FIN, not the FIN_ACK,
\* is in SS_CLOSING; it is not left in SS_FIN_WAIT_1.
FinMovesOn ==
    \A e \in End :
        sk[e].status = "SS_FIN_WAIT_1" /\ handler[e] = "idle"
            => sk[e].got \cap fins[Peer(e)] = {}
=============================================================================
