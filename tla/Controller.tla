----------------------------- MODULE Controller -----------------------------
(***************************************************************************)
(* What becomes of the two windows and of the pacing rate when acks come in  *)
(* (net/SocketImpl.cpp, GetAckToSendWnd and ControllerProcess): both classes *)
(* are governed by the one controller of Bbr. The window is handed over as 0   *)
(* where there is one, and the size acked is lost to a variable of the same    *)
(* name inside the loop, so it is 0 too. The constructor leaves the members of *)
(* the long-term sampling, and the pacing rate, as the memory happened to be.  *)
(* The clock of GetCurTimeStamp is read once, when it is first asked, and      *)
(* stands still from then on.                                                  *)
(***************************************************************************)
EXTENDS Bbr

CONSTANTS
    Garbage,  \* values the memory of an uninitialised integer may hold
    InitWnd,  \* __init_send_wnd_size, 6
    AckCounts, \* how many acks of a class a message carries, up to 43
    InFlight, \* values of _in_flight
    Now,      \* the one stamp that GetCurTimeStamp gives
    InitMdev, \* __init_mdev_max, 15
    InitRto,  \* __init_cur_rto, 150
    MaxHeard, \* bound: how many messages with acks arrive
    MaxLost   \* bound: resends between two messages with acks

ASSUME ControllerAssumption ==
    /\ Garbage \subseteq 0 .. Long - 1 /\ InitWnd \in 0 .. MaxSendWnd
    /\ AckCounts \subseteq Nat /\ InFlight \subseteq Nat
    /\ Now \in 0 .. Long - 1
    /\ {InitMdev, InitRto} \subseteq 0 .. Word - 1
    /\ MaxHeard \in Nat /\ MaxLost \in Nat

Classes == {"reliable_orderly", "reliable"}

VARIABLES
    bbr,     \* the control block
    wnd,     \* _send_wnd_size of each window
    pacing,  \* _pacing_rate
    lost,    \* _lost_msg
    rto,     \* the members of CRtoImpl
    born,    \* history: the control block as it was constructed, and the rate
    heard,   \* history: how many messages with acks have come
    carried  \* history: the acks of the last message with acks of the class

vars == <<bbr, wnd, pacing, lost, rto, born, heard, carried>>

\* What a word of the memory holds.
GarbageWord == {g % Word : g \in Garbage}

\* The block after bbr_init.
Blocks ==
    [minRtt : {0}, minRttStamp : {Now}, doneStamp : {0}, bw : {Reset([t |-> 0, v |-> 0])},
     rttCnt : {0}, nextRtt : {0}, cycleStamp : {0}, mode : {"startup"},
     roundStart : {FALSE}, idleRestart : {TRUE}, roundDone : {FALSE},
     ltSampling : BOOLEAN, ltRttCnt : {g % 128 : g \in Garbage}, ltUse : BOOLEAN,
     ltBw : Garbage, ltDelivered : GarbageWord, ltStamp : Garbage, ltLost : GarbageWord,
     pacingGain : {HighGain}, cwndGain : {HighGain}, fullReached : {FALSE},
     fullCnt : {0}, cycleIdx : {0}, seenRtt : {FALSE}, priorCwnd : {0}, fullBw : {0},
     wnd : {0}, pacing : GarbageWord]

Init ==
    /\ bbr \in Blocks
    /\ pacing = bbr.pacing
    /\ wnd = [k \in Classes |-> InitWnd]
    /\ lost = 0
    /\ rto = [srtt |-> 0, mdev |-> InitMdev, max |-> InitMdev, cur |-> InitRto]
    /\ born = bbr /\ heard = 0
    /\ carried = [k \in Classes |-> [c \in Classes |-> 0]]
-----------------------------------------------------------------------------
\* Faulty variants of the operators after them; only the mutation runs use them.
OwnWnd(k, s) == s.wnd[k]
NeverStamped == 0

\* What ControllerProcess hands over as the window of the class.
GivenWnd(k, s) == 0

\* What it hands over of the size that n acks free.
Delivered(n) == 0

\* An unsigned value read as a signed one.
Signed(x) == IF x < Word \div 2 THEN x ELSE x - Word

\* SetRttTime of common/Rto.cpp. The deviation is unsigned, so its correction is too.
SetRttTime(r, rtt) ==
    LET err  == Signed((rtt - r.srtt) % Word)
        abs  == IF err < 0 THEN 0 - err ELSE err
        srtt == IF r.srtt = 0 THEN rtt ELSE (r.srtt + (err \div 8)) % Word
        mdev == IF r.srtt = 0 THEN rtt \div 2
                ELSE (r.mdev + (((abs - r.mdev) % Word) \div 4)) % Word
        max  == Greater(mdev, r.max)
    IN  [srtt |-> srtt, mdev |-> mdev, max |-> max, cur |-> (srtt + 4 * max) % Word]

\* It is called for each of n acks.
SetRttTimes(r, rtt, n) ==
    LET after[i \in 0 .. n] == IF i = 0 THEN r ELSE SetRttTime(after[i - 1], rtt)
    IN  after[n]

\* The send time that the peer echoes: the stamp of this process, set before sending.
SendTime == Now

\* GetRtt: the time of sending less the time now.
Rtt == (SendTime - Now) % Word

\* ControllerProcess for n acks of the class, on a state s of the socket.
ControllerProcess(s, k, rtt, n, inflight) ==
    LET b == BbrMain([s.bbr EXCEPT !.wnd = GivenWnd(k, s), !.pacing = s.pacing],
                     [inflight |-> inflight, rtt |-> rtt, acked |-> n, now |-> Now,
                      delivered |-> Delivered(n), lost |-> s.lost, appLimit |-> FALSE])
    IN  IF n = 0 THEN s
        ELSE [bbr |-> b, wnd |-> [s.wnd EXCEPT ![k] = b.wnd], pacing |-> b.pacing, lost |-> 0]

\* GetAck of the message looks at its head and not at the class it is asked for:
\* of a message with acks of both it gives the orderly ones each time.
AcksRead(orderly, reliable) == IF orderly > 0 /\ reliable > 0 THEN orderly ELSE reliable

Socket == [bbr |-> bbr, wnd |-> wnd, pacing |-> pacing, lost |-> lost]
-----------------------------------------------------------------------------
\* A message arrives with acks of one class or of both. The round trip of the
\* reliable class is lost to a variable of the same name too.
GetAckToSendWnd(orderly, reliable, inflight) ==
    LET read   == AcksRead(orderly, reliable)
        rtt    == IF orderly = 0 THEN 0 ELSE Rtt
        first  == ControllerProcess(Socket, "reliable_orderly", rtt, orderly, inflight)
        second == ControllerProcess(first, "reliable", rtt, read, inflight)
        acks   == [k \in Classes |-> IF k = "reliable" THEN reliable ELSE orderly]
    IN  /\ orderly + reliable > 0 /\ heard < MaxHeard
        /\ heard' = heard + 1
        /\ bbr' = second.bbr /\ wnd' = second.wnd
        /\ pacing' = second.pacing /\ lost' = second.lost
        /\ rto' = SetRttTimes(rto, Rtt, orderly + read)
        /\ carried' = [k \in Classes |-> IF acks[k] = 0 THEN carried[k] ELSE acks]
        /\ UNCHANGED born

\* A resend timer goes off.
TimerOut ==
    /\ lost < MaxLost
    /\ lost' = lost + 1
    /\ UNCHANGED <<bbr, wnd, pacing, rto, born, heard, carried>>

Next ==
    \/ \E orderly, reliable \in AckCounts \cup {0}, inflight \in InFlight :
          GetAckToSendWnd(orderly, reliable, inflight)
    \/ TimerOut

Spec == Init /\ [][Next]_vars
-----------------------------------------------------------------------------
\* The members fit their bits.
TypeOK ==
    /\ bbr.mode \in Modes
    /\ {bbr.pacingGain, bbr.cwndGain} \subseteq 0 .. BbrUnit * 4 - 1
    /\ bbr.cycleIdx \in 0 .. CycleLen - 1 /\ bbr.fullCnt \in 0 .. 3
    /\ bbr.ltRttCnt \in 0 .. 127
    /\ {bbr.minRtt, MaxBw(bbr), bbr.rttCnt, bbr.priorCwnd, bbr.fullBw, pacing} \subseteq 0 .. Word - 1
    /\ {bbr.minRttStamp, bbr.doneStamp, bbr.ltBw, bbr.ltStamp} \subseteq 0 .. Long - 1
    /\ {rto.srtt, rto.mdev, rto.max, rto.cur} \subseteq 0 .. Word - 1
    /\ wnd \in [Classes -> 0 .. MaxSendWnd] /\ lost \in 0 .. MaxLost
    /\ heard \in 0 .. MaxHeard

\* A window remembers nothing: however many acks came before, it is what the last
\* message with acks of its class carried, and never below four. So it does not
\* grow with the path, and a single ack brings it to four. The reliable window
\* follows the acks of the other class when they came together. What the memory
\* held has no say in it.
WindowForgets ==
    \A k \in Classes :
        LET own == carried[k][k]
            n   == IF carried[k]["reliable_orderly"] > 0 THEN carried[k]["reliable_orderly"] ELSE own
        IN  wnd[k] = IF own = 0 THEN InitWnd ELSE Lesser(Greater(n, MinWnd), MaxSendWnd)

\* The controller learns nothing: whatever acks, losses and bytes in flight it is
\* told of, no member of its block changes. So the pacing rate stays what the memory
\* of the block happened to hold, or becomes that of the long-term bandwidth there,
\* when the memory said that it is in use and it is the faster of the two.
LearnsNothing ==
    /\ [bbr EXCEPT !.wnd = born.wnd, !.pacing = born.pacing] = born
    /\ \/ pacing = born.pacing
       \/ /\ born.ltUse
          /\ pacing = PacingRate(born.ltBw % Word, HighGain) /\ pacing > born.pacing

\* The timeout knows nothing of the path: every round trip is 0, so the first ack of
\* all takes it from its first value to four times the first deviation, 60 for 150
\* with the constants of the code, and there it stays however long the path is.
TimeoutIsBlind ==
    /\ rto.srtt = 0 /\ rto.max = InitMdev
    /\ rto.cur = IF heard = 0 THEN InitRto ELSE (4 * InitMdev) % Word
=============================================================================
