-------------------------- MODULE ControllerProofs --------------------------
(***************************************************************************)
(* Proofs about Controller: what its windows, its pacing rate and its        *)
(* timeout become, for any numbers of acks and any contents of memory.       *)
(***************************************************************************)
EXTENDS Controller, FiniteLemmas, TLAPS

-----------------------------------------------------------------------------
(* The control block sleeps: most of its members are what bbr_init makes     *)
(* them, for ever.                                                           *)

Num == 0 .. Word - 1
Big == 0 .. Long - 1

Idle == Reset([t |-> 0, v |-> 0])

Sleeping ==
    [minRtt : {0}, minRttStamp : {Now}, doneStamp : {0}, bw : {Idle},
     rttCnt : {0}, nextRtt : {0}, cycleStamp : {0}, mode : {"startup"},
     roundStart : {FALSE}, idleRestart : {TRUE}, roundDone : {FALSE},
     ltSampling : BOOLEAN, ltRttCnt : 0 .. 127, ltUse : BOOLEAN,
     ltBw : Big, ltDelivered : Num, ltStamp : Big, ltLost : Num,
     pacingGain : {HighGain}, cwndGain : {HighGain}, fullReached : {FALSE},
     fullCnt : {0}, cycleIdx : {0}, seenRtt : {FALSE}, priorCwnd : {0}, fullBw : {0},
     wnd : 0 .. MaxSendWnd, pacing : Num]

\* What ControllerProcess calls bbr_main with.
Call == [inflight : Nat, rtt : {0}, acked : Nat, now : {Now}, delivered : {0}, lost : Nat,
         appLimit : {FALSE}]

\* The block b with another window and another rate.
Set(b, w, p) == [b EXCEPT !.wnd = w, !.pacing = p]

\* Words and longs.
LEMMA Words ==
    /\ Word \in Nat /\ Word > 4 /\ Long \in Nat /\ Word <= Long /\ 0 \in Num /\ 0 \in Big
    /\ Num \subseteq Big /\ Num \subseteq Nat /\ Big \subseteq Nat
    /\ \A x \in Nat : (x \in Num <=> x <= Word - 1) /\ (x \in Big <=> x <= Long - 1)
<1>1. Word \in Nat /\ Word > 4
  BY BbrAssumption
<1>2. Long \in Nat /\ Word <= Long
  BY <1>1 DEF Long
<1>3. QED
  BY <1>1, <1>2 DEF Num, Big

\* Remainders are words and longs.
LEMMA Remains == ASSUME NEW x \in Int PROVE x % Word \in Num /\ x % Long \in Big
<1>1. Word \in Nat \ {0} /\ Long \in Nat \ {0}
  BY Words
<1>2. QED
  BY <1>1, DivMod DEF Num, Big

\* A quotient is no more than what is divided.
LEMMA Quotient ==
    ASSUME NEW x \in Nat, NEW m \in Nat \ {0}
    PROVE  x \div m \in Nat /\ x \div m <= x
OBVIOUS

\* Every round trip is 0.
LEMMA RttIs == Rtt = 0
<1>1. Now \in Int /\ Word \in Nat \ {0} /\ Now - Now = 0
  BY ControllerAssumption, Words DEF Big
<1>2. 0 = 0 * Word + 0 /\ 0 \in 0 .. Word - 1
  BY <1>1
<1>3. 0 % Word = 0
  BY <1>1
<1>4. QED
  BY <1>1, <1>3 DEF Rtt, SendTime

\* What a block that sleeps has for members.
LEMMA Members ==
    ASSUME NEW b \in Sleeping
    PROVE  /\ b.minRtt = 0 /\ b.minRttStamp = Now /\ b.bw = Idle
           /\ b.rttCnt = 0 /\ b.mode = "startup" /\ b.roundStart = FALSE /\ b.idleRestart = TRUE
           /\ b.ltRttCnt \in 0 .. 127 /\ b.ltUse \in BOOLEAN
           /\ b.ltBw \in Big /\ b.ltStamp \in Big
           /\ b.pacingGain = HighGain /\ b.cwndGain = HighGain
           /\ b.fullReached = FALSE /\ b.seenRtt = FALSE /\ b.doneStamp = 0
           /\ b.fullCnt = 0 /\ b.cycleIdx = 0 /\ b.priorCwnd = 0 /\ b.fullBw = 0
           /\ b.wnd \in 0 .. MaxSendWnd /\ b.pacing \in Num
BY Zenon DEF Sleeping

\* The same of a call.
LEMMA CallIs ==
    ASSUME NEW c \in Call
    PROVE  /\ c.rtt = 0 /\ c.acked \in Nat /\ c.now = Now
           /\ c.delivered = 0 /\ c.appLimit = FALSE
BY Zenon DEF Call

\* Another window and another rate leave a block asleep.
LEMMA SetIs ==
    ASSUME NEW b \in Sleeping, NEW w \in 0 .. MaxSendWnd, NEW p \in Num
    PROVE  /\ Set(b, w, p) \in Sleeping /\ Set(b, w, p).wnd = w /\ Set(b, w, p).pacing = p
           /\ Set(b, w, p).ltUse = b.ltUse /\ Set(b, w, p).ltBw = b.ltBw
BY Zenon DEF Sleeping, Set

\* Only the last ones count.
LEMMA SetAgain ==
    ASSUME NEW b \in Sleeping, NEW w, NEW p, NEW v, NEW q
    PROVE  Set(Set(b, w, p), v, q) = Set(b, v, q) /\ Set(b, b.wnd, b.pacing) = b
BY DEF Sleeping, Set

\* The largest rate of a block that sleeps.
LEMMA NoRate == ASSUME NEW b \in Sleeping PROVE MaxBw(b) = 0
<1>1. b.bw = Idle
  BY Members
<1>2. Idle[1].v = 0
  BY DEF Idle, Reset
<1>3. QED
  BY <1>1, <1>2 DEF MaxBw
-----------------------------------------------------------------------------
(* A call.                                                                   *)

\* Writing what is there changes nothing.
LEMMA RoundRests ==
    ASSUME NEW b \in Sleeping, b.roundStart = FALSE PROVE [b EXCEPT !.roundStart = FALSE] = b
BY DEF Sleeping

\* The same of the smallest round trip,
LEMMA StampRests ==
    ASSUME NEW b \in Sleeping, b.minRtt = 0, b.minRttStamp = Now
    PROVE  [b EXCEPT !.minRtt = 0, !.minRttStamp = Now] = b
BY DEF Sleeping

\* and of what says that nothing was delivered yet.
LEMMA RestartRests ==
    ASSUME NEW b \in Sleeping, b.idleRestart = TRUE PROVE [b EXCEPT !.idleRestart = TRUE] = b
BY DEF Sleeping

\* The models of the path change no member of a block that sleeps: no round trip is
\* above 0, so no round begins and nothing is sampled.
LEMMA ModelRests ==
    ASSUME NEW b \in Sleeping, NEW c \in Call
    PROVE  UpdateModel(b, c) = b
<1>1. /\ b.minRtt = 0 /\ b.minRttStamp = Now /\ b.mode = "startup" /\ b.roundStart = FALSE
      /\ b.idleRestart = TRUE /\ b.fullReached = FALSE
      /\ c.rtt = 0 /\ c.now = Now /\ c.delivered = 0
  BY Members, CallIs
<1>2. UpdateBw(b, c) = b
  <2>1. [b EXCEPT !.roundStart = FALSE] = b
    BY <1>1, RoundRests
  <2>2. ~ RoundPassed(b)
    <3>1. b.rttCnt = 0 /\ RoundLimit \in Nat
      BY Members, BbrAssumption
    <3>2. QED
      BY <3>1 DEF RoundPassed
  <2>3. QED
    BY <1>1, <2>1, <2>2 DEF UpdateBw
<1>3. UpdateCyclePhase(b, c) = b /\ CheckFull(b, c) = b /\ CheckDrain(b, c) = b
  BY <1>1 DEF UpdateCyclePhase, CheckFull, CheckDrain
<1>4. UpdateMinRtt(b, c) = b
  <2>1. [b EXCEPT !.minRtt = 0, !.minRttStamp = Now] = b
    BY <1>1, StampRests
  <2>2. InProbeRtt(b, c) = b
    BY <1>1 DEF InProbeRtt
  <2>3. UpdateMinRtt(b, c) = [b EXCEPT !.idleRestart = (@ /\ c.delivered = 0)]
    BY <1>1, <2>1, <2>2 DEF UpdateMinRtt
  <2>4. (b.idleRestart /\ c.delivered = 0) = TRUE
    BY <1>1
  <2>5. UpdateMinRtt(b, c) = [b EXCEPT !.idleRestart = TRUE]
    BY <2>3, <2>4
  <2>6. QED
    BY <1>1, <2>5, RestartRests
<1>5. QED
  BY <1>2, <1>3, <1>4 DEF UpdateModel

\* Rates are numbers, and that of nothing is 0.
LEMMA RateIs ==
    ASSUME NEW rate \in Nat, NEW gain \in Nat
    PROVE  PacingRate(rate, gain) \in Num /\ PacingRate(0, gain) = 0
<1> DEFINE one(r) == (((r * Mss * gain) % Long) \div BbrUnit) * Usec * Usec
<1>0. /\ Mss \in Nat /\ BbrUnit \in Nat \ {0} /\ Usec \in Nat /\ BwUnit \in Nat \ {0}
      /\ Long \in Nat \ {0}
  BY BbrAssumption, Words
<1>1. ASSUME NEW r \in Nat PROVE RateBytes(r, gain) \in Nat
  <2>1. r * Mss * gain \in Int
    BY <1>0
  <2>2. PICK x \in Nat : x = (r * Mss * gain) % Long
    BY <2>1, Remains, Words
  <2>3. PICK y \in Nat : y = x \div BbrUnit
    BY <1>0, Quotient
  <2>4. y * Usec * Usec \in Int
    BY <1>0
  <2>5. PICK z \in Nat : z = (y * Usec * Usec) % Long
    BY <2>4, Remains, Words
  <2>6. z \div BwUnit \in Nat
    BY <1>0, Quotient
  <2>7. RateBytes(r, gain) = z \div BwUnit
    BY <2>2, <2>3, <2>5 DEF RateBytes
  <2>8. QED
    BY <2>6, <2>7
<1>2. RateBytes(0, gain) = 0
  <2>1. 0 * Mss * gain = 0
    BY <1>0
  <2>2. 0 % Long = 0
    BY <1>0
  <2>3. 0 \div BbrUnit = 0 /\ 0 \div BwUnit = 0 /\ 0 * Usec * Usec = 0
    BY <1>0
  <2>4. QED
    BY <2>1, <2>2, <2>3 DEF RateBytes
<1>3. QED
  <2>1. RateBytes(rate, gain) \in Nat /\ Word - 1 \in Nat /\ Word \in Nat
    BY <1>1, Words
  <2>2. QED
    BY <1>2, <2>1 DEF PacingRate, Lesser, Num

\* What the memory of a block may make of the pacing rate.
Rated(b, p) ==
    \/ p = b.pacing
    \/ b.ltUse /\ p = PacingRate(b.ltBw % Word, HighGain) /\ p > b.pacing

\* The pacing rate becomes that of the long-term bandwidth, where one is in use and it
\* is larger.
LEMMA RateRests ==
    ASSUME NEW a \in Sleeping, NEW b \in Sleeping, NEW c \in Call,
           b.ltUse = a.ltUse, b.ltBw = a.ltBw, Rated(a, b.pacing)
    PROVE  \E p \in Num : SetPacingRate(b, c) = [b EXCEPT !.pacing = p] /\ Rated(a, p)
<1>1. /\ b.seenRtt = FALSE /\ b.fullReached = FALSE /\ b.pacing \in Nat /\ a.pacing \in Nat
      /\ b.pacing \in Num /\ b.pacingGain = HighGain
  BY Members, Words
<1>2. HighGain \in Nat
  BY BbrAssumption DEF HighGain
<1>3. b.ltBw % Word \in Nat
  <2>1. b.ltBw \in Nat
    BY Members, Words, Zenon
  <2>2. b.ltBw \in Int
    BY <2>1
  <2>3. QED
    BY <2>2, Remains, Words
<1>4. Bw(b) = IF b.ltUse THEN b.ltBw % Word ELSE 0
  BY NoRate DEF Bw
<1>5. PICK rate \in Num : rate = PacingRate(Bw(b), HighGain) /\ (~ b.ltUse => rate = 0)
  BY <1>2, <1>3, <1>4, RateIs
<1>6. rate \in Nat
  BY Words
<1> DEFINE p == IF rate > b.pacing THEN rate ELSE b.pacing
<1>7. SetPacingRate(b, c) = [b EXCEPT !.pacing = p]
  BY <1>1, <1>5 DEF SetPacingRate, Raises
<1>8. p \in Num
  BY <1>1
<1>9. Rated(a, p)
  <2>1. CASE rate > b.pacing
    <3>1. b.ltUse /\ rate = PacingRate(a.ltBw % Word, HighGain)
      BY <1>1, <1>4, <1>5, <1>6, <2>1
    <3>2. b.pacing >= a.pacing
      BY <1>1 DEF Rated
    <3>3. rate > a.pacing
      BY <1>1, <1>6, <2>1, <3>2
    <3>4. QED
      BY <2>1, <3>1, <3>3 DEF Rated
  <2>2. CASE ~ (rate > b.pacing)
    BY <2>2
  <2>3. QED
    BY <2>1, <2>2
<1> HIDE DEF p
<1>10. QED
  BY <1>7, <1>8, <1>9

\* The segments counted with a target are few, in any word.
LEMMA FewSegs ==
    ASSUME NEW p \in Num
    PROVE  TsoSegs(p) \in 1 .. 127 /\ 3 * TsoSegs(p) + 1 < Word
<1>1. p \in Nat /\ p < Word /\ Word \in Nat /\ Word > 4
  BY Words DEF Num
<1>2. PICK x \in Nat : x = p \div 1024 /\ 1024 * x <= p
  BY <1>1
<1>3. PICK q \in Nat : q = x \div Mss /\ q <= x
  BY BbrAssumption, Quotient
<1>4. TsoSegs(p) = Lesser(Greater(q, IF p < 150000 THEN 1 ELSE 2), 127)
  BY <1>2, <1>3 DEF TsoSegs
<1>5. QED
  BY <1>1, <1>2, <1>3, <1>4 DEF Lesser, Greater

\* The target is that of an empty path, and not 0.
LEMMA TargetIs ==
    ASSUME NEW b \in Sleeping
    PROVE  TargetCwnd(b, Bw(b), b.pacingGain) \in Nat \ {0}
<1>1. b.mode = "startup" /\ b.minRtt = 0 /\ b.pacing \in Num /\ b.pacingGain = HighGain
  BY Members
<1>2. PICK rate \in Nat : rate = Bw(b)
  <2>1. b.ltBw \in Nat
    BY Members, Words, Zenon
  <2>2. b.ltBw \in Int
    BY <2>1
  <2>3. b.ltBw % Word \in Nat
    BY <2>2, Remains, Words
  <2>4. QED
    BY <2>3, NoRate DEF Bw
<1>3. PICK t \in 1 .. 127 : t = TsoSegs(b.pacing) /\ 3 * t + 1 < Word
  BY <1>1, FewSegs
<1>4. ((rate * 0 * HighGain) % Long) \div BbrUnit = 0
  <2>1. rate * 0 * HighGain = 0
    BY BbrAssumption DEF HighGain
  <2>2. 0 % Long = 0 /\ 0 \div BbrUnit = 0
    BY Words, BbrAssumption
  <2>3. QED
    BY <2>1, <2>2
<1>5. ((0 + BwUnit) - 1) \div BwUnit = 0
  <2>1. BwUnit \in Nat \ {0}
    BY BbrAssumption
  <2>2. QED
    BY <2>1
<1> DEFINE even == (3 * t + 1) - ((3 * t + 1) % 2)
<1>6. even \in 3 .. 3 * t + 1
  OBVIOUS
<1>7. even % Word = even
  <2>1. even \in 0 .. Word - 1 /\ Word \in Nat \ {0}
    BY <1>3, <1>6, Words
  <2> HIDE DEF even
  <2>2. QED
    BY <2>1
<1>8. TargetCwnd(b, Bw(b), b.pacingGain) \in {10, (even + 0) % Word}
  <2>1. 0 + 3 * t = 3 * t
    OBVIOUS
  <2>2. QED
    BY <1>1, <1>2, <1>3, <1>4, <1>5, <2>1 DEF TargetCwnd
<1> HIDE DEF even
<1>9. QED
  BY <1>6, <1>7, <1>8

\* The window that n acks open.
Opened(n) == Lesser(Greater(n, MinWnd), MaxSendWnd)

\* The window, handed over as 0, becomes what was acked, and at least four.
LEMMA CwndIs ==
    ASSUME NEW b \in Sleeping, b.wnd = 0, NEW c \in Call, c.acked # 0
    PROVE  /\ SetCwnd(b, c) = [b EXCEPT !.wnd = Opened(c.acked)]
           /\ Opened(c.acked) \in 0 .. MaxSendWnd
<1>1. c.acked \in Nat \ {0} /\ b.mode = "startup" /\ b.fullReached = FALSE
  BY Members, CallIs
<1>2. PICK target \in Nat \ {0} : target = TargetCwnd(b, Bw(b), b.pacingGain)
  BY TargetIs
<1>3. 0 < target /\ 0 + c.acked = c.acked
  BY <1>1
<1>4. MaxSendWnd \in Nat /\ 4 <= MaxSendWnd
  BY BbrAssumption
<1>5. QED
  BY <1>1, <1>2, <1>3, <1>4 DEF SetCwnd, Opened, Lesser, Greater, MinWnd

\* bbr_main changes the window and the rate, and nothing else.
LEMMA MainIs ==
    ASSUME NEW a \in Sleeping, NEW b \in Sleeping, NEW c \in Call, b.wnd = 0, c.acked # 0,
           b.ltUse = a.ltUse, b.ltBw = a.ltBw, Rated(a, b.pacing)
    PROVE  \E p \in Num : BbrMain(b, c) = Set(b, Opened(c.acked), p) /\ Rated(a, p)
<1>1. UpdateModel(b, c) = b
  BY ModelRests
<1>2. PICK p \in Num : SetPacingRate(b, c) = [b EXCEPT !.pacing = p] /\ Rated(a, p)
  BY RateRests
<1>3. PICK r \in Sleeping : r = [b EXCEPT !.pacing = p] /\ r.wnd = 0
  <2>1. Set(b, b.wnd, p) \in Sleeping /\ Set(b, b.wnd, p).wnd = b.wnd
    BY Members, SetIs
  <2>2. Set(b, b.wnd, p) = [b EXCEPT !.pacing = p]
    BY DEF Set, Sleeping
  <2>3. QED
    BY <2>1, <2>2
<1>4. SetCwnd(r, c) = [r EXCEPT !.wnd = Opened(c.acked)]
  BY <1>3, CwndIs
<1>5. BbrMain(b, c) = [r EXCEPT !.wnd = Opened(c.acked)]
  BY <1>1, <1>2, <1>3, <1>4 DEF BbrMain
<1>6. [r EXCEPT !.wnd = Opened(c.acked)] = Set(b, Opened(c.acked), p)
  BY <1>3 DEF Set, Sleeping
<1>7. QED
  BY <1>2, <1>5, <1>6
-----------------------------------------------------------------------------
(* The socket.                                                               *)

\* The socket, whose block began as a.
Calm(s, a) ==
    /\ s.bbr \in Sleeping /\ s.wnd \in [Classes -> 0 .. MaxSendWnd] /\ s.pacing \in Num
    /\ s.lost \in 0 .. MaxLost
    /\ Set(s.bbr, a.wnd, a.pacing) = a /\ Rated(a, s.pacing)

\* What the acks of one class make of the socket.
LEMMA ProcessIs ==
    ASSUME NEW a \in Sleeping, NEW s, Calm(s, a), NEW k \in Classes, NEW n \in Nat,
           NEW inflight \in Nat
    PROVE  LET d == ControllerProcess(s, k, 0, n, inflight)
           IN  /\ Calm(d, a)
               /\ d.wnd = IF n = 0 THEN s.wnd ELSE [s.wnd EXCEPT ![k] = Opened(n)]
<1>0. /\ s.bbr \in Sleeping /\ s.pacing \in Num /\ MaxLost \in Nat /\ s.lost \in Nat
      /\ 0 \in 0 .. MaxSendWnd
  BY ControllerAssumption, BbrAssumption DEF Calm
<1>1. CASE n = 0
  BY <1>1 DEF ControllerProcess
<1>2. CASE n # 0
  <2> DEFINE c == [inflight |-> inflight, rtt |-> 0, acked |-> n, now |-> Now,
                   delivered |-> 0, lost |-> s.lost, appLimit |-> FALSE]
  <2>1. c \in Call /\ c.acked = n
    BY <1>0 DEF Call
  <2>2. PICK b \in Sleeping : /\ b = Set(s.bbr, 0, s.pacing) /\ b.wnd = 0
                              /\ b.pacing = s.pacing
                              /\ b.ltUse = s.bbr.ltUse /\ b.ltBw = s.bbr.ltBw
    BY <1>0, SetIs
  <2>3. ControllerProcess(s, k, 0, n, inflight) =
          [bbr |-> BbrMain(b, c), wnd |-> [s.wnd EXCEPT ![k] = BbrMain(b, c).wnd],
           pacing |-> BbrMain(b, c).pacing, lost |-> 0]
    BY <1>2, <2>2 DEF ControllerProcess, GivenWnd, Delivered, Set
  <2> HIDE DEF c
  <2>4. s.bbr.ltUse = a.ltUse /\ s.bbr.ltBw = a.ltBw
    <3>1. Set(s.bbr, a.wnd, a.pacing) = a /\ a.wnd \in 0 .. MaxSendWnd /\ a.pacing \in Num
      BY Members DEF Calm
    <3>2. QED
      BY <1>0, <3>1, SetIs
  <2>5. PICK p \in Num : BbrMain(b, c) = Set(b, Opened(n), p) /\ Rated(a, p)
    BY <1>2, <2>1, <2>2, <2>4, MainIs DEF Calm
  <2>6. Opened(n) \in 0 .. MaxSendWnd
    BY BbrAssumption DEF Opened, Lesser, Greater, MinWnd
  <2>7. PICK d \in Sleeping : /\ d = BbrMain(b, c) /\ d.wnd = Opened(n) /\ d.pacing = p
                              /\ d = Set(s.bbr, Opened(n), p)
    BY <1>0, <2>2, <2>5, <2>6, SetIs, SetAgain
  <2>8. Set(d, a.wnd, a.pacing) = a
    BY <1>0, <2>7, SetAgain DEF Calm
  <2>9. PICK e : /\ e = ControllerProcess(s, k, 0, n, inflight)
                 /\ e.bbr = d /\ e.wnd = [s.wnd EXCEPT ![k] = Opened(n)] /\ e.pacing = p
                 /\ e.lost = 0
    BY <2>3, <2>7
  <2>10. Calm(e, a)
    BY <1>0, <2>5, <2>6, <2>8, <2>9 DEF Calm
  <2>11. QED
    BY <1>2, <2>9, <2>10
<1>3. QED
  BY <1>1, <1>2
-----------------------------------------------------------------------------
(* Round trips.                                                              *)

\* The timeout before the first ack, and after it.
First == [srtt |-> 0, mdev |-> InitMdev, max |-> InitMdev, cur |-> InitRto]
Later == [srtt |-> 0, mdev |-> 0, max |-> InitMdev, cur |-> (4 * InitMdev) % Word]

\* A round trip of 0 makes the one of the other.
LEMMA TimeIs == ASSUME NEW r \in {First, Later} PROVE SetRttTime(r, 0) = Later
<1>1. r.srtt = 0 /\ r.max = InitMdev /\ InitMdev \in Nat /\ 0 \div 2 = 0
  BY ControllerAssumption, Words DEF First, Later
<1>2. Greater(0, InitMdev) = InitMdev /\ 0 + 4 * InitMdev = 4 * InitMdev
  BY <1>1 DEF Greater
<1>3. QED
  BY <1>1, <1>2 DEF SetRttTime, Later

\* What every round trip preserves, any number of them does, and the last of them
\* decides.
LEMMA Repeated ==
    ASSUME NEW G, NEW r \in G, NEW rtt, \A x \in G : SetRttTime(x, rtt) \in G, NEW n \in Nat
    PROVE  /\ SetRttTimes(r, rtt, n) \in G
           /\ n # 0 => \E x \in G : SetRttTimes(r, rtt, n) = SetRttTime(x, rtt)
<1> DEFINE body(f, m) == [i \in 0 .. m |-> IF i = 0 THEN r ELSE SetRttTime(f[i - 1], rtt)]
           Reached    == {m \in Nat : \E f \in [0 .. m -> G] : f = body(f, m)}
           after      == CHOOSE f : f = body(f, n)
           Kept       == {i \in Nat : i <= n => after[i] \in G}
<1>1. Nat \subseteq Reached
  <2>1. 0 \in Reached
    <3> DEFINE f == [i \in 0 .. 0 |-> r]
    <3>1. f \in [0 .. 0 -> G] /\ f = body(f, 0)
      OBVIOUS
    <3> HIDE DEF f
    <3>2. QED
      BY <3>1
  <2>2. ASSUME NEW m \in Nat, m \in Reached PROVE m + 1 \in Reached
    <3>1. PICK f \in [0 .. m -> G] : f = body(f, m)
      BY <2>2
    <3> DEFINE g == [i \in 0 .. m + 1 |-> IF i = m + 1 THEN SetRttTime(f[m], rtt) ELSE f[i]]
    <3>2. g \in [0 .. m + 1 -> G]
      <4>1. ASSUME NEW i \in 0 .. m + 1 PROVE g[i] \in G
        <5>1. CASE i = m + 1
          BY <5>1
        <5>2. CASE i # m + 1
          BY <5>2
        <5>3. QED
          BY <5>1, <5>2
      <4>2. QED
        BY <4>1
    <3>3. ASSUME NEW i \in 0 .. m + 1 PROVE g[i] = body(g, m + 1)[i]
      <4>1. CASE i = 0
        <5>1. f[0] = body(f, m)[0]
          BY <3>1
        <5>2. f[0] = r
          BY <5>1
        <5>3. QED
          BY <4>1, <5>2
      <4>2. CASE i = m + 1
        BY <4>2
      <4>3. CASE i # 0 /\ i # m + 1
        <5>1. i \in 0 .. m /\ i - 1 \in 0 .. m /\ i - 1 # m + 1
          BY <4>3
        <5>2. f[i] = body(f, m)[i]
          BY <3>1
        <5>3. f[i] = SetRttTime(f[i - 1], rtt)
          BY <4>3, <5>1, <5>2
        <5>4. QED
          BY <4>3, <5>1, <5>3
      <4>4. QED
        BY <4>1, <4>2, <4>3
    <3>4. g = body(g, m + 1)
      BY <3>2, <3>3
    <3> HIDE DEF g, body
    <3>5. QED
      BY <3>2, <3>4
  <2> HIDE DEF Reached
  <2>3. QED
    BY <2>1, <2>2, AllNumbers
<1>2. after = body(after, n)
  <2>1. \E f : f = body(f, n)
    BY <1>1
  <2> HIDE DEF body
  <2>2. QED
    BY <2>1
<1>3. SetRttTimes(r, rtt, n) = after[n]
  BY DEF SetRttTimes
<1> HIDE DEF after
<1>4. Nat \subseteq Kept
  <2>1. ASSUME NEW i \in 0 .. n
        PROVE  after[i] = IF i = 0 THEN r ELSE SetRttTime(after[i - 1], rtt)
    BY <1>2
  <2>2. 0 \in Kept
    BY <2>1
  <2>3. ASSUME NEW i \in Nat, i \in Kept PROVE i + 1 \in Kept
    <3>1. CASE i + 1 <= n
      <4>1. after[i] \in G
        BY <2>3, <3>1
      <4>2. after[i + 1] = SetRttTime(after[i], rtt)
        <5>1. i + 1 \in 0 .. n /\ (i + 1) - 1 = i /\ i + 1 # 0
          BY <3>1
        <5>2. QED
          BY <2>1, <5>1
      <4>3. QED
        BY <4>1, <4>2
    <3>2. CASE ~ (i + 1 <= n)
      BY <3>2
    <3>3. QED
      BY <3>1, <3>2
  <2> HIDE DEF Kept
  <2>4. QED
    BY <2>2, <2>3, AllNumbers
<1>5. n # 0 => n - 1 \in Nat /\ n - 1 <= n /\ after[n] = SetRttTime(after[n - 1], rtt)
  BY <1>2
<1>6. n # 0 => after[n - 1] \in G
  BY <1>4, <1>5
<1>7. QED
  BY <1>3, <1>4, <1>5, <1>6

-----------------------------------------------------------------------------
(* The controller.                                                           *)

Counts ==
    /\ heard \in 0 .. MaxHeard /\ rto = IF heard = 0 THEN First ELSE Later
    /\ carried \in [Classes -> [Classes -> Nat]]

IInv == born \in Sleeping /\ Calm(Socket, born) /\ Counts /\ WindowForgets

\* The members of the socket.
LEMMA SocketIs ==
    Socket.bbr = bbr /\ Socket.wnd = wnd /\ Socket.pacing = pacing /\ Socket.lost = lost
BY DEF Socket

\* A block that was constructed sleeps.
LEMMA BlocksSleep == Blocks \subseteq Sleeping
<1>1. ASSUME NEW g \in Garbage PROVE g \in Big /\ g % 128 \in 0 .. 127 /\ g % Word \in Num
  <2>1. g \in Big
    BY ControllerAssumption DEF Big
  <2>2. g \in Int
    BY <2>1 DEF Big
  <2>3. QED
    BY <2>1, <2>2, Remains
<1>2. /\ Garbage \subseteq Big /\ GarbageWord \subseteq Num
      /\ {g % 128 : g \in Garbage} \subseteq 0 .. 127
  BY <1>1 DEF GarbageWord
<1>3. 0 \in 0 .. MaxSendWnd
  BY BbrAssumption
<1> DEFINE narrow == {g % 128 : g \in Garbage}
<1>4. ASSUME NEW b \in Blocks PROVE b \in Sleeping
  <2>1. narrow \subseteq 0 .. 127
    BY <1>2
  <2> HIDE DEF narrow
  <2>2. QED
    BY <1>2, <1>3, <2>1, Zenon DEF Blocks, Sleeping, Idle, narrow
<1>5. QED
  BY <1>4

\* A socket begins so.
LEMMA InitIs == Init => IInv
<1> SUFFICES ASSUME Init PROVE IInv
  OBVIOUS
<1>1. bbr \in Sleeping /\ pacing = bbr.pacing /\ born = bbr
  BY BlocksSleep, Zenon DEF Init
<1>2. pacing \in Num
  BY <1>1, Members
<1>3. Calm(Socket, born)
  <2>1. wnd \in [Classes -> 0 .. MaxSendWnd] /\ lost \in 0 .. MaxLost
    BY ControllerAssumption DEF Init
  <2>2. Set(bbr, born.wnd, born.pacing) = born
    BY <1>1, SetAgain
  <2>3. QED
    BY <1>1, <1>2, <2>1, <2>2, SocketIs DEF Calm, Rated
<1>4. Counts
  BY ControllerAssumption DEF Init, Counts, First
<1>5. WindowForgets
  BY DEF Init, WindowForgets
<1>6. QED
  BY <1>1, <1>3, <1>4, <1>5 DEF IInv

\* A message with acks: the two classes after one another.
LEMMA AckIs ==
    ASSUME IInv, NEW orderly \in Nat, NEW reliable \in Nat, NEW inflight \in Nat,
           GetAckToSendWnd(orderly, reliable, inflight)
    PROVE  IInv'
<1> DEFINE read   == AcksRead(orderly, reliable)
           first  == ControllerProcess(Socket, "reliable_orderly", 0, orderly, inflight)
           second == ControllerProcess(first, "reliable", 0, read, inflight)
           acks   == [k \in Classes |-> IF k = "reliable" THEN reliable ELSE orderly]
<1>1. /\ read \in Nat /\ (reliable = 0 => read = 0)
      /\ (reliable # 0 => read # 0 /\ read = IF orderly > 0 THEN orderly ELSE reliable)
      /\ orderly + reliable > 0 /\ orderly + read \in Nat \ {0}
  BY DEF AcksRead, GetAckToSendWnd
<1> HIDE DEF read
<1>2. born \in Sleeping /\ Calm(Socket, born)
  BY DEF IInv
<1>3. PICK a \in Sleeping : a = born
  BY <1>2
<1>4. PICK mid : /\ mid = first /\ Calm(mid, a)
                 /\ mid.wnd = IF orderly = 0 THEN wnd
                              ELSE [wnd EXCEPT !["reliable_orderly"] = Opened(orderly)]
  <2>1. "reliable_orderly" \in Classes
    BY DEF Classes
  <2>2. QED
    BY <1>2, <1>3, <2>1, ProcessIs, SocketIs
<1>5. PICK t : /\ t = second /\ Calm(t, a)
               /\ t.wnd = IF read = 0 THEN mid.wnd
                          ELSE [mid.wnd EXCEPT !["reliable"] = Opened(read)]
  <2>1. "reliable" \in Classes
    BY DEF Classes
  <2> DEFINE next == ControllerProcess(mid, "reliable", 0, read, inflight)
  <2>2. Calm(next, a)
    BY <1>1, <1>4, <2>1, ProcessIs
  <2>3. next.wnd = IF read = 0 THEN mid.wnd ELSE [mid.wnd EXCEPT !["reliable"] = Opened(read)]
    BY <1>1, <1>4, <2>1, ProcessIs
  <2> HIDE DEF first
  <2>4. second = next
    BY <1>4
  <2> HIDE DEF second, next
  <2>5. QED
    BY <2>2, <2>3, <2>4
<1>6. /\ bbr' = t.bbr /\ wnd' = t.wnd /\ pacing' = t.pacing /\ lost' = t.lost
      /\ heard < MaxHeard /\ heard' = heard + 1 /\ born' = born
      /\ rto' = SetRttTimes(rto, 0, orderly + read)
      /\ carried' = [k \in Classes |-> IF acks[k] = 0 THEN carried[k] ELSE acks]
  BY <1>5, RttIs DEF GetAckToSendWnd, read
<1> HIDE DEF first, second
<1>7. Calm(Socket, born)'
  BY <1>3, <1>5, <1>6 DEF Calm, Socket
<1>8. Counts'
  <2>1. heard' \in 0 .. MaxHeard /\ heard' # 0
    BY <1>6, ControllerAssumption DEF IInv, Counts
  <2>2. rto' = Later
    <3>1. rto \in {First, Later}
      BY DEF IInv, Counts
    <3>2. \A x \in {First, Later} : SetRttTime(x, 0) \in {First, Later}
      BY TimeIs
    <3>3. \E x \in {First, Later} : SetRttTimes(rto, 0, orderly + read) = SetRttTime(x, 0)
      <4>1. PICK n \in Nat : n = orderly + read /\ n # 0
        BY <1>1
      <4>2. PICK r : r = rto /\ r \in {First, Later}
        BY <3>1
      <4> DEFINE G == {First, Later}
      <4> HIDE DEF G
      <4>3. r \in G /\ \A x \in G : SetRttTime(x, 0) \in G
        BY <3>2, <4>2 DEF G
      <4>4. n # 0 => \E x \in G : SetRttTimes(r, 0, n) = SetRttTime(x, 0)
        BY <4>1, <4>3, Repeated
      <4>5. QED
        BY <4>1, <4>2, <4>4 DEF G
    <3>4. QED
      BY <1>6, <3>3, TimeIs
  <2>3. carried' \in [Classes -> [Classes -> Nat]]
    BY <1>6 DEF IInv, Counts
  <2>4. QED
    BY <2>1, <2>2, <2>3 DEF Counts
<1>9. WindowForgets'
  <2>1. acks["reliable_orderly"] = orderly /\ acks["reliable"] = reliable
    BY DEF Classes
  <2> DEFINE Forgets(k, a1, w) ==
               LET n == IF a1["reliable_orderly"] > 0 THEN a1["reliable_orderly"] ELSE a1[k]
               IN  w = IF a1[k] = 0 THEN InitWnd ELSE Opened(n)
  <2>2. \A k \in Classes : Forgets(k, carried[k], wnd[k])
    BY DEF IInv, WindowForgets, Opened
  <2>3. wnd \in [Classes -> 0 .. MaxSendWnd] /\ mid.wnd \in [Classes -> 0 .. MaxSendWnd]
    BY <1>2, <1>4, SocketIs DEF Calm
  <2>4. Forgets("reliable_orderly", carried'["reliable_orderly"], t.wnd["reliable_orderly"])
    <3>1. t.wnd["reliable_orderly"] = mid.wnd["reliable_orderly"]
      BY <1>5, <2>3 DEF Classes
    <3>2. CASE orderly = 0
      BY <1>4, <1>6, <2>1, <2>2, <3>1, <3>2 DEF Classes
    <3>3. CASE orderly # 0
      <4>1. mid.wnd["reliable_orderly"] = Opened(orderly)
        BY <1>4, <2>3, <3>3 DEF Classes
      <4>2. carried'["reliable_orderly"]["reliable_orderly"] = orderly
        BY <1>6, <2>1, <3>3 DEF Classes
      <4>3. QED
        BY <3>1, <3>3, <4>1, <4>2
    <3>4. QED
      BY <3>2, <3>3
  <2>5. Forgets("reliable", carried'["reliable"], t.wnd["reliable"])
    <3>1. mid.wnd["reliable"] = wnd["reliable"]
      BY <1>4, <2>3 DEF Classes
    <3>2. CASE reliable = 0
      BY <1>1, <1>5, <1>6, <2>1, <2>2, <3>1, <3>2 DEF Classes
    <3>3. CASE reliable # 0
      <4>1. t.wnd["reliable"] = Opened(read)
        BY <1>1, <1>5, <2>3, <3>3 DEF Classes
      <4>2. /\ carried'["reliable"]["reliable"] = reliable
            /\ carried'["reliable"]["reliable_orderly"] = orderly
        BY <1>6, <2>1, <3>3 DEF Classes
      <4>3. QED
        BY <1>1, <3>3, <4>1, <4>2
    <3>4. QED
      BY <3>2, <3>3
  <2>6. QED
    BY <1>6, <2>4, <2>5 DEF WindowForgets, Opened, Classes
<1>10. QED
  BY <1>2, <1>6, <1>7, <1>8, <1>9 DEF IInv

\* Every step preserves the invariant.
LEMMA NextIs == IInv /\ [Next]_vars => IInv'
<1> SUFFICES ASSUME IInv, [Next]_vars PROVE IInv'
  OBVIOUS
<1>1. CASE \E orderly, reliable \in AckCounts \cup {0}, inflight \in InFlight :
              GetAckToSendWnd(orderly, reliable, inflight)
  <2>1. AckCounts \cup {0} \subseteq Nat /\ InFlight \subseteq Nat
    BY ControllerAssumption
  <2>2. QED
    BY <1>1, <2>1, AckIs
<1>2. CASE TimerOut
  <2>1. lost' \in 0 .. MaxLost
    BY <1>2, ControllerAssumption, SocketIs DEF TimerOut, IInv, Calm
  <2>2. Calm(Socket, born)'
    BY <1>2, <2>1 DEF TimerOut, IInv, Socket, Calm
  <2>3. (born \in Sleeping)' /\ Counts' /\ WindowForgets'
    BY <1>2 DEF TimerOut, IInv, Counts, WindowForgets
  <2>4. QED
    BY <2>2, <2>3 DEF IInv
<1>3. CASE UNCHANGED vars
  BY <1>3 DEF vars, IInv, Calm, Socket, Counts, WindowForgets
<1>4. QED
  BY <1>1, <1>2, <1>3 DEF Next

\* The invariant always holds.
LEMMA Always == Spec => []IInv
BY InitIs, NextIs, PTL DEF Spec

\* The members fit their bits, for any contents of memory, numbers of acks and times:
\* none of what the constructor leaves to chance leads out of them.
THEOREM TypeCorrect == Spec => []TypeOK
<1>1. IInv => TypeOK
  <2> SUFFICES ASSUME IInv PROVE TypeOK
    OBVIOUS
  <2>1. /\ bbr \in Sleeping /\ wnd \in [Classes -> 0 .. MaxSendWnd] /\ pacing \in Num
        /\ lost \in 0 .. MaxLost
    BY SocketIs DEF IInv, Calm
  <2>2. heard \in 0 .. MaxHeard /\ rto \in {First, Later}
    BY DEF IInv, Counts
  <2>3. HighGain \in 0 .. BbrUnit * 4 - 1 /\ BbrUnit \in 0 .. BbrUnit * 4 - 1
    <3>1. BbrUnit \in Nat \ {0}
      BY BbrAssumption
    <3>2. PICK q \in Int : q = (BbrUnit * 2885) \div 1000 /\ 1000 * q <= BbrUnit * 2885
                           /\ BbrUnit * 2885 < 1000 * q + 1000
      BY <3>1
    <3>3. HighGain = q + 1
      BY <3>2 DEF HighGain
    <3>4. q + 1 \in 0 .. BbrUnit * 4 - 1 /\ BbrUnit \in 0 .. BbrUnit * 4 - 1
      BY <3>1, <3>2
    <3>5. QED
      BY <3>3, <3>4
  <2>4. /\ bbr.mode = "startup" /\ bbr.pacingGain = HighGain
        /\ bbr.cwndGain = HighGain /\ bbr.cycleIdx = 0 /\ bbr.fullCnt = 0
        /\ bbr.ltRttCnt \in 0 .. 127 /\ bbr.rttCnt = 0 /\ bbr.priorCwnd = 0
        /\ bbr.fullBw = 0 /\ bbr.minRtt = 0 /\ bbr.minRttStamp = Now
        /\ bbr.doneStamp = 0 /\ bbr.ltBw \in Big /\ bbr.ltStamp \in Big
    BY <2>1, Members
  <2>5. bbr.mode \in Modes
    BY <2>4 DEF Modes
  <2>6. {bbr.pacingGain, bbr.cwndGain} \subseteq 0 .. BbrUnit * 4 - 1
    BY <2>3, <2>4
  <2>7. {bbr.minRtt, MaxBw(bbr), bbr.rttCnt, bbr.priorCwnd, bbr.fullBw, pacing}
           \subseteq 0 .. Word - 1
    BY <2>1, <2>4, NoRate, Words DEF Num
  <2>8. {bbr.minRttStamp, bbr.doneStamp, bbr.ltBw, bbr.ltStamp} \subseteq 0 .. Long - 1
    BY <2>4, ControllerAssumption, Words DEF Big
  <2>9. {rto.srtt, rto.mdev, rto.max, rto.cur} \subseteq 0 .. Word - 1
    <3>1. (4 * InitMdev) % Word \in Num /\ 0 \in Num
      <4>1. InitMdev \in Int
        BY ControllerAssumption, Words
      <4>2. 4 * InitMdev \in Int
        BY <4>1
      <4>3. QED
        BY <4>2, Remains, Words
    <3>2. QED
      BY <2>2, <3>1, ControllerAssumption DEF First, Later, Num
  <2>10. bbr.cycleIdx \in 0 .. CycleLen - 1 /\ bbr.fullCnt \in 0 .. 3
    BY <2>4 DEF CycleLen
  <2>11. QED
    BY <2>1, <2>2, <2>4, <2>5, <2>6, <2>7, <2>8, <2>9, <2>10 DEF TypeOK
<1>2. QED
  BY <1>1, Always, PTL

\* However many messages with acks have come and whatever the memory held, a window is
\* what the last acks of its class make of it: one ack, and it is four.
THEOREM WindowsForget == Spec => []WindowForgets
<1>1. IInv => WindowForgets
  BY DEF IInv
<1>2. QED
  BY <1>1, Always, PTL

\* No member of the controller's block ever changes, whatever it is told; and the pacing
\* rate is the one the memory held, or the one the memory's long-term bandwidth gives.
THEOREM NothingIsLearnt == Spec => []LearnsNothing
<1>1. IInv => LearnsNothing
  BY SocketIs DEF IInv, Calm, Set, Rated, LearnsNothing
<1>2. QED
  BY <1>1, Always, PTL

\* However many acks come, over whatever path: the timeout is its first value until the
\* first of them and four times the first deviation from then on.
THEOREM TimeoutStaysBlind == Spec => []TimeoutIsBlind
<1>1. IInv => TimeoutIsBlind
  BY DEF IInv, Counts, First, Later, TimeoutIsBlind
<1>2. QED
  BY <1>1, Always, PTL
=============================================================================
