-------------------------------- MODULE Bbr ---------------------------------
(***************************************************************************)
(* The congestion controller (net/controller/bbr/bbr.cpp): what bbr_main does *)
(* to its control block, to the window and to the pacing rate. A control     *)
(* block b is a record with the members of CBbr; a call c holds the          *)
(* parameters of bbr_main. The window and the rate, which bbr_main changes   *)
(* through references, travel with the block as b.wnd and b.pacing.          *)
(* Times are milliseconds, and one clock serves for all of them.             *)
(***************************************************************************)
EXTENDS Integers, Sequences

CONSTANTS
    Word,        \* 2^32: what a uint32_t wraps at; a uint64_t wraps at its square
    BwUnit,      \* BW_UNIT, 2^24
    BbrUnit,     \* BBR_UNIT, 256
    Mss,         \* TCP_MSS_DEFAULT, 536
    Usec,        \* USEC_PER_MSEC, 1000, and with itself USEC_PER_SEC
    RoundLimit,  \* 1000, the count of rounds above which a new one begins
    MinRttWin,   \* bbr_min_rtt_win_sec * HZ, 10000
    ProbeRttMs,  \* bbr_probe_rtt_mode_ms, 200
    MaxSendWnd   \* MAX_SEND_WND, 65535

ASSUME BbrAssumption ==
    /\ {Word, BwUnit, BbrUnit, Mss, Usec, MaxSendWnd} \subseteq Nat \ {0}
    /\ {RoundLimit, MinRttWin, ProbeRttMs} \subseteq Nat
    /\ 4 <= MaxSendWnd /\ 4 < Word

Long     == Word * Word
HighGain == (BbrUnit * 2885) \div 1000 + 1
CycleLen == 8
MinWnd   == 4         \* bbr_cwnd_min_target
Modes    == {"startup", "drain", "probe_bw", "probe_rtt"}

Lesser(x, y)  == IF x <= y THEN x ELSE y
Greater(x, y) == IF x >= y THEN x ELSE y

\* bbr_pacing_gain
PhaseGain(i) == CASE i = 0 -> (BbrUnit * 5) \div 4
                  [] i = 1 -> (BbrUnit * 3) \div 4
                  [] OTHER -> BbrUnit
-----------------------------------------------------------------------------
(* The filter of the largest rate, three samples of a time and a value.        *)

Reset(sample) == <<sample, sample, sample>>
Passed(sample, m, i, win) == (sample.t - m[i].t) % Word > win

SubwinUpdate(m, win, sample) ==
    LET moved == <<m[2], m[3], sample>>
    IN  IF Passed(sample, m, 1, win)
        THEN IF Passed(sample, moved, 1, win) THEN <<moved[2], moved[3], sample>> ELSE moved
        ELSE IF m[2].t = m[1].t /\ Passed(sample, m, 1, win \div 4) THEN <<m[1], sample, sample>>
        ELSE IF m[3].t = m[2].t /\ Passed(sample, m, 1, win \div 2) THEN <<m[1], m[2], sample>>
        ELSE m

RunningMax(m, win, sample) ==
    IF sample.v >= m[1].v \/ Passed(sample, m, 3, win)
    THEN Reset(sample)
    ELSE SubwinUpdate(IF sample.v >= m[2].v THEN <<m[1], sample, sample>>
                      ELSE IF sample.v >= m[3].v THEN <<m[1], m[2], sample>>
                      ELSE m, win, sample)
-----------------------------------------------------------------------------
(* Rates and targets.                                                           *)

MaxBw(b) == b.bw[1].v
Bw(b)    == IF b.ltUse THEN b.ltBw % Word ELSE MaxBw(b)

RateBytes(rate, gain) ==
    (((((rate * Mss * gain) % Long) \div BbrUnit) * Usec * Usec) % Long) \div BwUnit
\* A faulty variant of PacingRate; only a mutation run uses it.
PacingRateWide(rate, gain) == RateBytes(rate, gain)
PacingRate(rate, gain) == Lesser(RateBytes(rate, gain), Word - 1)

\* The first rate, from a round trip; it is asked for only when one was seen before.
FromRtt(b, rtt) == PacingRate(((b.wnd * BwUnit) % Word) \div rtt, HighGain)

\* A faulty variant of Raises; only a mutation run uses it.
RaisesAnyway(b, rate, first) == b.fullReached \/ rate # first

\* Whether the rate asked for takes the place of the one there is.
Raises(b, rate, first) == b.fullReached \/ rate > first

SetPacingRate(b, c) ==
    LET rate  == PacingRate(Bw(b), b.pacingGain)
        first == IF b.seenRtt /\ c.rtt # 0 THEN FromRtt(b, c.rtt) ELSE b.pacing
    IN  [b EXCEPT !.pacing = IF Raises(b, rate, first) THEN rate ELSE first]

TsoSegs(pacing) ==
    Lesser(Greater((pacing \div 1024) \div Mss, IF pacing < 150000 THEN 1 ELSE 2), 127)

TargetCwnd(b, rate, gain) ==
    LET work == ((rate * b.minRtt * gain) % Long) \div BbrUnit
        raw  == ((work + BwUnit) - 1) \div BwUnit + 3 * TsoSegs(b.pacing)
        even == (raw + 1) - ((raw + 1) % 2)
        more == IF b.mode = "probe_bw" /\ gain > BbrUnit THEN 2 ELSE 0
    IN  IF b.minRtt = Word - 1 THEN 10 ELSE (even + more) % Word

SetCwnd(b, c) ==
    LET target == TargetCwnd(b, Bw(b), b.pacingGain)
        grown  == IF b.fullReached THEN Lesser(b.wnd + c.acked, target)
                  ELSE IF b.wnd < target THEN b.wnd + c.acked ELSE b.wnd
        cwnd   == Lesser(IF c.acked = 0 THEN b.wnd ELSE Greater(grown, MinWnd), MaxSendWnd)
    IN  [b EXCEPT !.wnd = IF b.mode = "probe_rtt" THEN Lesser(cwnd, MinWnd) ELSE cwnd]
-----------------------------------------------------------------------------
(* Modes.                                                                       *)

StartupMode(b) == [b EXCEPT !.mode = "startup", !.pacingGain = HighGain, !.cwndGain = HighGain]

AdvancePhase(b, c) ==
    LET next == (b.cycleIdx + 1) % CycleLen
    IN  [b EXCEPT !.cycleIdx = next, !.cycleStamp = c.now,
                  !.pacingGain = IF b.ltUse THEN BbrUnit ELSE PhaseGain(next)]

ProbeBwMode(b, c) ==
    AdvancePhase([b EXCEPT !.mode = "probe_bw", !.cwndGain = BbrUnit * 2,
                           !.cycleIdx = (@ + 1) % CycleLen], c)

ResetMode(b, c) == IF b.fullReached THEN ProbeBwMode(b, c) ELSE StartupMode(b)

NextPhaseDue(b, c) ==
    LET full == (c.now - b.cycleStamp) % Long > b.minRtt
    IN  \/ b.pacingGain = BbrUnit /\ full
        \/ /\ b.pacingGain > BbrUnit
           /\ full
           /\ c.lost > 0 \/ c.inflight >= TargetCwnd(b, MaxBw(b), b.pacingGain)
        \/ /\ b.pacingGain < BbrUnit
           /\ full \/ c.inflight <= TargetCwnd(b, MaxBw(b), BbrUnit)

UpdateCyclePhase(b, c) ==
    IF b.mode = "probe_bw" /\ NextPhaseDue(b, c) THEN AdvancePhase(b, c) ELSE b
-----------------------------------------------------------------------------
(* Sampling for a policed path.                                                  *)

LtResetInterval(b, c) ==
    [b EXCEPT !.ltStamp = c.now \div Usec, !.ltDelivered = c.delivered,
              !.ltLost = c.lost, !.ltRttCnt = 0]

LtReset(b, c) ==
    LtResetInterval([b EXCEPT !.ltBw = 0, !.ltUse = FALSE, !.ltSampling = FALSE], c)

LtIntervalDone(b, c, rate) ==
    LET diff == IF rate > b.ltBw THEN rate - b.ltBw ELSE b.ltBw - rate
    IN  IF b.ltBw # 0 /\ \/ (diff * BbrUnit) % Long <= ((BbrUnit \div 8) * b.ltBw) % Long
                         \/ RateBytes(diff, BbrUnit) <= 500
        THEN [b EXCEPT !.ltBw = ((rate + @) % Long) \div 2, !.ltUse = TRUE,
                       !.pacingGain = BbrUnit, !.ltRttCnt = 0]
        ELSE LtResetInterval([b EXCEPT !.ltBw = rate], c)

\* The end of an interval: the loss within it decides.
LtEnd(b, c) ==
    LET d == [c EXCEPT !.lost = (@ - b.ltLost) % Word,
                       !.delivered = (@ - b.ltDelivered) % Word]
        t == ((c.now \div Usec) - b.ltStamp) % Long
    IN  IF d.delivered = 0 \/ (d.lost * BbrUnit) % Word < (50 * d.delivered) % Word \/ t = 0
        THEN b
        ELSE IF t >= (Word - 1) \div Usec THEN LtReset(b, d)
        ELSE LtIntervalDone(b, d, ((d.delivered * BwUnit) % Word) \div (t * Usec))

LtSampling(b, c) ==
    LET counted == [b EXCEPT !.ltRttCnt = IF b.roundStart THEN (@ + 1) % 128 ELSE @]
        begun == IF b.ltSampling THEN b
                 ELSE [LtResetInterval(b, c) EXCEPT !.ltSampling = TRUE]
        round == [begun EXCEPT !.ltRttCnt = IF b.roundStart THEN (@ + 1) % 128 ELSE @]
    IN  IF b.ltUse
        THEN IF b.mode # "probe_bw" \/ ~ b.roundStart THEN b
             ELSE IF counted.ltRttCnt < 48 THEN counted
             ELSE ProbeBwMode(LtReset(counted, c), c)
        ELSE IF ~ b.ltSampling /\ c.lost = 0 THEN b
        ELSE IF c.appLimit THEN LtReset(begun, c)
        ELSE IF round.ltRttCnt < 4 THEN round
        ELSE IF round.ltRttCnt > 16 THEN LtReset(round, c)
        ELSE IF c.lost = 0 THEN round
        ELSE LtEnd(round, c)
-----------------------------------------------------------------------------
(* The model of the path.                                                        *)

RoundPassed(b) == b.rttCnt > RoundLimit

UpdateBw(b, c) ==
    LET still == [b EXCEPT !.roundStart = FALSE]
        round == IF RoundPassed(b)
                 THEN [b EXCEPT !.roundStart = TRUE, !.nextRtt = c.delivered,
                                !.rttCnt = (@ + 1) % Word]
                 ELSE still
        done  == LtSampling(round, c)
        rate  == ((c.delivered * BwUnit) % Word) \div c.rtt
    IN  IF c.rtt = 0 THEN still
        ELSE IF c.appLimit /\ rate < MaxBw(done) THEN done
        ELSE [done EXCEPT !.bw = RunningMax(@, CycleLen + 2, [t |-> done.rttCnt, v |-> rate])]

CheckFull(b, c) ==
    IF b.fullReached \/ ~ b.roundStart \/ c.appLimit THEN b
    ELSE IF MaxBw(b) >= (b.fullBw * ((BbrUnit * 5) \div 4)) \div BbrUnit
         THEN [b EXCEPT !.fullBw = MaxBw(b), !.fullCnt = 0]
         ELSE [b EXCEPT !.fullCnt = (@ + 1) % 4, !.fullReached = (b.fullCnt + 1) % 4 >= 3]

CheckDrain(b, c) ==
    LET draining == IF b.mode = "startup" /\ b.fullReached
                    THEN [b EXCEPT !.mode = "drain", !.cwndGain = HighGain,
                                   !.pacingGain = (BbrUnit * 1000) \div 2885]
                    ELSE b
    IN  IF draining.mode = "drain" /\ c.inflight <= TargetCwnd(draining, MaxBw(b), BbrUnit)
        THEN ProbeBwMode(draining, c)
        ELSE draining

CheckProbeRttDone(b, c) ==
    IF b.doneStamp # 0 /\ c.now < b.doneStamp
    THEN ResetMode([b EXCEPT !.minRttStamp = c.now, !.wnd = Greater(@, b.priorCwnd)], c)
    ELSE b

\* The window to come back to.
SaveCwnd(b) ==
    [b EXCEPT !.priorCwnd = IF b.mode # "probe_rtt" THEN b.wnd ELSE Greater(@, b.wnd)]

ProbeRttMode(b) ==
    SaveCwnd([b EXCEPT !.mode = "probe_rtt", !.pacingGain = BbrUnit, !.cwndGain = BbrUnit,
                       !.doneStamp = 0])

InProbeRtt(b, c) ==
    IF b.mode # "probe_rtt" THEN b
    ELSE IF b.doneStamp = 0 /\ c.inflight <= MinWnd
         THEN [b EXCEPT !.doneStamp = c.now + ProbeRttMs, !.roundDone = FALSE,
                        !.nextRtt = c.delivered]
    ELSE IF b.doneStamp # 0 /\ (b.roundStart \/ b.roundDone)
         THEN CheckProbeRttDone([b EXCEPT !.roundDone = TRUE], c)
    ELSE b

UpdateMinRtt(b, c) ==
    LET expired == c.now < b.minRttStamp + MinRttWin
        seen    == IF c.rtt <= b.minRtt \/ expired
                   THEN [b EXCEPT !.minRtt = c.rtt, !.minRttStamp = c.now] ELSE b
        probing == IF ProbeRttMs > 0 /\ expired /\ ~ b.idleRestart /\ b.mode # "probe_rtt"
                   THEN ProbeRttMode(seen) ELSE seen
    IN  [InProbeRtt(probing, c) EXCEPT !.idleRestart = @ /\ c.delivered = 0]

UpdateModel(b, c) ==
    UpdateMinRtt(CheckDrain(CheckFull(UpdateCyclePhase(UpdateBw(b, c), c), c), c), c)

BbrMain(b, c) == SetCwnd(SetPacingRate(UpdateModel(b, c), c), c)
=============================================================================
