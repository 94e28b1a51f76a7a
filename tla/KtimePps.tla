------------------------------ MODULE KtimePps ------------------------------
(***************************************************************************)
(* The PPS discipline of ktime.c: hardpps(), which a pulse-per-second      *)
(* interrupt calls with the time and a free-running nanosecond counter of  *)
(* the on-time transition, composed with the clock discipline of Ktime,    *)
(* whose offset and frequency it sets.  The interrupt may preempt the tick *)
(* handler.  The counters kept for display (pps_calcnt, pps_stabil, ...)   *)
(* are left out.                                                           *)
(***************************************************************************)
EXTENDS Ktime

CONSTANTS
    PPS_MAXWANDER,      \* largest wander (ns/s)
    PPS_POPCORN,        \* popcorn spike threshold (shift)
    Drifts,             \* frequency errors (ns/s) that the counter may have
    Jitter,             \* the phases (ns) of good pulses
    Spikes              \* the phases (ns) of spurious pulses

ASSUME PpsAssumption ==
    /\ PPS_SYNC
    /\ {PPS_MAXWANDER, PPS_POPCORN} \subseteq Nat
    /\ PPS_VALID > 0
    /\ Drifts \subseteq Int /\ Drifts # {}
    /\ Jitter \subseteq Int /\ Spikes \subseteq Int
    /\ NANOSECOND <= 2 * MAXPHASE

VARIABLES
    pps_tf,         \* the last three pulses, newest first
    pps_lastcount,  \* counter at the last pulse (ns)
    pps_fcount,     \* frequency accumulator (ns)
    pps_jitter,     \* nominal jitter (ns)
    pps_lastsec,    \* time at the last calibration (s)
    pps_intcnt,     \* wander counter
    drift,          \* the counter's frequency error (ns/s)
    silence         \* rollovers of the second since the last pulse

filterVars == <<pps_tf, pps_lastcount, pps_fcount>>
calVars == <<pps_lastsec, pps_intcnt, pps_shift, pps_freq, time_freq>>
pvars == <<kvars, filterVars, pps_jitter, pps_lastsec, pps_intcnt, drift,
           silence>>

Stamp(sec, nsec) == [sec |-> sec, nsec |-> nsec]

PpsInit ==
    /\ Init
    /\ pps_tf = <<Stamp(0, 0), Stamp(0, 0), Stamp(0, 0)>>
    /\ pps_lastcount = 0
    /\ pps_fcount = 0
    /\ pps_jitter = 0
    /\ pps_lastsec = 0
    /\ pps_intcnt = 0
    /\ drift \in Drifts
    /\ silence = 0

(* Faulty: the pulse belongs to the second it is in.                       *)
Rounded_Down(t) == t

(* The pulse belongs to the nearest second.                                *)
Rounded(t) ==
    IF t.nsec >= NANOSECOND \div 2 THEN Stamp(t.sec + 1, t.nsec - NANOSECOND)
    ELSE t

(* The range gate's first test: a second hit in the same second.           *)
Repeated(u) ==
    /\ u.sec = pps_tf[1].sec
    /\ u.nsec - pps_tf[1].nsec < NANOSECOND - MAXFREQ

(* Faulty: the gate is open.                                               *)
InGate_Open(u) == TRUE

InGate(u) == u.nsec - pps_tf[1].nsec \in -MAXFREQ .. MAXFREQ

(* A difference of counters that is known up to a multiple of range.       *)
Folded(x, range) ==
    IF x > range \div 2 THEN x - range
    ELSE IF x < -(range \div 2) THEN x + range
    ELSE x

CountStep(count) ==
    Folded(Folded(count - pps_lastcount, NANOSECOND), time_tick)

(***************************************************************************)
(* The median filter.                                                      *)
(***************************************************************************)
Larger(a, b) == IF a > b THEN a ELSE b
Smaller(a, b) == IF a < b THEN a ELSE b

Median(a, b, c) == Larger(Smaller(a, b), Smaller(Larger(a, b), c))

Dispersion(a, b, c) ==
    Larger(Larger(a, b), c) - Smaller(Smaller(a, b), c)

(* Applied to the phases of pulse u and of the two before it.              *)
MedianWith(u) == Median(u.nsec, pps_tf[1].nsec, pps_tf[2].nsec)

DispersionWith(u) == Dispersion(u.nsec, pps_tf[1].nsec, pps_tf[2].nsec)

Popcorn(u) ==
    DispersionWith(u) > WrapLong(pps_jitter * PowerOfTwo[PPS_POPCORN])

JitterWith(u) ==
    pps_jitter + (DispersionWith(u) - pps_jitter) \div PowerOfTwo[PPS_FAVG]

(***************************************************************************)
(* Frequency calibration, at the end of an interval of 2^pps_shift s.      *)
(***************************************************************************)
IntervalEnds(u) == u.sec - pps_lastsec >= PowerOfTwo[pps_shift]

Plausible(u, count) ==
    LET limit == WrapLong(MAXFREQ * PowerOfTwo[pps_shift])
        v == -WrapLong(pps_fcount + CountStep(count))
    IN  /\ v <= limit /\ v >= -limit
        /\ u.sec - pps_lastsec = PowerOfTwo[pps_shift]

RawChange(count) ==
    L_RSHIFT(L_LINT(-WrapLong(pps_fcount + CountStep(count))), pps_shift)
        - pps_freq

Wanders(change) ==
    L_GINT(change) > PPS_MAXWANDER \/ L_GINT(change) < -PPS_MAXWANDER

Groomed(change) ==
    IF L_GINT(change) > PPS_MAXWANDER THEN L_LINT(PPS_MAXWANDER)
    ELSE IF L_GINT(change) < -PPS_MAXWANDER THEN L_LINT(-PPS_MAXWANDER)
    ELSE change

(* Four good intervals lengthen the interval, four bad ones shorten it.    *)
Interval(shift, intcnt) == [shift |-> shift, intcnt |-> intcnt]

IntervalAfter(intcnt) ==
    IF intcnt >= 4
    THEN IF pps_shift < pps_shiftmax THEN Interval(pps_shift + 1, 0)
         ELSE Interval(pps_shift, 4)
    ELSE IF intcnt <= -4
    THEN IF pps_shift > PPS_FAVG THEN Interval(pps_shift - 1, 0)
         ELSE Interval(pps_shift, -4)
    ELSE Interval(pps_shift, intcnt)

Steered(change) ==
    LET freq == pps_freq + Groomed(change)
    IN  IF L_GINT(freq) > MAXFREQ THEN L_LINT(MAXFREQ)
        ELSE IF L_GINT(freq) < -MAXFREQ THEN L_LINT(-MAXFREQ)
        ELSE freq

(***************************************************************************)
(* hardpps(), by its early returns.  u is the rounded pulse.  The status   *)
(* word it leaves is given by bits, the flags that it sets: on entry it    *)
(* sets the signal and clears the errors of the last pulse.  The offset it *)
(* leaves is OffsetSet, of whatever it finds.                              *)
(***************************************************************************)
PPS_FLAGS == {"STA_PPSSIGNAL", "STA_PPSJITTER", "STA_PPSWANDER",
              "STA_PPSERROR"}

PulseStatus(status, bits) == (status \ PPS_FLAGS) \cup {"STA_PPSSIGNAL"}
                                                  \cup bits

Keep(u, count) ==
    /\ pps_tf' = <<u, pps_tf[1], pps_tf[2]>>
    /\ pps_lastcount' = count
    /\ pps_fcount' = WrapLong(pps_fcount + CountStep(count))

(* The later of two hits in a second is ignored.                           *)
Ignored(u, bits) ==
    /\ Repeated(u)
    /\ bits = {"STA_PPSJITTER"}
    /\ UNCHANGED <<filterVars, pps_jitter, calVars, time_monitor>>

(* A hit outside the range gate is kept for comparison but not processed.  *)
Gated(u, count, bits) ==
    /\ ~Repeated(u)
    /\ ~InGate(u)
    /\ bits = {"STA_PPSJITTER"}
    /\ Keep(u, count)
    /\ UNCHANGED <<pps_jitter, calVars, time_monitor>>

(* The phase: the median becomes the offset unless it is a popcorn spike.  *)
SetsPhase(u) ==
    /\ ~Repeated(u)
    /\ InGate(u)
    /\ ~Popcorn(u)
    /\ Has("STA_PPSTIME")

(* What becomes of an offset that the pulse finds.                         *)
OffsetSet(u, found) == IF SetsPhase(u) THEN L_LINT(-MedianWith(u)) ELSE found

Phase(u) ==
    /\ ~Repeated(u)
    /\ InGate(u)
    /\ pps_jitter' = JitterWith(u)
    /\ time_monitor' = IF SetsPhase(u) THEN -MedianWith(u) ELSE time_monitor

JitterBit(u) == IF Popcorn(u) THEN {"STA_PPSJITTER"} ELSE {}

WithinInterval(u, count, bits) ==
    /\ Phase(u)
    /\ Keep(u, count)
    /\ ~IntervalEnds(u)
    /\ bits = JitterBit(u)
    /\ UNCHANGED calVars

Discarded(u, count, bits) ==
    /\ Phase(u)
    /\ IntervalEnds(u)
    /\ ~Plausible(u, count)
    /\ bits = JitterBit(u) \cup {"STA_PPSERROR"}
    /\ pps_tf' = <<u, pps_tf[1], pps_tf[2]>>
    /\ pps_lastcount' = count
    /\ pps_fcount' = 0
    /\ pps_lastsec' = u.sec
    /\ UNCHANGED <<pps_intcnt, pps_shift, pps_freq, time_freq>>

Calibrated(u, count, bits) ==
    LET change == RawChange(count)
        intcnt == pps_intcnt + (IF Wanders(change) THEN -1 ELSE 1)
    IN  /\ Phase(u)
        /\ IntervalEnds(u)
        /\ Plausible(u, count)
        /\ bits = JitterBit(u)
                    \cup (IF Wanders(change) THEN {"STA_PPSWANDER"} ELSE {})
        /\ pps_tf' = <<u, pps_tf[1], pps_tf[2]>>
        /\ pps_lastcount' = count
        /\ pps_fcount' = 0
        /\ pps_lastsec' = u.sec
        /\ pps_shift' = IntervalAfter(intcnt).shift
        /\ pps_intcnt' = IntervalAfter(intcnt).intcnt
        /\ pps_freq' = Steered(change)
        /\ time_freq' = IF Has("STA_PPSFREQ") THEN Steered(change)
                        ELSE time_freq

hardpps(u, count, bits) ==
    \/ Ignored(u, bits)
    \/ Gated(u, count, bits)
    \/ WithinInterval(u, count, bits)
    \/ Discarded(u, count, bits)
    \/ Calibrated(u, count, bits)

(***************************************************************************)
(* The pulses.  A good pulse comes at the second, give or take the jitter; *)
(* a spurious one somewhere within it, and never twice in the same place.  *)
(* The clock as of the last tick is at most a tick behind the pulse, which *)
(* may come after the second before the tick that completes it.  The       *)
(* counter has gained drift ns in each second.                             *)
(***************************************************************************)
Phases ==
    Jitter \cup {phase \in Spikes :
                    phase - pps_tf[1].nsec \notin -MAXFREQ .. MAXFREQ}

PulseTime(phase, sec) == Rounded(Stamp(sec, phase % NANOSECOND))

Count(u) == (drift * u.sec + u.nsec) % NANOSECOND

Flags == {bits \in SUBSET {"STA_PPSJITTER", "STA_PPSWANDER", "STA_PPSERROR"} :
              "STA_PPSERROR" \notin bits \/ "STA_PPSWANDER" \notin bits}

SecondOf(phase) == IF phase % NANOSECOND < tv_nsec THEN tv_sec + 1 ELSE tv_sec

Pulse(phase) ==
    LET u == PulseTime(phase, SecondOf(phase))
    IN  /\ (phase - tv_nsec) % NANOSECOND <= time_tick
        /\ \E bits \in Flags :
               /\ hardpps(u, Count(u), bits)
               /\ time_status' = PulseStatus(time_status, bits)
        /\ time_offset' = OffsetSet(u, time_offset)
        /\ pps_valid' = PPS_VALID
        /\ silence' = 0
        /\ UNCHANGED <<timevar, leapVars, time_constant, time_reftime,
                       errorVars, tickVars, pps_shiftmax, drift>>

(***************************************************************************)
(* A pulse in the middle of second_overflow(), which uses what it has read *)
(* before the pulse and stores over what the pulse has stored.  These are  *)
(* the places where that shows, in the order of the code.  A store of two  *)
(* words is taken to be done when the pulse comes or not to be begun.      *)
(***************************************************************************)
SignalSeen(bits) == time_status' = PulseStatus(time_status, bits)

StillValid == pps_valid' = PPS_VALID - 1

(* The shift that is applied to the offset, when the pulse comes after the *)
(* test of the status word or before it.                                   *)
ShiftsAround ==
    {OffsetShift,
     IF PpsTiming(time_status) THEN pps_shift' ELSE OffsetShift,
     IF Has("STA_PPSTIME") THEN pps_shift' ELSE OffsetShift}

(* The part of the old offset is taken off the one that the pulse set.     *)
BeforeSubtraction(u, bits) ==
    /\ \E shift \in ShiftsAround :
           LET part == L_RSHIFT(time_offset, shift)
           IN  /\ time_offset' = OffsetSet(u, time_offset) - part
               /\ time_adj' = part + time_freq' + L_LINT(NANOSECOND)
    /\ SignalSeen(bits) /\ StillValid

(* What is left of the old offset is stored over the one that was set.     *)
InSubtraction(bits) ==
    /\ time_offset' = OffsetLeft
    /\ time_adj' = Amortized + time_freq' + L_LINT(NANOSECOND)
    /\ SignalSeen(bits) /\ StillValid

(* The frequency is the one that the pulse set.                            *)
BeforeFrequency(u, bits) ==
    /\ time_offset' = OffsetSet(u, OffsetLeft)
    /\ time_adj' = Amortized + time_freq' + L_LINT(NANOSECOND)
    /\ SignalSeen(bits) /\ StillValid

BeforeWatchdog(u, bits) ==
    /\ time_offset' = OffsetSet(u, OffsetLeft)
    /\ time_adj' = SecondAdjustment
    /\ SignalSeen(bits) /\ StillValid

(* After the watchdog's test, and before its load of the word or after it. *)
InWatchdog(u, bits) ==
    /\ time_offset' = OffsetSet(u, OffsetLeft)
    /\ time_adj' = SecondAdjustment
    /\ \/ /\ pps_valid > 0
          /\ pps_valid' = pps_valid - 1
          /\ SignalSeen(bits)
       \/ /\ pps_valid = 0
          /\ pps_valid' = PPS_VALID
          /\ \E status \in {time_status, PulseStatus(time_status, bits)} :
                 time_status' = status \ {"STA_PPSSIGNAL"}

PreemptedOverflow(phase) ==
    LET u == PulseTime(phase, tv_sec + 1)
    IN  /\ tv_sec < MaxSec
        /\ TickAdjusted >= NANOSECOND
        /\ tv_nsec' = TickAdjusted - NANOSECOND
        /\ (phase % NANOSECOND) - tv_nsec' \in 0 .. time_tick
        /\ TickPhase
        /\ time_maxerror' = WrapLong(time_maxerror + CDiv(MAXFREQ, NSPERUS))
        /\ LeapStep(tv_sec + 1)
        /\ \E bits \in Flags :
               /\ hardpps(u, Count(u), bits)
               /\ \/ BeforeSubtraction(u, bits)
                  \/ InSubtraction(bits)
                  \/ BeforeFrequency(u, bits)
                  \/ BeforeWatchdog(u, bits)
                  \/ InWatchdog(u, bits)
        /\ silence' = 0
        /\ UNCHANGED <<time_constant, time_reftime, time_esterror,
                       pps_shiftmax, drift>>

Others == UNCHANGED <<filterVars, pps_jitter, pps_lastsec, pps_intcnt, drift>>

PpsNext ==
    \/ Tick /\ Others /\ UNCHANGED silence
    \/ SecondOverflow /\ Others /\ silence' = silence + 1
    \/ (\E r \in Requests : AdjTime(r)) /\ Others /\ UNCHANGED silence
    \/ (\E offset \in Offsets : Discipline(offset)) /\ Others
                                                    /\ UNCHANGED silence
    \/ \E phase \in Phases : Pulse(phase)
    \/ \E phase \in Phases : PreemptedOverflow(phase)

PpsSpec == PpsInit /\ [][PpsNext]_pvars

(***************************************************************************)
(* Properties.                                                             *)
(***************************************************************************)

(* The pulses steer the clock through the same variables as ntp_adjtime(), *)
(* between two calls or anywhere in the rollover, whatever they say.  The  *)
(* clock stays normalized and runs forward, the frequencies stay in the    *)
(* envelope of timex.h and the pending offset within twice its MAXPHASE:   *)
(* a pulse that overtakes the rollover takes it no farther.                *)
PpsFreqClamped == L_GINT(pps_freq) \in -MAXFREQ .. MAXFREQ

FilterOK ==
    /\ \A i \in 1 .. 3 : /\ pps_tf[i].sec \in Int
                         /\ pps_tf[i].nsec \in -MAXPHASE .. MAXPHASE
    /\ {pps_lastcount, pps_fcount, pps_jitter, pps_lastsec, drift,
        silence} \subseteq Int
    /\ pps_intcnt \in -4 .. 4

PpsInv == Inv /\ PpsFreqClamped /\ FilterOK

(* A signal that is reported present has been seen within the time of the  *)
(* watchdog, although the interrupt may overtake the watchdog's own store. *)
SignalFresh == Has("STA_PPSSIGNAL") => silence <= PPS_VALID

(* The range gate and the median filter between them keep a spurious pulse *)
(* from steering the phase: what they pass on is the phase of a good pulse. *)
SpikeRejected == -time_monitor \in Jitter \cup {0}

(* What the comment at hardpps() says of its interrupt: "the actual time   *)
(* and frequency variables ... are determined by this routine and updated  *)
(* atomically".  Then the offset after a rollover that a pulse interrupts  *)
(* is one that the two leave in one order or the other.                    *)
UpdatedAtomically ==
    [][ \A phase \in Phases :
            LET set == OffsetSet(PulseTime(phase, tv_sec + 1), time_offset)
                left == OffsetSet(PulseTime(phase, tv_sec + 1), OffsetLeft)
            IN  PreemptedOverflow(phase) =>
                    \/ time_offset' = left
                    \/ \E shift \in ShiftsAround :
                           time_offset' = set - L_RSHIFT(set, shift) ]_pvars

(* A calibration that is accepted does not take the frequency farther from *)
(* the one that cancels the counter's drift, whatever pulses were missed,  *)
(* repeated or spurious in the interval: more than the jitter of the two   *)
(* pulses at its ends accounts for.                                        *)
FreqError(freq) == LET e == freq + L_LINT(drift) IN IF e < 0 THEN -e ELSE e

JitterSpan == {a - b : a, b \in Jitter \cup {0}}

CalibrationHelps ==
    [][ \/ FreqError(pps_freq') <= FreqError(pps_freq)
        \/ \E span \in JitterSpan :
               FreqError(pps_freq') <= L_RSHIFT(L_LINT(span), PPS_FAVG)
        \/ ~ \E phase \in Phases : Pulse(phase) \/ PreemptedOverflow(phase)
      ]_pvars
=============================================================================
