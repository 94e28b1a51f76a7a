--------------------------- MODULE KtimePpsProofs ---------------------------
(***************************************************************************)
(* Proofs about KtimePps and KernSim, for every value of their constants:  *)
(* the PPS discipline keeps the invariant of the clock that it steers, its *)
(* filters keep a spurious pulse from steering it and its calibrations do  *)
(* not take the frequency away from the counter's, and in the simulator    *)
(* that closes the loop the clock never reads the same or less twice.      *)
(***************************************************************************)
EXTENDS KernSim, KtimeProofs

(* A pulse as hardpps() works with it, and an offset that it sets.         *)
RoundedPulse == [sec : Int, nsec : -MAXPHASE .. MAXPHASE]

OffsetRange == L_LINT(-MAXPHASE) .. L_LINT(MAXPHASE)

LEMMA FloorType ==
    ASSUME NEW a \in Int, NEW d \in Nat \ {0}
    PROVE  a \div d \in Int /\ a % d \in 0 .. d - 1
  OBVIOUS

LEMMA RoundedType ==
    ASSUME NEW phase \in Int, NEW sec \in Int
    PROVE  PulseTime(phase, sec) \in RoundedPulse
  <1> DEFINE n == phase % NANOSECOND
  <1>1. n \in 0 .. NANOSECOND - 1
    BY FloorType, TimexAssumption
  <1> HIDE DEF n
  <1>2. CASE n >= NANOSECOND \div 2
    <2>1. n - NANOSECOND \in -MAXPHASE .. MAXPHASE
      BY <1>1, <1>2, PpsAssumption, TimexAssumption
    <2>2. Rounded(Stamp(sec, n)) = Stamp(sec + 1, n - NANOSECOND)
      BY <1>2 DEF Rounded, Stamp
    <2> QED BY <2>1, <2>2 DEF PulseTime, Stamp, RoundedPulse, n
  <1>3. CASE ~(n >= NANOSECOND \div 2)
    <2>1. n \in -MAXPHASE .. MAXPHASE
      BY <1>1, <1>3, PpsAssumption, TimexAssumption
    <2>2. Rounded(Stamp(sec, n)) = Stamp(sec, n)
      BY <1>3 DEF Rounded, Stamp
    <2> QED BY <2>1, <2>2 DEF PulseTime, Stamp, RoundedPulse, n
  <1> QED BY <1>2, <1>3

LEMMA CountType ==
    ASSUME drift \in Int, NEW u \in RoundedPulse
    PROVE  Count(u) \in Int
  <1>1. drift * u.sec + u.nsec \in Int
    BY TimexAssumption DEF RoundedPulse
  <1> QED BY <1>1, FloorType, TimexAssumption DEF Count

LEMMA StepType ==
    ASSUME FilterOK, NEW count \in Int
    PROVE  WrapLong(pps_fcount + CountStep(count)) \in Int
  <1>1. NANOSECOND \in Int /\ time_tick \in Int
    <2>1. NANOSECOND \in Int /\ hz \in Nat \ {0}
      BY TimexAssumption, KtimeAssumption
    <2> QED BY <2>1, FloorType DEF time_tick
  <1>2. ASSUME NEW x \in Int, NEW range \in Int
        PROVE  Folded(x, range) \in Int
    BY <1>2 DEF Folded
  <1>3. count - pps_lastcount \in Int /\ pps_fcount \in Int
    BY DEF FilterOK
  <1>4. CountStep(count) \in Int
    BY <1>1, <1>2, <1>3 DEF CountStep
  <1> QED BY <1>3, <1>4, WrapType

(* The median of three phases is within their limits.                      *)
LEMMA MedianType ==
    ASSUME FilterOK, NEW u \in RoundedPulse
    PROVE  /\ MedianWith(u) \in -MAXPHASE .. MAXPHASE
           /\ JitterWith(u) \in Int
  <1>1. /\ u.nsec \in -MAXPHASE .. MAXPHASE
        /\ pps_tf[1].nsec \in -MAXPHASE .. MAXPHASE
        /\ pps_tf[2].nsec \in -MAXPHASE .. MAXPHASE
        /\ pps_jitter \in Int
    BY DEF FilterOK, RoundedPulse
  <1>2. MAXPHASE \in Nat
    BY TimexAssumption
  <1>3. MedianWith(u) \in -MAXPHASE .. MAXPHASE
    BY <1>1, <1>2 DEF MedianWith, Median, Larger, Smaller
  <1>4. DispersionWith(u) - pps_jitter \in Int
    BY <1>1, <1>2 DEF DispersionWith, Dispersion, Larger, Smaller
  <1>5. PowerOfTwo[PPS_FAVG] \in Nat \ {0}
    BY PowerType, KtimeAssumption
  <1>6. (DispersionWith(u) - pps_jitter) \div PowerOfTwo[PPS_FAVG] \in Int
    BY <1>4, <1>5, FloorType
  <1> QED BY <1>1, <1>3, <1>6 DEF JitterWith

(* A calibration leaves the frequency in its envelope.                     *)
LEMMA SteeredType ==
    ASSUME PpsInv, NEW count \in Int
    PROVE  /\ RawChange(count) \in Int
           /\ Steered(RawChange(count)) \in Int
           /\ L_GINT(Steered(RawChange(count))) \in -MAXFREQ .. MAXFREQ
  <1> DEFINE change == RawChange(count)
             freq == pps_freq + Groomed(change)
  <1>1. pps_freq \in Int /\ pps_shift \in Nat
    BY KtimeAssumption, TimexAssumption DEF PpsInv, Inv, TypeOK
  <1>2. L_LINT(-WrapLong(pps_fcount + CountStep(count))) \in Int
    BY StepType, LintType DEF PpsInv
  <1>3. change \in Int
    BY <1>1, <1>2, ShiftShrinks DEF RawChange
  <1> HIDE DEF change
  <1>4. freq \in Int
    BY <1>1, <1>3, LintType, PpsAssumption DEF Groomed
  <1>5. L_GINT(freq) \in Int
    BY <1>4, GintSplit
  <1>6. /\ L_LINT(MAXFREQ) \in Int /\ L_LINT(-MAXFREQ) \in Int
        /\ L_GINT(L_LINT(MAXFREQ)) = MAXFREQ
        /\ L_GINT(L_LINT(-MAXFREQ)) = -MAXFREQ
    BY LintType, GintLint, TimexAssumption
  <1> HIDE DEF freq
  <1>7. Steered(change) = IF L_GINT(freq) > MAXFREQ THEN L_LINT(MAXFREQ)
                          ELSE IF L_GINT(freq) < -MAXFREQ
                          THEN L_LINT(-MAXFREQ) ELSE freq
    BY Zenon DEF Steered, freq
  <1>8. CASE L_GINT(freq) > MAXFREQ
    BY <1>3, <1>6, <1>7, <1>8, TimexAssumption DEF change
  <1>9. CASE ~(L_GINT(freq) > MAXFREQ) /\ L_GINT(freq) < -MAXFREQ
    BY <1>3, <1>6, <1>7, <1>9, TimexAssumption DEF change
  <1>10. CASE ~(L_GINT(freq) > MAXFREQ) /\ ~(L_GINT(freq) < -MAXFREQ)
    <2>1. L_GINT(freq) \in -MAXFREQ .. MAXFREQ
      BY <1>5, <1>10, TimexAssumption
    <2>2. Steered(change) = freq
      BY <1>7, <1>10
    <2> QED BY <1>3, <1>4, <2>1, <2>2 DEF change
  <1> QED BY <1>8, <1>9, <1>10

LEMMA IntervalType ==
    ASSUME PpsInv, NEW intcnt \in -5 .. 5
    PROVE  /\ IntervalAfter(intcnt).shift \in PPS_FAVG .. PPS_FAVGMAX
           /\ IntervalAfter(intcnt).intcnt \in -4 .. 4
  BY KtimeAssumption DEF PpsInv, Inv, TypeOK, IntervalAfter, Interval

(* What hardpps() leaves: the filter well formed, both frequencies and the *)
(* phase in the envelope.                                                  *)
HardppsLeaves ==
    /\ time_monitor' \in -MAXPHASE .. MAXPHASE
    /\ {time_freq', pps_freq'} \subseteq Int
    /\ L_GINT(time_freq') \in -MAXFREQ .. MAXFREQ
    /\ L_GINT(pps_freq') \in -MAXFREQ .. MAXFREQ
    /\ pps_shift' \in PPS_FAVG .. PPS_FAVGMAX
    /\ \A i \in 1 .. 3 : /\ pps_tf'[i].sec \in Int
                         /\ pps_tf'[i].nsec \in -MAXPHASE .. MAXPHASE
    /\ {pps_lastcount', pps_fcount', pps_jitter', pps_lastsec'} \subseteq Int
    /\ pps_intcnt' \in -4 .. 4

LEMMA OffsetSetType ==
    ASSUME PpsInv, NEW u \in RoundedPulse, NEW found \in Int
    PROVE  /\ OffsetSet(u, found) \in OffsetRange \cup {found}
           /\ OffsetSet(u, found) \in Int
  <1>1. -MedianWith(u) \in -MAXPHASE .. MAXPHASE
    BY MedianType, TimexAssumption DEF PpsInv
  <1>2. L_LINT(-MedianWith(u)) \in OffsetRange
    BY <1>1, LoadedPhase DEF OffsetRange
  <1>3. OffsetRange \subseteq Int
    BY LintType, TimexAssumption DEF OffsetRange
  <1> QED BY <1>2, <1>3 DEF OffsetSet

LEMMA PhaseSafe ==
    ASSUME PpsInv, NEW u \in RoundedPulse, Phase(u)
    PROVE  /\ time_monitor' \in -MAXPHASE .. MAXPHASE
           /\ pps_jitter' \in Int
  <1>1. MedianWith(u) \in -MAXPHASE .. MAXPHASE /\ JitterWith(u) \in Int
    BY MedianType DEF PpsInv
  <1>2. -MedianWith(u) \in -MAXPHASE .. MAXPHASE
    BY <1>1, TimexAssumption
  <1>3. time_monitor \in -MAXPHASE .. MAXPHASE
    BY DEF PpsInv, Inv, PhaseWithin
  <1> QED BY <1>1, <1>2, <1>3, Zenon DEF Phase

(* What the calibration variables and the filter satisfy before a pulse.   *)
LEMMA CalFacts ==
    ASSUME PpsInv
    PROVE  /\ {time_freq, pps_freq} \subseteq Int
           /\ L_GINT(time_freq) \in -MAXFREQ .. MAXFREQ
           /\ L_GINT(pps_freq) \in -MAXFREQ .. MAXFREQ
           /\ pps_shift \in PPS_FAVG .. PPS_FAVGMAX
           /\ pps_lastsec \in Int /\ pps_jitter \in Int
           /\ pps_intcnt \in -4 .. 4
           /\ time_monitor \in -MAXPHASE .. MAXPHASE
  BY DEF PpsInv, Inv, TypeOK, PhaseWithin, FreqClamped,
         PpsFreqClamped, FilterOK

LEMMA ShiftedFilter ==
    ASSUME PpsInv, NEW u \in RoundedPulse,
           pps_tf' = <<u, pps_tf[1], pps_tf[2]>>
    PROVE  \A i \in 1 .. 3 : /\ pps_tf'[i].sec \in Int
                             /\ pps_tf'[i].nsec \in -MAXPHASE .. MAXPHASE
  <1>1. pps_tf'[1] = u /\ pps_tf'[2] = pps_tf[1] /\ pps_tf'[3] = pps_tf[2]
    OBVIOUS
  <1>2. \A i \in 1 .. 3 : i = 1 \/ i = 2 \/ i = 3
    OBVIOUS
  <1>3. /\ u.sec \in Int /\ u.nsec \in -MAXPHASE .. MAXPHASE
        /\ \A i \in 1 .. 3 : /\ pps_tf[i].sec \in Int
                             /\ pps_tf[i].nsec \in -MAXPHASE .. MAXPHASE
    BY DEF RoundedPulse, PpsInv, FilterOK
  <1> QED BY <1>1, <1>2, <1>3

LEMMA HardppsSafe ==
    ASSUME PpsInv, NEW u \in RoundedPulse, NEW count \in Int,
           NEW bits, hardpps(u, count, bits)
    PROVE  HardppsLeaves
  <1>1. CASE Ignored(u, bits)
    BY <1>1, CalFacts DEF Ignored, filterVars, calVars, HardppsLeaves,
                          PpsInv, FilterOK
  <1>2. CASE Gated(u, count, bits)
    <2>1. WrapLong(pps_fcount + CountStep(count)) \in Int
      BY StepType DEF PpsInv
    <2>2. \A i \in 1 .. 3 : /\ pps_tf'[i].sec \in Int
                            /\ pps_tf'[i].nsec \in -MAXPHASE .. MAXPHASE
      BY <1>2, ShiftedFilter DEF Gated, Keep
    <2> QED BY <1>2, <2>1, <2>2, CalFacts
            DEF Gated, Keep, calVars, HardppsLeaves
  <1>3. CASE WithinInterval(u, count, bits)
    <2>1. WrapLong(pps_fcount + CountStep(count)) \in Int
      BY StepType DEF PpsInv
    <2>2. \A i \in 1 .. 3 : /\ pps_tf'[i].sec \in Int
                            /\ pps_tf'[i].nsec \in -MAXPHASE .. MAXPHASE
      BY <1>3, ShiftedFilter DEF WithinInterval, Keep
    <2>3. /\ time_monitor' \in -MAXPHASE .. MAXPHASE
          /\ pps_jitter' \in Int
      BY <1>3, PhaseSafe DEF WithinInterval
    <2> QED BY <1>3, <2>1, <2>2, <2>3, CalFacts
            DEF WithinInterval, Keep, calVars, HardppsLeaves
  <1>4. CASE Discarded(u, count, bits)
    <2>1. \A i \in 1 .. 3 : /\ pps_tf'[i].sec \in Int
                            /\ pps_tf'[i].nsec \in -MAXPHASE .. MAXPHASE
      BY <1>4, ShiftedFilter DEF Discarded
    <2>2. /\ time_monitor' \in -MAXPHASE .. MAXPHASE
          /\ pps_jitter' \in Int
      BY <1>4, PhaseSafe DEF Discarded
    <2>3. u.sec \in Int
      BY DEF RoundedPulse
    <2> QED BY <1>4, <2>1, <2>2, <2>3, CalFacts
            DEF Discarded, HardppsLeaves
  <1>5. CASE Calibrated(u, count, bits)
    <2> DEFINE change == RawChange(count)
               intcnt == pps_intcnt + (IF Wanders(change) THEN -1 ELSE 1)
    <2>1. \A i \in 1 .. 3 : /\ pps_tf'[i].sec \in Int
                            /\ pps_tf'[i].nsec \in -MAXPHASE .. MAXPHASE
      BY <1>5, ShiftedFilter DEF Calibrated
    <2>2. /\ time_monitor' \in -MAXPHASE .. MAXPHASE
          /\ pps_jitter' \in Int
      BY <1>5, PhaseSafe DEF Calibrated
    <2>3. u.sec \in Int
      BY DEF RoundedPulse
    <2>4. /\ Steered(change) \in Int
          /\ L_GINT(Steered(change)) \in -MAXFREQ .. MAXFREQ
      BY SteeredType
    <2>5. /\ pps_shift' = IntervalAfter(intcnt).shift
          /\ pps_intcnt' = IntervalAfter(intcnt).intcnt
          /\ pps_freq' = Steered(change)
          /\ time_freq' \in {Steered(change), time_freq}
          /\ pps_lastcount' = count /\ pps_fcount' = 0
          /\ pps_lastsec' = u.sec
      BY <1>5 DEF Calibrated
    <2>6. intcnt \in -5 .. 5
      BY CalFacts
    <2> HIDE DEF change, intcnt
    <2>7. pps_shift' \in PPS_FAVG .. PPS_FAVGMAX /\ pps_intcnt' \in -4 .. 4
      BY <2>5, <2>6, IntervalType
    <2> QED BY <2>1, <2>2, <2>3, <2>4, <2>5, <2>7, CalFacts DEF HardppsLeaves
  <1> QED BY <1>1, <1>2, <1>3, <1>4, <1>5 DEF hardpps

LEMMA PulseStatusType ==
    ASSUME NEW status \in SUBSET STA_BITS, NEW bits \in Flags
    PROVE  PulseStatus(status, bits) \in SUBSET STA_BITS
  BY DEF PulseStatus, Flags, PPS_FLAGS, STA_BITS, STA_RONLY

(* A pulse between two ticks, whatever time and count it carries.          *)
LEMMA HitInv ==
    ASSUME PpsInv, NEW u \in RoundedPulse, NEW count \in Int,
           NEW bits \in Flags,
           hardpps(u, count, bits),
           time_status' = PulseStatus(time_status, bits),
           time_offset' = OffsetSet(u, time_offset),
           pps_valid' = PPS_VALID, silence' \in Int,
           UNCHANGED <<timevar, leapVars, time_constant, time_reftime,
                       errorVars, tickVars, pps_shiftmax, drift>>
    PROVE  PpsInv'
  <1>1. time_offset' \in LoadedOffset
    BY OffsetSetType DEF PpsInv, Inv, TypeOK, OffsetRange, LoadedOffset
  <1>2. HardppsLeaves
    BY HardppsSafe
  <1>3. time_status' \in SUBSET STA_BITS
    BY PulseStatusType DEF PpsInv, Inv, TypeOK
  <1>4. UNCHANGED <<timevar, time_state, time_tai, time_constant,
                    time_reftime, time_maxerror, time_esterror, tickVars,
                    pps_shiftmax, drift>>
    BY DEF leapVars, errorVars
  <1>5. Inv'
    <2>1. /\ time_state' \in {time_state, "TIME_OK"}
          /\ {time_tai', time_maxerror', time_esterror', pps_freq'}
                  \subseteq Int
          /\ time_constant' \in 0 .. MAXTC
          /\ pps_shift' \in PPS_FAVG .. PPS_FAVGMAX
          /\ pps_shiftmax' \in PPS_FAVG .. PPS_FAVGMAX
          /\ pps_valid' \in 0 .. PPS_VALID
          /\ time_reftime' \in Nat
          /\ time_reftime' <= tv_sec
      BY <1>2, <1>4, KtimeAssumption
      DEF PpsInv, Inv, TypeOK, ReftimeNotAhead, HardppsLeaves
    <2>2. /\ time_monitor' \in -MAXPHASE .. MAXPHASE
          /\ time_freq' \in Int
          /\ L_GINT(time_freq') \in -MAXFREQ .. MAXFREQ
      BY <1>2 DEF HardppsLeaves
    <2>3. UNCHANGED <<timevar, tickVars>>
      BY <1>4
    <2>4. Inv
      BY DEF PpsInv
    <2> QED BY <1>1, <1>3, <2>1, <2>2, <2>3, <2>4, UpdateInv, Zenon
  <1>6. PpsFreqClamped' /\ FilterOK'
    BY <1>2, <1>4 DEF PpsFreqClamped, FilterOK, HardppsLeaves, PpsInv
  <1> QED BY <1>5, <1>6 DEF PpsInv

LEMMA SecondOfType ==
    ASSUME tv_sec \in Int, NEW phase
    PROVE  SecondOf(phase) \in Int
  BY DEF SecondOf

LEMMA PulseInv ==
    ASSUME PpsInv, NEW phase \in Int, Pulse(phase)
    PROVE  PpsInv'
  <1> DEFINE u == PulseTime(phase, SecondOf(phase))
  <1>1. u \in RoundedPulse
    BY RoundedType, SecondOfType DEF PpsInv, Inv, TypeOK
  <1>2. Count(u) \in Int
    BY <1>1, CountType DEF PpsInv, FilterOK
  <1>3. PICK bits \in Flags :
            /\ hardpps(u, Count(u), bits)
            /\ time_status' = PulseStatus(time_status, bits)
    BY DEF Pulse
  <1>4. time_offset' = OffsetSet(u, time_offset)
    BY DEF Pulse
  <1> HIDE DEF u
  <1>5. /\ pps_valid' = PPS_VALID /\ silence' = 0
        /\ UNCHANGED <<timevar, leapVars, time_constant, time_reftime,
                       errorVars, tickVars, pps_shiftmax, drift>>
    BY DEF Pulse
  <1> QED BY <1>1, <1>2, <1>3, <1>4, <1>5, HitInv

(* What an interrupted rollover leaves of the offset, the adjustment, the  *)
(* status word and the watchdog, wherever in it the pulse comes.           *)
Interrupted(u, bits) ==
    \/ BeforeSubtraction(u, bits)
    \/ InSubtraction(bits)
    \/ BeforeFrequency(u, bits)
    \/ BeforeWatchdog(u, bits)
    \/ InWatchdog(u, bits)

LEMMA ShiftsType ==
    ASSUME TypeOK, HardppsLeaves, NEW shift \in ShiftsAround
    PROVE  shift \in Nat /\ (PPS_SYNC => shift > 0)
  <1>1. OffsetShift \in Nat /\ (PPS_SYNC => OffsetShift > 0)
    BY OffsetShiftType
  <1>2. pps_shift' \in Nat /\ (PPS_SYNC => pps_shift' > 0)
    BY KtimeAssumption DEF HardppsLeaves
  <1>3. shift \in {OffsetShift, pps_shift'}
    BY DEF ShiftsAround
  <1> QED BY <1>1, <1>2, <1>3

LEMMA LeftInt ==
    ASSUME TypeOK, PhaseWithin(PhaseReach)
    PROVE  /\ OffsetLeft \in Int
           /\ OffsetLeft \in -L_LINT(PhaseReach) .. L_LINT(PhaseReach)
  BY LeftWithin, ReachType

(* A part of the old offset is at most half of the reach, and so is an     *)
(* offset that the pulse has set.                                          *)
LEMMA TornWithin ==
    ASSUME PpsInv, HardppsLeaves, NEW u \in RoundedPulse,
           NEW shift \in ShiftsAround
    PROVE  LET part == L_RSHIFT(time_offset, shift)
           IN  /\ part \in Int
               /\ -L_LINT(MAXPHASE) <= part /\ part <= L_LINT(MAXPHASE)
               /\ OffsetSet(u, time_offset) - part
                       \in -L_LINT(PhaseReach) .. L_LINT(PhaseReach)
  <1> DEFINE part == L_RSHIFT(time_offset, shift)
             set == OffsetSet(u, time_offset)
  <1>1. /\ shift \in Nat /\ PPS_SYNC /\ shift > 0
    BY ShiftsType, PpsAssumption DEF PpsInv, Inv
  <1>2. /\ time_offset \in Int
        /\ time_offset \in L_LINT(-PhaseReach) .. L_LINT(PhaseReach)
    BY DEF PpsInv, Inv, TypeOK, PhaseWithin
  <1>3. /\ part \in Int
        /\ -L_LINT(MAXPHASE) <= part /\ part <= L_LINT(MAXPHASE)
    BY <1>1, <1>2, PartWithin
  <1>4. /\ time_offset >= 0 => part \in 0 .. time_offset
        /\ time_offset <= 0 => part \in time_offset .. 0
    BY <1>1, <1>2, ShiftShrinks
  <1>5. set \in OffsetRange \cup {time_offset} /\ set \in Int
    BY <1>2, OffsetSetType
  <1> HIDE DEF part, set
  <1>6. set - part \in -L_LINT(PhaseReach) .. L_LINT(PhaseReach)
    <2>1. CASE set \in OffsetRange
      BY <1>1, <1>3, <1>5, <2>1, ReachType DEF OffsetRange
    <2>2. CASE set = time_offset
      BY <1>2, <1>3, <1>4, <2>2, ReachType
    <2> QED BY <1>5, <2>1, <2>2
  <1> QED BY <1>3, <1>6 DEF part, set

LEMMA InterruptedRollover ==
    ASSUME PpsInv, HardppsLeaves, NEW u \in RoundedPulse, NEW bits \in Flags,
           Interrupted(u, bits)
    PROVE  /\ time_offset' \in Int
           /\ time_offset' \in -L_LINT(PhaseReach) .. L_LINT(PhaseReach)
           /\ time_adj' \in Int /\ RunsForward'
           /\ time_status' \in SUBSET STA_BITS
           /\ pps_valid' \in 0 .. PPS_VALID
  <1> DEFINE Adjusted == \E part, freq \in Int :
                             /\ -L_LINT(MAXPHASE) <= part
                             /\ part <= L_LINT(MAXPHASE)
                             /\ L_GINT(freq) \in -MAXFREQ .. MAXFREQ
                             /\ time_adj' = Adjustment(part, freq)
             Reached == time_offset' \in
                            -L_LINT(PhaseReach) .. L_LINT(PhaseReach)
  <1>1. /\ TypeOK /\ PhaseWithin(PhaseReach) /\ FreqClamped
        /\ time_status \in SUBSET STA_BITS
        /\ pps_valid \in 0 .. PPS_VALID
        /\ time_freq \in Int /\ L_GINT(time_freq) \in -MAXFREQ .. MAXFREQ
    BY DEF PpsInv, Inv, TypeOK, FreqClamped
  <1>2. /\ PPS_VALID \in Nat /\ PPS_VALID > 0
    BY PpsAssumption, KtimeAssumption
  <1>3. time_freq' \in Int /\ L_GINT(time_freq') \in -MAXFREQ .. MAXFREQ
    BY DEF HardppsLeaves
  <1>4. PulseStatus(time_status, bits) \in SUBSET STA_BITS
    BY <1>1, PulseStatusType
  <1>5. /\ Amortized \in Int
        /\ -L_LINT(MAXPHASE) <= Amortized /\ Amortized <= L_LINT(MAXPHASE)
    BY <1>1, AmortizedWithin
  <1>6. /\ OffsetLeft \in -L_LINT(PhaseReach) .. L_LINT(PhaseReach)
        /\ OffsetSet(u, OffsetLeft)
                \in -L_LINT(PhaseReach) .. L_LINT(PhaseReach)
    <2>1. /\ OffsetLeft \in Int
          /\ OffsetLeft \in -L_LINT(PhaseReach) .. L_LINT(PhaseReach)
      BY <1>1, LeftInt
    <2>2. OffsetSet(u, OffsetLeft) \in OffsetRange \cup {OffsetLeft}
      BY <2>1, OffsetSetType
    <2> QED BY <2>1, <2>2, ReachType DEF OffsetRange
  <1>7. Reached /\ Adjusted
    <2>1. CASE BeforeSubtraction(u, bits)
      <3>1. PICK shift \in ShiftsAround :
                /\ time_offset' = OffsetSet(u, time_offset)
                                      - L_RSHIFT(time_offset, shift)
                /\ time_adj' = L_RSHIFT(time_offset, shift) + time_freq'
                                   + L_LINT(NANOSECOND)
        BY <2>1, Zenon DEF BeforeSubtraction
      <3> DEFINE part == L_RSHIFT(time_offset, shift)
      <3>2. /\ part \in Int
            /\ -L_LINT(MAXPHASE) <= part /\ part <= L_LINT(MAXPHASE)
            /\ OffsetSet(u, time_offset) - part
                    \in -L_LINT(PhaseReach) .. L_LINT(PhaseReach)
        BY TornWithin
      <3>3. time_adj' = Adjustment(part, time_freq')
        BY <3>1 DEF Adjustment
      <3>4. Reached
        BY <3>1, <3>2
      <3> HIDE DEF part
      <3> QED BY <1>3, <3>2, <3>3, <3>4
    <2>2. CASE InSubtraction(bits) \/ BeforeFrequency(u, bits)
      <3>1. /\ time_offset' \in {OffsetLeft, OffsetSet(u, OffsetLeft)}
            /\ time_adj' = Adjustment(Amortized, time_freq')
        BY <2>2 DEF InSubtraction, BeforeFrequency, Adjustment
      <3> QED BY <1>3, <1>5, <1>6, <3>1
    <2>3. CASE BeforeWatchdog(u, bits) \/ InWatchdog(u, bits)
      <3>1. /\ time_offset' = OffsetSet(u, OffsetLeft)
            /\ time_adj' = Adjustment(Amortized, time_freq)
        BY <2>3 DEF BeforeWatchdog, InWatchdog, SecondAdjustment, Adjustment
      <3> QED BY <1>1, <1>5, <1>6, <3>1
    <2> QED BY <2>1, <2>2, <2>3 DEF Interrupted
  <1>8. time_adj' \in Int /\ RunsForward'
    <2>1. PICK part \in Int, freq \in Int :
              /\ -L_LINT(MAXPHASE) <= part
              /\ part <= L_LINT(MAXPHASE)
              /\ L_GINT(freq) \in -MAXFREQ .. MAXFREQ
              /\ time_adj' = Adjustment(part, freq)
      BY <1>7
    <2> QED BY <2>1, AdjustmentBounds DEF RunsForward
  <1>9. /\ time_status' \in SUBSET STA_BITS
        /\ pps_valid' \in 0 .. PPS_VALID
    <2>1. CASE SignalSeen(bits) /\ StillValid
      BY <1>2, <1>4, <2>1 DEF SignalSeen, StillValid
    <2>2. CASE InWatchdog(u, bits)
      BY <1>1, <1>2, <1>4, <2>2 DEF InWatchdog, SignalSeen
    <2> QED BY <2>1, <2>2 DEF Interrupted, BeforeSubtraction, InSubtraction,
                              BeforeFrequency, BeforeWatchdog
  <1>10. time_offset' \in Int
    BY <1>7, ReachType
  <1> QED BY <1>7, <1>8, <1>9, <1>10

LEMMA PreemptedOverflowInv ==
    ASSUME PpsInv, NEW phase \in Int, PreemptedOverflow(phase)
    PROVE  PpsInv'
  <1> DEFINE u == PulseTime(phase, tv_sec + 1)
  <1> Inv
    BY DEF PpsInv
  <1>1. u \in RoundedPulse
    BY RoundedType DEF Inv, TypeOK
  <1>2. Count(u) \in Int
    BY <1>1, CountType DEF PpsInv, FilterOK
  <1>3. PICK bits \in Flags : hardpps(u, Count(u), bits)
                              /\ Interrupted(u, bits)
    BY DEF PreemptedOverflow, Interrupted
  <1> HIDE DEF u
  <1>4. HardppsLeaves
    BY <1>1, <1>2, <1>3, HardppsSafe
  <1>5. /\ time_offset' \in Int
        /\ time_offset' \in -L_LINT(PhaseReach) .. L_LINT(PhaseReach)
        /\ time_adj' \in Int /\ RunsForward'
        /\ time_status' \in SUBSET STA_BITS
        /\ pps_valid' \in 0 .. PPS_VALID
    BY <1>1, <1>3, <1>4, InterruptedRollover
  <1>6. /\ tv_nsec' = TickAdjusted - NANOSECOND
        /\ time_phase' = time_phase + time_adj - L_LINT(TickUpdate * hz)
        /\ TickAdjusted >= NANOSECOND
        /\ LeapStep(tv_sec + 1)
        /\ time_maxerror' = WrapLong(time_maxerror + CDiv(MAXFREQ, NSPERUS))
        /\ silence' = 0
        /\ UNCHANGED <<time_constant, time_reftime, time_esterror,
                       pps_shiftmax, drift>>
    BY DEF PreemptedOverflow, TickPhase
  <1>7. /\ time_phase' \in Int
        /\ 0 <= time_phase' /\ time_phase' < L_LINT(hz)
    BY <1>6, TickBounds DEF Inv
  <1>8. tv_nsec' \in 0 .. NANOSECOND - 1
    <2>1. TickUpdate \in 0 .. NANOSECOND
      BY TickBounds DEF Inv
    <2> QED BY <1>6, <2>1, TimexAssumption DEF TickAdjusted, Inv, Normalized
  <1>9. /\ tv_sec' \in Nat /\ tv_sec' >= tv_sec
        /\ time_state' \in TIME_STATES
        /\ time_tai' \in Int
        /\ LeapAtMidnight'
    BY <1>6, LeapStepSafe DEF Inv
  <1>10. time_maxerror' \in Int
    <2>1. CDiv(MAXFREQ, NSPERUS) \in Int
      BY CDivShrinks, TimexAssumption
    <2>2. time_maxerror + CDiv(MAXFREQ, NSPERUS) \in Int
      BY <2>1 DEF Inv, TypeOK
    <2> QED BY <1>6, <2>2, WrapType
  <1>11. /\ {time_monitor', time_freq', pps_freq'} \subseteq Int
         /\ PhaseWithin(PhaseReach)' /\ FreqClamped'
    BY <1>4, <1>5, ReachType, TimexAssumption
    DEF HardppsLeaves, PhaseWithin, FreqClamped
  <1>12. /\ time_constant' \in 0 .. MAXTC
         /\ time_reftime' \in Nat
         /\ time_reftime' <= tv_sec'
         /\ time_esterror' \in Int
         /\ pps_shiftmax' \in PPS_FAVG .. PPS_FAVGMAX
    BY <1>6, <1>9, KtimeAssumption DEF Inv, TypeOK, ReftimeNotAhead
  <1>13. pps_shift' \in PPS_FAVG .. PPS_FAVGMAX
    BY <1>4 DEF HardppsLeaves
  <1>14. TypeOK'
    BY <1>5, <1>7, <1>8, <1>9, <1>10, <1>11, <1>12, <1>13,
       TimexAssumption DEF TypeOK
  <1>15. Inv'
    BY <1>5, <1>7, <1>8, <1>9, <1>11, <1>12, <1>14
    DEF Inv, Normalized, ResidueBounded, ReftimeNotAhead
  <1>16. PpsFreqClamped' /\ FilterOK'
    BY <1>4, <1>6 DEF PpsFreqClamped, FilterOK, HardppsLeaves, PpsInv
  <1> QED BY <1>15, <1>16 DEF PpsInv

LEMMA PpsInitInv == PpsInit => PpsInv
  <1> SUFFICES ASSUME PpsInit PROVE PpsInv
    OBVIOUS
  <1>1. Inv
    BY InitInv DEF PpsInit
  <1>2. L_GINT(0) = 0
    <2>1. L_LINT(0) = 0
      BY FracType DEF L_LINT
    <2> QED BY <2>1, GintLint
  <1>3. PpsFreqClamped
    BY <1>2, TimexAssumption DEF PpsInit, Init, PpsFreqClamped
  <1>4. FilterOK
    <2>1. \A i \in 1 .. 3 : pps_tf[i] = Stamp(0, 0)
      BY DEF PpsInit
    <2>2. drift \in Int
      BY PpsAssumption DEF PpsInit
    <2> QED BY <2>1, <2>2, TimexAssumption DEF PpsInit, FilterOK, Stamp
  <1> QED BY <1>1, <1>3, <1>4 DEF PpsInv

(* The actions of Ktime do not touch the filter, and set the PPS frequency *)
(* only to a clamped one.                                                  *)
LEMMA OthersInv ==
    ASSUME PpsInv, Others, Inv', PpsFreqClamped', silence' \in Int
    PROVE  PpsInv'
  BY DEF PpsInv, Others, filterVars, FilterOK

LEMMA AdjTimePpsFreq ==
    ASSUME PpsInv, NEW r \in TimexRequest, AdjTime(r)
    PROVE  PpsFreqClamped'
  <1>1. L_GINT(pps_freq) \in -MAXFREQ .. MAXFREQ
    BY DEF PpsInv, PpsFreqClamped
  <1>2. pps_freq' \in {pps_freq, FreqOf(r)}
    BY DEF AdjTime
  <1>3. r.freq \in Int
    BY DEF TimexRequest
  <1>4. CDiv(r.freq, SCALE_PPM) \in Int
    BY <1>3, CDivShrinks, TimexAssumption
  <1>5. Clamp(CDiv(r.freq, SCALE_PPM), MAXFREQ) \in -MAXFREQ .. MAXFREQ
    BY <1>4, ClampType, TimexAssumption
  <1>6. L_GINT(FreqOf(r)) \in -MAXFREQ .. MAXFREQ
    BY <1>5, LoadedFreq DEF FreqOf
  <1> QED BY <1>1, <1>2, <1>6 DEF PpsFreqClamped

LEMMA PpsNextInv == PpsInv /\ [PpsNext]_pvars => PpsInv'
  <1> SUFFICES ASSUME PpsInv, [PpsNext]_pvars PROVE PpsInv'
    OBVIOUS
  <1> Inv /\ silence \in Int
    BY DEF PpsInv, FilterOK
  <1>1. CASE Tick /\ Others /\ UNCHANGED silence
    <2>1. Inv' /\ PpsFreqClamped'
      BY <1>1, TickInv DEF Tick, ppsVars, PpsInv, PpsFreqClamped
    <2> QED BY <1>1, <2>1, OthersInv
  <1>2. CASE SecondOverflow /\ Others /\ silence' = silence + 1
    <2>1. Inv' /\ PpsFreqClamped'
      BY <1>2, SecondOverflowInv DEF SecondOverflow, PpsInv, PpsFreqClamped
    <2> QED BY <1>2, <2>1, OthersInv
  <1>3. CASE (\E r \in Requests : AdjTime(r)) /\ Others /\ UNCHANGED silence
    <2>1. Inv' /\ PpsFreqClamped'
      BY <1>3, AdjTimeInv, AdjTimePpsFreq, KtimeAssumption
    <2> QED BY <1>3, <2>1, OthersInv
  <1>4. CASE (\E offset \in Offsets : Discipline(offset))
             /\ Others /\ UNCHANGED silence
    <2>1. Inv'
      BY <1>4, DisciplineInv, KtimeAssumption
    <2>2. UNCHANGED pps_freq
      BY <1>4 DEF Discipline, ppsVars
    <2>3. PpsFreqClamped'
      BY <2>2 DEF PpsInv, PpsFreqClamped
    <2> QED BY <1>4, <2>1, <2>3, OthersInv
  <1>5. CASE \E phase \in Phases : Pulse(phase) \/ PreemptedOverflow(phase)
    <2>1. Phases \subseteq Int
      BY PpsAssumption DEF Phases
    <2> QED BY <1>5, <2>1, PulseInv, PreemptedOverflowInv
  <1>6. CASE UNCHANGED pvars
    <2>1. UNCHANGED <<kvars, pps_freq>> /\ Others /\ UNCHANGED silence
      BY <1>6 DEF pvars, kvars, ppsVars, filterVars, Others
    <2>2. Inv' /\ PpsFreqClamped'
      BY <2>1, StutterInv DEF PpsInv, PpsFreqClamped
    <2> QED BY <2>1, <2>2, OthersInv
  <1> QED BY <1>1, <1>2, <1>3, <1>4, <1>5, <1>6 DEF PpsNext

(* The PPS pulses keep the clock normalized, running forward, its          *)
(* frequencies in the envelope and its pending offset within twice         *)
(* MAXPHASE, whatever times and counts they carry, between two calls of the*)
(* kernel and at each place of second_overflow() (ktime.c:404-530) where it*)
(* uses or stores what the pulse sets.                                     *)
THEOREM PpsInvHolds == PpsSpec => []PpsInv
  BY PpsInitInv, PpsNextInv, PTL DEF PpsSpec

(***************************************************************************)
(* What the pulses leave to the clock and to the leap machine.  A pulse is *)
(* invisible to them; one that preempts the tick handler comes back to the *)
(* same switch on the clock's state.                                       *)
(***************************************************************************)
LEMMA PpsCalls ==
    ASSUME PpsInv, [PpsNext]_pvars
    PROVE  \/ [AnyCall]_kvars
           \/ UNCHANGED <<timevar, leapVars>>
           \/ \E phase \in Phases : PreemptedOverflow(phase)
  <1>1. CASE \/ Tick /\ Others /\ UNCHANGED silence
             \/ SecondOverflow /\ Others /\ silence' = silence + 1
    BY <1>1 DEF AnyCall
  <1>2. CASE \/ (\E r \in Requests : AdjTime(r)) /\ Others
                                                 /\ UNCHANGED silence
             \/ (\E offset \in Offsets : Discipline(offset)) /\ Others
                                                 /\ UNCHANGED silence
    BY <1>2, KtimeAssumption DEF AnyCall
  <1>3. CASE \E phase \in Phases : Pulse(phase)
    BY <1>3 DEF Pulse
  <1>4. CASE UNCHANGED pvars
    BY <1>4 DEF pvars
  <1> QED BY <1>1, <1>2, <1>3, <1>4 DEF PpsNext

LEMMA PpsUtcStep ==
    ASSUME PpsInv, [PpsNext]_pvars
    PROVE  [Utc!Next]_(Utc!vars)
  <1> Inv
    BY DEF PpsInv
  <1>1. CASE [AnyCall]_kvars
    BY <1>1, UtcStep
  <1>2. CASE UNCHANGED <<timevar, leapVars>>
    BY <1>2, UtcStutter DEF timevar, leapVars
  <1>3. CASE \E phase \in Phases : PreemptedOverflow(phase)
    BY <1>3, UtcRollover DEF PreemptedOverflow
  <1> QED BY <1>1, <1>2, <1>3, PpsCalls

LEMMA PpsForwardStep ==
    ASSUME PpsInv, [PpsNext]_pvars
    PROVE  \/ UNCHANGED timevar
           \/ tv_sec' > tv_sec
           \/ tv_sec' = tv_sec /\ tv_nsec' >= tv_nsec
           \/ /\ time_state = "TIME_INS" /\ time_state' = "TIME_OOP"
              /\ tv_sec' = tv_sec
  <1> Inv
    BY DEF PpsInv
  <1>1. CASE [AnyCall]_kvars
    BY <1>1, ForwardStep
  <1>2. CASE UNCHANGED <<timevar, leapVars>>
    BY <1>2
  <1>3. CASE \E phase \in Phases : PreemptedOverflow(phase)
    BY <1>3, ForwardRollover DEF PreemptedOverflow
  <1> QED BY <1>1, <1>2, <1>3, PpsCalls

(* With pulses, also ones that preempt second_overflow() (ktime.c:404-530),*)
(* the clock implements the UTC clock of UtcClock, and is set back only to *)
(* begin an inserted second.                                               *)
THEOREM PpsRefinesUtc == PpsSpec => RefinesUtc /\ ForwardOutsideLeap
  <1>1. PpsInit => Utc!Init
    BY UtcInit DEF PpsInit, Init
  <1>2. PpsInv /\ [PpsNext]_pvars => [Utc!Next]_(Utc!vars)
    BY PpsUtcStep
  <1>3. PpsInv /\ [PpsNext]_pvars =>
            [ \/ tv_sec' > tv_sec
              \/ tv_sec' = tv_sec /\ tv_nsec' >= tv_nsec
              \/ /\ time_state = "TIME_INS" /\ time_state' = "TIME_OOP"
                 /\ tv_sec' = tv_sec ]_timevar
    BY PpsForwardStep
  <1> QED BY <1>1, <1>2, <1>3, PpsInvHolds, PTL
          DEF PpsSpec, RefinesUtc, Utc!Spec, ForwardOutsideLeap

(* Each rollover of the second counts one second of atomic time, whether a *)
(* pulse comes in the middle of it or not.                                 *)
THEOREM PpsTaiContinuous ==
    PpsSpec =>
        [][ \/ SecondOverflow
            \/ \E phase \in Phases : PreemptedOverflow(phase)
            => Elapsed' = Elapsed + 1 ]_pvars
  <1>1. ASSUME PpsInv,
               \/ SecondOverflow
               \/ \E phase \in Phases : PreemptedOverflow(phase)
        PROVE  Elapsed' = Elapsed + 1
    BY <1>1, ElapsedStep DEF PpsInv, SecondOverflow, PreemptedOverflow
  <1>2. PpsInv /\ [PpsNext]_pvars =>
            [ \/ SecondOverflow
              \/ \E phase \in Phases : PreemptedOverflow(phase)
              => Elapsed' = Elapsed + 1 ]_pvars
    BY <1>1
  <1> QED BY <1>2, PpsInvHolds, PTL DEF PpsSpec

(***************************************************************************)
(* The watchdog.                                                           *)
(***************************************************************************)

(* While the signal is reported, the watchdog has been wound by a pulse and*)
(* has lost at least a count in each second since.                         *)
Wound == Has("STA_PPSSIGNAL") => silence + pps_valid <= PPS_VALID

(* Only hardpps() sets the bit: it is read-only to callers.                *)
LEMMA SignalKept ==
    ASSUME NEW status, NEW constant, NEW offset,
           "STA_PPSSIGNAL" \in hardupdate(status, constant, offset).status
    PROVE  "STA_PPSSIGNAL" \in status
  <1> DEFINE h == hardupdate(status, constant, offset)
  <1>1. h.status \in {status, NewMode(status, UpdateInterval(status))}
    <2>1. CASE "STA_PLL" \notin status
      <3>1. h = Unlocked(status)
        BY <2>1 DEF hardupdate
      <3> QED BY <3>1 DEF Unlocked
    <2>2. CASE "STA_PLL" \in status
      <3>1. h.status = IF PpsSteering(status) THEN status
                       ELSE NewMode(status, UpdateInterval(status))
        BY <2>2 DEF hardupdate
      <3> QED BY <3>1
    <2> QED BY <2>1, <2>2
  <1>2. "STA_PPSSIGNAL" \in NewMode(status, UpdateInterval(status))
            => "STA_PPSSIGNAL" \in status
    BY DEF NewMode
  <1> QED BY <1>1, <1>2

LEMMA AdjTimeSignal ==
    ASSUME NEW r \in Requests, AdjTime(r), "STA_PPSSIGNAL" \in time_status'
    PROVE  Has("STA_PPSSIGNAL")
  <1> DEFINE selected == SelectedStatus(r)
  <1>1. "STA_PPSSIGNAL" \in WrittenStatus(r) => Has("STA_PPSSIGNAL")
    BY DEF WrittenStatus, Has, STA_RONLY
  <1>2. "STA_PPSSIGNAL" \in selected => "STA_PPSSIGNAL" \in WrittenStatus(r)
    BY DEF SelectedStatus, SelectBit
  <1>3. time_status' = LoopAfter(r).status
    BY DEF AdjTime
  <1> HIDE DEF selected
  <1>4. "STA_PPSSIGNAL" \in selected
    <2>1. CASE "MOD_OFFSET" \in r.modes
      <3>1. LoopAfter(r) = hardupdate(selected, ConstantAfter(r),
                                      OffsetOf(r, selected))
        BY <2>1, Zenon DEF LoopAfter, selected
      <3> QED BY <1>3, <3>1, SignalKept
    <2>2. CASE "MOD_OFFSET" \notin r.modes
      <3>1. LoopAfter(r) = Unlocked(selected)
        BY <2>2, Zenon DEF LoopAfter, selected
      <3> QED BY <1>3, <3>1 DEF Unlocked
    <2> QED BY <2>1, <2>2
  <1> QED BY <1>1, <1>2, <1>4

LEMMA WoundNext == PpsInv /\ Wound /\ [PpsNext]_pvars => Wound'
  <1> SUFFICES ASSUME PpsInv, Wound, [PpsNext]_pvars,
                      "STA_PPSSIGNAL" \in time_status'
               PROVE  silence' + pps_valid' <= PPS_VALID
    BY DEF Wound, Has
  <1>1. /\ pps_valid \in 0 .. PPS_VALID /\ PPS_VALID \in Nat
        /\ silence \in Int
        /\ Has("STA_PPSSIGNAL") => silence + pps_valid <= PPS_VALID
    BY KtimeAssumption DEF PpsInv, Inv, TypeOK, FilterOK, Wound
  <1>2. CASE Tick /\ Others /\ UNCHANGED silence
    BY <1>1, <1>2 DEF Tick, ppsVars, Has
  <1>3. CASE SecondOverflow /\ Others /\ silence' = silence + 1
    <2>1. /\ pps_valid' = IF pps_valid > 0 THEN pps_valid - 1 ELSE pps_valid
          /\ time_status' = IF pps_valid = 0
                            THEN time_status \ {"STA_PPSSIGNAL"}
                            ELSE time_status
      BY <1>3, PpsAssumption DEF SecondOverflow, PpsWatchdog
    <2>2. pps_valid > 0 /\ Has("STA_PPSSIGNAL")
      BY <1>1, <2>1 DEF Has
    <2> QED BY <1>1, <1>3, <2>1, <2>2
  <1>4. CASE (\E r \in Requests : AdjTime(r)) /\ Others /\ UNCHANGED silence
    <2>1. UNCHANGED pps_valid
      BY <1>4 DEF AdjTime
    <2>2. Has("STA_PPSSIGNAL")
      BY <1>4, AdjTimeSignal
    <2> QED BY <1>1, <1>4, <2>1, <2>2
  <1>5. CASE (\E offset \in Offsets : Discipline(offset))
             /\ Others /\ UNCHANGED silence
    <2>1. PICK offset \in Offsets : Discipline(offset)
      BY <1>5
    <2>2. UNCHANGED pps_valid
      BY <2>1 DEF Discipline, ppsVars
    <2>3. time_status' =
              hardupdate(time_status, time_constant, offset).status
      BY <2>1 DEF Discipline
    <2>4. Has("STA_PPSSIGNAL")
      BY <2>3, SignalKept DEF Has
    <2> QED BY <1>1, <1>5, <2>2, <2>4
  <1>6. CASE \E phase \in Phases : Pulse(phase)
    BY <1>1, <1>6 DEF Pulse
  <1>7. CASE \E phase \in Phases : PreemptedOverflow(phase)
    <2>1. PICK phase \in Phases : PreemptedOverflow(phase)
      BY <1>7
    <2>2. /\ pps_valid' \in {PPS_VALID - 1, pps_valid - 1, PPS_VALID}
          /\ silence' = 0
      BY <2>1 DEF PreemptedOverflow, BeforeSubtraction, InSubtraction,
                  BeforeFrequency, BeforeWatchdog, InWatchdog, StillValid
    <2>3. pps_valid' <= PPS_VALID /\ pps_valid' \in Int
      BY <1>1, <2>2
    <2>4. silence' = 0
      BY <2>2
    <2>5. \A v \in Int, limit \in Nat : v <= limit => 0 + v <= limit
      OBVIOUS
    <2>6. 0 + pps_valid' <= PPS_VALID
      BY <1>1, <2>3, <2>5, Zenon
    <2> QED BY <2>4, <2>6, Zenon
  <1>8. CASE UNCHANGED pvars
    BY <1>1, <1>8 DEF pvars, kvars, ppsVars, Has
  <1> QED BY <1>2, <1>3, <1>4, <1>5, <1>6, <1>7, <1>8 DEF PpsNext

(* However long the watchdog is, and although a pulse may overtake its own *)
(* store, the PPS signal is reported only within its time of a pulse.      *)
THEOREM SignalFreshHolds == PpsSpec => []SignalFresh
  <1>1. PpsInit => Wound
    BY DEF PpsInit, Init, Wound, Has
  <1>2. PpsInv /\ Wound => SignalFresh
    BY KtimeAssumption DEF PpsInv, Inv, TypeOK, FilterOK, Wound, SignalFresh
  <1> QED BY <1>1, <1>2, WoundNext, PpsInvHolds, PTL DEF PpsSpec

(***************************************************************************)
(* Spurious pulses.  The theorem is about pulses that are where the pulse  *)
(* routine's rounding puts them, spurious ones farther from every good one *)
(* than the range gate is wide, and about a phase that nothing else sets.  *)
(***************************************************************************)
GoodPhase == Jitter \cup {0}

PhasesRounded ==
    Jitter \cup Spikes
        \subseteq -(NANOSECOND - NANOSECOND \div 2) .. NANOSECOND \div 2 - 1

SpikesApart ==
    \A spike \in Spikes, good \in GoodPhase :
        good - spike \notin -MAXFREQ .. MAXFREQ

OnlyPulsesSteer ==
    /\ \A r \in Requests : "MOD_OFFSET" \notin r.modes
    /\ \A offset \in Offsets : -Clamp(offset, MAXPHASE) \in GoodPhase

(* The filter holds spurious pulses too; the monitor does not.             *)
SpikeInv ==
    /\ SpikeRejected
    /\ \A i \in 1 .. 2 : pps_tf[i].nsec \in GoodPhase \cup Spikes

LEMMA PulsePhase ==
    ASSUME PhasesRounded, NEW phase \in Jitter \cup Spikes, NEW sec \in Int
    PROVE  PulseTime(phase, sec).nsec = phase
  <1> DEFINE n == phase % NANOSECOND
             half == NANOSECOND \div 2
  <1>1. /\ NANOSECOND \in Nat \ {0} /\ half \in Nat /\ half < NANOSECOND
        /\ phase \in Int
        /\ phase >= -(NANOSECOND - half) /\ phase < half
    BY TimexAssumption, PpsAssumption DEF PhasesRounded
  <1>2. CASE phase >= 0
    <2>1. n = phase
      BY <1>1, <1>2
    <2> HIDE DEF n
    <2>2. ~(n >= half)
      BY <1>1, <2>1
    <2>3. PulseTime(phase, sec) = Stamp(sec, n)
      BY <2>2, Zenon DEF PulseTime, Rounded, Stamp, n, half
    <2> QED BY <2>1, <2>3 DEF Stamp
  <1>3. CASE ~(phase >= 0)
    <2>1. n = phase + NANOSECOND
      BY <1>1, <1>3
    <2> HIDE DEF n
    <2>2. n >= half
      BY <1>1, <2>1
    <2>3. PulseTime(phase, sec) = Stamp(sec + 1, n - NANOSECOND)
      BY <2>2 DEF PulseTime, Rounded, Stamp, n, half
    <2> QED BY <1>1, <2>1, <2>3 DEF Stamp
  <1> QED BY <1>2, <1>3

(* Two good phases a gate apart leave no room for a spurious one between.  *)
LEMMA MedianGood ==
    ASSUME SpikesApart, NEW a \in GoodPhase, NEW b \in GoodPhase,
           NEW c \in GoodPhase \cup Spikes, a - b \in -MAXFREQ .. MAXFREQ
    PROVE  Median(a, b, c) \in GoodPhase
  <1>1. a \in Int /\ b \in Int /\ c \in Int /\ MAXFREQ \in Nat
    BY PpsAssumption, TimexAssumption DEF GoodPhase
  <1>2. Median(a, b, c) \in {a, b, c}
    BY <1>1 DEF Median, Larger, Smaller
  <1>3. CASE c \in GoodPhase
    BY <1>2, <1>3
  <1>4. CASE c \in Spikes
    <2>1. a - c \notin -MAXFREQ .. MAXFREQ /\ b - c \notin -MAXFREQ .. MAXFREQ
      BY <1>4 DEF SpikesApart
    <2>2. \/ c < a /\ c < b
          \/ c > a /\ c > b
      BY <1>1, <2>1
    <2>3. Median(a, b, c) \in {a, b}
      BY <1>1, <2>2 DEF Median, Larger, Smaller
    <2> QED BY <2>3
  <1> QED BY <1>3, <1>4

(* What passes the gate is a good pulse after another.                     *)
LEMMA SteeredByGood ==
    ASSUME SpikesApart, PpsInv, SpikeInv, NEW u \in RoundedPulse,
           u.nsec \in Phases, Phase(u)
    PROVE  SpikeRejected'
  <1>1. /\ MAXFREQ \in Nat /\ InGate(u)
        /\ time_monitor' \in {time_monitor, -MedianWith(u)}
    BY TimexAssumption DEF Phase
  <1>2. /\ pps_tf[1].nsec \in GoodPhase \cup Spikes
        /\ pps_tf[2].nsec \in GoodPhase \cup Spikes
    BY DEF SpikeInv
  <1>3. u.nsec - pps_tf[1].nsec \in -MAXFREQ .. MAXFREQ
    BY <1>1 DEF InGate
  <1>4. u.nsec \in GoodPhase
    BY <1>3 DEF Phases, GoodPhase
  <1>5. pps_tf[1].nsec \in GoodPhase
    BY <1>2, <1>3, <1>4 DEF SpikesApart
  <1>6. MedianWith(u) \in GoodPhase
    BY <1>2, <1>3, <1>4, <1>5, MedianGood DEF MedianWith
  <1>7. -time_monitor \in GoodPhase
    BY DEF SpikeInv, SpikeRejected, GoodPhase
  <1>8. CASE time_monitor' = -MedianWith(u)
    <2> DEFINE m == MedianWith(u)
    <2>1. m \in Int
      <3>1. GoodPhase \subseteq Int
        BY PpsAssumption DEF GoodPhase
      <3> QED BY <1>6, <3>1
    <2> HIDE DEF m
    <2>2. -(-m) = m
      BY <2>1
    <2>3. -time_monitor' \in GoodPhase
      BY <1>6, <1>8, <2>2 DEF m
    <2> QED BY <2>3 DEF SpikeRejected, GoodPhase
  <1>9. CASE time_monitor' = time_monitor
    BY <1>7, <1>9 DEF SpikeRejected, GoodPhase
  <1> QED BY <1>1, <1>8, <1>9

LEMMA HardppsRejects ==
    ASSUME SpikesApart, PpsInv, SpikeInv, NEW u \in RoundedPulse,
           NEW count, NEW bits, u.nsec \in Phases,
           hardpps(u, count, bits)
    PROVE  SpikeInv'
  <1>1. CASE Ignored(u, bits)
    <2>1. UNCHANGED <<pps_tf, time_monitor>>
      BY <1>1 DEF Ignored, filterVars
    <2> QED BY <2>1 DEF SpikeInv, SpikeRejected
  <1>2. CASE ~Ignored(u, bits)
    <2>1. pps_tf' = <<u, pps_tf[1], pps_tf[2]>>
      BY <1>2 DEF hardpps, Gated, WithinInterval, Discarded, Calibrated,
                  Keep
    <2>2. Phase(u) \/ UNCHANGED time_monitor
      BY <1>2 DEF hardpps, Gated, WithinInterval, Discarded, Calibrated
    <2>3. SpikeRejected'
      <3>1. CASE Phase(u)
        BY <3>1, SteeredByGood
      <3>2. CASE UNCHANGED time_monitor
        BY <3>2 DEF SpikeInv, SpikeRejected
      <3> QED BY <2>2, <3>1, <3>2
    <2>4. \A i \in 1 .. 2 : pps_tf'[i].nsec \in GoodPhase \cup Spikes
      <3>1. pps_tf'[1] = u /\ pps_tf'[2] = pps_tf[1]
        BY <2>1
      <3>2. u.nsec \in GoodPhase \cup Spikes
        BY DEF Phases, GoodPhase
      <3>3. pps_tf[1].nsec \in GoodPhase \cup Spikes
        BY DEF SpikeInv
      <3>4. \A i \in 1 .. 2 : i = 1 \/ i = 2
        OBVIOUS
      <3> QED BY <3>1, <3>2, <3>3, <3>4
    <2> QED BY <2>3, <2>4 DEF SpikeInv
  <1> QED BY <1>1, <1>2

LEMMA SpikeNext ==
    ASSUME PhasesRounded, SpikesApart, OnlyPulsesSteer, PpsInv, SpikeInv,
           [PpsNext]_pvars
    PROVE  SpikeInv'
  <1>1. CASE UNCHANGED <<pps_tf, time_monitor>>
    BY <1>1 DEF SpikeInv, SpikeRejected
  <1>2. CASE \/ Tick /\ Others
             \/ SecondOverflow /\ Others
             \/ UNCHANGED pvars
    BY <1>1, <1>2 DEF Tick, SecondOverflow, Others, filterVars, loopVars,
                      pvars, kvars
  <1>3. CASE (\E r \in Requests : AdjTime(r)) /\ Others
    <2>1. PICK r \in Requests : AdjTime(r)
      BY <1>3
    <2>2. LoopAfter(r).monitor = time_monitor
      BY DEF OnlyPulsesSteer, LoopAfter, Unlocked
    <2> QED BY <1>1, <1>3, <2>1, <2>2 DEF AdjTime, Others, filterVars
  <1>4. CASE (\E offset \in Offsets : Discipline(offset)) /\ Others
    <2>1. PICK offset \in Offsets : Discipline(offset)
      BY <1>4
    <2> DEFINE h == hardupdate(time_status, time_constant, offset)
    <2>2. h.monitor \in {time_monitor, Clamp(offset, MAXPHASE)}
      <3>1. CASE "STA_PLL" \in time_status
        <4>1. h.monitor = Monitored(time_status, offset)
          BY <3>1 DEF hardupdate
        <4> QED BY <4>1 DEF Monitored
      <3>2. CASE "STA_PLL" \notin time_status
        BY <3>2 DEF hardupdate, Unlocked
      <3> QED BY <3>1, <3>2
    <2>3. time_monitor' = h.monitor
      BY <2>1 DEF Discipline
    <2>4. -Clamp(offset, MAXPHASE) \in GoodPhase
      BY DEF OnlyPulsesSteer
    <2>5. SpikeRejected'
      BY <2>2, <2>3, <2>4 DEF SpikeInv, SpikeRejected, GoodPhase
    <2>6. UNCHANGED pps_tf
      BY <1>4 DEF Others, filterVars
    <2> QED BY <2>5, <2>6 DEF SpikeInv
  <1>5. Phases \subseteq Jitter \cup Spikes /\ Jitter \cup Spikes \subseteq Int
    BY PpsAssumption DEF Phases
  <1>6. tv_sec \in Int /\ \A phase : SecondOf(phase) \in Int
    BY SecondOfType DEF PpsInv, Inv, TypeOK
  <1>7. CASE \E phase \in Phases : Pulse(phase)
    <2>1. PICK phase \in Phases : Pulse(phase)
      BY <1>7
    <2> DEFINE u == PulseTime(phase, SecondOf(phase))
    <2>2. PICK bits : hardpps(u, Count(u), bits)
      BY <2>1 DEF Pulse
    <2>3. u \in RoundedPulse /\ u.nsec = phase
      BY <1>5, <1>6, RoundedType, PulsePhase
    <2> HIDE DEF u
    <2> QED BY <2>2, <2>3, HardppsRejects
  <1>8. CASE \E phase \in Phases : PreemptedOverflow(phase)
    <2>1. PICK phase \in Phases : PreemptedOverflow(phase)
      BY <1>8
    <2> DEFINE u == PulseTime(phase, tv_sec + 1)
    <2>2. PICK bits : hardpps(u, Count(u), bits)
      BY <2>1 DEF PreemptedOverflow
    <2>3. u \in RoundedPulse /\ u.nsec = phase
      BY <1>5, <1>6, RoundedType, PulsePhase
    <2> HIDE DEF u
    <2> QED BY <2>2, <2>3, HardppsRejects
  <1> QED BY <1>2, <1>3, <1>4, <1>7, <1>8 DEF PpsNext

(* Wherever spurious pulses are and however many come in a row, the range  *)
(* gate and the median filter of hardpps() (ktime.c:698-784) let the phase *)
(* of none of them steer the clock.                                        *)
THEOREM SpikeRejectedHolds ==
    PhasesRounded /\ SpikesApart /\ OnlyPulsesSteer
        => (PpsSpec => []SpikeRejected)
  <1> SUFFICES ASSUME PhasesRounded, SpikesApart, OnlyPulsesSteer
               PROVE  PpsSpec => []SpikeRejected
    OBVIOUS
  <1>1. PpsInit => SpikeInv
    <2> SUFFICES ASSUME PpsInit PROVE SpikeInv
      OBVIOUS
    <2>1. time_monitor = 0 /\ pps_tf[1] = Stamp(0, 0) /\ pps_tf[2] = Stamp(0, 0)
      BY DEF PpsInit, Init
    <2>2. \A i \in 1 .. 2 : i = 1 \/ i = 2
      OBVIOUS
    <2>3. SpikeRejected
      <3>1. time_monitor \in Int /\ time_monitor <= 0 /\ time_monitor >= 0
        BY <2>1
      <3>2. ASSUME NEW x \in Int, x <= 0, x >= 0 PROVE -x = 0
        BY <3>2
      <3>3. -time_monitor = 0
        BY <3>1, <3>2
      <3> QED BY <3>3 DEF SpikeRejected
    <2>4. pps_tf[1].nsec = 0 /\ pps_tf[2].nsec = 0
      BY <2>1 DEF Stamp
    <2> QED BY <2>2, <2>3, <2>4 DEF SpikeInv, GoodPhase
  <1>2. PpsInv /\ SpikeInv /\ [PpsNext]_pvars => SpikeInv'
    BY SpikeNext
  <1>3. SpikeInv => SpikeRejected
    BY DEF SpikeInv
  <1> QED BY <1>1, <1>2, <1>3, PpsInvHolds, PTL DEF PpsSpec

(***************************************************************************)
(* The simulator's readings.  A reading is at most a tick ahead of what    *)
(* the last tick left, or a nanosecond later than the one before, and so   *)
(* few readings come between two ticks that it stays less than a second    *)
(* ahead: nano_time() takes only the nanoseconds of a difference.  In the  *)
(* simulator there are no leap seconds.                                    *)
(***************************************************************************)

(* A tick is longer than the number of readings between two ticks, and two *)
(* ticks and these readings are less than a second.                        *)
TicksInRange ==
    /\ ShortestUpdate >= 4
    /\ LongestUpdate + time_tick + 4 <= NANOSECOND

(* Before its first microset() a processor returns what the tick handler   *)
(* has, which may not have been carried yet.                               *)
Reading == [sec : Int, nsec : 0 .. NANOSECOND - 1 + LongestUpdate]

MicroOK ==
    /\ micro \in [cpu -> [flag : BOOLEAN, time : [sec : Int, nsec : Int],
                          pcc : Int, numer : Int, denom : Nat, master : Int]]
    /\ \A i \in cpu : micro[i].flag => micro[i].denom # 0

Stages == {"adjtime", "first", "event", "rollover", "update", "fix"}

SimTypeOK ==
    /\ cl \in CommandLine
    /\ stage \in Stages
    /\ {time_real, time_tack, time_pps, delta} \subseteq Int
    /\ cpu_intr \in cpu
    /\ fixcnt \in Nat
    /\ delay \in Seq(Int) /\ Len(delay) = cl.delmax
    /\ MicroOK
    /\ lasttime \in Reading

NoLeap == time_status \cap LeapFlags = {} /\ time_state = "TIME_OK"

(* There is at most one PPS interrupt between two ticks.                   *)
EventsInv ==
    /\ stage = "event" => time_tack < time_pps + time_tick
    /\ stage \in {"fix", "rollover", "update"} => time_real < time_pps

(* How many readings there may have been since the last tick's.            *)
Readings ==
    CASE stage \in {"adjtime", "rollover"} -> 0
      [] stage \in {"first", "update"} -> 1
      [] stage = "fix" -> 2
      [] OTHER -> IF time_pps <= time_tack THEN 2 ELSE 3

LeadInv ==
    Nanoseconds(lasttime) <= Nanoseconds(TIMEVAR) + time_tick + Readings

SimInv ==
    PpsInv /\ AdjBounded /\ SimTypeOK /\ NoLeap /\ EventsInv /\ LeadInv

(* All that the proofs below need of the constants.                        *)
LEMMA SimNumbers ==
    ASSUME TicksInRange
    PROVE  /\ NANOSECOND \in Nat \ {0} /\ LongestUpdate \in Nat
           /\ time_tick \in Nat /\ time_tick <= NANOSECOND
           /\ LongestUpdate + time_tick + 4 <= NANOSECOND
           /\ cpu # {} /\ 0 \in cpu /\ cpu \subseteq Nat
           /\ {NCPUS, PCC_RANGE, CPU_CLOCK} \subseteq Nat \ {0}
  <1>1. /\ NANOSECOND \in Nat \ {0} /\ hz \in Nat \ {0}
        /\ NANOSECOND + MAXPHASE + MAXFREQ \in Nat
    BY TimexAssumption, KtimeAssumption
  <1>2. time_tick \in Nat
    BY <1>1, DivNat DEF time_tick
  <1>3. LongestUpdate \in Nat
    <2>1. (NANOSECOND + MAXPHASE + MAXFREQ) \div hz \in Nat
      BY <1>1, DivNat
    <2> QED BY <2>1 DEF LongestUpdate
  <1>4. /\ cpu # {} /\ 0 \in cpu /\ cpu \subseteq Nat
        /\ {NCPUS, PCC_RANGE, CPU_CLOCK} \subseteq Nat \ {0}
    BY MicroAssumption DEF cpu
  <1> QED BY <1>1, <1>2, <1>3, <1>4 DEF TicksInRange

LEMMA NanosecondsType ==
    ASSUME NEW sec \in Int, NEW nsec \in Int
    PROVE  /\ Nanoseconds(Time(sec, nsec)) \in Int
           /\ Nanoseconds(Time(sec, nsec)) = sec * NANOSECOND + nsec
           /\ Nanoseconds(Time(sec + 1, nsec - NANOSECOND))
                    = Nanoseconds(Time(sec, nsec))
           /\ Nanoseconds(Time(sec, nsec + 1))
                    = Nanoseconds(Time(sec, nsec)) + 1
           /\ Nanoseconds(Time(sec - 1, nsec + NANOSECOND))
                    = Nanoseconds(Time(sec, nsec))
  <1>1. NANOSECOND \in Int
    BY TimexAssumption
  <1>2. /\ sec * NANOSECOND \in Int
        /\ (sec + 1) * NANOSECOND = sec * NANOSECOND + NANOSECOND
        /\ (sec - 1) * NANOSECOND = sec * NANOSECOND - NANOSECOND
    BY <1>1
  <1>3. \A a, b : Nanoseconds(Time(a, b)) = a * NANOSECOND + b
    BY DEF Nanoseconds, Time
  <1> QED BY <1>1, <1>2, <1>3

LEMMA CarriedTime ==
    ASSUME NEW sec, NEW nsec
    PROVE  /\ Time(sec, nsec).sec = sec /\ Time(sec, nsec).nsec = nsec
           /\ Carried(Time(sec, nsec)) =
                IF nsec >= NANOSECOND THEN Time(sec + 1, nsec - NANOSECOND)
                ELSE Time(sec, nsec)
  <1>1. Time(sec, nsec).sec = sec /\ Time(sec, nsec).nsec = nsec
    BY DEF Time
  <1> QED BY <1>1, Zenon DEF Carried

LEMMA CarriedReading ==
    ASSUME TicksInRange, NEW sec \in Int,
           NEW nsec \in 0 .. 2 * NANOSECOND - 1 + LongestUpdate
    PROVE  /\ Carried(Time(sec, nsec)) \in Reading
           /\ Nanoseconds(Carried(Time(sec, nsec)))
                    = Nanoseconds(Time(sec, nsec))
  <1>1. NANOSECOND \in Nat \ {0} /\ LongestUpdate \in Nat /\ nsec \in Int
    BY SimNumbers
  <1>2. Time(sec, nsec).sec = sec /\ Time(sec, nsec).nsec = nsec
    BY DEF Time
  <1>3. CASE nsec >= NANOSECOND
    <2>1. Carried(Time(sec, nsec)) = Time(sec + 1, nsec - NANOSECOND)
      BY <1>2, <1>3 DEF Carried
    <2>2. Time(sec + 1, nsec - NANOSECOND) \in Reading
      BY <1>1, <1>3 DEF Time, Reading
    <2> QED BY <1>1, <2>1, <2>2, NanosecondsType
  <1>4. CASE ~(nsec >= NANOSECOND)
    <2>1. Carried(Time(sec, nsec)) = Time(sec, nsec)
      BY <1>2, <1>4 DEF Carried
    <2>2. Time(sec, nsec) \in Reading
      BY <1>1, <1>4 DEF Time, Reading
    <2> QED BY <2>1, <2>2
  <1> QED BY <1>3, <1>4

(* An interpolated time falls between the last tick and the next one.      *)
LEMMA AccumulatedType ==
    ASSUME MicroOK, NEW i \in cpu, NEW pcc \in Int,
           NEW sec \in Int, NEW nsec \in Int
    PROVE  Accumulated(i, pcc, Time(sec, nsec)) \in Int
  <1> DEFINE m == micro[i]
  <1>1. m \in [flag : BOOLEAN, time : [sec : Int, nsec : Int], pcc : Int,
               numer : Int, denom : Nat, master : Int]
    BY DEF MicroOK
  <1>2. m.flag => m.denom \in Nat \ {0}
    BY <1>1 DEF MicroOK
  <1> HIDE DEF m
  <1>3. /\ m.pcc \in Int /\ m.numer \in Int /\ m.time.sec \in Int
        /\ NANOSECOND \in Int /\ PCC_RANGE \in Int
    BY <1>1, TimexAssumption, MicroAssumption
  <1>4. SincePcc(i, pcc) \in Int
    BY <1>3 DEF SincePcc, m
  <1>5. CASE m.flag
    <2>1. SincePcc(i, pcc) * m.numer \in Int
      BY <1>3, <1>4
    <2>2. CDiv(SincePcc(i, pcc) * m.numer, m.denom) \in Int
      BY <1>2, <1>5, <2>1, CDivShrinks
    <2>3. (sec - m.time.sec) * NANOSECOND \in Int
      BY <1>3
    <2>4. Accumulated(i, pcc, Time(sec, nsec)) =
            CDiv(SincePcc(i, pcc) * m.numer, m.denom)
                - (sec - m.time.sec) * NANOSECOND
      BY <1>5 DEF Accumulated, Time, m
    <2> QED BY <2>2, <2>3, <2>4
  <1>6. CASE ~m.flag
    BY <1>6 DEF Accumulated, m
  <1> QED BY <1>5, <1>6

LEMMA InterpolatedWithin ==
    ASSUME TicksInRange, MicroOK, NEW i \in cpu, NEW pcc \in Int,
           NEW sec \in Int, NEW nsec \in 0 .. NANOSECOND - 1 + LongestUpdate
    PROVE  LET t == Time(sec, nsec)
               r == Interpolated(i, pcc, t)
           IN  /\ r \in Reading
               /\ Nanoseconds(r) \in Int
               /\ Nanoseconds(t) <= Nanoseconds(r)
               /\ Nanoseconds(r) <= Nanoseconds(t) + time_tick
  <1> DEFINE t == Time(sec, nsec)
             r == Interpolated(i, pcc, t)
             x == micro[i].time.nsec + Accumulated(i, pcc, t)
             w == IF x < t.nsec THEN t.nsec
                  ELSE IF x > t.nsec + time_tick THEN t.nsec + time_tick
                  ELSE x
  <1>1. /\ NANOSECOND \in Nat \ {0} /\ LongestUpdate \in Nat
        /\ time_tick \in Nat /\ time_tick <= NANOSECOND /\ nsec \in Int
    BY SimNumbers
  <1>2. t.sec = sec /\ t.nsec = nsec
    BY DEF Time
  <1>3. CASE micro[i].flag
    <2>1. x \in Int
      <3>1. micro[i].time.nsec \in Int
        BY DEF MicroOK
      <3>2. Accumulated(i, pcc, t) \in Int
        BY <1>1, AccumulatedType
      <3> QED BY <3>1, <3>2
    <2>2. r = Carried(Time(sec, w))
      BY <1>2, <1>3 DEF Interpolated
    <2> HIDE DEF x, t, r
    <2>3. w \in nsec .. nsec + time_tick
      BY <1>1, <1>2, <2>1
    <2> HIDE DEF w
    <2>4. w \in 0 .. 2 * NANOSECOND - 1 + LongestUpdate
      BY <1>1, <2>3
    <2>5. r \in Reading /\ Nanoseconds(r) = Nanoseconds(Time(sec, w))
      BY <2>2, <2>4, CarriedReading
    <2>6. /\ Nanoseconds(r) = sec * NANOSECOND + w
          /\ Nanoseconds(t) = sec * NANOSECOND + nsec
          /\ sec * NANOSECOND \in Int /\ w \in Int
      <3>1. w \in Int /\ sec * NANOSECOND \in Int
        BY <1>1, <2>4
      <3>2. Nanoseconds(Time(sec, w)) = sec * NANOSECOND + w
        BY <3>1, NanosecondsType
      <3>3. Nanoseconds(Time(sec, nsec)) = sec * NANOSECOND + nsec
        BY <1>1, NanosecondsType
      <3> QED BY <2>5, <3>1, <3>2, <3>3 DEF t
    <2> QED BY <1>1, <2>3, <2>5, <2>6 DEF t, r
  <1>4. CASE ~micro[i].flag
    <2>1. r = t
      BY <1>4 DEF Interpolated
    <2>2. t \in Reading
      BY <1>1 DEF Time, Reading
    <2>3. Nanoseconds(t) \in Int
      BY <1>1, NanosecondsType
    <2> HIDE DEF r, t
    <2> QED BY <1>1, <2>1, <2>2, <2>3 DEF r, t
  <1> QED BY <1>3, <1>4

(* nano_time()'s comparison with the last time returned: while that is     *)
(* less than a second ahead the new one is later.                          *)
LEMMA LaterReading ==
    ASSUME TicksInRange, lasttime \in Reading, NEW t \in Reading,
           Nanoseconds(lasttime) <= Nanoseconds(t) + NANOSECOND - LongestUpdate
    PROVE  LET r == StrictlyLater(t)
           IN  /\ r \in Reading
               /\ After(r, lasttime)
               /\ Nanoseconds(r) \in {Nanoseconds(t), Nanoseconds(lasttime) + 1}
  <1> DEFINE l == lasttime
             sec == l.sec - t.sec
             nsec == l.nsec - t.nsec
             borrow == nsec < 0
             behind == IF borrow THEN nsec + NANOSECOND ELSE nsec
             r == StrictlyLater(t)
  <1>1. /\ NANOSECOND \in Nat \ {0} /\ LongestUpdate \in Nat
        /\ LongestUpdate <= NANOSECOND
    BY SimNumbers
  <1>2. /\ t.sec \in Int /\ t.nsec \in 0 .. NANOSECOND - 1 + LongestUpdate
        /\ l.sec \in Int /\ l.nsec \in 0 .. NANOSECOND - 1 + LongestUpdate
        /\ t = Time(t.sec, t.nsec) /\ l = Time(l.sec, l.nsec)
    BY DEF Reading, Time
  <1>3. /\ Nanoseconds(t) = t.sec * NANOSECOND + t.nsec
        /\ Nanoseconds(l) = l.sec * NANOSECOND + l.nsec
        /\ t.sec * NANOSECOND \in Int /\ l.sec * NANOSECOND \in Int
    BY <1>1, <1>2 DEF Nanoseconds
  <1>4. r = IF (IF borrow THEN sec - 1 ELSE sec) = 0
            THEN Carried(Time(t.sec, t.nsec + behind + 1))
            ELSE t
    BY DEF StrictlyLater
  <1>5. CASE ~borrow /\ l.sec = t.sec
    <2>1. t.nsec + behind + 1 = l.nsec + 1 /\ sec = 0
      BY <1>1, <1>2, <1>5
    <2>2. r = Carried(Time(l.sec, l.nsec + 1))
      BY <1>4, <1>5, <2>1
    <2> HIDE DEF r, l, sec, nsec, borrow, behind
    <2>3. l.nsec + 1 \in 0 .. 2 * NANOSECOND - 1 + LongestUpdate
          /\ l.nsec \in Int
      BY <1>1, <1>2
    <2>4. r \in Reading /\ Nanoseconds(r) = Nanoseconds(Time(l.sec, l.nsec + 1))
      BY <1>2, <2>2, <2>3, CarriedReading
    <2>5. Nanoseconds(r) = Nanoseconds(l) + 1
      <3>1. Nanoseconds(Time(l.sec, l.nsec + 1))
                = Nanoseconds(Time(l.sec, l.nsec)) + 1
        BY <1>2, <2>3, NanosecondsType
      <3> QED BY <1>2, <2>4, <3>1, Zenon
    <2>6. r.sec > l.sec \/ (r.sec = l.sec /\ r.nsec > l.nsec)
      <3>1. r = Time(l.sec, l.nsec + 1)
            \/ r = Time(l.sec + 1, l.nsec + 1 - NANOSECOND)
        <4>1. ASSUME NEW n, n = l.nsec + 1
              PROVE  r = Time(l.sec, n) \/ r = Time(l.sec + 1, n - NANOSECOND)
          <5>1. r = Carried(Time(l.sec, n))
            BY <2>2, <4>1
          <5> QED BY <5>1, CarriedTime, Zenon
        <4> QED BY <1>1, <2>3, <4>1
      <3>2. CASE r = Time(l.sec, l.nsec + 1)
        <4>1. r.sec = l.sec /\ r.nsec = l.nsec + 1
          BY <3>2, CarriedTime
        <4> QED BY <2>3, <4>1
      <3>3. CASE r = Time(l.sec + 1, l.nsec + 1 - NANOSECOND)
        <4>1. r.sec = l.sec + 1
          BY <3>3, CarriedTime
        <4> QED BY <1>2, <4>1
      <3> QED BY <3>1, <3>2, <3>3
    <2> QED BY <2>4, <2>5, <2>6 DEF After, l, r
  <1>6. CASE borrow /\ l.sec = t.sec + 1
    <2>1. t.nsec + behind + 1 = l.nsec + 1 + NANOSECOND /\ sec - 1 = 0
      BY <1>1, <1>2, <1>6
    <2>2. l.nsec < t.nsec
      BY <1>1, <1>2, <1>6
    <2>3. r = Carried(Time(t.sec, l.nsec + 1 + NANOSECOND))
      BY <1>4, <1>6, <2>1
    <2> HIDE DEF r, l, sec, nsec, borrow, behind
    <2>4. /\ l.nsec + 1 + NANOSECOND \in 0 .. 2 * NANOSECOND - 1 + LongestUpdate
          /\ l.nsec + 1 + NANOSECOND >= NANOSECOND
          /\ l.nsec + 1 + NANOSECOND - NANOSECOND = l.nsec + 1
          /\ l.nsec \in Int
      BY <1>1, <1>2, <2>2
    <2>5. r \in Reading
      BY <1>2, <2>3, <2>4, CarriedReading
    <2>6. r = Time(l.sec, l.nsec + 1)
      <3>1. r = Time(t.sec + 1, l.nsec + 1 + NANOSECOND - NANOSECOND)
        <4>1. ASSUME NEW n, n = l.nsec + 1 + NANOSECOND
              PROVE  r = Time(t.sec + 1, n - NANOSECOND)
          <5>1. r = Carried(Time(t.sec, n)) /\ n >= NANOSECOND
            BY <2>3, <2>4, <4>1
          <5> QED BY <5>1, CarriedTime, Zenon
        <4> QED BY <1>1, <2>4, <4>1
      <3> QED BY <1>6, <2>4, <3>1
    <2>7. Nanoseconds(r) = Nanoseconds(l) + 1
      <3>1. Nanoseconds(Time(l.sec, l.nsec + 1))
                = Nanoseconds(Time(l.sec, l.nsec)) + 1
        BY <1>2, <2>4, NanosecondsType
      <3> QED BY <1>2, <2>6, <3>1, Zenon
    <2>8. r.sec = l.sec /\ r.nsec > l.nsec
      <3>1. r.sec = l.sec /\ r.nsec = l.nsec + 1
        BY <2>6, CarriedTime
      <3> QED BY <2>4, <3>1
    <2> QED BY <2>5, <2>7, <2>8 DEF After, l, r
  <1>7. CASE /\ ~(~borrow /\ l.sec = t.sec)
             /\ ~(borrow /\ l.sec = t.sec + 1)
    <2>1. r = t
      BY <1>2, <1>4, <1>7
    <2>2. ~(l.sec >= t.sec + 1 /\ l.nsec >= t.nsec)
      <3> SUFFICES ASSUME l.sec >= t.sec + 1, l.nsec >= t.nsec PROVE FALSE
        OBVIOUS
      <3> HIDE DEF r, l, sec, nsec, borrow, behind
      <3>1. (t.sec + 1) * NANOSECOND <= l.sec * NANOSECOND
        BY <1>1, <1>2, MulMono
      <3>2. (t.sec + 1) * NANOSECOND = t.sec * NANOSECOND + NANOSECOND
        BY <1>1, <1>2
      <3>3. Nanoseconds(l) >= Nanoseconds(t) + NANOSECOND
        BY <1>1, <1>2, <1>3, <3>1, <3>2
      <3>4. LongestUpdate = 0
        BY <1>1, <1>2, <1>3, <3>3 DEF l
      <3>5. LongestUpdate > 0
        <4>1. /\ NANOSECOND + MAXPHASE + MAXFREQ \in Nat
              /\ hz \in Nat \ {0}
          BY TimexAssumption, KtimeAssumption
        <4>2. (NANOSECOND + MAXPHASE + MAXFREQ) \div hz \in Nat
          BY <4>1, DivNat
        <4> QED BY <4>2 DEF LongestUpdate
      <3> QED BY <3>4, <3>5
    <2>3. ~(l.sec >= t.sec + 2)
      <3> SUFFICES ASSUME l.sec >= t.sec + 2 PROVE FALSE
        OBVIOUS
      <3> HIDE DEF r, l, sec, nsec, borrow, behind
      <3>1. (t.sec + 2) * NANOSECOND <= l.sec * NANOSECOND
        BY <1>1, <1>2, MulMono
      <3>2. (t.sec + 2) * NANOSECOND = t.sec * NANOSECOND + 2 * NANOSECOND
        BY <1>1, <1>2
      <3>3. Nanoseconds(l)
                >= Nanoseconds(t) + NANOSECOND + 1 - LongestUpdate
        BY <1>1, <1>2, <1>3, <3>1, <3>2
      <3> QED BY <1>1, <1>2, <1>3, <3>3 DEF l
    <2>4. t.sec > l.sec \/ (t.sec = l.sec /\ t.nsec > l.nsec)
      BY <1>1, <1>2, <1>7, <2>2, <2>3
    <2> QED BY <2>1, <2>4 DEF After
  <1> QED BY <1>5, <1>6, <1>7

(* A reading with TIMEVAR at t, by any processor.                          *)
LEMMA ReadLater ==
    ASSUME TicksInRange, MicroOK, lasttime \in Reading,
           NEW i \in cpu, NEW pcc \in Int, NEW sec \in Int,
           NEW nsec \in 0 .. NANOSECOND - 1 + LongestUpdate,
           NEW lead \in 0 .. 4,
           Nanoseconds(lasttime)
                <= Nanoseconds(Time(sec, nsec)) + time_tick + lead,
           nano_time(i, pcc, Time(sec, nsec))
    PROVE  /\ lasttime' \in Reading
           /\ After(lasttime', lasttime)
           /\ Nanoseconds(lasttime') \in Int
           /\ \/ Nanoseconds(lasttime')
                    <= Nanoseconds(Time(sec, nsec)) + time_tick
              \/ Nanoseconds(lasttime') = Nanoseconds(lasttime) + 1
  <1> DEFINE t == Interpolated(i, pcc, Time(sec, nsec))
  <1>1. /\ t \in Reading /\ Nanoseconds(t) \in Int
        /\ Nanoseconds(Time(sec, nsec)) <= Nanoseconds(t)
        /\ Nanoseconds(t) <= Nanoseconds(Time(sec, nsec)) + time_tick
    BY InterpolatedWithin
  <1>2. lasttime' = StrictlyLater(t)
    BY DEF nano_time, NanoTime
  <1> HIDE DEF t
  <1>3. /\ NANOSECOND \in Int /\ LongestUpdate \in Nat /\ time_tick \in Nat
        /\ LongestUpdate + time_tick + 4 <= NANOSECOND
        /\ nsec \in Int
    BY SimNumbers
  <1>4. Nanoseconds(lasttime) \in Int /\ Nanoseconds(Time(sec, nsec)) \in Int
    <2>1. lasttime.sec \in Int /\ lasttime.nsec \in Int
      BY <1>3 DEF Reading
    <2> QED BY <1>3, <2>1, NanosecondsType DEF Nanoseconds
  <1>5. Nanoseconds(lasttime) <= Nanoseconds(t) + NANOSECOND - LongestUpdate
    BY <1>1, <1>3, <1>4
  <1>6. /\ lasttime' \in Reading /\ After(lasttime', lasttime)
        /\ Nanoseconds(lasttime')
                \in {Nanoseconds(t), Nanoseconds(lasttime) + 1}
    BY <1>1, <1>2, <1>5, LaterReading
  <1> QED BY <1>1, <1>4, <1>6

(***************************************************************************)
(* The steps of the simulator.                                             *)
(***************************************************************************)
LEMMA CounterType ==
    ASSUME TicksInRange, NEW i \in cpu, NEW now \in Int
    PROVE  rpcc(i, now) \in Int
  <1>1. cpu_clock[i] \in Int /\ NANOSECOND \in Nat \ {0}
        /\ PCC_RANGE \in Nat \ {0}
    BY SimAssumption, SimNumbers
  <1>2. (cpu_clock[i] * now) \div NANOSECOND \in Int
    <2>1. cpu_clock[i] * now \in Int
      BY <1>1
    <2> QED BY <1>1, <2>1, FloorType
  <1> QED BY <1>1, <1>2, FloorType DEF rpcc

LEMMA ReferenceType ==
    ASSUME cl \in CommandLine, NEW now \in Int
    PROVE  Reference(now) \in Int
  <1>1. cl.sim_phase \in Int /\ cl.sim_freq \in Int
        /\ NANOSECOND \in Nat \ {0}
    BY TimexAssumption DEF CommandLine
  <1>2. cl.sim_freq * now \in Int
    BY <1>1
  <1>3. CDiv(cl.sim_freq * now, NANOSECOND) \in Int
    BY <1>1, <1>2, CDivShrinks
  <1> QED BY <1>1, <1>3 DEF Reference

LEMMA ReadingType ==
    ASSUME TicksInRange, NEW r \in Reading
    PROVE  /\ r.sec \in Int /\ r.nsec \in Int
           /\ Nanoseconds(r) \in Int
  <1>1. NANOSECOND \in Int /\ LongestUpdate \in Int
    BY SimNumbers
  <1>2. r.sec \in Int /\ r.nsec \in Int
    BY <1>1 DEF Reading
  <1> QED BY <1>1, <1>2 DEF Nanoseconds

LEMMA TimevarType ==
    ASSUME TicksInRange, Inv
    PROVE  /\ tv_sec \in Int
           /\ tv_nsec \in 0 .. NANOSECOND - 1 + LongestUpdate
           /\ Nanoseconds(TIMEVAR) \in Int
           /\ Nanoseconds(TIMEVAR) = tv_sec * NANOSECOND + tv_nsec
           /\ 0 <= Nanoseconds(TIMEVAR)
  <1>1. /\ NANOSECOND \in Nat /\ LongestUpdate \in Nat
    BY SimNumbers
  <1>2. tv_sec \in Nat /\ tv_nsec \in 0 .. NANOSECOND - 1
    BY DEF Inv, TypeOK, Normalized
  <1>3. /\ tv_nsec \in 0 .. NANOSECOND - 1 + LongestUpdate
        /\ tv_sec * NANOSECOND \in Nat
    BY <1>1, <1>2
  <1>4. Nanoseconds(TIMEVAR) = tv_sec * NANOSECOND + tv_nsec
    BY <1>2, NanosecondsType DEF TIMEVAR
  <1> QED BY <1>2, <1>3, <1>4

(* A reading by which the clock itself is not moved.                       *)
LEMMA QuietRead ==
    ASSUME TicksInRange, SimInv, NEW i \in cpu, NEW now \in Int,
           Readings \in 0 .. 3,
           nano_time(i, rpcc(i, now), TIMEVAR), UNCHANGED timevar
    PROVE  /\ lasttime' \in Reading
           /\ After(lasttime', lasttime)
           /\ Nanoseconds(lasttime')
                    <= Nanoseconds(TIMEVAR)' + time_tick + Readings + 1
           /\ Nanoseconds(TIMEVAR)' = Nanoseconds(TIMEVAR)
           /\ Nanoseconds(TIMEVAR) \in Int
  <1>1. /\ tv_sec \in Int
        /\ tv_nsec \in 0 .. NANOSECOND - 1 + LongestUpdate
        /\ Nanoseconds(TIMEVAR) \in Int
    BY TimevarType DEF SimInv, PpsInv
  <1>2. MicroOK /\ lasttime \in Reading /\ rpcc(i, now) \in Int
    BY CounterType DEF SimInv, SimTypeOK
  <1>3. /\ Nanoseconds(lasttime)
                <= Nanoseconds(Time(tv_sec, tv_nsec)) + time_tick + Readings
        /\ nano_time(i, rpcc(i, now), Time(tv_sec, tv_nsec))
    BY DEF SimInv, LeadInv, TIMEVAR
  <1>4. /\ lasttime' \in Reading
        /\ After(lasttime', lasttime)
        /\ Nanoseconds(lasttime') \in Int
        /\ \/ Nanoseconds(lasttime')
                <= Nanoseconds(Time(tv_sec, tv_nsec)) + time_tick
           \/ Nanoseconds(lasttime') = Nanoseconds(lasttime) + 1
    <2>1. Readings \in 0 .. 4
      OBVIOUS
    <2> QED BY <1>1, <1>2, <1>3, <2>1, ReadLater
  <1>5. Nanoseconds(TIMEVAR)' = Nanoseconds(TIMEVAR)
    BY DEF timevar, TIMEVAR, Nanoseconds, Time
  <1>6. time_tick \in Int /\ Nanoseconds(lasttime) \in Int
    BY <1>2, SimNumbers, ReadingType
  <1>7. /\ Nanoseconds(lasttime)
                <= Nanoseconds(TIMEVAR) + time_tick + Readings
        /\ \/ Nanoseconds(lasttime') <= Nanoseconds(TIMEVAR) + time_tick
           \/ Nanoseconds(lasttime') = Nanoseconds(lasttime) + 1
    BY <1>3, <1>4 DEF TIMEVAR
  <1> QED BY <1>1, <1>4, <1>5, <1>6, <1>7

LEMMA ReadingsValue ==
    /\ stage \in {"adjtime", "rollover"} => Readings = 0
    /\ stage \in {"first", "update"} => Readings = 1
    /\ stage = "fix" => Readings = 2
    /\ stage = "event" => Readings = IF time_pps <= time_tack THEN 2 ELSE 3
  BY DEF Readings

(* An action of Ktime other than a tick, in the simulator.                 *)
LEMMA SimUpdate ==
    ASSUME SimInv, Inv', PpsFreqClamped', Others, UNCHANGED silence
    PROVE  PpsInv'
  <1>1. silence' \in Int
    BY DEF SimInv, PpsInv, FilterOK
  <1> QED BY <1>1, OthersInv DEF SimInv

LEMMA AdjtimeStep ==
    ASSUME TicksInRange, SimInv, Adjtime
    PROVE  SimInv' /\ After(lasttime', lasttime)
  <1> DEFINE r == AdjtimeRequest
  <1>1. /\ cl \in CommandLine /\ stage = "adjtime" /\ cpu_intr \in cpu
        /\ PpsInv /\ Inv
    BY DEF SimInv, SimTypeOK, PpsInv, Adjtime
  <1>2. /\ r \in TimexRequest
        /\ "MOD_STATUS" \in r.modes /\ r.status \cap LeapFlags = {}
    <2>1. cl.constant \in Int /\ PPS_FAVGMAX \in Int
      BY <1>1, TimexAssumption, KtimeAssumption DEF CommandLine
    <2>2. /\ r.modes \in SUBSET MODES /\ r.status \in SUBSET STA_BITS
          /\ "MOD_STATUS" \in r.modes /\ r.status \cap LeapFlags = {}
      BY DEF AdjtimeRequest, MODES, STA_BITS, STA_RONLY, LeapFlags
    <2>3. r \in TimexRequest
      BY <2>1, <2>2 DEF AdjtimeRequest, TimexRequest
    <2> QED BY <2>2, <2>3
  <1>3. /\ AdjTime(r) /\ churn(0, TIMEVAR) /\ stage' = "first"
        /\ UNCHANGED <<time_tack, time_pps, cpu_intr, fixcnt, delay, micro>>
        /\ Others /\ UNCHANGED <<silence, cl>>
    BY DEF Adjtime, KeepRest
  <1> HIDE DEF r
  <1>4. /\ UNCHANGED <<timevar, time_adj>>
        /\ time_status' \cap LeapFlags = {} /\ time_state' = "TIME_OK"
    <2>1. /\ UNCHANGED <<timevar, tickVars>>
          /\ time_status' = LoopAfter(r).status
          /\ time_state' \in {time_state, "TIME_OK"}
      BY <1>3 DEF AdjTime
    <2>2. time_state = "TIME_OK"
      BY DEF SimInv, NoLeap
    <2>3. time_status' \cap LeapFlags = {}
      BY <1>2, <2>1, RequestedBits
    <2> QED BY <2>1, <2>2, <2>3 DEF tickVars
  <1>5. PpsInv'
    BY <1>1, <1>2, <1>3, AdjTimeInv, AdjTimePpsFreq, SimUpdate
  <1>6. /\ lasttime' \in Reading /\ After(lasttime', lasttime)
        /\ Nanoseconds(lasttime') <= Nanoseconds(TIMEVAR)' + time_tick + 1
    <2>1. Readings = 0
      BY <1>1, ReadingsValue
    <2>2. nano_time(cpu_intr, rpcc(cpu_intr, 0), TIMEVAR)
      BY <1>3 DEF churn, chime
    <2>3. /\ lasttime' \in Reading /\ After(lasttime', lasttime)
          /\ Nanoseconds(lasttime')
                <= Nanoseconds(TIMEVAR)' + time_tick + Readings + 1
          /\ Nanoseconds(TIMEVAR)' = Nanoseconds(TIMEVAR)
          /\ Nanoseconds(TIMEVAR) \in Int
      BY <1>1, <1>4, <2>1, <2>2, QuietRead
    <2> QED BY <2>1, <2>3, SimNumbers
  <1>7. SimTypeOK'
    <2>1. time_real' \in Int /\ delta' \in Int
      <3>1. Reference(0) \in Int /\ Nanoseconds(lasttime') \in Int
        BY <1>1, <1>6, ReferenceType, ReadingType
      <3> QED BY <1>3, <3>1 DEF churn
    <2> QED BY <1>3, <1>6, <2>1 DEF SimInv, SimTypeOK, Stages, MicroOK
  <1>8. AdjBounded' /\ NoLeap' /\ EventsInv'
    BY <1>3, <1>4 DEF SimInv, AdjBounded, NoLeap, EventsInv
  <1>9. LeadInv'
    BY <1>3, <1>6 DEF LeadInv, Readings
  <1> QED BY <1>5, <1>6, <1>7, <1>8, <1>9 DEF SimInv

(* The rollover's reading.                                                 *)
LEMMA ProcessorType ==
    ASSUME TicksInRange, AnyProcessor PROVE cpu_intr' \in cpu
  BY SimNumbers DEF AnyProcessor

LEMMA RolloverStep ==
    ASSUME TicksInRange, SimInv, Rollover
    PROVE  SimInv' /\ After(lasttime', lasttime)
  <1>1. /\ stage = "rollover" /\ PpsInv /\ Inv /\ time_real \in Int
        /\ cpu_intr' \in cpu
    BY ProcessorType DEF SimInv, SimTypeOK, PpsInv, Rollover
  <1>2. /\ nano_time(cpu_intr', rpcc(cpu_intr', time_real), TIMEVAR)
        /\ stage' \in {"update", "fix"}
        /\ UNCHANGED <<kvars, fixcnt, delay, micro, time_real, time_tack,
                       time_pps, delta, silence, cl>>
        /\ Others
    BY DEF Rollover, KeepTime, KeepRest
  <1>3. /\ UNCHANGED <<timevar, time_adj, time_status, time_state, pps_freq>>
    BY <1>2 DEF kvars, leapVars, tickVars, ppsVars
  <1>4. PpsInv'
    <2>1. PpsFreqClamped'
      BY <1>1, <1>3 DEF PpsInv, PpsFreqClamped
    <2> QED BY <1>1, <1>2, <2>1, StutterInv, SimUpdate
  <1>5. /\ lasttime' \in Reading /\ After(lasttime', lasttime)
        /\ Nanoseconds(lasttime') <= Nanoseconds(TIMEVAR)' + time_tick + 1
        /\ Nanoseconds(TIMEVAR)' \in Int /\ Nanoseconds(lasttime') \in Int
        /\ time_tick \in Int
    <2>1. Readings = 0
      BY <1>1, ReadingsValue
    <2>2. /\ lasttime' \in Reading /\ After(lasttime', lasttime)
          /\ Nanoseconds(lasttime')
                <= Nanoseconds(TIMEVAR)' + time_tick + Readings + 1
          /\ Nanoseconds(TIMEVAR)' = Nanoseconds(TIMEVAR)
          /\ Nanoseconds(TIMEVAR) \in Int
      BY <1>1, <1>2, <1>3, <2>1, QuietRead
    <2>3. Nanoseconds(lasttime') \in Int
      BY <2>2, ReadingType
    <2> QED BY <2>1, <2>2, <2>3, SimNumbers
  <1>6. SimTypeOK'
    BY <1>1, <1>2, <1>5 DEF SimInv, SimTypeOK, Stages, MicroOK
  <1>7. AdjBounded' /\ NoLeap' /\ EventsInv'
    BY <1>1, <1>2, <1>3 DEF SimInv, AdjBounded, NoLeap, EventsInv
  <1>8. LeadInv'
    <2>1. Readings' \in {1, 2}
      BY <1>2 DEF Readings
    <2> QED BY <1>5, <2>1 DEF LeadInv
  <1> QED BY <1>4, <1>5, <1>6, <1>7, <1>8 DEF SimInv

(* The correction that comes out of the delay line.                        *)
LEMMA CorrectionType ==
    ASSUME SimInv
    PROVE  /\ Correction \in Int
           /\ cl.delmax # 0 =>
                /\ Append(Tail(delay), delta) \in Seq(Int)
                /\ Len(Append(Tail(delay), delta)) = cl.delmax
  <1>1. /\ delta \in Int /\ delay \in Seq(Int) /\ Len(delay) = cl.delmax
        /\ cl.delmax \in Nat
    BY DEF SimInv, SimTypeOK, CommandLine
  <1>2. CASE cl.delmax = 0
    BY <1>1, <1>2 DEF Correction
  <1>3. CASE cl.delmax # 0
    <2>1. delay # <<>>
      BY <1>1, <1>3
    <2>2. /\ Head(delay) \in Int /\ Tail(delay) \in Seq(Int)
          /\ Len(Tail(delay)) = Len(delay) - 1
      BY <1>1, <2>1
    <2> QED BY <1>1, <1>3, <2>2 DEF Correction
  <1> QED BY <1>2, <1>3

LEMMA UpdatedKeeps ==
    ASSUME TicksInRange, SimInv, Updated, Readings \in 0 .. 3,
           UNCHANGED time_real
    PROVE  /\ PpsInv' /\ AdjBounded' /\ NoLeap' /\ MicroOK'
           /\ {delta', time_real'} \subseteq Int /\ cpu_intr' \in cpu
           /\ delay' \in Seq(Int) /\ Len(delay') = cl.delmax
           /\ UNCHANGED cl /\ cl \in CommandLine
           /\ lasttime' \in Reading /\ After(lasttime', lasttime)
           /\ Nanoseconds(lasttime')
                <= Nanoseconds(TIMEVAR)' + time_tick + Readings + 1
           /\ Nanoseconds(TIMEVAR)' \in Int /\ Nanoseconds(lasttime') \in Int
           /\ time_tick \in Int
  <1>1. /\ PpsInv /\ Inv /\ SimTypeOK
    BY DEF SimInv, PpsInv
  <1>2. /\ Discipline(Correction)
        /\ delay' = IF cl.delmax = 0 THEN delay ELSE Append(Tail(delay), delta)
        /\ nano_time(cpu_intr, rpcc(cpu_intr, time_real), TIMEVAR)
        /\ UNCHANGED <<delta, cpu_intr, micro, silence, cl>>
        /\ Others
    BY DEF Updated, chime, KeepRest
  <1>3. /\ UNCHANGED <<timevar, time_adj, time_state, pps_freq>>
        /\ time_status' \cap LeapFlags = time_status \cap LeapFlags
    BY <1>2, UpdatedBits DEF Discipline, leapVars, tickVars, ppsVars
  <1>4. PpsInv'
    <2>1. PpsFreqClamped'
      BY <1>1, <1>3 DEF PpsInv, PpsFreqClamped
    <2>2. Inv'
      BY <1>1, <1>2, CorrectionType, DisciplineInv
    <2> QED BY <1>2, <2>1, <2>2, SimUpdate
  <1>5. AdjBounded' /\ NoLeap' /\ MicroOK'
    BY <1>1, <1>2, <1>3 DEF SimInv, SimTypeOK, AdjBounded, NoLeap, MicroOK
  <1>6. /\ delay' \in Seq(Int) /\ Len(delay') = cl.delmax
    BY <1>1, <1>2, CorrectionType DEF SimTypeOK
  <1>7. /\ lasttime' \in Reading /\ After(lasttime', lasttime)
        /\ Nanoseconds(lasttime')
                <= Nanoseconds(TIMEVAR)' + time_tick + Readings + 1
        /\ Nanoseconds(TIMEVAR)' = Nanoseconds(TIMEVAR)
        /\ Nanoseconds(TIMEVAR) \in Int
    <2>1. cpu_intr \in cpu /\ time_real \in Int
      BY <1>1 DEF SimTypeOK
    <2> QED BY <1>2, <1>3, <2>1, QuietRead
  <1>8. Nanoseconds(lasttime') \in Int /\ time_tick \in Int
    BY <1>7, ReadingType, SimNumbers
  <1> QED BY <1>1, <1>2, <1>4, <1>5, <1>6, <1>7, <1>8 DEF SimTypeOK

LEMMA FirstUpdateStep ==
    ASSUME TicksInRange, SimInv, FirstUpdate
    PROVE  SimInv' /\ After(lasttime', lasttime)
  <1>1. /\ Updated /\ stage = "first" /\ stage' = "event"
        /\ time_tack' = time_real + time_tick
        /\ time_pps' = time_real + NANOSECOND
        /\ UNCHANGED <<time_real, fixcnt>>
    BY DEF FirstUpdate
  <1>2. Readings = 1
    BY <1>1, ReadingsValue
  <1>3. /\ PpsInv' /\ AdjBounded' /\ NoLeap' /\ MicroOK'
        /\ {delta', time_real'} \subseteq Int /\ cpu_intr' \in cpu
        /\ delay' \in Seq(Int) /\ Len(delay') = cl.delmax
        /\ UNCHANGED cl /\ cl \in CommandLine
        /\ lasttime' \in Reading /\ After(lasttime', lasttime)
        /\ Nanoseconds(lasttime')
                <= Nanoseconds(TIMEVAR)' + time_tick + 2
        /\ Nanoseconds(TIMEVAR)' \in Int /\ Nanoseconds(lasttime') \in Int
        /\ time_tick \in Int
    <2>1. /\ Readings \in 0 .. 3
      BY <1>2
    <2>2. /\ PpsInv' /\ AdjBounded' /\ NoLeap' /\ MicroOK'
          /\ {delta', time_real'} \subseteq Int /\ cpu_intr' \in cpu
          /\ delay' \in Seq(Int) /\ Len(delay') = cl.delmax
          /\ UNCHANGED cl /\ cl \in CommandLine
          /\ lasttime' \in Reading /\ After(lasttime', lasttime)
          /\ Nanoseconds(lasttime')
                <= Nanoseconds(TIMEVAR)' + time_tick + Readings + 1
          /\ Nanoseconds(TIMEVAR)' \in Int /\ Nanoseconds(lasttime') \in Int
          /\ time_tick \in Int
      BY <1>1, <2>1, UpdatedKeeps
    <2> QED BY <1>2, <2>2
  <1>4. NANOSECOND \in Nat \ {0} /\ time_tick \in Nat /\ time_real \in Int
        /\ fixcnt \in Nat
    BY SimNumbers DEF SimInv, SimTypeOK
  <1>5. SimTypeOK'
    BY <1>1, <1>3, <1>4 DEF SimTypeOK, Stages
  <1>6. EventsInv'
    BY <1>1, <1>4 DEF EventsInv, time_tick
  <1>7. LeadInv'
    <2>1. Readings' \in {2, 3}
      BY <1>1 DEF Readings
    <2> QED BY <1>3, <2>1 DEF LeadInv, time_tick
  <1> QED BY <1>3, <1>5, <1>6, <1>7 DEF SimInv

LEMMA UpdateStep ==
    ASSUME TicksInRange, SimInv, Update
    PROVE  SimInv' /\ After(lasttime', lasttime)
  <1>1. /\ Updated /\ stage = "update" /\ stage' = "fix"
        /\ UNCHANGED <<time_real, time_tack, time_pps, fixcnt>>
    BY DEF Update
  <1>2. Readings = 1
    BY <1>1, ReadingsValue
  <1>3. /\ PpsInv' /\ AdjBounded' /\ NoLeap' /\ MicroOK'
        /\ {delta', time_real'} \subseteq Int /\ cpu_intr' \in cpu
        /\ delay' \in Seq(Int) /\ Len(delay') = cl.delmax
        /\ UNCHANGED cl /\ cl \in CommandLine
        /\ lasttime' \in Reading /\ After(lasttime', lasttime)
        /\ Nanoseconds(lasttime')
                <= Nanoseconds(TIMEVAR)' + time_tick + 2
        /\ Nanoseconds(TIMEVAR)' \in Int /\ Nanoseconds(lasttime') \in Int
        /\ time_tick \in Int
    <2>1. /\ Readings \in 0 .. 3
      BY <1>2
    <2>2. /\ PpsInv' /\ AdjBounded' /\ NoLeap' /\ MicroOK'
          /\ {delta', time_real'} \subseteq Int /\ cpu_intr' \in cpu
          /\ delay' \in Seq(Int) /\ Len(delay') = cl.delmax
          /\ UNCHANGED cl /\ cl \in CommandLine
          /\ lasttime' \in Reading /\ After(lasttime', lasttime)
          /\ Nanoseconds(lasttime')
                <= Nanoseconds(TIMEVAR)' + time_tick + Readings + 1
          /\ Nanoseconds(TIMEVAR)' \in Int /\ Nanoseconds(lasttime') \in Int
          /\ time_tick \in Int
      BY <1>1, <2>1, UpdatedKeeps
    <2> QED BY <1>2, <2>2
  <1>4. SimTypeOK'
    BY <1>1, <1>3 DEF SimInv, SimTypeOK, Stages
  <1>5. EventsInv'
    BY <1>1 DEF SimInv, EventsInv
  <1>6. LeadInv'
    BY <1>1, <1>3 DEF LeadInv, Readings, time_tick
  <1> QED BY <1>3, <1>4, <1>5, <1>6 DEF SimInv

(* microset() keeps a divisor that is not zero.                            *)
LEMMA MicrosetType ==
    ASSUME TicksInRange, MicroOK, Inv, NEW i \in cpu, NEW pcc \in Int,
           NEW master \in Int, microset(i, pcc, TIMEVAR, master)
    PROVE  MicroOK'
  <1> DEFINE Kept == [flag : BOOLEAN, time : [sec : Int, nsec : Int],
                      pcc : Int, numer : Int, denom : Nat, master : Int]
             m == micro[i]
             n == IF m.flag THEN NextReading(m, pcc, TIMEVAR, master)
                  ELSE FirstReading(pcc, TIMEVAR, master)
  <1>1. /\ NANOSECOND \in Int /\ PCC_RANGE \in Int
        /\ CPU_CLOCK \in Nat \ {0}
        /\ tv_sec \in Int /\ tv_nsec \in Int
    BY TimexAssumption, MicroAssumption DEF Inv, TypeOK
  <1>2. /\ TIMEVAR \in [sec : Int, nsec : Int]
        /\ TIMEVAR.sec \in Int /\ TIMEVAR.nsec \in Int
    BY <1>1 DEF TIMEVAR, Time
  <1>3. m \in Kept /\ (m.flag => m.denom # 0)
    BY DEF MicroOK
  <1>4. n \in Kept /\ n.denom # 0
    <2>1. CASE ~m.flag
      <3>1. n = FirstReading(pcc, TIMEVAR, master)
        BY <2>1
      <3> HIDE DEF n
      <3> QED BY <1>1, <1>2, <3>1 DEF FirstReading
    <2>2. CASE m.flag
      <3> DEFINE numer == (TIMEVAR.sec - m.time.sec) * NANOSECOND
                              + TIMEVAR.nsec - m.time.nsec
                 denom == IF pcc < m.pcc THEN pcc - m.pcc + PCC_RANGE
                          ELSE pcc - m.pcc
                 keep == denom <= 0 \/ numer <= 0
      <3>1. n = [flag |-> TRUE, time |-> TIMEVAR, pcc |-> pcc,
                 master |-> master,
                 numer |-> IF keep THEN m.numer ELSE numer,
                 denom |-> IF keep THEN m.denom ELSE denom]
        BY <2>2 DEF NextReading
      <3> HIDE DEF n, m
      <3>2. /\ m.time.sec \in Int /\ m.time.nsec \in Int /\ m.pcc \in Int
            /\ m.numer \in Int /\ m.denom \in Nat \ {0}
        BY <1>3, <2>2
      <3>3. numer \in Int /\ denom \in Int
        <4>1. (TIMEVAR.sec - m.time.sec) * NANOSECOND \in Int
          BY <1>1, <1>2, <3>2
        <4> QED BY <1>1, <1>2, <3>2, <4>1
      <3> HIDE DEF numer, denom
      <3>4. /\ (IF keep THEN m.numer ELSE numer) \in Int
            /\ (IF keep THEN m.denom ELSE denom) \in Nat \ {0}
        BY <3>2, <3>3
      <3> HIDE DEF keep
      <3> QED BY <1>2, <3>1, <3>4
    <2> QED BY <2>1, <2>2
  <1>5. micro' = [micro EXCEPT ![i] = n]
    BY DEF microset
  <1> HIDE DEF m, n
  <1>6. micro \in [cpu -> Kept] /\ \A j \in cpu : micro[j].flag => micro[j].denom # 0
    BY DEF MicroOK
  <1> HIDE DEF Kept
  <1>7. /\ micro' \in [cpu -> Kept]
        /\ \A j \in cpu : micro'[j] = IF j = i THEN n ELSE micro[j]
    BY <1>4, <1>5, <1>6
  <1>8. \A j \in cpu : micro'[j].flag => micro'[j].denom # 0
    BY <1>4, <1>6, <1>7
  <1> QED BY <1>7, <1>8 DEF MicroOK, Kept

LEMMA FixStep ==
    ASSUME TicksInRange, SimInv, Fix
    PROVE  SimInv'
  <1>1. /\ stage = "fix" /\ PpsInv /\ Inv /\ SimTypeOK
        /\ time_real \in Int /\ time_real < time_pps
    BY DEF SimInv, SimTypeOK, PpsInv, Fix, EventsInv
  <1>2. /\ stage' = "event" /\ time_tack' = time_real + time_tick
        /\ UNCHANGED <<kvars, lasttime, time_real, time_pps, delta, delay,
                       silence, cl>>
        /\ Others
        /\ fixcnt' = IF fixcnt + 1 >= hz THEN 0 ELSE fixcnt + 1
        /\ cpu_intr' = IF fixcnt < NCPUS THEN fixcnt ELSE cl.master_cpu
    BY DEF Fix, KeepRest
  <1>3. UNCHANGED <<timevar, time_adj, time_status, time_state, pps_freq>>
    BY <1>2 DEF kvars, leapVars, tickVars, ppsVars
  <1>4. PpsInv'
    <2>1. PpsFreqClamped'
      BY <1>1, <1>3 DEF PpsInv, PpsFreqClamped
    <2> QED BY <1>1, <1>2, <2>1, StutterInv, SimUpdate
  <1>5. fixcnt' \in Nat /\ cpu_intr' \in cpu
    <2>1. fixcnt \in Nat /\ cl.master_cpu \in cpu /\ NCPUS \in Nat \ {0}
      BY <1>1, SimNumbers DEF SimTypeOK, CommandLine
    <2> QED BY <1>2, <2>1, KtimeAssumption DEF cpu
  <1>6. MicroOK'
    <2>1. CASE ~(fixcnt < NCPUS)
      <3>1. UNCHANGED micro
        BY <2>1 DEF Fix
      <3> QED BY <1>1, <3>1 DEF SimTypeOK, MicroOK
    <2>2. CASE fixcnt < NCPUS
      <3> DEFINE master == IF fixcnt = cl.master_cpu THEN 0
                           ELSE NanoCount(cpu_intr, rpcc(cpu_intr, time_real),
                                          TIMEVAR)
      <3>1. microset(fixcnt, rpcc(fixcnt, time_real), TIMEVAR, master)
        BY <2>2 DEF Fix
      <3>2. fixcnt \in cpu /\ cpu_intr \in cpu /\ MicroOK
        <4>1. fixcnt \in Nat /\ NCPUS \in Nat
          BY <1>1, SimNumbers DEF SimTypeOK
        <4> QED BY <1>1, <2>2, <4>1 DEF SimTypeOK, cpu
      <3>3. rpcc(fixcnt, time_real) \in Int /\ rpcc(cpu_intr, time_real) \in Int
        BY <1>1, <3>2, CounterType
      <3>4. master \in Int
        <4>1. tv_sec \in Int /\ tv_nsec \in Int
          BY <1>1 DEF Inv, TypeOK
        <4>2. Accumulated(cpu_intr, rpcc(cpu_intr, time_real),
                          Time(tv_sec, tv_nsec)) \in Int
          BY <3>2, <3>3, <4>1, AccumulatedType
        <4>3. micro[cpu_intr].master \in Int
          BY <3>2 DEF MicroOK
        <4> QED BY <4>2, <4>3 DEF NanoCount, TIMEVAR
      <3> HIDE DEF master
      <3> QED BY <1>1, <3>1, <3>2, <3>3, <3>4, MicrosetType
    <2> QED BY <2>1, <2>2
  <1>7. SimTypeOK'
    <2>1. time_tack' \in Int
      BY <1>1, <1>2, SimNumbers
    <2> QED BY <1>1, <1>2, <1>5, <1>6, <2>1 DEF SimTypeOK, Stages
  <1>8. AdjBounded' /\ NoLeap'
    BY <1>3 DEF SimInv, AdjBounded, NoLeap
  <1>9. EventsInv'
    <2>1. time_pps \in Int /\ time_tick \in Nat
      BY <1>1, SimNumbers DEF SimTypeOK
    <2> QED BY <1>1, <1>2, <2>1 DEF EventsInv, time_tick
  <1>10. LeadInv'
    <2>1. Readings = 2 /\ Readings' \in {2, 3}
      <3>1. Readings' \in {2, 3}
        BY <1>2 DEF Readings
      <3> QED BY <1>1, <3>1, ReadingsValue
    <2>2. Nanoseconds(lasttime) <= Nanoseconds(TIMEVAR) + time_tick + 2
      BY <2>1 DEF SimInv, LeadInv
    <2>3. /\ Nanoseconds(lasttime)' = Nanoseconds(lasttime)
          /\ Nanoseconds(TIMEVAR)' = Nanoseconds(TIMEVAR)
      BY <1>2, <1>3 DEF Nanoseconds, TIMEVAR, timevar, Time
    <2>4. /\ Nanoseconds(lasttime) \in Int /\ Nanoseconds(TIMEVAR) \in Int
          /\ time_tick \in Int
      BY <1>1, TimevarType, ReadingType, SimNumbers DEF SimTypeOK
    <2> QED BY <2>1, <2>2, <2>3, <2>4 DEF LeadInv, time_tick
  <1> QED BY <1>4, <1>7, <1>8, <1>9, <1>10 DEF SimInv

(* A tick moves the clock on by more than the readings since the last one  *)
(* can have moved lasttime, whatever the processor then interpolates.      *)
LEMMA TickMoves ==
    ASSUME TicksInRange, SimInv, Tick \/ SecondOverflow
    PROVE  /\ Nanoseconds(TIMEVAR)' = Nanoseconds(Time(tv_sec, TickAdjusted))
           /\ Nanoseconds(TIMEVAR) + 4
                    <= Nanoseconds(Time(tv_sec, TickAdjusted))
           /\ TickAdjusted \in 0 .. NANOSECOND - 1 + LongestUpdate
           /\ Nanoseconds(Time(tv_sec, TickAdjusted)) \in Int
           /\ AdjBounded' /\ NoLeap' /\ PpsFreqClamped'
  <1>1. Inv /\ AdjBounded /\ NoLeap /\ PpsFreqClamped
    BY DEF SimInv, PpsInv
  <1>2. /\ TickUpdate \in Nat /\ TickUpdate >= 4
        /\ TickUpdate <= LongestUpdate
        /\ LongestUpdate \in Nat /\ NANOSECOND \in Nat \ {0}
    BY <1>1, UpdateBounds, SimNumbers DEF TicksInRange
  <1>3. tv_sec \in Int /\ tv_nsec \in 0 .. NANOSECOND - 1
    BY <1>1 DEF Inv, TypeOK, Normalized
  <1>4. /\ TickAdjusted \in 0 .. NANOSECOND - 1 + LongestUpdate
        /\ TickAdjusted = tv_nsec + TickUpdate
    BY <1>2, <1>3 DEF TickAdjusted
  <1> DEFINE n == TickAdjusted
  <1> HIDE DEF n
  <1>5. n \in Int /\ n = tv_nsec + TickUpdate
    BY <1>2, <1>4 DEF n
  <1>6. /\ Nanoseconds(Time(tv_sec, n)) = tv_sec * NANOSECOND + n
        /\ Nanoseconds(TIMEVAR) = tv_sec * NANOSECOND + tv_nsec
        /\ tv_sec * NANOSECOND \in Int
    <2>1. tv_nsec \in Int /\ tv_sec * NANOSECOND \in Int
      BY <1>2, <1>3
    <2> QED BY <1>3, <1>5, <2>1, NanosecondsType DEF TIMEVAR
  <1>7. /\ Nanoseconds(TIMEVAR) + 4 <= Nanoseconds(Time(tv_sec, n))
        /\ Nanoseconds(Time(tv_sec, n)) \in Int
    BY <1>2, <1>3, <1>5, <1>6
  <1>8. CASE Tick
    <2>1. /\ tv_nsec' = n
          /\ UNCHANGED <<tv_sec, time_adj, time_status, time_state, pps_freq>>
      BY <1>8 DEF Tick, leapVars, ppsVars, n
    <2>2. Nanoseconds(TIMEVAR)' = Nanoseconds(Time(tv_sec, n))
      BY <2>1 DEF TIMEVAR, Nanoseconds, Time
    <2> QED BY <1>1, <1>4, <1>7, <2>1, <2>2
            DEF AdjBounded, NoLeap, PpsFreqClamped, n
  <1>9. CASE SecondOverflow
    <2>1. /\ tv_nsec' = n - NANOSECOND
          /\ LeapStep(tv_sec + 1) /\ time_adj' = SecondAdjustment
          /\ PpsWatchdog /\ UNCHANGED pps_freq
      BY <1>9 DEF SecondOverflow, n
    <2>2. AdjBounded' /\ PpsFreqClamped'
      BY <1>1, <2>1, AdjustmentTight
      DEF AdjBounded, AdjFloor, AdjLimit, PpsFreqClamped
    <2>3. /\ time_status' \cap LeapFlags = {}
      <3>1. time_status' = time_status
            \/ time_status' = time_status \ {"STA_PPSSIGNAL"}
        BY <2>1, Zenon DEF PpsWatchdog
      <3> QED BY <1>1, <3>1 DEF NoLeap
    <2>4. tv_sec' = tv_sec + 1 /\ time_state' = "TIME_OK"
      <3>1. time_state = "TIME_OK" /\ ~Has("STA_INS") /\ ~Has("STA_DEL")
        BY <1>1 DEF NoLeap, LeapFlags, Has
      <3>2. NoWarning(tv_sec + 1)
        BY <2>1, <3>1
        DEF LeapStep, WarningWithdrawn, WarningPending, InsertSecond,
            DeleteSecond, EndInsertion, WaitForBits
      <3> QED BY <3>1, <3>2 DEF NoWarning
    <2>5. Nanoseconds(TIMEVAR)' = Nanoseconds(Time(tv_sec, n))
      <3>1. TIMEVAR' = Time(tv_sec + 1, n - NANOSECOND)
        BY <2>1, <2>4 DEF TIMEVAR, Time
      <3>2. Nanoseconds(TIMEVAR)' = Nanoseconds(TIMEVAR')
        BY DEF Nanoseconds
      <3> QED BY <1>3, <1>5, <3>1, <3>2, NanosecondsType
    <2> QED BY <1>4, <1>7, <2>2, <2>3, <2>4, <2>5 DEF NoLeap, n
  <1> QED BY <1>8, <1>9

LEMMA TickStep ==
    ASSUME TicksInRange, SimInv, TickInterrupt
    PROVE  SimInv' /\ After(lasttime', lasttime)
  <1> DEFINE n == TickAdjusted
  <1>1. /\ stage = "event" /\ time_pps > time_tack
        /\ churn(time_tack, Time(tv_sec, n))
        /\ \/ Tick /\ stage' = "fix"
           \/ SecondOverflow /\ stage' = "rollover"
        /\ UNCHANGED <<time_tack, time_pps, cpu_intr, fixcnt, delay, micro,
                       silence, cl>>
        /\ Others
    BY DEF TickInterrupt, Running, KeepRest
  <1>2. PpsInv /\ Inv /\ SimTypeOK
    BY DEF SimInv, PpsInv
  <1>3. /\ Nanoseconds(TIMEVAR)' = Nanoseconds(Time(tv_sec, n))
        /\ Nanoseconds(TIMEVAR) + 4 <= Nanoseconds(Time(tv_sec, n))
        /\ n \in 0 .. NANOSECOND - 1 + LongestUpdate
        /\ Nanoseconds(Time(tv_sec, n)) \in Int
        /\ AdjBounded' /\ NoLeap' /\ PpsFreqClamped'
    BY <1>1, TickMoves
  <1> HIDE DEF n
  <1>4. PpsInv'
    <2>1. Inv'
      BY <1>1, <1>2, TickInv, SecondOverflowInv
    <2> QED BY <1>1, <1>3, <2>1, SimUpdate
  <1>5. /\ Nanoseconds(lasttime) <= Nanoseconds(TIMEVAR) + time_tick + 3
        /\ Nanoseconds(lasttime) \in Int /\ Nanoseconds(TIMEVAR) \in Int
        /\ time_tick \in Int
    <2>1. Readings \in {2, 3} /\ Readings \in Int
      BY <1>1, ReadingsValue
    <2>2. /\ Nanoseconds(lasttime) \in Int /\ Nanoseconds(TIMEVAR) \in Int
          /\ time_tick \in Int
      BY <1>2, TimevarType, ReadingType, SimNumbers DEF SimTypeOK
    <2>3. Nanoseconds(lasttime) <= Nanoseconds(TIMEVAR) + time_tick + Readings
      BY DEF SimInv, LeadInv
    <2> QED BY <2>1, <2>2, <2>3
  <1>6. /\ lasttime' \in Reading /\ After(lasttime', lasttime)
        /\ Nanoseconds(lasttime') \in Int
        /\ \/ Nanoseconds(lasttime') <= Nanoseconds(Time(tv_sec, n)) + time_tick
           \/ Nanoseconds(lasttime') = Nanoseconds(lasttime) + 1
    <2>1. /\ MicroOK /\ lasttime \in Reading /\ cpu_intr \in cpu
          /\ rpcc(cpu_intr, time_tack) \in Int /\ tv_sec \in Int
      <3>1. /\ MicroOK /\ lasttime \in Reading /\ cpu_intr \in cpu
            /\ time_tack \in Int
        BY <1>2 DEF SimTypeOK
      <3>2. tv_sec \in Int
        BY <1>2 DEF Inv, TypeOK
      <3> QED BY <3>1, <3>2, CounterType
    <2>2. nano_time(cpu_intr, rpcc(cpu_intr, time_tack), Time(tv_sec, n))
      BY <1>1 DEF churn, chime
    <2>3. /\ 0 \in 0 .. 4
          /\ Nanoseconds(lasttime)
                <= Nanoseconds(Time(tv_sec, n)) + time_tick + 0
      BY <1>3, <1>5
    <2> QED BY <1>3, <2>1, <2>2, <2>3, ReadLater
  <1>7. Nanoseconds(lasttime') <= Nanoseconds(TIMEVAR)' + time_tick
    BY <1>3, <1>5, <1>6
  <1>8. SimTypeOK'
    <2>1. time_tack \in Int
      BY <1>2 DEF SimTypeOK
    <2>2. time_real' \in Int /\ delta' \in Int
      <3>1. Reference(time_tack) \in Int
        BY <1>2, <2>1, ReferenceType DEF SimTypeOK
      <3> QED BY <1>1, <1>6, <2>1, <3>1 DEF churn
    <2> QED BY <1>1, <1>2, <1>6, <2>2 DEF SimTypeOK, Stages, MicroOK
  <1>9. EventsInv'
    BY <1>1 DEF EventsInv, churn
  <1>10. LeadInv'
    <2>1. Readings' \in {0, 2}
      BY <1>1 DEF Readings
    <2>2. Nanoseconds(TIMEVAR)' \in Int
      BY <1>3
    <2> QED BY <1>5, <1>6, <1>7, <2>1, <2>2 DEF LeadInv, time_tick
  <1> QED BY <1>3, <1>4, <1>6, <1>8, <1>9, <1>10 DEF SimInv

LEMMA PpsStep ==
    ASSUME TicksInRange, SimInv, PpsInterrupt
    PROVE  SimInv' /\ After(lasttime', lasttime)
  <1>1. /\ stage = "event" /\ time_pps <= time_tack
        /\ churn(time_pps, TIMEVAR) /\ AnyProcessor
        /\ time_pps' = time_pps + NANOSECOND
        /\ UNCHANGED <<stage, time_tack, fixcnt, delay, micro, silence, cl>>
    BY DEF PpsInterrupt, Running
  <1>2. PpsInv /\ Inv /\ SimTypeOK
    BY DEF SimInv, PpsInv
  <1>3. /\ time_pps \in Int /\ time_tack \in Int /\ cpu_intr \in cpu
        /\ cpu_intr' \in cpu
        /\ NANOSECOND \in Nat \ {0} /\ time_tick \in Nat
        /\ time_tick <= NANOSECOND
    BY <1>1, <1>2, ProcessorType, SimNumbers DEF SimTypeOK
  <1>4. UNCHANGED <<timevar, time_adj, time_state>>
    BY DEF PpsInterrupt, kvars, leapVars, tickVars
  <1>5. /\ lasttime' \in Reading /\ After(lasttime', lasttime)
        /\ Nanoseconds(lasttime') <= Nanoseconds(TIMEVAR)' + time_tick + 3
        /\ Nanoseconds(lasttime') \in Int
    <2>1. Readings = 2
      BY <1>1, ReadingsValue
    <2>2. nano_time(cpu_intr, rpcc(cpu_intr, time_pps), TIMEVAR)
      BY <1>1 DEF churn, chime
    <2>3. /\ lasttime' \in Reading /\ After(lasttime', lasttime)
          /\ Nanoseconds(lasttime')
                <= Nanoseconds(TIMEVAR)' + time_tick + Readings + 1
          /\ Nanoseconds(TIMEVAR)' = Nanoseconds(TIMEVAR)
          /\ Nanoseconds(TIMEVAR) \in Int
      BY <1>3, <1>4, <2>1, <2>2, QuietRead
    <2>4. Nanoseconds(lasttime') \in Int
      BY <2>3, ReadingType
    <2> QED BY <1>3, <2>1, <2>3, <2>4
  <1>6. Reference(time_pps) \in Int
    BY <1>2, <1>3, ReferenceType DEF SimTypeOK
  <1>7. PpsInv' /\ time_status' \cap LeapFlags = {}
    <2>1. CASE ~PpsEnabled
      <3>1. UNCHANGED <<kvars, drift>> /\ Others
        BY <2>1 DEF PpsInterrupt
      <3>2. UNCHANGED <<pps_freq, time_status>>
        BY <3>1 DEF kvars, ppsVars
      <3>3. Inv' /\ PpsFreqClamped'
        BY <1>2, <3>1, <3>2, StutterInv DEF PpsInv, PpsFreqClamped
      <3> QED BY <1>1, <3>1, <3>2, <3>3, SimUpdate DEF SimInv, NoLeap
    <2>2. CASE PpsEnabled
      <3> DEFINE u == PulseStamp(time_pps)
                 count == PulseCount(time_pps)
      <3>1. PICK bits \in Flags :
                /\ hardpps(u, count, bits)
                /\ time_status' = PulseStatus(time_status, bits)
        BY <2>2 DEF PpsInterrupt
      <3>2. /\ pps_valid' = PPS_VALID
            /\ time_offset' = OffsetSet(u, time_offset)
            /\ UNCHANGED <<timevar, leapVars, time_constant, time_reftime,
                           errorVars, tickVars, pps_shiftmax, drift>>
        BY <2>2 DEF PpsInterrupt
      <3>3. u \in RoundedPulse
        <4> DEFINE nsec == -(Reference(time_pps) - Nanoseconds(lasttime'))
        <4>1. nsec \in Int
          BY <1>5, <1>6
        <4>2. u = PulseTime(nsec, lasttime'.sec + nsec \div NANOSECOND)
          BY DEF PulseStamp, PulseTime
        <4> HIDE DEF nsec
        <4>3. lasttime'.sec \in Int /\ nsec \div NANOSECOND \in Int
          BY <1>3, <1>5, <4>1, ReadingType, FloorType
        <4> QED BY <4>1, <4>2, <4>3, RoundedType
      <3>4. count \in Int
        <4>1. MicroOK /\ tv_sec \in Int /\ tv_nsec \in Int
          BY <1>2 DEF SimTypeOK, Inv, TypeOK
        <4>2. rpcc(cpu_intr, time_pps) \in Int
          BY <1>3, CounterType
        <4>3. Accumulated(cpu_intr, rpcc(cpu_intr, time_pps),
                          Time(tv_sec, tv_nsec)) \in Int
          BY <1>3, <4>1, <4>2, AccumulatedType
        <4>4. micro[cpu_intr].master \in Int
          BY <1>3, <4>1 DEF MicroOK
        <4>5. NanoCount(cpu_intr, rpcc(cpu_intr, time_pps), TIMEVAR)
                  - (Reference(time_pps) - time_pps) \in Int
          BY <1>3, <1>6, <4>3, <4>4 DEF NanoCount, TIMEVAR
        <4> QED BY <1>3, <4>5, FloorType DEF PulseCount
      <3> HIDE DEF u, count
      <3>5. silence' \in Int
        BY <1>1, <1>2 DEF PpsInv, FilterOK
      <3>6. PpsInv'
        BY <1>2, <3>1, <3>2, <3>3, <3>4, <3>5, HitInv
      <3>7. time_status' \cap LeapFlags = {}
        BY <3>1 DEF SimInv, NoLeap, PulseStatus, Flags, LeapFlags
      <3> QED BY <3>6, <3>7
    <2> QED BY <2>1, <2>2
  <1>8. AdjBounded' /\ NoLeap'
    BY <1>4, <1>7 DEF SimInv, AdjBounded, NoLeap
  <1>9. SimTypeOK'
    <2>1. time_real' \in Int /\ delta' \in Int /\ time_pps' \in Int
      BY <1>1, <1>3, <1>5, <1>6 DEF churn
    <2> QED BY <1>1, <1>2, <1>3, <1>5, <2>1 DEF SimTypeOK, Stages, MicroOK
  <1>10. time_tack < time_pps'
    BY <1>1, <1>3 DEF SimInv, EventsInv
  <1>11. EventsInv'
    BY <1>1, <1>3, <1>10 DEF EventsInv, time_tick
  <1>12. LeadInv'
    <2>1. Readings' = 3
      BY <1>1, <1>3, <1>10 DEF Readings
    <2> QED BY <1>5, <2>1 DEF LeadInv, time_tick
  <1> QED BY <1>5, <1>7, <1>8, <1>9, <1>11, <1>12 DEF SimInv

LEMMA SimInitInv == TicksInRange /\ SimInit => SimInv
  <1> SUFFICES ASSUME TicksInRange, SimInit PROVE SimInv
    OBVIOUS
  <1>1. PpsInit /\ Init /\ MicroInit /\ cl \in CommandLines
    BY DEF SimInit, PpsInit
  <1>2. PpsInv /\ AdjBounded
    BY <1>1, PpsInitInv, InitAdj
  <1>3. NoLeap
    BY <1>1 DEF Init, NoLeap, LeapFlags
  <1>4. MicroOK /\ lasttime = Time(0, 0)
    BY <1>1 DEF MicroInit, MicroOK, Time
  <1>5. /\ NANOSECOND \in Nat \ {0} /\ LongestUpdate \in Nat
        /\ time_tick \in Nat /\ 0 \in cpu
    BY SimNumbers
  <1>6. lasttime \in Reading
    BY <1>4, <1>5 DEF Time, Reading
  <1>7. SimTypeOK
    <2>1. cl \in CommandLine /\ cl.delmax \in Nat
      BY <1>1, SimAssumption DEF CommandLine
    <2>2. delay = [d \in 1 .. cl.delmax |-> 0]
      BY DEF SimInit
    <2>3. delay \in Seq(Int) /\ Len(delay) = cl.delmax
      BY <2>1, <2>2
    <2> QED BY <1>4, <1>5, <1>6, <2>1, <2>3
            DEF SimInit, SimTypeOK, Stages
  <1>8. EventsInv
    BY DEF SimInit, EventsInv
  <1>9. LeadInv
    <2>1. Readings = 0
      BY ReadingsValue DEF SimInit
    <2>2. Nanoseconds(lasttime) = 0
      BY <1>4, <1>5 DEF Nanoseconds, Time
    <2>3. Nanoseconds(TIMEVAR) \in Int /\ 0 <= Nanoseconds(TIMEVAR)
      BY <1>2, TimevarType DEF PpsInv
    <2> QED BY <1>5, <2>1, <2>2, <2>3 DEF LeadInv
  <1> QED BY <1>2, <1>3, <1>7, <1>8, <1>9 DEF SimInv

LEMMA SimStutter == SimInv /\ UNCHANGED svars => SimInv'
  <1> SUFFICES ASSUME SimInv, UNCHANGED svars PROVE SimInv'
    OBVIOUS
  <1>1. /\ UNCHANGED <<kvars, silence, micro, lasttime, cl, stage, time_real,
                       time_tack, time_pps, delta, cpu_intr, fixcnt, delay>>
        /\ Others
    BY DEF svars, pvars, microVars, simVars, Others, filterVars
  <1>2. UNCHANGED <<tv_sec, tv_nsec, time_adj, time_status, time_state,
                    pps_freq>>
    BY <1>1 DEF kvars, timevar, leapVars, tickVars, ppsVars
  <1>3. PpsInv'
    <2>1. Inv' /\ PpsFreqClamped'
      BY <1>1, <1>2, StutterInv DEF SimInv, PpsInv, PpsFreqClamped
    <2> QED BY <1>1, <2>1, SimUpdate
  <1>4. AdjBounded' /\ NoLeap' /\ SimTypeOK' /\ EventsInv'
    BY <1>1, <1>2 DEF SimInv, AdjBounded, NoLeap, SimTypeOK, MicroOK,
                      EventsInv, time_tick
  <1>5. LeadInv'
    BY <1>1, <1>2 DEF SimInv, LeadInv, Readings, Nanoseconds, TIMEVAR, Time,
                      time_tick
  <1> QED BY <1>3, <1>4, <1>5 DEF SimInv

LEMMA SimStep ==
    ASSUME TicksInRange, SimInv, [SimNext]_svars
    PROVE  /\ SimInv'
           /\ UNCHANGED svars \/ (stage # "fix" => After(lasttime', lasttime))
  <1>1. CASE Fix
    BY <1>1, FixStep DEF Fix
  <1>2. CASE UNCHANGED svars
    BY <1>2, SimStutter
  <1> QED BY <1>1, <1>2, AdjtimeStep, FirstUpdateStep, TickStep, RolloverStep,
             UpdateStep, PpsStep DEF SimNext

(* In the closed loop, with the PPS signal or without, and however the     *)
(* processors' counters run, each reading of the clock is later than the   *)
(* one before.                                                             *)
THEOREM ReadsLaterHolds == TicksInRange => (SimSpec => ReadsLater)
  <1> SUFFICES ASSUME TicksInRange PROVE SimSpec => ReadsLater
    OBVIOUS
  <1>1. SimInit => SimInv
    BY SimInitInv
  <1>2. SimInv /\ [SimNext]_svars => SimInv'
    BY SimStep
  <1>3. SimInv /\ [SimNext]_svars
            => [stage # "fix" => After(lasttime', lasttime)]_svars
    BY SimStep
  <1> QED BY <1>1, <1>2, <1>3, PTL DEF SimSpec, ReadsLater

(* The closed loop stays within the invariant of the kernel and of the PPS *)
(* discipline: the error that a processor's reading of the clock feeds     *)
(* back into hardpps() and hardupdate(), however large, does not take it   *)
(* out.                                                                    *)
THEOREM SimKeepsInv == TicksInRange => (SimSpec => []PpsInv)
  <1> SUFFICES ASSUME TicksInRange PROVE SimSpec => []PpsInv
    OBVIOUS
  <1>1. SimInit => SimInv
    BY SimInitInv
  <1>2. SimInv /\ [SimNext]_svars => SimInv'
    BY SimStep
  <1>3. SimInv => PpsInv
    BY DEF SimInv
  <1> QED BY <1>1, <1>2, <1>3, PTL DEF SimSpec

(***************************************************************************)
(* Calibration.  The theorem says that an accepted calibration helps,      *)
(* however many pulses are missed or spurious in the interval.  The        *)
(* accumulator is shown to hold what the counter has gained: a difference  *)
(* is folded into half a second and half a tick, and the folds of the      *)
(* pulses of an interval add up to one.  The bound on the silence is a     *)
(* hypothesis on the behaviour, as a counter that gains half a tick from   *)
(* one pulse to the next is read as one that loses as much.                *)
(***************************************************************************)

(* No request announces a leap second.                                     *)
NoLeaps ==
    \A r \in Requests : "MOD_STATUS" \in r.modes => r.status \cap LeapFlags = {}

(* A pulse of the filter, the zero that it starts with among them.         *)
AnyPhase == GoodPhase \cup Spikes

(* What hardpps() makes of a difference of counters.                       *)
CounterFolded(x) == Folded(Folded(x, NANOSECOND), time_tick)

(* From a pulse of phase q to one of phase p, n seconds later, the folds   *)
(* leave what the counter has gained and the difference of the two phases  *)
(* as folded, from whichever side of zero the difference is taken.         *)
FoldsTo(n, p, q) ==
    \A d \in Drifts :
        LET y == (d * n + (p - q)) % NANOSECOND
        IN  \A x \in {y, y - NANOSECOND} :
                CounterFolded(x) = d * n + (CounterFolded(p) - CounterFolded(q))

(* The longest calibration interval.                                       *)
Longest == PowerOfTwo[PPS_FAVGMAX]

(* The folds are exact for the drifts and phases there are, between pulses *)
(* no farther apart than the longest silence and a second to either side.  *)
(* With a tick of 10 ms that is a gain of less than 5 ms from one pulse to *)
(* the next: 35 ppm during the two minutes of the watchdog.                *)
FoldsExactly(gap) ==
    /\ \A p \in GoodPhase : CounterFolded(p) = p
    /\ \A n \in 0 .. Longest :
           n <= gap + 2 =>
               /\ \A p, q \in GoodPhase : FoldsTo(n, p, q)
               /\ n < Longest => \A p, q \in AnyPhase : FoldsTo(n, p, q)

(* What a longest interval adds up to fits the accumulator.                *)
GainInRange ==
    \A d \in Drifts, n \in 0 .. Longest :
        d * n \in -(LONG_HALF - 2 * MAXPHASE - 1) .. LONG_HALF - 2 * MAXPHASE - 1

(* The filter starts with pulses at second 0: no interval counts from them *)
(* when the clock starts later than an interval takes.                     *)
StartsLate(gap) == gap >= Longest \/ \A start \in StartSecs : start > Longest

(* A pulse late in a second and one early in the next are more than a tick *)
(* apart, so that the tick tells which second a pulse is of.               *)
PhasesOrdered ==
    \A p, q \in AnyPhase :
        p >= 0 /\ q < 0 => p < NANOSECOND + q - time_tick

(* The frequency limit allows what cancels the drift.                      *)
DriftsWithin == Drifts \subseteq -MAXFREQ .. MAXFREQ

(* A frequency is shifted down by an interval without a remainder.         *)
IntervalsDivide == FRAC % Longest = 0

(* The last pulse is not ahead of the next one that the clock can see.     *)
PulseBefore(t, sec, nsec) ==
    \/ t.sec <= sec
    \/ /\ t.sec = sec + 1
       /\ NANOSECOND + t.nsec - time_tick <= nsec

(* The counter's gain in n seconds, and what the phases at both ends add.  *)
Gained(n, p, base) == drift * n + (CounterFolded(p) - base)

(* The accumulator holds what the counter has gained since the good pulse  *)
(* that the interval began at, n seconds before the last pulse.            *)
FilterInv ==
    LET t == pps_tf[1]
        n == t.sec - pps_lastsec
    IN  /\ drift \in Drifts
        /\ t.nsec \in AnyPhase
        /\ pps_lastcount = Count(t)
        /\ n \in Nat
        /\ n < PowerOfTwo[pps_shift] =>
               \E base \in GoodPhase : pps_fcount = Gained(n, t.nsec, base)

(* The seconds since the last pulse, unless there has been none yet.       *)
Heard(gap) ==
    \/ gap >= Longest
    \/ tv_sec <= pps_tf[1].sec + silence
    \/ pps_tf[1].sec = 0 /\ pps_lastsec = 0 /\ tv_sec > Longest

CalInv(gap) ==
    /\ NoLeap
    /\ PulseBefore(pps_tf[1], tv_sec, tv_nsec)
    /\ FilterInv
    /\ Heard(gap)

(***************************************************************************)
(* The counter.                                                            *)
(***************************************************************************)
(* A remainder is determined by the division that it is left by.           *)
LEMMA ModUnique ==
    ASSUME NEW n \in Int, NEW d \in Nat \ {0},
           NEW q \in Int, NEW r \in 0 .. d - 1, n = d * q + r
    PROVE  n % d = r
  <1> DEFINE p == n \div d
             m == n % d
  <1>1. p \in Int /\ m \in 0 .. d - 1 /\ n = d * p + m
    OBVIOUS
  <1> HIDE DEF p, m
  <1>2. \A a, b \in Int, x, y \in 0 .. d - 1 :
            d * a + x = d * b + y => ~(a < b)
    <2> SUFFICES ASSUME NEW a \in Int, NEW b \in Int,
                        NEW x \in 0 .. d - 1, NEW y \in 0 .. d - 1,
                        d * a + x = d * b + y, a < b
                 PROVE  FALSE
      OBVIOUS
    <2>1. (a + 1) * d <= b * d
      BY MulMono
    <2>2. d * a + d <= d * b
      BY <2>1
    <2>3. d * a \in Int /\ d * b \in Int
      OBVIOUS
    <2> QED BY <2>2, <2>3
  <1>3. p = q
    BY <1>1, <1>2
  <1>4. m = r
    BY <1>1, <1>3
  <1> QED BY <1>4 DEF m

(* A difference of remainders is known up to the modulus.                  *)
LEMMA ModDifference ==
    ASSUME NEW a \in Int, NEW b \in Int, NEW d \in Nat \ {0}
    PROVE  (a % d) - (b % d) \in {(a - b) % d, ((a - b) % d) - d}
  <1> DEFINE p == a \div d
             r == a % d
             q == b \div d
             s == b % d
  <1>1. /\ p \in Int /\ r \in 0 .. d - 1 /\ a = d * p + r
        /\ q \in Int /\ s \in 0 .. d - 1 /\ b = d * q + s
    OBVIOUS
  <1> HIDE DEF p, r, q, s
  <1>2. \A x, y \in Int : /\ d * (x - y) = d * x - d * y
                          /\ d * (x - y - 1) = d * x - d * y - d
                          /\ d * x \in Int
    OBVIOUS
  <1>3. CASE r >= s
    <2>1. a - b = d * (p - q) + (r - s)
      BY <1>1, <1>2
    <2>2. a - b \in Int /\ p - q \in Int /\ r - s \in 0 .. d - 1
      BY <1>1, <1>3
    <2>3. (a - b) % d = r - s
      BY <2>1, <2>2, ModUnique
    <2> QED BY <2>3 DEF r, s
  <1>4. CASE ~(r >= s)
    <2>1. a - b = d * (p - q - 1) + (r - s + d)
      BY <1>1, <1>2
    <2>2. a - b \in Int /\ p - q - 1 \in Int /\ r - s + d \in 0 .. d - 1
      BY <1>1, <1>4
    <2>3. (a - b) % d = r - s + d
      BY <2>1, <2>2, ModUnique
    <2>4. ((a - b) % d) - d = r - s
      BY <1>1, <2>3
    <2> QED BY <2>4 DEF r, s
  <1> QED BY <1>3, <1>4

(* A tick is at most half a second.                                        *)
LEMMA TickHalf ==
    /\ time_tick \in Nat
    /\ 2 * time_tick <= NANOSECOND
  <1>1. NANOSECOND \in Nat /\ hz \in Nat \ {0} /\ hz >= 2
    BY TimexAssumption, KtimeAssumption
  <1> DEFINE k == NANOSECOND \div hz
  <1>2. k \in Nat /\ hz * k <= NANOSECOND
    BY <1>1, DivNat
  <1> HIDE DEF k
  <1>3. \A a, b \in Nat : a >= 2 => 2 * b <= a * b
    BY MulMono
  <1>4. 2 * k <= hz * k /\ hz * k \in Nat
    BY <1>1, <1>2, <1>3
  <1>5. time_tick = k
    BY DEF time_tick, k
  <1> QED BY <1>1, <1>2, <1>4, <1>5

(* A folded difference is within half a second, and is a number.           *)
LEMMA FoldedWithin ==
    ASSUME NEW x \in Int, -NANOSECOND <= x, x <= NANOSECOND
    PROVE  CounterFolded(x) \in -MAXPHASE .. MAXPHASE
  <1> DEFINE half == NANOSECOND \div 2
             part == time_tick \div 2
             once == Folded(x, NANOSECOND)
  <1>1. /\ NANOSECOND \in Nat /\ MAXPHASE \in Nat
        /\ NANOSECOND <= 2 * MAXPHASE
    BY TimexAssumption, PpsAssumption
  <1>2. /\ half \in Nat /\ 2 * half <= NANOSECOND
        /\ NANOSECOND <= 2 * half + 1
    BY <1>1
  <1>3. /\ time_tick \in Nat /\ part \in Nat /\ 2 * part <= time_tick
        /\ time_tick <= half
    BY <1>1, <1>2, TickHalf
  <1>4. once = IF x > half THEN x - NANOSECOND
               ELSE IF x < -half THEN x + NANOSECOND ELSE x
    BY DEF Folded
  <1>5. CounterFolded(x) = IF once > part THEN once - time_tick
                           ELSE IF once < -part THEN once + time_tick
                           ELSE once
    BY DEF CounterFolded, Folded
  <1> HIDE DEF half, part, once
  <1>6. once \in -half .. half
    BY <1>1, <1>2, <1>4
  <1> QED BY <1>1, <1>2, <1>3, <1>5, <1>6

LEMMA FoldedInt ==
    ASSUME NEW x \in Int
    PROVE  CounterFolded(x) \in Int
  <1>1. NANOSECOND \in Int /\ time_tick \in Int
    BY TimexAssumption, TickHalf
  <1>2. \A a, b \in Int : Folded(a, b) \in Int
    BY DEF Folded
  <1> QED BY <1>1, <1>2 DEF CounterFolded

(* What the counter has gained since a good pulse fits the accumulator.    *)
LEMMA GainFits ==
    ASSUME PhasesRounded, GainInRange, drift \in Drifts, NEW n \in 0 .. Longest,
           NEW p \in -MAXPHASE .. MAXPHASE, NEW base \in GoodPhase, NEW v,
           v = drift * n + (CounterFolded(p) - base)
    PROVE  WrapLong(v) = v
  <1> DEFINE room == LONG_HALF - 2 * MAXPHASE - 1
             dn == drift * n
             c == CounterFolded(p)
             half == NANOSECOND \div 2
  <1>1. /\ NANOSECOND \in Nat \ {0} /\ MAXPHASE \in Nat
        /\ LONG_HALF \in Nat
        /\ NANOSECOND <= 2 * MAXPHASE /\ MAXPHASE < NANOSECOND
    BY TimexAssumption, PpsAssumption
  <1>2. base \in -MAXPHASE .. MAXPHASE
    <2>1. /\ half \in Nat /\ 2 * half <= NANOSECOND
          /\ NANOSECOND <= 2 * half + 1
      BY <1>1
    <2>2. base = 0 \/ base \in -(NANOSECOND - half) .. half - 1
      BY DEF GoodPhase, PhasesRounded
    <2> HIDE DEF half
    <2> QED BY <1>1, <2>1, <2>2
  <1>3. c \in -MAXPHASE .. MAXPHASE
    <2>1. p \in Int /\ -NANOSECOND <= p /\ p <= NANOSECOND
      BY <1>1
    <2> QED BY <2>1, FoldedWithin
  <1>4. dn \in -room .. room
    BY DEF GainInRange
  <1>5. v = dn + (c - base)
    OBVIOUS
  <1> HIDE DEF c, dn
  <1>6. v \in Int /\ -LONG_HALF <= v /\ v < LONG_HALF
    BY <1>1, <1>2, <1>3, <1>4, <1>5
  <1> QED BY <1>6, WrapLongFits

(* A pulse's step of the counter: the drift, and the phases as folded.     *)
LEMMA CountedStep ==
    ASSUME drift \in Drifts, NEW u \in RoundedPulse,
           NEW t, t.sec \in Int, t.nsec \in Int, pps_lastcount = Count(t),
           FoldsTo(u.sec - t.sec, u.nsec, t.nsec)
    PROVE  CountStep(Count(u)) = drift * (u.sec - t.sec)
                + (CounterFolded(u.nsec) - CounterFolded(t.nsec))
  <1> DEFINE a == drift * u.sec + u.nsec
             b == drift * t.sec + t.nsec
             m == u.sec - t.sec
             y == (drift * m + (u.nsec - t.nsec)) % NANOSECOND
  <1>1. /\ NANOSECOND \in Nat \ {0} /\ drift \in Int
        /\ u.sec \in Int /\ u.nsec \in Int /\ t.sec \in Int /\ t.nsec \in Int
    BY TimexAssumption, PpsAssumption DEF RoundedPulse
  <1>2. \A x, i, j \in Int : x * (i - j) = x * i - x * j /\ x * i \in Int
    OBVIOUS
  <1>3. /\ a \in Int /\ b \in Int
        /\ a - b = drift * m + (u.nsec - t.nsec)
    <2> DEFINE i == drift * u.sec
               j == drift * t.sec
               k == drift * m
    <2>1. k = i - j /\ i \in Int /\ j \in Int
      BY <1>1, <1>2
    <2>2. a = i + u.nsec /\ b = j + t.nsec
      OBVIOUS
    <2> HIDE DEF i, j, k, a, b
    <2>3. a \in Int /\ b \in Int /\ a - b = k + (u.nsec - t.nsec)
      BY <1>1, <2>1, <2>2
    <2> QED BY <2>3 DEF k
  <1>4. Count(u) - Count(t) \in {y, y - NANOSECOND}
    <2>1. Count(u) = a % NANOSECOND /\ Count(t) = b % NANOSECOND
      BY DEF Count
    <2>2. y = (a - b) % NANOSECOND
      BY <1>3
    <2> HIDE DEF a, b, y
    <2> QED BY <1>1, <1>3, <2>1, <2>2, ModDifference
  <1>5. \A x \in {y, y - NANOSECOND} :
            CounterFolded(x) = drift * m
                + (CounterFolded(u.nsec) - CounterFolded(t.nsec))
    BY Zenon DEF FoldsTo
  <1>6. CountStep(Count(u)) = CounterFolded(Count(u) - Count(t))
    BY DEF CountStep, CounterFolded
  <1> HIDE DEF y, m
  <1>7. CounterFolded(Count(u) - Count(t)) = drift * m
                + (CounterFolded(u.nsec) - CounterFolded(t.nsec))
    BY <1>4, <1>5, Zenon
  <1> QED BY <1>6, <1>7 DEF m

(***************************************************************************)
(* The order of pulses.                                                    *)
(***************************************************************************)
(* Where PulseTime puts a pulse of a phase that the rounding may yield.    *)
LEMMA PulseSecond ==
    ASSUME PhasesRounded, NEW phase \in Jitter \cup Spikes, NEW sec \in Int
    PROVE  IF phase >= 0
           THEN PulseTime(phase, sec).sec = sec /\ phase % NANOSECOND = phase
           ELSE /\ PulseTime(phase, sec).sec = sec + 1
                /\ phase % NANOSECOND = NANOSECOND + phase
  <1> DEFINE n == phase % NANOSECOND
             half == NANOSECOND \div 2
  <1>1. /\ NANOSECOND \in Nat \ {0} /\ half \in Nat /\ half < NANOSECOND
        /\ phase \in Int
        /\ phase >= -(NANOSECOND - half) /\ phase < half
    BY TimexAssumption, PpsAssumption DEF PhasesRounded
  <1>2. CASE phase >= 0
    <2>1. n = phase
      BY <1>1, <1>2
    <2> HIDE DEF n
    <2>2. ~(n >= half)
      BY <1>1, <2>1
    <2>3. PulseTime(phase, sec) = Stamp(sec, n)
      BY <2>2, Zenon DEF PulseTime, Rounded, Stamp, n, half
    <2> QED BY <1>2, <2>1, <2>3 DEF Stamp, n
  <1>3. CASE ~(phase >= 0)
    <2>1. n = phase + NANOSECOND
      BY <1>1, <1>3
    <2> HIDE DEF n
    <2>2. n >= half
      BY <1>1, <2>1
    <2>3. PulseTime(phase, sec) = Stamp(sec + 1, n - NANOSECOND)
      BY <2>2 DEF PulseTime, Rounded, Stamp, n, half
    <2>4. n = NANOSECOND + phase
      BY <1>1, <2>1
    <2> QED BY <1>3, <2>3, <2>4 DEF Stamp, n
  <1> QED BY <1>2, <1>3

(* Where a pulse within a tick of the clock is in its second.              *)
LEMMA WithinTick ==
    ASSUME tv_nsec \in 0 .. NANOSECOND - 1, NEW phase \in Int,
           (phase - tv_nsec) % NANOSECOND <= time_tick
    PROVE  IF phase % NANOSECOND < tv_nsec
           THEN NANOSECOND + (phase % NANOSECOND) - tv_nsec <= time_tick
           ELSE (phase % NANOSECOND) - tv_nsec \in 0 .. time_tick
  <1> DEFINE n == phase % NANOSECOND
             q == phase \div NANOSECOND
  <1>1. /\ NANOSECOND \in Nat \ {0} /\ time_tick \in Int /\ tv_nsec \in Int
    BY TimexAssumption, TickHalf
  <1>2. /\ n \in 0 .. NANOSECOND - 1 /\ q \in Int
        /\ phase = NANOSECOND * q + n
    BY <1>1
  <1>3. NANOSECOND * q \in Int /\ NANOSECOND * (q - 1) \in Int
        /\ NANOSECOND * (q - 1) = NANOSECOND * q - NANOSECOND
    BY <1>1, <1>2
  <1> HIDE DEF n, q
  <1>4. CASE n < tv_nsec
    <2> DEFINE x == NANOSECOND + n - tv_nsec
    <2>1. x \in 0 .. NANOSECOND - 1
      BY <1>1, <1>2, <1>4
    <2>2. phase - tv_nsec = NANOSECOND * (q - 1) + x
      BY <1>1, <1>2, <1>3
    <2>3. phase - tv_nsec \in Int /\ q - 1 \in Int
      BY <1>1, <1>2
    <2> HIDE DEF x
    <2>4. (phase - tv_nsec) % NANOSECOND = x
      BY <1>1, <2>1, <2>2, <2>3, ModUnique
    <2>5. x <= time_tick
      BY <2>4
    <2> QED BY <1>4, <2>5 DEF n, x
  <1>5. CASE ~(n < tv_nsec)
    <2> DEFINE x == n - tv_nsec
    <2>1. x \in 0 .. NANOSECOND - 1
      BY <1>1, <1>2, <1>5
    <2>2. phase - tv_nsec = NANOSECOND * q + x
      BY <1>1, <1>2, <1>3
    <2>3. phase - tv_nsec \in Int
      BY <1>1
    <2> HIDE DEF x
    <2>4. (phase - tv_nsec) % NANOSECOND = x
      BY <1>1, <1>2, <2>1, <2>2, <2>3, ModUnique
    <2>5. x \in 0 .. time_tick
      BY <1>1, <2>1, <2>4
    <2> QED BY <1>5, <2>5 DEF n, x
  <1> QED BY <1>4, <1>5

(* A pulse within a tick of the clock is not of an earlier second than the *)
(* one before it, and the clock has not passed it by.                      *)
Near(phase, i, sec, nsec) ==
    \/ i = sec /\ (phase % NANOSECOND) - nsec \in 0 .. time_tick
    \/ /\ i = sec + 1 /\ nsec < NANOSECOND
       /\ NANOSECOND + (phase % NANOSECOND) - nsec <= time_tick

LEMMA PulseOrdered ==
    ASSUME PhasesRounded, PhasesOrdered,
           NEW t, t.sec \in Int, t.nsec \in Int, t.nsec \in AnyPhase,
           NEW sec \in Int, NEW nsec \in Int, NEW i \in Int,
           PulseBefore(t, sec, nsec),
           NEW phase \in Jitter \cup Spikes,
           Near(phase, i, sec, nsec)
    PROVE  /\ PulseTime(phase, i).sec >= t.sec
           /\ PulseTime(phase, i).sec \in sec .. sec + 1
           /\ PulseBefore(PulseTime(phase, i), sec, nsec)
  <1> DEFINE u == PulseTime(phase, i)
             n == phase % NANOSECOND
             half == NANOSECOND \div 2
  <1>1. /\ NANOSECOND \in Int /\ time_tick \in Int /\ phase \in Int
        /\ t.sec \in Int /\ t.nsec \in Int
        /\ time_tick <= half /\ half \in Int /\ 2 * half <= NANOSECOND
    <2>1. NANOSECOND \in Nat \ {0} /\ time_tick \in Nat
          /\ 2 * time_tick <= NANOSECOND
      BY TimexAssumption, TickHalf
    <2>2. half \in Nat /\ 2 * half <= NANOSECOND /\ NANOSECOND < 2 * half + 2
      BY <2>1, DivNat
    <2> HIDE DEF half
    <2> QED BY <2>1, <2>2, PpsAssumption
  <1>2. u.nsec = phase
    BY PulsePhase
  <1>3. IF phase >= 0 THEN u.sec = i /\ n = phase
        ELSE u.sec = i + 1 /\ n = NANOSECOND + phase
    BY PulseSecond
  <1>4. \/ i = sec /\ n - nsec \in 0 .. time_tick
        \/ i = sec + 1 /\ nsec < NANOSECOND /\ NANOSECOND + n - nsec <= time_tick
    BY DEF Near
  <1>5. phase >= 0 /\ t.nsec < 0 => phase < NANOSECOND + t.nsec - time_tick
    BY DEF PhasesOrdered, AnyPhase, GoodPhase
  <1>6. phase < half /\ phase >= -(NANOSECOND - half)
    BY <1>1 DEF PhasesRounded
  <1> HIDE DEF u, n, half
  <1>7. phase >= 0 \/ i = sec
    BY <1>1, <1>3, <1>4, <1>6
  <1>8. PulseBefore(u, sec, nsec) /\ u.sec \in sec .. sec + 1
    <2>1. CASE phase >= 0
      BY <1>1, <1>2, <1>3, <1>4, <2>1 DEF PulseBefore
    <2>2. CASE ~(phase >= 0)
      BY <1>1, <1>2, <1>3, <1>4, <1>7, <2>2 DEF PulseBefore
    <2> QED BY <2>1, <2>2
  <1>9. u.sec >= t.sec
    <2>1. t.sec <= sec + 1
      BY <1>1 DEF PulseBefore
    <2>2. CASE u.sec = sec
      <3>1. phase >= 0 /\ i = sec /\ nsec <= phase
        BY <1>1, <1>3, <1>4, <1>7, <2>2
      <3> QED BY <1>1, <1>5, <1>6, <2>2, <3>1 DEF PulseBefore
    <2>3. CASE u.sec = sec + 1
      BY <1>1, <2>1, <2>3
    <2> QED BY <1>8, <2>2, <2>3
  <1> QED BY <1>8, <1>9 DEF u

(* The clock going on leaves the last pulse behind it.                     *)
LEMMA BeforeStays ==
    ASSUME NEW t, t.sec \in Int, NEW sec \in Int, NEW nsec \in Int,
           NEW i \in Int, NEW j \in Int, t.nsec \in Int,
           PulseBefore(t, sec, nsec),
           i > sec \/ (i = sec /\ j >= nsec)
    PROVE  PulseBefore(t, i, j)
  <1>1. NANOSECOND \in Int /\ time_tick \in Int
    BY TimexAssumption, TickHalf
  <1> QED BY <1>1 DEF PulseBefore

LEMMA PhasesInt ==
    /\ GoodPhase \subseteq Int
    /\ JitterSpan \subseteq Int
    /\ Drifts \subseteq Int
  <1>1. Jitter \cup {0} \subseteq Int /\ Drifts \subseteq Int
    BY PpsAssumption
  <1> QED BY <1>1 DEF GoodPhase, JitterSpan

(***************************************************************************)
(* The filter.                                                             *)
(***************************************************************************)
(* A pulse that passes the gate is good, and so is the one before it.      *)
LEMMA GatedGood ==
    ASSUME SpikesApart, PpsInv, FilterInv, NEW u \in RoundedPulse,
           u.nsec \in Phases, InGate(u)
    PROVE  u.nsec \in GoodPhase /\ pps_tf[1].nsec \in GoodPhase
  <1>1. u.nsec \in Jitter
    BY DEF Phases, InGate
  <1>2. pps_tf[1].nsec \in GoodPhase \cup Spikes
    BY DEF FilterInv, AnyPhase
  <1> QED BY <1>1, <1>2 DEF SpikesApart, GoodPhase, InGate

(* A pulse that may end an interval follows another within the gap.        *)
Follows(u, gap) ==
    u.sec - pps_lastsec <= Longest => u.sec - pps_tf[1].sec <= gap + 2

LEMMA LongestInterval ==
    ASSUME PpsInv
    PROVE  /\ PowerOfTwo[pps_shift] \in Nat \ {0} /\ Longest \in Nat \ {0}
           /\ PowerOfTwo[pps_shift] <= Longest
  <1>1. pps_shift \in Nat /\ PPS_FAVGMAX \in Nat /\ pps_shift <= PPS_FAVGMAX
    BY KtimeAssumption DEF PpsInv, Inv, TypeOK
  <1> QED BY <1>1, PowerType, PowerMono DEF Longest

(* A pulse in an interval accumulates what the counter has gained.         *)
LEMMA GainKept ==
    ASSUME NEW gap \in Nat, FoldsExactly(gap), PhasesRounded, GainInRange,
           PpsInv, FilterInv, NEW u \in RoundedPulse,
           u.nsec \in AnyPhase, u.sec >= pps_tf[1].sec, Follows(u, gap),
           u.sec - pps_lastsec < PowerOfTwo[pps_shift]
    PROVE  \E base \in GoodPhase :
               WrapLong(pps_fcount + CountStep(Count(u)))
                    = Gained(u.sec - pps_lastsec, u.nsec, base)
  <1> DEFINE t == pps_tf[1]
             n == t.sec - pps_lastsec
             m == u.sec - t.sec
             k == u.sec - pps_lastsec
             limit == Longest
  <1>1. /\ t.sec \in Int /\ t.nsec \in Int
        /\ u.sec \in Int /\ u.nsec \in Int /\ pps_lastsec \in Int
        /\ drift \in Drifts /\ drift \in Int
        /\ t.nsec \in AnyPhase /\ pps_lastcount = Count(t) /\ n \in Nat
    BY PpsAssumption, TimexAssumption
    DEF PpsInv, FilterOK, RoundedPulse, FilterInv
  <1>2. /\ limit \in Nat \ {0} /\ k < limit /\ k = n + m
        /\ m \in Nat /\ k \in Nat /\ n < PowerOfTwo[pps_shift]
    BY <1>1, LongestInterval
  <1>3. PICK base \in GoodPhase : pps_fcount = Gained(n, t.nsec, base)
    BY <1>2 DEF FilterInv
  <1>4. /\ m \in 0 .. limit /\ m < limit /\ m <= gap + 2
        /\ k \in 0 .. limit
    BY <1>1, <1>2 DEF Follows
  <1> HIDE DEF n, m, k, limit
  <1>5. FoldsTo(m, u.nsec, t.nsec)
    BY <1>1, <1>4 DEF FoldsExactly, limit
  <1> DEFINE cu == CounterFolded(u.nsec)
             ct == CounterFolded(t.nsec)
             dn == drift * n
             dm == drift * m
             dk == drift * k
  <1>6. CountStep(Count(u)) = dm + (cu - ct)
    BY <1>1, <1>5, CountedStep DEF m
  <1>7. /\ dk = dn + dm /\ dn \in Int /\ dm \in Int
    <2>1. \A a, b, c \in Int : a * (b + c) = a * b + a * c /\ a * b \in Int
      OBVIOUS
    <2> QED BY <1>1, <1>2, <2>1
  <1>8. cu \in Int /\ ct \in Int /\ base \in Int
    BY <1>1, <1>3, FoldedInt, PhasesInt
  <1>9. pps_fcount = dn + (ct - base)
    BY <1>3 DEF Gained
  <1>10. Gained(k, u.nsec, base) = dk + (cu - base)
    BY DEF Gained
  <1> HIDE DEF cu, ct, dn, dm, dk
  <1>11. pps_fcount + CountStep(Count(u)) = dk + (cu - base)
    BY <1>6, <1>7, <1>8, <1>9
  <1>12. WrapLong(dk + (cu - base)) = dk + (cu - base)
    <2>1. u.nsec \in -MAXPHASE .. MAXPHASE
      BY DEF RoundedPulse
    <2> QED BY <1>1, <1>3, <1>4, <2>1, GainFits DEF cu, dk, limit
  <1> QED BY <1>3, <1>10, <1>11, <1>12 DEF k

(* Whatever hardpps() does, the accumulator agrees with the counter.       *)
LEMMA FilterKept ==
    ASSUME NEW gap \in Nat, FoldsExactly(gap), PhasesRounded, GainInRange,
           SpikesApart, PpsInv, FilterInv,
           NEW u \in RoundedPulse, u.nsec \in Phases,
           u.sec >= pps_tf[1].sec, Follows(u, gap), NEW bits,
           hardpps(u, Count(u), bits), drift' = drift
    PROVE  FilterInv'
  <1>1. /\ pps_tf[1].sec \in Int /\ u.sec \in Int /\ pps_lastsec \in Int
        /\ pps_tf[1].sec - pps_lastsec \in Nat
    BY DEF PpsInv, FilterOK, RoundedPulse, FilterInv
  <1>2. u.nsec \in AnyPhase /\ drift \in Drifts
    BY DEF Phases, AnyPhase, GoodPhase, FilterInv
  <1>4. CASE Ignored(u, bits)
    <2>1. UNCHANGED <<pps_tf, pps_lastcount, pps_fcount, pps_lastsec,
                      pps_shift, drift>>
      BY <1>4 DEF Ignored, filterVars, calVars
    <2> QED BY <2>1 DEF FilterInv, Count, Gained
  <1>5. CASE Keep(u, Count(u)) /\ UNCHANGED calVars
    <2> DEFINE n == u.sec - pps_lastsec
    <2>1. /\ pps_tf'[1] = u /\ pps_lastcount' = Count(u)
          /\ pps_fcount' = WrapLong(pps_fcount + CountStep(Count(u)))
          /\ pps_lastsec' = pps_lastsec /\ pps_shift' = pps_shift
      BY <1>5 DEF Keep, calVars
    <2>2. n \in Nat
      BY <1>1
    <2>3. ASSUME n < PowerOfTwo[pps_shift]
          PROVE  \E base \in GoodPhase : pps_fcount' = Gained(n, u.nsec, base)
      BY <1>2, <2>1, <2>3, GainKept
    <2>5. Count(u)' = Count(u)
      BY DEF Count
    <2>6. \A base : drift' * n + (CounterFolded(u.nsec) - base)
                        = Gained(n, u.nsec, base)
      BY DEF Gained
    <2> QED BY <1>2, <2>1, <2>2, <2>3, <2>5, <2>6
            DEF FilterInv, Gained, Count, CounterFolded, Folded, time_tick
  <1>6. CASE Discarded(u, Count(u), bits)
             \/ Calibrated(u, Count(u), bits)
    <2>1. /\ pps_tf'[1] = u /\ pps_lastcount' = Count(u)
          /\ pps_fcount' = 0 /\ pps_lastsec' = u.sec
      BY <1>6 DEF Discarded, Calibrated
    <2>2. u.nsec \in GoodPhase
      BY <1>6, GatedGood DEF Discarded, Calibrated, Phase
    <2>3. Gained(0, u.nsec, u.nsec) = 0
      <3>1. CounterFolded(u.nsec) = u.nsec
        BY <2>2 DEF FoldsExactly
      <3>2. u.nsec \in Int /\ drift \in Int
        BY <1>2, <2>2, PhasesInt
      <3>3. drift * 0 = 0 /\ u.nsec - u.nsec = 0
        BY <3>2
      <3> QED BY <3>1, <3>3 DEF Gained
    <2>4. u.sec - u.sec = 0
      BY <1>1
    <2> QED BY <1>2, <2>1, <2>2, <2>3, <2>4
            DEF FilterInv, Gained, Count
  <1> QED BY <1>4, <1>5, <1>6 DEF hardpps, Gated, WithinInterval

(***************************************************************************)
(* The frequency.                                                          *)
(***************************************************************************)
LEMMA CDivExact ==
    ASSUME NEW a \in Int, NEW d \in Nat \ {0}
    PROVE  CDiv(a * d, d) = a
  <1>1. \A i \in Nat : i * d \in Nat /\ (i * d) \div d = i
    BY DivExact
  <1>2. CASE a >= 0
    BY <1>1, <1>2 DEF CDiv
  <1>3. CASE ~(a >= 0)
    <2>1. -a \in Nat /\ a * d = -((-a) * d) /\ (-a) * d \in Nat
      BY <1>1, <1>3
    <2>2. CDiv(-((-a) * d), d) = -CDiv((-a) * d, d)
      BY <2>1, CDivOdd
    <2>3. CDiv((-a) * d, d) = -a
      BY <1>1, <2>1 DEF CDiv
    <2> QED BY <2>1, <2>2, <2>3
  <1> QED BY <1>2, <1>3

(* The shift by an interval is exact.                                      *)
LEMMA ExactShift ==
    ASSUME IntervalsDivide, NEW s \in 0 .. PPS_FAVGMAX
    PROVE  \E c \in Nat :
               /\ FRAC = c * PowerOfTwo[s]
               /\ \A a \in Int : L_RSHIFT(L_LINT(a), s) = a * c
  <1>1. PICK k \in Nat : FRAC = k * PowerOfTwo[PPS_FAVGMAX]
    <2>1. Longest \in Nat \ {0} /\ FRAC \in Nat
      BY PowerType, KtimeAssumption, TimexAssumption DEF Longest
    <2>2. \A a \in Nat, d \in Nat \ {0} :
              /\ a % d = 0 => a = (a \div d) * d
              /\ a \div d \in Nat
      OBVIOUS
    <2> QED BY <2>1, <2>2 DEF IntervalsDivide, Longest
  <1> DEFINE e == PPS_FAVGMAX - s
             p == PowerOfTwo[s]
             q == PowerOfTwo[e]
             c == k * q
  <1>2. /\ s \in Nat /\ e \in Nat /\ PPS_FAVGMAX = s + e
    BY KtimeAssumption
  <1> HIDE DEF e
  <1>3. PowerOfTwo[PPS_FAVGMAX] = p * q
    BY <1>2, PowerSum
  <1>4. p \in Nat \ {0} /\ q \in Nat \ {0}
    BY <1>2, PowerType
  <1> HIDE DEF p, q
  <1>5. c \in Nat /\ FRAC = c * p
    BY <1>1, <1>3, <1>4
  <1>6. ASSUME NEW a \in Int PROVE L_RSHIFT(L_LINT(a), s) = a * c
    <2> HIDE DEF c
    <2>1. a * (c * p) = (a * c) * p /\ a * c \in Int
      BY <1>4, <1>5
    <2>2. CDiv((a * c) * p, p) = a * c
      BY <1>4, <2>1, CDivExact
    <2> QED BY <1>5, <2>1, <2>2 DEF L_RSHIFT, L_LINT, p
  <1> HIDE DEF c
  <1> QED BY <1>5, <1>6 DEF p

LEMMA ZeroMono ==
    ASSUME NEW a \in Int, NEW b \in Int, NEW d \in Nat, a <= b
    PROVE  a * d <= b * d
  OBVIOUS

(* A longer interval measures as finely at least.                          *)
LEMMA FinerShift ==
    ASSUME IntervalsDivide, NEW a \in Nat,
           NEW r \in 0 .. PPS_FAVGMAX, NEW s \in 0 .. PPS_FAVGMAX, r <= s
    PROVE  L_RSHIFT(L_LINT(a), s) <= L_RSHIFT(L_LINT(a), r)
  <1>1. PICK c \in Nat :
            /\ FRAC = c * PowerOfTwo[s]
            /\ \A x \in Int : L_RSHIFT(L_LINT(x), s) = x * c
    BY ExactShift, Zenon
  <1>2. PICK b \in Nat :
            /\ FRAC = b * PowerOfTwo[r]
            /\ \A x \in Int : L_RSHIFT(L_LINT(x), r) = x * b
    BY ExactShift, Zenon
  <1> DEFINE p == PowerOfTwo[s]
             q == PowerOfTwo[r]
  <1>3. r \in Nat /\ s \in Nat
    OBVIOUS
  <1>4. p \in Nat \ {0} /\ q \in Nat \ {0} /\ q <= p
    BY <1>3, PowerType, PowerMono
  <1>5. c * p = b * q
    BY <1>1, <1>2
  <1> HIDE DEF p, q
  <1>6. c <= b
    <2> SUFFICES ASSUME b < c PROVE FALSE
      OBVIOUS
    <2>1. (b + 1) * q <= c * q
      BY <1>4, MulMono
    <2>2. q * c <= p * c
      BY <1>4, MulMono, ZeroMono
    <2>3. (b + 1) * q = b * q + q /\ q * c = c * q /\ p * c = c * p
      BY <1>4
    <2>4. b * q \in Int /\ c * q \in Int /\ c * p \in Int
      BY <1>4
    <2> QED BY <1>4, <1>5, <2>1, <2>2, <2>3, <2>4
  <1>7. c * a <= b * a
    BY <1>6, ZeroMono
  <1>8. L_RSHIFT(L_LINT(a), s) = a * c /\ L_RSHIFT(L_LINT(a), r) = a * b
    BY <1>1, <1>2
  <1>9. a * c = c * a /\ a * b = b * a
    OBVIOUS
  <1> QED BY <1>7, <1>8, <1>9

(* What is more than a limit in its integral part is beyond the limit.     *)
LEMMA GintBeyond ==
    ASSUME NEW v \in Int, NEW limit \in Nat
    PROVE  /\ L_GINT(v) > limit => v > L_LINT(limit)
           /\ L_GINT(v) < -limit => v < L_LINT(-limit)
  <1>1. /\ L_GINT(L_LINT(limit)) = limit
        /\ L_GINT(L_LINT(-limit)) = -limit
        /\ L_LINT(limit) \in Int /\ L_LINT(-limit) \in Int
        /\ L_GINT(v) \in Int
    BY GintLint, LintType, GintSplit
  <1>2. v <= L_LINT(limit) => L_GINT(v) <= limit
    BY <1>1, GintMono
  <1>3. L_LINT(-limit) <= v => -limit <= L_GINT(v)
    BY <1>1, GintMono
  <1> QED BY <1>1, <1>2, <1>3

(* Steering toward a frequency leaves an error of no more than that of the *)
(* one in force or of the one steered to.                                  *)
LEMMA SteeredBetween ==
    ASSUME PpsInv, DriftsWithin, drift \in Drifts, NEW target \in Int
    PROVE  \/ FreqError(Steered(target - pps_freq)) <= FreqError(pps_freq)
           \/ FreqError(Steered(target - pps_freq)) <= FreqError(target)
  <1> DEFINE change == target - pps_freq
             freq == pps_freq + Groomed(change)
             g == L_GINT(freq)
             top == L_LINT(MAXFREQ)
             bottom == L_LINT(-MAXFREQ)
             cancel == L_LINT(drift)
             result == Steered(change)
  <1>1. /\ pps_freq \in Int /\ change \in Int
        /\ MAXFREQ \in Nat /\ PPS_MAXWANDER \in Nat
        /\ L_GINT(pps_freq) \in -MAXFREQ .. MAXFREQ
        /\ drift \in Int /\ -MAXFREQ <= drift /\ drift <= MAXFREQ
    BY CalFacts, TimexAssumption, PpsAssumption DEF DriftsWithin
  <1>2. /\ top \in Int /\ cancel \in Int /\ bottom = -top
        /\ bottom <= cancel /\ cancel <= top
    BY <1>1, LintType, LintMono, LintOdd
  <1>3. /\ freq \in Int
        /\ \/ pps_freq <= freq /\ freq <= target
           \/ target <= freq /\ freq <= pps_freq
    <2> DEFINE w == L_LINT(PPS_MAXWANDER)
    <2>1. /\ w \in Int /\ w >= 0 /\ L_LINT(-PPS_MAXWANDER) = -w
      BY <1>1, LintType, LintMono, LintOdd
    <2>2. /\ L_GINT(change) > PPS_MAXWANDER => change > w
          /\ L_GINT(change) < -PPS_MAXWANDER => change < -w
      BY <1>1, <2>1, GintBeyond
    <2>3. \/ Groomed(change) = w /\ change > w
          \/ Groomed(change) = -w /\ change < -w
          \/ Groomed(change) = change
      BY <2>1, <2>2, Zenon DEF Groomed
    <2>4. change = target - pps_freq
      OBVIOUS
    <2> HIDE DEF w, change
    <2> QED BY <1>1, <2>1, <2>3, <2>4
  <1>4. /\ g \in Int
        /\ freq <= pps_freq => g <= MAXFREQ
        /\ freq >= pps_freq => g >= -MAXFREQ
        /\ g > MAXFREQ => freq > top
        /\ g < -MAXFREQ => freq < bottom
    <2> HIDE DEF freq
    <2>1. g \in Int /\ L_GINT(pps_freq) \in Int
      BY <1>1, <1>3, GintSplit
    <2>2. /\ freq <= pps_freq => g <= L_GINT(pps_freq)
          /\ freq >= pps_freq => L_GINT(pps_freq) <= g
      BY <1>1, <1>3, GintMono
    <2>3. /\ g > MAXFREQ => freq > top
          /\ g < -MAXFREQ => freq < bottom
      BY <1>1, <1>3, GintBeyond
    <2> QED BY <1>1, <2>1, <2>2, <2>3
  <1>5. result = IF g > MAXFREQ THEN top
                 ELSE IF g < -MAXFREQ THEN bottom ELSE freq
    BY Zenon DEF Steered
  <1>6. /\ result \in Int
        /\ \/ pps_freq <= result /\ result <= target
           \/ target <= result /\ result <= pps_freq
           \/ -cancel <= result /\ result <= target
           \/ target <= result /\ result <= -cancel
    <2> HIDE DEF change, freq, g, top, bottom, cancel, result
    <2>1. CASE g > MAXFREQ
      BY <1>1, <1>2, <1>3, <1>4, <1>5, <2>1
    <2>2. CASE ~(g > MAXFREQ) /\ g < -MAXFREQ
      BY <1>1, <1>2, <1>3, <1>4, <1>5, <2>2
    <2>3. CASE ~(g > MAXFREQ) /\ ~(g < -MAXFREQ)
      BY <1>1, <1>2, <1>3, <1>4, <1>5, <2>3
    <2> QED BY <2>1, <2>2, <2>3
  <1>7. \A f : FreqError(f) = IF f + cancel < 0 THEN -(f + cancel)
                              ELSE f + cancel
    BY DEF FreqError
  <1> HIDE DEF change, cancel, result
  <1>8. \/ FreqError(result) <= FreqError(pps_freq)
        \/ FreqError(result) <= FreqError(target)
    BY <1>1, <1>2, <1>6, <1>7
  <1> QED BY <1>8 DEF result, change

(* The change that a calibration asks for is toward a frequency that is    *)
(* off the counter's drift by the difference of the phases at the ends of  *)
(* the interval, which divides the difference by its length.               *)
LEMMA CalibrationTarget ==
    ASSUME NEW gap \in Nat, FoldsExactly(gap), PhasesRounded, GainInRange,
           SpikesApart, IntervalsDivide, PpsInv, FilterInv,
           NEW u \in RoundedPulse, u.nsec \in Phases,
           u.sec >= pps_tf[1].sec, Follows(u, gap), ~Repeated(u), InGate(u),
           u.sec - pps_lastsec = PowerOfTwo[pps_shift]
    PROVE  \E target \in Int, span \in JitterSpan :
               /\ RawChange(Count(u)) = target - pps_freq
               /\ FreqError(target) <= L_RSHIFT(L_LINT(span), PPS_FAVG)
  <1> DEFINE t == pps_tf[1]
             n == t.sec - pps_lastsec
             m == u.sec - t.sec
             k == PowerOfTwo[pps_shift]
             limit == Longest
  <1>1. /\ t.sec \in Int /\ t.nsec \in Int
        /\ u.sec \in Int /\ u.nsec \in Int /\ pps_lastsec \in Int
        /\ drift \in Drifts /\ drift \in Int
        /\ pps_lastcount = Count(t) /\ n \in Nat
        /\ pps_shift \in 0 .. PPS_FAVGMAX /\ PPS_FAVG \in 0 .. PPS_FAVGMAX
        /\ PPS_FAVG <= pps_shift
    BY PpsAssumption, TimexAssumption, KtimeAssumption
    DEF PpsInv, Inv, TypeOK, FilterOK, RoundedPulse, FilterInv
  <1>2. u.nsec \in GoodPhase /\ t.nsec \in GoodPhase
    BY GatedGood
  <1>3. u.sec # t.sec
    <2>1. /\ MAXFREQ \in Nat /\ NANOSECOND \in Nat
          /\ NANOSECOND - MAXFREQ > MAXFREQ
      BY TimexAssumption, PpsAssumption
    <2> QED BY <1>1, <2>1 DEF Repeated, InGate
  <1>4. /\ limit \in Nat \ {0} /\ k \in Nat /\ k <= limit
        /\ k = n + m /\ m \in Nat /\ n < k /\ m <= limit
    BY <1>1, <1>3, LongestInterval
  <1>5. PICK base \in GoodPhase : pps_fcount = Gained(n, t.nsec, base)
    BY <1>4 DEF FilterInv
  <1> HIDE DEF n, m, k, limit
  <1>6. m \in 0 .. limit /\ m <= gap + 2 /\ k \in 0 .. limit
    <2>1. u.sec - pps_lastsec <= Longest
      BY <1>4 DEF k, limit
    <2> QED BY <1>4, <2>1 DEF Follows, m
  <1>7. /\ FoldsTo(m, u.nsec, t.nsec)
        /\ CounterFolded(u.nsec) = u.nsec /\ CounterFolded(t.nsec) = t.nsec
        /\ base \in Int
    <2>1. \A p \in GoodPhase : CounterFolded(p) = p
      BY DEF FoldsExactly
    <2>2. FoldsTo(m, u.nsec, t.nsec)
      BY <1>2, <1>6 DEF FoldsExactly, limit
    <2> QED BY <1>2, <1>5, <2>1, <2>2, PhasesInt
  <1> DEFINE dn == drift * n
             dm == drift * m
             dk == drift * k
             v == dk + (u.nsec - base)
  <1>8. CountStep(Count(u)) = dm + (u.nsec - t.nsec)
    BY <1>1, <1>7, CountedStep DEF m
  <1>9. /\ dk = dn + dm /\ dn \in Int /\ dm \in Int /\ dk \in Int
    <2>1. \A a, b, c \in Int : a * (b + c) = a * b + a * c /\ a * b \in Int
      OBVIOUS
    <2> QED BY <1>1, <1>4, <2>1
  <1>10. pps_fcount = dn + (t.nsec - base)
    BY <1>5, <1>7 DEF Gained
  <1>11. WrapLong(v) = v
    <2>1. /\ u.nsec \in -MAXPHASE .. MAXPHASE
          /\ v = dk + (CounterFolded(u.nsec) - base)
      BY <1>7 DEF RoundedPulse
    <2> HIDE DEF v
    <2> QED BY <1>1, <1>5, <1>6, <2>1, GainFits DEF limit
  <1> HIDE DEF dn, dm, dk
  <1>12. pps_fcount + CountStep(Count(u)) = v /\ v \in Int
    BY <1>1, <1>7, <1>8, <1>9, <1>10
  <1> HIDE DEF v
  <1>13. PICK c \in Nat :
            /\ FRAC = c * PowerOfTwo[pps_shift]
            /\ \A x \in Int : L_RSHIFT(L_LINT(x), pps_shift) = x * c
    BY <1>1, ExactShift, Zenon
  <1> DEFINE target == (-v) * c
             diff == base - u.nsec
             span == IF diff < 0 THEN -diff ELSE diff
  <1>14. target \in Int /\ diff \in Int /\ span \in Nat
    BY <1>1, <1>7, <1>12
  <1>15. RawChange(Count(u)) = target - pps_freq
    <2>1. -v \in Int
      BY <1>12
    <2>2. L_RSHIFT(L_LINT(-v), pps_shift) = target
      BY <1>13, <2>1
    <2> QED BY <1>11, <1>12, <2>2 DEF RawChange
  <1>16. target + L_LINT(drift) = diff * c
    <2>1. L_LINT(drift) = dk * c
      <3>1. \A a, b, e \in Int : a * (b * e) = (a * e) * b
        OBVIOUS
      <3> QED BY <1>1, <1>4, <1>13, <3>1 DEF L_LINT, dk, k
    <2>2. -v = diff - dk
      BY <1>1, <1>7, <1>9 DEF v
    <2>3. \A a, b, e \in Int : (a - b) * e + b * e = a * e
      OBVIOUS
    <2> HIDE DEF diff
    <2> QED BY <1>9, <1>13, <1>14, <2>1, <2>2, <2>3
  <1>17. FreqError(target) = span * c
    <2> DEFINE e == diff * c
    <2>1. /\ \A a \in Int : a >= 0 => a * c >= 0
          /\ \A a \in Int : a < 0 => a * c <= 0
          /\ \A a \in Int : (-a) * c = -(a * c)
          /\ \A a \in Int : a * c \in Int
      BY <1>13
    <2>2. FreqError(target) = IF e < 0 THEN -e ELSE e
      BY <1>16 DEF FreqError
    <2> HIDE DEF diff, e
    <2>3. CASE diff >= 0
      BY <1>14, <2>1, <2>2, <2>3 DEF e
    <2>4. CASE diff < 0
      <3>1. e <= 0 /\ e \in Int /\ span * c = -e
        BY <1>14, <2>1, <2>4 DEF e
      <3> QED BY <2>2, <3>1
    <2> QED BY <1>14, <2>3, <2>4
  <1>18. span \in JitterSpan
    <2>1. /\ base - u.nsec \in JitterSpan /\ u.nsec - base \in JitterSpan
      BY <1>2, <1>5 DEF JitterSpan, GoodPhase
    <2>2. -diff = u.nsec - base
      BY <1>1, <1>7
    <2> QED BY <2>1, <2>2
  <1>19. span * c <= L_RSHIFT(L_LINT(span), PPS_FAVG)
    <2> HIDE DEF span
    <2>1. L_RSHIFT(L_LINT(span), pps_shift) = span * c
      BY <1>13, <1>14
    <2> QED BY <1>1, <1>14, <2>1, FinerShift
  <1> QED BY <1>14, <1>15, <1>17, <1>18, <1>19

(* A pulse, calibrating or not, leaves no greater error than it may.       *)
LEMMA PulseHelps ==
    ASSUME NEW gap \in Nat, FoldsExactly(gap), PhasesRounded, GainInRange,
           SpikesApart, IntervalsDivide, DriftsWithin,
           PpsInv, FilterInv, NEW u \in RoundedPulse, u.nsec \in Phases,
           u.sec >= pps_tf[1].sec, Follows(u, gap), NEW bits,
           hardpps(u, Count(u), bits)
    PROVE  \/ FreqError(pps_freq') <= FreqError(pps_freq)
           \/ \E span \in JitterSpan :
                  FreqError(pps_freq') <= L_RSHIFT(L_LINT(span), PPS_FAVG)
  <1>1. /\ pps_freq \in Int /\ drift \in Drifts /\ drift \in Int
        /\ L_LINT(drift) \in Int
    BY CalFacts, LintType, PpsAssumption DEF FilterInv
  <1>2. \A f \in Int : FreqError(f) \in Int
    BY <1>1 DEF FreqError
  <1>3. CASE Calibrated(u, Count(u), bits)
    <2>1. /\ ~Repeated(u) /\ InGate(u)
          /\ u.sec - pps_lastsec = PowerOfTwo[pps_shift]
          /\ pps_freq' = Steered(RawChange(Count(u)))
      BY <1>3 DEF Calibrated, Phase, Plausible
    <2>2. PICK target \in Int, span \in JitterSpan :
              /\ RawChange(Count(u)) = target - pps_freq
              /\ FreqError(target) <= L_RSHIFT(L_LINT(span), PPS_FAVG)
      BY <2>1, CalibrationTarget
    <2>3. \/ FreqError(pps_freq') <= FreqError(pps_freq)
          \/ FreqError(pps_freq') <= FreqError(target)
      BY <1>1, <2>1, <2>2, SteeredBetween
    <2>4. FreqError(pps_freq') \in Int /\ FreqError(target) \in Int
      <3>1. Count(u) \in Int
        BY <1>1, CountType
      <3> QED BY <1>2, <2>1, <2>2, <3>1, SteeredType
    <2>5. L_RSHIFT(L_LINT(span), PPS_FAVG) \in Int
      <3>1. span \in Int /\ PPS_FAVG \in Nat
        BY PhasesInt, KtimeAssumption
      <3> QED BY <3>1, LintType, ShiftShrinks
    <2> QED BY <2>2, <2>3, <2>4, <2>5
  <1>4. CASE UNCHANGED pps_freq
    BY <1>1, <1>2, <1>4
  <1> QED BY <1>3, <1>4
          DEF hardpps, Ignored, Gated, WithinInterval, Discarded, calVars

(***************************************************************************)
(* The steps.                                                              *)
(***************************************************************************)
(* Without a leap bit a rollover counts a second and nothing else.         *)
LEMMA PlainRollover ==
    ASSUME NoLeap, NEW sec, LeapStep(sec)
    PROVE  tv_sec' = sec /\ time_state' = "TIME_OK"
  <1>1. time_state = "TIME_OK" /\ ~Has("STA_INS") /\ ~Has("STA_DEL")
    BY DEF NoLeap, LeapFlags, Has
  <1>2. NoWarning(sec)
    BY <1>1
    DEF LeapStep, WarningWithdrawn, WarningPending, InsertSecond,
        DeleteSecond, EndInsertion, WaitForBits
  <1> QED BY <1>1, <1>2 DEF NoWarning

(* Nothing announces a leap second but a request.                          *)
LEMMA NoLeapKept ==
    ASSUME NoLeaps, NoLeap, [PpsNext]_pvars
    PROVE  NoLeap'
  <1>1. time_status \cap LeapFlags = {} /\ time_state = "TIME_OK"
    BY DEF NoLeap
  <1>2. CASE Tick \/ UNCHANGED pvars
    BY <1>1, <1>2 DEF Tick, leapVars, pvars, kvars, NoLeap
  <1>3. CASE SecondOverflow
    <2>1. time_state' = "TIME_OK"
      BY <1>3, PlainRollover DEF SecondOverflow
    <2>2. time_status' = time_status
          \/ time_status' = time_status \ {"STA_PPSSIGNAL"}
      BY <1>3, Zenon DEF SecondOverflow, PpsWatchdog
    <2> QED BY <1>1, <2>1, <2>2 DEF NoLeap
  <1>4. CASE \E r \in Requests : AdjTime(r)
    <2>1. PICK r \in Requests : AdjTime(r)
      BY <1>4
    <2>2. /\ time_state' \in {time_state, "TIME_OK"}
          /\ time_status' = LoopAfter(r).status
      BY <2>1 DEF AdjTime
    <2>3. time_status' \cap LeapFlags = {}
      BY <1>1, <2>2, RequestedBits DEF NoLeaps
    <2> QED BY <1>1, <2>2, <2>3 DEF NoLeap
  <1>5. CASE \E offset \in Offsets : Discipline(offset)
    <2>1. PICK offset \in Offsets : Discipline(offset)
      BY <1>5
    <2>2. /\ time_state' = time_state
          /\ time_status'
                = hardupdate(time_status, time_constant, offset).status
      BY <2>1 DEF Discipline, leapVars
    <2>3. time_status' \cap LeapFlags = {}
      BY <1>1, <2>2, UpdatedBits
    <2> QED BY <1>1, <2>2, <2>3 DEF NoLeap
  <1>6. CASE \E phase \in Phases : Pulse(phase)
    <2>1. PICK bits \in Flags : time_status' = PulseStatus(time_status, bits)
      BY <1>6 DEF Pulse
    <2>2. time_state' = time_state
      BY <1>6 DEF Pulse, leapVars
    <2> QED BY <1>1, <2>1, <2>2 DEF NoLeap, PulseStatus, Flags, LeapFlags
  <1>7. CASE \E phase \in Phases : PreemptedOverflow(phase)
    <2>1. PICK bits \in Flags :
              time_status' \subseteq time_status
                                        \cup PulseStatus(time_status, bits)
      BY <1>7 DEF PreemptedOverflow, BeforeSubtraction, InSubtraction,
                  BeforeFrequency, BeforeWatchdog, InWatchdog, SignalSeen
    <2>2. LeapStep(tv_sec + 1)
      BY <1>7 DEF PreemptedOverflow
    <2>3. time_state' = "TIME_OK"
      BY <2>2, PlainRollover
    <2> QED BY <1>1, <2>1, <2>3 DEF NoLeap, PulseStatus, Flags, LeapFlags
  <1> QED BY <1>2, <1>3, <1>4, <1>5, <1>6, <1>7 DEF PpsNext

(* What the theorem assumes, for a longest silence of gap seconds.         *)
CalHypotheses(gap) ==
    /\ PhasesRounded /\ SpikesApart /\ PhasesOrdered
    /\ DriftsWithin /\ FoldsExactly(gap) /\ GainInRange /\ IntervalsDivide
    /\ NoLeaps /\ StartsLate(gap)

(* A silence that is bounded bounds what is between two pulses.            *)
LEMMA PulseFollows ==
    ASSUME NEW gap \in Nat, PpsInv, CalInv(gap), silence <= gap,
           NEW u, u.sec \in Int, u.sec >= pps_tf[1].sec, u.sec >= tv_sec,
           u.sec <= tv_sec + 2
    PROVE  Follows(u, gap)
  <1>1. /\ tv_sec \in Int /\ silence \in Int /\ pps_lastsec \in Int
        /\ pps_tf[1].sec \in Int /\ pps_tf[1].sec >= pps_lastsec
    BY DEF PpsInv, Inv, TypeOK, FilterOK, CalInv, FilterInv
  <1>2. Longest \in Int
    BY LongestInterval
  <1> QED BY <1>1, <1>2 DEF Follows, CalInv, Heard

(* A pulse, whichever of the two interrupts it is, as hardpps() sees it.   *)
LEMMA PulseSeen ==
    ASSUME NEW gap \in Nat, CalHypotheses(gap), PpsInv, CalInv(gap),
           silence <= gap, NEW phase \in Phases,
           Pulse(phase) \/ PreemptedOverflow(phase)
    PROVE  \E u \in RoundedPulse : \E bits :
               /\ u.nsec \in Phases /\ u.sec >= pps_tf[1].sec
               /\ u.sec >= tv_sec' /\ PulseBefore(u, tv_sec', tv_nsec')
               /\ PulseBefore(pps_tf[1], tv_sec', tv_nsec')
               /\ Follows(u, gap)
               /\ hardpps(u, Count(u), bits)
               /\ drift' = drift /\ silence' = 0
  <1>1. /\ phase \in Jitter \cup Spikes /\ phase \in Int
        /\ tv_sec \in Int /\ tv_nsec \in Int
        /\ pps_tf[1].sec \in Int /\ pps_tf[1].nsec \in Int
        /\ pps_tf[1].nsec \in AnyPhase
        /\ PulseBefore(pps_tf[1], tv_sec, tv_nsec)
        /\ PhasesRounded /\ PhasesOrdered
    BY PpsAssumption, TimexAssumption
    DEF Phases, PpsInv, Inv, TypeOK, FilterOK, CalInv, FilterInv,
        CalHypotheses
  <1>2. CASE Pulse(phase)
    <2> DEFINE i == SecondOf(phase)
               u == PulseTime(phase, i)
    <2>1. u \in RoundedPulse /\ u.nsec = phase /\ i \in Int
      <3>1. i \in Int
        BY <1>1, SecondOfType
      <3> HIDE DEF i
      <3>2. u \in RoundedPulse
        BY <1>1, <3>1, RoundedType
      <3>3. u.nsec = phase
        BY <1>1, <3>1, PulsePhase
      <3> QED BY <3>1, <3>2, <3>3
    <2>2. PICK bits : hardpps(u, Count(u), bits)
      BY <1>2 DEF Pulse
    <2>3. /\ UNCHANGED <<tv_sec, tv_nsec, drift>> /\ silence' = 0
          /\ Near(phase, i, tv_sec, tv_nsec)
      <3>1. /\ UNCHANGED <<tv_sec, tv_nsec, drift>> /\ silence' = 0
            /\ (phase - tv_nsec) % NANOSECOND <= time_tick
        BY <1>2 DEF Pulse, timevar
      <3>2. tv_nsec \in 0 .. NANOSECOND - 1 /\ NANOSECOND \in Int
        BY TimexAssumption DEF PpsInv, Inv, Normalized
      <3>3. IF phase % NANOSECOND < tv_nsec
            THEN NANOSECOND + (phase % NANOSECOND) - tv_nsec <= time_tick
            ELSE (phase % NANOSECOND) - tv_nsec \in 0 .. time_tick
        BY <1>1, <3>1, <3>2, WithinTick
      <3>4. tv_nsec < NANOSECOND
        BY <3>2
      <3>5. Near(phase, i, tv_sec, tv_nsec)
        <4>1. CASE phase % NANOSECOND < tv_nsec
          <5>1. i = tv_sec + 1
            BY <4>1 DEF SecondOf
          <5> HIDE DEF i
          <5> QED BY <3>3, <3>4, <4>1, <5>1 DEF Near
        <4>2. CASE ~(phase % NANOSECOND < tv_nsec)
          <5>1. i = tv_sec
            BY <4>2 DEF SecondOf
          <5> HIDE DEF i
          <5> QED BY <3>3, <4>2, <5>1 DEF Near
        <4> QED BY <4>1, <4>2
      <3> QED BY <3>1, <3>5
    <2> HIDE DEF i
    <2>4. /\ u.sec >= pps_tf[1].sec /\ PulseBefore(u, tv_sec, tv_nsec)
          /\ u.sec \in tv_sec .. tv_sec + 1
      BY <1>1, <2>1, <2>3, PulseOrdered
    <2> HIDE DEF u
    <2>5. /\ u.sec \in Int /\ u.sec >= tv_sec /\ u.sec <= tv_sec + 2
      BY <1>1, <2>4
    <2>6. Follows(u, gap)
      BY <2>4, <2>5, PulseFollows
    <2> QED BY <1>1, <2>1, <2>2, <2>3, <2>4, <2>5, <2>6
  <1>3. CASE PreemptedOverflow(phase)
    <2> DEFINE sec == tv_sec + 1
               u == PulseTime(phase, sec)
    <2>1. /\ u \in RoundedPulse /\ u.nsec = phase
          /\ u.sec = sec \/ u.sec = sec + 1
          /\ sec \in Int
      <3>1. sec \in Int
        BY <1>1
      <3> HIDE DEF sec
      <3>2. u \in RoundedPulse
        BY <1>1, <3>1, RoundedType
      <3>3. u.nsec = phase
        BY <1>1, <3>1, PulsePhase
      <3>4. u.sec = sec \/ u.sec = sec + 1
        BY <1>1, <3>1, PulseSecond
      <3> QED BY <3>1, <3>2, <3>3, <3>4
    <2>2. PICK bits : hardpps(u, Count(u), bits)
      BY <1>3 DEF PreemptedOverflow
    <2>3. /\ tv_nsec' = TickAdjusted - NANOSECOND /\ TickAdjusted >= NANOSECOND
          /\ LeapStep(sec) /\ UNCHANGED drift /\ silence' = 0
          /\ (phase % NANOSECOND) - tv_nsec' \in 0 .. time_tick
      BY <1>3 DEF PreemptedOverflow
    <2>4. tv_sec' = sec
      BY <2>3, PlainRollover DEF CalInv
    <2>5. tv_nsec' \in Int
      <3>1. TickUpdate \in Int /\ NANOSECOND \in Int
        BY TickBounds, TimexAssumption DEF PpsInv, Inv
      <3> QED BY <1>1, <2>3, <3>1 DEF TickAdjusted
    <2> HIDE DEF sec
    <2>6. PulseBefore(pps_tf[1], sec, tv_nsec')
      <3>1. sec > tv_sec
        BY <1>1 DEF sec
      <3> QED BY <1>1, <2>1, <2>5, <3>1, BeforeStays
    <2>7. u.sec >= pps_tf[1].sec /\ PulseBefore(u, sec, tv_nsec')
      <3>1. Near(phase, sec, sec, tv_nsec')
        BY <2>3 DEF Near
      <3> QED BY <1>1, <2>1, <2>5, <2>6, <3>1, PulseOrdered
    <2> HIDE DEF u
    <2>8. /\ u.sec \in Int /\ u.sec >= tv_sec /\ u.sec <= tv_sec + 2
          /\ u.sec >= tv_sec'
      BY <1>1, <2>1, <2>4 DEF sec
    <2>9. Follows(u, gap)
      BY <2>7, <2>8, PulseFollows
    <2> QED BY <2>1, <2>2, <2>3, <2>4, <2>6, <2>7, <2>8, <2>9
  <1> QED BY <1>2, <1>3

(* What the calls that bring no pulse leave of the filter and the clock.   *)
LEMMA OthersKeep ==
    ASSUME NEW gap \in Nat, CalHypotheses(gap), PpsInv, CalInv(gap),
           NoLeap', Others, [Next]_kvars,
           \/ UNCHANGED <<tv_sec, silence>>
           \/ SecondOverflow /\ silence' = silence + 1
    PROVE  CalInv(gap)'
  <1>1. /\ UNCHANGED <<pps_tf, pps_lastcount, pps_fcount, pps_lastsec, drift>>
        /\ Inv /\ Inv'
    BY NextInv DEF Others, filterVars, PpsInv
  <1>2. /\ tv_sec \in Int /\ tv_nsec \in Int /\ tv_sec' \in Int
        /\ tv_nsec' \in Int /\ silence \in Int
        /\ pps_tf[1].sec \in Int /\ pps_tf[1].nsec \in Int
        /\ pps_lastsec \in Int
    BY <1>1, TimexAssumption DEF PpsInv, Inv, TypeOK, FilterOK
  <1>3. time_state = "TIME_OK"
    BY DEF CalInv, NoLeap
  <1>4. \/ UNCHANGED timevar
        \/ tv_sec' > tv_sec
        \/ tv_sec' = tv_sec /\ tv_nsec' >= tv_nsec
    BY <1>1, <1>3, NextIsCall, ForwardStep
  <1>5. PulseBefore(pps_tf[1], tv_sec', tv_nsec')
    <2>1. tv_sec' > tv_sec \/ (tv_sec' = tv_sec /\ tv_nsec' >= tv_nsec)
      BY <1>2, <1>4 DEF timevar
    <2> QED BY <1>2, <2>1, BeforeStays DEF CalInv
  <1>6. PowerOfTwo[pps_shift'] <= PowerOfTwo[pps_shift]
    <2>1. pps_shift' \in {pps_shift, PPS_FAVG}
      BY DEF Next, Tick, SecondOverflow, AdjTime, Discipline, ppsVars, kvars
    <2>2. /\ pps_shift \in Nat /\ PPS_FAVG \in Nat /\ PPS_FAVG <= pps_shift
      BY KtimeAssumption DEF PpsInv, Inv, TypeOK
    <2>3. \A i \in Nat : PowerOfTwo[i] <= PowerOfTwo[i]
      BY PowerType
    <2> QED BY <2>1, <2>2, <2>3, PowerMono
  <1>7. FilterInv'
    <2>1. PowerOfTwo[pps_shift] \in Int /\ PowerOfTwo[pps_shift'] \in Int
      <3>1. pps_shift \in Nat /\ pps_shift' \in Nat
        BY <1>1, KtimeAssumption DEF Inv, TypeOK
      <3> QED BY <3>1, PowerType
    <2> DEFINE n == pps_tf[1].sec - pps_lastsec
    <2>2. n < PowerOfTwo[pps_shift'] => n < PowerOfTwo[pps_shift]
      BY <1>2, <1>6, <2>1
    <2>3. Count(pps_tf[1])' = Count(pps_tf[1])
      BY <1>1 DEF Count
    <2> QED BY <1>1, <2>2, <2>3 DEF CalInv, FilterInv, Gained
  <1>8. Heard(gap)'
    <2>1. CASE gap >= Longest
      BY <2>1 DEF Heard, Longest
    <2>2. CASE UNCHANGED <<tv_sec, silence>>
      BY <1>1, <2>2 DEF CalInv, Heard, Longest
    <2>3. CASE SecondOverflow /\ silence' = silence + 1
      <3>1. tv_sec' = tv_sec + 1
        BY <2>3, PlainRollover DEF SecondOverflow, CalInv
      <3>2. Longest \in Int
        BY LongestInterval
      <3> QED BY <1>1, <1>2, <2>3, <3>1, <3>2 DEF CalInv, Heard, Longest
    <2> QED BY <2>1, <2>2, <2>3
  <1>9. PulseBefore(pps_tf[1], tv_sec, tv_nsec)'
    BY <1>1, <1>5
  <1> QED BY <1>7, <1>8, <1>9 DEF CalInv

LEMMA CalNext ==
    ASSUME NEW gap \in Nat, CalHypotheses(gap), PpsInv, CalInv(gap),
           silence <= gap, [PpsNext]_pvars
    PROVE  CalInv(gap)'
  <1>1. NoLeap'
    BY NoLeapKept DEF CalHypotheses, CalInv
  <1>2. CASE \E phase \in Phases : Pulse(phase) \/ PreemptedOverflow(phase)
    <2>1. PICK phase \in Phases : Pulse(phase) \/ PreemptedOverflow(phase)
      BY <1>2
    <2>2. PICK u \in RoundedPulse : \E bits :
              /\ u.nsec \in Phases /\ u.sec >= pps_tf[1].sec
              /\ u.sec >= tv_sec' /\ PulseBefore(u, tv_sec', tv_nsec')
              /\ PulseBefore(pps_tf[1], tv_sec', tv_nsec')
              /\ Follows(u, gap)
              /\ hardpps(u, Count(u), bits)
              /\ drift' = drift /\ silence' = 0
      BY <2>1, PulseSeen, Zenon
    <2>3. PICK bits : hardpps(u, Count(u), bits)
      BY <2>2
    <2>4. FilterInv'
      BY <2>2, FilterKept DEF CalHypotheses, CalInv
    <2>5. /\ pps_tf'[1].sec = u.sec
          /\ PulseBefore(pps_tf[1], tv_sec, tv_nsec)'
      <3>1. CASE Ignored(u, bits)
        <4>1. u.sec = pps_tf[1].sec /\ pps_tf' = pps_tf
          BY <3>1 DEF Ignored, Repeated, filterVars
        <4> QED BY <2>2, <4>1
      <3>2. CASE ~Ignored(u, bits)
        <4>1. pps_tf' = <<u, pps_tf[1], pps_tf[2]>>
          BY <2>3, <3>2 DEF hardpps, Gated, WithinInterval, Discarded,
                            Calibrated, Keep
        <4> QED BY <2>2, <4>1
      <3> QED BY <3>1, <3>2
    <2>6. Heard(gap)'
      <3>1. tv_sec' \in Int /\ u.sec \in Int
        <4>1. PpsInv'
          BY PpsNextInv
        <4> QED BY <4>1 DEF RoundedPulse, PpsInv, Inv, TypeOK
      <3>2. tv_sec' <= pps_tf'[1].sec + silence'
        BY <2>2, <2>5, <3>1
      <3> QED BY <3>2 DEF Heard
    <2> QED BY <1>1, <2>4, <2>5, <2>6 DEF CalInv
  <1>3. CASE ~ \E phase \in Phases : Pulse(phase) \/ PreemptedOverflow(phase)
    <2>1. CASE Tick /\ Others /\ UNCHANGED silence
      BY <1>1, <2>1, OthersKeep DEF Tick, Next
    <2>2. CASE SecondOverflow /\ Others /\ silence' = silence + 1
      BY <1>1, <2>2, OthersKeep DEF Next
    <2>3. CASE (\E r \in Requests : AdjTime(r)) /\ Others /\ UNCHANGED silence
      BY <1>1, <2>3, OthersKeep DEF AdjTime, timevar, Next
    <2>4. CASE /\ \E offset \in Offsets : Discipline(offset)
               /\ Others /\ UNCHANGED silence
      BY <1>1, <2>4, OthersKeep DEF Discipline, timevar, Next
    <2>5. CASE UNCHANGED pvars
      BY <1>1, <2>5, OthersKeep DEF pvars, kvars, timevar, Others
    <2> QED BY <1>3, <2>1, <2>2, <2>3, <2>4, <2>5 DEF PpsNext
  <1> QED BY <1>2, <1>3

LEMMA CalInit ==
    ASSUME NEW gap \in Nat, CalHypotheses(gap), PpsInit
    PROVE  CalInv(gap)
  <1>1. /\ pps_tf[1] = Stamp(0, 0) /\ pps_lastcount = 0 /\ pps_fcount = 0
        /\ pps_lastsec = 0 /\ drift \in Drifts /\ silence = 0
        /\ tv_sec \in StartSecs /\ tv_sec \in Nat
        /\ time_status = {"STA_UNSYNC"} /\ time_state = "TIME_OK"
    BY KtimeAssumption DEF PpsInit, Init
  <1>2. pps_tf[1].sec = 0 /\ pps_tf[1].nsec = 0
    BY <1>1 DEF Stamp
  <1>3. NoLeap
    BY <1>1 DEF NoLeap, LeapFlags
  <1>4. PulseBefore(pps_tf[1], tv_sec, tv_nsec)
    BY <1>1, <1>2 DEF PulseBefore
  <1>5. drift \in Int /\ drift * 0 = 0 /\ 0 \in GoodPhase
    <2>1. drift \in Int
      BY <1>1, PhasesInt
    <2> QED BY <2>1 DEF GoodPhase
  <1>6. FilterInv
    <2>1. Count(pps_tf[1]) = 0
      <3>1. NANOSECOND \in Nat \ {0}
        BY TimexAssumption
      <3>2. 0 % NANOSECOND = 0
        BY <3>1
      <3> QED BY <1>2, <1>5, <3>2 DEF Count
    <2>2. CounterFolded(0) = 0
      BY <1>5 DEF CalHypotheses, FoldsExactly
    <2>3. Gained(0, 0, 0) = 0
      BY <1>5, <2>2 DEF Gained
    <2> QED BY <1>1, <1>2, <1>5, <2>1, <2>3 DEF FilterInv, AnyPhase
  <1>7. Heard(gap)
    BY <1>1, <1>2 DEF Heard, CalHypotheses, StartsLate
  <1> QED BY <1>3, <1>4, <1>6, <1>7 DEF CalInv

(* However many pulses are missed, repeated or spurious in an interval, a  *)
(* calibration of hardpps() that is accepted (ktime.c:692-866) takes the   *)
(* frequency no farther from the counter's drift than it was, or than the  *)
(* jitter at the ends of the interval accounts for.                        *)
THEOREM CalibrationHelpsHolds ==
    ASSUME NEW gap \in Nat
    PROVE  CalHypotheses(gap) =>
               (PpsSpec /\ [](silence <= gap) => CalibrationHelps)
  <1> SUFFICES ASSUME CalHypotheses(gap)
               PROVE  PpsSpec /\ [](silence <= gap) => CalibrationHelps
    OBVIOUS
  <1> DEFINE Helps ==
                 [ \/ FreqError(pps_freq') <= FreqError(pps_freq)
                   \/ \E span \in JitterSpan :
                          FreqError(pps_freq') <= L_RSHIFT(L_LINT(span), PPS_FAVG)
                   \/ ~ \E phase \in Phases :
                            Pulse(phase) \/ PreemptedOverflow(phase)
                 ]_pvars
  <1>1. PpsInit => CalInv(gap)
    BY CalInit
  <1>2. PpsInv /\ CalInv(gap) /\ silence <= gap /\ [PpsNext]_pvars
            => CalInv(gap)'
    BY CalNext
  <1>3. PpsInv /\ CalInv(gap) /\ silence <= gap /\ [PpsNext]_pvars => Helps
    <2> SUFFICES ASSUME PpsInv, CalInv(gap), silence <= gap,
                        NEW phase \in Phases,
                        Pulse(phase) \/ PreemptedOverflow(phase)
                 PROVE  \/ FreqError(pps_freq') <= FreqError(pps_freq)
                        \/ \E span \in JitterSpan :
                               FreqError(pps_freq')
                                  <= L_RSHIFT(L_LINT(span), PPS_FAVG)
      OBVIOUS
    <2>1. PICK u \in RoundedPulse : \E bits :
              /\ u.nsec \in Phases /\ u.sec >= pps_tf[1].sec
              /\ Follows(u, gap)
              /\ hardpps(u, Count(u), bits)
      BY PulseSeen
    <2> QED BY <2>1, PulseHelps DEF CalHypotheses, CalInv
  <1> QED BY <1>1, <1>2, <1>3, PpsInvHolds, PTL
          DEF PpsSpec, CalibrationHelps

(***************************************************************************)
(* An interval that is too long.  From some shift on, MAXFREQ << pps_shift *)
(* overflows the long that it is kept in (ktime.c:806) and is negative:    *)
(* with the 32-bit long of the targets and MAXFREQ of timex.h, from 13 to  *)
(* the 15 that PPS_FAVGMAX admits.                                         *)
(***************************************************************************)
LimitOverflows == WrapLong(MAXFREQ * PowerOfTwo[pps_shift]) < 0

LEMMA OverflowsFrom13 ==
    ASSUME LONG_HALF = 2147483648, MAXFREQ = 500000,
           NEW shift \in 13 .. 15
    PROVE  WrapLong(MAXFREQ * PowerOfTwo[shift]) < 0
  <1> DEFINE P(n) == PowerOfTwo[n]
  <1>1. /\ P(0) = 1
        /\ \A n \in Nat : P(n + 1) = 2 * P(n)
    BY PowerStep
  <1> HIDE DEF P
  <1>2. P(1) = 2 /\ P(2) = 4 /\ P(3) = 8 /\ P(4) = 16
    BY <1>1
  <1>3. P(5) = 32 /\ P(6) = 64 /\ P(7) = 128 /\ P(8) = 256
    BY <1>1, <1>2
  <1>4. P(9) = 512 /\ P(10) = 1024 /\ P(11) = 2048 /\ P(12) = 4096
    BY <1>1, <1>3
  <1>5. P(13) = 8192 /\ P(14) = 16384 /\ P(15) = 32768
    BY <1>1, <1>4
  <1>6. shift = 13 \/ shift = 14 \/ shift = 15
    OBVIOUS
  <1>7. P(shift) \in {8192, 16384, 32768}
    BY <1>5, <1>6
  <1>8. /\ (500000 * 8192 + 2147483648) % 4294967296 < 2147483648
        /\ (500000 * 16384 + 2147483648) % 4294967296 < 2147483648
        /\ (500000 * 32768 + 2147483648) % 4294967296 < 2147483648
    OBVIOUS
  <1>9. 2 * 2147483648 = 4294967296
    OBVIOUS
  <1> QED BY <1>7, <1>8, <1>9 DEF WrapLong, P

LEMMA NothingPlausible ==
    ASSUME PpsInv, LimitOverflows, NEW u, NEW count \in Int
    PROVE  ~Plausible(u, count)
  <1> DEFINE limit == WrapLong(MAXFREQ * PowerOfTwo[pps_shift])
             gained == WrapLong(pps_fcount + CountStep(count))
  <1>1. gained \in Int
    BY StepType DEF PpsInv
  <1>2. limit \in Int
    <2>1. pps_shift \in Nat /\ MAXFREQ \in Nat
      BY KtimeAssumption, TimexAssumption DEF PpsInv, Inv, TypeOK
    <2>2. MAXFREQ * PowerOfTwo[pps_shift] \in Int
      BY <2>1, PowerType
    <2> QED BY <2>2, WrapType
  <1>3. limit < 0
    BY DEF LimitOverflows
  <1>4. Plausible(u, count) => -gained <= limit /\ -gained >= -limit
    BY DEF Plausible
  <1> HIDE DEF limit, gained
  <1> QED BY <1>1, <1>2, <1>3, <1>4

LEMMA NothingCalibrated ==
    ASSUME PpsInv, LimitOverflows, NEW u, NEW count \in Int,
           NEW bits, hardpps(u, count, bits)
    PROVE  UNCHANGED <<pps_shift, pps_intcnt, pps_freq, time_freq>>
  <1>1. ~Calibrated(u, count, bits)
    BY NothingPlausible DEF Calibrated
  <1> QED BY <1>1 DEF hardpps, Ignored, Gated, WithinInterval, Discarded,
                      calVars

(* Once the PPS interval is so long that its limit overflows, every        *)
(* calibration is discarded: no pulse steers the frequency any more, and   *)
(* none shortens the interval.  Only a request of ntp_adjtime() that clears*)
(* STA_PLL does.                                                           *)
THEOREM LongIntervalStays ==
    PpsSpec =>
        [][ LimitOverflows =>
                \/ UNCHANGED <<pps_shift, pps_freq>>
                \/ \E r \in Requests :
                        /\ AdjTime(r)
                        /\ ClearsPll(r) \/ UNCHANGED pps_shift ]_pvars
  <1>1. ASSUME PpsInv, LimitOverflows, NEW phase \in Int,
               Pulse(phase) \/ PreemptedOverflow(phase)
        PROVE  UNCHANGED <<pps_shift, pps_freq>>
    <2>1. \A sec \in Int : PulseTime(phase, sec) \in RoundedPulse
      BY <1>1, RoundedType
    <2>2. /\ tv_sec \in Int /\ tv_sec + 1 \in Int /\ drift \in Int
          /\ SecondOf(phase) \in Int
      BY <1>1, SecondOfType DEF PpsInv, Inv, TypeOK, FilterOK
    <2>3. PICK u \in RoundedPulse : \E bits :
                hardpps(u, Count(u), bits)
      BY <1>1, <2>1, <2>2 DEF Pulse, PreemptedOverflow
    <2>4. Count(u) \in Int
      BY <2>2, CountType
    <2> QED BY <1>1, <2>3, <2>4, NothingCalibrated
  <1>2. ASSUME PpsInv, LimitOverflows, [PpsNext]_pvars
        PROVE  \/ UNCHANGED <<pps_shift, pps_freq>>
               \/ \E r \in Requests :
                       /\ AdjTime(r)
                       /\ ClearsPll(r) \/ UNCHANGED pps_shift
    <2>1. CASE \/ Tick \/ SecondOverflow
               \/ \E offset \in Offsets : Discipline(offset)
      BY <2>1 DEF Tick, SecondOverflow, Discipline, ppsVars
    <2>2. CASE \E r \in Requests : AdjTime(r)
      BY <2>2 DEF AdjTime
    <2>3. CASE \E phase \in Phases : Pulse(phase) \/ PreemptedOverflow(phase)
      <3>1. Phases \subseteq Int
        BY PpsAssumption DEF Phases
      <3> QED BY <1>1, <1>2, <2>3, <3>1
    <2>4. CASE UNCHANGED pvars
      BY <2>4 DEF pvars, kvars, ppsVars
    <2> QED BY <1>2, <2>1, <2>2, <2>3, <2>4 DEF PpsNext
  <1>3. PpsInv /\ [PpsNext]_pvars =>
            [ LimitOverflows =>
                \/ UNCHANGED <<pps_shift, pps_freq>>
                \/ \E r \in Requests :
                        /\ AdjTime(r)
                        /\ ClearsPll(r) \/ UNCHANGED pps_shift ]_pvars
    BY <1>2
  <1> QED BY <1>3, PpsInvHolds, PTL DEF PpsSpec
=============================================================================
