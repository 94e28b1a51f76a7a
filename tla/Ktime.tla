------------------------------- MODULE Ktime -------------------------------
(***************************************************************************)
(* The kernel clock discipline of ktime.c: the clock that the tick handler *)
(* advances (ntp_tick_adjust and second_overflow), the leap-second state   *)
(* machine cranked at each rollover of the second, and the hybrid PLL/FLL  *)
(* that ntp_adjtime() and hardupdate() feed.  Each action is one call made *)
(* with the clock lock held, so a call is atomic against the others.       *)
(* Operators named X_Fault are faulty variants of X, which the properties  *)
(* below are shown to reject; nothing uses them.                           *)
(***************************************************************************)
EXTENDS Timex

CONSTANTS
    hz,             \* tick interrupts in a second
    DAY,            \* seconds in a day (the literal 86400)
    SHIFT_PLL,      \* PLL loop gain (shift)
    SHIFT_FLL,      \* FLL loop gain (shift)
    PPS_SYNC,       \* is the PPS discipline configured?
    PPS_FAVG, PPS_FAVGDEF, PPS_FAVGMAX,     \* calibration intervals (shift)
    PPS_VALID,      \* PPS signal watchdog (s)
    StartSecs,      \* the seconds at which the clock may be set at startup
    Requests,       \* the arguments that ntp_adjtime() is called with
    Offsets,        \* the offsets (ns) that hardupdate() is called with
    MaxSec          \* bound: the second at which the model stops ticking

ASSUME KtimeAssumption ==
    /\ hz \in Nat /\ hz >= 2
    /\ DAY \in Nat /\ DAY >= 3
    /\ {SHIFT_PLL, SHIFT_FLL, PPS_FAVG, PPS_FAVGDEF, PPS_FAVGMAX,
        PPS_VALID, MaxSec} \subseteq Nat
    /\ PPS_SYNC \in BOOLEAN
    /\ PPS_SYNC => SHIFT_PLL > 0 /\ PPS_FAVG > 0
    /\ PPS_FAVG <= PPS_FAVGDEF /\ PPS_FAVGDEF <= PPS_FAVGMAX
    /\ StartSecs \subseteq Nat
    /\ Requests \subseteq TimexRequest
    /\ Offsets \subseteq Int

VARIABLES
    tv_sec, tv_nsec,    \* TIMEVAR, the clock as of the last tick
    time_state,         \* clock state
    time_status,        \* clock status bits
    time_tai,           \* TAI offset (s)
    time_monitor,       \* last time offset (ns)
    time_constant,      \* poll interval (shift)
    time_maxerror,      \* maximum error (us)
    time_esterror,      \* estimated error (us)
    time_reftime,       \* time at last adjustment (s)
    time_offset,        \* l_fp: offset still to be amortized (ns)
    time_freq,          \* l_fp: frequency offset (ns/s)
    time_adj,           \* l_fp: nanoseconds to add in this second
    time_phase,         \* l_fp: what the ticks have not yet passed on
    pps_freq,           \* l_fp: frequency offset of the PPS loop (ns/s)
    pps_shift,          \* calibration interval (shift)
    pps_shiftmax,       \* maximum calibration interval (shift)
    pps_valid           \* signal watchdog counter (s)

timevar == <<tv_sec, tv_nsec>>
leapVars == <<time_state, time_tai>>
loopVars == <<time_monitor, time_constant, time_reftime, time_freq>>
errorVars == <<time_maxerror, time_esterror>>
tickVars == <<time_adj, time_phase>>
ppsVars == <<pps_freq, pps_shift, pps_shiftmax, pps_valid>>
kvars == <<timevar, leapVars, loopVars, errorVars, tickVars, ppsVars,
           time_status, time_offset>>

Has(bit) == bit \in time_status

(* Nanoseconds in a tick.                                                  *)
time_tick == NANOSECOND \div hz

(* TIMEVAR is set from the time server before the first tick.              *)
Init ==
    /\ tv_sec \in StartSecs
    /\ tv_nsec = 0
    /\ time_state = "TIME_OK"
    /\ time_status = {"STA_UNSYNC"}
    /\ time_tai = 0
    /\ time_monitor = 0
    /\ time_constant = 0
    /\ time_maxerror = CDiv(MAXPHASE, NSPERUS)
    /\ time_esterror = CDiv(MAXPHASE, NSPERUS)
    /\ time_reftime = 0
    /\ time_offset = 0
    /\ time_freq = 0
    /\ time_adj = L_LINT(NANOSECOND)
    /\ time_phase = 0
    /\ pps_freq = 0
    /\ pps_shift = PPS_FAVG
    /\ pps_shiftmax = PPS_FAVGDEF
    /\ pps_valid = 0

(***************************************************************************)
(* ntp_tick_adjust(): add this tick's share of time_adj to the clock and   *)
(* keep what is less than a whole nanosecond per tick in time_phase.       *)
(***************************************************************************)
TickUpdate == CDiv(L_GINT(time_phase + time_adj), hz)

TickAdjusted == tv_nsec + TickUpdate

TickPhase == time_phase' = time_phase + time_adj - L_LINT(TickUpdate * hz)

(* Faulty: the second is complete only past its last nanosecond.           *)
Tick_LateCarry ==
    /\ TickAdjusted <= NANOSECOND
    /\ tv_nsec' = TickAdjusted
    /\ TickPhase
    /\ UNCHANGED <<tv_sec, leapVars, loopVars, errorVars, time_adj, ppsVars,
                   time_status, time_offset>>

(* A tick that does not complete a second.                                 *)
Tick ==
    /\ TickAdjusted < NANOSECOND
    /\ tv_nsec' = TickAdjusted
    /\ TickPhase
    /\ UNCHANGED <<tv_sec, leapVars, loopVars, errorVars, time_adj, ppsVars,
                   time_status, time_offset>>

(***************************************************************************)
(* second_overflow(): the switch on time_state.  sec is the clock after    *)
(* tv_sec++.                                                               *)
(***************************************************************************)
NoWarning(sec) ==
    /\ time_state = "TIME_OK"
    /\ time_state' = IF Has("STA_INS") THEN "TIME_INS"
                     ELSE IF Has("STA_DEL") THEN "TIME_DEL"
                     ELSE "TIME_OK"
    /\ tv_sec' = sec
    /\ UNCHANGED time_tai

WarningWithdrawn(state, bit, sec) ==
    /\ time_state = state
    /\ ~Has(bit)
    /\ time_state' = "TIME_OK"
    /\ tv_sec' = sec
    /\ UNCHANGED time_tai

WarningPending(state, bit, due, sec) ==
    /\ time_state = state
    /\ Has(bit)
    /\ ~due
    /\ tv_sec' = sec
    /\ UNCHANGED <<time_state, time_tai>>

(* Faulty: the second is not repeated; it is repeated twice; it is not     *)
(* repeated and the leap stays pending.                                    *)
InsertSecond_NotRepeated(sec) ==
    /\ time_state = "TIME_INS" /\ Has("STA_INS") /\ sec % DAY = 0
    /\ tv_sec' = sec /\ time_state' = "TIME_OOP" /\ UNCHANGED time_tai

InsertSecond_Twice(sec) ==
    /\ time_state = "TIME_INS" /\ Has("STA_INS") /\ sec % DAY = 0
    /\ tv_sec' = sec - 2 /\ time_state' = "TIME_OOP" /\ UNCHANGED time_tai

InsertSecond_Armed(sec) ==
    /\ time_state = "TIME_INS" /\ Has("STA_INS") /\ sec % DAY = 0
    /\ tv_sec' = sec /\ UNCHANGED <<time_state, time_tai>>

(* Insert second 23:59:60 following second 23:59:59.                       *)
InsertSecond(sec) ==
    /\ time_state = "TIME_INS"
    /\ Has("STA_INS")
    /\ sec % DAY = 0
    /\ tv_sec' = sec - 1
    /\ time_state' = "TIME_OOP"
    /\ UNCHANGED time_tai

(* Faulty: the sign of an insertion; the wrong second of the day.          *)
DeleteSecond_Inserts(sec) ==
    /\ time_state = "TIME_DEL" /\ Has("STA_DEL") /\ (sec + 1) % DAY = 0
    /\ tv_sec' = sec - 1 /\ time_state' = "TIME_WAIT"
    /\ time_tai' = time_tai - 1

DeleteSecond_Late(sec) ==
    /\ time_state = "TIME_DEL" /\ Has("STA_DEL") /\ sec % DAY = 0
    /\ tv_sec' = sec + 1 /\ time_state' = "TIME_WAIT"
    /\ time_tai' = time_tai - 1

(* Delete second 23:59:59.                                                 *)
DeleteSecond(sec) ==
    /\ time_state = "TIME_DEL"
    /\ Has("STA_DEL")
    /\ (sec + 1) % DAY = 0
    /\ tv_sec' = sec + 1
    /\ time_state' = "TIME_WAIT"
    /\ time_tai' = time_tai - 1

(* Faulty: TAI is not told of the second, and the second does not end.     *)
EndInsertion_SameTai(sec) ==
    /\ time_state = "TIME_OOP" /\ tv_sec' = sec
    /\ time_state' = "TIME_WAIT" /\ UNCHANGED time_tai

EndInsertion_Stays(sec) ==
    /\ time_state = "TIME_OOP" /\ tv_sec' = sec
    /\ UNCHANGED <<time_state, time_tai>>

(* The inserted second is over.                                            *)
EndInsertion(sec) ==
    /\ time_state = "TIME_OOP"
    /\ tv_sec' = sec
    /\ time_state' = "TIME_WAIT"
    /\ time_tai' = time_tai + 1

WaitForBits(sec) ==
    /\ time_state = "TIME_WAIT"
    /\ time_state' = IF Has("STA_INS") \/ Has("STA_DEL") THEN "TIME_WAIT"
                     ELSE "TIME_OK"
    /\ tv_sec' = sec
    /\ UNCHANGED time_tai

LeapStep(sec) ==
    \/ NoWarning(sec)
    \/ WarningWithdrawn("TIME_INS", "STA_INS", sec)
    \/ WarningWithdrawn("TIME_DEL", "STA_DEL", sec)
    \/ WarningPending("TIME_INS", "STA_INS", sec % DAY = 0, sec)
    \/ WarningPending("TIME_DEL", "STA_DEL", (sec + 1) % DAY = 0, sec)
    \/ InsertSecond(sec)
    \/ DeleteSecond(sec)
    \/ EndInsertion(sec)
    \/ WaitForBits(sec)

(* The shift by which the pending offset is reduced in each second.        *)
PpsTiming(status) == {"STA_PPSTIME", "STA_PPSSIGNAL"} \subseteq status

OffsetShift ==
    IF PPS_SYNC /\ PpsTiming(time_status) THEN pps_shift
    ELSE SHIFT_PLL + time_constant

(* Faulty: the frequency added before the part is taken off the offset.    *)
Amortized_WithFreq == L_RSHIFT(time_offset, OffsetShift) + time_freq

Amortized == L_RSHIFT(time_offset, OffsetShift)

(* Faulty: the part is passed on and stays in the offset.                  *)
OffsetLeft_All == time_offset

OffsetLeft == time_offset - Amortized

(* Faulty: added to the adjustment of the second before.                   *)
SecondAdjustment_Added ==
    time_adj + Amortized + time_freq + L_LINT(NANOSECOND)

SecondAdjustment == Amortized + time_freq + L_LINT(NANOSECOND)

(* Faulty: the counter stops at zero before the test below it.             *)
PpsWatchdog_Never ==
    /\ pps_valid' = IF PPS_SYNC /\ pps_valid > 0 THEN pps_valid - 1
                    ELSE pps_valid
    /\ time_status' = IF PPS_SYNC /\ pps_valid < 0
                      THEN time_status \ {"STA_PPSSIGNAL"}
                      ELSE time_status

(* The PPS watchdog: without a pulse for PPS_VALID seconds the signal is   *)
(* declared lost.                                                          *)
PpsWatchdog ==
    /\ pps_valid' = IF PPS_SYNC /\ pps_valid > 0 THEN pps_valid - 1
                    ELSE pps_valid
    /\ time_status' = IF PPS_SYNC /\ pps_valid = 0
                      THEN time_status \ {"STA_PPSSIGNAL"}
                      ELSE time_status

(* The tick that completes a second: ntp_tick_adjust() and then            *)
(* second_overflow() past its first test.                                  *)
SecondOverflow ==
    /\ tv_sec < MaxSec
    /\ TickAdjusted >= NANOSECOND
    /\ tv_nsec' = TickAdjusted - NANOSECOND
    /\ TickPhase
    /\ time_maxerror' = WrapLong(time_maxerror + CDiv(MAXFREQ, NSPERUS))
    /\ LeapStep(tv_sec + 1)
    /\ time_offset' = OffsetLeft
    /\ time_adj' = SecondAdjustment
    /\ PpsWatchdog
    /\ UNCHANGED <<loopVars, time_esterror, pps_freq, pps_shift,
                   pps_shiftmax>>

(***************************************************************************)
(* hardupdate(): the new values of the loop variables, given the status    *)
(* word, the time constant and the offset (ns) that the call works with.   *)
(***************************************************************************)
PpsSteering(status) == {"STA_PPSFREQ", "STA_PPSSIGNAL"} \subseteq status

Monitored(status, offset) ==
    IF PpsTiming(status) THEN time_monitor ELSE Clamp(offset, MAXPHASE)

(* Faulty: the operands swapped.                                           *)
UpdateInterval_Swapped(status) ==
    IF "STA_FREQHOLD" \in status \/ time_reftime = 0 THEN 0
    ELSE time_reftime - tv_sec

(* Seconds since the last update, zero when the frequency is held.         *)
UpdateInterval(status) ==
    IF "STA_FREQHOLD" \in status \/ time_reftime = 0 THEN 0
    ELSE tv_sec - time_reftime

UsesFll(status, mtemp) ==
    /\ mtemp >= MINSEC
    /\ "STA_FLL" \in status \/ mtemp > MAXSEC

PllTerm(monitor, constant, mtemp) ==
    WrapFp(L_RSHIFT(L_LINT(monitor), 2 * (SHIFT_PLL + 2 + constant)) * mtemp)

FllTerm(monitor, mtemp) ==
    L_RSHIFT(L_LINT(CDiv(WrapLong(monitor * 16), mtemp)), SHIFT_FLL + 4)

NewFreq(status, constant, monitor, mtemp) ==
    LET pll == WrapFp(time_freq + PllTerm(monitor, constant, mtemp))
        sum == IF UsesFll(status, mtemp)
               THEN WrapFp(pll + FllTerm(monitor, mtemp)) ELSE pll
    IN  IF L_GINT(sum) > MAXFREQ THEN L_LINT(MAXFREQ)
        ELSE IF L_GINT(sum) < -MAXFREQ THEN L_LINT(-MAXFREQ)
        ELSE sum

NewMode(status, mtemp) ==
    (status \ {"STA_MODE"})
        \cup (IF UsesFll(status, mtemp) THEN {"STA_MODE"} ELSE {})

Unlocked(status) ==
    [monitor |-> time_monitor, offset |-> time_offset, freq |-> time_freq,
     reftime |-> time_reftime, status |-> status]

hardupdate(status, constant, offset) ==
    IF "STA_PLL" \notin status THEN Unlocked(status)
    ELSE
    LET monitor == Monitored(status, offset)
        mtemp == UpdateInterval(status)
    IN  [monitor |-> monitor,
         offset |-> IF PpsTiming(status) THEN time_offset
                    ELSE L_LINT(monitor),
         freq |-> IF PpsSteering(status) THEN time_freq
                  ELSE NewFreq(status, constant, monitor, mtemp),
         reftime |-> tv_sec,
         status |-> IF PpsSteering(status) THEN status
                    ELSE NewMode(status, mtemp)]

(* The NTP daemon's call, on the status word and constant in force.        *)
Discipline(offset) ==
    LET h == hardupdate(time_status, time_constant, offset)
    IN  /\ time_monitor' = h.monitor
        /\ time_offset' = h.offset
        /\ time_freq' = h.freq
        /\ time_reftime' = h.reftime
        /\ time_status' = h.status
        /\ UNCHANGED <<timevar, leapVars, errorVars, tickVars, ppsVars,
                       time_constant>>

(***************************************************************************)
(* ntp_adjtime(), under the lock.                                          *)
(***************************************************************************)

(* MOD_STATUS: clearing STA_PLL returns the state machine to TIME_OK and   *)
(* drops the read-only bits; the read/write bits come from the caller.     *)
ClearsPll(r) ==
    "MOD_STATUS" \in r.modes /\ Has("STA_PLL") /\ "STA_PLL" \notin r.status

WrittenStatus(r) ==
    IF "MOD_STATUS" \notin r.modes THEN time_status
    ELSE LET before == IF ClearsPll(r) THEN {"STA_UNSYNC"} ELSE time_status
         IN  (before \cap STA_RONLY) \cup (r.status \ STA_RONLY)

(* The four modes that select resolution and clock, in the code's order.   *)
SelectBit(status, modes, setter, clearer, bit) ==
    IF clearer \in modes THEN status \ {bit}
    ELSE IF setter \in modes THEN status \cup {bit}
    ELSE status

SelectedStatus(r) ==
    LET nano == SelectBit(WrittenStatus(r), r.modes,
                          "MOD_NANO", "MOD_MICRO", "STA_NANO")
    IN  SelectBit(nano, r.modes, "MOD_CLKB", "MOD_CLKA", "STA_CLK")

(* Faulty: only the upper limit is enforced.                               *)
ConstantAfter_NoFloor(r) ==
    IF "MOD_TIMECONST" \notin r.modes THEN time_constant
    ELSE IF r.constant > MAXTC THEN MAXTC
    ELSE r.constant

ConstantAfter(r) ==
    IF "MOD_TIMECONST" \notin r.modes THEN time_constant
    ELSE IF r.constant < 0 THEN 0
    ELSE IF r.constant > MAXTC THEN MAXTC
    ELSE r.constant

ShiftMaxAfter(r) ==
    IF ~PPS_SYNC \/ "MOD_PPSMAX" \notin r.modes THEN pps_shiftmax
    ELSE IF r.shift < PPS_FAVG THEN PPS_FAVG
    ELSE IF r.shift > PPS_FAVGMAX THEN PPS_FAVGMAX
    ELSE r.shift

(* The offset in nanoseconds: a microsecond offset is multiplied in a long.*)
OffsetOf(r, status) ==
    IF "STA_NANO" \in status THEN r.offset ELSE WrapLong(r.offset * NSPERUS)

LoopAfter(r) ==
    LET status == SelectedStatus(r)
    IN  IF "MOD_OFFSET" \in r.modes
        THEN hardupdate(status, ConstantAfter(r), OffsetOf(r, status))
        ELSE Unlocked(status)

(* Faulty: the frequency is not clamped.                                   *)
FreqOf_Unclamped(r) == L_LINT(CDiv(r.freq, SCALE_PPM))

FreqOf(r) == L_LINT(Clamp(CDiv(r.freq, SCALE_PPM), MAXFREQ))

AdjTime(r) ==
    /\ time_maxerror' = IF "MOD_MAXERROR" \in r.modes THEN r.maxerror
                        ELSE time_maxerror
    /\ time_esterror' = IF "MOD_ESTERROR" \in r.modes THEN r.esterror
                        ELSE time_esterror
    /\ time_state' = IF ClearsPll(r) THEN "TIME_OK" ELSE time_state
    /\ pps_shift' = IF PPS_SYNC /\ ClearsPll(r) THEN PPS_FAVG ELSE pps_shift
    /\ time_constant' = ConstantAfter(r)
    /\ time_tai' = IF "MOD_TAI" \in r.modes /\ r.constant > 0
                   THEN r.constant ELSE time_tai
    /\ pps_shiftmax' = ShiftMaxAfter(r)
    /\ LET h == LoopAfter(r)
       IN  /\ time_monitor' = h.monitor
           /\ time_offset' = h.offset
           /\ time_reftime' = h.reftime
           /\ time_status' = h.status
           /\ time_freq' = IF "MOD_FREQUENCY" \in r.modes THEN FreqOf(r)
                           ELSE h.freq
    /\ pps_freq' = IF PPS_SYNC /\ "MOD_FREQUENCY" \in r.modes
                   THEN FreqOf(r) ELSE pps_freq
    /\ UNCHANGED <<timevar, tickVars, pps_valid>>

(***************************************************************************)
(* The specification.  The hardware keeps interrupting, so ticks are fair; *)
(* nothing obliges anyone to call ntp_adjtime().                           *)
(***************************************************************************)
Hardclock == Tick \/ SecondOverflow

Next ==
    \/ Tick
    \/ SecondOverflow
    \/ \E r \in Requests : AdjTime(r)
    \/ \E offset \in Offsets : Discipline(offset)

Spec == Init /\ [][Next]_kvars

FairSpec == Spec /\ WF_kvars(Hardclock)

(***************************************************************************)
(* Properties.                                                             *)
(***************************************************************************)

(* Every variable has its type; the pending offset and the PPS frequency   *)
(* are l_fp values.                                                        *)
TypeOK ==
    /\ tv_sec \in Nat
    /\ tv_nsec \in Int
    /\ time_state \in TIME_STATES
    /\ time_status \subseteq STA_BITS
    /\ time_constant \in 0 .. MAXTC
    /\ time_reftime \in Nat
    /\ {time_tai, time_monitor, time_maxerror, time_esterror, time_offset,
        time_freq, time_adj, time_phase, pps_freq} \subseteq Int
    /\ pps_shift \in PPS_FAVG .. PPS_FAVGMAX
    /\ pps_shiftmax \in PPS_FAVG .. PPS_FAVGMAX
    /\ pps_valid \in 0 .. PPS_VALID

(* Between ticks TIMEVAR is a normalized time: second_overflow() carries   *)
(* at most one second, and at most one is ever due, whatever phase and     *)
(* frequency the loop has been asked for.                                  *)
Normalized == tv_nsec \in 0 .. NANOSECOND - 1

(* ntp_tick_adjust() leaves behind less than a nanosecond per tick, and    *)
(* never passes on more than has accumulated.                              *)
ResidueBounded == 0 <= time_phase /\ time_phase < L_LINT(hz)

(* The performance envelope of timex.h: no sequence of updates and         *)
(* frequency settings takes the phase or the frequency outside it.         *)
PhaseWithin(limit) ==
    /\ time_monitor \in -MAXPHASE .. MAXPHASE
    /\ time_offset \in L_LINT(-limit) .. L_LINT(limit)

FreqClamped == L_GINT(time_freq) \in -MAXFREQ .. MAXFREQ

Envelope == PhaseWithin(MAXPHASE) /\ FreqClamped

(* The pending offset that the kernel can cope with: a PPS pulse that      *)
(* overtakes the rollover may leave more than MAXPHASE of it (KtimePps).   *)
PhaseReach == IF PPS_SYNC THEN 2 * MAXPHASE ELSE MAXPHASE

(* The clock runs forward in every second, even while the largest negative *)
(* offset is amortized at the largest negative frequency, and never at     *)
(* twice its rate.                                                         *)
RunsForward == time_adj > 0 /\ time_adj < 2 * L_LINT(NANOSECOND)

(* The last update is never in the future of the clock, although a leap    *)
(* second sets the clock back: hardupdate() never sees a negative update   *)
(* interval, which would steer the frequency the wrong way.                *)
ReftimeNotAhead == time_reftime <= tv_sec

(* "Insert second in progress" is the state of the last second of a day.   *)
LeapAtMidnight == time_state = "TIME_OOP" => (tv_sec + 1) % DAY = 0

(* The conjunction of the above, which every action preserves; without PPS *)
(* it implies the envelope.                                                *)
Inv ==
    TypeOK /\ Normalized /\ ResidueBounded /\ PhaseWithin(PhaseReach)
        /\ FreqClamped /\ RunsForward /\ ReftimeNotAhead /\ LeapAtMidnight

(* The tick handler sets the clock back only to begin an inserted second,  *)
(* and TIMEVAR is otherwise lexicographically nondecreasing.               *)
ForwardOutsideLeap ==
    [][ \/ tv_sec' > tv_sec
        \/ tv_sec' = tv_sec /\ tv_nsec' >= tv_nsec
        \/ /\ time_state = "TIME_INS" /\ time_state' = "TIME_OOP"
           /\ tv_sec' = tv_sec ]_timevar

(* The count of seconds that have elapsed: the second of UTC, which a leap *)
(* second repeats, and the TAI offset.                                     *)
Elapsed ==
    tv_sec + (IF time_state = "TIME_OOP" THEN 1 ELSE 0) + time_tai

(* Atomic time is continuous across a leap second: each rollover of the    *)
(* tick handler counts one second of it, inserted, deleted or plain.       *)
TaiContinuous == [][SecondOverflow => Elapsed' = Elapsed + 1]_kvars

(* Amortizing an offset never overshoots: second_overflow() never grows    *)
(* the part still to be amortized and never reverses its sign.             *)
NoOvershoot ==
    [][ SecondOverflow =>
            IF time_offset >= 0 THEN time_offset' \in 0 .. time_offset
            ELSE time_offset' \in time_offset .. 0 ]_kvars

(* An offset is amortized in time.  In the seconds after an update, of     *)
(* which one for each midnight is not counted, since it may be deleted, the*)
(* whole parts that are left are halved again and again, in as many seconds*)
(* as make the longest time constant, whatever constants are set meanwhile;*)
(* what no second will amortize is less than one part.                     *)
SettlingPart == PowerOfTwo[SHIFT_PLL + MAXTC]

WholeParts(offset) ==
    (IF offset < 0 THEN -offset ELSE offset) \div SettlingPart

SettlingSeconds ==
    (tv_sec - time_reftime) - (tv_sec \div DAY - time_reftime \div DAY)

OffsetSettles ==
    WholeParts(time_offset) <=
        WholeParts(L_LINT(MAXPHASE))
            \div PowerOfTwo[SettlingSeconds \div SettlingPart]

(* Within the range that the discipline is designed for (an offset that,   *)
(* shifted left four places, still fits a long: +-134 ms), an update never *)
(* steers the frequency away from the offset by 1 ns/s or more, in PLL or  *)
(* FLL mode and whatever the interval since the last one.  (By less it may:*)
(* the clamp also drops the fraction of a frequency of MAXFREQ.)           *)
InRange(offset) == WrapLong(offset * 16) = offset * 16

SteersTowardOffset ==
    [][ \A offset \in Offsets :
            Discipline(offset) /\ InRange(offset) =>
                /\ L_GINT(time_freq') > L_GINT(time_freq) => offset > 0
                /\ L_GINT(time_freq') < L_GINT(time_freq) => offset < 0 ]_kvars

(* What UtcClock sees of this clock: in TIME_OOP it repeats a second, which*)
(* is numbered DAY.                                                        *)
UtcDay == tv_sec \div DAY

UtcSecond == IF time_state = "TIME_OOP" THEN DAY ELSE tv_sec % DAY

UtcWarning == CASE time_state = "TIME_OK" -> "none"
                [] time_state = "TIME_INS" -> "insert"
                [] time_state = "TIME_DEL" -> "delete"
                [] OTHER -> "spent"

Utc == INSTANCE UtcClock WITH day <- UtcDay, second <- UtcSecond,
                              tai <- time_tai, warning <- UtcWarning

(* The clock and the leap machine implement the UTC clock of UtcClock: each*)
(* announced leap is made once, at the end of a day, it lasts one second   *)
(* unless an operator disables the loop, and TAI stays continuous.         *)
RefinesUtc == Utc!Spec

(* The machine does not stay armed: within a day an announced insertion    *)
(* takes place, or it is withdrawn.                                        *)
InsertionHappens ==
    (time_state = "TIME_INS" /\ tv_sec + DAY < MaxSec)
        ~> (time_state \in {"TIME_OOP", "TIME_OK"})

(* A leap second ends.                                                     *)
LeapSecondEnds == (time_state = "TIME_OOP") ~> (time_state # "TIME_OOP")
=============================================================================
