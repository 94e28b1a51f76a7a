-------------------------- MODULE RtemsClockProofs --------------------------
(***************************************************************************)
(* Proofs about RtemsClock, for every value of its constants: no read is   *)
(* behind another, wherever there is a high-resolution counter, and also   *)
(* without one as long as no leap second is announced; none is further     *)
(* ahead of the clock than the lateness of the ticker explains; and the    *)
(* clock under its reads is that of Ktime.                                 *)
(***************************************************************************)
EXTENDS RtemsClock, KtimeProofs

(* What reads rely on.  Until the ticker has run for the first time they   *)
(* return a nanobase of zero, and from then on what they return is kept in *)
(* lasttime.                                                               *)
ReadInv ==
    /\ nanobase \in Int /\ pcc_numerator \in Int /\ pcc_denominator \in Nat
    /\ count \in Nat /\ ticks \in Nat
    /\ lasttime \in Int /\ returned = lasttime
    /\ pcc_denominator = 0 => nanobase = 0 /\ lasttime = 0

LEMMA TimevarType == ASSUME Inv PROVE Timevar \in Int
  <1>1. tv_sec \in Int /\ tv_nsec \in Int /\ NANOSECOND \in Int
    BY TimexAssumption DEF Inv, TypeOK
  <1> QED BY <1>1 DEF Timevar

LEMMA ClockInitInv == ClockInit => Inv /\ ReadInv
  <1> SUFFICES ASSUME ClockInit PROVE Inv /\ ReadInv
    OBVIOUS
  <1>1. Inv
    BY InitInv DEF ClockInit
  <1>2. ReadInv
    BY ClockAssumption DEF ClockInit, ReadInv
  <1> QED BY <1>1, <1>2

(* Every step of the clock with its reads is a step of Ktime or leaves it. *)
LEMMA ClockStep ==
    ASSUME [ClockNext]_<<kvars, cvars>>
    PROVE  [Next]_kvars
  <1>1. CASE CountUp
    BY <1>1 DEF CountUp
  <1>2. CASE ticker_body
    BY <1>2 DEF ticker_body, Hardclock, Next
  <1>3. CASE nano_time
    BY <1>3 DEF nano_time
  <1>4. CASE Adjust
    BY <1>4 DEF Adjust, Next
  <1>5. CASE UNCHANGED <<kvars, cvars>>
    BY <1>5
  <1> QED BY <1>1, <1>2, <1>3, <1>4, <1>5 DEF ClockNext

(* Readers and the counter are invisible to the kernel: with ticks that    *)
(* run late and reads between them, it is the kernel of Ktime.             *)
THEOREM ClockImplementsKtime == ClockSpec => Spec
  <1>1. ClockInit => Init
    BY DEF ClockInit
  <1>2. [ClockNext]_<<kvars, cvars>> => [Next]_kvars
    BY ClockStep
  <1> QED BY <1>1, <1>2, PTL DEF ClockSpec, Spec

(* So whatever is proved of Ktime is true of the clock that nano_time()    *)
(* reads; it implements the UTC clock.                                     *)
THEOREM ClockRefinesUtc == ClockSpec => RefinesUtc
  BY ClockImplementsKtime, RefinesUtcHolds, PTL

(* A time that has been extrapolated is a number of nanoseconds.           *)
LEMMA ExtrapolatedType ==
    ASSUME ReadInv, pcc_denominator # 0
    PROVE  Extrapolated \in Int
  <1>1. getPcc \in Int
    <2>1. HRC_PERIOD * ticks \in Int
      BY ClockAssumption DEF ReadInv
    <2> QED BY <2>1 DEF getPcc, ReadInv
  <1>2. getPcc * pcc_numerator \in Int
    BY <1>1 DEF ReadInv
  <1>3. pcc_denominator \in Nat \ {0}
    BY DEF ReadInv
  <1>4. ASSUME NEW a \in Int, NEW d \in Nat \ {0} PROVE a \div d \in Int
    OBVIOUS
  <1>5. (getPcc * pcc_numerator) \div pcc_denominator \in Int
    BY <1>2, <1>3, <1>4
  <1> QED BY <1>5 DEF Extrapolated, ReadInv

(* A read leaves the time that it returns in lasttime, and moves it on.    *)
LEMMA ReadStep ==
    ASSUME HIRES, ReadInv, nano_time
    PROVE  ReadInv' /\ returned' >= returned
  <1>1. UNCHANGED <<nanobase, pcc_numerator, pcc_denominator, count, ticks>>
    BY DEF nano_time, rateVars, counterVars
  <1>2. CASE pcc_denominator = 0
    <2>1. returned' = nanobase /\ lasttime' = lasttime
      BY <1>2 DEF nano_time
    <2>2. returned' = 0 /\ lasttime' = 0 /\ returned = 0
      BY <1>2, <2>1 DEF ReadInv
    <2> QED BY <1>1, <1>2, <2>2 DEF ReadInv
  <1>3. CASE pcc_denominator # 0
    <2>1. Extrapolated \in Int /\ lasttime \in Int /\ returned = lasttime
      BY <1>3, ExtrapolatedType DEF ReadInv
    <2>2. lasttime' = ForwardOnly(Extrapolated) /\ returned' = lasttime'
      BY <1>3 DEF nano_time
    <2>3. lasttime' \in Int /\ lasttime' > lasttime
      BY <2>1, <2>2 DEF ForwardOnly
    <2> QED BY <1>1, <1>3, <2>1, <2>2, <2>3 DEF ReadInv
  <1> QED BY <1>2, <1>3

LEMMA TickerStep ==
    ASSUME HIRES, ReadInv, Timevar' \in Int, ticker_body
    PROVE  ReadInv'
  <1>1. nanobase' = Timevar' /\ nanobase \in Int /\ ULONG \in Nat \ {0}
    BY ClockAssumption DEF ticker_body, ReadInv
  <1>2. pcc_numerator' = (Timevar' - nanobase) % ULONG
    BY DEF ticker_body, Numerator
  <1>3. pcc_numerator' \in Int
    BY <1>1, <1>2
  <1>4. pcc_denominator' \in Nat \ {0}
    <2>1. HRC_PERIOD \in Nat \ {0} /\ ticks \in Nat \ {0}
      BY ClockAssumption DEF ticker_body, ReadInv
    <2>2. HRC_PERIOD * ticks \in Nat \ {0}
      BY <2>1
    <2> QED BY <2>2 DEF ticker_body, PccPeriod
  <1>5. ticks' = 0 /\ UNCHANGED <<count, lasttime, returned>>
    BY DEF ticker_body, readVars
  <1> QED BY <1>1, <1>3, <1>4, <1>5 DEF ReadInv

LEMMA ClockInvStep ==
    ASSUME HIRES, Inv, ReadInv, [ClockNext]_<<kvars, cvars>>
    PROVE  Inv' /\ ReadInv'
  <1>1. Inv'
    BY ClockStep, NextInv
  <1>2. Timevar' \in Int
    <2>1. tv_sec' \in Int /\ tv_nsec' \in Int /\ NANOSECOND \in Int
      BY <1>1, TimexAssumption DEF Inv, TypeOK
    <2> QED BY <2>1 DEF Timevar
  <1>3. ReadInv'
    <2>1. CASE CountUp
      <3>1. UNCHANGED <<nanobase, pcc_numerator, pcc_denominator, lasttime,
                        returned>>
        BY <2>1 DEF CountUp, rateVars, readVars
      <3>2. count' \in Nat /\ ticks' \in Nat
        BY <2>1 DEF CountUp, ReadInv
      <3> QED BY <3>1, <3>2 DEF ReadInv
    <2>2. CASE ticker_body
      BY <1>2, <2>2, TickerStep
    <2>3. CASE nano_time
      BY <2>3, ReadStep
    <2>4. CASE UNCHANGED cvars
      <3>1. UNCHANGED <<nanobase, pcc_numerator, pcc_denominator, lasttime,
                        returned, count, ticks>>
        BY <2>4 DEF cvars, rateVars, readVars, counterVars
      <3> QED BY <3>1 DEF ReadInv
    <2> QED BY <2>1, <2>2, <2>3, <2>4 DEF ClockNext, Adjust
  <1> QED BY <1>1, <1>3

(* Across late ticks, changes of the rate and leap seconds of both kinds,  *)
(* and whatever the counter and the estimated rate are, nano_time() never  *)
(* returns less than it did before.                                        *)
THEOREM ReadsMonotonicHolds == HIRES => (ClockSpec => ReadsMonotonic)
  <1> SUFFICES ASSUME HIRES PROVE ClockSpec => ReadsMonotonic
    OBVIOUS
  <1>1. ClockInit => Inv /\ ReadInv
    BY ClockInitInv
  <1>2. (Inv /\ ReadInv) /\ [ClockNext]_<<kvars, cvars>> => (Inv /\ ReadInv)'
    BY ClockInvStep
  <1>3. Inv /\ ReadInv /\ [ClockNext]_<<kvars, cvars>>
            => [nano_time => returned' >= returned]_<<kvars, cvars>>
    BY ReadStep
  <1> QED BY <1>1, <1>2, <1>3, PTL DEF ClockSpec, ReadsMonotonic

(***************************************************************************)
(* How far reads run ahead.  In the absence of leaps a tick adds at most   *)
(* LongestTick to the clock, so that the rate at which reads extrapolate   *)
(* is at most that.                                                        *)
(***************************************************************************)
(* Either nobody announces leaps, or an announcement is never withdrawn.   *)
(* (A clock that returns to TIME_OK after a leap, with reads still ahead   *)
(* by what LeapReads is about, is out of the bound.)                       *)
NoLeaps ==
    \A r \in Requests : "MOD_STATUS" \in r.modes => r.status \cap LeapFlags = {}

LeapsStay ==
    \A r \in Requests :
        "MOD_STATUS" \in r.modes =>
            "STA_PLL" \in r.status /\ r.status \cap LeapFlags # {}

(* The system has been up for so long that the first numerator, what an    *)
(* unsigned long keeps of the time of day, is less than it: 4.3 s.         *)
BootIsLong == ULONG - 1 <= BootTicks * LongestTick

Calm == time_state \notin {"TIME_OOP", "TIME_WAIT"}

LeapInv ==
    /\ ~Calm => time_status \cap LeapFlags # {}
    /\ NoLeaps => time_status \cap LeapFlags = {} /\ time_state = "TIME_OK"

RateInv ==
    /\ count < HRC_PERIOD
    /\ pcc_denominator = 0 => ticks >= BootTicks
    /\ pcc_denominator # 0 => ticks <= MaxLate + 1 /\ nanobase = Timevar
    /\ pcc_denominator # 0 /\ Calm =>
            pcc_numerator \in Nat
            /\ HRC_PERIOD * pcc_numerator <= pcc_denominator * LongestTick

AheadInv ==
    /\ Inv /\ ReadInv /\ AdjBounded /\ LeapInv /\ RateInv
    /\ reads \in Nat
    /\ AheadBounded

LEMMA ClockTypes ==
    /\ {HRC_PERIOD, ULONG, BootTicks, hz, NANOSECOND} \subseteq Nat \ {0}
    /\ {MaxLate, MAXPHASE, MAXFREQ} \subseteq Nat
    /\ LongestTick \in Nat
  <1>1. NANOSECOND + MAXPHASE + MAXFREQ \in Nat /\ hz \in Nat \ {0}
    BY TimexAssumption, KtimeAssumption
  <1>2. (NANOSECOND + MAXPHASE + MAXFREQ) \div hz \in Nat
    BY <1>1, DivNat
  <1> QED BY <1>1, <1>2, ClockAssumption, TimexAssumption DEF LongestTick

(* A tick adds at most LongestTick.                                        *)
LEMMA TickAtMost ==
    ASSUME Inv, AdjBounded
    PROVE  TickUpdate \in 0 .. LongestTick
  BY UpdateBounds DEF LongestTick, LongestUpdate

(* Without a leap the clock goes on by what the tick adds, and the machine *)
(* stays out of the quiet states once a leap has been made.                *)
LEMMA HardclockKeeps ==
    ASSUME Inv, LeapInv, AdjBounded, Hardclock
    PROVE  /\ LeapInv' /\ AdjBounded'
           /\ Calm' => Calm /\ Timevar' = Timevar + TickUpdate
  <1>1. /\ tv_sec \in Int /\ tv_nsec \in Int /\ NANOSECOND \in Int
        /\ TickUpdate \in Int
    BY TickAtMost, ClockTypes, TimexAssumption DEF Inv, TypeOK
  <1>2. CASE Tick
    <2>1. UNCHANGED <<time_state, time_status, time_adj, tv_sec>>
          /\ tv_nsec' = tv_nsec + TickUpdate
      BY <1>2 DEF Tick, TickAdjusted, leapVars
    <2>2. LeapInv' /\ AdjBounded' /\ (Calm' => Calm)
      BY <2>1 DEF LeapInv, AdjBounded, Calm
    <2>3. Timevar' = Timevar + TickUpdate
      <3>1. tv_sec * NANOSECOND \in Int
        BY <1>1
      <3> QED BY <1>1, <2>1, <3>1 DEF Timevar
    <2> QED BY <2>2, <2>3
  <1>3. CASE SecondOverflow
    <2>1. /\ tv_nsec' = tv_nsec + TickUpdate - NANOSECOND
          /\ LeapStep(tv_sec + 1)
          /\ time_adj' = SecondAdjustment
          /\ time_status' \cap LeapFlags = time_status \cap LeapFlags
      <3>1. /\ tv_nsec' = TickAdjusted - NANOSECOND
            /\ LeapStep(tv_sec + 1) /\ time_adj' = SecondAdjustment
            /\ PpsWatchdog
        BY <1>3 DEF SecondOverflow
      <3>2. tv_nsec' = tv_nsec + TickUpdate - NANOSECOND
        <4> DEFINE t == TickAdjusted
        <4>1. t = tv_nsec + TickUpdate
          BY DEF TickAdjusted
        <4>2. tv_nsec' = t - NANOSECOND
          BY <3>1
        <4> HIDE DEF t
        <4> QED BY <1>1, <4>1, <4>2
      <3>3. time_status' = time_status \/ time_status' = time_status \ {"STA_PPSSIGNAL"}
        BY <3>1, Zenon DEF PpsWatchdog
      <3>4. time_status' \cap LeapFlags = time_status \cap LeapFlags
        BY <3>3 DEF LeapFlags
      <3> QED BY <3>1, <3>2, <3>4
    <2>2. AdjBounded'
      BY <2>1, AdjustmentTight DEF AdjBounded, AdjLimit
    <2> DEFINE sec == tv_sec + 1
    <2>3. /\ ~Calm' => time_status \cap LeapFlags # {}
          /\ Calm' => Calm /\ tv_sec' = sec
          /\ time_status \cap LeapFlags = {} /\ time_state = "TIME_OK"
                => time_state' = "TIME_OK"
      <3>1. CASE NoWarning(sec)
        BY <3>1 DEF NoWarning, LeapInv, Calm, Has, LeapFlags
      <3>2. CASE \/ WarningWithdrawn("TIME_INS", "STA_INS", sec)
                 \/ WarningWithdrawn("TIME_DEL", "STA_DEL", sec)
        BY <3>2 DEF WarningWithdrawn, LeapInv, Calm, Has, LeapFlags
      <3>3. CASE \/ WarningPending("TIME_INS", "STA_INS", sec % DAY = 0, sec)
                 \/ WarningPending("TIME_DEL", "STA_DEL", (sec + 1) % DAY = 0,
                                   sec)
        BY <3>3 DEF WarningPending, LeapInv, Calm, Has, LeapFlags
      <3>4. CASE InsertSecond(sec)
        BY <3>4 DEF InsertSecond, LeapInv, Calm, Has, LeapFlags
      <3>5. CASE DeleteSecond(sec)
        BY <3>5 DEF DeleteSecond, LeapInv, Calm, Has, LeapFlags
      <3>6. CASE EndInsertion(sec)
        BY <3>6 DEF EndInsertion, LeapInv, Calm, Has, LeapFlags
      <3>7. CASE WaitForBits(sec)
        BY <3>7 DEF WaitForBits, LeapInv, Calm, Has, LeapFlags
      <3> QED BY <2>1, <3>1, <3>2, <3>3, <3>4, <3>5, <3>6, <3>7 DEF LeapStep
    <2>4. LeapInv'
      BY <2>1, <2>3 DEF LeapInv
    <2>5. Calm' => Timevar' = Timevar + TickUpdate
      <3>1. ASSUME tv_sec' = tv_sec + 1 PROVE Timevar' = Timevar + TickUpdate
        <4>1. (tv_sec + 1) * NANOSECOND = tv_sec * NANOSECOND + NANOSECOND
              /\ tv_sec * NANOSECOND \in Int
          BY <1>1
        <4> QED BY <1>1, <2>1, <3>1, <4>1 DEF Timevar
      <3> QED BY <2>3, <3>1
    <2> QED BY <2>2, <2>3, <2>4, <2>5
  <1> QED BY <1>2, <1>3 DEF Hardclock

LEMMA AdjustKeeps ==
    ASSUME NoLeaps \/ LeapsStay, LeapInv, AdjBounded,
           NEW r \in Requests, AdjTime(r)
    PROVE  LeapInv' /\ AdjBounded' /\ (Calm' => Calm) /\ Timevar' = Timevar
  <1>1. /\ UNCHANGED <<tv_sec, tv_nsec, time_adj>>
        /\ time_status' \cap LeapFlags =
                IF "MOD_STATUS" \in r.modes THEN r.status \cap LeapFlags
                ELSE time_status \cap LeapFlags
        /\ time_state' = IF ClearsPll(r) THEN "TIME_OK" ELSE time_state
    BY RequestedBits DEF AdjTime, timevar, tickVars
  <1>2. CASE NoLeaps
    <2>1. time_status' \cap LeapFlags = {} /\ time_state' = "TIME_OK"
          /\ time_state = "TIME_OK"
      BY <1>1, <1>2 DEF NoLeaps, LeapInv
    <2> QED BY <1>1, <2>1 DEF LeapInv, AdjBounded, Timevar, Calm
  <1>3. CASE LeapsStay /\ ~NoLeaps
    <2>1. ~ClearsPll(r)
      BY <1>3 DEF LeapsStay, ClearsPll
    <2>2. "MOD_STATUS" \in r.modes => r.status \cap LeapFlags # {}
      BY <1>3 DEF LeapsStay
    <2> QED BY <1>1, <1>3, <2>1, <2>2
            DEF LeapInv, AdjBounded, Timevar, Calm
  <1> QED BY <1>2, <1>3

(* What an extrapolation can add: the counts so far at a rate of at most   *)
(* LongestTick per period.                                                 *)
LEMMA RateLimits ==
    ASSUME NEW c \in Nat, NEW n \in Nat, NEW d \in Nat \ {0},
           NEW p \in Nat \ {0}, NEW t \in Nat, NEW l \in Nat,
           c < p, p * n <= d * l
    PROVE  ((c + p * t) * n) \div d <= (t + 1) * l
  <1> DEFINE a == (c + p * t) * n
             q == a \div d
  <1>1. a \in Nat /\ a <= (t + 1) * (p * n)
    <2>1. c * n <= p * n
      <3>1. CASE n = 0
        BY <3>1
      <3>2. CASE n # 0
        BY <3>2, MulMono
      <3> QED BY <3>1, <3>2
    <2>2. /\ a = c * n + t * (p * n)
          /\ (t + 1) * (p * n) = t * (p * n) + p * n
      OBVIOUS
    <2>3. c * n \in Nat /\ t * (p * n) \in Nat /\ p * n \in Nat
      OBVIOUS
    <2> HIDE DEF a
    <2> QED BY <2>1, <2>2, <2>3
  <1>2. (t + 1) * (p * n) <= (t + 1) * (d * l)
    <2>1. p * n \in Int /\ d * l \in Int /\ t + 1 \in Nat \ {0}
      OBVIOUS
    <2>2. (p * n) * (t + 1) <= (d * l) * (t + 1)
      BY <2>1, MulMono
    <2> QED BY <2>1, <2>2
  <1>3. (t + 1) * (d * l) = d * ((t + 1) * l) /\ (t + 1) * l \in Nat
        /\ (t + 1) * (p * n) \in Nat
    OBVIOUS
  <1> HIDE DEF a
  <1>4. q \in Nat /\ d * q <= a
    BY <1>1, DivNat
  <1> HIDE DEF q
  <1> DEFINE m == (t + 1) * l
  <1>5. d * q <= d * m /\ m \in Nat /\ d * q \in Nat /\ d * m \in Nat
    <2>1. d * q \in Nat /\ d * ((t + 1) * l) \in Nat
      BY <1>3, <1>4
    <2> QED BY <1>1, <1>2, <1>3, <1>4, <2>1
  <1> HIDE DEF m
  <1>6. q * d < (m + 1) * d
    <2>1. q * d = d * q /\ (m + 1) * d = d * m + d
      BY <1>4, <1>5
    <2> QED BY <1>4, <1>5, <2>1
  <1>7. q < m + 1
    BY <1>4, <1>5, <1>6, MulCancel
  <1>8. q <= m
    BY <1>4, <1>5, <1>7
  <1> QED BY <1>8 DEF q, m, a

LEMMA AheadInit ==
    ASSUME HIRES, ClockInit PROVE AheadInv
  <1>1. Inv /\ ReadInv
    BY ClockInitInv
  <1>2. AdjBounded
    BY InitAdj DEF ClockInit
  <1>3. LeapInv
    BY DEF ClockInit, Init, LeapInv, LeapFlags, Calm
  <1>4. RateInv
    BY ClockTypes DEF ClockInit, RateInv
  <1>5. reads \in Nat /\ AheadBounded
    <2>1. lasttime = 0 /\ reads = 0 /\ tv_sec \in Nat /\ tv_nsec = 0
      BY KtimeAssumption DEF ClockInit, Init
    <2>2. tv_sec * NANOSECOND \in Nat
      BY <2>1, ClockTypes
    <2>3. Timevar \in Nat
      BY <2>1, <2>2 DEF Timevar
    <2>4. (MaxLate + 2) * LongestTick \in Nat
      BY ClockTypes
    <2> QED BY <2>1, <2>3, <2>4 DEF AheadBounded
  <1> QED BY <1>1, <1>2, <1>3, <1>4, <1>5 DEF AheadInv

(* The counter moves on: the clock stays, and the ticker is not later than *)
(* MaxLate ticks.                                                          *)
LEMMA CountKeeps ==
    ASSUME AheadInv, CountUp
    PROVE  AdjBounded' /\ LeapInv' /\ RateInv' /\ (reads \in Nat)'
           /\ AheadBounded'
  <1>1. /\ UNCHANGED <<tv_sec, tv_nsec, time_adj, time_status, time_state>>
        /\ UNCHANGED <<nanobase, pcc_numerator, pcc_denominator>>
        /\ UNCHANGED <<lasttime, reads>>
    BY DEF CountUp, kvars, rateVars, readVars, timevar, leapVars, loopVars,
           tickVars
  <1>2. Timevar' = Timevar /\ Calm' = Calm
    BY <1>1 DEF Timevar, Calm
  <1>3. AdjBounded' /\ LeapInv' /\ (reads \in Nat)' /\ AheadBounded'
    BY <1>1, <1>2 DEF AheadInv, AdjBounded, LeapInv, AheadBounded, Calm
  <1>4. count' < HRC_PERIOD /\ ticks' \in {ticks, ticks + 1}
        /\ (ticks' # ticks
                => ticks < (IF pcc_denominator = 0 THEN BootTicks ELSE 1)
                                + MaxLate)
    BY ClockTypes DEF CountUp, AheadInv, ReadInv
  <1>5. /\ pcc_denominator = 0 => ticks' >= BootTicks
        /\ pcc_denominator # 0 => ticks' <= MaxLate + 1
    <2>1. ticks \in Nat /\ MaxLate \in Nat /\ BootTicks \in Nat
      BY ClockTypes DEF AheadInv, ReadInv
    <2> QED BY <1>4, <2>1 DEF AheadInv, RateInv
  <1> QED BY <1>1, <1>2, <1>3, <1>4, <1>5 DEF AheadInv, RateInv

(* A read is a nanosecond past the one before it, or what the counts since *)
(* the last run of the ticker add at that rate.                            *)
LEMMA ReadKeeps ==
    ASSUME HIRES, AheadInv, nano_time
    PROVE  AdjBounded' /\ LeapInv' /\ RateInv' /\ (reads \in Nat)'
           /\ AheadBounded'
  <1>1. /\ UNCHANGED <<tv_sec, tv_nsec, time_adj, time_status, time_state>>
        /\ UNCHANGED <<nanobase, pcc_numerator, pcc_denominator>>
        /\ UNCHANGED <<count, ticks>>
        /\ reads' = reads + 1 /\ reads \in Nat
    BY DEF AheadInv, nano_time, kvars, rateVars, counterVars, timevar,
           leapVars, loopVars, tickVars
  <1>2. Timevar' = Timevar /\ Calm' = Calm
    BY <1>1 DEF Timevar, Calm
  <1>3. AdjBounded' /\ LeapInv' /\ RateInv' /\ (reads \in Nat)'
    BY <1>1, <1>2 DEF AheadInv, AdjBounded, LeapInv, RateInv, Calm
  <1> DEFINE ahead == (MaxLate + 2) * LongestTick
  <1>4. /\ ahead \in Nat /\ lasttime \in Int /\ Timevar \in Int
        /\ ticks \in Nat /\ MaxLate \in Nat /\ LongestTick \in Nat
    BY ClockTypes, TimevarType DEF AheadInv, ReadInv
  <1>5. Calm => lasttime <= Timevar + ahead + reads
    BY DEF AheadInv, AheadBounded, Calm
  <1>6. ASSUME Calm PROVE lasttime' <= Timevar + ahead + reads + 1
    <2>1. CASE pcc_denominator = 0
      <3>1. lasttime' = lasttime
        BY <2>1 DEF nano_time
      <3> HIDE DEF ahead
      <3> QED BY <1>1, <1>4, <1>5, <1>6, <3>1
    <2>2. CASE pcc_denominator # 0
      <3>1. lasttime' = ForwardOnly(Extrapolated) /\ Extrapolated \in Int
        BY <2>2, ExtrapolatedType DEF nano_time, AheadInv
      <3>2. Extrapolated <= Timevar + ahead
        <4> DEFINE e == ((count + HRC_PERIOD * ticks) * pcc_numerator)
                            \div pcc_denominator
        <4>1. Extrapolated = Timevar + e /\ e \in Int
          <5>1. nanobase = Timevar
            BY <2>2 DEF AheadInv, RateInv
          <5>2. /\ count \in Nat /\ HRC_PERIOD \in Nat
                /\ pcc_denominator \in Nat \ {0} /\ pcc_numerator \in Int
            BY <2>2, ClockTypes DEF AheadInv, ReadInv
          <5>3. (count + HRC_PERIOD * ticks) * pcc_numerator \in Int
            BY <1>4, <5>2
          <5>4. \A a \in Int, d \in Nat \ {0} : a \div d \in Int
            OBVIOUS
          <5>5. e \in Int
            BY <5>2, <5>3, <5>4
          <5> QED BY <5>1, <5>5 DEF Extrapolated, getPcc
        <4>2. e <= (ticks + 1) * LongestTick
          <5>1. /\ count \in Nat /\ count < HRC_PERIOD
                /\ HRC_PERIOD \in Nat \ {0} /\ pcc_numerator \in Nat
                /\ pcc_denominator \in Nat \ {0}
                /\ HRC_PERIOD * pcc_numerator
                        <= pcc_denominator * LongestTick
            BY <1>6, <2>2, ClockTypes DEF AheadInv, ReadInv, RateInv
          <5> QED BY <1>4, <5>1, RateLimits
        <4>3. (ticks + 1) * LongestTick <= ahead
          <5>1. ticks + 1 <= MaxLate + 2
            BY <1>4, <2>2 DEF AheadInv, RateInv
          <5>2. CASE LongestTick = 0
            BY <1>4, <5>2
          <5>3. CASE LongestTick # 0
            BY <1>4, <5>1, <5>3, MulMono
          <5> QED BY <5>2, <5>3
        <4>4. (ticks + 1) * LongestTick \in Int
          BY <1>4
        <4> HIDE DEF e, ahead
        <4> QED BY <1>4, <4>1, <4>2, <4>3, <4>4
      <3> HIDE DEF ahead
      <3> QED BY <1>1, <1>4, <1>5, <1>6, <3>1, <3>2 DEF ForwardOnly
    <2> QED BY <2>1, <2>2
  <1>7. AheadBounded'
    <2> HIDE DEF ahead
    <2>1. Calm => lasttime' <= Timevar + ahead + (reads + 1)
      BY <1>1, <1>4, <1>6
    <2>2. Calm => lasttime' <= Timevar' + ahead + reads'
      BY <1>1, <1>2, <2>1
    <2> QED BY <1>1, <2>2 DEF AheadBounded, Calm, ahead
  <1> QED BY <1>3, <1>7

(* The ticker takes the rate from what the clock gained since it last ran, *)
(* or, when it runs for the first time, from the time of day.              *)
LEMMA TickerKeeps ==
    ASSUME HIRES, BootIsLong, AheadInv, ticker_body, Inv'
    PROVE  AdjBounded' /\ LeapInv' /\ RateInv' /\ (reads \in Nat)'
           /\ AheadBounded'
  <1>1. /\ UNCHANGED <<count, lasttime, reads>>
        /\ pcc_denominator' = HRC_PERIOD * ticks /\ ticks' = 0
        /\ pcc_numerator' = (Timevar' - nanobase) % ULONG
        /\ nanobase' = Timevar' /\ Hardclock
    BY DEF ticker_body, readVars, PccPeriod, Numerator
  <1>2. /\ LeapInv' /\ AdjBounded'
        /\ Calm' => Calm /\ Timevar' = Timevar + TickUpdate
    BY <1>1, HardclockKeeps DEF AheadInv
  <1>3. TickUpdate \in 0 .. LongestTick
    BY TickAtMost DEF AheadInv
  <1>4. /\ LongestTick \in Nat /\ MaxLate \in Nat /\ BootTicks \in Nat
        /\ HRC_PERIOD \in Nat \ {0} /\ ULONG \in Nat \ {0}
        /\ ticks \in Nat \ {0} /\ Timevar \in Int /\ Timevar' \in Int
        /\ nanobase \in Int /\ lasttime \in Int /\ reads \in Nat
    <2>1. Timevar' \in Int
      <3>1. tv_sec' \in Int /\ tv_nsec' \in Int /\ NANOSECOND \in Int
        BY TimexAssumption DEF Inv, TypeOK
      <3> QED BY <3>1 DEF Timevar
    <2> QED BY <2>1, ClockTypes, TimevarType
            DEF ticker_body, AheadInv, ReadInv
  <1>5. pcc_denominator' # 0
    BY <1>1, <1>4
  <1>6. ASSUME Calm'
        PROVE  /\ pcc_numerator' \in Nat
               /\ HRC_PERIOD * pcc_numerator'
                        <= pcc_denominator' * LongestTick
    <2> DEFINE gained == Timevar' - nanobase
               n == gained % ULONG
    <2>0. gained \in Int
      BY <1>4
    <2>1. n \in Nat /\ n <= ULONG - 1
      <3> HIDE DEF gained
      <3> QED BY <1>4, <2>0
    <2>2. n <= ticks * LongestTick
      <3>1. CASE pcc_denominator = 0
        <4>1. ticks >= BootTicks
          BY <3>1 DEF AheadInv, RateInv
        <4>2. BootTicks * LongestTick <= ticks * LongestTick
          <5>1. CASE LongestTick = 0
            BY <1>4, <5>1
          <5>2. CASE LongestTick # 0
            BY <1>4, <4>1, <5>2, MulMono
          <5> QED BY <5>1, <5>2
        <4>3. BootTicks * LongestTick \in Nat /\ ticks * LongestTick \in Nat
          BY <1>4
        <4> HIDE DEF n
        <4> QED BY <1>4, <2>1, <4>2, <4>3 DEF BootIsLong
      <3>2. CASE pcc_denominator # 0
        <4>1. gained = TickUpdate
          BY <1>2, <1>3, <1>4, <1>6, <3>2 DEF AheadInv, RateInv
        <4>2. ASSUME NEW u \in Nat, NEW m \in Nat \ {0} PROVE u % m <= u
          OBVIOUS
        <4>3. n <= TickUpdate
          <5>1. TickUpdate \in Nat
            BY <1>3, <1>4
          <5> HIDE DEF gained
          <5> QED BY <1>4, <4>1, <4>2, <5>1
        <4>4. LongestTick <= ticks * LongestTick
          <5>1. CASE LongestTick = 0
            BY <1>4, <5>1
          <5>2. CASE LongestTick # 0
            <6>1. 1 * LongestTick <= ticks * LongestTick
              BY <1>4, <5>2, MulMono
            <6> QED BY <1>4, <6>1
          <5> QED BY <5>1, <5>2
        <4>5. ticks * LongestTick \in Nat
          BY <1>4
        <4> HIDE DEF n
        <4> QED BY <1>3, <1>4, <2>1, <4>3, <4>4, <4>5
      <3> QED BY <3>1, <3>2
    <2> HIDE DEF n
    <2>3. n * HRC_PERIOD <= (ticks * LongestTick) * HRC_PERIOD
      <3>1. ticks * LongestTick \in Int
        BY <1>4
      <3> QED BY <1>4, <2>1, <2>2, <3>1, MulMono
    <2>4. /\ n * HRC_PERIOD = HRC_PERIOD * n
          /\ (ticks * LongestTick) * HRC_PERIOD
                = (HRC_PERIOD * ticks) * LongestTick
      BY <1>4, <2>1
    <2>5. pcc_numerator' = n
      BY <1>1 DEF n
    <2>6. HRC_PERIOD * n <= (HRC_PERIOD * ticks) * LongestTick
      BY <2>3, <2>4
    <2> QED BY <1>1, <2>1, <2>5, <2>6
  <1>7. RateInv'
    <2>1. count' < HRC_PERIOD
      BY <1>1 DEF AheadInv, RateInv
    <2>2. 0 <= MaxLate + 1
      BY <1>4
    <2> QED BY <1>1, <1>5, <1>6, <2>1, <2>2 DEF RateInv
  <1>8. AheadBounded'
    <2> DEFINE ahead == (MaxLate + 2) * LongestTick
    <2>1. ahead \in Nat
      BY <1>4
    <2>2. Calm => lasttime <= Timevar + ahead + reads
      BY DEF AheadInv, AheadBounded, Calm
    <2> HIDE DEF ahead
    <2>3. Calm' => lasttime <= Timevar' + ahead + reads
      BY <1>2, <1>3, <1>4, <2>1, <2>2
    <2>4. Calm' => lasttime' <= Timevar' + ahead + reads'
      BY <1>1, <2>3
    <2> QED BY <2>4 DEF AheadBounded, Calm, ahead
  <1> QED BY <1>1, <1>2, <1>4, <1>7, <1>8

LEMMA RequestKeeps ==
    ASSUME NoLeaps \/ LeapsStay, AheadInv, Adjust
    PROVE  AdjBounded' /\ LeapInv' /\ RateInv' /\ (reads \in Nat)'
           /\ AheadBounded'
  <1>1. UNCHANGED <<nanobase, pcc_numerator, pcc_denominator, count, ticks,
                    lasttime, reads>>
    BY DEF Adjust, cvars, rateVars, readVars, counterVars
  <1>2. LeapInv' /\ AdjBounded' /\ (Calm' => Calm) /\ Timevar' = Timevar
    <2>1. PICK r \in Requests : AdjTime(r)
      BY DEF Adjust
    <2> QED BY <2>1, AdjustKeeps DEF AheadInv
  <1>3. RateInv'
    BY <1>1, <1>2 DEF AheadInv, RateInv
  <1>4. AheadBounded'
    <2>1. Calm => lasttime <= Timevar + (MaxLate + 2) * LongestTick + reads
      BY DEF AheadInv, AheadBounded, Calm
    <2>2. Calm' => lasttime' <= Timevar' + (MaxLate + 2) * LongestTick + reads'
      BY <1>1, <1>2, <2>1
    <2> QED BY <2>2 DEF AheadBounded, Calm
  <1> QED BY <1>1, <1>2, <1>3, <1>4 DEF AheadInv

LEMMA AheadInvStep ==
    ASSUME HIRES, BootIsLong, NoLeaps \/ LeapsStay, AheadInv,
           [ClockNext]_<<kvars, cvars>>
    PROVE  AheadInv'
  <1>1. Inv' /\ ReadInv'
    BY ClockInvStep DEF AheadInv
  <1>2. AdjBounded' /\ LeapInv' /\ RateInv' /\ (reads \in Nat)'
        /\ AheadBounded'
    <2>1. CASE CountUp
      BY <2>1, CountKeeps
    <2>2. CASE ticker_body
      BY <1>1, <2>2, TickerKeeps
    <2>3. CASE nano_time
      BY <2>3, ReadKeeps
    <2>4. CASE Adjust
      BY <2>4, RequestKeeps
    <2>5. CASE UNCHANGED <<kvars, cvars>>
      <3>1. UNCHANGED <<tv_sec, tv_nsec, time_adj, time_status, time_state,
                        nanobase, pcc_numerator, pcc_denominator, count,
                        ticks, lasttime, reads>>
        BY <2>5 DEF kvars, cvars, rateVars, readVars, counterVars, timevar,
                    leapVars, loopVars, tickVars
      <3>2. Timevar' = Timevar /\ Calm' = Calm
        BY <3>1 DEF Timevar, Calm
      <3> QED BY <3>1, <3>2
              DEF AheadInv, AdjBounded, LeapInv, RateInv, AheadBounded, Calm
    <2> QED BY <2>1, <2>2, <2>3, <2>4, <2>5 DEF ClockNext
  <1> QED BY <1>1, <1>2 DEF AheadInv

(* To keep reads monotonic costs no more than AheadBounded says, whatever  *)
(* is done to the rate of the clock and whenever reads come.               *)
THEOREM AheadBoundedHolds ==
    HIRES /\ BootIsLong /\ (NoLeaps \/ LeapsStay)
        => (ClockSpec => []AheadBounded)
  <1> SUFFICES ASSUME HIRES, BootIsLong, NoLeaps \/ LeapsStay
               PROVE  ClockSpec => []AheadBounded
    OBVIOUS
  <1>1. ClockInit => AheadInv
    BY AheadInit
  <1>2. AheadInv /\ [ClockNext]_<<kvars, cvars>> => AheadInv'
    BY AheadInvStep
  <1>3. AheadInv => AheadBounded
    BY DEF AheadInv
  <1> QED BY <1>1, <1>2, <1>3, PTL DEF ClockSpec

(***************************************************************************)
(* Without the counter.  nano_time() then returns what the ticker last     *)
(* copied from TIMEVAR, so that it can only go back if TIMEVAR does.       *)
(***************************************************************************)
(* Nothing has been read that is ahead of the clock, nor of the ticker.    *)
TickReadInv ==
    /\ Inv /\ AdjBounded /\ LeapInv
    /\ pcc_denominator = 0 /\ nanobase \in Int /\ returned \in Int
    /\ returned <= nanobase /\ nanobase <= Timevar

LEMMA TickReadInit == ASSUME ClockInit PROVE TickReadInv
  <1>1. Inv /\ AdjBounded
    BY ClockInitInv, InitAdj DEF ClockInit
  <1>2. LeapInv
    BY DEF ClockInit, Init, LeapInv, LeapFlags, Calm
  <1>3. Timevar >= 0
    <2>1. tv_sec \in Nat /\ tv_nsec = 0 /\ NANOSECOND \in Nat
      BY KtimeAssumption, ClockTypes DEF ClockInit, Init
    <2>2. tv_sec * NANOSECOND \in Nat
      BY <2>1
    <2> QED BY <2>1, <2>2 DEF Timevar
  <1>4. nanobase = 0 /\ returned = 0 /\ pcc_denominator = 0
    BY DEF ClockInit
  <1> QED BY <1>1, <1>2, <1>3, <1>4 DEF TickReadInv

LEMMA TickReadStep ==
    ASSUME ~HIRES, NoLeaps, TickReadInv, [ClockNext]_<<kvars, cvars>>
    PROVE  TickReadInv'
  <1>1. Inv' /\ Timevar \in Int
    BY ClockStep, NextInv, TimevarType DEF TickReadInv
  <1>2. CASE CountUp \/ nano_time
    <2>1. /\ UNCHANGED <<tv_sec, tv_nsec, time_adj, time_status, time_state>>
          /\ UNCHANGED <<nanobase, pcc_denominator>>
          /\ returned' \in {returned, nanobase}
      BY <1>2 DEF CountUp, nano_time, kvars, rateVars, readVars, timevar,
                  leapVars, loopVars, tickVars, TickReadInv
    <2>2. Timevar' = Timevar /\ AdjBounded' /\ LeapInv'
      BY <2>1 DEF Timevar, AdjBounded, LeapInv, Calm, TickReadInv
    <2> QED BY <1>1, <2>1, <2>2 DEF TickReadInv
  <1>3. CASE ticker_body
    <2>1. Hardclock /\ nanobase' = Timevar' /\ pcc_denominator' = 0
          /\ returned' = returned
      BY <1>3 DEF ticker_body, PccPeriod, readVars
    <2>2. LeapInv' /\ AdjBounded' /\ (Calm' => Timevar' = Timevar + TickUpdate)
      BY <2>1, HardclockKeeps DEF TickReadInv
    <2>3. Calm'
      BY <2>2 DEF LeapInv, Calm
    <2>4. TickUpdate \in Nat
      BY TickAtMost, ClockTypes DEF TickReadInv
    <2>5. Timevar' \in Int /\ Timevar' >= Timevar
      BY <1>1, <2>2, <2>3, <2>4
    <2> QED BY <1>1, <2>1, <2>2, <2>5 DEF TickReadInv
  <1>4. CASE Adjust
    <2>1. PICK r \in Requests : AdjTime(r)
      BY <1>4 DEF Adjust
    <2>2. LeapInv' /\ AdjBounded' /\ Timevar' = Timevar
      BY <2>1, AdjustKeeps DEF TickReadInv
    <2>3. UNCHANGED <<nanobase, pcc_denominator, returned>>
      BY <1>4 DEF Adjust, cvars, rateVars, readVars
    <2> QED BY <1>1, <2>2, <2>3 DEF TickReadInv
  <1>5. CASE UNCHANGED <<kvars, cvars>>
    <2>1. UNCHANGED <<tv_sec, tv_nsec, time_adj, time_status, time_state,
                      nanobase, pcc_denominator, returned>>
      BY <1>5 DEF kvars, cvars, rateVars, readVars, timevar, leapVars,
                  loopVars, tickVars
    <2>2. Timevar' = Timevar /\ AdjBounded' /\ LeapInv'
      BY <2>1 DEF Timevar, AdjBounded, LeapInv, Calm, TickReadInv
    <2> QED BY <1>1, <2>1, <2>2 DEF TickReadInv
  <1> QED BY <1>2, <1>3, <1>4, <1>5 DEF ClockNext

(* Without the counter no read is behind another either, for as long as no *)
(* leap is announced.  (A second that is inserted sets TIMEVAR back, and   *)
(* nothing keeps such a read from following it.)                           *)
THEOREM ReadsMonotonicByTick ==
    ~HIRES /\ NoLeaps => (ClockSpec => ReadsMonotonic)
  <1> SUFFICES ASSUME ~HIRES, NoLeaps PROVE ClockSpec => ReadsMonotonic
    OBVIOUS
  <1>1. ClockInit => TickReadInv
    BY TickReadInit
  <1>2. TickReadInv /\ [ClockNext]_<<kvars, cvars>> => TickReadInv'
    BY TickReadStep
  <1>3. TickReadInv /\ [ClockNext]_<<kvars, cvars>>
            => [nano_time => returned' >= returned]_<<kvars, cvars>>
    <2>1. ASSUME TickReadInv, nano_time PROVE returned' >= returned
      BY <2>1 DEF nano_time, TickReadInv
    <2> QED BY <2>1
  <1> QED BY <1>1, <1>2, <1>3, PTL DEF ClockSpec, ReadsMonotonic

=============================================================================
