----------------------------- MODULE RtemsClock -----------------------------
(***************************************************************************)
(* Reading the clock between ticks: ticker_body() and nano_time() of       *)
(* rtemsdep.c over the high-resolution counter of pcc.h, composed with the *)
(* kernel clock of Ktime.  ticker_body() measures how far TIMEVAR and the  *)
(* counter went since it last ran, and nano_time() extrapolates TIMEVAR at *)
(* that rate.  The ticker may run late, by whole ticks of the system.      *)
(* Both run under the clock lock, so each is one action here; the counter  *)
(* moves on between them.                                                  *)
(* Operators named X_Fault are faulty variants of X, which the properties  *)
(* below are shown to reject; nothing uses them.                           *)
(***************************************************************************)
EXTENDS Ktime

CONSTANTS
    HRC_PERIOD,     \* counts of the counter in a tick of the system
    HIRES,          \* is there a high-resolution counter?
    ULONG,          \* an unsigned long is in 0 .. ULONG - 1
    BootTicks,      \* ticks of the system before the clock is started
    MaxLate,        \* bound: ticks by which the ticker is late
    MaxReads        \* bound: reads of the clock

ASSUME ClockAssumption ==
    /\ {HRC_PERIOD, ULONG, BootTicks} \subseteq Nat \ {0}
    /\ {MaxLate, MaxReads} \subseteq Nat
    /\ HIRES \in BOOLEAN

VARIABLES
    nanobase,           \* TIMEVAR when ticker_body() last ran (ns)
    pcc_numerator, pcc_denominator,
    lasttime,           \* the last time that nano_time() extrapolated (ns)
    count,              \* the counter, since the last tick of the system
    ticks,              \* ticks of the system since setPccBase()
    reads,              \* reads so far
    returned            \* what the last of them returned (ns)

rateVars == <<nanobase, pcc_numerator, pcc_denominator>>
readVars == <<lasttime, reads, returned>>
counterVars == <<count, ticks>>
cvars == <<rateVars, readVars, counterVars>>

Timevar == tv_sec * NANOSECOND + tv_nsec

ClockInit ==
    /\ Init
    /\ nanobase = 0 /\ pcc_numerator = 0 /\ pcc_denominator = 0
    /\ lasttime = 0 /\ reads = 0 /\ returned = 0
    /\ count = 0 /\ ticks = BootTicks

(***************************************************************************)
(* The counter of pcc.h, and the interrupt that counts the system's ticks. *)
(***************************************************************************)
getPcc == IF HIRES THEN count + HRC_PERIOD * ticks ELSE 0

PccPeriod == IF HIRES THEN HRC_PERIOD * ticks ELSE 0

CountUp ==
    /\ IF count + 1 < HRC_PERIOD
       THEN count' = count + 1 /\ UNCHANGED ticks
       ELSE /\ ticks < (IF pcc_denominator = 0 THEN BootTicks ELSE 1) + MaxLate
            /\ count' = 0 /\ ticks' = ticks + 1
    /\ UNCHANGED <<kvars, rateVars, readVars>>

(***************************************************************************)
(* ticker_body()                                                           *)
(***************************************************************************)

(* Faulty: the seconds are left out.                                       *)
Numerator_Nsec == ((Timevar' % NANOSECOND) - (nanobase % NANOSECOND)) % ULONG

Numerator == (Timevar' - nanobase) % ULONG

ticker_body ==
    /\ ticks >= 1
    /\ Hardclock
    /\ pcc_denominator' = PccPeriod
    /\ ticks' = 0
    /\ pcc_numerator' = Numerator
    /\ nanobase' = Timevar'
    /\ UNCHANGED <<count, readVars>>

(***************************************************************************)
(* nano_time()                                                             *)
(***************************************************************************)
Extrapolated ==
    nanobase + (getPcc * pcc_numerator) \div pcc_denominator

(* Faulty: what is extrapolated is returned as it is.                      *)
ForwardOnly_Not(time) == time

ForwardOnly(time) == IF time <= lasttime THEN lasttime + 1 ELSE time

nano_time ==
    /\ reads < MaxReads
    /\ reads' = reads + 1
    /\ IF pcc_denominator = 0
       THEN returned' = nanobase /\ UNCHANGED lasttime
       ELSE /\ lasttime' = ForwardOnly(Extrapolated)
            /\ returned' = lasttime'
    /\ UNCHANGED <<kvars, rateVars, counterVars>>

(* ntp_adjtime(), with the requests of Ktime.                              *)
Adjust ==
    /\ \E r \in Requests : AdjTime(r)
    /\ UNCHANGED cvars

ClockNext == CountUp \/ ticker_body \/ nano_time \/ Adjust

ClockSpec == ClockInit /\ [][ClockNext]_<<kvars, cvars>>

(***************************************************************************)
(* Properties.                                                             *)
(***************************************************************************)
(* ktime.c:446: "The nano_time() routine or external clock driver will     *)
(* insure that reported time is always monotonic": across ticks that are   *)
(* late, changes of the rate, and leap seconds, no read is behind the one  *)
(* before it.                                                              *)
ReadsMonotonic == [][nano_time => returned' >= returned]_<<kvars, cvars>>

(* To keep reads monotonic costs little: in the absence of leaps the time  *)
(* that was read is ahead of the clock by no more than the ticks by which  *)
(* the ticker is late, the one that it is due for and the one that has     *)
(* begun, and a nanosecond for each read.                                  *)
LongestTick == (NANOSECOND + MAXPHASE + MAXFREQ) \div hz + 1

AheadBounded ==
    time_state \notin {"TIME_OOP", "TIME_WAIT"} =>
        lasttime <= Timevar + (MaxLate + 2) * LongestTick + reads

(* api.htm:80: "During an inserted leap second the system clock will appear*)
(* to run one unit forward each time it is read, regardless of its prior   *)
(* value."  At least it must not leave the second that is repeated, other  *)
(* than by a unit.  The tick that begins the leap second sets TIMEVAR back *)
(* by a second, the unsigned numerator wraps, and reads until the next     *)
(* tick run ahead by seconds.                                              *)
LeapReads ==
    [][ nano_time /\ time_state = "TIME_OOP" =>
            \/ returned' < (tv_sec + 1) * NANOSECOND
            \/ returned' = returned + 1 ]_<<kvars, cvars>>
=============================================================================
