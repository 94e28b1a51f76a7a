------------------------------ MODULE KernSim ------------------------------
(***************************************************************************)
(* The simulator of kern.c: the clock discipline, the PPS discipline and   *)
(* the interpolated clock in a closed loop.  It is a discrete event        *)
(* simulator with two entities, the tick interrupt and the PPS interrupt.  *)
(* Real time counts nanoseconds of the unsteered clock; the reference that *)
(* it is compared with is off by the phase and the frequency that the      *)
(* command line gives.  One iteration of the main loop is several steps    *)
(* here, between which nothing else runs.  Random walk, the phase file and *)
(* the output are left out.                                                *)
(***************************************************************************)
EXTENDS KtimePps, MicroClock, Sequences

CONSTANTS
    CommandLines,   \* the options that the simulator is started with
    cpu_clock       \* the rate of each processor's counter (cycles/s)

(* The fields are named for the variables that the switches set; pps is    *)
(* the -c switch, fll the -l switch.                                       *)
CommandLine ==
    [sim_phase : Int, sim_freq : Int, pps : BOOLEAN, fll : BOOLEAN,
     poll : Nat \ {0}, constant : 0 .. MAXTC, delmax : Nat, sim_end : Nat,
     master_cpu : cpu]

ASSUME SimAssumption ==
    /\ CommandLines \subseteq CommandLine
    /\ cpu_clock \in [cpu -> Nat]

VARIABLES
    cl,             \* the command line
    stage,          \* where the main loop is
    time_real,      \* real time (ns)
    time_tack,      \* next tick interrupt (ns)
    time_pps,       \* next PPS interrupt (ns)
    delta,          \* time correction (ns)
    cpu_intr,       \* current processor
    poll_interval,  \* poll counter
    fixcnt,         \* tick counter of microset()
    delay           \* the delay line, oldest first: delay[] from delptr on

simVars == <<stage, time_real, time_tack, time_pps, delta, cpu_intr,
             poll_interval, fixcnt, delay>>
svars == <<pvars, microVars, cl, simVars>>

(* What Ktime calls its status before the first ntp_adjtime().             *)
SimInit ==
    /\ PpsInit
    /\ MicroInit
    /\ cl \in CommandLines
    /\ stage = "adjtime"
    /\ time_real = 0
    /\ time_tack = 0
    /\ time_pps = 0
    /\ delta = 0
    /\ cpu_intr = 0
    /\ poll_interval = 0
    /\ fixcnt = 0
    /\ delay = [d \in 1 .. cl.delmax |-> 0]

(* The processor cycle counters at a real time, as nano_time() sees them.  *)
rpcc(i, now) == ((cpu_clock[i] * now) \div NANOSECOND) % PCC_RANGE

(* chime(): read the system clock; TIMEVAR is at t.                        *)
chime(now, t) == nano_time(cpu_intr, rpcc(cpu_intr, now), t)

Nanoseconds(t) == t.sec * NANOSECOND + t.nsec

(* churn(): advance to a real time and read the clock.  The result is the  *)
(* error of the clock against the reference.                               *)
Reference(now) == now + cl.sim_phase + CDiv(cl.sim_freq * now, NANOSECOND)

churn(now, t) ==
    /\ time_real' = now
    /\ chime(now, t)
    /\ delta' = Reference(now) - Nanoseconds(lasttime')

AdjtimeRequest ==
    [modes |-> {"MOD_STATUS", "MOD_NANO"}
                   \cup (IF cl.pps THEN {"MOD_PPSMAX"} ELSE {})
                   \cup (IF cl.constant > 0 THEN {"MOD_TIMECONST"} ELSE {}),
     status |-> {"STA_PLL"}
                   \cup (IF cl.pps THEN {"STA_PPSFREQ", "STA_PPSTIME"} ELSE {})
                   \cup (IF cl.fll THEN {"STA_FLL"} ELSE {}),
     constant |-> cl.constant, offset |-> 0, freq |-> 0, maxerror |-> 0,
     esterror |-> 0, shift |-> PPS_FAVGMAX]

(***************************************************************************)
(* The steps of main().                                                    *)
(***************************************************************************)
KeepTime == UNCHANGED <<time_real, time_tack, time_pps, delta>>
KeepRest == Others /\ UNCHANGED <<silence, cl>>

(* The ntp_adjtime() call that the switches prepare, and churn(0).         *)
Adjtime ==
    /\ stage = "adjtime"
    /\ AdjTime(AdjtimeRequest)
    /\ churn(0, TIMEVAR)
    /\ stage' = "first"
    /\ UNCHANGED <<time_tack, time_pps, cpu_intr, poll_interval, fixcnt,
                   delay, micro, master_pcc>>
    /\ KeepRest

(* The correction that hardupdate() gets, through the delay line if any.   *)
Correction == IF cl.delmax = 0 THEN delta ELSE Head(delay)

Updated ==
    /\ Discipline(Correction)
    /\ delay' = IF cl.delmax = 0 THEN delay ELSE Append(Tail(delay), delta)
    /\ chime(time_real, TIMEVAR)
    /\ UNCHANGED <<delta, cpu_intr, micro, master_pcc>>
    /\ KeepRest

FirstUpdate ==
    /\ stage = "first"
    /\ Updated
    /\ stage' = "event"
    /\ time_tack' = time_real + time_tick
    /\ time_pps' = time_real + NANOSECOND
    /\ UNCHANGED <<time_real, poll_interval, fixcnt>>

Running == stage = "event" /\ time_real < cl.sim_end

(* ntp_tick_adjust(), churn() and, past the end of the second,             *)
(* second_overflow().                                                      *)
TickInterrupt ==
    /\ Running
    /\ time_pps > time_tack
    /\ churn(time_tack, Time(tv_sec, TickAdjusted))
    /\ \/ Tick /\ stage' = "fix"
       \/ SecondOverflow /\ stage' = "rollover"
    /\ UNCHANGED <<time_tack, time_pps, cpu_intr, poll_interval, fixcnt,
                   delay, micro, master_pcc>>
    /\ KeepRest

(* PPS interrupts and the reads after a rollover go to the first processor *)
(* if the tick does, and to any otherwise.                                 *)
AnyProcessor == cpu_intr' \in (IF cl.master_cpu = 0 THEN {0} ELSE cpu)

Rollover ==
    /\ stage = "rollover"
    /\ AnyProcessor
    /\ nano_time(cpu_intr', rpcc(cpu_intr', time_real), TIMEVAR)
    /\ poll_interval' = (poll_interval + 1) % cl.poll
    /\ stage' = IF poll_interval' = 0 THEN "update" ELSE "fix"
    /\ UNCHANGED <<kvars, fixcnt, delay, micro, master_pcc>>
    /\ KeepTime
    /\ KeepRest

Update ==
    /\ stage = "update"
    /\ Updated
    /\ stage' = "fix"
    /\ UNCHANGED <<time_real, time_tack, time_pps, poll_interval, fixcnt>>

(* After each tick, one of the processors in turn calls microset().        *)
Fix ==
    /\ stage = "fix"
    /\ cpu_intr' = IF fixcnt < NCPUS THEN fixcnt ELSE cl.master_cpu
    /\ IF fixcnt < NCPUS
       THEN microset(fixcnt, rpcc(fixcnt, time_real), TIMEVAR,
                     IF fixcnt = cl.master_cpu THEN 0
                     ELSE NanoCount(cpu_intr, rpcc(cpu_intr, time_real),
                                    TIMEVAR))
       ELSE UNCHANGED <<micro, master_pcc>>
    /\ fixcnt' = IF fixcnt + 1 >= hz THEN 0 ELSE fixcnt + 1
    /\ time_tack' = time_real + time_tick
    /\ stage' = "event"
    /\ UNCHANGED <<kvars, lasttime, time_real, time_pps, delta, poll_interval,
                   delay>>
    /\ KeepRest

(***************************************************************************)
(* A PPS interrupt.  The pulse is stamped with the error of the clock, in  *)
(* the second of the last reading.                                         *)
(***************************************************************************)
PulseStamp(now) ==
    LET nsec == -(Reference(now) - Nanoseconds(lasttime'))
    IN  Rounded(Stamp(lasttime'.sec + nsec \div NANOSECOND,
                      nsec % NANOSECOND))

PulseCount(now) ==
    (NanoCount(cpu_intr, rpcc(cpu_intr, now), TIMEVAR)
        - (Reference(now) - now)) % NANOSECOND

PpsEnabled == {"STA_PPSFREQ", "STA_PPSTIME"} \cap time_status # {}

PpsInterrupt ==
    /\ Running
    /\ time_pps <= time_tack
    /\ churn(time_pps, TIMEVAR)
    /\ AnyProcessor
    /\ IF PpsEnabled
       THEN /\ \E bits \in Flags :
                   /\ hardpps(PulseStamp(time_pps), PulseCount(time_pps), bits)
                   /\ time_status' = PulseStatus(time_status, bits)
            /\ time_offset' = OffsetSet(PulseStamp(time_pps), time_offset)
            /\ pps_valid' = PPS_VALID
            /\ UNCHANGED <<timevar, leapVars, time_constant, time_reftime,
                           errorVars, tickVars, pps_shiftmax, drift>>
       ELSE UNCHANGED <<kvars, drift>> /\ Others
    /\ time_pps' = time_pps + NANOSECOND
    /\ UNCHANGED <<stage, time_tack, poll_interval, fixcnt, delay, micro,
                   master_pcc, silence, cl>>

SimNext ==
    \/ Adjtime
    \/ FirstUpdate
    \/ TickInterrupt
    \/ Rollover
    \/ Update
    \/ Fix
    \/ PpsInterrupt

SimSpec == SimInit /\ [][SimNext]_svars

(***************************************************************************)
(* Properties.                                                             *)
(***************************************************************************)

(* Every reading of the clock, on whatever processor and however the loop  *)
(* is slewing it, is later than the one before: nano_time() promises it,   *)
(* and the tick handler may well be behind what has been read.             *)
After(t, u) == t.sec > u.sec \/ (t.sec = u.sec /\ t.nsec > u.nsec)

ReadsLater == [][stage # "fix" => After(lasttime', lasttime)]_svars
=============================================================================
