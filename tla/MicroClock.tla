----------------------------- MODULE MicroClock -----------------------------
(***************************************************************************)
(* The generic clock reading of micro.c, as operators on its variables:    *)
(* each processor interpolates between ticks with its own process cycle    *)
(* counter (PCC), whose rate microset() measures against the clock about   *)
(* once a second.  A call runs at splsched or splextreme, so it is atomic. *)
(***************************************************************************)
EXTENDS Ktime

CONSTANTS
    NCPUS,          \* number of processors
    PCC_RANGE,      \* the counters are read modulo this: 2^PCC_WIDTH
    CPU_CLOCK       \* default rate of a counter (cycles/s)

ASSUME MicroAssumption == {NCPUS, PCC_RANGE, CPU_CLOCK} \subseteq Nat \ {0}

VARIABLES
    micro,          \* for each processor, what microset() keeps
    master_pcc,     \* master PCC at interrupt (ns)
    lasttime        \* last time returned

microVars == <<micro, master_pcc, lasttime>>

cpu == 0 .. NCPUS - 1

Time(sec, nsec) == [sec |-> sec, nsec |-> nsec]

TIMEVAR == Time(tv_sec, tv_nsec)

MicroInit ==
    /\ micro = [i \in cpu |->
                   [flag |-> FALSE, time |-> Time(0, 0), pcc |-> 0,
                    numer |-> 0, denom |-> 0, master |-> 0]]
    /\ master_pcc = 0
    /\ lasttime = Time(0, 0)

Carried(t) ==
    IF t.nsec >= NANOSECOND THEN Time(t.sec + 1, t.nsec - NANOSECOND) ELSE t

(***************************************************************************)
(* nano_time(), on processor i with its counter at pcc and TIMEVAR at t.   *)
(***************************************************************************)

(* Faulty: a counter that wraps is not corrected.                          *)
SincePcc_NoWrap(i, pcc) == pcc - micro[i].pcc

(* Cycles since the last microset().                                       *)
SincePcc(i, pcc) ==
    IF pcc < micro[i].pcc THEN pcc - micro[i].pcc + PCC_RANGE
    ELSE pcc - micro[i].pcc

(* Nanoseconds since then, less the seconds that TIMEVAR has counted.      *)
Accumulated(i, pcc, t) ==
    IF ~micro[i].flag THEN 0
    ELSE CDiv(SincePcc(i, pcc) * micro[i].numer, micro[i].denom)
            - (t.sec - micro[i].time.sec) * NANOSECOND

(* The time that falls between the last tick and the next one.             *)
Interpolated(i, pcc, t) ==
    LET nsec == micro[i].time.nsec + Accumulated(i, pcc, t)
        within == IF nsec < t.nsec THEN t.nsec
                  ELSE IF nsec > t.nsec + time_tick THEN t.nsec + time_tick
                  ELSE nsec
    IN  IF micro[i].flag THEN Carried(Time(t.sec, within)) ELSE t

(* Faulty: a reading that has fallen behind repeats the last one.          *)
StrictlyLater_Repeats(t) ==
    IF lasttime.sec = t.sec /\ lasttime.nsec > t.nsec THEN lasttime ELSE t

(* Later than the last time returned, unless that is a second ahead.       *)
StrictlyLater(t) ==
    LET sec == lasttime.sec - t.sec
        nsec == lasttime.nsec - t.nsec
        borrow == nsec < 0
        behind == IF borrow THEN nsec + NANOSECOND ELSE nsec
    IN  IF (IF borrow THEN sec - 1 ELSE sec) = 0
        THEN Carried(Time(t.sec, t.nsec + behind + 1))
        ELSE t

NanoTime(i, pcc, t) == StrictlyLater(Interpolated(i, pcc, t))

(* The call's effect, and its value: nanoseconds of the second by the PCC. *)
nano_time(i, pcc, t) == lasttime' = NanoTime(i, pcc, t)

NanoCount(i, pcc, t) == Accumulated(i, pcc, t) + micro[i].master

(***************************************************************************)
(* microset_from_saved(), on processor i.                                  *)
(***************************************************************************)
FirstReading(pcc, t, master) ==
    [flag |-> TRUE, time |-> t, pcc |-> pcc, numer |-> NANOSECOND,
     denom |-> CPU_CLOCK, master |-> master]

NextReading(m, pcc, t, master) ==
    LET numer == (t.sec - m.time.sec) * NANOSECOND + t.nsec - m.time.nsec
        denom == IF pcc < m.pcc THEN pcc - m.pcc + PCC_RANGE ELSE pcc - m.pcc
        keep == denom <= 0 \/ numer <= 0
    IN  [flag |-> TRUE, time |-> t, pcc |-> pcc, master |-> master,
         numer |-> IF keep THEN m.numer ELSE numer,
         denom |-> IF keep THEN m.denom ELSE denom]

microset(i, pcc, t, master) ==
    /\ master_pcc' = master
    /\ micro' = [micro EXCEPT ![i] =
                    IF @.flag THEN NextReading(@, pcc, t, master)
                    ELSE FirstReading(pcc, t, master)]
=============================================================================
