----------------------------- MODULE TproClock -----------------------------
(***************************************************************************)
(* The KSI/Odetics TPRO IRIG interface as the kernel's clock (tprotime.c). *)
(* IRIG tells the day of the year and the time of day; the year comes from *)
(* the system time, when it is set and when the day falls back.  Digits    *)
(* are left out: what the board sends is a day, the seconds of the day and *)
(* two status bits.  A day has DAY seconds and a year DAYS days, one more  *)
(* in the third year of each cycle of four.                                *)
(***************************************************************************)
EXTENDS Integers, FiniteSetsExt

CONSTANTS
    DAY,            \* seconds in a day
    DAYS,           \* days in a normal year
    MAXDIFF,        \* max tpro - system time difference (s)
    Leads,          \* how far the system time is ahead of IRIG (s)
    BoardTimes,     \* IRIG time when the system boots (s)
    MaxIrig         \* bound on IRIG time (s)

ASSUME TproAssumption ==
    /\ {DAY, DAYS} \subseteq Nat \ {0}
    /\ MAXDIFF \in Nat /\ MaxIrig \in Nat
    /\ Leads \subseteq Int /\ BoardTimes \subseteq Nat
    /\ \A t \in BoardTimes, ahead \in Leads : t + ahead >= 0

VARIABLES
    irig,           \* IRIG time, with its year (s)
    lead,           \* system time - IRIG time (s)
    mapped,         \* the registers have been mapped
    year_offset,    \* current year offset (s)
    lastday,        \* last day of year returned
    answer,         \* the seconds or the error that microtime() returned
    seen,           \* ghost: when the board was last heard or, before that,
                    \* the year last set (s)
    agreed          \* ghost: the year was set when both clocks had it

tproVars == <<irig, lead, mapped, year_offset, lastday, answer, seen, agreed>>

ENOSIG == -4
ENOSYNC == -3
EBADDATA == -2
EBADTIME == -1

DAY_YEAR == DAYS * DAY

yrtab == <<DAY_YEAR, DAY_YEAR, DAY_YEAR + DAY, DAY_YEAR>>

DAY_CYCLE == 4 * DAY_YEAR + DAY

(* clock_set(): the seconds to the beginning of the year.                  *)
Begin == <<0, yrtab[1], yrtab[1] + yrtab[2], yrtab[1] + yrtab[2] + yrtab[3]>>

YearOffset(t) ==
    t - (t % DAY_CYCLE)
        + Max({Begin[y] : y \in {x \in 1 .. 4 : Begin[x] <= t % DAY_CYCLE}})

(* The beginning of an IRIG year, by the calendar: 1972 is the first leap  *)
(* year.                                                                   *)
LeapYears(y) == (y + 1) \div 4

NewYear(y) == y * DAY_YEAR + LeapYears(y) * DAY

Year(t) == CHOOSE y \in 0 .. t : NewYear(y) <= t /\ t < NewYear(y + 1)

DayOfYear(t) == (t - NewYear(Year(t))) \div DAY + 1

TproInit ==
    /\ irig \in BoardTimes
    /\ lead \in Leads
    /\ mapped = FALSE
    /\ year_offset = 0
    /\ lastday = 0
    /\ answer = 0
    /\ seen = irig
    /\ agreed = FALSE

time == irig + lead

(* What the board sends: the time, or a day that there is not.             *)
Sent == [day |-> DayOfYear(irig), sec |-> irig % DAY]

BadData == [day |-> 0, sec |-> 0]

(***************************************************************************)
(* microtime().                                                            *)
(***************************************************************************)

(* Faulty: the day falling back is taken for a board that was reset.       *)
NewYearSeen_Never(day) == FALSE

NewYearSeen(day) == day < lastday

(* The year is set on the first call, whatever the board says, and when    *)
(* data that is in range shows the new year.                               *)
SetOffset(day, valid) ==
    IF ~mapped \/ (valid /\ NewYearSeen(day)) THEN YearOffset(time)
    ELSE year_offset

(* The years agree when the year is set, and as long as there is not most  *)
(* of a year between two readings.  There is no day to fall back from      *)
(* before the first: a new year between the setting and it is not noticed. *)
Agreed(day, valid) ==
    IF ~mapped \/ (valid /\ day < lastday) THEN Year(time) = Year(irig)
    ELSE /\ agreed
         /\ IF lastday = 0 THEN Year(irig) = Year(seen)
            ELSE irig - seen < DAY_YEAR - DAY

microtime(signal, sync, data) ==
    LET valid == signal /\ sync /\ data.day \in 1 .. DAYS + 1
        offset == SetOffset(data.day, valid)
        sec == data.sec + offset + (data.day - 1) * DAY
    IN  /\ mapped' = TRUE
        /\ year_offset' = offset
        /\ agreed' = Agreed(data.day, valid)
        /\ seen' = IF valid \/ ~mapped THEN irig ELSE seen
        /\ lastday' = IF valid THEN data.day ELSE lastday
        /\ answer' = IF ~signal THEN ENOSIG
                     ELSE IF ~sync THEN ENOSYNC
                     ELSE IF ~valid THEN EBADDATA
                     ELSE IF sec - time \notin -MAXDIFF .. MAXDIFF
                     THEN EBADTIME
                     ELSE sec
        /\ UNCHANGED <<irig, lead>>

(* settimeofday() calls clock_set().                                       *)
SetTime(ahead) ==
    /\ irig + ahead >= 0
    /\ lead' = ahead
    /\ year_offset' = YearOffset(irig + ahead)
    /\ agreed' = (Year(irig + ahead) = Year(irig))
    /\ seen' = IF lastday = 0 THEN irig ELSE seen
    /\ UNCHANGED <<irig, mapped, lastday, answer>>

Second ==
    /\ irig < MaxIrig
    /\ irig' = irig + 1
    /\ UNCHANGED <<lead, mapped, year_offset, lastday, answer, seen, agreed>>

TproNext ==
    \/ \E signal \in BOOLEAN, sync \in BOOLEAN, data \in {Sent, BadData} :
           microtime(signal, sync, data)
    \/ \E ahead \in Leads : SetTime(ahead)
    \/ Second

TproSpec == TproInit /\ [][TproNext]_tproVars

(***************************************************************************)
(* Properties.                                                             *)
(***************************************************************************)

(* Once the year has been set while the system and the board agreed on it, *)
(* every reading of a good signal returns the IRIG time, through all new   *)
(* years and leap years, however the readings fall; until the system time  *)
(* is behind when the board enters a new year, or the first year that the  *)
(* board enters comes before its first good reading.                       *)
AnswersIrig ==
    [][ microtime(TRUE, TRUE, Sent) /\ agreed'
            /\ lead \in -MAXDIFF .. MAXDIFF
            => answer' = irig ]_tproVars
=============================================================================
