----------------------------- MODULE NtpDaemon -----------------------------
(***************************************************************************)
(* The NTP daemon of rtemsdep.c, its poll loop and its delay filter, and   *)
(* an application that calls rtemsNtpSetPollInterval(), composed with the  *)
(* kernel clock of Ktime.  The daemon and the application share nothing    *)
(* but the clock; between two of its calls each works on its own copy of   *)
(* the status word.  The lengths of the waits are left open, and the error *)
(* estimates are left out of the requests.                                 *)
(* Operators named X_Fault are faulty variants of X, which the properties  *)
(* below are shown to reject; nothing uses them.                           *)
(***************************************************************************)
EXTENDS Ktime, FiniteSets

CONSTANTS
    MAX_FAILED_SYNCS,
    ULONG,          \* an unsigned long is in 0 .. ULONG - 1
    Delays,         \* the round-trip delays that answers may have
    Outages,        \* may the server fall silent?
    LeapDay,        \* the day at whose end a leap second is due, the last
                    \* of June or December
    LeapKinds,      \* what may be due then: "LEAP_INS", "LEAP_DEL", "LEAP_NO"
    PollSeconds,    \* the arguments of rtemsNtpSetPollInterval()
    MaxSettings,    \* bound: calls of rtemsNtpSetPollInterval()
    MaxAge          \* assumed: the seconds within which a poll succeeds, in
                    \* a run whose clock ticks

ASSUME DaemonAssumption ==
    /\ {MAX_FAILED_SYNCS, LeapDay, MaxSettings, MaxAge} \subseteq Nat
    /\ ULONG \in Nat \ {0} /\ Delays \subseteq 0 .. ULONG - 1
    /\ Outages \in BOOLEAN
    /\ LeapKinds \subseteq {"LEAP_INS", "LEAP_DEL", "LEAP_NO"}
    /\ PollSeconds \subseteq Int

VARIABLES
    dpc,            \* where the daemon is in its code
    ntv,            \* its copy of the status word
    failedsyncs, retry, shots,
    data,           \* the two answers it keeps
    best, try,      \* the slot of the better one, and the other
    avgDelay,       \* twice the average delay
    apc, app,       \* the application, and its copy of the status word
    settings,       \* its calls of rtemsNtpSetPollInterval() so far
    reachable,      \* does the server answer?
    leapKind,       \* what is due at the end of LeapDay
    age,            \* seconds since a poll succeeded
    silent,         \* consecutive polls without an answer, limited to
                    \* MAX_FAILED_SYNCS + 1
    heard,          \* delays of the answers of this round of shots
    dropped         \* the last delay filtered out, and how often in a row

answerVars == <<data, best, try>>
pollVars == <<failedsyncs, retry, shots, answerVars, avgDelay>>
appVars == <<apc, app, settings>>
server == <<reachable, leapKind>>
history == <<silent, heard, dropped>>
dvars == <<dpc, ntv, pollVars, appVars, server, age, history>>
allvars == <<kvars, dvars>>

(***************************************************************************)
(* The server.  Its date is that of the true time: every rollover of the   *)
(* clock is a second of it, and one day ends with the leap second.         *)
(***************************************************************************)
DueAt ==
    CASE leapKind = "LEAP_INS" -> (LeapDay + 1) * DAY
      [] leapKind = "LEAP_DEL" -> (LeapDay + 1) * DAY - 1
      [] OTHER -> MaxSec + DAY

TrueDay ==
    IF Elapsed < DueAt THEN Elapsed \div DAY
    ELSE IF leapKind = "LEAP_DEL" THEN (Elapsed + 1) \div DAY
    ELSE IF Elapsed = DueAt THEN LeapDay
    ELSE (Elapsed - 1) \div DAY

TrueSecond ==
    IF Elapsed < DueAt THEN Elapsed % DAY
    ELSE IF leapKind = "LEAP_DEL" THEN (Elapsed + 1) % DAY
    ELSE IF Elapsed = DueAt THEN DAY
    ELSE (Elapsed - 1) % DAY

LastDayOfHalf(day) == day = LeapDay

(* The leap is announced from the day before, when the daemon must not yet *)
(* pass it on, and for a second after it; "unknown" is 3.                  *)
Announced ==
    IF leapKind = "LEAP_NO" THEN {"LEAP_NO"}
    ELSE IF TrueDay \in LeapDay - 1 .. LeapDay
    THEN {leapKind, "unknown"}
    ELSE IF Elapsed = DueAt + 1 THEN {leapKind, "LEAP_NO"}
    ELSE {"LEAP_NO", "unknown"}

Answers ==
    [tripns : Delays, diff : Offsets, leap : Announced, day : {TrueDay}]

(***************************************************************************)
(* ntpDaemon() before its loop, and the wait between two polls.            *)
(***************************************************************************)
StatusRequest(status) ==
    [modes |-> {"MOD_STATUS"}, status |-> status, constant |-> 0,
     offset |-> 0, freq |-> 0, maxerror |-> 0, esterror |-> 0, shift |-> 0]

Step(from, to) == dpc = from /\ dpc' = to

Read ==
    /\ Step("start", "claim")
    /\ ntv' = time_status
    /\ UNCHANGED <<kvars, pollVars, appVars, server, age, history>>

(* "claim we're synced"                                                    *)
Claim ==
    /\ Step("claim", "wait")
    /\ AdjTime(StatusRequest(ntv \ {"STA_UNSYNC"}))
    /\ ntv' = time_status'
    /\ UNCHANGED <<pollVars, appVars, server, age, history>>

Poll ==
    /\ Step("wait", "shoot")
    /\ retry' = 3
    /\ shots' = 0
    /\ try' = 0 /\ best' = 0
    /\ heard' = {}
    /\ silent' = IF silent > MAX_FAILED_SYNCS THEN silent ELSE silent + 1
    /\ UNCHANGED <<kvars, ntv, failedsyncs, data, avgDelay, appVars,
                   server, age, dropped>>

(***************************************************************************)
(* A round of shots: three answers, or fewer when the retries are used up. *)
(***************************************************************************)
ShotFails ==
    /\ dpc = "shoot"
    /\ ~reachable
    /\ retry' = retry - 1
    /\ dpc' = IF retry' > 0 THEN "shoot" ELSE IF shots = 0 THEN "judge"
              ELSE "filter"
    /\ UNCHANGED <<kvars, ntv, failedsyncs, shots, answerVars, avgDelay,
                   appVars, server, age, history>>

(* Faulty: the first answer is not kept.                                   *)
KeepBest_Strict(answer) ==
    /\ data' = [data EXCEPT ![try] = answer]
    /\ IF data'[try].tripns < data'[best].tripns
       THEN best' = try /\ try' = 1 - try
       ELSE UNCHANGED <<best, try>>

KeepBest(answer) ==
    /\ data' = [data EXCEPT ![try] = answer]
    /\ IF data'[try].tripns <= data'[best].tripns
       THEN best' = try /\ try' = 1 - try
       ELSE UNCHANGED <<best, try>>

ShotAnswered ==
    /\ dpc = "shoot"
    /\ reachable
    /\ \E answer \in Answers :
            KeepBest(answer) /\ heard' = heard \cup {answer.tripns}
    /\ shots' = shots + 1
    /\ dpc' = IF shots' >= 3 THEN "filter" ELSE "shoot"
    /\ silent' = 0
    /\ UNCHANGED <<kvars, ntv, failedsyncs, retry, avgDelay, appVars,
                   server, age, dropped>>

(***************************************************************************)
(* acceptFiltered(): a delay passes if it is below twice the average.      *)
(***************************************************************************)
Accepts(delay) == avgDelay = 0 \/ delay < avgDelay

(* Faulty: once, not twice, the average.                                   *)
NextAverage_Once(delay) ==
    IF avgDelay = 0 THEN delay
    ELSE (((3 * avgDelay) % ULONG) \div 4 + delay \div 4) % ULONG

NextAverage(delay) ==
    IF avgDelay = 0 THEN delay
    ELSE (((3 * avgDelay) % ULONG) \div 4 + delay \div 2) % ULONG

AcceptFiltered ==
    LET delay == data[best].tripns
    IN  /\ dpc = "filter"
        /\ avgDelay' = NextAverage(delay)
        /\ IF Accepts(delay)
           THEN /\ dpc' = "update"
                /\ dropped' = [delay |-> delay, times |-> 0]
                /\ UNCHANGED <<retry, shots, best, try, heard>>
           ELSE /\ retry' = retry - 1
                /\ dpc' = IF retry' > 0 THEN "shoot" ELSE "judge"
                /\ shots' = 0 /\ try' = 0 /\ best' = 0 /\ heard' = {}
                /\ dropped' = [delay |-> delay,
                               times |-> IF dropped.delay = delay
                                         THEN dropped.times + 1 ELSE 1]
        /\ UNCHANGED <<kvars, ntv, failedsyncs, data, appVars, server,
                       age, silent>>

(* locked_hardupdate()                                                     *)
Update ==
    /\ Step("update", "judge")
    /\ Discipline(Clamp(data[best].diff, MAXPHASE))
    /\ UNCHANGED <<ntv, pollVars, appVars, server, age, history>>

(***************************************************************************)
(* The outcome of a poll: the count of failures, the leap bits and the     *)
(* synchronization bit, written from the copy of the status word that the  *)
(* last write returned.                                                    *)
(***************************************************************************)
Failed == retry <= 0

(* Faulty: the bits of a leap that is over are kept; any day will do.      *)
LeapBits_Kept(status, answer) ==
    IF answer.leap = "LEAP_INS" /\ LastDayOfHalf(answer.day)
    THEN status \cup {"STA_INS"}
    ELSE IF answer.leap = "LEAP_DEL" /\ LastDayOfHalf(answer.day)
    THEN status \cup {"STA_DEL"}
    ELSE status

LeapBits_AnyDay(status, answer) ==
    IF answer.leap = "LEAP_NO" THEN status \ {"STA_INS", "STA_DEL"}
    ELSE IF answer.leap = "LEAP_INS" THEN status \cup {"STA_INS"}
    ELSE IF answer.leap = "LEAP_DEL" THEN status \cup {"STA_DEL"}
    ELSE status

LeapBits(status, answer) ==
    IF answer.leap = "LEAP_NO" THEN status \ {"STA_INS", "STA_DEL"}
    ELSE IF answer.leap = "LEAP_INS" /\ LastDayOfHalf(answer.day)
    THEN status \cup {"STA_INS"}
    ELSE IF answer.leap = "LEAP_DEL" /\ LastDayOfHalf(answer.day)
    THEN status \cup {"STA_DEL"}
    ELSE status

(* Faulty: failures add up; the limit starts the count again.              *)
CountFailures_Total == IF Failed THEN failedsyncs + 1 ELSE failedsyncs

LimitedCount_Early(count) ==
    IF count > MAX_FAILED_SYNCS THEN MAX_FAILED_SYNCS - 1 ELSE count

CountFailures == IF Failed THEN failedsyncs + 1 ELSE 0

LimitedCount(count) ==
    IF count > MAX_FAILED_SYNCS THEN MAX_FAILED_SYNCS + 1 ELSE count

Judge ==
    LET status == IF Failed THEN ntv ELSE LeapBits(ntv, data[best])
    IN  /\ Step("judge", "wait")
        /\ failedsyncs' = LimitedCount(CountFailures)
        /\ AdjTime(StatusRequest(IF CountFailures > MAX_FAILED_SYNCS
                                 THEN status \cup {"STA_UNSYNC"}
                                 ELSE status \ {"STA_UNSYNC"}))
        /\ ntv' = time_status'
        /\ age' = IF Failed \/ data[best].leap = "unknown" THEN age ELSE 0
        /\ UNCHANGED <<retry, shots, answerVars, avgDelay, appVars,
                       server, history>>

(* KILL_DAEMON received.                                                   *)
Killed ==
    /\ Step("wait", "done")
    /\ AdjTime(StatusRequest(ntv \cup {"STA_UNSYNC"}))
    /\ ntv' = time_status'
    /\ UNCHANGED <<pollVars, appVars, server, age, history>>

ntpDaemon ==
    \/ Read \/ Claim \/ Poll
    \/ ShotFails \/ ShotAnswered
    \/ AcceptFiltered \/ Update \/ Judge

(***************************************************************************)
(* rtemsNtpSetPollInterval(): two calls of ntp_adjtime(), of which the     *)
(* first decodes its return code after it has released the lock.           *)
(***************************************************************************)

(* Faulty: to the next larger power of two.                                *)
secs2tcld_Up(secs) ==
    CHOOSE r \in 0 .. secs \div 16 :
        /\ PowerOfTwo[r] >= secs \div 16
        /\ \A q \in 0 .. r - 1 : PowerOfTwo[q] < secs \div 16

secs2tcld(secs) ==
    LET units == secs \div 16
        up == CHOOSE r \in 0 .. units :
                /\ PowerOfTwo[r] >= units
                /\ \A q \in 0 .. r - 1 : PowerOfTwo[q] < units
    IN  IF up = 0 THEN 0
        ELSE IF PowerOfTwo[up] - units < units - PowerOfTwo[up - 1] THEN up
        ELSE up - 1

SettingRead ==
    /\ apc = "idle" /\ settings < MaxSettings
    /\ PollSeconds # {}
    /\ apc' = "decode"
    /\ app' = time_status
    /\ settings' = settings + 1
    /\ UNCHANGED <<kvars, dpc, ntv, pollVars, server, age, history>>

SettingDecode ==
    /\ apc = "decode"
    /\ apc' = IF ReturnCode(time_status, time_state) = "TIME_OK"
              THEN "write" ELSE "idle"
    /\ UNCHANGED <<kvars, dpc, ntv, pollVars, app, settings, server,
                   age, history>>

SettingWrite(secs) ==
    /\ apc = "write"
    /\ apc' = "idle"
    /\ AdjTime([StatusRequest(app \cup {"STA_PLL"}) EXCEPT
                    !.modes = {"MOD_TIMECONST", "MOD_STATUS"},
                    !.constant = secs2tcld(IF secs < 16 THEN 16 ELSE secs)])
    /\ UNCHANGED <<dpc, ntv, pollVars, app, settings, server, age,
                   history>>

rtemsNtpSetPollInterval ==
    \/ SettingRead
    \/ SettingDecode
    \/ \E secs \in PollSeconds : SettingWrite(secs)

(***************************************************************************)
(* The clock, and the server.                                              *)
(***************************************************************************)
ClockTicks ==
    /\ age < MaxAge
    /\ Hardclock
    /\ age' = IF tv_sec' # tv_sec \/ time_state' # time_state
              THEN age + 1 ELSE age
    /\ UNCHANGED <<dpc, ntv, pollVars, appVars, server, history>>

Outage ==
    /\ Outages
    /\ reachable' = ~reachable
    /\ UNCHANGED <<kvars, dpc, ntv, pollVars, appVars, leapKind, age, history>>

(***************************************************************************)
(* The specification.  The clock starts as rtemsNtpInitialize() leaves it. *)
(* The daemon's task is scheduled; nothing else need happen.               *)
(***************************************************************************)
NoAnswer ==
    [tripns |-> 0, diff |-> 0, leap |-> "LEAP_NO", day |-> 0]

DaemonInit ==
    /\ tv_sec \in StartSecs /\ tv_nsec = 0
    /\ time_state = "TIME_OK" /\ time_tai = 0
    /\ time_status = {"STA_PLL", "STA_UNSYNC", "STA_NANO"}
    /\ time_monitor = 0 /\ time_constant = Clamp(secs2tcld(64), MAXTC)
    /\ time_maxerror = CDiv(MAXPHASE, NSPERUS)
    /\ time_esterror = CDiv(MAXPHASE, NSPERUS)
    /\ time_reftime = 0 /\ time_offset = 0 /\ time_freq = 0
    /\ time_adj = L_LINT(NANOSECOND) /\ time_phase = 0
    /\ pps_freq = 0 /\ pps_shift = PPS_FAVG
    /\ pps_shiftmax = PPS_FAVGDEF /\ pps_valid = 0
    /\ dpc = "start" /\ ntv = {} /\ apc = "idle" /\ app = {}
    /\ failedsyncs = 0 /\ retry = 0 /\ shots = 0
    /\ data = [i \in {0, 1} |-> NoAnswer] /\ best = 0 /\ try = 0
    /\ avgDelay = 0 /\ settings = 0 /\ reachable = TRUE
    /\ leapKind \in LeapKinds
    /\ age = 0 /\ silent = 0 /\ heard = {}
    /\ dropped = [delay |-> 0, times |-> 0]

DaemonNext ==
    \/ ntpDaemon
    \/ Killed
    \/ rtemsNtpSetPollInterval
    \/ ClockTicks
    \/ Outage

DaemonSpec == DaemonInit /\ [][DaemonNext]_allvars

FairDaemonSpec == DaemonSpec /\ WF_allvars(ntpDaemon)

(***************************************************************************)
(* Properties.                                                             *)
(***************************************************************************)
(* rtemsdep.c:68-70: "If no server can be contacted after                  *)
(* 'MAX_FAILED_SYNCS' poll intervals then the clock goes into STA_UNSYNC", *)
(* and it is told so again by every further poll that fails.               *)
SilenceTold ==
    [][ Judge /\ silent > MAX_FAILED_SYNCS => "STA_UNSYNC" \in time_status'
        ]_allvars

(* Of the answers of a round, the daemon uses the one with the least delay,*)
(* although it keeps but two of them, and reuses the slots.                *)
BestShot ==
    dpc \in {"filter", "update"} =>
        /\ data[best].tripns \in heard
        /\ \A delay \in heard : data[best].tripns <= delay

(* The filter does not starve the daemon: whatever the delays were before, *)
(* at most four answers in a row are dropped at an unchanged delay between *)
(* 8 ns and a third of the range (1.4 s), even where three times the       *)
(* average overflows.  (It does starve at 2, 3 and 5 ns, and at most delays*)
(* above 0.38 of the range.)                                               *)
DropsBounded ==
    dropped.delay >= 8 /\ 3 * dropped.delay < ULONG => dropped.times <= 4

(* rtemsNtpSetPollInterval() sets the constant whose interval is closest   *)
(* to the request in whole units of 16 s, within the range of constants.   *)
ClosestInterval ==
    [][ \A secs \in PollSeconds : SettingWrite(secs) =>
            LET units == IF secs < 16 THEN 1 ELSE secs \div 16
                distance(c) == IF PowerOfTwo[c] < units THEN units - PowerOfTwo[c]
                               ELSE PowerOfTwo[c] - units
            IN  \A c \in 0 .. MAXTC :
                    distance(time_constant') <= distance(c) ]_allvars

(* Once the server answers for good, the clock becomes synchronized for    *)
(* good, whatever the outage and the calls of the application have left,   *)
(* unless the daemon is killed.                                            *)
Resynchronizes ==
    <>[]reachable => <>[](~Has("STA_UNSYNC")) \/ <>(dpc = "done")

(* With polls that succeed at least every MaxAge seconds, the clock shows  *)
(* the true second throughout a leap day and the days around it: the leap  *)
(* is made when it is due, and at no other midnight.                       *)
ShowsTrueTime == UtcDay = TrueDay /\ UtcSecond = TrueSecond

(* After the leap the machine is rearmed.                                  *)
RearmedAfterLeap ==
    Elapsed > DueAt + 2 * MaxAge + 1 => time_state = "TIME_OK"
=============================================================================
