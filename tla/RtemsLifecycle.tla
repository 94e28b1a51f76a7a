--------------------------- MODULE RtemsLifecycle ---------------------------
(***************************************************************************)
(* Starting and stopping the clock: rtemsNtpInitialize() and               *)
(* rtemsNtpCleanup() of rtemsdep.c, called by one task of the application, *)
(* against the clock ticker and the NTP daemon that they create, kill and  *)
(* delete, and against tasks that read the clock.  What the tasks do to    *)
(* the clock is left to Ktime: here it is one visit to the region between  *)
(* splclock() and splx().  The objects of RTEMS (semaphores, tasks,        *)
(* events) are external, modelled as far as rtemsdep.c uses them.          *)
(* Operators named X_Fault are faulty variants of X, which the properties  *)
(* below are shown to reject; nothing uses them.                           *)
(***************************************************************************)
EXTENDS Integers, FiniteSets

CONSTANTS
    MaxInit,        \* bound: calls of rtemsNtpInitialize()
    Readers,        \* the tasks that may call ntp_gettime()
    Builds          \* the builds and the uses of them that are considered

Generations == 1 .. MaxInit
Tickers == {"ticker"} \X Generations
Daemons == {"daemon"} \X Generations
ReaderTasks == {"reader"} \X Readers
Tasks == Tickers \cup Daemons \cup ReaderTasks
Caller == <<"caller", 0>>

(* USE_PICTIMER: is a tick a timer's event, or a rate monotonic period?    *)
(* lives: how often the application calls rtemsNtpInitialize().            *)
(* failures: the calls in it that may fail.                                *)
(* readers: the tasks that call ntp_gettime() while the clock is up.       *)
Build ==
    [USE_PICTIMER : BOOLEAN, lives : 1 .. MaxInit, readers : SUBSET Readers,
     failures : SUBSET {"timer", "timerCleanup", "socket", "lookup", "mutex",
        "killsem", "tickerCreate", "tickerStart", "daemonCreate",
        "daemonStart"}]

ASSUME LifecycleAssumption ==
    /\ MaxInit \in Nat \ {0} /\ Readers \subseteq Nat
    /\ Builds \subseteq Build

VARIABLES
    build,          \* constant: the member of Builds that runs
    pc,             \* where each task is in its code
    gen,            \* calls of rtemsNtpInitialize() so far
    up,             \* has the last of them succeeded, with no Cleanup since?
    mutex_id, ticker_id, daemon_id,     \* 0, or the generation created by
    mutexes,        \* the mutexes that exist
    holder,         \* the task that holds each mutex, if any
    tickerRunning,
    kill_sem,       \* the count of kill_sem, or -1 when it does not exist
    events,         \* the events pending for each task
    timer,          \* the PIC timer: "off", "connected", "enabled" or "stuck":
                    \* silenced, but its interrupt could not be removed
    sd,             \* the socket: "none", "ours", "theirs"
    stray,          \* history: the tickers that "bail1:" has left running
    orderly         \* history: has each call come in its turn?

idVars == <<mutex_id, ticker_id, daemon_id>>
mutexVars == <<mutexes, holder>>
killVars == <<tickerRunning, kill_sem, events>>
historyVars == <<stray, orderly>>
callerVars == <<build, gen, up, idVars, timer, sd, historyVars>>
lvars == <<pc, mutexVars, killVars, callerVars>>

USE_PICTIMER == build.USE_PICTIMER
Failures == build.failures

Init ==
    /\ build \in Builds
    /\ pc = [t \in Tasks \cup {Caller} |->
                CASE t = Caller -> "idle"
                  [] t \in ReaderTasks -> "away"
                  [] OTHER -> "none"]
    /\ gen = 0 /\ up = FALSE
    /\ mutex_id = 0 /\ ticker_id = 0 /\ daemon_id = 0
    /\ mutexes = {}
    /\ holder = [g \in Generations |-> {}]
    /\ tickerRunning = FALSE
    /\ kill_sem = -1
    /\ events = [t \in Tasks |-> {}]
    /\ timer = "off"
    /\ sd = "none"
    /\ stray = {} /\ orderly = TRUE

Goto(t, from, to) == pc[t] = from /\ pc' = [pc EXCEPT ![t] = to]

(***************************************************************************)
(* splclock() and splx().  Neither looks at the status that RTEMS returns: *)
(* without a mutex the region is entered all the same.                     *)
(***************************************************************************)
splclock(t) ==
    IF mutex_id \notin mutexes THEN UNCHANGED mutexVars
    ELSE /\ holder[mutex_id] = {}
         /\ holder' = [holder EXCEPT ![mutex_id] = {t}]
         /\ UNCHANGED mutexes

splx(t) ==
    /\ holder' = [g \in Generations |-> IF g = mutex_id THEN holder[g] \ {t}
                                        ELSE holder[g]]
    /\ UNCHANGED mutexes

(* Faulty: the region is entered without the mutex.                        *)
Enter_Unlocked(t, from, to) ==
    Goto(t, from, to) /\ UNCHANGED <<mutexVars, killVars, callerVars>>

Enter(t, from, to) ==
    Goto(t, from, to) /\ splclock(t) /\ UNCHANGED <<killVars, callerVars>>

Leave(t, from, to) ==
    Goto(t, from, to) /\ splx(t) /\ UNCHANGED <<killVars, callerVars>>

(***************************************************************************)
(* tickerDaemon(), either version, and the interrupt handler clock_isr().  *)
(***************************************************************************)
TickerStart(t) ==
    /\ Goto(t, "start", "wait")
    /\ tickerRunning' = (tickerRunning \/ ~USE_PICTIMER)
    /\ UNCHANGED <<kill_sem, events, mutexVars, callerVars>>

PeriodOver(t) ==
    /\ ~USE_PICTIMER
    /\ Goto(t, "wait", "body")
    /\ UNCHANGED <<mutexVars, killVars, callerVars>>

(* KILL_DAEMON and PICTIMER_SYNC_EVENT may be received together.           *)
TimerEvent(t) ==
    /\ USE_PICTIMER /\ events[t] # {}
    /\ Goto(t, "wait", IF "KILL" \in events[t] THEN "release" ELSE "body")
    /\ events' = [events EXCEPT ![t] = {}]
    /\ UNCHANGED <<tickerRunning, kill_sem, mutexVars, callerVars>>

(* Faulty: an endless loop.                                                *)
TickerLoop_Forever(t) ==
    /\ Goto(t, "loop", "wait")
    /\ UNCHANGED <<mutexVars, killVars, callerVars>>

TickerLoop(t) ==
    /\ Goto(t, "loop", IF USE_PICTIMER \/ tickerRunning THEN "wait"
                       ELSE "release")
    /\ UNCHANGED <<mutexVars, killVars, callerVars>>

(* kill_sem is a simple binary semaphore.                                  *)
TickerRelease(t) ==
    /\ Goto(t, "release", IF kill_sem = -1 THEN "abort" ELSE "suspended")
    /\ kill_sem' = IF kill_sem = -1 THEN -1 ELSE 1
    /\ UNCHANGED <<tickerRunning, events, mutexVars, callerVars>>

tickerDaemon(t) ==
    \/ TickerStart(t)
    \/ PeriodOver(t)
    \/ TimerEvent(t)
    \/ Enter(t, "body", "inBody")
    \/ Leave(t, "inBody", "loop")
    \/ TickerLoop(t)
    \/ TickerRelease(t)

TickerId == <<"ticker", ticker_id>>
DaemonId == <<"daemon", daemon_id>>
Exists(t) == pc[t] \notin {"none", "deleted"}

ClockIsr ==
    /\ timer = "enabled" /\ ticker_id # 0 /\ Exists(TickerId)
    /\ events' = [events EXCEPT ![TickerId] = @ \cup {"SYNC"}]
    /\ UNCHANGED <<pc, tickerRunning, kill_sem, mutexVars, callerVars>>

(***************************************************************************)
(* ntpDaemon(): its calls to the clock at its start and after each poll    *)
(* interval, until it receives KILL_DAEMON; then a last ntp_adjtime().     *)
(***************************************************************************)
DaemonPoll(t) ==
    /\ events[t] = {}
    /\ Goto(t, "wait", "work")
    /\ UNCHANGED <<mutexVars, killVars, callerVars>>

DaemonKilled(t) ==
    /\ events[t] # {}
    /\ Goto(t, "wait", "final")
    /\ events' = [events EXCEPT ![t] = {}]
    /\ UNCHANGED <<tickerRunning, kill_sem, mutexVars, callerVars>>

DaemonRelease(t) ==
    /\ Goto(t, "release", "suspended")
    /\ kill_sem' = IF kill_sem = -1 THEN -1 ELSE 1
    /\ UNCHANGED <<tickerRunning, events, mutexVars, callerVars>>

ntpDaemon(t) ==
    \/ Enter(t, "start", "inWork")
    \/ DaemonPoll(t)
    \/ Enter(t, "work", "inWork")
    \/ Leave(t, "inWork", "wait")
    \/ DaemonKilled(t)
    \/ Enter(t, "final", "inFinal")
    \/ Leave(t, "inFinal", "release")
    \/ DaemonRelease(t)

(* A task of the application reads the clock.                              *)
ntp_gettime(t) ==
    \/ t[2] \in build.readers /\ up /\ pc[Caller] = "idle"
          /\ Goto(t, "away", "read")
          /\ UNCHANGED <<mutexVars, killVars, callerVars>>
    \/ Enter(t, "read", "inRead")
    \/ Leave(t, "inRead", "away")

(***************************************************************************)
(* rtemsNtpInitialize(), one action per call that others can observe or    *)
(* that may fail.  It may be called at any time; it is in its turn when    *)
(* the clock is down, and no ticker is left that the default build would   *)
(* not find.                                                               *)
(***************************************************************************)
Begin ==
    /\ gen < build.lives
    /\ Goto(Caller, "idle", "reset")
    /\ gen' = gen + 1
    /\ orderly' = (orderly /\ ~up /\ (USE_PICTIMER \/ stray = {}))
    /\ UNCHANGED <<build, up, idVars, timer, sd, stray, mutexVars, killVars>>

(* ntp_init() without the mutex, then ntp_adjtime().                       *)
Reset ==
    /\ Goto(Caller, "reset", "adjust")
    /\ UNCHANGED <<mutexVars, killVars, callerVars>>

(* pictimerCleanup(): what it leaves of the timer.  It fails when the      *)
(* interrupt of a silenced timer cannot be removed.                        *)
pictimerCleanup ==
    {"off"} \cup {t \in {"stuck"} :
                    timer # "off" /\ "timerCleanup" \in Failures}

(* What the exit at "bail:" undoes, which ignores a failure of             *)
(* pictimerCleanup(), and the exit at "bail1:", where the ticker runs.     *)
closeSd == sd' = IF sd = "ours" THEN "none" ELSE sd

(* Faulty: the socket stays open.                                          *)
Bail_KeepsSocket(from) ==
    /\ Goto(Caller, from, "idle")
    /\ timer' \in pictimerCleanup
    /\ up' = FALSE
    /\ UNCHANGED sd

Bail(from) ==
    /\ Goto(Caller, from, "idle")
    /\ closeSd
    /\ timer' \in pictimerCleanup
    /\ up' = FALSE

Bail1 ==
    /\ closeSd
    /\ up' = FALSE
    /\ stray' = stray \cup {<<"ticker", gen>>}
    /\ UNCHANGED timer

Attempt(step, from, to) ==
    \/ Goto(Caller, from, to) /\ UNCHANGED <<up, timer, sd>>
    \/ step \in Failures /\ Bail(from)

(* Faulty: a timer that is in use is connected again.                      *)
InstallTimer_Shared ==
    /\ \/ ~USE_PICTIMER /\ Goto(Caller, "install", "open") /\ UNCHANGED timer
       \/ USE_PICTIMER /\ Goto(Caller, "install", "open")
          /\ timer' = "connected"
    /\ UNCHANGED <<build, up, gen, idVars, sd, historyVars, mutexVars,
                   killVars>>

(* The timer's own failure returns at once; it is already connected if an  *)
(* earlier call left it so.                                                *)
InstallTimer ==
    /\ \/ ~USE_PICTIMER /\ Goto(Caller, "install", "open") /\ UNCHANGED timer
       \/ /\ USE_PICTIMER /\ timer = "off"
          /\ Goto(Caller, "install", "open")
          /\ timer' = "connected"
       \/ /\ USE_PICTIMER /\ (timer # "off" \/ "timer" \in Failures)
          /\ Goto(Caller, "install", "idle")
          /\ UNCHANGED timer
    /\ up' = (up /\ pc'[Caller] # "idle")
    /\ UNCHANGED <<build, gen, idVars, sd, historyVars, mutexVars, killVars>>

(* A failing socket() leaves -1 in rtems_ntp_daemon_sd, which is not ours; *)
(* a failing bind() leaves a socket that "bail:" closes.                   *)
OpenSocket ==
    /\ \/ sd # "none" /\ Attempt("none", "open", "lookup")
       \/ sd = "none" /\ Goto(Caller, "open", "lookup") /\ sd' = "ours"
          /\ UNCHANGED <<up, timer>>
       \/ sd = "none" /\ "socket" \in Failures
          /\ Goto(Caller, "open", "idle") /\ sd' \in {"none", "theirs"}
          /\ timer' \in pictimerCleanup /\ up' = FALSE
    /\ UNCHANGED <<build, gen, idVars, historyVars, mutexVars, killVars>>

Lookup ==
    /\ Attempt("lookup", "lookup", "settime")
    /\ UNCHANGED <<build, gen, idVars, historyVars, mutexVars, killVars>>

(* TIMEVAR = initime, without the mutex.                                   *)
SetTime ==
    /\ Goto(Caller, "settime", "mutex")
    /\ UNCHANGED <<mutexVars, killVars, callerVars>>

CreateMutex ==
    /\ Attempt("mutex", "mutex", "ticker")
    /\ IF pc'[Caller] = "ticker"
       THEN mutex_id' = gen /\ mutexes' = mutexes \cup {gen}
       ELSE UNCHANGED <<mutex_id, mutexes>>
    /\ UNCHANGED <<build, gen, ticker_id, daemon_id, historyVars, holder,
                   killVars>>

(* rtems_task_create() and rtems_task_start(): a task that cannot be       *)
(* started exists and stays dormant.                                       *)
StartTicker ==
    LET started(label) ==
            pc' = [pc EXCEPT ![<<"ticker", gen>>] = label,
                             ![Caller] = IF label = "start" THEN "daemon"
                                         ELSE "idle"]
    IN  /\ pc[Caller] = "ticker"
        /\ \/ /\ started("start") /\ ticker_id' = gen
              /\ UNCHANGED <<up, timer, sd>>
           \/ /\ "tickerStart" \in Failures
              /\ started("dormant") /\ ticker_id' = gen
              /\ up' = FALSE /\ timer' \in pictimerCleanup /\ closeSd
           \/ /\ "tickerCreate" \in Failures
              /\ Bail("ticker") /\ UNCHANGED ticker_id
        /\ UNCHANGED <<build, gen, mutex_id, daemon_id, historyVars,
                       mutexVars, killVars>>

StartDaemon ==
    LET started(label) ==
            pc' = [pc EXCEPT ![<<"daemon", gen>>] = label,
                             ![Caller] = "idle"]
    IN  /\ pc[Caller] = "daemon"
        /\ \/ /\ started("start") /\ daemon_id' = gen
              /\ up' = TRUE /\ UNCHANGED <<sd, stray>>
              /\ timer' = IF USE_PICTIMER THEN "enabled" ELSE timer
           \/ /\ "daemonStart" \in Failures
              /\ started("dormant") /\ daemon_id' = gen
              /\ Bail1
           \/ /\ "daemonCreate" \in Failures
              /\ Goto(Caller, "daemon", "idle") /\ UNCHANGED daemon_id
              /\ Bail1
        /\ UNCHANGED <<build, gen, mutex_id, ticker_id, orderly, mutexVars,
                       killVars>>

rtemsNtpInitialize ==
    \/ Reset
    \/ Enter(Caller, "adjust", "inAdjust")
    \/ Leave(Caller, "inAdjust", "install")
    \/ InstallTimer \/ OpenSocket \/ Lookup \/ SetTime
    \/ CreateMutex \/ StartTicker \/ StartDaemon

(***************************************************************************)
(* rtemsNtpCleanup(), which the application, or Cexp that unloads the      *)
(* module, may call at any time; it is in its turn when the clock is up.   *)
(* PARANOIA() aborts when the call in it fails.                            *)
(***************************************************************************)
CreateKillSem ==
    /\ timer' \in pictimerCleanup
    /\ \/ /\ timer' = "off"
          /\ Goto(Caller, "idle", "killDaemon") /\ kill_sem' = 0
       \/ /\ timer' # "off" \/ "killsem" \in Failures
          /\ Goto(Caller, "idle", "idle") /\ UNCHANGED kill_sem
    /\ orderly' = (orderly /\ up)
    /\ UNCHANGED <<build, tickerRunning, events, gen, up, idVars, sd, stray,
                   mutexVars>>

KillDaemon ==
    /\ IF daemon_id = 0
       THEN Goto(Caller, "killDaemon", "killTicker") /\ UNCHANGED events
       ELSE IF Exists(DaemonId)
       THEN /\ Goto(Caller, "killDaemon", "waitDaemon")
            /\ events' = [events EXCEPT ![DaemonId] = @ \cup {"KILL"}]
       ELSE Goto(Caller, "killDaemon", "abort") /\ UNCHANGED events
    /\ UNCHANGED <<tickerRunning, kill_sem, mutexVars, callerVars>>

(* Faulty: the kill_sem is taken without waiting for it.                   *)
Reap_NoWait(id, from, to) ==
    /\ kill_sem' = kill_sem - 1
    /\ pc[Caller] = from
    /\ pc' = IF Exists(id) THEN [pc EXCEPT ![id] = "deleted", ![Caller] = to]
             ELSE [pc EXCEPT ![Caller] = "abort"]
    /\ UNCHANGED <<tickerRunning, events, mutexVars, callerVars>>

(* rtems_semaphore_obtain(kill_sem) and rtems_task_delete(id)              *)
Reap(id, from, to) ==
    /\ kill_sem = 1
    /\ kill_sem' = 0
    /\ pc[Caller] = from
    /\ pc' = IF Exists(id) THEN [pc EXCEPT ![id] = "deleted", ![Caller] = to]
             ELSE [pc EXCEPT ![Caller] = "abort"]
    /\ UNCHANGED <<tickerRunning, events, mutexVars, callerVars>>

KillTicker ==
    /\ IF ticker_id = 0
       THEN Goto(Caller, "killTicker", "delete")
            /\ UNCHANGED <<events, tickerRunning>>
       ELSE IF ~USE_PICTIMER
       THEN /\ Goto(Caller, "killTicker", "waitTicker")
            /\ tickerRunning' = FALSE
            /\ UNCHANGED events
       ELSE IF Exists(TickerId)
       THEN /\ Goto(Caller, "killTicker", "waitTicker")
            /\ events' = [events EXCEPT ![TickerId] = @ \cup {"KILL"}]
            /\ UNCHANGED tickerRunning
       ELSE Goto(Caller, "killTicker", "abort")
            /\ UNCHANGED <<events, tickerRunning>>
    /\ UNCHANGED <<kill_sem, mutexVars, callerVars>>

(* kill_sem is deleted, then the mutex, which may not be held, and the     *)
(* socket is closed.  The identifiers keep their values.                   *)
Delete ==
    /\ kill_sem' = -1
    /\ IF mutex_id = 0 \/ (mutex_id \in mutexes /\ holder[mutex_id] = {})
       THEN /\ Goto(Caller, "delete", "idle")
            /\ mutexes' = mutexes \ {mutex_id}
            /\ closeSd
            /\ up' = FALSE
       ELSE /\ Goto(Caller, "delete", "abort")
            /\ UNCHANGED <<mutexes, sd, up>>
    /\ UNCHANGED <<build, holder, tickerRunning, events, gen, idVars, timer,
                   historyVars>>

rtemsNtpCleanup ==
    \/ KillDaemon
    \/ Reap(DaemonId, "waitDaemon", "killTicker")
    \/ KillTicker
    \/ Reap(TickerId, "waitTicker", "delete")
    \/ Delete

(* An assertion has failed, or a Cleanup out of turn waits for a task that *)
(* is no more or never ran: other states without a next are deadlocks.     *)
Resting == {"none", "dormant", "suspended", "deleted"}

WaitsInVain ==
    /\ ~orderly /\ kill_sem = 0
    /\ \/ pc[Caller] = "waitDaemon" /\ pc[DaemonId] \in Resting
       \/ pc[Caller] = "waitTicker" /\ pc[TickerId] \in Resting

Stopped ==
    /\ WaitsInVain \/ \E t \in DOMAIN pc : pc[t] = "abort"
    /\ UNCHANGED lvars

(***************************************************************************)
(* The specification.  A task that may run does; a task that waits for the *)
(* mutex is served at some release of it, and a reader leaves the clock;   *)
(* the application calls neither function unless it wants to.              *)
(***************************************************************************)
Next ==
    \/ Begin
    \/ rtemsNtpInitialize
    \/ CreateKillSem
    \/ rtemsNtpCleanup
    \/ ClockIsr
    \/ \E t \in Tickers : tickerDaemon(t)
    \/ \E t \in Daemons : ntpDaemon(t)
    \/ \E t \in ReaderTasks : ntp_gettime(t)
    \/ Stopped

Spec == Init /\ [][Next]_lvars

FairSpec ==
    /\ Spec
    /\ SF_lvars(rtemsNtpInitialize) /\ WF_lvars(rtemsNtpCleanup)
    /\ \A t \in Tickers : SF_lvars(tickerDaemon(t))
    /\ \A t \in Daemons : SF_lvars(ntpDaemon(t))
    /\ \A t \in ReaderTasks : WF_lvars(Leave(t, "inRead", "away"))

(***************************************************************************)
(* Properties.  Initialize and Cleanup are called in turn, and neither     *)
(* looks whether they are: what follows holds so long as the application   *)
(* keeps to it (orderly).  Every call may fail.                            *)
(***************************************************************************)

(* No two tasks are in the clock at a time, where ntp_init() and the       *)
(* setting of TIMEVAR are in it without the mutex: so long as the clock is *)
(* initialized once, start-up and teardown leave no window, until the      *)
(* mutex is deleted.  (Readers that wait for it then all enter.)           *)
MutexKept == mutex_id = 0 \/ mutex_id \in mutexes

ClockExclusive ==
    orderly /\ gen <= 1 /\ MutexKept => Cardinality({t \in DOMAIN pc :
        pc[t] \in {"inBody", "inWork", "inFinal", "inRead", "inAdjust",
                   "reset", "settime"}}) <= 1

(* No call in a PARANOIA() fails, if no reader is in the clock when it is  *)
(* taken down: a mutex that is held cannot be deleted.                     *)
NoAssertion ==
    orderly /\ build.readers = {} => \A t \in DOMAIN pc : pc[t] # "abort"

(* ntpDaemon() notes "the race condition" of a task that is deleted while  *)
(* it runs: a task is deleted only after its last use of the clock and of  *)
(* kill_sem, so that it takes no mutex with it.                            *)
DeletedAtRest ==
    [][ \A t \in Tickers \cup Daemons :
            orderly /\ pc'[t] = "deleted" /\ pc[t] # "deleted"
                => pc[t] = "suspended" /\ \A g \in Generations :
                                                t \notin holder[g] ]_lvars

(* One ticker drives the clock, whichever calls in Initialize and Cleanup  *)
(* have failed before: with two of them it would run at twice its rate.    *)
(* The exception is in orderly: in the default build the exit "bail1:"     *)
(* leaves a ticker running that the next rtemsNtpInitialize() does not     *)
(* know of (rtemsdep.c:876-879), and starts a second one beside it.        *)
Driving(t) == pc[t] \in {"start", "wait", "body", "inBody", "loop"}

OneTicker ==
    orderly => Cardinality({t \in Tickers : Driving(t)}) <= 1

(* When the clock is down, because Initialize failed or Cleanup succeeded, *)
(* no task of it runs, its timer is silent and its socket is closed; all   *)
(* that is ever left is the ticker of an rtemsNtpInitialize() that could   *)
(* not start its daemon, and the timer which that ticker waits for.        *)
NothingSurvives ==
    orderly /\ pc[Caller] = "idle" /\ ~up =>
        /\ \A t \in (Tickers \cup Daemons) \ stray : pc[t] \in Resting
        /\ timer \in {"off", "stuck"} \/ (timer = "connected" /\ stray # {})
        /\ sd # "ours"

(* rtemsNtpCleanup() does not wait forever for the tasks it kills, if the  *)
(* ticker has run before it is killed: a ticker that sets tickerRunning    *)
(* after Cleanup has reset it is never told again.  It may end in a failed *)
(* assertion, where NoAssertion says that it does not.                     *)
KillDelivered == USE_PICTIMER \/ pc[TickerId] # "start"

CleanupReturns ==
    /\ orderly /\ pc[Caller] = "killDaemon" ~> pc[Caller] = "killTicker"
    /\ orderly /\ pc[Caller] = "killTicker" /\ KillDelivered
            ~> pc[Caller] \in {"idle", "abort"}

(* What the code says without the condition: the "end of aborting          *)
(* sequence" (rtemsdep.c:938) is reached.                                  *)
AbortingSequenceEnds == pc[Caller] = "killTicker" ~> pc[Caller] = "idle"
=============================================================================
