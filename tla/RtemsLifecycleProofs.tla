------------------------ MODULE RtemsLifecycleProofs ------------------------
(***************************************************************************)
(* Proofs about RtemsLifecycle, for any number of lives and readers, of    *)
(* the safety properties that its runs check.                              *)
(***************************************************************************)
EXTENDS RtemsLifecycle, FiniteSetTheorems, TLAPS

(***************************************************************************)
(* Places.                                                                 *)
(***************************************************************************)
Place == pc[Caller]

Boot == Place \in {"reset", "adjust", "inAdjust", "install"}

Connecting == Place \in {"open", "lookup", "settime", "mutex", "ticker"}

Stopping ==
    Place \in {"killDaemon", "waitDaemon", "killTicker", "waitTicker",
               "delete", "abort"}

Down == Boot \/ (Place = "idle" /\ ~up)

Turning == {"start", "wait", "body", "inBody", "loop"}

Polling == {"start", "inWork", "wait", "work"}

Ending == {"final", "inFinal", "release"}

Inside == {"inBody", "inWork", "inFinal", "inRead", "inAdjust"}

(***************************************************************************)
(* The invariant.                                                          *)
(***************************************************************************)
TypeInv ==
    /\ DOMAIN pc = Tasks \cup {Caller}
    /\ DOMAIN holder = Generations
    /\ DOMAIN events = Tasks
    /\ gen \in 0 .. MaxInit /\ build.lives \in Generations
    /\ mutexes \subseteq Generations

(* The caller is in one of the two functions or idle, and what the         *)
(* identifiers name exists while the clock is up.                          *)
CallerInv ==
    /\ Boot \/ Connecting \/ Stopping \/ Place \in {"idle", "daemon"}
    /\ Boot \/ Connecting \/ Place = "daemon" => ~up /\ gen > 0
    /\ Stopping => up
    /\ up => gen > 0 /\ ticker_id = gen /\ daemon_id = gen
    /\ Place = "daemon" => ticker_id = gen
    /\ up \/ Place \in {"ticker", "daemon"}
           => mutex_id = gen /\ gen \in mutexes
    /\ build.readers = {} => Place # "abort"

(* A timer that is connected when the clock is down is the one of a stray  *)
(* ticker, and rtemsNtpInitialize() does not go past it.                   *)
DeviceInv ==
    /\ USE_PICTIMER \/ timer = "off"
    /\ USE_PICTIMER /\ (Connecting \/ Place = "daemon") => timer = "connected"
    /\ Stopping => timer = "off"
    /\ Down => sd # "ours" /\ (stray = {} => timer \in {"off", "stuck"})
    /\ stray # {} => /\ Down
                     /\ \/ timer = "connected"
                        \/ ~USE_PICTIMER /\ Place = "idle"

KillInv ==
    /\ Place \in {"killDaemon", "killTicker"} => kill_sem = 0
    /\ Place \in {"waitDaemon", "waitTicker"} => kill_sem \in {0, 1}

(* A ticker that runs is the one that ticker_id tells of, and it is asked  *)
(* to stop, or stops by itself, only when Cleanup waits for it.            *)
TickerMayRun ==
    \/ Place = "daemon"
    \/ Place = "idle" /\ up
    \/ Place \in {"killDaemon", "waitDaemon", "killTicker", "waitTicker"}
    \/ Down /\ TickerId \in stray

TickerInv(t) ==
    /\ pc[t] \in Resting \cup Turning \cup {"release"}
    /\ pc[t] \notin Resting
            => t = TickerId /\ TickerMayRun /\ mutex_id \in mutexes
    /\ pc[t] = "release" => Place = "waitTicker"
    /\ "KILL" \in events[t] =>
            \/ pc[t] \in {"suspended", "deleted"}
            \/ Place = "waitTicker" /\ t = TickerId
    /\ pc[t] \in Turning \ {"start"} =>
            USE_PICTIMER \/ tickerRunning \/ Place = "waitTicker"

TickersInv ==
    /\ \A t \in Tickers : TickerInv(t)
    /\ \A g \in Generations :
            g > gen \/ (g = gen /\ (Boot \/ Connecting))
                => pc[<<"ticker", g>>] = "none"
    /\ (up /\ Place = "idle")
        \/ Place \in {"daemon", "killDaemon", "waitDaemon", "killTicker"}
            => pc[TickerId] \in Turning
    /\ Place = "waitTicker" =>
            /\ pc[TickerId] \in Turning \cup {"release", "suspended"}
            /\ kill_sem = 1 => pc[TickerId] = "suspended"

DaemonInv(d) ==
    /\ pc[d] \in Resting \cup Polling \cup Ending
    /\ pc[d] \notin Resting =>
            /\ d = DaemonId /\ up
            /\ Place \in {"idle", "killDaemon", "waitDaemon"}
    /\ pc[d] \in Ending => Place = "waitDaemon"
    /\ events[d] # {} =>
            \/ pc[d] \in {"suspended", "deleted"}
            \/ Place = "waitDaemon" /\ d = DaemonId

DaemonsInv ==
    /\ \A d \in Daemons : DaemonInv(d)
    /\ \A g \in Generations :
            g > gen \/ (g = gen /\ (Boot \/ Connecting \/ Place = "daemon"))
                => pc[<<"daemon", g>>] = "none"
    /\ up /\ Place \in {"idle", "killDaemon"} => pc[DaemonId] \in Polling
    /\ Place = "waitDaemon" =>
            /\ pc[DaemonId] \in Polling \cup Ending \cup {"suspended"}
            /\ kill_sem = 1 => pc[DaemonId] = "suspended"

(* The mutex is held by who is in the clock.  (A reader may hold the mutex *)
(* of another life for ever.)                                              *)
HoldersInv ==
    /\ \A g \in Generations : \A t \in holder[g] :
            /\ t \in Tasks \cup {Caller}
            /\ t \notin ReaderTasks => g = mutex_id /\ pc[t] \in Inside
    /\ \A t \in ReaderTasks :
            /\ pc[t] \in {"away", "read", "inRead"}
            /\ t[2] \notin build.readers =>
                    /\ pc[t] = "away"
                    /\ \A g \in Generations : t \notin holder[g]

(* In the first life, who is in the clock holds the mutex.                 *)
BeforeMutex == Boot \/ Place \in {"open", "lookup", "settime", "mutex"}

ExclusiveInv ==
    /\ \A t \in ReaderTasks : pc[t] # "away" => up
    /\ mutex_id = 0 => \A g \in Generations : holder[g] = {}
    /\ \A t \in Tasks : pc[t] \in Inside
            => mutex_id \in mutexes /\ t \in holder[mutex_id]
    /\ mutex_id \in mutexes => \A t, u \in holder[mutex_id] : t = u

FirstLifeInv ==
    /\ gen = 0 \/ (gen = 1 /\ BeforeMutex) => mutex_id = 0
    /\ gen <= 1 /\ MutexKept => ExclusiveInv

LifeInv ==
    /\ TypeInv /\ CallerInv /\ DeviceInv /\ KillInv
    /\ TickersInv /\ DaemonsInv
    /\ HoldersInv /\ FirstLifeInv

LEMMA LifeInit == Init => LifeInv
  <1> SUFFICES ASSUME Init PROVE LifeInv
    OBVIOUS
  <1>1. /\ gen = 0 /\ up = FALSE /\ mutex_id = 0 /\ mutexes = {}
        /\ timer = "off" /\ sd = "none" /\ stray = {} /\ kill_sem = -1
        /\ \A g \in Generations : holder[g] = {}
        /\ \A t \in Tasks : events[t] = {}
    BY DEF Init
  <1>2. Place = "idle"
    <2>1. Caller \notin ReaderTasks
      BY DEF Caller, ReaderTasks
    <2>2. \A t \in {Caller} : pc[t] = "idle"
      BY <2>1 DEF Init
    <2> QED BY <2>2 DEF Place
  <1>3. \A t \in Tickers \cup Daemons : t \in Tasks /\ pc[t] = "none"
    <2>1. \A t \in Tickers \cup Daemons :
            t \in Tasks /\ t # Caller /\ t \notin ReaderTasks
      BY DEF Tasks, Tickers, Daemons, Caller, ReaderTasks
    <2> QED BY <2>1 DEF Init
  <1>4. \A t \in ReaderTasks : t \in Tasks /\ pc[t] = "away"
    <2>1. \A t \in ReaderTasks : t \in Tasks /\ t # Caller
      BY DEF Tasks, Caller, ReaderTasks
    <2> QED BY <2>1 DEF Init
  <1>5. TypeInv
    <2>1. build \in Build
      BY LifecycleAssumption DEF Init
    <2> QED BY <2>1, LifecycleAssumption DEF Init, TypeInv, Build,
            Generations
  <1>6. CallerInv /\ DeviceInv /\ KillInv
    BY <1>1, <1>2 DEF CallerInv, DeviceInv, KillInv, Boot, Connecting,
       Stopping, Down
  <1>7. TickersInv
    <2>1. \A g \in Generations : <<"ticker", g>> \in Tickers
      BY DEF Tickers
    <2> QED BY <1>1, <1>2, <1>3, <2>1 DEF TickersInv, TickerInv, Resting,
            Turning
  <1>8. DaemonsInv
    <2>1. \A g \in Generations : <<"daemon", g>> \in Daemons
      BY DEF Daemons
    <2> QED BY <1>1, <1>2, <1>3, <2>1 DEF DaemonsInv, DaemonInv, Resting,
            Ending
  <1>9. HoldersInv
    BY <1>1, <1>4 DEF HoldersInv
  <1>10. FirstLifeInv
    <2>1. \A t \in Tasks : pc[t] \notin Inside
      BY <1>3, <1>4 DEF Tasks, Inside
    <2> QED BY <1>1, <1>4, <2>1 DEF FirstLifeInv, ExclusiveInv
  <1> QED BY <1>5, <1>6, <1>7, <1>8, <1>9, <1>10 DEF LifeInv

(***************************************************************************)
(* Who is who, and who moves.                                              *)
(***************************************************************************)
LEMMA Distinct ==
    /\ Caller \notin Tasks
    /\ Tickers \cup Daemons \cup ReaderTasks \subseteq Tasks
    /\ \A t \in Tickers : t \notin Daemons /\ t \notin ReaderTasks
    /\ \A d \in Daemons : d \notin ReaderTasks
  BY DEF Tasks, Tickers, Daemons, ReaderTasks, Caller

LEMMA Named ==
    /\ \A g \in Generations :
            <<"ticker", g>> \in Tickers /\ <<"daemon", g>> \in Daemons
    /\ \A g, h : <<"ticker", g>> = <<"ticker", h>> => g = h
    /\ \A g, h : <<"daemon", g>> = <<"daemon", h>> => g = h
  BY DEF Tickers, Daemons

LEMMA UpNamed ==
    ASSUME TypeInv, CallerInv, up \/ Place \in {"ticker", "daemon"}
    PROVE  /\ gen \in Generations
           /\ up => TickerId \in Tickers /\ DaemonId \in Daemons
           /\ Place = "daemon" => TickerId \in Tickers
  <1>1. gen \in Generations
    BY LifecycleAssumption DEF TypeInv, CallerInv, Generations, Connecting
  <1> QED BY <1>1, Named DEF CallerInv, TickerId, DaemonId

LEMMA CallerGoto ==
    ASSUME TypeInv, NEW from, NEW to, Goto(Caller, from, to)
    PROVE  /\ Place = from /\ Place' = to
           /\ DOMAIN pc' = Tasks \cup {Caller}
           /\ \A t \in Tasks : pc'[t] = pc[t]
  BY Distinct DEF TypeInv, Goto, Place

LEMMA TaskGoto ==
    ASSUME TypeInv, NEW t \in Tasks, NEW from, NEW to, Goto(t, from, to)
    PROVE  /\ pc[t] = from /\ pc'[t] = to /\ Place' = Place
           /\ DOMAIN pc' = Tasks \cup {Caller}
           /\ \A u \in Tasks : u # t => pc'[u] = pc[u]
  BY Distinct DEF TypeInv, Goto, Place

(***************************************************************************)
(* What a step of one task leaves alone of the others.                     *)
(***************************************************************************)
LEMMA CallerKept ==
    ASSUME LifeInv, Place' = Place,
           UNCHANGED <<build, gen, up, idVars, timer, sd, stray, mutexes>>,
           \/ kill_sem' = kill_sem
           \/ Place \in {"waitDaemon", "waitTicker"} /\ kill_sem' = 1
    PROVE  CallerInv' /\ DeviceInv' /\ KillInv'
  <1>1. CallerInv'
    BY DEF LifeInv, CallerInv, Boot, Connecting, Stopping, idVars
  <1>2. DeviceInv'
    BY DEF LifeInv, DeviceInv, Boot, Connecting, Stopping, Down, idVars,
       USE_PICTIMER
  <1>3. KillInv'
    BY DEF LifeInv, KillInv
  <1> QED BY <1>1, <1>2, <1>3

LEMMA TickersKept ==
    ASSUME LifeInv, Place' = Place,
           UNCHANGED <<build, gen, up, idVars, timer, stray, mutexes,
                       tickerRunning>>,
           \A t \in Tickers :
                /\ pc'[t] = pc[t]
                /\ "KILL" \in events'[t] => "KILL" \in events[t],
           Place = "waitTicker" => kill_sem' = kill_sem
    PROVE  TickersInv'
  <1>1. ASSUME NEW t \in Tickers PROVE TickerInv(t)'
    <2>1. TickerInv(t)
      BY DEF LifeInv, TickersInv
    <2> QED BY <2>1 DEF TickerInv, TickerMayRun, Down, Boot, TickerId,
            USE_PICTIMER, idVars
  <1>2. \A g \in Generations : <<"ticker", g>> \in Tickers
    BY Named
  <1>3. up => TickerId \in Tickers /\ TickerId' = TickerId
    BY UpNamed DEF LifeInv, TickerId, idVars
  <1>4. Place = "daemon" => TickerId \in Tickers /\ TickerId' = TickerId
    BY UpNamed DEF LifeInv, TickerId, idVars
  <1>5. Place \in {"killDaemon", "waitDaemon", "killTicker", "waitTicker"}
            => up
    BY DEF LifeInv, CallerInv, Stopping
  <1> QED BY <1>1, <1>2, <1>3, <1>4, <1>5
          DEF LifeInv, TickersInv, Boot, Connecting

LEMMA DaemonsKept ==
    ASSUME LifeInv, Place' = Place, UNCHANGED <<gen, up, daemon_id>>,
           \A d \in Daemons : pc'[d] = pc[d] /\ events'[d] = events[d],
           Place = "waitDaemon" => kill_sem' = kill_sem
    PROVE  DaemonsInv'
  <1>1. ASSUME NEW d \in Daemons PROVE DaemonInv(d)'
    <2>1. DaemonInv(d)
      BY DEF LifeInv, DaemonsInv
    <2> QED BY <2>1 DEF DaemonInv, DaemonId
  <1>2. \A g \in Generations : <<"daemon", g>> \in Daemons
    BY Named
  <1>3. up => DaemonId \in Daemons /\ DaemonId' = DaemonId
    BY UpNamed DEF LifeInv, DaemonId
  <1>4. Place \in {"killDaemon", "waitDaemon"} => up
    BY DEF LifeInv, CallerInv, Stopping
  <1> QED BY <1>1, <1>2, <1>3, <1>4
          DEF LifeInv, DaemonsInv, Boot, Connecting

(* No one comes into the clock or leaves it.                               *)
LEMMA HoldersKept ==
    ASSUME LifeInv,
           UNCHANGED <<build, gen, mutex_id, mutexes, holder>>,
           up' \/ ~up, BeforeMutex' => BeforeMutex \/ gen # 1,
           \A t \in ReaderTasks :
                \/ pc'[t] = pc[t]
                \/ /\ up' /\ pc[t] = "away" /\ pc'[t] = "read"
                   /\ t[2] \in build.readers,
           \A t \in Tasks \cup {Caller} :
                \/ pc'[t] = pc[t]
                \/ pc[t] \notin Inside /\ pc'[t] \notin Inside
    PROVE  HoldersInv' /\ FirstLifeInv'
  <1>1. HoldersInv'
    BY DEF LifeInv, HoldersInv
  <1>2. \A t \in Tasks : pc'[t] \in Inside => pc[t] \in Inside
    OBVIOUS
  <1>3. gen <= 1 /\ MutexKept => ExclusiveInv'
    BY <1>2 DEF LifeInv, FirstLifeInv, ExclusiveInv
  <1> QED BY <1>1, <1>3 DEF LifeInv, FirstLifeInv, MutexKept

LEMMA TypeKept ==
    ASSUME TypeInv, DOMAIN pc' = Tasks \cup {Caller},
           DOMAIN holder' = DOMAIN holder, DOMAIN events' = DOMAIN events,
           UNCHANGED <<build, gen, mutexes>>
    PROVE  TypeInv'
  BY DEF TypeInv, USE_PICTIMER

(***************************************************************************)
(* The tasks.                                                              *)
(***************************************************************************)

(* A ticker that moves is in its code, so that it is the one of ticker_id. *)
LEMMA TickerRuns ==
    ASSUME LifeInv, NEW t \in Tickers, pc[t] \notin Resting
    PROVE  /\ t = TickerId /\ TickerMayRun /\ mutex_id \in mutexes
           /\ \A u \in Tickers : u # t => pc[u] \in Resting
  BY DEF LifeInv, TickersInv, TickerInv

(* Its steps between the places that TickersInv tells apart.               *)
LEMMA TickerMoves ==
    ASSUME LifeInv, NEW t \in Tickers, Place' = Place,
           pc[t] \in Turning,
           pc'[t] \in Turning \cup {"release"},
           pc'[t] = "start" => pc[t] = "start",
           pc'[t] = "release" => Place = "waitTicker",
           UNCHANGED <<build, gen, up, idVars, timer, stray, kill_sem,
                       mutexes>>,
           \/ tickerRunning' = tickerRunning /\ pc[t] # "start"
           \/ USE_PICTIMER \/ tickerRunning',
           "KILL" \in events'[t] => "KILL" \in events[t],
           \A u \in Tickers : u # t => pc'[u] = pc[u]
                                       /\ events'[u] = events[u]
    PROVE  TickersInv'
  <1>1. /\ t = TickerId /\ TickerMayRun /\ mutex_id \in mutexes
        /\ \A u \in Tickers : u # t => pc[u] \in Resting
    BY TickerRuns DEF Resting, Turning
  <1>2. TickerId' = TickerId
    BY DEF TickerId, idVars
  <1>3. ASSUME NEW u \in Tickers PROVE TickerInv(u)'
    <2>1. TickerInv(u) /\ TickerInv(t)
      BY DEF LifeInv, TickersInv
    <2>2. CASE u # t
      BY <2>1, <2>2, <1>1, <1>2 DEF TickerInv, Resting, Turning, idVars,
         USE_PICTIMER
    <2>3. CASE u = t
      BY <2>1, <2>3, <1>1, <1>2 DEF TickerInv, Turning, idVars,
         USE_PICTIMER, TickerMayRun, Down, Boot
    <2> QED BY <2>2, <2>3
  <1>4. \A g \in Generations : <<"ticker", g>> \in Tickers
    BY Named
  <1>5. \A g \in Generations :
            g > gen \/ (g = gen /\ (Boot \/ Connecting))
                => pc[<<"ticker", g>>] = "none"
    BY DEF LifeInv, TickersInv
  <1>6. \A g \in Generations :
            g > gen' \/ (g = gen' /\ (Boot' \/ Connecting'))
                => pc'[<<"ticker", g>>] = "none"
    <2>1. pc[t] # "none"
      BY DEF Turning
    <2> QED BY <1>4, <1>5, <2>1 DEF Boot, Connecting
  <1>7. Place = "waitTicker" => kill_sem # 1
    BY <1>1 DEF LifeInv, TickersInv, Turning
  <1> QED BY <1>1, <1>2, <1>3, <1>6, <1>7 DEF TickersInv, Turning

LEMMA TickerQuiet ==
    ASSUME LifeInv, NEW t \in Tickers,
           \/ TickerStart(t) \/ PeriodOver(t) \/ TimerEvent(t)
           \/ TickerLoop(t)
    PROVE  LifeInv'
  <1>1. PICK from, to : Goto(t, from, to)
    BY DEF TickerStart, PeriodOver, TimerEvent, TickerLoop
  <1>2. /\ pc[t] = from /\ pc'[t] = to /\ Place' = Place
        /\ DOMAIN pc' = Tasks \cup {Caller}
        /\ \A u \in Tasks : u # t => pc'[u] = pc[u]
    BY <1>1, TaskGoto, Distinct DEF LifeInv
  <1>3. /\ UNCHANGED <<build, gen, up, idVars, timer, sd, stray, mutexes,
                       holder, kill_sem>>
        /\ DOMAIN events' = DOMAIN events
        /\ \A u \in Tasks : u # t => events'[u] = events[u]
        /\ "KILL" \in events'[t] => "KILL" \in events[t]
    <2>1. DOMAIN events = Tasks /\ t \in Tasks
      BY Distinct DEF LifeInv, TypeInv
    <2> QED BY <2>1 DEF TickerStart, PeriodOver, TimerEvent, TickerLoop,
            mutexVars, killVars, callerVars, historyVars
  <1>4. TickerInv(t)
    BY DEF LifeInv, TickersInv
  <1>5. /\ pc[t] \in {"start", "wait", "loop"}
        /\ pc'[t] \in {"wait", "body", "release"}
        /\ pc'[t] = "release" => Place = "waitTicker"
        /\ \/ tickerRunning' = tickerRunning /\ pc[t] # "start"
           \/ USE_PICTIMER \/ tickerRunning'
    <2>1. CASE TickerStart(t)
      <3>1. pc[t] = "start" /\ pc'[t] = "wait"
        BY <2>1, TaskGoto, Distinct DEF TickerStart, LifeInv
      <3>2. USE_PICTIMER \/ tickerRunning'
        BY <2>1 DEF TickerStart
      <3> QED BY <3>1, <3>2
    <2>2. CASE PeriodOver(t)
      BY <2>2, <1>2, TaskGoto, Distinct DEF PeriodOver, LifeInv, killVars
    <2>3. CASE TimerEvent(t)
      <3>1. pc[t] = "wait" /\ pc'[t] \in {"body", "release"}
        BY <2>3, TaskGoto, Distinct DEF TimerEvent, LifeInv
      <3>2. pc'[t] = "release" => "KILL" \in events[t]
        BY <2>3, <3>1, TaskGoto, Distinct DEF TimerEvent, LifeInv
      <3> QED BY <2>3, <3>1, <3>2, <1>4 DEF TimerEvent, TickerInv
    <2>4. CASE TickerLoop(t)
      <3>1. /\ pc[t] = "loop" /\ pc'[t] \in {"wait", "release"}
            /\ pc'[t] = "release" => ~USE_PICTIMER /\ ~tickerRunning
        BY <2>4, TaskGoto, Distinct DEF TickerLoop, LifeInv
      <3> QED BY <2>4, <3>1, <1>4 DEF TickerLoop, TickerInv, Turning,
              killVars
    <2> QED BY <2>1, <2>2, <2>3, <2>4
  <1>6. \A u \in Tickers : u # t => pc'[u] = pc[u] /\ events'[u] = events[u]
    BY <1>2, <1>3, Distinct
  <1>7. TickersInv'
    BY <1>2, <1>3, <1>5, <1>6, TickerMoves DEF Turning
  <1>8. \A d \in Daemons : pc'[d] = pc[d] /\ events'[d] = events[d]
    BY <1>2, <1>3, Distinct
  <1>9. DaemonsInv'
    BY <1>2, <1>3, <1>8, DaemonsKept DEF idVars
  <1>10. HoldersInv' /\ FirstLifeInv'
    <2>1. \A u \in ReaderTasks : pc'[u] = pc[u]
      BY <1>2, Distinct
    <2>2. \A u \in Tasks \cup {Caller} :
                \/ pc'[u] = pc[u]
                \/ pc[u] \notin Inside /\ pc'[u] \notin Inside
      BY <1>2, <1>5 DEF Inside, Place
    <2> QED BY <1>2, <1>3, <2>1, <2>2, HoldersKept
            DEF BeforeMutex, Boot, idVars
  <1>11. TypeInv'
    BY <1>2, <1>3, TypeKept DEF LifeInv
  <1>12. CallerInv' /\ DeviceInv' /\ KillInv'
    BY <1>2, <1>3, CallerKept
  <1> QED BY <1>7, <1>9, <1>10, <1>11, <1>12 DEF LifeInv

LEMMA TickerReleased ==
    ASSUME LifeInv, NEW t \in Tickers, TickerRelease(t)
    PROVE  LifeInv'
  <1>1. /\ TickerInv(t) /\ pc[t] = "release"
    BY TaskGoto, Distinct DEF LifeInv, TickersInv, TickerRelease
  <1>2. /\ Place = "waitTicker" /\ t = TickerId
        /\ \A u \in Tickers : u # t => pc[u] \in Resting
    BY <1>1, TickerRuns DEF TickerInv, Resting
  <1>3. kill_sem \in {0, 1} /\ kill_sem' = 1
    BY <1>2 DEF LifeInv, KillInv, TickerRelease
  <1>4. /\ pc'[t] = "suspended" /\ Place' = Place
        /\ DOMAIN pc' = Tasks \cup {Caller}
        /\ \A u \in Tasks : u # t => pc'[u] = pc[u]
    BY <1>3, TaskGoto, Distinct DEF LifeInv, TickerRelease
  <1>5. UNCHANGED <<build, gen, up, idVars, timer, sd, stray, mutexes,
                    holder, events, tickerRunning>>
    BY DEF TickerRelease, mutexVars, callerVars, historyVars
  <1>6. TickerId' = TickerId
    BY <1>5 DEF TickerId, idVars
  <1>7. ASSUME NEW u \in Tickers PROVE TickerInv(u)'
    <2>1. TickerInv(u) /\ u \in Tasks
      BY Distinct DEF LifeInv, TickersInv
    <2>2. CASE u # t
      BY <2>1, <2>2, <1>2, <1>4, <1>5, <1>6
         DEF TickerInv, Resting, Turning, USE_PICTIMER
    <2>3. CASE u = t
      BY <2>1, <2>3, <1>4, <1>5 DEF TickerInv, Resting, Turning
    <2> QED BY <2>2, <2>3
  <1>8. TickersInv'
    <2>1. \A g \in Generations :
            g > gen' \/ (g = gen' /\ (Boot' \/ Connecting'))
                => pc'[<<"ticker", g>>] = "none"
      <3>1. \A g \in Generations : <<"ticker", g>> \in Tasks
        BY Named, Distinct
      <3> QED BY <3>1, <1>1, <1>2, <1>4, <1>5
              DEF LifeInv, TickersInv, Boot, Connecting
    <2> QED BY <2>1, <1>2, <1>4, <1>6, <1>7 DEF TickersInv
  <1>9. DaemonsInv'
    <2>1. \A d \in Daemons : pc'[d] = pc[d] /\ events'[d] = events[d]
      BY <1>4, <1>5, Distinct
    <2> QED BY <2>1, <1>2, <1>4, <1>5, DaemonsKept DEF idVars
  <1>10. HoldersInv' /\ FirstLifeInv'
    <2>1. \A u \in ReaderTasks : pc'[u] = pc[u]
      BY <1>4, Distinct
    <2>2. \A u \in Tasks \cup {Caller} :
                \/ pc'[u] = pc[u]
                \/ pc[u] \notin Inside /\ pc'[u] \notin Inside
      BY <1>1, <1>4 DEF Inside, Place
    <2> QED BY <1>4, <1>5, <2>1, <2>2, HoldersKept
            DEF BeforeMutex, Boot, idVars
  <1>11. TypeInv'
    BY <1>4, <1>5, TypeKept DEF LifeInv
  <1>12. CallerInv' /\ DeviceInv' /\ KillInv'
    BY <1>2, <1>3, <1>4, <1>5, CallerKept
  <1> QED BY <1>8, <1>9, <1>10, <1>11, <1>12 DEF LifeInv

(* A daemon that moves is the one of daemon_id, with the clock up.         *)
LEMMA DaemonRuns ==
    ASSUME LifeInv, NEW d \in Daemons, pc[d] \notin Resting
    PROVE  /\ d = DaemonId /\ up
           /\ Place \in {"idle", "killDaemon", "waitDaemon"}
           /\ mutex_id \in mutexes
           /\ \A u \in Daemons : u # d => pc[u] \in Resting
  BY DEF LifeInv, DaemonsInv, DaemonInv, CallerInv

(* Its steps between the places that DaemonsInv tells apart.               *)
LEMMA DaemonMoves ==
    ASSUME LifeInv, NEW d \in Daemons, Place' = Place,
           \/ pc[d] \in Polling /\ pc'[d] \in Polling
           \/ /\ pc[d] \in Polling \cup Ending /\ pc'[d] \in Ending
              /\ Place = "waitDaemon",
           UNCHANGED <<gen, up, daemon_id, kill_sem>>,
           events'[d] # {} => events[d] # {},
           \A u \in Daemons : u # d => pc'[u] = pc[u]
                                       /\ events'[u] = events[u]
    PROVE  DaemonsInv'
  <1>1. /\ d = DaemonId /\ up
        /\ Place \in {"idle", "killDaemon", "waitDaemon"}
        /\ \A u \in Daemons : u # d => pc[u] \in Resting
    BY DaemonRuns DEF Resting, Polling, Ending
  <1>2. DaemonId' = DaemonId
    BY DEF DaemonId
  <1>3. ASSUME NEW u \in Daemons PROVE DaemonInv(u)'
    <2>1. DaemonInv(u)
      BY DEF LifeInv, DaemonsInv
    <2>2. CASE u # d
      BY <2>1, <2>2, <1>1, <1>2 DEF DaemonInv, Resting, Ending
    <2>3. CASE u = d
      BY <2>1, <2>3, <1>1, <1>2 DEF DaemonInv, Polling, Ending
    <2> QED BY <2>2, <2>3
  <1>4. \A g \in Generations :
            g > gen' \/ (g = gen' /\ (Boot' \/ Connecting'
                                        \/ Place' = "daemon"))
                => pc'[<<"daemon", g>>] = "none"
    <2>1. pc[d] # "none"
      BY DEF Polling, Ending
    <2>2. \A g \in Generations : <<"daemon", g>> \in Daemons
      BY Named
    <2> QED BY <2>1, <2>2 DEF LifeInv, DaemonsInv, Boot, Connecting
  <1>5. kill_sem = 1 => Place # "waitDaemon"
    BY <1>1 DEF LifeInv, DaemonsInv, Polling, Ending
  <1> QED BY <1>1, <1>2, <1>3, <1>4, <1>5
          DEF LifeInv, DaemonsInv, Polling, Ending

LEMMA DaemonQuiet ==
    ASSUME LifeInv, NEW d \in Daemons, DaemonPoll(d) \/ DaemonKilled(d)
    PROVE  LifeInv'
  <1>1. PICK to \in {"work", "final"} : Goto(d, "wait", to)
    BY DEF DaemonPoll, DaemonKilled
  <1>2. /\ pc[d] = "wait" /\ pc'[d] = to /\ Place' = Place
        /\ DOMAIN pc' = Tasks \cup {Caller}
        /\ \A u \in Tasks : u # d => pc'[u] = pc[u]
    BY <1>1, TaskGoto, Distinct DEF LifeInv
  <1>3. /\ UNCHANGED <<build, gen, up, idVars, timer, sd, stray, mutexes,
                       holder, kill_sem, tickerRunning>>
        /\ DOMAIN events' = DOMAIN events
        /\ \A u \in Tasks : u # d => events'[u] = events[u]
        /\ events'[d] # {} => events[d] # {}
    <2>1. DOMAIN events = Tasks /\ d \in Tasks
      BY Distinct DEF LifeInv, TypeInv
    <2> QED BY <2>1 DEF DaemonPoll, DaemonKilled, mutexVars, killVars,
            callerVars, historyVars
  <1>4. to = "final" => Place = "waitDaemon"
    <2>1. CASE DaemonPoll(d)
      <3>1. pc'[d] = "work"
        BY <2>1, TaskGoto, Distinct DEF DaemonPoll, LifeInv
      <3> QED BY <3>1, <1>2
    <2>2. CASE DaemonKilled(d)
      <3>1. events[d] # {}
        BY <2>2 DEF DaemonKilled
      <3> QED BY <3>1, <1>2 DEF LifeInv, DaemonsInv, DaemonInv
    <2> QED BY <2>1, <2>2
  <1>5. DaemonsInv'
    <2>1. \A u \in Daemons : u # d => pc'[u] = pc[u]
                                      /\ events'[u] = events[u]
      BY <1>2, <1>3, Distinct
    <2> QED BY <2>1, <1>2, <1>3, <1>4, DaemonMoves
            DEF idVars, Polling, Ending
  <1>6. TickersInv'
    <2>1. \A t \in Tickers : pc'[t] = pc[t] /\ events'[t] = events[t]
      BY <1>2, <1>3, Distinct
    <2> QED BY <2>1, <1>2, <1>3, TickersKept
  <1>7. HoldersInv' /\ FirstLifeInv'
    <2>1. \A u \in ReaderTasks : pc'[u] = pc[u]
      BY <1>2, Distinct
    <2>2. \A u \in Tasks \cup {Caller} :
                \/ pc'[u] = pc[u]
                \/ pc[u] \notin Inside /\ pc'[u] \notin Inside
      BY <1>2 DEF Inside, Place
    <2> QED BY <1>2, <1>3, <2>1, <2>2, HoldersKept
            DEF BeforeMutex, Boot, idVars
  <1>8. TypeInv'
    BY <1>2, <1>3, TypeKept DEF LifeInv
  <1>9. CallerInv' /\ DeviceInv' /\ KillInv'
    BY <1>2, <1>3, CallerKept
  <1> QED BY <1>5, <1>6, <1>7, <1>8, <1>9 DEF LifeInv

LEMMA DaemonReleased ==
    ASSUME LifeInv, NEW d \in Daemons, DaemonRelease(d)
    PROVE  LifeInv'
  <1>1. /\ pc[d] = "release" /\ pc'[d] = "suspended" /\ Place' = Place
        /\ DOMAIN pc' = Tasks \cup {Caller}
        /\ \A u \in Tasks : u # d => pc'[u] = pc[u]
    BY TaskGoto, Distinct DEF LifeInv, DaemonRelease
  <1>2. /\ Place = "waitDaemon" /\ d = DaemonId
        /\ \A u \in Daemons : u # d => pc[u] \in Resting
    <2>1. DaemonInv(d)
      BY DEF LifeInv, DaemonsInv
    <2> QED BY <2>1, <1>1, DaemonRuns DEF DaemonInv, Ending, Resting
  <1>3. kill_sem \in {0, 1} /\ kill_sem' = 1
    BY <1>2 DEF LifeInv, KillInv, DaemonRelease
  <1>4. UNCHANGED <<build, gen, up, idVars, timer, sd, stray, mutexes,
                    holder, events, tickerRunning>>
    BY DEF DaemonRelease, mutexVars, callerVars, historyVars
  <1>5. DaemonsInv'
    <2>1. DaemonId' = DaemonId
      BY <1>4 DEF DaemonId, idVars
    <2>2. ASSUME NEW u \in Daemons PROVE DaemonInv(u)'
      <3>1. DaemonInv(u) /\ u \in Tasks
        BY Distinct DEF LifeInv, DaemonsInv
      <3>2. CASE u # d
        BY <2>1, <3>1, <3>2, <1>1, <1>2, <1>4 DEF DaemonInv, Resting
      <3>3. CASE u = d
        BY <3>1, <3>3, <1>1, <1>4 DEF DaemonInv, Resting, Ending
      <3> QED BY <3>2, <3>3
    <2>3. \A g \in Generations : <<"daemon", g>> \in Tasks
      BY Named, Distinct
    <2>4. \A g \in Generations :
            g > gen' \/ (g = gen' /\ (Boot' \/ Connecting'
                                        \/ Place' = "daemon"))
                => pc'[<<"daemon", g>>] = "none"
      BY <2>3, <1>1, <1>2, <1>4 DEF LifeInv, DaemonsInv, Boot, Connecting
    <2> QED BY <2>1, <2>2, <2>4, <1>1, <1>2 DEF DaemonsInv
  <1>6. TickersInv'
    <2>1. \A t \in Tickers : pc'[t] = pc[t] /\ events'[t] = events[t]
      BY <1>1, <1>4, Distinct
    <2> QED BY <2>1, <1>1, <1>2, <1>4, TickersKept
  <1>7. HoldersInv' /\ FirstLifeInv'
    <2>1. \A u \in ReaderTasks : pc'[u] = pc[u]
      BY <1>1, Distinct
    <2>2. \A u \in Tasks \cup {Caller} :
                \/ pc'[u] = pc[u]
                \/ pc[u] \notin Inside /\ pc'[u] \notin Inside
      BY <1>1 DEF Inside, Place
    <2> QED BY <1>1, <1>4, <2>1, <2>2, HoldersKept
            DEF BeforeMutex, Boot, idVars
  <1>8. TypeInv'
    BY <1>1, <1>4, TypeKept DEF LifeInv
  <1>9. CallerInv' /\ DeviceInv' /\ KillInv'
    BY <1>1, <1>2, <1>3, <1>4, CallerKept
  <1> QED BY <1>5, <1>6, <1>7, <1>8, <1>9 DEF LifeInv

LEMMA ReaderSets ==
    ASSUME LifeInv, NEW t \in ReaderTasks,
           t[2] \in build.readers /\ up /\ pc[Caller] = "idle",
           Goto(t, "away", "read"),
           UNCHANGED <<mutexVars, killVars, callerVars>>
    PROVE  LifeInv'
  <1>1. /\ pc[t] = "away" /\ pc'[t] = "read" /\ Place' = Place
        /\ DOMAIN pc' = Tasks \cup {Caller}
        /\ \A u \in Tasks : u # t => pc'[u] = pc[u]
    BY TaskGoto, Distinct DEF LifeInv
  <1>2. UNCHANGED <<build, gen, up, idVars, timer, sd, stray, mutexes,
                    holder, kill_sem, events, tickerRunning>>
    BY DEF mutexVars, killVars, callerVars, historyVars
  <1>3. /\ \A u \in Tickers : pc'[u] = pc[u] /\ events'[u] = events[u]
        /\ \A u \in Daemons : pc'[u] = pc[u] /\ events'[u] = events[u]
    BY <1>1, <1>2, Distinct
  <1>4. TickersInv' /\ DaemonsInv'
    BY <1>1, <1>2, <1>3, TickersKept, DaemonsKept DEF idVars
  <1>5. HoldersInv' /\ FirstLifeInv'
    <2>1. \A u \in ReaderTasks : u \in Tasks
      BY Distinct
    <2>2. \A u \in Tasks \cup {Caller} :
                \/ pc'[u] = pc[u]
                \/ pc[u] \notin Inside /\ pc'[u] \notin Inside
      BY <1>1 DEF Inside, Place
    <2>3. \A u \in ReaderTasks :
                \/ pc'[u] = pc[u]
                \/ /\ up' /\ pc[u] = "away" /\ pc'[u] = "read"
                   /\ u[2] \in build.readers
      BY <1>1, <1>2, <2>1
    <2> QED BY <1>1, <1>2, <2>2, <2>3, HoldersKept
            DEF BeforeMutex, Boot, idVars
  <1>6. TypeInv'
    BY <1>1, <1>2, TypeKept DEF LifeInv
  <1>7. CallerInv' /\ DeviceInv' /\ KillInv'
    BY <1>1, <1>2, CallerKept
  <1> QED BY <1>4, <1>5, <1>6, <1>7 DEF LifeInv

(***************************************************************************)
(* Into the clock and out of it.                                           *)
(***************************************************************************)
LEMMA Entered ==
    ASSUME LifeInv, NEW t \in Tasks, splclock(t),
           pc[t] \notin Inside \cup Resting \cup {"away"},
           pc'[t] \in Inside, t \in ReaderTasks => pc'[t] = "inRead",
           Place' = Place, \A u \in Tasks : u # t => pc'[u] = pc[u],
           UNCHANGED <<build, gen, up, mutex_id>>
    PROVE  /\ mutexes' = mutexes /\ DOMAIN holder' = Generations
           /\ HoldersInv' /\ FirstLifeInv'
  <1>1. mutexes' = mutexes /\ mutexes \subseteq Generations
        /\ DOMAIN holder = Generations
    BY DEF LifeInv, TypeInv, splclock, mutexVars
  <1>2. t \in ReaderTasks => t[2] \in build.readers
    BY DEF LifeInv, HoldersInv
  <1>3. gen <= 1 /\ MutexKept => mutex_id \in mutexes
    <2>1. CASE t \in Tickers
      BY <2>1, TickerRuns
    <2>2. CASE t \in Daemons
      BY <2>2, DaemonRuns
    <2>3. CASE t \in ReaderTasks
      BY <2>3 DEF LifeInv, CallerInv, FirstLifeInv, ExclusiveInv
    <2> QED BY <2>1, <2>2, <2>3 DEF Tasks
  <1>4. \/ mutex_id \notin mutexes /\ holder' = holder
        \/ /\ mutex_id \in mutexes /\ holder[mutex_id] = {}
           /\ holder'[mutex_id] = {t} /\ DOMAIN holder' = Generations
           /\ \A g \in Generations : g # mutex_id => holder'[g] = holder[g]
    BY <1>1 DEF splclock, mutexVars
  <1>5. HoldersInv'
    <2>1. ASSUME NEW g \in Generations, NEW u \in holder'[g]
          PROVE  /\ u \in Tasks \cup {Caller}
                 /\ u \notin ReaderTasks => g = mutex_id' /\ pc'[u] \in Inside
      <3>1. CASE u \in holder[g]
        BY <3>1 DEF LifeInv, HoldersInv, Place
      <3>2. CASE u \notin holder[g]
        BY <3>2, <1>4
      <3> QED BY <3>1, <3>2
    <2>2. ASSUME NEW u \in ReaderTasks
          PROVE  /\ pc'[u] \in {"away", "read", "inRead"}
                 /\ u[2] \notin build'.readers =>
                        /\ pc'[u] = "away"
                        /\ \A g \in Generations : u \notin holder'[g]
      <3>1. u \in Tasks
        BY Distinct
      <3>2. CASE u = t
        BY <3>2, <1>2
      <3>3. CASE u # t
        BY <3>1, <3>3, <1>4 DEF LifeInv, HoldersInv
      <3> QED BY <3>2, <3>3
    <2> QED BY <2>1, <2>2 DEF HoldersInv
  <1>6. FirstLifeInv'
    <2>1. ASSUME gen <= 1 /\ MutexKept PROVE ExclusiveInv'
      <3>1. mutex_id \in mutexes /\ ExclusiveInv
        BY <2>1, <1>3 DEF LifeInv, FirstLifeInv
      <3>2. holder[mutex_id] = {} /\ holder'[mutex_id] = {t}
        BY <3>1, <1>4
      <3>3. \A u \in Tasks : pc[u] \notin Inside
        BY <3>1, <3>2 DEF ExclusiveInv
      <3>4. \A u \in ReaderTasks : u \in Tasks
        BY Distinct
      <3>5. 0 \notin mutexes
        BY <1>1 DEF Generations
      <3> QED BY <1>1, <3>1, <3>2, <3>3, <3>4, <3>5 DEF ExclusiveInv
    <2>2. BeforeMutex' => BeforeMutex
      BY DEF BeforeMutex, Boot
    <2> QED BY <2>1, <2>2, <1>1 DEF LifeInv, FirstLifeInv, MutexKept
  <1> QED BY <1>1, <1>4, <1>5, <1>6

LEMMA Left ==
    ASSUME LifeInv, NEW t \in Tasks \cup {Caller}, splx(t),
           pc[t] \in Inside, pc'[t] \notin Inside,
           t \in ReaderTasks => pc'[t] = "away",
           \A u \in Tasks \cup {Caller} : u # t => pc'[u] = pc[u],
           BeforeMutex' => BeforeMutex,
           UNCHANGED <<build, gen, up, mutex_id>>
    PROVE  /\ mutexes' = mutexes /\ DOMAIN holder' = Generations
           /\ HoldersInv' /\ FirstLifeInv'
  <1>1. /\ mutexes' = mutexes /\ DOMAIN holder' = Generations
        /\ \A g \in Generations :
                holder'[g] = IF g = mutex_id THEN holder[g] \ {t}
                             ELSE holder[g]
        /\ mutexes \subseteq Generations
    BY DEF splx, LifeInv, TypeInv
  <1>2. ReaderTasks \subseteq Tasks
    BY Distinct
  <1>3. HoldersInv'
    <2>1. ASSUME NEW g \in Generations, NEW u \in holder'[g]
          PROVE  /\ u \in Tasks \cup {Caller}
                 /\ u \notin ReaderTasks => g = mutex_id' /\ pc'[u] \in Inside
      <3>1. /\ u \in holder[g] /\ (g = mutex_id => u # t)
        BY <1>1
      <3>2. /\ u \in Tasks \cup {Caller}
            /\ u \notin ReaderTasks => g = mutex_id /\ pc[u] \in Inside
        BY <3>1 DEF LifeInv, HoldersInv
      <3> QED BY <3>1, <3>2
    <2>2. ASSUME NEW u \in ReaderTasks
          PROVE  /\ pc'[u] \in {"away", "read", "inRead"}
                 /\ u[2] \notin build'.readers =>
                        /\ pc'[u] = "away"
                        /\ \A g \in Generations : u \notin holder'[g]
      <3>1. \A g \in Generations : holder'[g] \subseteq holder[g]
        BY <1>1
      <3> QED BY <1>2, <3>1 DEF LifeInv, HoldersInv
    <2> QED BY <2>1, <2>2 DEF HoldersInv
  <1>4. FirstLifeInv'
    <2>1. ASSUME gen <= 1 /\ MutexKept PROVE ExclusiveInv'
      <3>1. ExclusiveInv
        BY <2>1 DEF LifeInv, FirstLifeInv
      <3>2. \A g \in Generations : holder'[g] \subseteq holder[g]
        BY <1>1
      <3>3. \A u \in ReaderTasks : pc'[u] # "away" => up'
        BY <1>2, <3>1 DEF ExclusiveInv
      <3>4. mutex_id' = 0 => \A g \in Generations : holder'[g] = {}
        BY <3>1, <3>2 DEF ExclusiveInv
      <3>5. ASSUME NEW u \in Tasks, pc'[u] \in Inside
            PROVE  mutex_id \in mutexes /\ u \in holder'[mutex_id]
        BY <1>1, <3>1, <3>5 DEF ExclusiveInv
      <3>6. mutex_id \in mutexes => \A u, v \in holder'[mutex_id] : u = v
        BY <1>1, <3>1, <3>2 DEF ExclusiveInv
      <3> QED BY <1>1, <3>3, <3>4, <3>5, <3>6 DEF ExclusiveInv
    <2> QED BY <2>1, <1>1 DEF LifeInv, FirstLifeInv, MutexKept
  <1> QED BY <1>1, <1>3, <1>4

LEMMA TickerBodyInv ==
    ASSUME LifeInv, NEW t \in Tickers,
           Enter(t, "body", "inBody") \/ Leave(t, "inBody", "loop")
    PROVE  LifeInv'
  <1>1. /\ \/ pc[t] = "body" /\ pc'[t] = "inBody" /\ splclock(t)
           \/ pc[t] = "inBody" /\ pc'[t] = "loop" /\ splx(t)
        /\ Place' = Place /\ DOMAIN pc' = Tasks \cup {Caller}
        /\ \A u \in Tasks : u # t => pc'[u] = pc[u]
    BY TaskGoto, Distinct DEF LifeInv, Enter, Leave
  <1>2. UNCHANGED <<build, gen, up, idVars, timer, sd, stray, kill_sem, events,
                    tickerRunning>>
    BY DEF Enter, Leave, killVars, callerVars, historyVars
  <1>3. /\ mutexes' = mutexes /\ DOMAIN holder' = Generations
        /\ HoldersInv' /\ FirstLifeInv'
    <2>1. t \in Tasks /\ t \notin ReaderTasks
      BY Distinct
    <2>2. CASE pc[t] = "body"
      BY <2>1, <2>2, <1>1, <1>2, Entered DEF Inside, Resting, idVars
    <2>3. CASE pc[t] = "inBody"
      <3>1. \A u \in Tasks \cup {Caller} : u # t => pc'[u] = pc[u]
        BY <1>1 DEF Place
      <3>2. BeforeMutex' => BeforeMutex
        BY <1>1 DEF BeforeMutex, Boot
      <3> QED BY <2>1, <2>3, <3>1, <3>2, <1>1, <1>2, Left DEF Inside, idVars
    <2> QED BY <1>1, <2>2, <2>3
  <1>4. TickersInv'
    <2>1. \A u \in Tickers : u # t => pc'[u] = pc[u] /\ events'[u] = events[u]
      BY <1>1, <1>2, Distinct
    <2>2. pc[t] \in {"body", "inBody"} /\ pc'[t] \in {"inBody", "loop"}
      BY <1>1
    <2> QED BY <2>1, <2>2, <1>1, <1>2, <1>3, TickerMoves DEF Turning
  <1>5. DaemonsInv'
    <2>1. \A d \in Daemons : pc'[d] = pc[d] /\ events'[d] = events[d]
      BY <1>1, <1>2, Distinct
    <2> QED BY <2>1, <1>1, <1>2, DaemonsKept DEF idVars
  <1>6. TypeInv'
    BY <1>1, <1>2, <1>3, TypeKept DEF LifeInv, TypeInv
  <1>7. CallerInv' /\ DeviceInv' /\ KillInv'
    BY <1>1, <1>2, <1>3, CallerKept
  <1> QED BY <1>3, <1>4, <1>5, <1>6, <1>7 DEF LifeInv

LEMMA DaemonWorkInv ==
    ASSUME LifeInv, NEW d \in Daemons,
           \/ Enter(d, "start", "inWork") \/ Enter(d, "work", "inWork")
           \/ Leave(d, "inWork", "wait")
           \/ Enter(d, "final", "inFinal") \/ Leave(d, "inFinal", "release")
    PROVE  LifeInv'
  <1>1. /\ \/ /\ \/ pc[d] \in {"start", "work"} /\ pc'[d] = "inWork"
                 \/ pc[d] = "final" /\ pc'[d] = "inFinal"
              /\ splclock(d)
           \/ /\ \/ pc[d] = "inWork" /\ pc'[d] = "wait"
                 \/ pc[d] = "inFinal" /\ pc'[d] = "release"
              /\ splx(d)
        /\ Place' = Place /\ DOMAIN pc' = Tasks \cup {Caller}
        /\ \A u \in Tasks : u # d => pc'[u] = pc[u]
    BY TaskGoto, Distinct DEF LifeInv, Enter, Leave
  <1>2. UNCHANGED <<build, gen, up, idVars, timer, sd, stray, kill_sem, events,
                    tickerRunning>>
    BY DEF Enter, Leave, killVars, callerVars, historyVars
  <1>3. /\ mutexes' = mutexes /\ DOMAIN holder' = Generations
        /\ HoldersInv' /\ FirstLifeInv'
    <2>1. d \in Tasks /\ d \notin ReaderTasks
      BY Distinct
    <2>2. CASE splclock(d) /\ pc[d] \in {"start", "work", "final"}
      <3>1. pc[d] \notin Inside \cup Resting \cup {"away"}
            /\ pc'[d] \in Inside
        BY <2>2, <1>1 DEF Inside, Resting
      <3> QED BY <2>1, <2>2, <3>1, <1>1, <1>2, Entered DEF idVars
    <2>3. CASE splx(d) /\ pc[d] \in {"inWork", "inFinal"}
      <3>1. \A u \in Tasks \cup {Caller} : u # d => pc'[u] = pc[u]
        BY <1>1 DEF Place
      <3>2. BeforeMutex' => BeforeMutex
        BY <1>1 DEF BeforeMutex, Boot
      <3>3. pc[d] \in Inside /\ pc'[d] \notin Inside
        BY <2>3, <1>1 DEF Inside
      <3> QED BY <2>1, <2>3, <3>1, <3>2, <3>3, <1>2, Left DEF idVars
    <2> QED BY <1>1, <2>2, <2>3
  <1>4. DaemonsInv'
    <2>1. \A u \in Daemons : u # d => pc'[u] = pc[u] /\ events'[u] = events[u]
      BY <1>1, <1>2, Distinct
    <2>2. DaemonInv(d)
      BY DEF LifeInv, DaemonsInv
    <2>3. \/ pc[d] \in Polling /\ pc'[d] \in Polling
          \/ /\ pc[d] \in Ending /\ pc'[d] \in Ending
             /\ Place = "waitDaemon"
      BY <1>1, <2>2 DEF DaemonInv, Polling, Ending
    <2> QED BY <2>1, <2>3, <1>1, <1>2, DaemonMoves DEF idVars
  <1>5. TickersInv'
    <2>1. \A t \in Tickers : pc'[t] = pc[t] /\ events'[t] = events[t]
      BY <1>1, <1>2, Distinct
    <2> QED BY <2>1, <1>1, <1>2, <1>3, TickersKept
  <1>6. TypeInv'
    BY <1>1, <1>2, <1>3, TypeKept DEF LifeInv, TypeInv
  <1>7. CallerInv' /\ DeviceInv' /\ KillInv'
    BY <1>1, <1>2, <1>3, CallerKept
  <1> QED BY <1>3, <1>4, <1>5, <1>6, <1>7 DEF LifeInv

LEMMA ReaderReadsInv ==
    ASSUME LifeInv, NEW t \in ReaderTasks,
           Enter(t, "read", "inRead") \/ Leave(t, "inRead", "away")
    PROVE  LifeInv'
  <1>1. /\ \/ pc[t] = "read" /\ pc'[t] = "inRead" /\ splclock(t)
           \/ pc[t] = "inRead" /\ pc'[t] = "away" /\ splx(t)
        /\ Place' = Place /\ DOMAIN pc' = Tasks \cup {Caller}
        /\ \A u \in Tasks : u # t => pc'[u] = pc[u]
    BY TaskGoto, Distinct DEF LifeInv, Enter, Leave
  <1>2. UNCHANGED <<build, gen, up, idVars, timer, sd, stray, kill_sem, events,
                    tickerRunning>>
    BY DEF Enter, Leave, killVars, callerVars, historyVars
  <1>3. /\ mutexes' = mutexes /\ DOMAIN holder' = Generations
        /\ HoldersInv' /\ FirstLifeInv'
    <2>1. t \in Tasks
      BY Distinct
    <2>2. CASE pc[t] = "read"
      BY <2>1, <2>2, <1>1, <1>2, Entered DEF Inside, Resting, idVars
    <2>3. CASE pc[t] = "inRead"
      <3>1. \A u \in Tasks \cup {Caller} : u # t => pc'[u] = pc[u]
        BY <1>1 DEF Place
      <3>2. BeforeMutex' => BeforeMutex
        BY <1>1 DEF BeforeMutex, Boot
      <3> QED BY <2>1, <2>3, <3>1, <3>2, <1>1, <1>2, Left DEF Inside, idVars
    <2> QED BY <1>1, <2>2, <2>3
  <1>4. /\ \A u \in Tickers : pc'[u] = pc[u] /\ events'[u] = events[u]
        /\ \A u \in Daemons : pc'[u] = pc[u] /\ events'[u] = events[u]
    BY <1>1, <1>2, Distinct
  <1>5. TickersInv' /\ DaemonsInv'
    BY <1>1, <1>2, <1>3, <1>4, TickersKept, DaemonsKept DEF idVars
  <1>6. TypeInv'
    BY <1>1, <1>2, <1>3, TypeKept DEF LifeInv, TypeInv
  <1>7. CallerInv' /\ DeviceInv' /\ KillInv'
    BY <1>1, <1>2, <1>3, CallerKept
  <1> QED BY <1>3, <1>5, <1>6, <1>7 DEF LifeInv

LEMMA TaskInv ==
    ASSUME LifeInv,
           \/ \E t \in Tickers : tickerDaemon(t)
           \/ \E t \in Daemons : ntpDaemon(t)
           \/ \E t \in ReaderTasks : ntp_gettime(t)
    PROVE  LifeInv'
  <1>1. ASSUME NEW t \in Tickers, tickerDaemon(t) PROVE LifeInv'
    BY <1>1, TickerQuiet, TickerBodyInv, TickerReleased DEF tickerDaemon
  <1>2. ASSUME NEW d \in Daemons, ntpDaemon(d) PROVE LifeInv'
    BY <1>2, DaemonQuiet, DaemonWorkInv, DaemonReleased DEF ntpDaemon
  <1>3. ASSUME NEW t \in ReaderTasks, ntp_gettime(t) PROVE LifeInv'
    BY <1>3, ReaderSets, ReaderReadsInv DEF ntp_gettime
  <1> QED BY <1>1, <1>2, <1>3

LEMMA ClockIsrInv ==
    ASSUME LifeInv, ClockIsr
    PROVE  LifeInv'
  <1>1. /\ UNCHANGED <<pc, build, gen, up, idVars, timer, sd, stray, mutexes,
                       holder, kill_sem, tickerRunning>>
        /\ Place' = Place
    BY DEF ClockIsr, mutexVars, callerVars, historyVars, Place
  <1>2. /\ DOMAIN events' = DOMAIN events
        /\ \A t \in Tickers : "KILL" \in events'[t] => "KILL" \in events[t]
        /\ \A d \in Daemons : events'[d] = events[d]
    <2>1. TickerId \notin Daemons
      BY DEF TickerId, Daemons
    <2>2. Tickers \cup Daemons \subseteq DOMAIN events
      BY Distinct DEF LifeInv, TypeInv
    <2> QED BY <2>1, <2>2 DEF ClockIsr
  <1>3. TickersInv' /\ DaemonsInv'
    BY <1>1, <1>2, TickersKept, DaemonsKept DEF idVars
  <1>4. HoldersInv' /\ FirstLifeInv'
    BY <1>1, HoldersKept DEF BeforeMutex, Boot, idVars
  <1>5. TypeInv'
    BY <1>1, <1>2, TypeKept DEF LifeInv, TypeInv
  <1>6. CallerInv' /\ DeviceInv' /\ KillInv'
    BY <1>1, CallerKept
  <1> QED BY <1>3, <1>4, <1>5, <1>6 DEF LifeInv

(***************************************************************************)
(* rtemsNtpInitialize().                                                   *)
(***************************************************************************)

(* Until it starts the ticker: a ticker that runs is a stray one, and no   *)
(* daemon runs.                                                            *)
LEMMA InitMoves ==
    ASSUME LifeInv, Boot \/ Connecting,
           Boot' \/ Connecting' \/ Place' = "idle", ~up',
           \A t \in Tasks : pc'[t] = pc[t] /\ events'[t] = events[t],
           UNCHANGED <<build, gen, ticker_id, daemon_id, tickerRunning>>,
           UNCHANGED <<mutex_id, mutexes>> \/ Connecting,
           UNCHANGED stray, Down /\ stray # {} => Down'
    PROVE  TickersInv' /\ DaemonsInv' /\ KillInv'
  <1>1. TickerId' = TickerId /\ DaemonId' = DaemonId
    BY DEF TickerId, DaemonId
  <1>2. Tickers \cup Daemons \subseteq Tasks
    BY Distinct
  <1>3. ASSUME NEW t \in Tickers PROVE TickerInv(t)'
    <2>1. TickerInv(t) /\ t \in Tasks
      BY <1>2 DEF LifeInv, TickersInv
    <2>2. pc[t] \notin Resting => Down /\ TickerId \in stray
      BY <2>1 DEF TickerInv, TickerMayRun, Boot, Connecting
    <2>3. pc[t] \notin Resting => UNCHANGED <<mutex_id, mutexes>>
      BY <2>2 DEF Down, Boot, Connecting
    <2> QED BY <1>1, <2>1, <2>2, <2>3 DEF TickerInv, TickerMayRun, Resting,
            Turning, Boot, Connecting, USE_PICTIMER
  <1>4. TickersInv'
    <2>1. \A g \in Generations : <<"ticker", g>> \in Tasks
      BY Named, <1>2
    <2> QED BY <1>3, <2>1 DEF LifeInv, TickersInv, Boot, Connecting
  <1>5. ASSUME NEW d \in Daemons PROVE DaemonInv(d)'
    <2>1. DaemonInv(d) /\ d \in Tasks
      BY <1>2 DEF LifeInv, DaemonsInv
    <2> QED BY <2>1 DEF DaemonInv, Resting, Ending, Boot, Connecting
  <1>6. DaemonsInv'
    <2>1. \A g \in Generations : <<"daemon", g>> \in Tasks
      BY Named, <1>2
    <2> QED BY <1>5, <2>1 DEF LifeInv, DaemonsInv, Boot, Connecting
  <1>7. KillInv'
    BY DEF KillInv, Boot, Connecting
  <1> QED BY <1>4, <1>6, <1>7

LEMMA BeginInv ==
    ASSUME LifeInv, Begin, orderly'
    PROVE  LifeInv'
  <1>1. /\ Place = "idle" /\ Place' = "reset"
        /\ DOMAIN pc' = Tasks \cup {Caller}
        /\ \A t \in Tasks : pc'[t] = pc[t]
    BY CallerGoto DEF LifeInv, Begin
  <1>2. /\ UNCHANGED <<build, up, idVars, timer, sd, stray, mutexes,
                       holder, kill_sem, events, tickerRunning>>
        /\ ~up /\ (USE_PICTIMER \/ stray = {})
        /\ gen' = gen + 1 /\ gen < build.lives
    BY DEF Begin, mutexVars, killVars
  <1>3. /\ TickerId' = TickerId /\ DaemonId' = DaemonId
        /\ Tickers \cup Daemons \cup ReaderTasks \subseteq Tasks
    BY <1>2, Distinct DEF TickerId, DaemonId, idVars
  <1>4. gen \in Nat /\ MaxInit \in Nat /\ Generations \subseteq Nat
        /\ build.lives \in Nat /\ build.lives <= MaxInit
    BY LifecycleAssumption DEF LifeInv, TypeInv, Generations
  <1>5. TypeInv'
    <2>1. gen' \in 0 .. MaxInit
      BY <1>2, <1>4
    <2> QED BY <2>1, <1>1, <1>2
            DEF LifeInv, TypeInv, USE_PICTIMER
  <1>6. CallerInv' /\ DeviceInv' /\ KillInv'
    BY <1>1, <1>2, <1>4 DEF LifeInv, CallerInv, DeviceInv, KillInv, Boot,
       Connecting, Stopping, Down, USE_PICTIMER
  <1>7. TickersInv'
    <2>1. ASSUME NEW t \in Tickers PROVE TickerInv(t)'
      <3>1. TickerInv(t) /\ t \in Tasks
        BY <1>3 DEF LifeInv, TickersInv
      <3> QED BY <3>1, <1>1, <1>2, <1>3 DEF TickerInv, TickerMayRun, Down,
              Boot, idVars, USE_PICTIMER
    <2>2. \A g \in Generations : <<"ticker", g>> \in Tasks
      BY Named, Distinct
    <2>3. \A g \in Generations : g >= gen' => g > gen
      BY <1>2, <1>4
    <2> QED BY <2>1, <2>2, <2>3, <1>1, <1>2, <1>4
            DEF LifeInv, TickersInv, Boot
  <1>8. DaemonsInv'
    <2>1. ASSUME NEW d \in Daemons PROVE DaemonInv(d)'
      <3>1. DaemonInv(d) /\ d \in Tasks
        BY <1>3 DEF LifeInv, DaemonsInv
      <3> QED BY <3>1, <1>1, <1>2, <1>3 DEF DaemonInv
    <2>2. \A g \in Generations : <<"daemon", g>> \in Tasks
      BY Named, Distinct
    <2>3. \A g \in Generations : g >= gen' => g > gen
      BY <1>2, <1>4
    <2> QED BY <2>1, <2>2, <2>3, <1>1, <1>2, <1>4
            DEF LifeInv, DaemonsInv, Boot
  <1>9. HoldersInv'
    <2>1. \A t \in Tasks \cup {Caller} :
                pc'[t] = pc[t] \/ pc[t] \notin Inside
      BY <1>1 DEF Inside, Place
    <2> QED BY <2>1, <1>1, <1>2, <1>3 DEF LifeInv, HoldersInv, idVars
  <1>10. FirstLifeInv'
    <2>1. gen' <= 1 => gen = 0 /\ mutex_id = 0
      BY <1>2, <1>4 DEF LifeInv, FirstLifeInv
    <2>2. gen' # 0
      BY <1>2, <1>4
    <2>3. gen' <= 1 => ExclusiveInv
      BY <2>1 DEF LifeInv, FirstLifeInv, MutexKept
    <2>4. gen' <= 1 => ExclusiveInv'
      BY <2>3, <1>1, <1>2, <1>3 DEF ExclusiveInv, idVars
    <2>5. gen' = 1 => gen' <= 1
      OBVIOUS
    <2> QED BY <2>1, <2>2, <2>4, <2>5, <1>2 DEF FirstLifeInv, idVars
  <1> QED BY <1>5, <1>6, <1>7, <1>8, <1>9, <1>10 DEF LifeInv

LEMMA ResetInv ==
    ASSUME LifeInv, Reset \/ SetTime
    PROVE  LifeInv'
  <1>1. /\ \/ Place = "reset" /\ Place' = "adjust"
           \/ Place = "settime" /\ Place' = "mutex"
        /\ DOMAIN pc' = Tasks \cup {Caller}
        /\ \A t \in Tasks : pc'[t] = pc[t]
    BY CallerGoto DEF LifeInv, Reset, SetTime
  <1>2. UNCHANGED <<build, gen, up, idVars, timer, sd, stray, mutexes,
                    holder, kill_sem, events, tickerRunning>>
    BY DEF Reset, SetTime, mutexVars, killVars, callerVars, historyVars
  <1>3. ~up /\ (Boot \/ Connecting) /\ (Boot' \/ Connecting')
        /\ (Down => Down') /\ (BeforeMutex' => BeforeMutex)
    BY <1>1 DEF LifeInv, CallerInv, Boot, Connecting, Down, BeforeMutex
  <1>4. TickersInv' /\ DaemonsInv' /\ KillInv'
    BY <1>1, <1>2, <1>3, InitMoves DEF idVars
  <1>5. CallerInv' /\ DeviceInv'
    BY <1>1, <1>2 DEF LifeInv, CallerInv, DeviceInv, Boot,
       Connecting, Stopping, Down, idVars, USE_PICTIMER
  <1>6. HoldersInv' /\ FirstLifeInv'
    <2>1. \A t \in ReaderTasks : pc'[t] = pc[t]
      BY <1>1, Distinct
    <2>2. \A t \in Tasks \cup {Caller} :
                \/ pc'[t] = pc[t]
                \/ pc[t] \notin Inside /\ pc'[t] \notin Inside
      BY <1>1 DEF Inside, Place
    <2> QED BY <1>2, <1>3, <2>1, <2>2, HoldersKept DEF idVars
  <1>7. TypeInv'
    BY <1>1, <1>2, TypeKept DEF LifeInv
  <1> QED BY <1>4, <1>5, <1>6, <1>7 DEF LifeInv

LEMMA AdjustInv ==
    ASSUME LifeInv,
           \/ Enter(Caller, "adjust", "inAdjust")
           \/ Leave(Caller, "inAdjust", "install")
    PROVE  LifeInv'
  <1>1. /\ \/ Place = "adjust" /\ Place' = "inAdjust" /\ splclock(Caller)
           \/ Place = "inAdjust" /\ Place' = "install" /\ splx(Caller)
        /\ DOMAIN pc' = Tasks \cup {Caller}
        /\ \A t \in Tasks : pc'[t] = pc[t]
    BY CallerGoto DEF LifeInv, Enter, Leave
  <1>2. UNCHANGED <<build, gen, up, idVars, timer, sd, stray, mutexes,
                    kill_sem, events, tickerRunning>>
    BY DEF Enter, Leave, splclock, splx, mutexVars, killVars, callerVars,
       historyVars
  <1>3. ~up /\ (Boot \/ Connecting) /\ (Boot' \/ Connecting')
        /\ Down /\ Down' /\ BeforeMutex /\ BeforeMutex' /\ gen > 0
    BY <1>1 DEF LifeInv, CallerInv, Boot, Connecting, Down, BeforeMutex
  <1>4. TickersInv' /\ DaemonsInv' /\ KillInv'
    BY <1>1, <1>2, <1>3, InitMoves DEF idVars
  <1>5. CallerInv' /\ DeviceInv'
    BY <1>1, <1>2 DEF LifeInv, CallerInv, DeviceInv, Boot,
       Connecting, Stopping, Down, idVars, USE_PICTIMER
  <1>6. DOMAIN holder = Generations /\ ReaderTasks \subseteq Tasks
        /\ Caller \notin Tasks /\ mutexes \subseteq Generations
        /\ gen \in Nat
    BY LifecycleAssumption, Distinct DEF LifeInv, TypeInv
  <1>7. /\ DOMAIN holder' = Generations /\ HoldersInv' /\ FirstLifeInv'
    <2>1. CASE Place = "inAdjust"
      <3>1. /\ pc[Caller] \in Inside /\ pc'[Caller] \notin Inside
            /\ splx(Caller)
        BY <2>1, <1>1 DEF Inside, Place
      <3>2. \A u \in Tasks \cup {Caller} : u # Caller => pc'[u] = pc[u]
        BY <1>1
      <3> QED BY <3>1, <3>2, <1>2, <1>3, <1>6, Left DEF idVars
    <2>2. CASE Place = "adjust"
      <3>1. \/ holder' = holder
            \/ /\ mutex_id \in mutexes /\ holder'[mutex_id] = {Caller}
               /\ DOMAIN holder' = Generations
               /\ \A g \in Generations :
                        g # mutex_id => holder'[g] = holder[g]
        BY <2>2, <1>1, <1>6 DEF splclock, mutexVars
      <3>2. gen <= 1 => mutex_id = 0
        BY <1>3, <1>6 DEF LifeInv, FirstLifeInv
      <3>3. mutex_id = 0 => mutex_id \notin mutexes
        BY <1>6 DEF Generations
      <3>4. HoldersInv'
        <4>1. ASSUME NEW g \in Generations, NEW u \in holder'[g]
              PROVE  /\ u \in Tasks \cup {Caller}
                     /\ u \notin ReaderTasks
                            => g = mutex_id' /\ pc'[u] \in Inside
          <5>1. CASE u \in holder[g]
            BY <5>1, <2>2, <1>1, <1>2
               DEF LifeInv, HoldersInv, idVars, Inside, Place
          <5>2. CASE u \notin holder[g]
            BY <5>2, <2>2, <3>1, <1>1, <1>2 DEF Inside, Place, idVars
          <5> QED BY <5>1, <5>2
        <4>2. ASSUME NEW u \in ReaderTasks
              PROVE  /\ pc'[u] \in {"away", "read", "inRead"}
                     /\ u[2] \notin build'.readers =>
                            /\ pc'[u] = "away"
                            /\ \A g \in Generations : u \notin holder'[g]
          <5>1. u \in Tasks /\ u # Caller
            BY <1>6
          <5> QED BY <5>1, <1>1, <1>2, <3>1 DEF LifeInv, HoldersInv
        <4> QED BY <4>1, <4>2 DEF HoldersInv
      <3>5. FirstLifeInv'
        BY <1>1, <1>2, <1>3, <1>6, <3>1, <3>2, <3>3
           DEF LifeInv, FirstLifeInv, ExclusiveInv, MutexKept, idVars
      <3> QED BY <3>1, <3>4, <3>5, <1>6
    <2> QED BY <1>1, <2>1, <2>2
  <1>8. TypeInv'
    BY <1>1, <1>2, <1>6, <1>7, TypeKept DEF LifeInv
  <1> QED BY <1>4, <1>5, <1>7, <1>8 DEF LifeInv

(* A call that fails on the way leaves the clock down.                     *)
LEMMA ConnectInv ==
    ASSUME LifeInv, Boot \/ Connecting,
           \/ Place = "install" /\ Place' \in {"open", "idle"}
           \/ Place \in {"open", "lookup"} /\ Place' \in {"lookup", "settime"}
           \/ Connecting /\ Place' = "idle",
           DOMAIN pc' = Tasks \cup {Caller},
           \A t \in Tasks : pc'[t] = pc[t],
           UNCHANGED <<build, gen, idVars, mutexVars, killVars>>, ~up',
           DeviceInv', UNCHANGED stray, Down /\ stray # {} => Down'
    PROVE  LifeInv'
  <1>1. UNCHANGED <<build, gen, mutex_id, ticker_id, daemon_id, mutexes,
                    holder, kill_sem, events, tickerRunning>>
    BY DEF idVars, mutexVars, killVars
  <1>2. ~up /\ gen > 0 /\ (Boot' \/ Connecting' \/ Place' = "idle")
        /\ (BeforeMutex' => BeforeMutex)
    BY DEF LifeInv, CallerInv, Boot, Connecting, BeforeMutex
  <1>3. TickersInv' /\ DaemonsInv' /\ KillInv'
    BY <1>1, <1>2, InitMoves
  <1>4. CallerInv'
    BY <1>1, <1>2 DEF CallerInv, Boot, Connecting, Stopping
  <1>5. HoldersInv' /\ FirstLifeInv'
    <2>1. \A t \in ReaderTasks : pc'[t] = pc[t]
      BY Distinct
    <2>2. Place \notin Inside /\ Place' \notin Inside
      BY DEF Inside, Connecting
    <2>3. \A t \in Tasks \cup {Caller} :
                \/ pc'[t] = pc[t]
                \/ pc[t] \notin Inside /\ pc'[t] \notin Inside
      BY <2>2 DEF Place
    <2> QED BY <1>1, <1>2, <2>1, <2>3, HoldersKept
  <1>6. TypeInv'
    BY <1>1, TypeKept DEF LifeInv
  <1> QED BY <1>3, <1>4, <1>5, <1>6 DEF LifeInv

LEMMA InstallTimerInv ==
    ASSUME LifeInv, InstallTimer
    PROVE  LifeInv'
  <1>1. /\ Place = "install"
        /\ \/ ~USE_PICTIMER /\ Place' = "open" /\ UNCHANGED timer
           \/ USE_PICTIMER /\ Place' = "open" /\ timer = "off"
              /\ timer' = "connected"
           \/ USE_PICTIMER /\ Place' = "idle" /\ UNCHANGED timer
        /\ DOMAIN pc' = Tasks \cup {Caller}
        /\ \A t \in Tasks : pc'[t] = pc[t]
    BY CallerGoto DEF LifeInv, InstallTimer
  <1>2. UNCHANGED <<build, gen, idVars, sd, stray, mutexVars, killVars>>
    BY DEF InstallTimer, historyVars
  <1>3. ~up /\ ~up'
    BY <1>1 DEF LifeInv, CallerInv, Boot, InstallTimer
  <1>4. DeviceInv'
    BY <1>1, <1>2, <1>3 DEF LifeInv, DeviceInv, Boot, Connecting, Stopping,
       Down, USE_PICTIMER
  <1>5. Down /\ stray # {} => Down'
    BY <1>1, <1>3 DEF Down, LifeInv, DeviceInv
  <1> QED BY <1>1, <1>2, <1>3, <1>4, <1>5, ConnectInv DEF Boot

(* pictimerCleanup() silences the timer, if there is one.                  *)
TimerCleaned == timer' \in pictimerCleanup

LEMMA TimerLeft ==
    ASSUME TimerCleaned
    PROVE  timer' \in {"off", "stuck"} /\ (timer = "off" => timer' = "off")
  BY DEF TimerCleaned, pictimerCleanup

LEMMA OpenSocketInv ==
    ASSUME LifeInv, OpenSocket \/ Lookup
    PROVE  LifeInv'
  <1>1. /\ \/ Place = "open" /\ Place' = "lookup" /\ UNCHANGED <<up, timer>>
           \/ Place = "lookup" /\ Place' = "settime"
              /\ UNCHANGED <<up, timer, sd>>
           \/ Connecting /\ Place' = "idle" /\ TimerCleaned
              /\ up' = FALSE /\ sd' # "ours"
        /\ DOMAIN pc' = Tasks \cup {Caller}
        /\ \A t \in Tasks : pc'[t] = pc[t]
    <2>1. CASE OpenSocket
      BY <2>1, CallerGoto
         DEF LifeInv, OpenSocket, Attempt, Bail, closeSd, Connecting,
             TimerCleaned
    <2>2. CASE Lookup
      BY <2>2, CallerGoto
         DEF LifeInv, Lookup, Attempt, Bail, closeSd, Connecting,
             TimerCleaned
    <2> QED BY <2>1, <2>2
  <1>2. UNCHANGED <<build, gen, idVars, stray, mutexVars, killVars>>
    BY DEF OpenSocket, Lookup, historyVars
  <1>3. Connecting /\ ~up /\ ~up'
    BY <1>1 DEF LifeInv, CallerInv, Connecting
  <1>4. DeviceInv'
    BY <1>1, <1>2, <1>3, TimerLeft DEF LifeInv, DeviceInv, Boot, Connecting,
       Stopping, Down, USE_PICTIMER
  <1>5. ~Down
    BY <1>3 DEF Down, Boot, Connecting
  <1> QED BY <1>1, <1>2, <1>3, <1>4, <1>5, ConnectInv

LEMMA CreateMutexInv ==
    ASSUME LifeInv, CreateMutex
    PROVE  LifeInv'
  <1>1. /\ \/ Place' = "ticker" /\ mutex_id' = gen
              /\ mutexes' = mutexes \cup {gen} /\ UNCHANGED <<up, timer, sd>>
           \/ Place' = "idle" /\ UNCHANGED <<mutex_id, mutexes>>
              /\ TimerCleaned /\ up' = FALSE /\ sd' # "ours"
        /\ Place = "mutex" /\ DOMAIN pc' = Tasks \cup {Caller}
        /\ \A t \in Tasks : pc'[t] = pc[t]
    <2>1. /\ Place = "mutex" /\ DOMAIN pc' = Tasks \cup {Caller}
          /\ \A t \in Tasks : pc'[t] = pc[t]
          /\ \/ Place' = "ticker" /\ UNCHANGED <<up, timer, sd>>
             \/ /\ Place' = "idle"
                /\ TimerCleaned /\ up' = FALSE /\ sd' # "ours"
      BY CallerGoto
         DEF LifeInv, CreateMutex, Attempt, Bail, closeSd, TimerCleaned
    <2> QED BY <2>1 DEF CreateMutex, Place
  <1>2. UNCHANGED <<build, gen, ticker_id, daemon_id, stray, holder,
                    kill_sem, events, tickerRunning>>
    BY DEF CreateMutex, killVars, historyVars
  <1>3. Connecting /\ ~up /\ ~up' /\ gen > 0 /\ ~Down
        /\ gen \in Generations /\ 0 \notin Generations
        /\ mutexes \subseteq Generations
    BY <1>1, LifecycleAssumption DEF LifeInv, TypeInv, CallerInv, Boot,
       Connecting, Down, Generations
  <1>4. DeviceInv'
    BY <1>1, <1>2, <1>3, TimerLeft DEF LifeInv, DeviceInv, Boot, Connecting,
       Stopping, Down, USE_PICTIMER
  <1>5. CASE Place' = "idle"
    <2>1. UNCHANGED <<idVars, mutexVars, killVars>>
      BY <1>1, <1>2, <1>5 DEF idVars, mutexVars, killVars
    <2> QED BY <2>1, <1>1, <1>2, <1>3, <1>4, <1>5, ConnectInv
  <1>6. CASE Place' = "ticker"
    <2>1. TickersInv' /\ DaemonsInv' /\ KillInv'
      BY <1>1, <1>2, <1>3, <1>6, InitMoves DEF Connecting
    <2>2. CallerInv'
      BY <1>1, <1>2, <1>3, <1>6 DEF CallerInv, Boot, Connecting, Stopping
    <2>3. TypeInv'
      BY <1>1, <1>2, <1>3, <1>6 DEF LifeInv, TypeInv, USE_PICTIMER
    <2>4. \A t \in Tasks : t \notin ReaderTasks => pc[t] \notin Inside
      <3>1. \A t \in Tickers : pc[t] \in Resting
        BY <1>1, <1>3, TickerRuns DEF TickerMayRun
      <3>2. \A d \in Daemons : pc[d] \in Resting
        BY <1>1, DaemonRuns
      <3> QED BY <3>1, <3>2 DEF Tasks, Inside, Resting
    <2>5. Place \notin Inside /\ Place' \notin Inside
          /\ ReaderTasks \subseteq Tasks
      BY <1>1, Distinct DEF Inside
    <2>6. HoldersInv'
      <3>1. ASSUME NEW g \in Generations, NEW t \in holder'[g]
            PROVE  t \in Tasks \cup {Caller} /\ t \in ReaderTasks
        BY <2>4, <2>5, <1>2 DEF LifeInv, HoldersInv, Place
      <3> QED BY <3>1, <2>5, <1>1, <1>2 DEF LifeInv, HoldersInv
    <2>7. FirstLifeInv'
      <3>1. ASSUME gen' <= 1 PROVE ExclusiveInv'
        <4>1. mutex_id = 0 /\ ExclusiveInv
          BY <3>1, <1>1, <1>2, <1>3
             DEF LifeInv, FirstLifeInv, MutexKept, BeforeMutex, Generations
        <4>2. \A g \in Generations : holder'[g] = {}
          BY <4>1, <1>2 DEF ExclusiveInv
        <4>3. \A t \in Tasks : pc'[t] \notin Inside
          BY <4>1, <1>1, <1>3 DEF ExclusiveInv
        <4>4. \A t \in ReaderTasks : pc'[t] = "away"
          BY <4>1, <2>5, <1>1, <1>3 DEF ExclusiveInv
        <4> QED BY <4>2, <4>3, <4>4, <1>1, <1>3, <1>6 DEF ExclusiveInv
      <3>2. gen' # 0 /\ ~BeforeMutex'
        BY <1>2, <1>3, <1>6 DEF BeforeMutex, Boot, Generations
      <3> QED BY <3>1, <3>2 DEF FirstLifeInv
    <2> QED BY <2>1, <2>2, <2>3, <2>6, <2>7, <1>4 DEF LifeInv
  <1> QED BY <1>1, <1>5, <1>6

(* The task that is created was none, and is the only one of its kind that *)
(* ticker_id, or daemon_id, now tells of.                                  *)
LEMMA Started ==
    ASSUME TypeInv, NEW t \in Tasks, NEW label, NEW place,
           pc' = [pc EXCEPT ![t] = label, ![Caller] = place]
    PROVE  /\ DOMAIN pc' = Tasks \cup {Caller}
           /\ Place' = place /\ pc'[t] = label
           /\ \A u \in Tasks : u # t => pc'[u] = pc[u]
  <1> DEFINE c == Caller
  <1>1. pc' = [pc EXCEPT ![t] = label, ![c] = place]
    OBVIOUS
  <1>2. DOMAIN pc = Tasks \cup {c} /\ c \notin Tasks
    BY Distinct DEF TypeInv
  <1> HIDE DEF c
  <1>3. /\ DOMAIN pc' = Tasks \cup {c} /\ pc'[c] = place /\ pc'[t] = label
        /\ \A u \in Tasks : u # t => pc'[u] = pc[u]
    BY <1>1, <1>2
  <1> QED BY <1>3 DEF c, Place

LEMMA StartTickerInv ==
    ASSUME LifeInv, StartTicker
    PROVE  LifeInv'
  <1> DEFINE new == <<"ticker", gen>>
  <1>1. /\ Place = "ticker" /\ UNCHANGED <<build, gen, mutex_id, daemon_id,
                                           stray, mutexVars, killVars>>
        /\ mutex_id = gen /\ gen \in mutexes /\ ~up /\ gen > 0
    BY DEF StartTicker, LifeInv, CallerInv, Connecting, Place, historyVars
  <1>2. /\ gen \in Generations /\ new \in Tickers /\ new \in Tasks
        /\ \A g \in Generations : g > gen => g # gen
    <2>1. gen \in Generations
      BY <1>1, UpNamed DEF LifeInv
    <2>2. \A g \in Generations : g \in Int
      BY LifecycleAssumption DEF Generations
    <2>3. \A g \in Generations : g > gen => g # gen
      BY <2>1, <2>2
    <2> QED BY <2>1, <2>3, Named, Distinct
  <1>3. /\ \A t \in Tickers : pc[t] \in Resting /\ TickerInv(t)
        /\ \A d \in Daemons : pc[d] \in Resting /\ DaemonInv(d)
        /\ pc[new] = "none"
    <2>1. \A t \in Tickers : pc[t] \in Resting
      BY <1>1, TickerRuns DEF TickerMayRun, Down, Boot
    <2>2. \A d \in Daemons : pc[d] \in Resting
      BY <1>1, DaemonRuns
    <2> QED BY <2>1, <2>2, <1>1, <1>2
            DEF LifeInv, TickersInv, DaemonsInv, Connecting
  <1>4. CASE Bail("ticker") /\ UNCHANGED ticker_id
    <2>1. /\ Place' = "idle" /\ TimerCleaned /\ up' = FALSE /\ sd' # "ours"
          /\ DOMAIN pc' = Tasks \cup {Caller}
          /\ \A t \in Tasks : pc'[t] = pc[t]
      BY <1>4, CallerGoto DEF LifeInv, Bail, closeSd, TimerCleaned
    <2>2. DeviceInv'
      BY <2>1, <1>1, TimerLeft DEF LifeInv, DeviceInv, Boot, Connecting,
         Stopping, Down, USE_PICTIMER
    <2>3. Connecting /\ ~Down
      BY <1>1 DEF Connecting, Down, Boot
    <2>4. UNCHANGED idVars
      BY <1>1, <1>4 DEF idVars
    <2> QED BY <2>1, <2>2, <2>3, <2>4, <1>1, ConnectInv
  <1>5. CASE StartTicker /\ ~(Bail("ticker") /\ UNCHANGED ticker_id)
    <2>1. PICK label \in {"start", "dormant"} :
            /\ pc' = [pc EXCEPT ![new] = label,
                                ![Caller] = IF label = "start" THEN "daemon"
                                            ELSE "idle"]
            /\ label = "start" => UNCHANGED <<up, timer, sd>>
            /\ label = "dormant" =>
                    up' = FALSE /\ TimerCleaned /\ sd' # "ours"
            /\ ticker_id' = gen
      BY <1>5 DEF StartTicker, closeSd, TimerCleaned
    <2>2. /\ DOMAIN pc' = Tasks \cup {Caller} /\ pc'[new] = label
          /\ Place' = IF label = "start" THEN "daemon" ELSE "idle"
          /\ \A u \in Tasks : u # new => pc'[u] = pc[u]
      BY <2>1, <1>2, Started DEF LifeInv
    <2> HIDE DEF new
    <2>3. TickerId' = new /\ DaemonId' = DaemonId /\ new \notin Daemons
          /\ new \notin ReaderTasks
          /\ Tickers \cup Daemons \cup ReaderTasks \subseteq Tasks
      BY <1>1, <1>2, <2>1, Distinct DEF TickerId, DaemonId, new
    <2>4. /\ UNCHANGED <<build, gen, mutex_id, daemon_id, mutexes, holder,
                         kill_sem, events, tickerRunning>> /\ ~up'
      BY <1>1, <2>1 DEF mutexVars, killVars
    <2>5. TypeInv'
      BY <2>2, <2>4, TypeKept DEF LifeInv
    <2>6. CallerInv' /\ DeviceInv' /\ KillInv'
      BY <2>1, <2>2, <2>4, <1>1, TimerLeft
         DEF LifeInv, CallerInv, DeviceInv, KillInv, Boot, Connecting,
             Stopping, Down, USE_PICTIMER
    <2>7. TickersInv'
      <3>1. ASSUME NEW t \in Tickers PROVE TickerInv(t)'
        <4>1. pc[t] \in Resting /\ TickerInv(t) /\ t \in Tasks
          BY <1>3, <2>3
        <4>2. CASE t # new
          BY <4>1, <4>2, <1>1, <2>2, <2>4
             DEF TickerInv, Resting, Turning
        <4>3. CASE t = new
          BY <4>1, <4>3, <1>1, <1>3, <2>1, <2>2, <2>3, <2>4
             DEF TickerInv, TickerMayRun, Resting, Turning
        <4> QED BY <4>2, <4>3
      <3>2. \A g \in Generations : g > gen => <<"ticker", g>> \in Tasks
                                              /\ <<"ticker", g>> # new
        BY <1>2, Named, Distinct DEF new
      <3> QED BY <3>1, <3>2, <1>1, <2>1, <2>2, <2>3, <2>4
              DEF LifeInv, TickersInv, Boot, Connecting, Turning
    <2>8. DaemonsInv'
      <3>1. ASSUME NEW d \in Daemons PROVE DaemonInv(d)'
        BY <1>1, <1>3, <2>2, <2>3, <2>4 DEF DaemonInv, Resting, Ending
      <3>2. \A g \in Generations : <<"daemon", g>> \in Daemons
        BY Named
      <3> QED BY <3>1, <3>2, <1>1, <2>1, <2>2, <2>3, <2>4
              DEF LifeInv, DaemonsInv, Boot, Connecting
    <2>9. HoldersInv' /\ FirstLifeInv'
      <3>1. \A t \in ReaderTasks : pc'[t] = pc[t]
        BY <2>2, <2>3
      <3>2. Place \notin Inside /\ Place' \notin Inside
        BY <1>1, <2>2 DEF Inside
      <3>3. pc[new] \notin Inside /\ pc'[new] \notin Inside
        BY <1>3, <2>1, <2>2 DEF Inside
      <3>4. \A t \in Tasks \cup {Caller} :
                \/ pc'[t] = pc[t]
                \/ pc[t] \notin Inside /\ pc'[t] \notin Inside
        BY <3>2, <3>3, <2>2 DEF Place
      <3>5. BeforeMutex' => BeforeMutex
        BY <2>2 DEF BeforeMutex, Boot
      <3> QED BY <3>1, <3>4, <3>5, <1>1, <2>4, HoldersKept
    <2> QED BY <2>5, <2>6, <2>7, <2>8, <2>9 DEF LifeInv
  <1> QED BY <1>4, <1>5

LEMMA StartDaemonInv ==
    ASSUME LifeInv, StartDaemon
    PROVE  LifeInv'
  <1> DEFINE new == <<"daemon", gen>>
  <1>1. /\ Place = "daemon" /\ UNCHANGED <<build, gen, mutex_id, ticker_id,
                                           mutexVars, killVars>>
        /\ mutex_id = gen /\ gen \in mutexes /\ ~up /\ gen > 0
        /\ ticker_id = gen
    BY DEF StartDaemon, LifeInv, CallerInv, Place
  <1>2. /\ gen \in Generations /\ new \in Daemons /\ new \in Tasks
        /\ \A g \in Generations : g > gen => g # gen
    <2>1. gen \in Generations
      BY <1>1, UpNamed DEF LifeInv
    <2>2. \A g \in Generations : g \in Int
      BY LifecycleAssumption DEF Generations
    <2>3. \A g \in Generations : g > gen => g # gen
      BY <2>1, <2>2
    <2> QED BY <2>1, <2>3, Named, Distinct
  <1>3. /\ \A d \in Daemons : pc[d] \in Resting /\ DaemonInv(d)
        /\ pc[new] = "none"
    <2>1. \A d \in Daemons : pc[d] \in Resting
      BY <1>1, DaemonRuns
    <2> QED BY <2>1, <1>1, <1>2 DEF LifeInv, DaemonsInv
  <1>4. TickerId \in Tickers /\ pc[TickerId] \in Turning
        /\ \A t \in Tickers : TickerInv(t)
    BY <1>1, UpNamed DEF LifeInv, TickersInv
  <1>5. /\ DOMAIN pc' = Tasks \cup {Caller} /\ Place' = "idle"
        /\ \/ /\ daemon_id' = gen /\ pc'[new] = "start"
              /\ up' = TRUE /\ UNCHANGED <<sd, stray>>
              /\ timer' = IF USE_PICTIMER THEN "enabled" ELSE timer
           \/ /\ pc'[new] \in {"none", "dormant"}
              /\ up' = FALSE /\ UNCHANGED timer /\ sd' # "ours"
              /\ stray' = stray \cup {<<"ticker", gen>>}
        /\ \A u \in Tasks : u # new => pc'[u] = pc[u]
    <2>1. CASE Goto(Caller, "daemon", "idle") /\ Bail1
      <3>1. /\ DOMAIN pc' = Tasks \cup {Caller} /\ Place' = "idle"
            /\ \A u \in Tasks : pc'[u] = pc[u]
        BY <2>1, CallerGoto DEF LifeInv
      <3> QED BY <2>1, <3>1, <1>2, <1>3 DEF Bail1, closeSd
    <2>2. ASSUME NEW label \in {"start", "dormant"},
                 pc' = [pc EXCEPT ![new] = label, ![Caller] = "idle"]
          PROVE  /\ DOMAIN pc' = Tasks \cup {Caller} /\ Place' = "idle"
                 /\ pc'[new] = label
                 /\ \A u \in Tasks : u # new => pc'[u] = pc[u]
      BY <2>2, <1>2, Started DEF LifeInv
    <2>3. CASE /\ pc' = [pc EXCEPT ![new] = "start", ![Caller] = "idle"]
               /\ daemon_id' = gen /\ up' = TRUE /\ UNCHANGED <<sd, stray>>
               /\ timer' = IF USE_PICTIMER THEN "enabled" ELSE timer
      BY <2>2, <2>3
    <2>4. CASE /\ pc' = [pc EXCEPT ![new] = "dormant", ![Caller] = "idle"]
               /\ Bail1
      BY <2>2, <2>4 DEF Bail1, closeSd
    <2> QED BY <2>1, <2>3, <2>4 DEF StartDaemon
  <1>6. /\ ~up' => TickerId \in stray'
        /\ up' => stray' = {}
    <2>1. TickerId = <<"ticker", gen>>
      BY <1>1 DEF TickerId
    <2>2. stray = {}
      BY <1>1 DEF LifeInv, DeviceInv, Down, Boot
    <2> QED BY <2>1, <2>2, <1>5
  <1> HIDE DEF new
  <1>7. /\ TickerId' = TickerId /\ new \notin Tickers /\ new \notin ReaderTasks
        /\ Tickers \cup Daemons \cup ReaderTasks \subseteq Tasks
    BY <1>1, <1>2, Distinct DEF TickerId
  <1>8. UNCHANGED <<build, gen, mutex_id, ticker_id, mutexes, holder,
                    kill_sem, events, tickerRunning>>
    BY <1>1 DEF mutexVars, killVars
  <1>9. up' => DaemonId' = new
    BY <1>5, <1>8 DEF DaemonId, new
  <1>10. TypeInv'
    BY <1>5, <1>8, TypeKept DEF LifeInv
  <1>11. CallerInv' /\ DeviceInv' /\ KillInv'
    BY <1>1, <1>5, <1>6, <1>8
       DEF LifeInv, CallerInv, DeviceInv, KillInv, Boot, Connecting,
           Stopping, Down, USE_PICTIMER
  <1>12. TickersInv'
    <2>1. ASSUME NEW t \in Tickers PROVE TickerInv(t)'
      <3>1. TickerInv(t) /\ pc'[t] = pc[t]
        BY <1>4, <1>5, <1>7
      <3>2. TickerMayRun' /\ Place' # "waitTicker" /\ Place # "waitTicker"
        BY <1>1, <1>5, <1>6, <1>7 DEF TickerMayRun, Down
      <3> QED BY <3>1, <3>2, <1>7, <1>8 DEF TickerInv, USE_PICTIMER
    <2>2. \A g \in Generations : <<"ticker", g>> \in Tickers
      BY Named
    <2>3. pc'[TickerId] = pc[TickerId]
      BY <1>4, <1>5, <1>7
    <2> QED BY <2>1, <2>2, <2>3, <1>4, <1>5, <1>7, <1>8
            DEF LifeInv, TickersInv, Boot, Connecting
  <1>13. DaemonsInv'
    <2>1. ASSUME NEW d \in Daemons PROVE DaemonInv(d)'
      <3>1. pc[d] \in Resting /\ DaemonInv(d) /\ d \in Tasks
        BY <1>3, <1>7
      <3>2. CASE d # new
        BY <3>1, <3>2, <1>1, <1>5, <1>8 DEF DaemonInv, Resting, Ending
      <3>3. CASE d = new
        BY <3>1, <3>3, <1>1, <1>3, <1>5, <1>8, <1>9
           DEF DaemonInv, Resting, Polling, Ending
      <3> QED BY <3>2, <3>3
    <2>2. \A g \in Generations : g > gen => <<"daemon", g>> \in Tasks
                                            /\ <<"daemon", g>> # new
      BY <1>2, Named, Distinct DEF new
    <2> QED BY <2>1, <2>2, <1>1, <1>5, <1>8, <1>9
            DEF LifeInv, DaemonsInv, Boot, Connecting, Polling
  <1>14. HoldersInv' /\ FirstLifeInv'
    <2>1. \A t \in ReaderTasks : pc'[t] = pc[t]
      BY <1>5, <1>7
    <2>2. Place \notin Inside /\ Place' \notin Inside
      BY <1>1, <1>5 DEF Inside
    <2>3. pc[new] \notin Inside /\ pc'[new] \notin Inside
      BY <1>3, <1>5 DEF Inside
    <2>4. \A t \in Tasks \cup {Caller} :
                \/ pc'[t] = pc[t]
                \/ pc[t] \notin Inside /\ pc'[t] \notin Inside
      BY <2>2, <2>3, <1>5 DEF Place
    <2>5. BeforeMutex' => BeforeMutex
      BY <1>5 DEF BeforeMutex, Boot
    <2> QED BY <2>1, <2>4, <2>5, <1>1, <1>8, HoldersKept
  <1> QED BY <1>10, <1>11, <1>12, <1>13, <1>14 DEF LifeInv

(***************************************************************************)
(* rtemsNtpCleanup().                                                      *)
(***************************************************************************)
LEMMA CreateKillSemInv ==
    ASSUME LifeInv, CreateKillSem, orderly'
    PROVE  LifeInv'
  <1>1. /\ Place = "idle" /\ up /\ TimerCleaned
        /\ \/ Place' = "killDaemon" /\ kill_sem' = 0 /\ timer' = "off"
           \/ Place' = "idle" /\ UNCHANGED kill_sem
        /\ DOMAIN pc' = Tasks \cup {Caller}
        /\ \A t \in Tasks : pc'[t] = pc[t]
    BY CallerGoto DEF LifeInv, CreateKillSem, TimerCleaned
  <1>2. UNCHANGED <<build, gen, up, idVars, sd, stray, mutexes, holder,
                    events, tickerRunning>>
    BY DEF CreateKillSem, mutexVars
  <1>3. /\ TickerId \in Tickers /\ TickerId' = TickerId
        /\ DaemonId \in Daemons /\ DaemonId' = DaemonId
        /\ Tickers \cup Daemons \cup ReaderTasks \subseteq Tasks
    BY <1>1, <1>2, UpNamed, Distinct DEF LifeInv, TickerId, DaemonId, idVars
  <1>4. TypeInv'
    BY <1>1, <1>2, TypeKept DEF LifeInv
  <1>5. CallerInv' /\ DeviceInv' /\ KillInv'
    BY <1>1, <1>2, TimerLeft DEF LifeInv, CallerInv, DeviceInv, KillInv,
       Boot, Connecting, Stopping, Down, idVars, USE_PICTIMER
  <1>6. TickersInv'
    <2>1. ASSUME NEW t \in Tickers PROVE TickerInv(t)'
      <3>1. TickerInv(t) /\ t \in Tasks
        BY <1>3 DEF LifeInv, TickersInv
      <3> QED BY <3>1, <1>1, <1>2, <1>3
              DEF TickerInv, TickerMayRun, idVars, USE_PICTIMER
    <2>2. \A g \in Generations : <<"ticker", g>> \in Tasks
      BY Named, Distinct
    <2> QED BY <2>1, <2>2, <1>1, <1>2, <1>3
            DEF LifeInv, TickersInv, Boot, Connecting
  <1>7. DaemonsInv'
    <2>1. ASSUME NEW d \in Daemons PROVE DaemonInv(d)'
      <3>1. DaemonInv(d) /\ d \in Tasks
        BY <1>3 DEF LifeInv, DaemonsInv
      <3> QED BY <3>1, <1>1, <1>2, <1>3 DEF DaemonInv
    <2>2. \A g \in Generations : <<"daemon", g>> \in Tasks
      BY Named, Distinct
    <2> QED BY <2>1, <2>2, <1>1, <1>2, <1>3
            DEF LifeInv, DaemonsInv, Boot, Connecting
  <1>8. HoldersInv' /\ FirstLifeInv'
    <2>1. \A t \in ReaderTasks : pc'[t] = pc[t]
      BY <1>1, <1>3
    <2>2. \A t \in Tasks \cup {Caller} :
                \/ pc'[t] = pc[t]
                \/ pc[t] \notin Inside /\ pc'[t] \notin Inside
      BY <1>1 DEF Inside, Place
    <2>3. BeforeMutex' => BeforeMutex
      BY <1>1 DEF BeforeMutex, Boot
    <2> QED BY <2>1, <2>2, <2>3, <1>2, HoldersKept DEF idVars
  <1> QED BY <1>4, <1>5, <1>6, <1>7, <1>8 DEF LifeInv

(* What a call of Cleanup that succeeds leaves alone.                      *)
LEMMA CleanupKept ==
    ASSUME LifeInv, Stopping, Stopping', build.readers = {} => Place' # "abort",
           UNCHANGED <<build, gen, up, idVars, timer, sd, stray, mutexes,
                       holder>>,
           Place' \in {"killDaemon", "killTicker"} => kill_sem' = 0,
           Place' \in {"waitDaemon", "waitTicker"} => kill_sem' \in {0, 1},
           DOMAIN pc' = Tasks \cup {Caller}, DOMAIN events' = DOMAIN events,
           \A t \in ReaderTasks : pc'[t] = pc[t],
           \A t \in Tasks :
                \/ pc'[t] = pc[t]
                \/ pc[t] \notin Inside /\ pc'[t] \notin Inside
    PROVE  /\ TypeInv' /\ CallerInv' /\ DeviceInv' /\ KillInv'
           /\ HoldersInv' /\ FirstLifeInv'
  <1>1. TypeInv'
    BY TypeKept DEF LifeInv
  <1>2. CallerInv' /\ DeviceInv' /\ KillInv'
    BY DEF LifeInv, CallerInv, DeviceInv, KillInv, Boot, Connecting,
       Stopping, Down, idVars, USE_PICTIMER
  <1>3. ~BeforeMutex'
    BY DEF BeforeMutex, Boot, Stopping
  <1>4. Place \notin Inside /\ Place' \notin Inside
    BY DEF Stopping, Inside
  <1>5. \A t \in Tasks \cup {Caller} :
                \/ pc'[t] = pc[t]
                \/ pc[t] \notin Inside /\ pc'[t] \notin Inside
    BY <1>4 DEF Place
  <1>6. HoldersInv' /\ FirstLifeInv'
    BY <1>3, <1>5, HoldersKept DEF idVars
  <1> QED BY <1>1, <1>2, <1>6

LEMMA KillDaemonInv ==
    ASSUME LifeInv, KillDaemon
    PROVE  LifeInv'
  <1>1. Place = "killDaemon" /\ up /\ gen > 0 /\ daemon_id = gen
        /\ kill_sem = 0
    <2>1. Place = "killDaemon"
      BY DEF KillDaemon, Goto, Place
    <2> QED BY <2>1 DEF LifeInv, CallerInv, KillInv, Stopping
  <1>2. /\ TickerId \in Tickers /\ DaemonId \in Daemons
        /\ Tickers \cup Daemons \cup ReaderTasks \subseteq Tasks
        /\ DaemonId \notin Tickers
    BY <1>1, UpNamed, Distinct DEF LifeInv
  <1>3. pc[DaemonId] \in Polling /\ Exists(DaemonId)
    BY <1>1 DEF LifeInv, DaemonsInv, Exists, Polling
  <1>4. daemon_id # 0
    <2>1. gen \in Nat
      BY LifecycleAssumption DEF LifeInv, TypeInv
    <2> QED BY <1>1, <2>1
  <1>5. /\ Place' = "waitDaemon" /\ DOMAIN pc' = Tasks \cup {Caller}
        /\ \A t \in Tasks : pc'[t] = pc[t]
    BY <1>3, <1>4, CallerGoto DEF LifeInv, KillDaemon
  <1>6. /\ UNCHANGED <<build, gen, up, idVars, timer, sd, stray, mutexes,
                       holder, kill_sem, tickerRunning>>
        /\ DOMAIN events' = DOMAIN events
        /\ \A t \in Tasks : t # DaemonId => events'[t] = events[t]
    <2>1. DOMAIN events = Tasks
      BY DEF LifeInv, TypeInv
    <2> QED BY <1>3, <1>4, <2>1 DEF KillDaemon, mutexVars, callerVars,
       historyVars
  <1>7. TickerId' = TickerId /\ DaemonId' = DaemonId
    BY <1>6 DEF TickerId, DaemonId, idVars
  <1>8. TickersInv'
    <2>1. ASSUME NEW t \in Tickers PROVE TickerInv(t)'
      <3>1. TickerInv(t) /\ pc'[t] = pc[t] /\ events'[t] = events[t]
        BY <1>2, <1>5, <1>6 DEF LifeInv, TickersInv
      <3> QED BY <3>1, <1>1, <1>5, <1>6, <1>7
              DEF TickerInv, TickerMayRun, idVars, USE_PICTIMER
    <2>2. \A g \in Generations : <<"ticker", g>> \in Tasks
      BY Named, Distinct
    <2> QED BY <2>1, <2>2, <1>1, <1>2, <1>5, <1>6, <1>7
            DEF LifeInv, TickersInv, Boot, Connecting
  <1>9. DaemonsInv'
    <2>1. ASSUME NEW d \in Daemons PROVE DaemonInv(d)'
      <3>1. DaemonInv(d) /\ pc'[d] = pc[d]
            /\ (d # DaemonId => events'[d] = events[d])
        BY <1>2, <1>5, <1>6 DEF LifeInv, DaemonsInv
      <3> QED BY <3>1, <1>1, <1>5, <1>6, <1>7 DEF DaemonInv
    <2>2. \A g \in Generations : <<"daemon", g>> \in Tasks
      BY Named, Distinct
    <2> QED BY <2>1, <2>2, <1>1, <1>2, <1>3, <1>5, <1>6, <1>7
            DEF LifeInv, DaemonsInv, Boot, Connecting
  <1>10. /\ TypeInv' /\ CallerInv' /\ DeviceInv' /\ KillInv'
         /\ HoldersInv' /\ FirstLifeInv'
    <2>1. Stopping /\ Stopping'
      BY <1>1, <1>5 DEF Stopping
    <2> QED BY <2>1, <1>1, <1>2, <1>5, <1>6, CleanupKept
  <1> QED BY <1>8, <1>9, <1>10 DEF LifeInv

LEMMA KillTickerInv ==
    ASSUME LifeInv, KillTicker
    PROVE  LifeInv'
  <1>1. Place = "killTicker" /\ up /\ gen > 0 /\ ticker_id = gen
        /\ kill_sem = 0
    <2>1. Place = "killTicker"
      BY DEF KillTicker, Goto, Place
    <2> QED BY <2>1 DEF LifeInv, CallerInv, KillInv, Stopping
  <1>2. /\ TickerId \in Tickers /\ DaemonId \in Daemons
        /\ Tickers \cup Daemons \cup ReaderTasks \subseteq Tasks
        /\ TickerId \notin Daemons
    BY <1>1, UpNamed, Distinct DEF LifeInv
  <1>3. pc[TickerId] \in Turning /\ Exists(TickerId)
    BY <1>1 DEF LifeInv, TickersInv, Exists, Turning
  <1>4. ticker_id # 0
    <2>1. gen \in Nat
      BY LifecycleAssumption DEF LifeInv, TypeInv
    <2> QED BY <1>1, <2>1
  <1>5. /\ Place' = "waitTicker" /\ DOMAIN pc' = Tasks \cup {Caller}
        /\ \A t \in Tasks : pc'[t] = pc[t]
    BY <1>3, <1>4, CallerGoto DEF LifeInv, KillTicker
  <1>6. /\ UNCHANGED <<build, gen, up, idVars, timer, sd, stray, mutexes,
                       holder, kill_sem>>
        /\ DOMAIN events' = DOMAIN events
        /\ \A t \in Tasks : t # TickerId => events'[t] = events[t]
    <2>1. DOMAIN events = Tasks
      BY DEF LifeInv, TypeInv
    <2> QED BY <1>3, <1>4, <2>1 DEF KillTicker, mutexVars, callerVars,
       historyVars
  <1>7. TickerId' = TickerId /\ DaemonId' = DaemonId
    BY <1>6 DEF TickerId, DaemonId, idVars
  <1>8. TickersInv'
    <2>1. ASSUME NEW t \in Tickers PROVE TickerInv(t)'
      <3>1. TickerInv(t) /\ pc'[t] = pc[t]
            /\ (t # TickerId => events'[t] = events[t])
        BY <1>2, <1>5, <1>6 DEF LifeInv, TickersInv
      <3> QED BY <3>1, <1>1, <1>5, <1>6, <1>7
              DEF TickerInv, TickerMayRun, idVars, USE_PICTIMER
    <2>2. \A g \in Generations : <<"ticker", g>> \in Tasks
      BY Named, Distinct
    <2> QED BY <2>1, <2>2, <1>1, <1>2, <1>3, <1>5, <1>6, <1>7
            DEF LifeInv, TickersInv, Boot, Connecting
  <1>9. DaemonsInv'
    <2>1. ASSUME NEW d \in Daemons PROVE DaemonInv(d)'
      <3>1. DaemonInv(d) /\ pc'[d] = pc[d] /\ events'[d] = events[d]
        BY <1>2, <1>5, <1>6 DEF LifeInv, DaemonsInv
      <3> QED BY <3>1, <1>1, <1>5, <1>6, <1>7 DEF DaemonInv
    <2>2. \A g \in Generations : <<"daemon", g>> \in Tasks
      BY Named, Distinct
    <2> QED BY <2>1, <2>2, <1>1, <1>2, <1>5, <1>6, <1>7
            DEF LifeInv, DaemonsInv, Boot, Connecting
  <1>10. /\ TypeInv' /\ CallerInv' /\ DeviceInv' /\ KillInv'
         /\ HoldersInv' /\ FirstLifeInv'
    <2>1. Stopping /\ Stopping'
      BY <1>1, <1>5 DEF Stopping
    <2> QED BY <2>1, <1>1, <1>2, <1>5, <1>6, CleanupKept
  <1> QED BY <1>8, <1>9, <1>10 DEF LifeInv

(* The task that has released kill_sem is suspended, so that it exists.    *)
LEMMA ReapDaemonInv ==
    ASSUME LifeInv, Reap(DaemonId, "waitDaemon", "killTicker")
    PROVE  LifeInv' /\ pc[DaemonId] = "suspended"
           /\ \A t \in Tasks : pc'[t] = pc[t] \/ t = DaemonId
  <1>1. Place = "waitDaemon" /\ up /\ kill_sem = 1 /\ kill_sem' = 0
    BY DEF Reap, Place, LifeInv, CallerInv, Stopping
  <1>2. /\ TickerId \in Tickers /\ DaemonId \in Daemons
        /\ Tickers \cup Daemons \cup ReaderTasks \subseteq Tasks
        /\ DaemonId \notin Tickers /\ DaemonId \notin ReaderTasks
    BY <1>1, UpNamed, Distinct DEF LifeInv
  <1>3. pc[DaemonId] = "suspended" /\ Exists(DaemonId)
    BY <1>1 DEF LifeInv, DaemonsInv, Exists
  <1>4. /\ Place' = "killTicker" /\ DOMAIN pc' = Tasks \cup {Caller}
        /\ pc'[DaemonId] = "deleted"
        /\ \A t \in Tasks : t # DaemonId => pc'[t] = pc[t]
    BY <1>2, <1>3, Started DEF LifeInv, Reap
  <1>5. UNCHANGED <<build, gen, up, idVars, timer, sd, stray, mutexes,
                    holder, events, tickerRunning>>
    BY DEF Reap, mutexVars, callerVars, historyVars
  <1>6. TickerId' = TickerId /\ DaemonId' = DaemonId
    BY <1>5 DEF TickerId, DaemonId, idVars
  <1>7. TickersInv'
    <2>1. \A t \in Tickers : pc'[t] = pc[t]
      BY <1>2, <1>4
    <2>2. ASSUME NEW t \in Tickers PROVE TickerInv(t)'
      <3>1. TickerInv(t) /\ pc'[t] = pc[t]
        BY <2>1 DEF LifeInv, TickersInv
      <3> QED BY <3>1, <1>1, <1>4, <1>5, <1>6
              DEF TickerInv, TickerMayRun, idVars, USE_PICTIMER
    <2>3. \A g \in Generations : <<"ticker", g>> \in Tickers
      BY Named
    <2> QED BY <2>1, <2>2, <2>3, <1>1, <1>2, <1>4, <1>5, <1>6
            DEF LifeInv, TickersInv, Boot, Connecting
  <1>8. DaemonsInv'
    <2>1. ASSUME NEW d \in Daemons PROVE DaemonInv(d)'
      <3>1. DaemonInv(d) /\ d \in Tasks
        BY <1>2 DEF LifeInv, DaemonsInv
      <3>2. CASE d = DaemonId
        BY <3>2, <1>4 DEF DaemonInv, Resting, Ending
      <3>3. CASE d # DaemonId
        BY <3>1, <3>3, <1>4, <1>5 DEF DaemonInv, Resting, Ending
      <3> QED BY <3>2, <3>3
    <2>2. \A g \in Generations : <<"daemon", g>> \in Tasks
      BY Named, Distinct
    <2> QED BY <2>1, <2>2, <1>1, <1>3, <1>4, <1>5
            DEF LifeInv, DaemonsInv, Boot, Connecting
  <1>9. /\ TypeInv' /\ CallerInv' /\ DeviceInv' /\ KillInv'
        /\ HoldersInv' /\ FirstLifeInv'
    <2>1. Stopping /\ Stopping'
      BY <1>1, <1>4 DEF Stopping
    <2>2. \A t \in Tasks :
                \/ pc'[t] = pc[t]
                \/ pc[t] \notin Inside /\ pc'[t] \notin Inside
      BY <1>3, <1>4 DEF Inside
    <2>3. \A t \in ReaderTasks : pc'[t] = pc[t]
      BY <1>2, <1>4
    <2> QED BY <2>1, <2>2, <2>3, <1>1, <1>4, <1>5, CleanupKept
  <1> QED BY <1>3, <1>4, <1>7, <1>8, <1>9 DEF LifeInv

LEMMA ReapTickerInv ==
    ASSUME LifeInv, Reap(TickerId, "waitTicker", "delete")
    PROVE  LifeInv' /\ pc[TickerId] = "suspended"
           /\ \A t \in Tasks : pc'[t] = pc[t] \/ t = TickerId
  <1>1. Place = "waitTicker" /\ up /\ kill_sem = 1 /\ kill_sem' = 0
    BY DEF Reap, Place, LifeInv, CallerInv, Stopping
  <1>2. /\ TickerId \in Tickers /\ DaemonId \in Daemons
        /\ Tickers \cup Daemons \cup ReaderTasks \subseteq Tasks
        /\ TickerId \notin Daemons /\ TickerId \notin ReaderTasks
    BY <1>1, UpNamed, Distinct DEF LifeInv
  <1>3. pc[TickerId] = "suspended" /\ Exists(TickerId)
    BY <1>1 DEF LifeInv, TickersInv, Exists
  <1>4. /\ Place' = "delete" /\ DOMAIN pc' = Tasks \cup {Caller}
        /\ pc'[TickerId] = "deleted"
        /\ \A t \in Tasks : t # TickerId => pc'[t] = pc[t]
    BY <1>2, <1>3, Started DEF LifeInv, Reap
  <1>5. UNCHANGED <<build, gen, up, idVars, timer, sd, stray, mutexes,
                    holder, events, tickerRunning>>
    BY DEF Reap, mutexVars, callerVars, historyVars
  <1>6. DaemonId' = DaemonId
    BY <1>5 DEF DaemonId, idVars
  <1>7. TickersInv'
    <2>1. ASSUME NEW t \in Tickers PROVE TickerInv(t)'
      <3>1. TickerInv(t) /\ t \in Tasks
        BY <1>2 DEF LifeInv, TickersInv
      <3>2. CASE t = TickerId
        BY <3>2, <1>4 DEF TickerInv, Resting, Turning
      <3>3. CASE t # TickerId
        BY <3>1, <3>3, <1>4, <1>5 DEF TickerInv, Resting, Turning
      <3> QED BY <3>2, <3>3
    <2>2. \A g \in Generations : <<"ticker", g>> \in Tasks
      BY Named, Distinct
    <2> QED BY <2>1, <2>2, <1>1, <1>3, <1>4, <1>5
            DEF LifeInv, TickersInv, Boot, Connecting
  <1>8. DaemonsInv'
    <2>1. \A d \in Daemons : pc'[d] = pc[d]
      BY <1>2, <1>4
    <2>2. ASSUME NEW d \in Daemons PROVE DaemonInv(d)'
      <3>1. DaemonInv(d) /\ pc'[d] = pc[d]
        BY <2>1 DEF LifeInv, DaemonsInv
      <3> QED BY <3>1, <1>1, <1>4, <1>5, <1>6 DEF DaemonInv
    <2>3. \A g \in Generations : <<"daemon", g>> \in Daemons
      BY Named
    <2> QED BY <2>1, <2>2, <2>3, <1>1, <1>4, <1>5
            DEF LifeInv, DaemonsInv, Boot, Connecting
  <1>9. /\ TypeInv' /\ CallerInv' /\ DeviceInv' /\ KillInv'
        /\ HoldersInv' /\ FirstLifeInv'
    <2>1. Stopping /\ Stopping'
      BY <1>1, <1>4 DEF Stopping
    <2>2. \A t \in Tasks :
                \/ pc'[t] = pc[t]
                \/ pc[t] \notin Inside /\ pc'[t] \notin Inside
      BY <1>3, <1>4 DEF Inside
    <2>3. \A t \in ReaderTasks : pc'[t] = pc[t]
      BY <1>2, <1>4
    <2> QED BY <2>1, <2>2, <2>3, <1>1, <1>4, <1>5, CleanupKept
  <1> QED BY <1>3, <1>4, <1>7, <1>8, <1>9 DEF LifeInv

(* Where no task reads the clock, no one is left who could hold the mutex. *)
LEMMA DeleteInv ==
    ASSUME LifeInv, Delete
    PROVE  LifeInv'
  <1>1. /\ Place = "delete" /\ up /\ timer = "off"
        /\ mutex_id = gen /\ gen \in mutexes /\ gen > 0
    BY DEF Delete, Goto, Place, LifeInv, CallerInv, DeviceInv, Stopping
  <1>2. /\ gen \in Generations /\ mutexes \subseteq Generations
        /\ Tickers \cup Daemons \cup ReaderTasks \subseteq Tasks
    BY <1>1, UpNamed, Distinct DEF LifeInv, TypeInv
  <1>3. /\ \A t \in Tickers : pc[t] \in Resting /\ TickerInv(t)
        /\ \A d \in Daemons : pc[d] \in Resting /\ DaemonInv(d)
    <2>1. \A t \in Tickers : pc[t] \in Resting
      BY <1>1, TickerRuns DEF TickerMayRun, Down, Boot
    <2>2. \A d \in Daemons : pc[d] \in Resting
      BY <1>1, DaemonRuns
    <2> QED BY <2>1, <2>2 DEF LifeInv, TickersInv, DaemonsInv
  <1>4. /\ UNCHANGED <<build, gen, idVars, holder, events, tickerRunning,
                       timer, stray>>
        /\ DOMAIN pc' = Tasks \cup {Caller}
        /\ \A t \in Tasks : pc'[t] = pc[t]
        /\ \/ /\ Place' = "idle" /\ up' = FALSE /\ sd' # "ours"
              /\ mutexes' = mutexes \ {gen}
           \/ /\ Place' = "abort" /\ UNCHANGED <<up, sd, mutexes>>
              /\ holder[mutex_id] # {}
    BY <1>1, CallerGoto DEF LifeInv, Delete, closeSd, historyVars
  <1>5. Place' = "abort" => build.readers # {}
    <2>1. ASSUME build.readers = {}, NEW t \in holder[mutex_id] PROVE FALSE
      <3>1. mutex_id \in Generations /\ t \in Tasks \cup {Caller}
            /\ (t \notin ReaderTasks => pc[t] \in Inside)
        BY <2>1, <1>1, <1>2 DEF LifeInv, HoldersInv
      <3>2. t \notin ReaderTasks
        BY <2>1, <3>1 DEF LifeInv, HoldersInv
      <3>3. pc[t] \notin Inside
        BY <3>1, <3>2, <1>1, <1>3 DEF Tasks, Inside, Resting, Place
      <3> QED BY <3>1, <3>2, <3>3
    <2> QED BY <2>1, <1>4
  <1>6. TypeInv'
    BY <1>2, <1>4 DEF LifeInv, TypeInv, USE_PICTIMER
  <1>7. CallerInv' /\ DeviceInv' /\ KillInv'
    BY <1>1, <1>4, <1>5 DEF LifeInv, CallerInv, DeviceInv, KillInv, Boot,
       Connecting, Stopping, Down, idVars, USE_PICTIMER
  <1>8. TickersInv'
    <2>1. ASSUME NEW t \in Tickers PROVE TickerInv(t)'
      BY <1>1, <1>2, <1>3, <1>4 DEF TickerInv, Resting, Turning
    <2>2. \A g \in Generations : <<"ticker", g>> \in Tasks
      BY Named, Distinct
    <2> QED BY <2>1, <2>2, <1>1, <1>4
            DEF LifeInv, TickersInv, Boot, Connecting
  <1>9. DaemonsInv'
    <2>1. ASSUME NEW d \in Daemons PROVE DaemonInv(d)'
      BY <1>1, <1>2, <1>3, <1>4 DEF DaemonInv, Resting, Ending
    <2>2. \A g \in Generations : <<"daemon", g>> \in Tasks
      BY Named, Distinct
    <2> QED BY <2>1, <2>2, <1>1, <1>4
            DEF LifeInv, DaemonsInv, Boot, Connecting
  <1>10. HoldersInv' /\ FirstLifeInv'
    <2>1. Place \notin Inside /\ Place' \notin Inside
          /\ ~BeforeMutex /\ ~BeforeMutex'
      BY <1>1, <1>4 DEF Inside, BeforeMutex, Boot
    <2>2. HoldersInv'
      BY <1>2, <1>4, <2>1 DEF LifeInv, HoldersInv, idVars, Place
    <2>3. CASE Place' = "idle"
      <3>1. gen # 0
        BY LifecycleAssumption, <1>2 DEF Generations
      <3>2. ~MutexKept'
        BY <2>3, <3>1, <1>1, <1>4 DEF MutexKept, idVars
      <3> QED BY <3>1, <3>2, <2>1, <2>2, <1>4 DEF FirstLifeInv
    <2>4. CASE Place' = "abort"
      BY <2>1, <2>2, <2>4, <1>2, <1>4
         DEF LifeInv, FirstLifeInv, ExclusiveInv, MutexKept, idVars
    <2> QED BY <2>3, <2>4, <1>4
  <1> QED BY <1>6, <1>7, <1>8, <1>9, <1>10 DEF LifeInv

LEMMA LifeStep == LifeInv /\ [Next]_lvars /\ orderly' => LifeInv'
  <1> SUFFICES ASSUME LifeInv, [Next]_lvars, orderly' PROVE LifeInv'
    OBVIOUS
  <1>1. CASE Begin
    BY <1>1, BeginInv
  <1>2. CASE rtemsNtpInitialize
    BY <1>2, ResetInv, AdjustInv, InstallTimerInv, OpenSocketInv,
       CreateMutexInv, StartTickerInv, StartDaemonInv DEF rtemsNtpInitialize
  <1>3. CASE CreateKillSem \/ rtemsNtpCleanup
    BY <1>3, CreateKillSemInv, KillDaemonInv, ReapDaemonInv, KillTickerInv,
       ReapTickerInv, DeleteInv DEF rtemsNtpCleanup
  <1>4. CASE ClockIsr
    BY <1>4, ClockIsrInv
  <1>5. CASE \/ \E t \in Tickers : tickerDaemon(t)
             \/ \E t \in Daemons : ntpDaemon(t)
             \/ \E t \in ReaderTasks : ntp_gettime(t)
    BY <1>5, TaskInv
  <1>6. CASE UNCHANGED lvars
    <2>1. /\ UNCHANGED <<pc, build, gen, up, idVars, timer, sd, stray, mutexes,
                         holder, kill_sem, events, tickerRunning>>
          /\ Place' = Place
      BY <1>6 DEF lvars, mutexVars, killVars, callerVars, historyVars, Place
    <2>2. TickersInv' /\ DaemonsInv'
      BY <2>1, TickersKept, DaemonsKept DEF idVars
    <2>3. HoldersInv' /\ FirstLifeInv'
      BY <2>1, HoldersKept DEF BeforeMutex, Boot, idVars
    <2>4. TypeInv'
      BY <2>1, TypeKept DEF LifeInv, TypeInv
    <2>5. CallerInv' /\ DeviceInv' /\ KillInv'
      BY <2>1, CallerKept
    <2> QED BY <2>2, <2>3, <2>4, <2>5 DEF LifeInv
  <1> QED BY <1>1, <1>2, <1>3, <1>4, <1>5, <1>6 DEF Next, Stopped

(* What is once called out of turn stays so.                               *)
LEMMA OrderlyBefore ==
    [Next]_lvars => build' = build /\ (orderly' => orderly)
  <1> SUFFICES ASSUME [Next]_lvars PROVE build' = build /\ (orderly' => orderly)
    OBVIOUS
  <1>1. CASE rtemsNtpInitialize
    BY <1>1 DEF rtemsNtpInitialize, Reset, Enter, Leave, InstallTimer,
       OpenSocket, Lookup, SetTime, CreateMutex, StartTicker, StartDaemon,
       callerVars, historyVars
  <1>2. CASE rtemsNtpCleanup
    BY <1>2 DEF rtemsNtpCleanup, KillDaemon, Reap, KillTicker, Delete,
       callerVars, historyVars
  <1>3. CASE \E t \in Tickers : tickerDaemon(t)
    BY <1>3 DEF tickerDaemon, TickerStart, PeriodOver, TimerEvent, Enter,
       Leave, TickerLoop, TickerRelease, callerVars, historyVars
  <1>4. CASE \E t \in Daemons : ntpDaemon(t)
    BY <1>4 DEF ntpDaemon, DaemonPoll, Enter, Leave, DaemonKilled,
       DaemonRelease, callerVars, historyVars
  <1>5. CASE \E t \in ReaderTasks : ntp_gettime(t)
    BY <1>5 DEF ntp_gettime, Enter, Leave, callerVars, historyVars
  <1>6. CASE Begin
    BY <1>6 DEF Begin
  <1>7. CASE CreateKillSem
    BY <1>7 DEF CreateKillSem
  <1>8. CASE ClockIsr \/ UNCHANGED lvars
    BY <1>8 DEF ClockIsr, lvars, callerVars, historyVars
  <1> QED BY <1>1, <1>2, <1>3, <1>4, <1>5, <1>6, <1>7, <1>8 DEF Next, Stopped

(* The invariant, so long as Initialize and Cleanup are called in turn.    *)
LEMMA LifeInvHolds == Spec => [](build \in Builds /\ (orderly => LifeInv))
  <1>1. Init => build \in Builds /\ (orderly => LifeInv)
    BY LifeInit DEF Init
  <1>2. build \in Builds /\ (orderly => LifeInv) /\ [Next]_lvars
        => (build \in Builds /\ (orderly => LifeInv))'
    BY OrderlyBefore, LifeStep
  <1> QED BY <1>1, <1>2, PTL DEF Spec

(***************************************************************************)
(* The properties.                                                         *)
(***************************************************************************)

(* However often the clock is started and stopped, whatever calls fail and *)
(* whenever the tasks first run: no more than one ticker drives it         *)
(* (rtemsdep.c:761-960), unless the daemon's failure has left one behind.  *)
THEOREM OneTickerHolds == Spec => []OneTicker
  <1>1. build \in Builds /\ (orderly => LifeInv) => OneTicker
    <2> SUFFICES ASSUME LifeInv PROVE OneTicker
      BY DEF OneTicker
    <2> DEFINE driving == {t \in Tickers : Driving(t)}
    <2>1. driving \in SUBSET {TickerId}
      BY TickerRuns DEF Driving, Resting
    <2>2. IsFiniteSet({TickerId}) /\ Cardinality({TickerId}) = 1
      BY FS_Singleton
    <2>3. Cardinality(driving) <= Cardinality({TickerId})
      BY <2>1, <2>2, FS_Subset
    <2> QED BY <2>2, <2>3 DEF OneTicker
  <1> QED BY <1>1, LifeInvHolds, PTL

(* In the clock's first life no two of the ticker, the daemon, the caller  *)
(* and any number of readers are in the clock at a time, although          *)
(* ntp_init() and the setting of TIMEVAR take no mutex and splclock()      *)
(* without one excludes nobody (rtemsdep.c:106-119, 762-912).              *)
THEOREM ClockExclusiveHolds == Spec => []ClockExclusive
  <1>1. build \in Builds /\ (orderly => LifeInv) => ClockExclusive
    <2> SUFFICES ASSUME LifeInv, gen <= 1, MutexKept
                 PROVE  Cardinality({t \in DOMAIN pc : pc[t] \in
                            {"inBody", "inWork", "inFinal", "inRead",
                             "inAdjust", "reset", "settime"}}) <= 1
      BY DEF ClockExclusive
    <2> DEFINE inClock == {t \in DOMAIN pc : pc[t] \in
                            {"inBody", "inWork", "inFinal", "inRead",
                             "inAdjust", "reset", "settime"}}
    <2>1. ExclusiveInv
      BY DEF LifeInv, FirstLifeInv
    <2>2. ASSUME NEW t \in Tasks, t \in inClock
          PROVE  mutex_id \in mutexes /\ t \in holder[mutex_id]
      <3>1. pc[t] \in Inside
        BY <2>2 DEF LifeInv, TickersInv, TickerInv, DaemonsInv, DaemonInv,
           HoldersInv, Tasks, Inside, Resting, Turning, Polling, Ending
      <3> QED BY <2>1, <3>1 DEF ExclusiveInv
    <2>3. Caller \in inClock => mutex_id \notin mutexes
      <3>1. ASSUME Caller \in inClock PROVE BeforeMutex /\ gen > 0
        BY <3>1 DEF BeforeMutex, Boot, Place, LifeInv, CallerInv, Connecting,
           Stopping
      <3>2. gen \in Nat /\ mutexes \subseteq Generations /\ 0 \notin Generations
        BY LifecycleAssumption DEF LifeInv, TypeInv, Generations
      <3> QED BY <3>1, <3>2 DEF LifeInv, FirstLifeInv
    <2>4. \A t, u \in inClock : t = u
      <3>1. inClock \subseteq Tasks \cup {Caller}
        BY DEF LifeInv, TypeInv
      <3>2. mutex_id \in mutexes => \A t, u \in holder[mutex_id] : t = u
        BY <2>1 DEF ExclusiveInv
      <3> HIDE DEF inClock
      <3> QED BY <2>2, <2>3, <3>1, <3>2
    <2> HIDE DEF inClock
    <2>5. CASE inClock = {}
      BY <2>5, FS_EmptySet DEF inClock
    <2>6. CASE inClock # {}
      <3>1. PICK t \in inClock : TRUE
        BY <2>6
      <3>2. inClock = {t}
        BY <2>4, <3>1
      <3> QED BY <3>2, FS_Singleton DEF inClock
    <2> QED BY <2>5, <2>6
  <1> QED BY <1>1, LifeInvHolds, PTL

(* No PARANOIA() of rtemsNtpCleanup() and of the tasks it stops fails      *)
(* (rtemsdep.c:914-963): each task that it deletes exists, kill_sem        *)
(* outlives them all, and without readers nobody holds the mutex.          *)
THEOREM NoAssertionHolds == Spec => []NoAssertion
  <1>1. build \in Builds /\ (orderly => LifeInv) => NoAssertion
    <2> SUFFICES ASSUME LifeInv, build.readers = {}, NEW t \in DOMAIN pc
                 PROVE  pc[t] # "abort"
      BY DEF NoAssertion
    <2>1. t \in Tickers \/ t \in Daemons \/ t \in ReaderTasks \/ t = Caller
      BY DEF LifeInv, TypeInv, Tasks
    <2>2. CASE t = Caller
      BY <2>2 DEF LifeInv, CallerInv, Place
    <2>3. CASE t \in Tickers
      BY <2>3 DEF LifeInv, TickersInv, TickerInv, Resting, Turning
    <2>4. CASE t \in Daemons
      BY <2>4 DEF LifeInv, DaemonsInv, DaemonInv, Resting, Polling, Ending
    <2>5. CASE t \in ReaderTasks
      BY <2>5 DEF LifeInv, HoldersInv
    <2> QED BY <2>1, <2>2, <2>3, <2>4, <2>5
  <1> QED BY <1>1, LifeInvHolds, PTL

(* After an Initialize that fails and after a Cleanup that succeeds, in    *)
(* every build and whichever calls have failed, no ticker or daemon runs,  *)
(* the timer is silent and the socket is not left open, but for the ticker *)
(* of a daemon that could not be started and its timer                     *)
(* (rtemsdep.c:866-910, 914-963).                                          *)
THEOREM NothingSurvivesHolds == Spec => []NothingSurvives
  <1>1. build \in Builds /\ (orderly => LifeInv) => NothingSurvives
    <2> SUFFICES ASSUME LifeInv, pc[Caller] = "idle", ~up
                 PROVE  /\ \A t \in (Tickers \cup Daemons) \ stray :
                                pc[t] \in Resting
                        /\ \/ timer \in {"off", "stuck"}
                           \/ timer = "connected" /\ stray # {}
                        /\ sd # "ours"
      BY DEF NothingSurvives
    <2>1. /\ timer \in {"off", "stuck"} \/ (timer = "connected" /\ stray # {})
          /\ sd # "ours"
      BY DEF LifeInv, DeviceInv, Down, Place
    <2>2. \A t \in Tickers : t \notin stray => pc[t] \in Resting
      BY TickerRuns DEF TickerMayRun, Place
    <2>3. \A d \in Daemons : pc[d] \in Resting
      BY DaemonRuns
    <2> QED BY <2>1, <2>2, <2>3
  <1> QED BY <1>1, LifeInvHolds, PTL

(* The only tasks that a step deletes are the two that Cleanup reaps.      *)
LEMMA Deletions ==
    ASSUME LifeInv, [Next]_lvars, NEW t \in Tickers \cup Daemons,
           pc'[t] = "deleted", pc[t] # "deleted"
    PROVE  pc[t] = "suspended"
  <1>1. t \in Tasks /\ t # Caller /\ t \notin ReaderTasks
    BY Distinct
  <1>2. ASSUME NEW from, NEW to, NEW u \in Tasks \cup {Caller},
               to # "deleted", Goto(u, from, to)
        PROVE  FALSE
    BY <1>1, <1>2, CallerGoto, TaskGoto DEF LifeInv
  <1>3. CASE rtemsNtpInitialize
    <2>1. CASE Reset \/ SetTime \/ Lookup \/ CreateMutex \/ OpenSocket
               \/ InstallTimer
      BY <1>2, <2>1 DEF Reset, SetTime, Lookup, CreateMutex, OpenSocket,
         InstallTimer, Attempt, Bail
    <2>2. CASE \/ Enter(Caller, "adjust", "inAdjust")
               \/ Leave(Caller, "inAdjust", "install")
      BY <1>2, <2>2 DEF Enter, Leave
    <2>3. CASE StartTicker
      <3>1. CASE Bail("ticker")
        BY <3>1, <1>2 DEF Bail
      <3>2. <<"ticker", gen>> \in Tasks
        BY <2>3, UpNamed, Named, Distinct DEF StartTicker, LifeInv, Place
      <3>3. ASSUME NEW label \in {"start", "dormant"}, NEW place,
                   pc' = [pc EXCEPT ![<<"ticker", gen>>] = label,
                                    ![Caller] = place]
            PROVE  FALSE
        BY <1>1, <3>2, <3>3, Started DEF LifeInv
      <3> QED BY <2>3, <3>1, <3>3 DEF StartTicker
    <2>4. CASE StartDaemon
      <3>1. CASE Goto(Caller, "daemon", "idle")
        BY <3>1, <1>2
      <3>2. <<"daemon", gen>> \in Tasks
        BY <2>4, UpNamed, Named, Distinct DEF StartDaemon, LifeInv, Place
      <3>3. ASSUME NEW label \in {"start", "dormant"}, NEW place,
                   pc' = [pc EXCEPT ![<<"daemon", gen>>] = label,
                                    ![Caller] = place]
            PROVE  FALSE
        BY <1>1, <3>2, <3>3, Started DEF LifeInv
      <3> QED BY <2>4, <3>1, <3>3 DEF StartDaemon
    <2> QED BY <1>3, <2>1, <2>2, <2>3, <2>4 DEF rtemsNtpInitialize
  <1>4. CASE CreateKillSem \/ KillDaemon \/ KillTicker \/ Delete \/ Begin
    BY <1>2, <1>4 DEF CreateKillSem, KillDaemon, KillTicker, Delete, Begin
  <1>5. CASE \/ Reap(DaemonId, "waitDaemon", "killTicker")
             \/ Reap(TickerId, "waitTicker", "delete")
    BY <1>1, <1>5, ReapDaemonInv, ReapTickerInv
  <1>6. CASE \E u \in Tickers : tickerDaemon(u)
    <2>1. PICK u \in Tickers : tickerDaemon(u)
      BY <1>6
    <2>2. u \in Tasks
      BY Distinct
    <2> QED BY <1>2, <2>1, <2>2 DEF tickerDaemon, TickerStart, PeriodOver,
            TimerEvent, TickerLoop, TickerRelease, Enter, Leave
  <1>7. CASE \E u \in Daemons : ntpDaemon(u)
    <2>1. PICK u \in Daemons : ntpDaemon(u)
      BY <1>7
    <2>2. u \in Tasks
      BY Distinct
    <2> QED BY <1>2, <2>1, <2>2 DEF ntpDaemon, DaemonPoll, DaemonKilled,
            DaemonRelease, Enter, Leave
  <1>8. CASE \E u \in ReaderTasks : ntp_gettime(u)
    <2>1. PICK u \in ReaderTasks : ntp_gettime(u)
      BY <1>8
    <2>2. u \in Tasks
      BY Distinct
    <2> QED BY <1>2, <2>1, <2>2 DEF ntp_gettime, Enter, Leave
  <1>9. CASE ClockIsr \/ UNCHANGED lvars
    BY <1>9 DEF ClockIsr, lvars
  <1> QED BY <1>3, <1>4, <1>5, <1>6, <1>7, <1>8, <1>9
          DEF Next, rtemsNtpCleanup, Stopped

(* rtemsNtpCleanup() deletes a task only when it is suspended at its end   *)
(* and holds no mutex: "the race condition" that ntpDaemon() notes is      *)
(* excluded (rtemsdep.c:676-688, 922-943).                                 *)
THEOREM DeletedAtRestHolds == Spec => DeletedAtRest
  <1> DEFINE Rests == \A t \in Tickers \cup Daemons :
            orderly /\ pc'[t] = "deleted" /\ pc[t] # "deleted"
                => pc[t] = "suspended" /\ \A g \in Generations :
                                                t \notin holder[g]
  <1>1. build \in Builds /\ (orderly => LifeInv)
            /\ [Next]_lvars => [Rests]_lvars
    <2> SUFFICES ASSUME LifeInv, [Next]_lvars,
                        NEW t \in Tickers \cup Daemons,
                        pc'[t] = "deleted", pc[t] # "deleted"
                 PROVE  pc[t] = "suspended" /\ \A g \in Generations :
                                                    t \notin holder[g]
      OBVIOUS
    <2>1. pc[t] = "suspended"
      BY Deletions
    <2>2. t \notin ReaderTasks /\ pc[t] \notin Inside
      BY <2>1, Distinct DEF Inside
    <2> QED BY <2>1, <2>2 DEF LifeInv, HoldersInv
  <1> QED BY <1>1, LifeInvHolds, PTL DEF Spec, DeletedAtRest

(***************************************************************************)
(* Cleanup's wait for the tasks that it kills.  The safety behind          *)
(* CleanupReturns: a task that is told to end is on its way to kill_sem,   *)
(* nothing turns it back, and each of its own steps takes it nearer.       *)
(***************************************************************************)
Posted(t) == pc[t] = "suspended" /\ kill_sem = 1

DaemonEnds ==
    /\ Place = "waitDaemon"
    /\ \/ pc[DaemonId] \in Polling /\ "KILL" \in events[DaemonId]
       \/ pc[DaemonId] \in Ending
       \/ Posted(DaemonId)

TickerEnds ==
    /\ Place = "waitTicker"
    /\ \/ USE_PICTIMER /\ pc[TickerId] \in Turning
            /\ "KILL" \in events[TickerId]
       \/ ~USE_PICTIMER /\ pc[TickerId] \in Turning \ {"start"}
            /\ ~tickerRunning
       \/ pc[TickerId] = "release"
       \/ Posted(TickerId)

(* The steps that are left to a task that ends: to leave the clock, or to  *)
(* enter it for the last time, and to release kill_sem.                    *)
WorkLeft(place) ==
    IF place \in {"start", "work"} THEN 6
    ELSE IF place = "inWork" THEN 5
    ELSE IF place = "wait" THEN 4
    ELSE IF place = "final" THEN 3
    ELSE IF place = "inFinal" THEN 2
    ELSE IF place = "release" THEN 1 ELSE 0

DaemonLeft == WorkLeft(pc[DaemonId])

TicksLeft(place, pictimer) ==
    IF place = "wait" /\ ~pictimer THEN 7
    ELSE IF place = "body" THEN 6
    ELSE IF place = "inBody" THEN 5
    ELSE IF place \in {"start", "loop"} THEN 4
    ELSE IF place = "wait" THEN 3
    ELSE IF place = "release" THEN 1 ELSE 0

TickerLeft == TicksLeft(pc[TickerId], USE_PICTIMER)

(* What a step does while Cleanup waits for the one and for the other.     *)
DaemonNearer ==
    DaemonEnds =>
        \/ Place' = "killTicker"
        \/ DaemonEnds' /\ IF ntpDaemon(DaemonId) THEN DaemonLeft' < DaemonLeft
                          ELSE DaemonLeft' = DaemonLeft

TickerNearer ==
    TickerEnds =>
        \/ Place' = "delete"
        \/ TickerEnds' /\ IF tickerDaemon(TickerId) THEN TickerLeft' < TickerLeft
                          ELSE TickerLeft' = TickerLeft

(* Who moves while Cleanup waits: what it waits for, a reader, the ticker  *)
(* that is not yet told to end, or Cleanup, which waits no longer.         *)
LEMMA WhileWaiting ==
    ASSUME LifeInv, [Next]_lvars, Place \in {"waitDaemon", "waitTicker"}
    PROVE  \/ Place = "waitDaemon" /\ Reap(DaemonId, "waitDaemon", "killTicker")
           \/ Place = "waitTicker" /\ Reap(TickerId, "waitTicker", "delete")
           \/ tickerDaemon(TickerId)
           \/ Place = "waitDaemon" /\ ntpDaemon(DaemonId)
           \/ /\ \A t \in Tickers \cup Daemons : pc'[t] = pc[t]
              /\ UNCHANGED <<killVars, callerVars>> /\ Place' = Place
  <1>1. CASE Begin \/ rtemsNtpInitialize
    BY <1>1 DEF Begin, rtemsNtpInitialize, Reset, Enter, Leave, InstallTimer,
       OpenSocket, Lookup, SetTime, CreateMutex, StartTicker, StartDaemon,
       Attempt, Bail, Goto, Place
  <1>2. CASE CreateKillSem \/ rtemsNtpCleanup
    BY <1>2 DEF CreateKillSem, rtemsNtpCleanup, KillDaemon, KillTicker,
       Delete, Goto, Reap, Place
  <1>3. CASE ClockIsr
    BY <1>3 DEF ClockIsr, LifeInv, DeviceInv, Stopping
  <1>4. CASE \E t \in Tickers : tickerDaemon(t)
    <2>1. PICK t \in Tickers : tickerDaemon(t)
      BY <1>4
    <2>2. pc[t] \notin Resting
      BY <2>1 DEF tickerDaemon, TickerStart, PeriodOver, TimerEvent, Enter,
         Leave, TickerLoop, TickerRelease, Goto, Resting
    <2> QED BY <2>1, <2>2, TickerRuns
  <1>5. CASE \E d \in Daemons : ntpDaemon(d)
    <2>1. PICK d \in Daemons : ntpDaemon(d)
      BY <1>5
    <2>2. pc[d] \notin Resting
      BY <2>1 DEF ntpDaemon, DaemonPoll, DaemonKilled, DaemonRelease, Enter,
         Leave, Goto, Resting
    <2> QED BY <2>1, <2>2, DaemonRuns
  <1>6. CASE \E t \in ReaderTasks : ntp_gettime(t)
    <2>1. PICK t \in ReaderTasks : ntp_gettime(t)
      BY <1>6
    <2>2. PICK from, to : Goto(t, from, to)
      BY <2>1 DEF ntp_gettime, Enter, Leave
    <2>3. t \in Tasks /\ t \notin Tickers /\ t \notin Daemons
          /\ Tickers \cup Daemons \subseteq Tasks
      BY Distinct
    <2>4. Place' = Place /\ \A u \in Tasks : u # t => pc'[u] = pc[u]
      BY <2>2, <2>3, TaskGoto DEF LifeInv
    <2>5. UNCHANGED <<killVars, callerVars>>
      BY <2>1 DEF ntp_gettime, Enter, Leave
    <2> QED BY <2>3, <2>4, <2>5
  <1>7. CASE UNCHANGED lvars
    BY <1>7 DEF lvars, Place
  <1> QED BY <1>1, <1>2, <1>3, <1>4, <1>5, <1>6, <1>7 DEF Next, Stopped

(* The identifiers of both tasks while Cleanup waits.                      *)
LEMMA WaitNamed ==
    ASSUME LifeInv, Stopping
    PROVE  /\ TickerId \in Tickers /\ DaemonId \in Daemons
           /\ TickerId \in Tasks /\ DaemonId \in Tasks
           /\ TickerId # DaemonId /\ gen \in Nat \ {0}
           /\ ticker_id = gen /\ daemon_id = gen
  <1>1. TypeInv /\ CallerInv /\ up
    BY DEF LifeInv, CallerInv
  <1>2. TickerId \in Tickers /\ DaemonId \in Daemons
    BY <1>1, UpNamed
  <1>3. gen \in Nat /\ gen > 0 /\ ticker_id = gen /\ daemon_id = gen
    BY <1>1, LifecycleAssumption DEF TypeInv, CallerInv
  <1> QED BY <1>2, <1>3, Distinct

LEMMA DaemonGoes ==
    ASSUME LifeInv, [Next]_lvars, DaemonEnds
    PROVE  DaemonNearer
  <1> DEFINE d == DaemonId
  <1> SUFFICES \/ Place' = "killTicker"
               \/ /\ DaemonEnds'
                  /\ IF ntpDaemon(DaemonId) THEN DaemonLeft' < DaemonLeft
                     ELSE DaemonLeft' = DaemonLeft
    BY DEF DaemonNearer
  <1>1. Place = "waitDaemon" /\ d \in Daemons /\ TickerId \in Tickers
        /\ d \in Tasks /\ TickerId \in Tasks /\ TickerId # d
    BY WaitNamed DEF DaemonEnds, Stopping
  <1>2. Posted(d) => ~ntpDaemon(d)
    BY DEF Posted, ntpDaemon, DaemonPoll, DaemonKilled, DaemonRelease, Enter,
       Leave, Goto
  <1>3. CASE Reap(DaemonId, "waitDaemon", "killTicker")
    BY <1>3, ReapDaemonInv DEF Reap, LifeInv, DaemonsInv, Exists, Place,
       TypeInv
  <1>4. CASE tickerDaemon(TickerId)
    <2>1. PICK from, to : Goto(TickerId, from, to)
      BY <1>4 DEF tickerDaemon, TickerStart, PeriodOver, TimerEvent, Enter,
         Leave, TickerLoop, TickerRelease
    <2>2. Place' = Place /\ pc'[d] = pc[d]
      BY <1>1, <2>1, TaskGoto DEF LifeInv
    <2>3. ~TickerRelease(TickerId)
      BY <1>1 DEF TickerRelease, Goto, LifeInv, TickersInv, TickerInv
    <2>4. UNCHANGED <<kill_sem, callerVars>>
      BY <1>4, <2>3 DEF tickerDaemon, TickerStart, PeriodOver, TimerEvent,
         Enter, Leave, TickerLoop, killVars
    <2>5. events'[d] = events[d]
      BY <1>1, <1>4, <2>3 DEF tickerDaemon, TickerStart, PeriodOver,
         TimerEvent, Enter, Leave, TickerLoop, killVars, LifeInv, TypeInv
    <2>6. DaemonId' = DaemonId
      BY <2>4 DEF DaemonId, callerVars, historyVars, idVars
    <2>7. ~ntpDaemon(d)
      <3>1. \A from2, to2 : Goto(d, from2, to2) => from2 = to2
        BY <1>1, <2>2, TaskGoto DEF LifeInv
      <3> QED BY <3>1 DEF ntpDaemon, DaemonPoll, DaemonKilled, DaemonRelease,
              Enter, Leave
    <2> QED BY <2>2, <2>4, <2>5, <2>6, <2>7 DEF DaemonEnds, Posted, DaemonLeft
  <1>5. CASE ntpDaemon(d)
    <2>1. PICK from, to : Goto(d, from, to)
      BY <1>5 DEF ntpDaemon, DaemonPoll, DaemonKilled, DaemonRelease, Enter,
         Leave
    <2>2. Place' = Place
      BY <1>1, <2>1, TaskGoto DEF LifeInv
    <2>3. UNCHANGED callerVars
      BY <1>5 DEF ntpDaemon, DaemonPoll, DaemonKilled, DaemonRelease, Enter,
         Leave
    <2>4. DaemonId' = DaemonId
      BY <2>3 DEF DaemonId, callerVars, historyVars, idVars
    <2>5. kill_sem \in {0, 1}
      BY <1>1 DEF LifeInv, KillInv
    <2>6. \A f, t : Goto(d, f, t) => pc[d] = f /\ pc'[d] = t
      BY <1>1, TaskGoto DEF LifeInv
    <2>7. pc[d] \in Polling => "KILL" \in events[d]
      BY <1>2, <1>5 DEF DaemonEnds, Polling, Ending
    <2>8. \/ /\ pc[d] \in {"start", "work"} /\ pc'[d] = "inWork"
             /\ events' = events
          \/ pc[d] = "inWork" /\ pc'[d] = "wait" /\ events' = events
          \/ pc[d] = "wait" /\ pc'[d] = "final"
          \/ pc[d] = "final" /\ pc'[d] = "inFinal"
          \/ pc[d] = "inFinal" /\ pc'[d] = "release"
          \/ pc[d] = "release" /\ pc'[d] = "suspended" /\ kill_sem' = 1
      <3>1. CASE \/ Enter(d, "start", "inWork") \/ Enter(d, "work", "inWork")
                 \/ Leave(d, "inWork", "wait") \/ Enter(d, "final", "inFinal")
                 \/ Leave(d, "inFinal", "release")
        BY <2>6, <3>1 DEF Enter, Leave, killVars
      <3>2. CASE DaemonPoll(d)
        BY <2>6, <2>7, <3>2 DEF DaemonPoll, Polling
      <3>3. CASE DaemonKilled(d)
        BY <2>6, <3>3 DEF DaemonKilled
      <3>4. CASE DaemonRelease(d)
        BY <2>5, <2>6, <3>4 DEF DaemonRelease
      <3> QED BY <1>5, <3>1, <3>2, <3>3, <3>4 DEF ntpDaemon
    <2>9. DaemonEnds'
      BY <1>1, <2>2, <2>4, <2>7, <2>8 DEF DaemonEnds, Polling, Ending, Posted
    <2>10. WorkLeft(pc'[d]) < WorkLeft(pc[d])
      BY <2>8 DEF WorkLeft
    <2> QED BY <1>5, <2>4, <2>9, <2>10 DEF DaemonLeft
  <1>6. CASE /\ \A t \in Tickers \cup Daemons : pc'[t] = pc[t]
             /\ UNCHANGED <<killVars, callerVars>> /\ Place' = Place
    <2>1. DaemonId' = DaemonId
      BY <1>6 DEF DaemonId, callerVars, historyVars, idVars
    <2>2. pc'[d] = pc[d] /\ UNCHANGED <<kill_sem, events>>
      BY <1>1, <1>6 DEF killVars
    <2>3. ~ntpDaemon(d)
      <3>1. \A from, to : Goto(d, from, to) => from = to
        BY <1>1, <2>2, TaskGoto DEF LifeInv
      <3> QED BY <3>1 DEF ntpDaemon, DaemonPoll, DaemonKilled, DaemonRelease,
              Enter, Leave
    <2> QED BY <1>6, <2>1, <2>2, <2>3 DEF DaemonEnds, Posted, DaemonLeft
  <1> QED BY <1>1, <1>3, <1>4, <1>5, <1>6, WhileWaiting

LEMMA TickerGoes ==
    ASSUME LifeInv, [Next]_lvars, TickerEnds
    PROVE  TickerNearer
  <1> DEFINE t == TickerId
  <1> SUFFICES \/ Place' = "delete"
               \/ /\ TickerEnds'
                  /\ IF tickerDaemon(TickerId) THEN TickerLeft' < TickerLeft
                     ELSE TickerLeft' = TickerLeft
    BY DEF TickerNearer
  <1>1. Place = "waitTicker" /\ t \in Tickers /\ t \in Tasks
    BY WaitNamed DEF TickerEnds, Stopping
  <1>2. pc[t] = "suspended" => ~tickerDaemon(t)
    BY DEF tickerDaemon, TickerStart, PeriodOver, TimerEvent, Enter, Leave,
       TickerLoop, TickerRelease, Goto
  <1>3. CASE Reap(TickerId, "waitTicker", "delete")
    BY <1>3, ReapTickerInv DEF Reap, LifeInv, TickersInv, Exists, Place,
       TypeInv
  <1>4. CASE tickerDaemon(t)
    <2>1. PICK from, to : Goto(t, from, to)
      BY <1>4 DEF tickerDaemon, TickerStart, PeriodOver, TimerEvent, Enter,
         Leave, TickerLoop, TickerRelease
    <2>2. Place' = Place
      BY <1>1, <2>1, TaskGoto DEF LifeInv
    <2>3. UNCHANGED callerVars
      BY <1>4 DEF tickerDaemon, TickerStart, PeriodOver, TimerEvent, Enter,
         Leave, TickerLoop, TickerRelease
    <2>4. TickerId' = TickerId /\ USE_PICTIMER' = USE_PICTIMER
      BY <2>3 DEF TickerId, USE_PICTIMER, callerVars, historyVars, idVars
    <2>5. kill_sem \in {0, 1}
      BY <1>1 DEF LifeInv, KillInv
    <2>6. \A f, g : Goto(t, f, g) => pc[t] = f /\ pc'[t] = g
      BY <1>1, TaskGoto DEF LifeInv
    <2>7. \/ USE_PICTIMER /\ "KILL" \in events[t]
          \/ ~USE_PICTIMER /\ ~tickerRunning /\ pc[t] # "start"
          \/ pc[t] = "release"
      BY <1>2, <1>4 DEF TickerEnds, Posted
    <2>8. \/ /\ pc[t] = "start" /\ pc'[t] = "wait" /\ USE_PICTIMER
             /\ UNCHANGED events
          \/ /\ pc[t] = "wait" /\ pc'[t] = "body" /\ ~USE_PICTIMER
             /\ UNCHANGED <<events, tickerRunning>>
          \/ /\ pc[t] = "body" /\ pc'[t] = "inBody"
             /\ UNCHANGED <<events, tickerRunning>>
          \/ /\ pc[t] = "inBody" /\ pc'[t] = "loop"
             /\ UNCHANGED <<events, tickerRunning>>
          \/ /\ pc[t] = "loop" /\ pc'[t] = "wait" /\ USE_PICTIMER
             /\ UNCHANGED <<events, tickerRunning>>
          \/ pc[t] \in {"wait", "loop"} /\ pc'[t] = "release"
                /\ (pc[t] = "wait" => USE_PICTIMER)
          \/ pc[t] = "release" /\ pc'[t] = "suspended" /\ kill_sem' = 1
      <3>1. CASE TickerStart(t)
        <4>1. pc[t] = "start" /\ pc'[t] = "wait" /\ UNCHANGED events
          BY <2>6, <3>1 DEF TickerStart
        <4> QED BY <2>7, <4>1
      <3>2. CASE PeriodOver(t) \/ Enter(t, "body", "inBody")
                 \/ Leave(t, "inBody", "loop")
        BY <2>6, <3>2 DEF PeriodOver, Enter, Leave, killVars
      <3>3. CASE TimerEvent(t)
        <4>1. USE_PICTIMER /\ pc[t] = "wait"
          BY <2>6, <3>3 DEF TimerEvent
        <4>2. pc'[t] = "release"
          BY <2>6, <2>7, <3>3, <4>1 DEF TimerEvent
        <4> QED BY <4>1, <4>2
      <3>4. CASE TickerLoop(t)
        <4>1. pc[t] = "loop"
          BY <2>6, <3>4 DEF TickerLoop
        <4>2. USE_PICTIMER \/ tickerRunning <=> USE_PICTIMER
          BY <2>7, <4>1
        <4>3. pc'[t] = IF USE_PICTIMER THEN "wait" ELSE "release"
          BY <2>6, <3>4, <4>2 DEF TickerLoop
        <4> QED BY <3>4, <4>1, <4>3 DEF TickerLoop, killVars
      <3>5. CASE TickerRelease(t)
        BY <2>5, <2>6, <3>5 DEF TickerRelease
      <3> QED BY <1>4, <3>1, <3>2, <3>3, <3>4, <3>5 DEF tickerDaemon
    <2>9. TickerEnds'
      BY <1>1, <2>2, <2>4, <2>7, <2>8 DEF TickerEnds, Turning, Posted
    <2>10. TicksLeft(pc'[t], USE_PICTIMER) < TicksLeft(pc[t], USE_PICTIMER)
      BY <2>7, <2>8 DEF TicksLeft
    <2> QED BY <1>4, <2>4, <2>9, <2>10 DEF TickerLeft
  <1>5. CASE /\ \A u \in Tickers \cup Daemons : pc'[u] = pc[u]
             /\ UNCHANGED <<killVars, callerVars>> /\ Place' = Place
    <2>1. TickerId' = TickerId /\ USE_PICTIMER' = USE_PICTIMER
      BY <1>5 DEF TickerId, USE_PICTIMER, callerVars, historyVars, idVars
    <2>2. pc'[t] = pc[t] /\ UNCHANGED <<kill_sem, events, tickerRunning>>
      BY <1>1, <1>5 DEF killVars
    <2>3. ~tickerDaemon(t)
      <3>1. \A from, to : Goto(t, from, to) => from = to
        BY <1>1, <2>2, TaskGoto DEF LifeInv
      <3> QED BY <3>1 DEF tickerDaemon, TickerStart, PeriodOver, TimerEvent,
              Enter, Leave, TickerLoop, TickerRelease
    <2>4. TickerEnds'
      BY <1>5, <2>1, <2>2 DEF TickerEnds, Posted
    <2> QED BY <2>1, <2>2, <2>3, <2>4 DEF TickerLeft
  <1> QED BY <1>1, <1>3, <1>4, <1>5, WhileWaiting

(* The calls that tell them to.  A ticker that has not run yet when it is  *)
(* killed would, without the PIC timer, set tickerRunning again.           *)
LEMMA CallerTells ==
    ASSUME LifeInv, [Next]_lvars, Place' # Place,
           Place' \in {"waitDaemon", "waitTicker"}
    PROVE  \/ KillDaemon /\ Place' = "waitDaemon"
           \/ KillTicker /\ Place' = "waitTicker"
  <1>1. \A from, to : Goto(Caller, from, to) => Place' = to
    BY CallerGoto DEF LifeInv
  <1>2. \A t \in Tasks : \A from, to : ~Goto(t, from, to)
    BY TaskGoto DEF LifeInv
  <1>3. CASE Begin \/ CreateKillSem \/ Delete
    BY <1>1, <1>3 DEF Begin, CreateKillSem, Delete
  <1>4. CASE Reset \/ InstallTimer \/ OpenSocket \/ Lookup \/ SetTime
             \/ CreateMutex \/ Enter(Caller, "adjust", "inAdjust")
             \/ Leave(Caller, "inAdjust", "install")
    BY <1>1, <1>4 DEF Reset, InstallTimer, OpenSocket, Lookup, SetTime,
       CreateMutex, Enter, Leave, Attempt, Bail
  <1>5. CASE StartTicker \/ StartDaemon
    <2>1. gen \in Generations /\ <<"ticker", gen>> \in Tasks
          /\ <<"daemon", gen>> \in Tasks
      BY <1>5, UpNamed, Named, Distinct DEF StartTicker, StartDaemon, LifeInv,
         Place
    <2>2. \A u \in Tasks : \A label, place :
                pc' = [pc EXCEPT ![u] = label, ![Caller] = place]
                    => Place' = place
      BY Started DEF LifeInv
    <2> QED BY <1>1, <1>5, <2>1, <2>2 DEF StartTicker, StartDaemon, Bail, Bail1
  <1>6. CASE \/ Reap(DaemonId, "waitDaemon", "killTicker")
             \/ Reap(TickerId, "waitTicker", "delete")
    <2>1. Place \in {"waitDaemon", "waitTicker"}
      BY <1>6 DEF Reap, Place
    <2>2. TypeInv /\ DaemonId \in Tasks /\ TickerId \in Tasks
      BY <2>1, WaitNamed DEF Stopping, LifeInv
    <2>3. CASE Reap(DaemonId, "waitDaemon", "killTicker")
      <3>1. Place' = "killTicker"
        BY <2>2, <2>3, ReapDaemonInv, Started DEF Reap, Exists
      <3> QED BY <3>1
    <2>4. CASE Reap(TickerId, "waitTicker", "delete")
      <3>1. Place' = "delete"
        BY <2>2, <2>4, ReapTickerInv, Started DEF Reap, Exists
      <3> QED BY <3>1
    <2> QED BY <1>6, <2>3, <2>4
  <1>7. CASE KillDaemon
    BY <1>1, <1>7 DEF KillDaemon
  <1>8. CASE KillTicker
    <2>1. Place' # "waitDaemon"
      BY <1>1, <1>8 DEF KillTicker
    <2> QED BY <1>8, <2>1
  <1>9. CASE \E t \in Tickers : tickerDaemon(t)
    BY <1>2, <1>9, Distinct DEF tickerDaemon, TickerStart, PeriodOver,
       TimerEvent, TickerLoop, TickerRelease, Enter, Leave
  <1>10. CASE \E d \in Daemons : ntpDaemon(d)
    BY <1>2, <1>10, Distinct DEF ntpDaemon, DaemonPoll, DaemonKilled,
       DaemonRelease, Enter, Leave
  <1>11. CASE \E r \in ReaderTasks : ntp_gettime(r)
    BY <1>2, <1>11, Distinct DEF ntp_gettime, Enter, Leave
  <1>12. CASE ClockIsr \/ UNCHANGED lvars
    BY <1>12 DEF ClockIsr, lvars, Place
  <1> QED BY <1>3, <1>4, <1>5, <1>6, <1>7, <1>8, <1>9, <1>10, <1>11, <1>12
          DEF Next, rtemsNtpInitialize, rtemsNtpCleanup, Stopped

LEMMA DaemonTold ==
    ASSUME LifeInv, KillDaemon, Place' = "waitDaemon" PROVE DaemonEnds'
  <1>1. Place = "killDaemon"
    BY DEF KillDaemon, Goto, Place
  <1>2. DaemonId \in Daemons /\ DaemonId \in Tasks /\ pc[DaemonId] \in Polling
    BY <1>1, WaitNamed DEF Stopping, LifeInv, DaemonsInv, CallerInv
  <1>3. \A from, to : Goto(Caller, from, to) => pc'[DaemonId] = pc[DaemonId]
    BY <1>2, CallerGoto DEF LifeInv
  <1>4. DaemonId' = DaemonId
    BY DEF KillDaemon, DaemonId, callerVars, historyVars, idVars
  <1>5. \A from, to : Goto(Caller, from, to) => to = "waitDaemon"
    BY CallerGoto DEF LifeInv
  <1>6. Goto(Caller, "killDaemon", "waitDaemon")
        /\ events' = [events EXCEPT ![DaemonId] = @ \cup {"KILL"}]
    BY <1>5 DEF KillDaemon
  <1>7. "KILL" \in events'[DaemonId]
    BY <1>2, <1>6 DEF LifeInv, TypeInv
  <1> QED BY <1>2, <1>3, <1>4, <1>6, <1>7 DEF DaemonEnds

LEMMA KillTickerWaits ==
    ASSUME LifeInv, KillTicker PROVE Place' = "waitTicker"
  <1>1. Place = "killTicker"
    BY DEF KillTicker, Goto, Place
  <1>2. pc[TickerId] \in Turning /\ ticker_id # 0
    BY <1>1, WaitNamed DEF Stopping, LifeInv, TickersInv
  <1>3. Goto(Caller, "killTicker", "waitTicker")
    BY <1>2 DEF KillTicker, Exists, Turning
  <1> QED BY <1>3, CallerGoto DEF LifeInv

LEMMA TickerTold ==
    ASSUME LifeInv, KillTicker, KillDelivered, Place' = "waitTicker"
    PROVE  TickerEnds'
  <1>1. Place = "killTicker"
    BY DEF KillTicker, Goto, Place
  <1>2. TickerId \in Tasks /\ pc[TickerId] \in Turning /\ ticker_id # 0
        /\ DOMAIN events = Tasks
    BY <1>1, WaitNamed DEF Stopping, LifeInv, TickersInv, TypeInv
  <1>3. TickerId' = TickerId /\ USE_PICTIMER' = USE_PICTIMER
    BY DEF KillTicker, TickerId, USE_PICTIMER, callerVars, historyVars, idVars
  <1>4. CASE ~USE_PICTIMER
    <2>1. Goto(Caller, "killTicker", "waitTicker") /\ tickerRunning' = FALSE
      BY <1>2, <1>4 DEF KillTicker
    <2>2. pc'[TickerId] = pc[TickerId] /\ pc[TickerId] # "start"
      BY <1>2, <1>4, <2>1, CallerGoto DEF LifeInv, KillDelivered
    <2> QED BY <1>2, <1>3, <1>4, <2>1, <2>2 DEF TickerEnds
  <1>5. CASE USE_PICTIMER
    <2>1. Goto(Caller, "killTicker", "waitTicker")
          /\ events' = [events EXCEPT ![TickerId] = @ \cup {"KILL"}]
      BY <1>2, <1>5 DEF KillTicker, Exists, Turning
    <2>2. pc'[TickerId] = pc[TickerId]
      BY <1>2, <2>1, CallerGoto DEF LifeInv
    <2>3. "KILL" \in events'[TickerId]
      BY <1>2, <2>1
    <2> QED BY <1>2, <1>3, <1>5, <2>2, <2>3 DEF TickerEnds
  <1> QED BY <1>4, <1>5

(* rtemsNtpCleanup(), called in its turn, waits for no task that is not on *)
(* its way to release kill_sem, whatever calls have failed and however     *)
(* often the clock was started: while it waits, each step of that task     *)
(* takes it nearer, and no step of another changes how far it has to go    *)
(* (rtemsdep.c:922-943, 676-688).                                          *)
THEOREM DaemonNotAwaitedInVain ==
    Spec => /\ [](orderly /\ Place = "waitDaemon" => DaemonEnds)
            /\ [][orderly => DaemonNearer]_lvars
  <1> DEFINE Lives == build \in Builds /\ (orderly => LifeInv)
             Awaited == orderly /\ Place = "waitDaemon" => DaemonEnds
             Nearer == orderly => DaemonNearer
  <1>1. Spec => []Lives
    BY LifeInvHolds
  <1>2. Init => Awaited
    BY DEF Init, Place, Caller
  <1>3. Lives /\ [Next]_lvars => Nearer
    BY DaemonGoes DEF DaemonNearer
  <1>4. Lives /\ Awaited /\ [Next]_lvars => Awaited'
    <2> SUFFICES ASSUME LifeInv, Awaited, [Next]_lvars, orderly,
                        Place' = "waitDaemon"
                 PROVE  DaemonEnds'
      BY OrderlyBefore
    <2>1. CASE Place = "waitDaemon"
      BY <2>1, DaemonGoes DEF DaemonNearer
    <2>2. CASE Place # "waitDaemon"
      BY <2>2, CallerTells, DaemonTold
    <2> QED BY <2>1, <2>2
  <1> HIDE DEF Lives, Awaited, Nearer
  <1>5. Spec => []Awaited
    BY <1>1, <1>2, <1>4, PTL DEF Spec
  <1>6. Spec => [][Nearer]_lvars
    BY <1>1, <1>3, PTL DEF Spec
  <1> QED BY <1>5, <1>6 DEF Awaited, Nearer

(* The same of the ticker, if it has run before it is killed: without the  *)
(* condition it may set tickerRunning after Cleanup has reset it, and is   *)
(* awaited in vain.                                                        *)
THEOREM TickerNotAwaitedInVain ==
    Spec => [][ orderly => /\ KillTicker /\ KillDelivered => TickerEnds'
                           /\ TickerNearer ]_lvars
  <1>1. build \in Builds /\ (orderly => LifeInv) /\ [Next]_lvars
            => (orderly => /\ KillTicker /\ KillDelivered => TickerEnds'
                           /\ TickerNearer)
    <2> SUFFICES ASSUME LifeInv, [Next]_lvars
                 PROVE  /\ KillTicker /\ KillDelivered => TickerEnds'
                        /\ TickerNearer
      OBVIOUS
    <2>1. KillTicker /\ KillDelivered => TickerEnds'
      BY KillTickerWaits, TickerTold
    <2>2. TickerNearer
      BY TickerGoes DEF TickerNearer
    <2> QED BY <2>1, <2>2
  <1> QED BY <1>1, LifeInvHolds, PTL DEF Spec

(***************************************************************************)
(* The wait for the mutex.  Who holds the mutex of mutex_id is in the      *)
(* clock, in any life, and what leads out of it waits for nothing: there   *)
(* is no circle of tasks that wait.                                        *)
(***************************************************************************)
MutexInv ==
    /\ mutex_id \in 0 .. gen
    /\ BeforeMutex => mutex_id < gen
    /\ \A g \in Generations : g > mutex_id => holder[g] = {}
    /\ mutex_id # 0 => \A t \in ReaderTasks \cap holder[mutex_id] :
                            pc[t] = "inRead"

LEMMA MutexStays ==
    ASSUME LifeInv, MutexInv, UNCHANGED <<gen, mutex_id>>,
           BeforeMutex' => BeforeMutex,
           \A g \in Generations : g > mutex_id => holder'[g] \subseteq holder[g],
           mutex_id # 0 =>
                \A t \in ReaderTasks \cap holder'[mutex_id] :
                    \/ pc'[t] = "inRead"
                    \/ t \in holder[mutex_id] /\ pc'[t] = pc[t]
    PROVE  MutexInv'
  BY DEF MutexInv

(* A step of the caller that is neither in Begin nor in the creation of    *)
(* the mutex.                                                              *)
LEMMA MutexCaller ==
    ASSUME LifeInv, MutexInv, UNCHANGED <<gen, mutex_id>>,
           BeforeMutex' => BeforeMutex,
           \A t \in ReaderTasks : pc'[t] = pc[t],
           \A g \in Generations :
                \A t \in ReaderTasks : t \in holder'[g] => t \in holder[g],
           \A g \in Generations : g > mutex_id => holder'[g] \subseteq holder[g]
    PROVE  MutexInv'
  <1>1. mutex_id # 0 => mutex_id \in Generations
    BY LifecycleAssumption DEF LifeInv, TypeInv, MutexInv, Generations
  <1> QED BY <1>1, MutexStays

(* Into the clock and out of it.                                           *)
LEMMA MutexEntered ==
    ASSUME LifeInv, MutexInv, NEW t \in Tasks \cup {Caller}, NEW from, NEW to,
           \/ Enter(t, from, to) /\ (t \in ReaderTasks => to = "inRead")
           \/ Leave(t, from, to),
           BeforeMutex' => BeforeMutex
    PROVE  MutexInv'
  <1>1. UNCHANGED <<gen, mutex_id>>
    BY DEF Enter, Leave, callerVars, historyVars, idVars
  <1>2. /\ DOMAIN holder = Generations /\ mutexes \subseteq Generations
        /\ \A u \in ReaderTasks : u # t => pc'[u] = pc[u]
        /\ t \in ReaderTasks => pc'[t] = to
    <2>1. Goto(t, from, to)
      BY DEF Enter, Leave
    <2>2. ReaderTasks \subseteq Tasks /\ Caller \notin Tasks
      BY Distinct
    <2> QED BY <2>1, <2>2, CallerGoto, TaskGoto DEF LifeInv, TypeInv
  <1>3. mutex_id # 0 => mutex_id \in Generations
    BY LifecycleAssumption DEF LifeInv, TypeInv, MutexInv, Generations
  <1>4. CASE Leave(t, from, to)
    <2>1. \A g \in Generations :
                holder'[g] = IF g = mutex_id THEN holder[g] \ {t}
                             ELSE holder[g]
      BY <1>4 DEF Leave, splx
    <2> QED BY <1>1, <1>2, <1>3, <2>1, MutexStays
  <1>5. CASE Enter(t, from, to) /\ (t \in ReaderTasks => to = "inRead")
    <2>1. /\ \A g \in Generations : g # mutex_id => holder'[g] = holder[g]
          /\ mutex_id # 0 =>
                holder'[mutex_id] \subseteq holder[mutex_id] \cup {t}
      BY <1>2, <1>3, <1>5 DEF Enter, splclock, mutexVars
    <2>2. \A g \in Generations : g > mutex_id => holder'[g] \subseteq holder[g]
      BY <1>1, <2>1 DEF MutexInv, Generations
    <2> QED BY <1>1, <1>2, <1>3, <1>5, <2>1, <2>2, MutexStays
  <1> QED BY <1>4, <1>5

LEMMA MutexStep ==
    ASSUME LifeInv, MutexInv, [Next]_lvars
    PROVE  MutexInv'
  <1>1. /\ \A from, to : Goto(Caller, from, to)
                => /\ Place = from /\ Place' = to
                   /\ \A t \in ReaderTasks : pc'[t] = pc[t]
        /\ \A t \in Tasks : \A from, to : Goto(t, from, to)
                => Place' = Place /\ \A u \in ReaderTasks :
                                        u # t => pc'[u] = pc[u]
    BY CallerGoto, TaskGoto, Distinct DEF LifeInv
  <1>2. CASE Begin
    <2>1. gen \in Nat /\ gen' = gen + 1 /\ UNCHANGED <<mutex_id, holder>>
      BY <1>2, LifecycleAssumption
         DEF Begin, idVars, mutexVars, LifeInv, TypeInv
    <2> QED BY <1>1, <1>2, <2>1 DEF Begin, MutexInv
  <1>3. CASE CreateMutex
    <2>1. /\ Place = "mutex" /\ UNCHANGED <<gen, holder>>
          /\ \A t \in ReaderTasks : pc'[t] = pc[t]
          /\ \/ Place' = "ticker" /\ mutex_id' = gen
             \/ Place' = "idle" /\ mutex_id' = mutex_id
      BY <1>1, <1>3 DEF CreateMutex, Attempt, Bail, Place
    <2>2. mutex_id < gen /\ gen \in Generations
      BY <2>1, LifecycleAssumption
         DEF MutexInv, BeforeMutex, LifeInv, TypeInv, Generations
    <2>3. CASE Place' = "ticker" /\ mutex_id' = gen
      <3>1. holder[gen] = {} /\ ~BeforeMutex' /\ gen \in Nat
        BY <2>2, <2>3 DEF MutexInv, BeforeMutex, Boot, Generations
      <3>2. \A g \in Generations : g > gen => holder[g] = {}
        BY <2>2, <3>1 DEF MutexInv, Generations
      <3>3. holder'[mutex_id'] = {} /\ mutex_id' \in 0 .. gen' /\ gen' = gen
        BY <2>1, <2>3, <3>1
      <3>4. \A g \in Generations : g > mutex_id' => holder'[g] = {}
        BY <2>1, <2>3, <3>2
      <3> QED BY <3>1, <3>3, <3>4 DEF MutexInv
    <2>4. CASE Place' = "idle" /\ mutex_id' = mutex_id
      BY <2>1, <2>4, MutexStays DEF BeforeMutex, Boot
    <2> QED BY <2>1, <2>3, <2>4
  <1>4. CASE \/ Enter(Caller, "adjust", "inAdjust")
             \/ Leave(Caller, "inAdjust", "install")
    <2>1. BeforeMutex
      BY <1>1, <1>4 DEF Enter, Leave, BeforeMutex, Boot
    <2> QED BY <1>4, <2>1, MutexEntered, Distinct
  <1>5. CASE \/ Reset \/ InstallTimer \/ OpenSocket \/ Lookup \/ SetTime
             \/ CreateKillSem \/ KillDaemon \/ KillTicker \/ Delete
    <2>1. /\ UNCHANGED <<gen, mutex_id, holder>>
          /\ \E from, to : Goto(Caller, from, to)
      BY <1>5 DEF Reset, InstallTimer, OpenSocket, Lookup, SetTime, Attempt,
         Bail, CreateKillSem, KillDaemon, KillTicker, Delete, callerVars,
         historyVars, mutexVars, idVars
    <2>2. BeforeMutex' => BeforeMutex
      BY <1>1, <1>5 DEF Reset, InstallTimer, OpenSocket, Lookup, SetTime,
         Attempt, Bail, CreateKillSem, KillDaemon, KillTicker, Delete,
         BeforeMutex, Boot
    <2> QED BY <1>1, <2>1, <2>2, MutexCaller
  <1>6. CASE StartTicker \/ StartDaemon
    <2>1. /\ <<"ticker", gen>> \in Tasks /\ <<"daemon", gen>> \in Tasks
          /\ <<"ticker", gen>> \notin ReaderTasks
          /\ <<"daemon", gen>> \notin ReaderTasks
      BY <1>6, UpNamed, Named, Distinct
         DEF StartTicker, StartDaemon, LifeInv, Place
    <2>2. UNCHANGED <<gen, mutex_id, holder>>
      BY <1>6 DEF StartTicker, StartDaemon, mutexVars
    <2>3. \A u \in Tasks \ ReaderTasks : \A label, place :
                pc' = [pc EXCEPT ![u] = label, ![Caller] = place]
                    => Place' = place /\ \A t \in ReaderTasks : pc'[t] = pc[t]
      BY Started, Distinct DEF LifeInv
    <2>4. Place' \in {"daemon", "idle"} /\ \A t \in ReaderTasks : pc'[t] = pc[t]
      BY <1>1, <1>6, <2>1, <2>3 DEF StartTicker, StartDaemon, Bail, Bail1
    <2>5. ~BeforeMutex'
      BY <2>4 DEF BeforeMutex, Boot
    <2> QED BY <2>2, <2>4, <2>5, MutexCaller
  <1>7. CASE \/ Reap(DaemonId, "waitDaemon", "killTicker")
             \/ Reap(TickerId, "waitTicker", "delete")
    <2>1. Place \in {"waitDaemon", "waitTicker"}
      BY <1>7 DEF Reap, Place
    <2>2. TypeInv /\ DaemonId \in Tasks \ ReaderTasks
          /\ TickerId \in Tasks \ ReaderTasks
      BY <2>1, WaitNamed, Distinct DEF Stopping, LifeInv
    <2>3. UNCHANGED <<gen, mutex_id, holder>>
      BY <1>7 DEF Reap, mutexVars, callerVars, historyVars, idVars
    <2>4. /\ Place' \in {"killTicker", "delete", "abort"}
          /\ \A t \in ReaderTasks : pc'[t] = pc[t]
      <3>1. CASE Reap(DaemonId, "waitDaemon", "killTicker")
        BY <2>2, <3>1, ReapDaemonInv, Started, Distinct DEF Reap, Exists
      <3>2. CASE Reap(TickerId, "waitTicker", "delete")
        BY <2>2, <3>2, ReapTickerInv, Started, Distinct DEF Reap, Exists
      <3> QED BY <1>7, <3>1, <3>2
    <2>5. ~BeforeMutex'
      BY <2>4 DEF BeforeMutex, Boot
    <2> QED BY <2>3, <2>4, <2>5, MutexCaller
  <1>8. CASE \E t \in Tasks : \E from, to :
                \/ Enter(t, from, to) /\ (t \in ReaderTasks => to = "inRead")
                \/ Leave(t, from, to)
    <2>1. PICK t \in Tasks : \E from, to :
                \/ Enter(t, from, to) /\ (t \in ReaderTasks => to = "inRead")
                \/ Leave(t, from, to)
      BY <1>8
    <2>2. PICK from, to :
                \/ Enter(t, from, to) /\ (t \in ReaderTasks => to = "inRead")
                \/ Leave(t, from, to)
      BY <2>1
    <2>3. BeforeMutex' => BeforeMutex
      BY <1>1, <2>2 DEF Enter, Leave, BeforeMutex, Boot
    <2> QED BY <2>2, <2>3, MutexEntered
  <1>9. CASE \E t \in Tasks : \E from, to :
                /\ Goto(t, from, to)
                /\ t \in ReaderTasks => to = "read" /\ from = "away"
                /\ UNCHANGED <<mutexVars, callerVars>>
    <2>1. PICK t \in Tasks : \E from, to :
                /\ Goto(t, from, to)
                /\ t \in ReaderTasks => to = "read" /\ from = "away"
                /\ UNCHANGED <<mutexVars, callerVars>>
      BY <1>9
    <2>2. UNCHANGED <<gen, mutex_id, holder>> /\ Place' = Place
      BY <1>1, <2>1 DEF mutexVars, callerVars, historyVars, idVars
    <2>3. /\ \A u \in ReaderTasks : u # t => pc'[u] = pc[u]
          /\ t \in ReaderTasks => pc[t] = "away"
      BY <1>1, <2>1 DEF Goto
    <2>4. mutex_id # 0 =>
                \A u \in ReaderTasks \cap holder[mutex_id] : u # t
      BY <2>3 DEF MutexInv
    <2> QED BY <2>2, <2>3, <2>4, MutexStays DEF BeforeMutex, Boot
  <1>10. CASE ClockIsr \/ UNCHANGED lvars
    <2>1. UNCHANGED <<gen, mutex_id, holder, pc>>
      BY <1>10 DEF ClockIsr, lvars, mutexVars, callerVars, historyVars, idVars
    <2> QED BY <2>1, MutexCaller DEF BeforeMutex, Boot, Place
  <1>11. CASE \E t \in Tickers : tickerDaemon(t)
    <2>1. PICK t \in Tickers : tickerDaemon(t)
      BY <1>11
    <2>2. t \in Tasks /\ t \notin ReaderTasks
      BY Distinct
    <2>3. CASE Enter(t, "body", "inBody") \/ Leave(t, "inBody", "loop")
      BY <1>8, <2>2, <2>3
    <2>4. CASE ~(Enter(t, "body", "inBody") \/ Leave(t, "inBody", "loop"))
      <3>1. UNCHANGED <<mutexVars, callerVars>>
            /\ \E from, to : Goto(t, from, to)
        BY <2>1, <2>4 DEF tickerDaemon, TickerStart, PeriodOver, TimerEvent,
           TickerLoop, TickerRelease
      <3> QED BY <1>9, <2>2, <3>1
    <2> QED BY <2>3, <2>4
  <1>12. CASE \E d \in Daemons : ntpDaemon(d)
    <2>1. PICK d \in Daemons : ntpDaemon(d)
      BY <1>12
    <2>2. d \in Tasks /\ d \notin ReaderTasks
      BY Distinct
    <2>3. CASE \E from, to : Enter(d, from, to) \/ Leave(d, from, to)
      BY <1>8, <2>2, <2>3
    <2>4. CASE DaemonPoll(d) \/ DaemonKilled(d) \/ DaemonRelease(d)
      <3>1. UNCHANGED <<mutexVars, callerVars>>
            /\ \E from, to : Goto(d, from, to)
        BY <2>4 DEF DaemonPoll, DaemonKilled, DaemonRelease
      <3> QED BY <1>9, <2>2, <3>1
    <2> QED BY <2>1, <2>3, <2>4 DEF ntpDaemon
  <1>13. CASE \E t \in ReaderTasks : ntp_gettime(t)
    <2>1. PICK t \in ReaderTasks : ntp_gettime(t)
      BY <1>13
    <2>2. t \in Tasks
      BY Distinct
    <2>3. CASE Enter(t, "read", "inRead") \/ Leave(t, "inRead", "away")
      BY <1>8, <2>2, <2>3
    <2>4. CASE /\ Goto(t, "away", "read")
               /\ UNCHANGED <<mutexVars, killVars, callerVars>>
      BY <1>9, <2>2, <2>4
    <2> QED BY <2>1, <2>3, <2>4 DEF ntp_gettime
  <1> QED BY <1>2, <1>3, <1>4, <1>5, <1>6, <1>7, <1>10, <1>11, <1>12, <1>13
          DEF Next, rtemsNtpInitialize, rtemsNtpCleanup, Stopped

(* Nobody waits in a circle for the clock's mutex: who holds it is in the  *)
(* region between splclock() and splx(), in every life and with any number *)
(* of readers, and leaves it by a step that waits for nothing              *)
(* (rtemsdep.c:106-119).                                                   *)
THEOREM HolderLeaves ==
    Spec => [](orderly /\ mutex_id # 0
                    => \A t \in holder[mutex_id] : pc[t] \in Inside)
  <1> DEFINE Lives == build \in Builds /\ (orderly => LifeInv)
             Free == orderly => MutexInv
  <1>1. Spec => []Lives
    BY LifeInvHolds
  <1>2. Init => Free
    BY DEF Init, MutexInv, Place, BeforeMutex, Boot, Caller
  <1>3. Lives /\ Free /\ [Next]_lvars => Free'
    BY OrderlyBefore, MutexStep
  <1>4. Lives /\ Free
            => (orderly /\ mutex_id # 0
                    => \A t \in holder[mutex_id] : pc[t] \in Inside)
    <2> SUFFICES ASSUME LifeInv, MutexInv, mutex_id # 0,
                        NEW t \in holder[mutex_id]
                 PROVE  pc[t] \in Inside
      OBVIOUS
    <2>1. mutex_id \in Generations
      BY LifecycleAssumption DEF LifeInv, TypeInv, MutexInv, Generations
    <2> QED BY <2>1 DEF MutexInv, LifeInv, HoldersInv, Inside
  <1> HIDE DEF Lives, Free
  <1> QED BY <1>1, <1>2, <1>3, <1>4, PTL DEF Spec
=============================================================================
