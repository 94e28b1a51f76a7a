# A TLA+ model of the RTEMS NTP nanokernel

This directory holds a formal model of the clock software in this repository:
David Mills' kernel clock discipline (`ktime.c`) with its PPS signal; the port
that runs it on RTEMS with an NTP client, a clock ticker and a high-resolution
counter (`rtemsdep.c`); the simulator in which it was developed (`kern.c`,
`micro.c`); and the drivers and libraries that feed it on other hosts. TLC checks
the model on small instances; TLAPS proves the core of it for every value of the
constants.

## The system

| part | source | state | operations |
|---|---|---|---|
| clock discipline | `ktime.c`, `kern.h` | `TIMEVAR`, `time_*`, `pps_*` | `ntp_init`, `ntp_gettime`, `ntp_adjtime`, `ntp_tick_adjust`, `second_overflow`, `hardupdate`, `hardpps` |
| interface, arithmetic | `timex.h`, `l_fp.h` | none | modes, status bits, `struct timex`; fixed point in 64 bits or in pairs of words |
| start-up and shutdown | `rtemsdep.c` | object identifiers, `tickerRunning`, `kill_sem`, the socket | `rtemsNtpInitialize`, `rtemsNtpCleanup` |
| clock ticker | `rtemsdep.c` | | `tickerDaemon`, `ticker_body` |
| NTP daemon | `rtemsdep.c` | its copy of the status word, `failedsyncs`, `avgDelay`, two answers | `ntpDaemon`, `acceptFiltered`, `rtemsNtpSetPollInterval` |
| reading between ticks | `rtemsdep.c`, `pcc.h` | `nanobase`, `pcc_numerator`, `pcc_denominator`, `lasttime` | `nano_time`, `getPcc`, `setPccBase` |
| PIC timer | `pictimer.c` | connected, enabled, toggle bit | install, clean up, `clock_isr` |
| processor clocks | `micro.c` | for each processor the counter's rate and base; `lasttime` | `microset`, `nano_time` |
| simulator | `kern.c` | real time, next tick, next pulse, delay line | the main loop |
| PPS API | `alpha/`, `sunos/`, `solaris/` | handles, parameters, `pps_info`, the hook | `time_pps_*`, the DCD interrupt |
| Highball counter | `hightime.c`, `high.h` | four registers, `clock_offset`, `lasttime` | `highboard`, `uniqtime`, `clock_set` |
| TPRO card | `tprotime.c`, `tpro.h` | `year_offset`, `lastday` | `microtime`, `clock_set` |
| tools | `rtemssim.c`, `gauss.c`, `noise.c`, `jitter.c`, `profile.c` | | measurement |

How they interact. Everything meets in the clock variables, which one mutex
protects (`splclock()`, `splx()`). The ticker calls `ticker_body()` at every
tick, which calls `ntp_tick_adjust()` and `second_overflow()` and then measures
the rate of the counter. The daemon polls a server every 16 s to 1024 s, calls
`hardupdate()` with the offset, and passes leap announcements and its own health
on through the status word of `ntp_adjtime()`. Applications call
`ntp_gettime()`, `ntp_adjtime()`, `rtemsNtpSetPollInterval()`. Killing the tasks
goes through an event, a flag and a semaphore. On the other hosts the DCD
interrupt stamps a pulse, keeps it for the clients of the PPS API and, for the
line that is bound to the kernel, gives it to `hardpps()`; a time card, if there
is one, answers `microtime()` in place of the interpolated clock.

What is hard, by part, and what makes the part correct:

* *Discipline.* Fixed-point arithmetic that rounds toward zero, clamps and
  overflows; a leap machine that may be armed, contradicted, disarmed or
  disabled at any second. Correct: the clock is normalized and runs forward,
  atomic time is continuous, each announced leap happens once and at midnight,
  phase and frequency stay in the envelope, updates steer the right way.
* *PPS.* An interrupt that may come in the middle of the rollover, with pulses
  that are spurious, missing or double, and a calibration interval that adapts.
  Correct: whatever the pulses and whenever they come, the clock runs forward,
  the frequencies keep their envelope and the pending offset stays within twice
  `MAXPHASE`; a spike does not steer; a calibration does not make the frequency
  worse; a lost signal is noticed.
* *Reading.* Ticks that come late, rates that change, several processors, leap
  seconds between a tick and a read. Correct: reads never go back, and do not
  run ahead.
* *Daemon.* Retries shared by failed shots and dropped answers; a filter with
  feedback and overflow; a status word that is read at one time and written at
  another; announcements received on one side of midnight and passed on, on the
  other. Correct: silence raises the alarm and an answer lowers it, the filter
  does not starve, the leap is made when due.
* *Start-up and shutdown.* Steps that fail half-way, kills that arrive before a
  task first runs, tasks deleted while they are in the clock. Correct: one
  ticker, nothing survives a shutdown, a shutdown ends.
* *PPS API.* One hook for all streams; words copied while the interrupt writes
  them. Correct: the hook points where it should, and a client can tell a torn
  timestamp.
* *Time cards.* Registers that go on while they are read; a year that the board
  does not tell. Correct: a reading is a time that the board had.

`PROJECT.json` lists each hazard with its line and the properties that watch it.

## Modules

| module | models | extends |
|---|---|---|
| `Powers` | `1 << n`, what the shifts multiply and divide by | |
| `Timex` | `timex.h`, the 64-bit form of `l_fp.h`, the return code of the calls | `Powers` |
| `Ktime` | `ktime.c`, one action per call under the lock | `Timex`; instantiates `UtcClock` |
| `UtcClock` | abstract: what the leap machine promises | |
| `KtimePps` | `hardpps()`, and the pulses | `Ktime` |
| `NtpDaemon` | the daemon, a server, an application that sets the poll interval, over the clock | `Ktime` |
| `RtemsClock` | ticks, counter and reads, over the clock | `Ktime` |
| `RtemsLifecycle` | start-up and shutdown against ticker, daemon and readers | |
| `MicroClock` | `micro.c`, as operators on its variables | `Ktime` |
| `KernSim` | `kern.c`: discipline, PPS and processor clocks in a closed loop | `KtimePps`, `MicroClock` |
| `PpsApi` | `timepps.h` of three hosts over `alpha/ppsapi.c` and `sunos/ppsapi.c` | |
| `HighClock`, `TproClock` | `hightime.c`, `tprotime.c` | |
| `LFixed32` | the pair form of `l_fp.h` beside the 64-bit form | `Powers` |
| `PowersProofs` | induction, the laws of `PowerOfTwo`, products and quotients | `Powers` |
| `KtimeProofs`, `KtimePpsProofs`, `RtemsClockProofs`, `NtpDaemonProofs`, `RtemsLifecycleProofs`, `PpsApiProofs` | theorems | the module they are about (`KtimePpsProofs`: `KernSim`, which composes `KtimePps` with the counters), and the proofs about `Ktime` where they build on them |
| `DriverProofs` | theorems | `HighClock`, `TproClock`, `LFixed32` |
| `MC...` | instances for TLC | |

Operators named `X_Fault` (`Tick_LateCarry`, `Reap_NoWait`, ...) are faulty
variants of `X`. Nothing uses them: they record the mistakes that the
properties have been shown to reject, when `X` is replaced by them.

### `Timex` and `Ktime`

Each variable of `Ktime` has the name it has in `ktime.c`. An `l_fp` is an
integer in units of `1/FRAC` ns (`FRAC` is 2^32); `L_RSHIFT` and division round
toward zero, as the macros and C do. `long` and `l_fp` results that could
overflow are reduced to `LONG_HALF` (2^31) by `WrapLong` and `WrapFp`. `hz` and
the literal 86400 (`DAY`) are constants.

| code | action |
|---|---|
| `ntp_tick_adjust()`, without a carry | `Tick` |
| `ntp_tick_adjust()`, `second_overflow()` | `SecondOverflow`, of which `LeapStep` is the switch on `time_state`, one disjunct per branch |
| `ntp_adjtime()` with any `struct timex` of `Requests` | `AdjTime` (with `hardupdate()` inside it for `MOD_OFFSET`) |
| `locked_hardupdate()` | `Discipline` |
| return code of `ntp_gettime()`, `ntp_adjtime()` | `StatusError`, `ReturnCode` |

`hardupdate()` is an operator from the status word, constant and offset that the
call works with to new values of the loop variables, because `ntp_adjtime()`
calls it after it has itself changed the first two.

`UtcClock` has no ticks and no status word. It shows seconds 0 to DAY - 1 of
each day, and DAY in an inserted second. `Ktime` implements it under the mapping
at the end of the module: `tv_sec` split by `DAY`, `TIME_OOP` shown as second
DAY, and `TIME_OK`, `TIME_INS`, `TIME_DEL` and the rest as the warnings "none",
"insert", "delete" and "spent".

### `KtimePps`

`hardpps()` has five ways out, one operator each: `Ignored` (a second hit in one
second), `Gated` (outside the range gate), `WithinInterval`, `Discarded` and
`Calibrated`; each says which bits it leaves in the status word. What is common to
the last three, the median filter, the jitter and the phase, is `Phase`. `Pulse`
is the interrupt between two calls; its stamp is that of the interpolated clock, at
most a tick ahead of `TIMEVAR`, so that it may be just after a second that no tick
has completed yet (`SecondOf`). `PreemptedOverflow` is the interrupt in the middle
of `second_overflow()`, at any of the places where it shows, one operator each, in
the order of the code: the offset is loaded (509), shifted by what the status word
and the interval then say (511-515, `ShiftsAround`) and its part taken off
`time_offset` (520); the interrupt comes before that statement
(`BeforeSubtraction`: a part of the old offset is taken off the new one) or inside
it (`InSubtraction`: the new one is overwritten); before the frequency is added
(`BeforeFrequency`); before the watchdog (`BeforeWatchdog`); or in it
(`InWatchdog`). An `l_fp` of two words is taken to be stored as a whole. The
interrupt in the middle of `ntp_adjtime()` or of `hardupdate()` is not modelled. A
good pulse is at the second give or take `Jitter`, a spurious one at a phase of
`Spikes`, and pulses may be missing; the counter drifts against the signal by
`drift`, which the calibration should find.

### `NtpDaemon`

`dpc` is the place in `ntpDaemon()`: each call to the clock, each shot and each
decision is a step, so that ticks and the application come between them. The
daemon's `ntv` is its copy of the status word, which `ntp_adjtime()` fills in on
return. The server is external: it answers with any delay of `Delays`, with the
date of the true time, and announces the leap of `LeapDay` from the day before
it to a second after it; or with leap indicator 3, which the code ignores. True
time is not read off the clock: it is computed from the count of elapsed
seconds and from `leapKind`, which the clock cannot see.

The waits have no length here. Instead, where a property needs it, `MaxAge`
bounds the seconds for which no poll succeeds; this is an assumption about the
network and the poll interval (`ClockTicks` stops there), and the run that uses
it has a day longer than twice `MaxAge`.

### `RtemsClock`

The counter counts `HRC_PERIOD` steps a tick, its tick count is reset by
`setPccBase()`, and `ticker_body()` may be `MaxLate` ticks late. `ULONG` is the
range of the unsigned rate estimate. `ticker_body()` and `nano_time()` run under
the lock and are one action each. `HIRES` is false in a build without a counter.

### `RtemsLifecycle`

`pc` says where each task is. One call of `rtemsNtpInitialize()` is a sequence
of actions, one for each call in it that others see or that can fail, with the
exits `bail:` and `bail1:`. Each call creates its own generation of objects, and
identifiers keep their values when objects are deleted, as in C. A visit to the
clock is two steps, `Enter` (`splclock()`) and `Leave` (`splx()`). `PARANOIA()`
is the state "abort". The variable `build` is a constant of the behaviour: which
of the two ticks is compiled in, how often the application starts the clock,
which calls may fail, and who reads.

Neither function looks at whether it is called in its turn, and neither does the
model: `Begin` and `CreateKillSem` are possible whenever no call is under way, as
`_cexpModuleInitialize()` and `_cexpModuleFinalize()` are. Out of turn are a start
of the clock that is up, a shutdown of the clock that is down (a second one, or
one after a failed start, as when Cexp unloads the module), and, in the default
build, a start after a ticker has been left running by the exit `bail1:`. Two
history variables record it: `orderly` is true while every call has come in turn,
and `stray` is the set of tickers that `bail1:` has left. What the properties
promise, they promise while `orderly` holds; what happens otherwise is part of the
model, and may end in "abort" or in a wait for a task that is no more
(`WaitsInVain`). The failure of `pictimerCleanup()`, which `bail:` ignores (905)
and at which `rtemsNtpCleanup()` gives up (917), leaves the timer "stuck": its
source is disabled and its interrupt still connected. A reader that asks for a mutex which is then
deleted gets past `splclock()` with an error status that nobody looks at, and so
do all readers that wait for it.

### `MicroClock` and `KernSim`

`MicroClock` gives `nano_time()` and `microset()` of each processor as operators
on what `microset()` keeps for it. `KernSim` is the main loop of `kern.c`: it
keeps the real time and that of the next tick and pulse, and one iteration is the
steps `TickInterrupt`, `Rollover`, `Update`, `Fix`, or `PpsInterrupt`. The command
line is chosen at the start. It is the one place where all of `Ktime`,
`KtimePps` and `MicroClock` run against one another: the offset that updates the
loop is the error of the interpolated clock, which the loop steers.

### `PpsApi`

`host` selects the system, and with it the disjuncts that apply. A fetch copies
`pps_info` a word at a time, and the DCD interrupt comes between any two words.
`handle` is what a client has; `handler` is, for each line, whose interrupt
routine it runs: the serial driver's or the module's. Solaris has its kernel half
in the system: its interrupt is external.

### `HighClock`, `TproClock`, `LFixed32`

`HighClock` reads the board a register at a step (`ReadWord`, `ReadLow`,
`Compare`), the counter going on by any of `Advances` between them, and models
`uniqtime()` and `clock_set()` as its callers. `TproClock` replaces the board's
digits by a day and the seconds of it: what is left is how the year is found.
`LFixed32` runs any sequence of the macros on an accumulator in both forms.
Since a kernel has at most one of these devices, and they share no state,
`MCDrivers` puts them and `PpsApi` into one instance, in which each behaviour is
of one of them.

## Runs

All constants are scaled down together, and every `.cfg` names its own. What
must be preserved: a leap day is several seconds long and seconds several ticks;
`MAXPHASE` is a good part of a second; offsets on both sides of the clamp; the
update interval below `MINSEC`, between, and above `MAXSEC`.

| run | checks | instance |
|---|---|---|
| `leap` | `TypeOK`, `OffsetSettles`, `LeapAtMidnight`, `ReftimeNotAhead`, `ForwardOutsideLeap`, `TaiContinuous`, `RefinesUtc`, `InsertionHappens`, `LeapSecondEnds` | two days of 4 s, from their second 2; every leap announcement, `STA_PLL` cleared and set, TAI set, a constant below its range and the longest, updates, at any tick |
| `loop` | `Normalized`, `Envelope`, `RunsForward`, `NoOvershoot`, `SteersTowardOffset` | no pulses; 5 s; offsets beyond `-MAXPHASE` and within, PLL and FLL, frequency set beyond `MAXFREQ`, held |
| `clock_reads` | `AheadBounded`, `ReadsMonotonic` | 4 s; two counts a tick, ticks one late, frequency at both limits, both leaps |
| `daemon_poll` | `BestShot`, `DropsBounded`, `SilenceTold`, `ClosestInterval`, `Resynchronizes` | two delays, one of which overflows the average; outages at any step; 80 s and 120 s intervals |
| `daemon_leap` | `ShowsTrueTime`, `RearmedAfterLeap` | three days of 6 s; an insertion, a deletion, no leap |
| `lifecycle` | `NoAssertion`, `NothingSurvives`, `OneTicker`, `ClockExclusive`, `DeletedAtRest`, `CleanupReturns` | the rate monotonic build and the PIC timer build, each with every failure and two lives; one life with two readers; calls in any order |
| `pps` | `PpsInv`, `SignalFresh`, `SpikeRejected`, `CalibrationHelps` | 5 s; a counter that gains or loses, pulses a unit early, spikes at 12/32 s, between any two ticks and at any place in the rollover, an update at any tick, the PPS enabled and disabled |
| `sim` | `LoopConverges`, `ReadsLater` | four starting errors in each of six configurations: plain, slower polls, PPS, FLL, a delay line, two processors |
| `drivers` | `HookSound`, `RereadConfirms`, `HighReads`, `AnswersIrig`, `PairsImplementFixed` | two clients on each host, SunOS with two lines; boards that latch and that do not; five years of three days; words of four bits |
| `pps_torn` | `UpdatedAtomically`, violated | an offset of `-MAXPHASE` pending, pulses almost `MAXPHASE` off on the other side |
| `clock_leap` | `LeapReads`, violated | |
| `cleanup_lost` | `AbortingSequenceEnds`, violated | |

Why the bounds are enough. The leap machine depends on the second of the day
alone, so two short days show a leap, the return to `TIME_OK` and a second leap
armed. The loop's step is a function of the current state, so the arithmetic is
exercised by the variety of states and not by the length of a run; the
theorems remove the bound. The PPS run is long enough for intervals of two
seconds to begin and to end, with missed, double and spurious pulses in them. It is
too short for the interval to lengthen, which takes four of them: that happens in
`sim`, and `CalibrationHelpsHolds` covers it for every length and limit. (The
interval is not one second, the shift 0, because `Ktime` assumes
`PPS_SYNC => SHIFT_PLL > 0 /\ PPS_FAVG > 0`: a rollover with the shift 0 takes the
whole of an offset at once, and one of twice `MAXPHASE`, which a pulse in the
rollover may leave, would set the clock back. `ktime.c` has 2 and 4.) The daemon
keeps no more history than `failedsyncs`, `avgDelay` and two answers, and the run
reaches every outcome of a round from every reachable average. Two lives are what it takes for one
generation's identifiers to meet another's. The simulator is deterministic but
for the processor that a PPS interrupt reaches, and runs past `Settled` by some
forty seconds; its two-processor configurations are shorter, end before `Settled`,
and are there for `ReadsLater` alone. A carry in the pair arithmetic needs half words, words and a
sign: four bits have all three. The TPRO years include a leap year and the years
on both sides of it.

`CHECK_DEADLOCK FALSE` is set where the model stops at a bound: reads and seconds
(`clock_reads`, `clock_leap`, `pps`), `MaxSec` and `MaxAge` (`daemon_leap`), the end
of the simulation (`sim`), the counters of `drivers`. In `RtemsLifecycle` a failed
assertion, and the wait of a shutdown that was called out of turn for a task that
is no more, have a named step, `Stopped`, so that any other state without a next
is found as a deadlock.

Fairness. `FairSpec` of `Ktime`: ticks are fair because the hardware interrupts,
and nobody is obliged to call `ntp_adjtime()`. `FairDaemonSpec`: the daemon's
steps are fair because it is a task of its own and all its waits have timeouts;
the server, the application and the kill are free. `FairSpec` of
`RtemsLifecycle`: strong fairness for the steps that ask for the mutex, which
RTEMS hands to its waiters in order of priority and which is held only for a
bounded time; nothing obliges the application to call either function. That the
simulator's loop converges is stated as a state predicate past a given time, and
needs no fairness.

## Disagreements

Three runs show the code to differ from what the repository says of it.

* `pps_torn`: the comment at `hardpps()` (`ktime.c:684-686`) says that "the actual
  time and frequency variables, which are determined by this routine" are "updated
  atomically". `second_overflow()` loads `time_offset` at 509 and takes the
  amortized part off it at 520, with no protection against the interrupt: a pulse
  between the two sets an offset from which the part of the old one is then
  subtracted, or which is overwritten. Two remarks. It takes only an interrupt at
  that place, at any phase that sets the offset; but that the offset also leaves
  `MAXPHASE` takes a pulse nearly half a second from the second, in the rollover,
  and so a slow tick or an interrupt that was held up. And the harm is bounded: the
  offset stays within twice `MAXPHASE` and the clock runs forward (`PpsInv`).
* `clock_leap`: in the first tick of an inserted second reads run ahead by
  seconds (`api.htm:80` says one unit per read). `pcc_numerator` is unsigned and
  the difference it holds is about minus one second. `lasttime` then keeps reads
  ahead until the clock has caught up.
* `cleanup_lost`: `rtemsNtpCleanup()` never returns if it is called before the
  ticker first runs: `tickerRunning = 0` is then overwritten by the ticker's
  `tickerRunning = 1`. `CleanupReturns` is the property under the condition that
  the ticker has run, and it holds.

## Seen while modelling

Kept by the model, or out of its bounds, without a run that claims the contrary.

`ktime.c`:

* `MOD_FREQUENCY` sets the frequency with `STA_PLL` clear (299; `api.htm:43`).
* Clearing `STA_PLL` does not reset the status word to its value at boot (comment at
  240-242): `STA_UNSYNC` is set and then masked off by 260, so that the caller's
  bits alone decide.
* It does reset `time_state` (253), in an inserted second too, although the second
  has been repeated: `time_tai` is then not counted on, and is one too small until
  somebody sets it. `TaiContinuous` is about rollovers, and `UtcClock` permits a
  leap to be abandoned.
* A microsecond offset is multiplied by 1000 in a `long` before it is clamped
  (297; `api.htm:32`): on a machine with 32-bit words an offset above 2.1 s may
  change its sign.
* `time_maxerror` grows without a limit (438).
* `EINVAL` is never returned for contradictory modes (285-292; `api.htm:110`):
  the second of each pair wins.
* The return code is decoded after `splx()` (192), so that it may belong to
  another moment than the time that is returned.
* `MAXFREQ << pps_shift` overflows a 32-bit `long` for intervals of 2^13 s and
  more (805-806), which `PPS_FAVGMAX` allows: every calibration is then discarded
  with `STA_PPSERROR`, and since a discarded one changes neither, the interval and the
  PPS frequency stay as they are until a request clears `STA_PLL`
  (`LongIntervalStays`).
* The comment at 681-686 says that what `hardpps()` changes is distinct from what
  `ntp_adjtime()` and `second_overflow()` change; `time_status`, `pps_valid` and
  `time_offset` are shared. For the offset see `pps_torn` above. `STA_PPSSIGNAL` may
  be lost for a second, but is never reported too long (`SignalFresh`).
* A spike within the drift of half a tick leaves an error of one tick in
  `pps_fcount` (692-738), and so may two spikes in a row in two different places
  more than half a tick apart, or a silence in which the counter drifts by more
  than that. Nothing tells such a calibration from a good one: this is what
  `FoldsExactly` excludes in the theorem. A jitter of zero and a dispersion of a few ns, less than
  2^`PPS_FAVG`, rejects every pulse (the jitter never grows).

`rtemsdep.c`:

* A second `rtemsNtpCleanup()` sends an event to a deleted task (928), or waits for
  a ticker that is no more (939); so may one after a failed start, which Cexp calls
  when it unloads the module (966-970). The run has these calls, and ends them in
  "abort" or `WaitsInVain`; the properties claim nothing of them (`orderly`).
* A mutex held by a reader cannot be deleted (954), which is a failed `PARANOIA()`. A
  free mutex is deleted under the readers that are about to take it, which all
  enter the clock then. The life with readers does not claim `NoAssertion`, and
  `ClockExclusive` ends with the mutex.
* A failure to create or start the daemon leaves the ticker running (`bail1:`,
  876-879). In the rate monotonic build the next `rtemsNtpInitialize()` does not know
  of it and starts a second one, and the clock runs at twice its rate. In the timer
  build the timer that stayed connected makes the next call fail. The run has both
  failures in both builds. `NothingSurvives` makes the exception of the tickers that
  were left (`stray`); for `OneTicker` the exception is in `orderly`, to which a
  start of the rate monotonic build after a ticker was left does not count. Without
  that the run finds the second ticker.
* The failure of `pictimerCleanup()` is ignored at `bail:` (905): an interrupt that
  could not be removed makes every later start fail.
* A round in which the last retry fails after an answer has come uses the answer
  and counts as failed all the same (577, 611): the leap bits are left alone.
* On a leap day the poll interval is 600 s whatever the constant, and
  `rtemsNtpSetPollInterval()` fails, because `ntp_adjtime()` returns the clock
  state (459, 476).
* Before the first tick, and without a counter, reads are those of the last tick
  (193).

`micro.c`, `kern.c`:

* `micro_time()` rounds up to 1000000 µs without a carry (`micro.c:221`).
* A pulse is stamped in the second of the last reading and its negative phase is
  borrowed a second time (`kern.c:397-404`): one second early when the clock is
  behind. The loop converges all the same.

PPS API:

* An offset is applied again in the library to timestamps that were delivered by
  `time_pps_kcbind()` (`alpha/timepps.h:413` says what is to be done and it is not).
* A failed create frees `handle`, not what it points to (`alpha/timepps.h:208`),
  and the code below it cannot be reached (211-213).
* On OSF1 the line discipline is restored in the order in which handles are
  destroyed, which need not be the reverse of their creation. On SunOS the first
  close takes the hook off for all streams, and a second stream is opened without
  one and without an error.
* `pps_kpcmode` and `pps_unit` survive a close, so that another line may feed
  `hardpps()` afterwards.
* `FRAC` is not defined where `PPS_TSPECTONTP` uses it (`alpha/timepps.h:52`,
  `sunos/timepps.h:53`).

Time cards:

* `hightime.c:101` compares with `>` so that 1000000 µs are let pass; the clip to
  a tick less 2 µs (119) lets the clock step back or stand, after a comment
  (106-110) that promises the contrary; `lasttime` is set before the result is
  rejected for its distance. `high.h` says that only the low register is
  latched, which makes a reading wrong by up to one unit of the next register.
* `tprotime.c:79-83`: `uniqtime()` calls itself. If the system time is behind when
  the board enters a new year, `year_offset` stays that of the old one for the
  whole year (140-147). So it does if the first good reading comes after a new
  year that has begun since the driver was opened or the time was set: `lastday`
  is 0 then, and no day is less (140). Every reading fails with `EBADTIME` then,
  until the time is set again. The comment at 112 says that the system time is set, and
  it is not.

`l_fp.h`, the form in pairs of words: `L_ISNEG` compares an unsigned word with
zero and is never true (177); `L_GINT` rounds down where the 64-bit form
truncates; a product with a multiplier above half a word overflows, which
`hardupdate()` reaches after 18 h without an update; a shift by 0 is undefined.
`PairsImplementFixed` is stated where both are defined.

## Proofs

All are for every value of the constants that satisfies the named assumptions of
the module, and for any set of requests, offsets, pulses and clients. No
assumption is made about powers of two: `PowersProofs` derives what is used of
them. The library's theorems of induction take a predicate, which the provers
cannot instantiate; `SetInduction` takes a set, of which the least number that is
missing is a witness (`WFMin`), and the set is written out where it is used. Where a
theorem needs more, it says so in a hypothesis with a name, which the constants
of the run that checks the property satisfy too. Each inductive invariant was
checked with TLC on those constants before it was proved.

*`Ktime`.* The core is `InvHolds`: `Spec => []Inv`. `Inv` is the conjunction of
the type invariant and of the state predicates of `Ktime`, none of which is
inductive alone. The chain: an update clamps the offset and the frequency
(`PhaseWithin(PhaseReach)`, `FreqClamped`; `PhaseReach` is `MAXPHASE`, and twice that
in a kernel with the PPS, whose pulses may tear the offset); therefore the
adjustment computed at a rollover is positive and less than twice a second
(`RunsForward`), since the shift takes no more than half of the offset where it may
be twice `MAXPHASE`; therefore, with the residue of the
division in its range (`ResidueBounded`), a tick adds at most a second and not
less than nothing, so that one carry restores `Normalized`. The clock is set
back by a second only where it had just gone forward by one, so that the time of
the last update is not ahead of it (`ReftimeNotAhead`), and `LeapAtMidnight`
says where that may be. `EnvelopeHolds` is that without pulses the offset stays
within `MAXPHASE` in either kernel.

`SteersTowardOffset` needs that nothing wraps. The integral gain of the PLL
multiplies the interval since the last update, and this product overflows an
`l_fp` when there is no update for too long. The hypotheses are `NoWrap(interval)`,
that the largest gain times the interval, the largest FLL term and the frequency
limit fit, and `IntervalsWithin(interval)`, that no interval is longer
(`UpdatesSpaced` is its invariant). With the constants of `ktime.c` this is about
18 hours. `CDivOdd`, `CDivMono` and `CDivWithin`, that division is odd, monotone
and shrinks, then carry the sign of the offset through both terms.

`OffsetSettles` bounds in time what an update leaves to be amortized. A second
takes a 2^(`SHIFT_PLL` + `time_constant`)-th of the offset, so that each of the
whole parts of it (`SettlingPart` is the largest that the constant can make them)
costs a unit at most, and while there are n parts a second takes n units or more.
`Below` is a line that falls by this much, and `SettledTo` says that the offset
is below it for all the seconds since the update: when `SettlingPart` of them have
passed, half of the parts are gone, and the number of halvings is an exponent, over which the lemmas go by induction.
`time_reftime` is the number of seconds since the update only if the clock has not been set between:
an insertion makes a second more, a deletion one less, and there is one of them at
each midnight at most, which `SettlingSeconds` leaves out. In `Ktime` alone there
are no pulses, which set the offset too (`NoSignal`).

That an announced leap second is made, and ends, are liveness properties, which
only TLC checks. What they need beside fair ticks is proved. `SecondsEnd`: what a
second lacks (`Shortfall`) is used up by `time_adj` in each tick, to the last
fraction, and by no other step; and `time_adj` never leaves the range that the
limits of phase and frequency set (`AdjBounded`), so that every second ends.
`LeapIsNear`: with each second the midnight of an announced insertion is one
second nearer, or the announcement is withdrawn, and an inserted second is over at
the next rollover. Both are variants for every value of the constants; the step
from there to "eventually" is the one left to TLC.

What calls the kernel, and why its promises survive. `AnyCall` is one call of
the kernel with any arguments, or none. The lemmas `CallsKeepInv`,
`CallsKeepUtc`, `CallsKeepForward`, `CallsKeepTai`, `CallsKeepOffset`,
`CallsSettle` and `CallsSteer` say that each promise holds under any composition
whose steps are such calls, whatever its callers work out between them. A
module that composes `Ktime` has then only to show that its steps are.

*`KtimePps`.* `hardpps()` writes phase and frequency from outside the lock.
`PpsInv` adds to `Inv` that the PPS frequency is in its envelope and the filter
holds rounded pulses; `HardppsSafe` says what each of the five exits leaves, and
`HitInv` that a pulse keeps `PpsInv`. For the interrupt in the rollover
`InterruptedRollover` gives, for each place of it, the range of the offset and of the
adjustment that are left. The offset that a pulse sets is within `MAXPHASE`. The part
of the old one that is taken off it is at most half of it (`ShiftsAround` has no
shift 0), and so within `MAXPHASE` as well: hence twice that, and no more however
often it happens (`TornWithin`). The adjustment is a part of one offset and the
frequency, whichever of them (`LeftInt`, `PreemptedOverflowInv`). Hence
`PpsRefinesUtc` and `PpsTaiContinuous`: pulses in the middle of the rollover
included, the clock implements `UtcClock` and each rollover is a second of atomic
time.
`SignalFreshHolds` strengthens `SignalFresh` to the sum of the watchdog's count
and of the seconds without a pulse. `SpikeInv` says that of the last two pulses
of the filter each is a good one or a spike: a pulse that passes the range gate
is near the one before it, and two spikes in a row in the same place do not
occur, so that two of the three the median is taken of are good. It needs
`SpikesApart`, that no spike is within the range gate of a good pulse,
`PhasesRounded`, that phases are those of the nearest second, and
`OnlyPulsesSteer`, that no update sets the phase meanwhile.

`CalibrationHelps` is about a whole interval: what `pps_fcount` has added up when
it ends. `CalInv` says that the last pulse is not of a later second than the next
that the clock can see (`PulseBefore`), so that an interval runs forward, and what
the accumulator holds (`FilterInv`): what the counter has gained since the good
pulse that began the interval (`Gained`), with the phases at both ends as they
are folded. Each pulse adds a folded difference, spurious pulses too, and these
telescope. At the end both phases are good, since both pulses passed the gate, so
that the frequency measured is off the counter's drift by the jitter divided by
the length of the interval; a shift by it is exact (`ExactShift`) and one by a
longer interval is finer (`FinerShift`). What is left is the loop: the step is
clamped, so that the frequency moves from where it was toward where it was
measured, and the limit on the frequency contains the drift (`SteeredBetween`).

The folds, by a second and then by a tick, lose a gain that is larger than half a
tick. The theorem is therefore about behaviours in which there are no more than
`gap` seconds without a pulse (`[](silence <= gap)`; `Heard` relates this to the
last pulse), for constants that satisfy `CalHypotheses(gap)`: phases are rounded
and ordered (`PhasesRounded`, `PhasesOrdered`), spikes are apart from good pulses,
drifts are within the frequency limit, the folds are exact over `gap` and a second
to either side of it (`FoldsExactly`), the longest interval's gain fits a `long`
(`GainInRange`) and divides an `l_fp`'s fraction (`IntervalsDivide`), no leap
second is requested (`NoLeaps`), and the first interval does not count from the
zero that the filter starts with, because the clock starts later than an interval
takes, or else `gap` is that long (`StartsLate`). With the code's
numbers (a tick of 10 ms, intervals up to 2^15 s, 32-bit words) `FoldsExactly` and
`GainInRange` hold for a drift of 35 ppm, 120 s (`PPS_VALID`) without a pulse,
a jitter of a microsecond and a spurious pulse 0.3 s off. In the run they hold with
a `gap` of 4 s, which no behaviour of it exceeds. `CalInv` was checked there before
it was proved.

`LongIntervalStays` is about a fault of the code (`ktime.c:806`, see *Seen while
modelling*). `LimitOverflows` is the state in which the limit of a calibration
wraps to a negative number; `OverflowsFrom13` shows it to be that of an interval of
2^13 s to 2^15 s for a 32-bit `long` and the `MAXFREQ` of `timex.h`. No calibration
is plausible then (`NothingPlausible`), so that no pulse changes the interval or the
PPS frequency: only a request that clears `STA_PLL` does.

*`KernSim`.* The simulator composes the pulses with the readings of
`micro.c`, whose comparison with `lasttime` looks at less than a second of the
difference. `ReadsLater` therefore needs a bound from above on what a reading may
be ahead of the clock. `EventsInv` counts what comes between two ticks: one
interrupt of the PPS at most and four readings (`Readings`), whichever of the
modes runs. `LeadInv` says that a reading that has been given out is at most a
tick ahead of `TIMEVAR`, or later by a nanosecond for each of those. The tick
that follows catches up with it, as none adds less than `ShortestUpdate`
(`UpdateBounds`). The hypothesis is `TicksInRange`: the shortest tick is not
shorter than the four nanoseconds, and the longest, another tick and these are
less than a second together. The simulator requests no leap second (`NoLeap`).
`SimKeepsInv` closes the loop over `PpsInv`: the error that a reading feeds back
into `hardpps()` and `hardupdate()` does not take the kernel out of it.

*`NtpDaemon`.* `SilenceTold` does not follow from the counts alone: `retry` is
shared by failed shots and dropped answers. `DaemonInv` says that a poll without
an answer reaches its judgement only with its retries used up, and that
`failedsyncs` is never behind the number of such polls when the daemon is idle,
although it is held at its limit. `BestKept` says that between two shots the
better answer is in one slot and the other is free. `FilterInv` relates the
answers that have been dropped at one delay to the average: it rises by a fixed
part of the distance with each, and after the fourth it is above the delay. Below
8 ns the shifts round the rise away, and above a third of the word the triple
wraps: that is why `DropsBounded` excludes them. `ClosestInterval` compares the
constant that `secs2tcld()` finds with every other: the loop stops at the first
power that is not less (`FirstPowerExists`), the one before it is less, and all
others are farther (`NearestConstant`).

The leap second is the long chain: a server announces, an answer is kept, the
bits are written after a tick or a midnight may have passed, and the machine in
`second_overflow()` reads them at the next rollover. `LeapInv` says for each
state of the clock's machine in which seconds of the leap it may be
(`LeapMachine`), that the status word has the leap's bit from some poll of the
leap day on and until the leap is made (`LeapStatus`), that the daemon's copy
agrees with it (`CopyKept`), and what an answer in hand says, given the time at
which it was sent (`AnswerHeard`, `Told`). `QuietInv` is the case without
a leap. The hypotheses: polls succeed twice a day (`PollsOften`, an assumption on
the network), the clock is set before the leap day (`StartsEarly`), and the
application leaves the poll interval alone (`SettingsLeft`): its read of the
status word and its write are two calls, and the daemon's write between them is
lost.

`DaemonRunsKernel` shows every step of the daemon, the server and the application
to be one call of the kernel or none: what they put into a request, from copies of
the status word, answers and an argument of any size, is a `struct timex`
(`CallersInv`). So the kernel's promises hold for the daemon without a hypothesis on
network or application: `DaemonKeepsInv`, `DaemonRefinesUtc`, `DaemonKeepsTime`,
`DaemonSettles`, and `DaemonSteers` under `NoWrap` and `IntervalsWithin` as above.

*`RtemsClock`.* Reads are monotonic whatever the counter and the ticks do, because
`nano_time()` returns nothing behind `lasttime` and keeps what it returns there;
until the first tick it returns a constant. `AheadInv` bounds how far that may
get: a rate measured over at most `MaxLate + 1` ticks, extrapolated over as many,
is no more than `MaxLate + 2` of the longest ticks ahead, and each read adds a
nanosecond. Since a tick may be shorter than one before it the bound is kept in
elapsed time and not in readings. It assumes `HIRES`, `BootIsLong` (the first
measurement is of the time of day, cut to a word), and either that no leap second
is announced or that an announcement is not withdrawn (`NoLeaps \/ LeapsStay`):
reads that got ahead in an inserted second, the subject of the run `clock_leap`,
may otherwise still be ahead when the machine is in TIME_OK again.

Without the counter `nano_time()` returns what the ticker last copied, and nothing
compares it with `lasttime`. `ReadsMonotonicByTick` needs that `TIMEVAR` is not set
back, and so that no leap is announced (`NoLeaps`); `TickReadInv` has reads behind
the ticker's copy and the copy behind `TIMEVAR`. `ClockImplementsKtime` says that
counter, late ticks and reads are invisible to the kernel, whose theorems are
therefore true of the clock that is read, `ClockRefinesUtc` among them.

*`RtemsLifecycle`.* `TickerInv` says that a ticker that drives the clock is the
one `ticker_id` tells of, and at which places of the two calls it may run: there is
none while `rtemsNtpInitialize()` is past the timer and has not started its own, nor
when the clock is down and no ticker was left.
`LifeInv` goes on from there: for each place in the two calls, which of the
objects of this generation exist, which tasks may run and where they may be,
who may hold the mutex and who releases `kill_sem`. It is an invariant so long as
the calls come in turn: each action is shown to keep it or to end `orderly`, and
what is not in turn cannot become so again. A ticker that "bail1:" has left is one
of its cases: it may run while the clock is down, in the rate monotonic build
until the next start, which is out of turn, and in the other beside a timer that
stays connected and bars every start. All five safety properties of the module
follow. There is no hypothesis on which calls fail, in either build.

`CleanupReturns` is liveness; its safety part is proved. `DaemonEnds` and
`TickerEnds` say that the task that `rtemsNtpCleanup()` waits for is on its way to
release `kill_sem`: it has its kill and nothing can take that away, or it is past
its loop, or it has released it. `DaemonNotAwaitedInVain`: the daemon always is
when it is waited for. `TickerNotAwaitedInVain`: so is the ticker, if it had run
when it was killed (`KillDelivered`), which is the condition that `cleanup_lost`
shows to be needed. Each step of the task takes it nearer (`DaemonLeft`,
`TickerLeft`) and no step of another task changes how far it has to go. The one
thing on its way that it may wait for is the mutex, and by `HolderLeaves` whoever
holds that is between `splclock()` and `splx()`, in every life and with any number
of readers. What fairness does with this is left to TLC.

*`PpsApi`.* `HookInv` says that either no line is hooked or one is, by a stream
that is open, and that what was saved is the driver's own handler. `FetchInv`
explains why a client may trust a fetch that it has repeated: the sequence
numbers are the first words to be copied, and a number stands for one timestamp
for ever (`StampKept`). So the words that a fetch has copied belong to its number
unless there has been a pulse since (`FetchedInv`), and when the next fetch
copies the same number there has not (`CallInv`). With the timestamps in front,
as in `Words_TimesFirst`, this fails.

*`HighClock`.* Registers that are read from high to low are never ahead of the
counter in lexicographic order (`NotAhead`); the comparison of the second pass,
from low to high, shows that they are not behind what it was when `w0` was read
(`Consistent`).

*`TproClock`.* The board tells the day, the driver adds the offset of the year.
`YearKept` says of which: a year not before the one of the last good reading nor
after the present one, so that a new year that has begun is the one that the next
reading notices, when its day is less than `lastday` (`LastDayKept`). `SameYear`
is why it does: a day that has not fallen back, less than most of a year later, is
one of the same year. The calendar is a chain of lemmas about years and cycles of
four (`YearLength`, `YearsInOrder`, `OneYear`, `CycleBegins`), by which the year
at which the loop of `clock_set()` stops is that of the calendar
(`CycleYearHolds`), for every length of a day and of a year.

*`LFixed32`.* A pair stands for a number of the 64-bit range, and numbers that
differ by a multiple of the range are the same when both are in it (`SameNumber`).
So each macro is shown to compute the result of the 64-bit form up to such a
multiple: sums and differences of halves with their carries (`AddHolds`,
`SubHolds`), four products of half words (`MagnitudeMultiplies`), and a shift that
takes what falls out of the high word into the low one (`MagnitudeShifts`,
`ShiftJoins`). The length of a word is any.

| theorem | statement |
|---|---|
| `InvHolds`, `TypeHolds`, `EnvelopeHolds`, `ClockNormalized`, `ReftimeHolds`, `RunsForwardHolds`, `LeapAtMidnightHolds`, `ResidueHolds` | `Spec => []Inv` and its parts |
| `ForwardHolds`, `NoOvershootHolds`, `TaiContinuousHolds` | `Spec => ForwardOutsideLeap`, `NoOvershoot`, `TaiContinuous` |
| `OffsetSettlesHolds` | `Spec => []OffsetSettles` |
| `SteersTowardOffsetHolds` | `Spec => SteersTowardOffset`, given `NoWrap(interval)`, `IntervalsWithin(interval)` |
| `RefinesUtcHolds` | `Spec => RefinesUtc`, the clock implements `UtcClock` |
| `SecondsEnd` | `Spec =>` `[](0 < Shortfall <= a second)`, `[]AdjBounded`, `[][UsedUp]_kvars` |
| `LeapIsNear` | `Spec => [][MidnightNearer]_kvars` |
| `PpsInvHolds`, `SignalFreshHolds` | `PpsSpec => []PpsInv`, `[]SignalFresh` |
| `PpsRefinesUtc`, `PpsTaiContinuous` | `PpsSpec => RefinesUtc /\ ForwardOutsideLeap`; each rollover counts a second of atomic time |
| `LongIntervalStays` | `PpsSpec =>` with `LimitOverflows`, no step but a request changes `pps_freq`, nor any but one that clears `STA_PLL` the interval |
| `SpikeRejectedHolds` | `PpsSpec => []SpikeRejected`, given `PhasesRounded`, `SpikesApart`, `OnlyPulsesSteer` |
| `CalibrationHelpsHolds` | `PpsSpec /\ [](silence <= gap) => CalibrationHelps`, given `CalHypotheses(gap)` |
| `ReadsLaterHolds` | `SimSpec => ReadsLater`, given `TicksInRange` |
| `SimKeepsInv` | `SimSpec => []PpsInv`, given `TicksInRange` |
| `DaemonInvHolds`, `BestShotHolds`, `SilenceToldHolds`, `DropsBoundedHolds` | `DaemonSpec => []DaemonInv`, `[]BestShot`, `SilenceTold`, `[]DropsBounded` |
| `ClosestIntervalHolds` | `DaemonSpec => ClosestInterval` |
| `DaemonKeepsInv`, `DaemonRefinesUtc`, `DaemonKeepsTime`, `DaemonSettles` | `DaemonSpec =>` `[](Inv /\ Envelope)`, `RefinesUtc`, `ForwardOutsideLeap /\ TaiContinuous /\ NoOvershoot`, `[]OffsetSettles` |
| `DaemonSteers` | `DaemonSpec => SteersTowardOffset`, given `NoWrap(interval)`, `IntervalsWithin(interval)` |
| `ShowsTrueTimeHolds`, `RearmedAfterLeapHolds` | `DaemonSpec => []ShowsTrueTime`, `[]RearmedAfterLeap`, given `SettingsLeft`, `StartsEarly`, `PollsOften` |
| `OneTickerHolds`, `NoAssertionHolds`, `ClockExclusiveHolds`, `DeletedAtRestHolds` | `Spec =>` `[]OneTicker`, `[]NoAssertion`, `[]ClockExclusive`, `DeletedAtRest`; `orderly` is in each |
| `NothingSurvivesHolds` | `Spec => []NothingSurvives`; `orderly` and `stray` are in it |
| `DaemonNotAwaitedInVain` | `Spec =>` while `orderly`, `DaemonEnds` when it is waited for, and each of its steps is `DaemonNearer` |
| `TickerNotAwaitedInVain` | `Spec =>` while `orderly`, the ticker killed after it ran `TickerEnds`, and each of its steps is `TickerNearer` |
| `HolderLeaves` | `Spec =>` while `orderly`, who holds the mutex is between `splclock()` and `splx()` |
| `ReadsMonotonicHolds` | `ClockSpec => ReadsMonotonic`, given `HIRES` |
| `ReadsMonotonicByTick` | `ClockSpec => ReadsMonotonic`, given `~HIRES` and `NoLeaps` |
| `ClockImplementsKtime`, `ClockRefinesUtc` | `ClockSpec => Spec`, `RefinesUtc` |
| `AheadBoundedHolds` | `ClockSpec => []AheadBounded`, given `HIRES`, `BootIsLong`, and `NoLeaps` or `LeapsStay` |
| `HookSoundHolds`, `RereadConfirmsHolds` | `ApiSpec => []HookSound`, `RereadConfirms` |
| `HighReadsHolds` | `HighSpec => []HighReads` |
| `AnswersIrigHolds` | `TproSpec => AnswersIrig` |
| `PairsImplementFixedHolds` | `FpInit /\ [][FpNext]_fpVars => []PairsImplementFixed` |

The lemmas of `Ktime` are about truncating division and shifts (`CDivShrinks`,
`ShiftShrinks`, `GintSplit`), about one tick (`TickBounds`; `UpdateBounds`, what it may add, which the
proofs about `RtemsClock` and `KernSim` share), about `hardupdate`
(`HardupdateSafe`, `UpdateDirected`) and about days (`DivModStep`, `DayEnd`); then
one lemma per action, as in the other modules.

Only model-checked:

* liveness, which is beyond the prover: `InsertionHappens`, `LeapSecondEnds`,
  `Resynchronizes`, `CleanupReturns`. For all but `Resynchronizes` the variants
  are proved (see `Ktime` and `RtemsLifecycle` above);
* what depends on the numbers of an instance: `LoopConverges`, the outcome of the
  simulator from given errors.

## Not modelled

* The interrupt of the PPS in the middle of `ntp_adjtime()` or `hardupdate()`, and
  between the two words of an `l_fp`.
* On OSF1, a fetch on another processor in the middle of `pps_dcd()`: the interrupt is
  one step, as on a single processor. It advances the sequence number before it
  stores the timestamp (`alpha/ppsapi.c:161-169`), so that on a multiprocessor Alpha
  a fetch might copy a number with the timestamp before it, twice. `RereadConfirms`
  does not cover that.
* The decode of the return code outside the lock in `ntp_gettime()` (only
  `rtemsNtpSetPollInterval()` has it as a step).
* The build of `ktime.c` without `NTP_NANO`; `micro_time()`, which rounds a
  reading of `micro.c`.
* The counters of `pcc.h` that run freely (method B, `rdtsc`) and the PIC timer's,
  whose value depends on the timer's register and on when its interrupt is
  delivered.
* The lengths of waits, the estimates of error, printing and debugging.
* The legacy `CIOGETEV` interface, a create that fails half-way, and
  `freebsd/timepps.h`, whose kernel half is not here.
* `kern.c`'s random walk and phase file; `rtemssim.c`, which replays the same loop;
  kernel patches and the tools, which have no state that the clock depends on.

## What could follow

1. `KtimeReader`: `ntp_gettime()` and the unlocked decode, with readers that
   relate the code returned to the time returned.
2. The PIC timer's counter and its toggle bit as an instance of `RtemsClock`.
