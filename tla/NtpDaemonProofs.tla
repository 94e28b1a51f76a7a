-------------------------- MODULE NtpDaemonProofs --------------------------
(***************************************************************************)
(* Proofs about NtpDaemon, for every value of its constants: an outage is  *)
(* told to the kernel, the best answer of a round is the one used, the     *)
(* filter does not starve the daemon, and a leap second is passed on when  *)
(* it is due.                                                              *)
(***************************************************************************)
EXTENDS NtpDaemon, KtimeProofs

(***************************************************************************)
(* The invariant.  Once a poll has been answered, silent is zero and the   *)
(* judgement does not depend on it; until then no shot has counted, the    *)
(* retries have been used up when the judgement is reached, and the count  *)
(* of failures keeps up with the polls.                                    *)
(***************************************************************************)
Idle == dpc \in {"start", "claim", "wait", "done"}

InRound == dpc \in {"shoot", "filter", "update"}

Counts ==
    /\ dpc \in {"start", "claim", "wait", "done", "shoot", "filter",
                "update", "judge"}
    /\ {silent, failedsyncs, shots} \subseteq Nat
    /\ retry \in Int

SilenceCounted ==
    /\ silent <= MAX_FAILED_SYNCS + 1
    /\ Idle => silent <= failedsyncs
    /\ ~Idle => silent <= failedsyncs + 1
    /\ dpc = "shoot" /\ silent > 0 => shots = 0
    /\ dpc \in {"filter", "update"} => silent = 0
    /\ dpc = "judge" /\ silent > 0 => retry <= 0

(* The slots: nothing has been heard and the first slot is due, or the     *)
(* better answer is in one slot and the other is free.                     *)
Slots ==
    /\ best \in {0, 1} /\ try \in {0, 1}
    /\ DOMAIN data = {0, 1}
    /\ \A i \in {0, 1} : data[i].tripns \in Int
    /\ heard \subseteq Int

NothingHeard == heard = {} /\ shots = 0 /\ best = 0 /\ try = 0

BestKept ==
    /\ shots > 0
    /\ try = 1 - best
    /\ data[best].tripns \in heard
    /\ \A delay \in heard : data[best].tripns <= delay

RoundOK ==
    /\ InRound => NothingHeard \/ BestKept
    /\ dpc \in {"filter", "update"} => BestKept

DaemonInv == Counts /\ SilenceCounted /\ Slots /\ RoundOK

pollHistory ==
    <<dpc, failedsyncs, retry, shots, data, best, try, silent, heard>>

LEMMA DaemonInitInv == DaemonInit => DaemonInv
  BY DaemonAssumption DEF DaemonInit, DaemonInv, Counts, SilenceCounted,
     Idle, Slots, RoundOK, InRound, NothingHeard, NoAnswer

(* What leaves the daemon's poll alone leaves the invariant alone.         *)
LEMMA PollStutter ==
    ASSUME DaemonInv, UNCHANGED pollHistory
    PROVE  DaemonInv'
  BY DEF DaemonInv, Counts, SilenceCounted, Idle, Slots, RoundOK, InRound,
     NothingHeard, BestKept, pollHistory

(* Between polls the daemon moves without touching its counts.             *)
LEMMA IdleInv ==
    ASSUME DaemonInv, Read \/ Claim \/ Killed
    PROVE  DaemonInv'
  <1>1. /\ Idle /\ dpc' \in {"claim", "wait", "done"}
        /\ UNCHANGED <<failedsyncs, retry, shots, data, best, try, silent,
                       heard>>
    BY DEF Read, Claim, Killed, Step, Idle, pollVars, answerVars, history
  <1> QED
    BY <1>1 DEF DaemonInv, Counts, SilenceCounted, Idle, Slots, RoundOK,
       InRound

LEMMA PollInv ==
    ASSUME DaemonInv, Poll
    PROVE  DaemonInv'
  <1>1. /\ Counts' /\ SilenceCounted'
    BY DaemonAssumption DEF DaemonInv, Counts, SilenceCounted, Idle, Poll,
       Step
  <1>2. Slots' /\ RoundOK'
    BY DEF DaemonInv, Slots, RoundOK, InRound, NothingHeard, Poll, Step
  <1> QED BY <1>1, <1>2 DEF DaemonInv

LEMMA ShotFailsInv ==
    ASSUME DaemonInv, ShotFails
    PROVE  DaemonInv'
  <1>1. UNCHANGED <<failedsyncs, shots, data, best, try, silent, heard>>
    BY DEF ShotFails, answerVars, history
  <1>2. /\ dpc = "shoot" /\ retry' = retry - 1
        /\ dpc' = IF retry' > 0 THEN "shoot" ELSE IF shots = 0 THEN "judge"
                  ELSE "filter"
    BY DEF ShotFails
  <1>3. Counts' /\ SilenceCounted'
    BY <1>1, <1>2 DEF DaemonInv, Counts, SilenceCounted, Idle
  <1>4. Slots' /\ RoundOK'
    BY <1>1, <1>2 DEF DaemonInv, Slots, RoundOK, InRound, NothingHeard,
       BestKept
  <1> QED BY <1>3, <1>4 DEF DaemonInv

LEMMA LeastOfMore ==
    ASSUME NEW S \in SUBSET Int, NEW a \in Int, NEW b \in Int,
           \A d \in S : a <= d, b <= a
    PROVE  \A d \in S \cup {b} : b <= d
  <1> SUFFICES ASSUME NEW d \in S \cup {b} PROVE b <= d
    OBVIOUS
  <1>1. CASE d \in S
    <2>1. d \in Int /\ a <= d
      BY <1>1
    <2> QED BY <2>1
  <1> QED BY <1>1

(* The best of what has been heard remains so with one answer more.        *)
LEMMA KeepBestKeeps ==
    ASSUME DaemonInv, dpc = "shoot", NEW answer, answer.tripns \in Int,
           KeepBest(answer), heard' = heard \cup {answer.tripns},
           shots' = shots + 1
    PROVE  Slots' /\ BestKept'
  <1> DEFINE delay == answer.tripns
  <1>1. Slots /\ shots \in Nat /\ (NothingHeard \/ BestKept)
    BY DEF DaemonInv, Counts, RoundOK, InRound
  <1>2. /\ DOMAIN data' = {0, 1}
        /\ data'[try] = answer
        /\ \A i \in {0, 1} : i # try => data'[i] = data[i]
    BY <1>1 DEF KeepBest, Slots
  <1>3. \A i \in {0, 1} : data'[i].tripns \in Int
    BY <1>1, <1>2 DEF Slots
  <1>4. heard' \subseteq Int
    BY <1>1 DEF Slots
  <1>5. CASE NothingHeard
    <2>1. data'[0].tripns = delay /\ best = 0 /\ try = 0 /\ heard' = {delay}
      BY <1>2, <1>5 DEF NothingHeard
    <2>2. best' = 0 /\ try' = 1
      BY <2>1 DEF KeepBest
    <2> QED BY <1>1, <1>2, <1>3, <1>4, <2>1, <2>2 DEF Slots, BestKept
  <1>6. CASE BestKept
    <2> DEFINE kept == data[best].tripns
    <2>1. /\ try = 1 - best /\ best \in {0, 1} /\ try # best
          /\ data'[best].tripns = kept
          /\ kept \in Int /\ kept \in heard /\ heard \in SUBSET Int
          /\ \A d \in heard : kept <= d
      BY <1>1, <1>2, <1>6 DEF Slots, BestKept
    <2>2. shots' > 0
      BY <1>1
    <2> HIDE DEF kept, delay
    <2>3. /\ data'[try].tripns = delay
          /\ delay \in Int /\ heard' = heard \cup {delay}
      BY <1>2 DEF delay
    <2>4. CASE delay <= kept
      <3>1. best' = try /\ try' = 1 - try
        BY <2>1, <2>3, <2>4 DEF KeepBest
      <3>2. data'[best'].tripns = delay
        BY <2>3, <3>1
      <3>3. \A d \in heard' : delay <= d
        BY <2>1, <2>3, <2>4, LeastOfMore
      <3>4. best' \in {0, 1} /\ try' \in {0, 1} /\ try' = 1 - best'
        BY <2>1, <3>1
      <3>5. BestKept'
        BY <2>2, <2>3, <3>2, <3>3, <3>4 DEF BestKept
      <3> QED BY <1>2, <1>3, <1>4, <3>4, <3>5 DEF Slots
    <2>5. CASE ~(delay <= kept)
      <3>1. best' = best /\ try' = try
        BY <2>1, <2>3, <2>5 DEF KeepBest
      <3>2. \A d \in heard' : kept <= d
        <4>1. kept <= delay
          BY <2>1, <2>3, <2>5
        <4> QED BY <2>1, <2>3, <4>1
      <3>3. BestKept'
        BY <2>1, <2>2, <2>3, <3>1, <3>2 DEF BestKept
      <3>4. best' \in {0, 1} /\ try' \in {0, 1}
        BY <2>1, <3>1
      <3> QED BY <1>2, <1>3, <1>4, <3>3, <3>4 DEF Slots
    <2> QED BY <2>4, <2>5
  <1> QED BY <1>1, <1>5, <1>6

LEMMA ShotAnsweredInv ==
    ASSUME DaemonInv, ShotAnswered
    PROVE  DaemonInv'
  <1>1. /\ dpc = "shoot" /\ dpc' \in {"shoot", "filter"}
        /\ silent' = 0 /\ shots' = shots + 1
        /\ UNCHANGED <<failedsyncs, retry>>
    BY DEF ShotAnswered
  <1>2. PICK answer \in Answers :
            KeepBest(answer) /\ heard' = heard \cup {answer.tripns}
    BY DEF ShotAnswered
  <1>3. answer.tripns \in Int
    <2>1. answer.tripns \in Delays
      BY <1>2 DEF Answers
    <2>2. \A delay \in Delays : delay \in Int
      BY DaemonAssumption
    <2> QED BY <2>1, <2>2
  <1>4. Slots' /\ BestKept'
    BY <1>1, <1>2, <1>3, KeepBestKeeps
  <1>5. Counts' /\ SilenceCounted'
    BY <1>1, DaemonAssumption DEF DaemonInv, Counts, SilenceCounted, Idle
  <1> QED BY <1>4, <1>5 DEF DaemonInv, RoundOK

LEMMA AcceptFilteredInv ==
    ASSUME DaemonInv, AcceptFiltered
    PROVE  DaemonInv'
  <1>1. /\ dpc = "filter" /\ silent = 0
        /\ UNCHANGED <<failedsyncs, data, silent>>
    BY DEF AcceptFiltered, DaemonInv, SilenceCounted
  <1>2. CASE /\ dpc' = "update"
             /\ UNCHANGED <<retry, shots, best, try, heard>>
    BY <1>1, <1>2 DEF DaemonInv, Counts, SilenceCounted, Idle, Slots,
       RoundOK, InRound, BestKept
  <1>3. CASE /\ retry' = retry - 1 /\ dpc' \in {"shoot", "judge"}
             /\ shots' = 0 /\ try' = 0 /\ best' = 0 /\ heard' = {}
    BY <1>1, <1>3 DEF DaemonInv, Counts, SilenceCounted, Idle, Slots,
       RoundOK, InRound, NothingHeard
  <1> QED BY <1>2, <1>3 DEF AcceptFiltered

LEMMA DaemonUpdateInv ==
    ASSUME DaemonInv, Update
    PROVE  DaemonInv'
  <1>1. /\ dpc = "update" /\ dpc' = "judge"
        /\ UNCHANGED <<failedsyncs, retry, shots, data, best, try, silent,
                       heard>>
    BY DEF Update, Step, pollVars, answerVars, history
  <1> QED
    BY <1>1 DEF DaemonInv, Counts, SilenceCounted, Idle, Slots, RoundOK,
       InRound

(* A poll that was not answered has failed, and is counted.                *)
LEMMA SilentFails ==
    ASSUME DaemonInv, dpc = "judge", silent > 0
    PROVE  CountFailures = failedsyncs + 1 /\ CountFailures >= silent
  BY DEF DaemonInv, Counts, SilenceCounted, Idle, Failed, CountFailures

LEMMA JudgeInv ==
    ASSUME DaemonInv, Judge
    PROVE  DaemonInv'
  <1>1. /\ dpc = "judge" /\ dpc' = "wait"
        /\ failedsyncs' = LimitedCount(CountFailures)
        /\ UNCHANGED <<retry, shots, data, best, try, silent, heard>>
    BY DEF Judge, Step, answerVars, history
  <1>2. CountFailures \in Nat
    BY DEF DaemonInv, Counts, CountFailures
  <1>3. LimitedCount(CountFailures) \in Nat
    BY <1>2, DaemonAssumption DEF LimitedCount
  <1>4. silent <= LimitedCount(CountFailures)
    <2>1. silent \in Nat /\ silent <= MAX_FAILED_SYNCS + 1
      BY DEF DaemonInv, Counts, SilenceCounted
    <2>2. silent > 0 => CountFailures >= silent
      BY <1>1, SilentFails
    <2> QED BY <1>2, <2>1, <2>2, DaemonAssumption DEF LimitedCount
  <1> QED
    BY <1>1, <1>3, <1>4 DEF DaemonInv, Counts, SilenceCounted, Idle, Slots,
       RoundOK, InRound

LEMMA DaemonStep == DaemonInv /\ [DaemonNext]_allvars => DaemonInv'
  <1> SUFFICES ASSUME DaemonInv, [DaemonNext]_allvars PROVE DaemonInv'
    OBVIOUS
  <1>1. CASE Read \/ Claim \/ Killed
    BY <1>1, IdleInv
  <1>2. CASE Poll
    BY <1>2, PollInv
  <1>3. CASE ShotFails
    BY <1>3, ShotFailsInv
  <1>4. CASE ShotAnswered
    BY <1>4, ShotAnsweredInv
  <1>5. CASE AcceptFiltered
    BY <1>5, AcceptFilteredInv
  <1>6. CASE Update
    BY <1>6, DaemonUpdateInv
  <1>7. CASE Judge
    BY <1>7, JudgeInv
  <1>8. CASE rtemsNtpSetPollInterval
    BY <1>8, PollStutter
       DEF rtemsNtpSetPollInterval, SettingRead, SettingDecode,
           SettingWrite, pollVars, answerVars, history, pollHistory
  <1>9. CASE ClockTicks \/ Outage
    BY <1>9, PollStutter
       DEF ClockTicks, Outage, pollVars, answerVars, history, pollHistory
  <1>10. CASE UNCHANGED allvars
    BY <1>10, PollStutter
       DEF allvars, dvars, pollVars, answerVars, history, pollHistory
  <1> QED
    BY <1>1, <1>2, <1>3, <1>4, <1>5, <1>6, <1>7, <1>8, <1>9, <1>10
       DEF DaemonNext, ntpDaemon

(* Through any sequence of answers, outages and dropped answers, the counts*)
(* and the two slots of ntpDaemon() (rtemsdep.c:539-675) stay consistent.  *)
THEOREM DaemonInvHolds == DaemonSpec => []DaemonInv
  BY DaemonInitInv, DaemonStep, PTL DEF DaemonSpec

(* Of the answers of a round the daemon uses the one with the least delay, *)
(* although it keeps but two (rtemsdep.c:551-575).                         *)
THEOREM BestShotHolds == DaemonSpec => []BestShot
  <1>1. DaemonInv => BestShot
    BY DEF DaemonInv, RoundOK, BestKept, BestShot
  <1> QED BY <1>1, DaemonInvHolds, PTL

(* What the status word of a request says of synchronization is what the   *)
(* kernel's status word says after it.                                     *)
LEMMA UnsyncWritten ==
    ASSUME NEW status, AdjTime(StatusRequest(status \cup {"STA_UNSYNC"}))
    PROVE  "STA_UNSYNC" \in time_status'
  <1> DEFINE r == StatusRequest(status \cup {"STA_UNSYNC"})
  <1>1. r.modes = {"MOD_STATUS"} /\ r.status = status \cup {"STA_UNSYNC"}
    BY DEF StatusRequest
  <1>2. "STA_UNSYNC" \in WrittenStatus(r)
    BY <1>1 DEF WrittenStatus, STA_RONLY
  <1>3. SelectedStatus(r) = WrittenStatus(r)
    BY <1>1 DEF SelectedStatus, SelectBit
  <1>4. time_status' = LoopAfter(r).status
    BY DEF AdjTime
  <1>5. LoopAfter(r).status = SelectedStatus(r)
    BY <1>1 DEF LoopAfter, Unlocked
  <1> QED BY <1>2, <1>3, <1>4, <1>5

(* After MAX_FAILED_SYNCS polls without an answer, every further one tells *)
(* the kernel that the clock is not synchronized (rtemsdep.c:611-672).     *)
THEOREM SilenceToldHolds == DaemonSpec => SilenceTold
  <1>1. ASSUME DaemonInv, Judge, silent > MAX_FAILED_SYNCS
        PROVE  "STA_UNSYNC" \in time_status'
    <2>1. dpc = "judge" /\ silent \in Nat /\ silent > 0
      BY <1>1, DaemonAssumption DEF Judge, Step, DaemonInv, Counts
    <2>2. CountFailures = failedsyncs + 1 /\ CountFailures >= silent
      BY <1>1, <2>1, SilentFails
    <2>3. CountFailures > MAX_FAILED_SYNCS
      BY <1>1, <2>1, <2>2, DaemonAssumption DEF DaemonInv, Counts
    <2>4. \E status : AdjTime(StatusRequest(status \cup {"STA_UNSYNC"}))
      BY <1>1, <2>3, Zenon DEF Judge
    <2> QED BY <2>4, UnsyncWritten
  <1>2. DaemonInv /\ [DaemonNext]_allvars
            => [Judge /\ silent > MAX_FAILED_SYNCS
                    => "STA_UNSYNC" \in time_status']_allvars
    BY <1>1
  <1> QED BY <1>2, DaemonInvHolds, PTL DEF DaemonSpec, SilenceTold

(***************************************************************************)
(* The filter.  What n drops in a row at one delay leave of an average     *)
(* that was any before; the average adds half of the delay each time.      *)
(***************************************************************************)
Low1(delay) == delay \div 2

Low2(delay) == (3 * Low1(delay)) \div 4 + delay \div 2

Low3(delay) == (3 * Low2(delay)) \div 4 + delay \div 2

FilterTypes ==
    /\ avgDelay \in Nat /\ heard \subseteq Nat
    /\ dropped.delay \in Nat /\ dropped.times \in Nat

AverageRises ==
    dropped.delay >= 8 /\ 3 * dropped.delay < ULONG =>
        /\ dropped.times <= 4
        /\ dropped.times = 1 => avgDelay >= Low1(dropped.delay)
        /\ dropped.times = 2 => avgDelay >= Low2(dropped.delay)
        /\ dropped.times = 3 => avgDelay >= Low3(dropped.delay)
        /\ dropped.times = 4 => avgDelay > dropped.delay

FilterInv == FilterTypes /\ AverageRises

(* A delay that does not pass the filter is not below the average, so that *)
(* three times the average does not overflow where the delay does not.     *)
LEMMA NextAverageRises ==
    ASSUME NEW delay \in Nat, avgDelay \in Nat, 3 * delay < ULONG,
           ~Accepts(delay)
    PROVE  /\ avgDelay <= delay
           /\ NextAverage(delay) = (3 * avgDelay) \div 4 + delay \div 2
  <1>1. avgDelay # 0 /\ avgDelay <= delay /\ ULONG \in Nat \ {0}
    BY DaemonAssumption DEF Accepts
  <1>2. ASSUME NEW a \in Nat, a < ULONG PROVE a % ULONG = a
    BY <1>1, <1>2
  <1>3. (3 * avgDelay) % ULONG = 3 * avgDelay
    BY <1>1, <1>2
  <1> DEFINE sum == (3 * avgDelay) \div 4 + delay \div 2
  <1>4. sum \in Nat /\ sum < ULONG
    BY <1>1
  <1>5. sum % ULONG = sum
    BY <1>2, <1>4
  <1> QED BY <1>1, <1>3, <1>5 DEF NextAverage

LEMMA AverageType ==
    ASSUME NEW delay \in Nat, avgDelay \in Nat
    PROVE  NextAverage(delay) \in Nat
  <1>1. ULONG \in Nat \ {0}
    BY DaemonAssumption
  <1>2. ASSUME NEW a \in Nat PROVE a % ULONG \in Nat
    BY <1>1
  <1>3. (3 * avgDelay) % ULONG \in Nat
    BY <1>2
  <1>4. \A b \in Nat : b \div 4 + delay \div 2 \in Nat
    OBVIOUS
  <1>5. (((3 * avgDelay) % ULONG) \div 4 + delay \div 2) % ULONG \in Nat
    BY <1>2, <1>3, <1>4
  <1> QED BY <1>5 DEF NextAverage

(* After three drops the average exceeds the delay, or it does after four. *)
LEMMA FourDropsDo ==
    ASSUME NEW delay \in Nat, delay >= 8, NEW a \in Nat
    PROVE  /\ (3 * a) \div 4 + delay \div 2 >= Low1(delay)
           /\ a >= Low1(delay) => (3 * a) \div 4 + delay \div 2 >= Low2(delay)
           /\ a >= Low2(delay) => (3 * a) \div 4 + delay \div 2 >= Low3(delay)
           /\ a >= Low3(delay) => (3 * a) \div 4 + delay \div 2 > delay
  <1> DEFINE h == delay \div 2
             l2 == (3 * h) \div 4 + h
             l3 == (3 * l2) \div 4 + h
  <1>1. h \in Nat /\ delay <= 2 * h + 1 /\ h >= 4
    OBVIOUS
  <1> HIDE DEF h
  <1>2. (3 * a) \div 4 + h >= h
    BY <1>1
  <1>3. a >= h => (3 * a) \div 4 + h >= l2
    BY <1>1
  <1>4. a >= l2 => (3 * a) \div 4 + h >= l3
    BY <1>1
  <1>5. a >= l3 => (3 * a) \div 4 + h > 2 * h + 1
    <2>1. l2 \in Nat /\ 4 * l2 >= 7 * h - 3
      BY <1>1
    <2> HIDE DEF l2
    <2>2. l3 \in Nat /\ 4 * l3 >= 3 * l2 - 3 + 4 * h
      BY <1>1, <2>1
    <2> HIDE DEF l3
    <2>3. ASSUME a >= l3 PROVE (3 * a) \div 4 + h > 2 * h + 1
      <3> DEFINE n == (3 * a) \div 4
      <3>1. n \in Nat /\ 4 * n >= 3 * a - 3
        OBVIOUS
      <3> HIDE DEF n
      <3>2. 64 * n >= 111 * h - 111
        BY <1>1, <2>1, <2>2, <2>3, <3>1
      <3>3. n > h + 1
        BY <1>1, <3>1, <3>2
      <3> QED BY <1>1, <3>1, <3>3 DEF n
    <2> QED BY <2>3
  <1>6. Low1(delay) = h /\ Low2(delay) = l2 /\ Low3(delay) = l3
    BY DEF Low1, Low2, Low3, h
  <1>7. \A x \in Int : x > 2 * h + 1 => x > delay
    BY <1>1
  <1>8. (3 * a) \div 4 + h \in Int
    BY <1>1
  <1>9. delay \div 2 = h
    BY DEF h
  <1> HIDE DEF l2, l3
  <1> QED BY <1>2, <1>3, <1>4, <1>5, <1>6, <1>7, <1>8, <1>9

LEMMA FilterDrops ==
    ASSUME DaemonInv, FilterInv, AcceptFiltered
    PROVE  FilterInv'
  <1> DEFINE delay == data[best].tripns
  <1>1. /\ delay \in Nat /\ avgDelay \in Nat
        /\ dropped.delay \in Nat /\ dropped.times \in Nat
    BY DEF AcceptFiltered, DaemonInv, RoundOK, BestKept, FilterInv,
           FilterTypes
  <1>2. avgDelay' = NextAverage(delay) /\ avgDelay' \in Nat
    BY <1>1, AverageType DEF AcceptFiltered
  <1>3. heard' \subseteq Nat
    BY DEF AcceptFiltered, FilterInv, FilterTypes
  <1>4. CASE Accepts(delay)
    <2>1. dropped'.delay = delay /\ dropped'.times = 0
      BY <1>4 DEF AcceptFiltered
    <2> HIDE DEF delay
    <2> QED BY <1>1, <1>2, <1>3, <2>1
            DEF FilterInv, FilterTypes, AverageRises
  <1>5. CASE ~Accepts(delay)
    <2>1. /\ dropped'.delay = delay
          /\ dropped'.times = IF dropped.delay = delay
                              THEN dropped.times + 1 ELSE 1
      BY <1>5 DEF AcceptFiltered
    <2> HIDE DEF delay
    <2>2. FilterTypes'
      BY <1>1, <1>2, <1>3, <2>1 DEF FilterTypes
    <2>3. ASSUME delay >= 8, 3 * delay < ULONG
          PROVE  /\ dropped'.times <= 4
                 /\ dropped'.times = 1 => avgDelay' >= Low1(delay)
                 /\ dropped'.times = 2 => avgDelay' >= Low2(delay)
                 /\ dropped'.times = 3 => avgDelay' >= Low3(delay)
                 /\ dropped'.times = 4 => avgDelay' > delay
      <3> DEFINE a == avgDelay
                 b == avgDelay'
                 t == dropped.times
                 u == dropped'.times
      <3>1. a <= delay /\ b = (3 * a) \div 4 + delay \div 2
        BY <1>1, <1>2, <1>5, <2>3, NextAverageRises
      <3>2. /\ b >= Low1(delay)
            /\ a >= Low1(delay) => b >= Low2(delay)
            /\ a >= Low2(delay) => b >= Low3(delay)
            /\ a >= Low3(delay) => b > delay
        BY <1>1, <2>3, <3>1, FourDropsDo
      <3>3. CASE dropped.delay # delay
        <4>1. u = 1
          BY <2>1, <3>3
        <4> QED BY <3>2, <4>1
      <3>4. CASE dropped.delay = delay
        <4>1. u = t + 1 /\ t \in Nat
          BY <1>1, <2>1, <3>4
        <4>2. /\ t <= 4
              /\ t = 1 => a >= Low1(delay)
              /\ t = 2 => a >= Low2(delay)
              /\ t = 3 => a >= Low3(delay)
              /\ t = 4 => a > delay
          BY <2>3, <3>4 DEF FilterInv, AverageRises
        <4>3. t # 4
          BY <1>1, <3>1, <4>2
        <4>4. u <= 4 /\ (u = 2 => t = 1) /\ (u = 3 => t = 2) /\ (u = 4 => t = 3)
          BY <4>1, <4>2, <4>3
        <4> HIDE DEF a, b, t, u
        <4>5. /\ u = 1 => b >= Low1(delay)
              /\ u = 2 => b >= Low2(delay)
              /\ u = 3 => b >= Low3(delay)
              /\ u = 4 => b > delay
          BY <3>2, <4>2, <4>4
        <4> QED BY <4>4, <4>5 DEF b, u
      <3> QED BY <3>3, <3>4
    <2>4. AverageRises'
      BY <2>1, <2>3 DEF AverageRises, Low1, Low2, Low3
    <2> QED BY <2>2, <2>4 DEF FilterInv
  <1> QED BY <1>4, <1>5

(* Nothing else moves the average; what is heard is a delay of an answer.  *)
LEMMA FilterStep ==
    ASSUME DaemonInv, FilterInv, [DaemonNext]_allvars
    PROVE  FilterInv'
  <1>1. CASE AcceptFiltered
    BY <1>1, FilterDrops
  <1>2. CASE /\ UNCHANGED <<avgDelay, dropped>>
             /\ heard' \subseteq heard \cup Delays
    <2>1. heard' \subseteq Nat
      BY <1>2, DaemonAssumption DEF FilterInv, FilterTypes
    <2> QED BY <1>2, <2>1
            DEF FilterInv, FilterTypes, AverageRises, Low1, Low2, Low3
  <1>3. CASE ShotAnswered
    BY <1>2, <1>3 DEF ShotAnswered, Answers
  <1>4. CASE Read \/ Claim \/ Killed \/ Poll \/ ShotFails \/ Update \/ Judge
    BY <1>2, <1>4 DEF Read, Claim, Killed, Poll, ShotFails, Update, Judge,
       Step, pollVars, history
  <1>5. CASE rtemsNtpSetPollInterval \/ ClockTicks \/ Outage
    BY <1>2, <1>5 DEF rtemsNtpSetPollInterval, SettingRead, SettingDecode,
       SettingWrite, ClockTicks, Outage, pollVars, history
  <1>6. CASE UNCHANGED allvars
    BY <1>2, <1>6 DEF allvars, dvars, pollVars, history
  <1> QED
    BY <1>1, <1>3, <1>4, <1>5, <1>6 DEF DaemonNext, ntpDaemon

(* acceptFiltered() (rtemsdep.c:486-500) does not starve the daemon: at an *)
(* unchanged delay of 8 ns or more, whose triple is within the range of an *)
(* unsigned long, the fifth answer passes, whatever the average was.       *)
THEOREM DropsBoundedHolds == DaemonSpec => []DropsBounded
  <1>1. DaemonInit => FilterInv
    BY DEF DaemonInit, FilterInv, FilterTypes, AverageRises
  <1>2. DaemonInv /\ FilterInv /\ [DaemonNext]_allvars => FilterInv'
    BY FilterStep
  <1>3. FilterInv => DropsBounded
    BY DEF FilterInv, AverageRises, DropsBounded
  <1> QED BY <1>1, <1>2, <1>3, DaemonInvHolds, PTL DEF DaemonSpec

(***************************************************************************)
(* The leap second.  Begins is when the day of the leap does, Over the     *)
(* first second after the leap, and Polled the time of the last poll that  *)
(* succeeded.  The assumptions: no application sets the poll interval (its *)
(* read of the status word and its write are two calls, between which the  *)
(* daemon may write), the clock is set before the day of the leap, and     *)
(* polls succeed twice in a day.                                           *)
(***************************************************************************)
Begins == LeapDay * DAY

SettingsLeft == PollSeconds = {}

StartsEarly == \A start \in StartSecs : start < Begins /\ start <= MaxSec

PollsOften == 2 * MaxAge + 2 <= DAY

LeapDue == leapKind \in {"LEAP_INS", "LEAP_DEL"}

Over == IF leapKind = "LEAP_INS" THEN DueAt + 1 ELSE DueAt

Warned == IF leapKind = "LEAP_INS" THEN "TIME_INS" ELSE "TIME_DEL"

LeapBit == IF leapKind = "LEAP_INS" THEN "STA_INS" ELSE "STA_DEL"

Change == IF leapKind = "LEAP_INS" THEN 1 ELSE -1

Polled == Elapsed - age

(* The machine: it is warned when the day ends, and makes the leap then.   *)
LeapMachine ==
    /\ tv_sec \in Nat /\ time_tai \in Int /\ Elapsed \in Nat
    /\ Elapsed < DueAt =>
            /\ time_tai = 0
            /\ time_state \in {"TIME_OK", Warned}
            /\ time_state = Warned => Elapsed >= Begins
    /\ Elapsed = DueAt - 1 => time_state = Warned
    /\ DueAt <= Elapsed /\ Elapsed < Over =>
            time_state = "TIME_OOP" /\ time_tai = 0
    /\ Elapsed >= Over =>
            /\ time_tai = Change
            /\ time_state \in {"TIME_WAIT", "TIME_OK"}
            /\ time_state = "TIME_OK" => ~Has(LeapBit)
    /\ Elapsed > DueAt + 2 * MaxAge + 1 => time_state = "TIME_OK"

(* The bit that warns it: set by the first poll whose answers are all of   *)
(* the day of the leap, kept to its end, and cleared by the first poll     *)
(* whose answers no longer announce the leap.                              *)
LeapStatus ==
    /\ age \in 0 .. MaxAge
    /\ Has("STA_PLL")
    /\ ~Has(IF LeapBit = "STA_INS" THEN "STA_DEL" ELSE "STA_INS")
    /\ Has(LeapBit) => Elapsed >= Begins
    /\ Polled >= Begins + MaxAge /\ Elapsed < Over => Has(LeapBit)
    /\ Elapsed >= Over /\ ~Has(LeapBit) => Polled >= Over
    /\ Polled >= DueAt + 2 + MaxAge => ~Has(LeapBit)

(* The daemon's copy of the bits that nobody else writes.                  *)
DaemonBits == {"STA_INS", "STA_DEL", "STA_PLL"}

CopyKept ==
    /\ apc = "idle"
    /\ dpc # "start" => ntv \cap DaemonBits = time_status \cap DaemonBits

(* What the answers say, and when they were given at the earliest.         *)
Told(answer) ==
    /\ answer.leap \in {leapKind, "LEAP_NO", "unknown"}
    /\ answer.leap = leapKind /\ answer.day = LeapDay =>
            Elapsed >= Begins /\ Polled < Over
    /\ answer.leap = leapKind /\ answer.day # LeapDay =>
            \/ Polled < Begins
            \/ Elapsed >= Over /\ Polled <= DueAt + 1
    /\ answer.leap = "LEAP_NO" => Polled < Begins \/ Elapsed >= Over

AnswerHeard ==
    /\ dpc = "judge" /\ retry > 0 => shots > 0
    /\ ~Idle /\ shots > 0 => Told(data[best])

LeapInv == LeapDue => LeapMachine /\ LeapStatus /\ CopyKept /\ AnswerHeard

(* Without a leap nothing is announced, and the machine rests.             *)
QuietInv ==
    ~LeapDue =>
        /\ leapKind = "LEAP_NO"
        /\ tv_sec \in 0 .. MaxSec
        /\ time_state = "TIME_OK" /\ time_tai = 0
        /\ Has("STA_PLL") /\ ~Has("STA_INS") /\ ~Has("STA_DEL")
        /\ CopyKept
        /\ \A i \in {0, 1} : data[i].leap = "LEAP_NO"

(* The seconds of a day.                                                   *)
LEMMA DayOf ==
    ASSUME NEW q \in Nat, NEW s \in Nat, q * DAY <= s, s < q * DAY + DAY
    PROVE  s \div DAY = q /\ s % DAY = s - q * DAY
  <1> DEFINE r == s - q * DAY
  <1>1. DAY \in Nat \ {0} /\ q * DAY \in Nat
    BY KtimeAssumption
  <1>2. r \in 0 .. DAY - 1 /\ s = DAY * q + r
    BY <1>1
  <1> HIDE DEF r
  <1>3. s \div DAY = q /\ s % DAY = r
    BY <1>1, <1>2, DivModUnique
  <1> QED BY <1>3 DEF r

LEMMA DayBefore ==
    ASSUME NEW q \in Nat, NEW s \in Nat, s < q * DAY
    PROVE  s \div DAY < q /\ s \div DAY \in Nat
  <1> DEFINE p == s \div DAY
             m == s % DAY
  <1>1. DAY \in Nat \ {0}
    BY KtimeAssumption
  <1>2. p \in Nat /\ m \in 0 .. DAY - 1 /\ s = DAY * p + m
    BY <1>1
  <1> HIDE DEF p, m
  <1>3. ASSUME q <= p PROVE FALSE
    <2>1. q * DAY <= p * DAY
      BY <1>1, <1>2, <1>3, MulMono
    <2>2. p * DAY = DAY * p /\ p * DAY \in Int /\ q * DAY \in Int
      BY <1>1, <1>2
    <2> QED BY <1>2, <2>1, <2>2
  <1> QED BY <1>2, <1>3 DEF p

LEMMA DayAfter ==
    ASSUME NEW q \in Nat, NEW s \in Nat, q * DAY <= s
    PROVE  s \div DAY >= q /\ s \div DAY \in Nat
  <1> DEFINE p == s \div DAY
             m == s % DAY
  <1>1. DAY \in Nat \ {0}
    BY KtimeAssumption
  <1>2. p \in Nat /\ m \in 0 .. DAY - 1 /\ s = DAY * p + m
    BY <1>1
  <1> HIDE DEF p, m
  <1>3. ASSUME p + 1 <= q PROVE FALSE
    <2>1. (p + 1) * DAY <= q * DAY
      BY <1>1, <1>2, <1>3, MulMono
    <2>2. (p + 1) * DAY = DAY * p + DAY /\ DAY * p \in Int /\ q * DAY \in Int
      BY <1>1, <1>2
    <2> QED BY <1>1, <1>2, <2>1, <2>2
  <1> QED BY <1>2, <1>3 DEF p

LEMMA LeapTimes ==
    ASSUME LeapDue
    PROVE  /\ Begins \in Nat /\ DAY \in Nat /\ DAY >= 3 /\ MaxAge \in Nat
           /\ LeapDay \in Nat /\ DueAt \in Nat /\ Over \in Nat
           /\ leapKind = "LEAP_INS" =>
                    /\ DueAt = Begins + DAY /\ Over = Begins + DAY + 1
                    /\ Over = DueAt + 1
           /\ leapKind = "LEAP_DEL" =>
                    DueAt = Begins + DAY - 1 /\ Over = DueAt
           /\ (LeapDay + 1) * DAY = Begins + DAY
  <1>1. LeapDay \in Nat /\ MaxAge \in Nat /\ DAY \in Nat /\ DAY >= 3
    BY DaemonAssumption, KtimeAssumption
  <1>2. /\ Begins \in Nat /\ (LeapDay + 1) * DAY = Begins + DAY
    BY <1>1 DEF Begins
  <1> QED BY <1>1, <1>2 DEF LeapDue, DueAt, Over

(* The true day is the day of the leap from Begins to the leap's end.      *)
LEMMA TrueDayIs ==
    ASSUME LeapDue, Elapsed \in Nat
    PROVE  /\ TrueDay = LeapDay => Begins <= Elapsed /\ Elapsed < Over
           /\ TrueDay \in LeapDay - 1 .. LeapDay => Elapsed < Over
           /\ Begins <= Elapsed /\ Elapsed < Over => TrueDay = LeapDay
  <1> DEFINE e == Elapsed
  <1>1. /\ LeapDay \in Nat /\ LeapDay + 1 \in Nat /\ e \in Nat
        /\ Begins = LeapDay * DAY /\ Begins + DAY = (LeapDay + 1) * DAY
        /\ Begins \in Nat /\ DAY >= 3 /\ DAY \in Nat
        /\ DueAt \in Nat /\ Over \in Nat
        /\ leapKind = "LEAP_INS" =>
                 DueAt = Begins + DAY /\ Over = Begins + DAY + 1
        /\ leapKind = "LEAP_DEL" =>
                 DueAt = Begins + DAY - 1 /\ Over = DueAt
    BY LeapTimes DEF Begins
  <1> HIDE DEF e
  <1>2. CASE e < Begins
    <2>1. e \div DAY < LeapDay /\ e \div DAY \in Nat
      BY <1>1, <1>2, DayBefore
    <2>2. TrueDay = e \div DAY /\ e < Over
      BY <1>1, <1>2 DEF TrueDay, LeapDue, e
    <2> QED BY <1>1, <1>2, <2>1, <2>2 DEF e
  <1>3. CASE Begins <= e /\ e < Over
    <2>1. CASE e < DueAt
      <3>1. e < Begins + DAY
        BY <1>1, <2>1 DEF LeapDue
      <3>2. e \div DAY = LeapDay
        BY <1>1, <1>3, <3>1, DayOf
      <3>3. TrueDay = e \div DAY
        BY <2>1 DEF TrueDay, e
      <3> QED BY <1>3, <3>2, <3>3 DEF e
    <2>2. CASE e >= DueAt
      <3>1. e = DueAt /\ leapKind = "LEAP_INS"
        BY <1>1, <1>3, <2>2 DEF LeapDue
      <3>2. TrueDay = LeapDay
        BY <1>1, <3>1 DEF TrueDay, e
      <3> QED BY <1>3, <3>2 DEF e
    <2> QED BY <1>1, <2>1, <2>2
  <1>4. CASE e >= Over
    <2> DEFINE d == IF leapKind = "LEAP_DEL" THEN e + 1 ELSE e - 1
    <2>1. TrueDay = d \div DAY
      BY <1>1, <1>4 DEF TrueDay, e, LeapDue
    <2>2. d \in Nat /\ (LeapDay + 1) * DAY <= d
      BY <1>1, <1>4 DEF LeapDue
    <2> HIDE DEF d
    <2>3. d \div DAY >= LeapDay + 1 /\ d \div DAY \in Nat
      BY <1>1, <2>2, DayAfter
    <2>4. TrueDay > LeapDay /\ TrueDay \in Nat
      BY <1>1, <2>1, <2>3
    <2>5. ~(e < Over)
      BY <1>1, <1>4
    <2> QED BY <1>1, <2>4, <2>5 DEF e
  <1> QED BY <1>1, <1>2, <1>3, <1>4

(* An answer, when it is given.                                            *)
LEMMA AnswerTold ==
    ASSUME LeapDue, LeapMachine, LeapStatus, NEW answer \in Answers
    PROVE  Told(answer)
  <1>1. /\ Elapsed \in Nat /\ age \in Nat /\ Polled = Elapsed - age
        /\ DueAt \in Nat /\ Over \in Nat /\ Begins \in Nat
        /\ leapKind = "LEAP_INS" => Over = DueAt + 1
        /\ leapKind = "LEAP_DEL" => Over = DueAt
    BY LeapTimes DEF LeapMachine, LeapStatus, Polled
  <1>2. answer.leap \in Announced /\ answer.day = TrueDay
    BY DEF Answers
  <1>3. /\ TrueDay = LeapDay => Begins <= Elapsed /\ Elapsed < Over
        /\ TrueDay \in LeapDay - 1 .. LeapDay => Elapsed < Over
        /\ Begins <= Elapsed /\ Elapsed < Over => TrueDay = LeapDay
    BY <1>1, TrueDayIs
  <1>4. /\ leapKind # "LEAP_NO" /\ leapKind # "unknown"
        /\ LeapDay \in LeapDay - 1 .. LeapDay
    BY DaemonAssumption DEF LeapDue
  <1>5. CASE TrueDay \in LeapDay - 1 .. LeapDay
    <2>1. answer.leap \in {leapKind, "unknown"}
      BY <1>2, <1>4, <1>5 DEF Announced
    <2> QED BY <1>1, <1>2, <1>3, <1>4, <1>5, <2>1 DEF Told
  <1>6. CASE /\ TrueDay \notin LeapDay - 1 .. LeapDay
             /\ Elapsed = DueAt + 1
    <2>1. answer.leap \in {leapKind, "LEAP_NO"}
      BY <1>2, <1>4, <1>6 DEF Announced
    <2>2. Elapsed >= Over /\ Polled <= DueAt + 1
      BY <1>1, <1>6 DEF LeapDue
    <2>3. answer.day # LeapDay
      BY <1>2, <1>4, <1>6
    <2> QED BY <1>4, <2>1, <2>2, <2>3 DEF Told
  <1>7. CASE /\ TrueDay \notin LeapDay - 1 .. LeapDay
             /\ Elapsed # DueAt + 1
    <2>1. answer.leap \in {"LEAP_NO", "unknown"}
      BY <1>2, <1>4, <1>7 DEF Announced
    <2>2. Elapsed < Begins \/ Elapsed >= Over
      BY <1>1, <1>3, <1>4, <1>7
    <2>3. Polled < Begins \/ Elapsed >= Over
      BY <1>1, <2>2
    <2> QED BY <1>4, <2>1, <2>3 DEF Told
  <1> QED BY <1>5, <1>6, <1>7

(* Inside the day of the leap no second begins a day, and for a deletion   *)
(* the last second is that of the leap.                                    *)
LEMMA NotDue ==
    ASSUME LeapDue, NEW e \in Nat, Begins <= e, e < DueAt - 1
    PROVE  /\ leapKind = "LEAP_INS" => (e + 1) % DAY # 0
           /\ leapKind = "LEAP_DEL" => (e + 1 + 1) % DAY # 0
  <1>1. /\ LeapDay \in Nat /\ Begins = LeapDay * DAY /\ Begins \in Nat
        /\ DAY \in Nat
        /\ leapKind = "LEAP_INS" => DueAt = Begins + DAY
        /\ leapKind = "LEAP_DEL" => DueAt = Begins + DAY - 1
    BY LeapTimes DEF Begins
  <1>2. \A s \in Nat : Begins < s /\ s < Begins + DAY => s % DAY # 0
    <2> TAKE s \in Nat
    <2> HAVE Begins < s /\ s < Begins + DAY
    <2>1. LeapDay * DAY <= s /\ s < LeapDay * DAY + DAY
      BY <1>1
    <2>2. s % DAY = s - LeapDay * DAY
      BY <1>1, <2>1, DayOf
    <2>3. s % DAY = s - Begins
      BY <1>1, <2>2
    <2> QED BY <1>1, <2>3
  <1>3. leapKind = "LEAP_INS" => (e + 1) % DAY # 0
    <2>1. leapKind = "LEAP_INS" => Begins < e + 1 /\ e + 1 < Begins + DAY
      BY <1>1
    <2>2. e + 1 \in Nat
      OBVIOUS
    <2> QED BY <1>2, <2>1, <2>2
  <1>4. leapKind = "LEAP_DEL" => (e + 1 + 1) % DAY # 0
    <2>1. leapKind = "LEAP_DEL" =>
                Begins < e + 1 + 1 /\ e + 1 + 1 < Begins + DAY
      BY <1>1
    <2>2. e + 1 + 1 \in Nat
      OBVIOUS
    <2> QED BY <1>2, <2>1, <2>2
  <1> QED BY <1>3, <1>4

LEMMA MidnightIs ==
    ASSUME LeapDue
    PROVE  (Begins + DAY) % DAY = 0
  <1>1. /\ LeapDay + 1 \in Nat /\ (LeapDay + 1) * DAY = Begins + DAY
        /\ Begins \in Nat /\ DAY \in Nat /\ DAY >= 3
    BY LeapTimes
  <1> DEFINE midnight == Begins + DAY
  <1>2. /\ midnight \in Nat /\ (LeapDay + 1) * DAY = midnight
        /\ (LeapDay + 1) * DAY <= midnight
        /\ midnight < (LeapDay + 1) * DAY + DAY
    BY <1>1
  <1> HIDE DEF midnight
  <1>3. midnight % DAY = midnight - (LeapDay + 1) * DAY
    BY <1>1, <1>2, DayOf
  <1>4. midnight % DAY = midnight - midnight
    BY <1>2, <1>3
  <1>5. midnight - midnight = 0
    BY <1>2
  <1> QED BY <1>4, <1>5 DEF midnight

(* The step of the machine in each of the phases.                          *)
LEMMA StepBefore ==
    ASSUME LeapDue, LeapMachine, LeapStatus, Elapsed < DueAt - 1,
           LeapStep(tv_sec + 1)
    PROVE  /\ time_state' = IF Has(LeapBit) THEN Warned ELSE "TIME_OK"
           /\ time_tai' = time_tai /\ tv_sec' = tv_sec + 1
  <1>1. /\ tv_sec \in Nat /\ time_tai = 0 /\ DueAt \in Nat
        /\ time_state \in {"TIME_OK", Warned}
        /\ time_state = Warned => Elapsed >= Begins
    BY LeapTimes DEF LeapMachine
  <1>2. Elapsed = tv_sec
    BY <1>1 DEF Elapsed, Warned
  <1>3. CASE time_state = "TIME_OK"
    BY <1>1, <1>3 DEF LeapStep, NoWarning, WarningWithdrawn, WarningPending,
       InsertSecond, DeleteSecond, EndInsertion, WaitForBits, LeapDue,
       LeapBit, Warned, LeapStatus
  <1>4. CASE leapKind = "LEAP_INS" /\ time_state = Warned
    <2>1. (tv_sec + 1) % DAY # 0
      BY <1>1, <1>2, <1>4, NotDue
    <2> QED
      BY <1>1, <1>4, <2>1 DEF LeapStep, NoWarning, WarningWithdrawn,
         WarningPending, InsertSecond, DeleteSecond, EndInsertion,
         WaitForBits, LeapBit, Warned
  <1>5. CASE leapKind = "LEAP_DEL" /\ time_state = Warned
    <2>1. (tv_sec + 1 + 1) % DAY # 0
      BY <1>1, <1>2, <1>5, NotDue
    <2> QED
      BY <1>1, <1>5, <2>1 DEF LeapStep, NoWarning, WarningWithdrawn,
         WarningPending, InsertSecond, DeleteSecond, EndInsertion,
         WaitForBits, LeapBit, Warned
  <1> QED BY <1>1, <1>3, <1>4, <1>5 DEF LeapDue

LEMMA StepDue ==
    ASSUME LeapDue, LeapMachine, Has(LeapBit), Elapsed = DueAt - 1,
           LeapStep(tv_sec + 1)
    PROVE  /\ leapKind = "LEAP_INS" =>
                /\ time_state' = "TIME_OOP"
                /\ time_tai' = time_tai /\ tv_sec' = tv_sec
           /\ leapKind = "LEAP_DEL" =>
                /\ time_state' = "TIME_WAIT"
                /\ time_tai' = time_tai - 1 /\ tv_sec' = tv_sec + 2
  <1>1. /\ tv_sec \in Nat /\ time_tai = 0 /\ DueAt \in Nat
        /\ time_state = Warned
        /\ leapKind = "LEAP_INS" => DueAt = Begins + DAY
        /\ leapKind = "LEAP_DEL" => DueAt = Begins + DAY - 1
        /\ Begins \in Nat /\ DAY \in Nat
    BY LeapTimes DEF LeapMachine
  <1>2. Elapsed = tv_sec
    BY <1>1 DEF Elapsed, Warned
  <1>3. CASE leapKind = "LEAP_INS"
    <2>1. tv_sec + 1 = Begins + DAY
      BY <1>1, <1>2, <1>3
    <2>2. (tv_sec + 1) % DAY = 0
      BY <2>1, MidnightIs
    <2>3. tv_sec + 1 - 1 = tv_sec
      BY <1>1
    <2> QED
      BY <1>1, <1>3, <2>2, <2>3 DEF LeapStep, NoWarning, WarningWithdrawn,
         WarningPending, InsertSecond, DeleteSecond, EndInsertion,
         WaitForBits, LeapBit, Warned
  <1>4. CASE leapKind = "LEAP_DEL"
    <2>1. tv_sec + 1 + 1 = Begins + DAY
      BY <1>1, <1>2, <1>4
    <2>2. (tv_sec + 1 + 1) % DAY = 0
      BY <2>1, MidnightIs
    <2>3. tv_sec + 1 + 1 = tv_sec + 2
      BY <1>1
    <2> QED
      BY <1>1, <1>4, <2>2, <2>3 DEF LeapStep, NoWarning, WarningWithdrawn,
         WarningPending, InsertSecond, DeleteSecond, EndInsertion,
         WaitForBits, LeapBit, Warned
  <1> QED BY <1>3, <1>4 DEF LeapDue

LEMMA StepInserted ==
    ASSUME LeapDue, LeapMachine, DueAt <= Elapsed, Elapsed < Over,
           LeapStep(tv_sec + 1)
    PROVE  /\ leapKind = "LEAP_INS" /\ Elapsed = DueAt
           /\ time_state' = "TIME_WAIT"
           /\ time_tai' = time_tai + 1 /\ tv_sec' = tv_sec + 1
  <1>1. time_state = "TIME_OOP"
    BY DEF LeapMachine
  <1>2. leapKind = "LEAP_INS" /\ Elapsed = DueAt
    <2>1. /\ Elapsed \in Nat /\ DueAt \in Nat
          /\ leapKind = "LEAP_INS" => Over = DueAt + 1
          /\ leapKind = "LEAP_DEL" => Over = DueAt
      BY LeapTimes DEF LeapMachine
    <2> QED BY <2>1 DEF LeapDue
  <1> QED
    BY <1>1, <1>2 DEF LeapStep, NoWarning, WarningWithdrawn, WarningPending,
       InsertSecond, DeleteSecond, EndInsertion, WaitForBits

LEMMA StepAfter ==
    ASSUME LeapDue, LeapMachine, LeapStatus, Elapsed >= Over,
           LeapStep(tv_sec + 1)
    PROVE  /\ time_state' = IF Has(LeapBit) THEN "TIME_WAIT" ELSE "TIME_OK"
           /\ time_tai' = time_tai /\ tv_sec' = tv_sec + 1
  <1>1. /\ time_state \in {"TIME_WAIT", "TIME_OK"}
        /\ time_state = "TIME_OK" => ~Has(LeapBit)
        /\ ~Has(IF LeapBit = "STA_INS" THEN "STA_DEL" ELSE "STA_INS")
    BY DEF LeapMachine, LeapStatus
  <1> QED
    BY <1>1 DEF LeapStep, NoWarning, WarningWithdrawn, WarningPending,
       InsertSecond, DeleteSecond, EndInsertion, WaitForBits, LeapDue,
       LeapBit

(* The second after, in each of the phases.                                *)
LEMMA MachineNext ==
    ASSUME LeapDue, LeapMachine, LeapStatus, age < MaxAge, PollsOften,
           LeapStep(tv_sec + 1), UNCHANGED leapKind,
           \A bit \in DaemonBits : Has(bit)' <=> Has(bit)
    PROVE  /\ LeapMachine' /\ Elapsed' = Elapsed + 1
           /\ tv_sec' # tv_sec \/ time_state' # time_state
  <1> DEFINE e == Elapsed
             D == DueAt
             T == Over
             S == Begins
             ins == leapKind = "LEAP_INS"
  <1>1. /\ e \in Nat /\ D \in Nat /\ T \in Nat /\ S \in Nat /\ DAY \in Nat
        /\ MaxAge \in Nat /\ age \in Nat /\ age + 1 <= MaxAge
        /\ 2 * MaxAge + 2 <= DAY
        /\ ins => D = S + DAY /\ T = D + 1
        /\ ~ins => D = S + DAY - 1 /\ T = D
        /\ Polled = e - age
        /\ tv_sec \in Nat /\ time_tai \in Int
    BY LeapTimes DEF LeapMachine, LeapStatus, PollsOften, LeapDue, Polled
  <1>2. /\ DueAt' = D /\ Over' = T /\ Warned' = Warned /\ LeapBit' = LeapBit
        /\ Change' = Change
        /\ Has(LeapBit)' <=> Has(LeapBit)
    BY DEF DueAt, Over, Warned, LeapBit, Change, DaemonBits
  <1>3. /\ Warned \in {"TIME_INS", "TIME_DEL"}
        /\ ins => Change = 1
        /\ ~ins => Change = -1
    BY DEF Warned, Change
  <1>4. /\ e < D => time_tai = 0 /\ time_state \in {"TIME_OK", Warned}
        /\ e = D - 1 => time_state = Warned
        /\ Has(LeapBit) => e >= S
        /\ e - age >= S + MaxAge /\ e < T => Has(LeapBit)
        /\ e - age >= D + 2 + MaxAge => ~Has(LeapBit)
        /\ D <= e /\ e < T => time_state = "TIME_OOP" /\ time_tai = 0
        /\ e >= T => time_tai = Change
    BY <1>1 DEF LeapMachine, LeapStatus
  <1>5. /\ e < D => e = tv_sec + time_tai
        /\ e >= T => e = tv_sec + time_tai
    BY <1>1 DEF LeapMachine, Elapsed, Warned
  <1> HIDE DEF e, D, T, S
  <1>6. CASE e < D - 1
    <2>1. /\ time_state' = IF Has(LeapBit) THEN Warned ELSE "TIME_OK"
          /\ time_tai' = time_tai /\ tv_sec' = tv_sec + 1
      BY <1>6, StepBefore DEF e, D
    <2>2. Elapsed' = e + 1
      BY <1>1, <1>3, <1>4, <1>5, <1>6, <2>1 DEF Elapsed
    <2>3. e + 1 = D - 1 => Has(LeapBit)
      BY <1>1, <1>4
    <2>4. LeapMachine'
      <3>1. e + 1 < D /\ e + 1 < T /\ e + 1 <= D + 2 * MaxAge + 1
        BY <1>1, <1>6
      <3>2. Begins' = S
        BY DEF Begins, S
      <3>3. Has(LeapBit) => e + 1 >= S
        BY <1>1, <1>4
      <3>4. time_tai' = 0 /\ tv_sec' \in Nat /\ e + 1 \in Nat
        BY <1>1, <1>4, <1>6, <2>1
      <3> HIDE DEF ins
      <3> QED
        BY <1>1, <1>2, <1>3, <2>1, <2>2, <2>3, <3>1, <3>2, <3>3, <3>4
           DEF LeapMachine
    <2> QED BY <1>1, <2>1, <2>2, <2>4 DEF e
  <1>7. CASE e = D - 1
    <2>1. Has(LeapBit)
      BY <1>1, <1>4, <1>7
    <2>2. /\ ins => /\ time_state' = "TIME_OOP"
                    /\ time_tai' = time_tai /\ tv_sec' = tv_sec
          /\ ~ins => /\ time_state' = "TIME_WAIT"
                     /\ time_tai' = time_tai - 1 /\ tv_sec' = tv_sec + 2
      BY <1>7, <2>1, StepDue DEF e, D, LeapDue
    <2>3. time_tai = 0 /\ e = tv_sec /\ time_state = Warned
      BY <1>1, <1>4, <1>5, <1>7
    <2>4. Elapsed' = e + 1
      BY <1>1, <2>2, <2>3 DEF Elapsed
    <2>5. LeapMachine'
      <3>1. /\ e + 1 = D /\ ~(e + 1 < D) /\ ~(e + 1 = D - 1) /\ e + 1 \in Nat
            /\ ins => e + 1 < T
            /\ ~ins => ~(e + 1 < T) /\ e + 1 >= T
            /\ e + 1 <= D + 2 * MaxAge + 1
        BY <1>1, <1>7
      <3>2. /\ time_tai' \in Int /\ tv_sec' \in Nat
            /\ ins => time_tai' = 0
            /\ ~ins => time_tai' = Change
        BY <1>1, <1>3, <2>2, <2>3
      <3> HIDE DEF ins
      <3> QED
        BY <1>1, <1>2, <2>2, <2>4, <3>1, <3>2 DEF LeapMachine
    <2> QED BY <1>1, <1>3, <2>2, <2>3, <2>4, <2>5 DEF e
  <1>8. CASE D <= e /\ e < T
    <2>1. /\ ins /\ e = D
          /\ time_state' = "TIME_WAIT"
          /\ time_tai' = time_tai + 1 /\ tv_sec' = tv_sec + 1
      BY <1>8, StepInserted DEF e, D, T
    <2>2. Elapsed' = e + 1
      <3>1. e = tv_sec + 1 + time_tai
        BY <1>4, <1>8 DEF Elapsed, e
      <3> QED BY <1>1, <2>1, <3>1 DEF Elapsed
    <2>3. LeapMachine'
      <3>1. /\ e + 1 = T /\ ~(e + 1 < D) /\ ~(e + 1 = D - 1) /\ e + 1 \in Nat
            /\ e + 1 >= T /\ ~(e + 1 < T)
            /\ e + 1 <= D + 2 * MaxAge + 1
        BY <1>1, <2>1
      <3>2. time_tai' \in Int /\ tv_sec' \in Nat /\ time_tai' = Change
        BY <1>1, <1>3, <1>4, <1>8, <2>1
      <3> HIDE DEF ins
      <3> QED
        BY <1>1, <1>2, <2>1, <2>2, <3>1, <3>2 DEF LeapMachine
    <2> QED BY <1>1, <2>1, <2>2, <2>3 DEF e
  <1>9. CASE e >= T
    <2>1. /\ time_state' = IF Has(LeapBit) THEN "TIME_WAIT" ELSE "TIME_OK"
          /\ time_tai' = time_tai /\ tv_sec' = tv_sec + 1
      BY <1>9, StepAfter DEF e, T
    <2>2. Elapsed' = e + 1
      BY <1>1, <1>5, <1>9, <2>1 DEF Elapsed
    <2>3. e + 1 > D + 2 * MaxAge + 1 => ~Has(LeapBit)
      BY <1>1, <1>4
    <2>4. LeapMachine'
      <3>1. /\ ~(e + 1 < D) /\ ~(e + 1 = D - 1) /\ e + 1 \in Nat
            /\ ~(e + 1 < T)
        BY <1>1, <1>9
      <3>2. time_tai' \in Int /\ tv_sec' \in Nat /\ time_tai' = Change
        BY <1>1, <1>4, <1>9, <2>1
      <3> HIDE DEF ins
      <3> QED
        BY <1>1, <1>2, <2>1, <2>2, <2>3, <3>1, <3>2 DEF LeapMachine
    <2> QED BY <1>1, <2>1, <2>2, <2>4 DEF e
  <1> QED BY <1>1, <1>6, <1>7, <1>8, <1>9

(* The status word, one second later.                                      *)
LEMMA StatusNext ==
    ASSUME LeapDue, LeapMachine, LeapStatus, age < MaxAge, PollsOften,
           Elapsed' = Elapsed + 1, age' = age + 1, UNCHANGED leapKind,
           \A bit \in DaemonBits : Has(bit)' <=> Has(bit)
    PROVE  LeapStatus'
  <1> DEFINE e == Elapsed
             D == DueAt
             T == Over
             S == Begins
             has == Has(LeapBit)
  <1>1. /\ e \in Nat /\ D \in Nat /\ T \in Nat /\ S \in Nat /\ DAY \in Nat
        /\ MaxAge \in Nat /\ age \in Nat /\ age + 1 <= MaxAge
        /\ 2 * MaxAge + 2 <= DAY
        /\ D >= S + DAY - 1
        /\ T >= D
        /\ Polled = e - age
    BY LeapTimes DEF LeapMachine, LeapStatus, PollsOften, LeapDue, Polled
  <1>2. /\ DueAt' = D /\ Over' = T /\ Begins' = S /\ LeapBit' = LeapBit
        /\ Has(LeapBit)' <=> has
        /\ Has("STA_PLL")'
        /\ ~Has(IF LeapBit = "STA_INS" THEN "STA_DEL" ELSE "STA_INS")'
    BY DEF DueAt, Over, LeapBit, Begins, DaemonBits, LeapStatus
  <1>3. /\ has => e >= S
        /\ e - age >= S + MaxAge /\ e < T => has
        /\ e >= T /\ ~has => e - age >= T
        /\ e - age >= D + 2 + MaxAge => ~has
    BY <1>1 DEF LeapStatus
  <1>4. Polled' = e - age
    BY <1>1 DEF Polled
  <1> HIDE DEF e, D, T, S, has
  <1>5. /\ has => e + 1 >= S
        /\ e - age >= S + MaxAge /\ e + 1 < T => has
        /\ e + 1 >= T /\ ~has => e - age >= T
        /\ e - age >= D + 2 + MaxAge => ~has
        /\ age + 1 \in 0 .. MaxAge
    BY <1>1, <1>3
  <1>6. Elapsed' = e + 1 /\ age' = age + 1
    BY DEF e
  <1> QED BY <1>2, <1>4, <1>5, <1>6 DEF LeapStatus

LEMMA BitsTick ==
    ASSUME Hardclock
    PROVE  \A bit \in DaemonBits : Has(bit)' <=> Has(bit)
  BY DEF Hardclock, Tick, SecondOverflow, PpsWatchdog, Has, DaemonBits

(* What a request with a status word does to the bits and to the machine.  *)
LEMMA StatusRequested ==
    ASSUME NEW status, AdjTime(StatusRequest(status)), "STA_PLL" \in status
    PROVE  /\ time_status' \cap DaemonBits = status \cap DaemonBits
           /\ UNCHANGED <<tv_sec, time_state, time_tai>>
  <1> DEFINE r == StatusRequest(status)
  <1>1. r.modes = {"MOD_STATUS"} /\ r.status = status
    BY DEF StatusRequest
  <1> HIDE DEF r
  <1>2. ~ClearsPll(r)
    BY <1>1 DEF ClearsPll
  <1>3. WrittenStatus(r) \cap DaemonBits = status \cap DaemonBits
    <2>1. STA_RONLY \cap DaemonBits = {}
      BY DEF STA_RONLY, DaemonBits
    <2> QED BY <1>1, <2>1 DEF WrittenStatus
  <1>4. SelectedStatus(r) = WrittenStatus(r)
    BY <1>1 DEF SelectedStatus, SelectBit
  <1>5. LoopAfter(r).status = SelectedStatus(r)
    BY <1>1 DEF LoopAfter, Unlocked
  <1>6. /\ time_status' = LoopAfter(r).status
        /\ UNCHANGED <<tv_sec, time_state, time_tai>>
    BY <1>1, <1>2 DEF AdjTime, timevar, r
  <1> QED BY <1>3, <1>4, <1>5, <1>6

LEMMA BitsDisciplined ==
    ASSUME NEW offset, Discipline(offset)
    PROVE  /\ time_status' \cap DaemonBits = time_status \cap DaemonBits
           /\ UNCHANGED <<tv_sec, time_state, time_tai>>
  <1> DEFINE h == hardupdate(time_status, time_constant, offset)
  <1>1. h.status \cap DaemonBits = time_status \cap DaemonBits
    BY DEF hardupdate, Unlocked, NewMode, DaemonBits
  <1> QED BY <1>1 DEF Discipline, timevar, leapVars

leapClock == <<tv_sec, time_state, time_tai, age, leapKind>>

(* What leaves the clock and its leap bits alone leaves the leap alone.    *)
LEMMA LeapStutter ==
    ASSUME LeapMachine, LeapStatus, UNCHANGED leapClock,
           time_status' \cap DaemonBits = time_status \cap DaemonBits
    PROVE  /\ LeapMachine' /\ LeapStatus'
           /\ \A answer : Told(answer) => Told(answer)'
  <1>1. /\ Elapsed' = Elapsed /\ DueAt' = DueAt /\ Over' = Over
        /\ Warned' = Warned /\ LeapBit' = LeapBit /\ Change' = Change
        /\ Polled' = Polled /\ Begins' = Begins /\ age' = age
        /\ tv_sec' = tv_sec /\ time_state' = time_state
        /\ time_tai' = time_tai /\ leapKind' = leapKind
    BY DEF leapClock, Elapsed, DueAt, Over, Warned, LeapBit, Change, Polled,
       Begins
  <1>2. \A bit \in DaemonBits : Has(bit)' <=> Has(bit)
    BY DEF Has
  <1>3. /\ LeapBit \in DaemonBits /\ "STA_PLL" \in DaemonBits
        /\ (IF LeapBit = "STA_INS" THEN "STA_DEL" ELSE "STA_INS")
                \in DaemonBits
    BY DEF LeapBit, DaemonBits
  <1>4. /\ Has(LeapBit)' <=> Has(LeapBit)
        /\ Has("STA_PLL")' <=> Has("STA_PLL")
        /\ Has(IF LeapBit = "STA_INS" THEN "STA_DEL" ELSE "STA_INS")'
            <=> Has(IF LeapBit = "STA_INS" THEN "STA_DEL" ELSE "STA_INS")
    BY <1>1, <1>2, <1>3
  <1>5. LeapMachine'
    BY <1>1, <1>4, Zenon DEF LeapMachine
  <1>6. LeapStatus'
    BY <1>1, <1>4, Zenon DEF LeapStatus
  <1>7. \A answer : Told(answer) => Told(answer)'
    BY <1>1 DEF Told
  <1> QED BY <1>5, <1>6, <1>7

LEMMA CopyStutter ==
    ASSUME CopyKept, UNCHANGED <<dpc, ntv, apc>>,
           time_status' \cap DaemonBits = time_status \cap DaemonBits
    PROVE  CopyKept'
  BY DEF CopyKept

LEMMA ToldLater ==
    ASSUME Told(data'[best']), UNCHANGED leapClock
    PROVE  Told(data[best])'
  <1>1. /\ Elapsed' = Elapsed /\ DueAt' = DueAt /\ Over' = Over
        /\ Polled' = Polled /\ Begins' = Begins /\ leapKind' = leapKind
    BY DEF leapClock, Elapsed, DueAt, Over, Polled, Begins
  <1> QED BY <1>1 DEF Told

(* The daemon's steps other than its judgement.                            *)
LEMMA DaemonReads ==
    ASSUME DaemonInv, LeapDue, LeapInv,
           Read \/ Claim \/ Poll \/ Killed
    PROVE  LeapInv'
  <1>1. LeapMachine /\ LeapStatus /\ CopyKept /\ "STA_PLL" \in time_status
    BY DEF LeapInv, LeapStatus, Has
  <1>2. AnswerHeard'
    BY DEF Read, Claim, Poll, Killed, Step, AnswerHeard, Idle
  <1>3. CASE Read
    <2>1. UNCHANGED leapClock /\ UNCHANGED <<time_status, apc>> /\ ntv' = time_status
      BY <1>3 DEF Read, kvars, leapClock, timevar, leapVars, appVars, server
    <2> QED BY <1>1, <1>2, <2>1, LeapStutter DEF LeapInv, CopyKept
  <1>4. CASE Claim
    <2> DEFINE status == ntv \ {"STA_UNSYNC"}
    <2>1. status \cap DaemonBits = time_status \cap DaemonBits
      BY <1>1, <1>4 DEF Claim, Step, CopyKept, DaemonBits
    <2>2. "STA_PLL" \in status
      BY <1>1, <2>1 DEF DaemonBits
    <2>3. AdjTime(StatusRequest(status))
      BY <1>4 DEF Claim
    <2> HIDE DEF status
    <2>4. /\ time_status' \cap DaemonBits = time_status \cap DaemonBits
          /\ UNCHANGED <<tv_sec, time_state, time_tai>>
      BY <2>1, <2>2, <2>3, StatusRequested
    <2>5. UNCHANGED leapClock /\ apc' = apc /\ ntv' = time_status'
      BY <1>4, <2>4 DEF Claim, leapClock, appVars, server
    <2> QED BY <1>1, <1>2, <2>4, <2>5, LeapStutter DEF LeapInv, CopyKept
  <1>5. CASE Poll
    <2>1. /\ UNCHANGED leapClock /\ UNCHANGED <<time_status, apc, ntv>>
          /\ dpc # "start"
      BY <1>5 DEF Poll, Step, kvars, leapClock, timevar, leapVars, appVars,
         server
    <2> QED BY <1>1, <1>2, <2>1, LeapStutter DEF LeapInv, CopyKept
  <1>6. CASE Killed
    <2> DEFINE status == ntv \cup {"STA_UNSYNC"}
    <2>1. status \cap DaemonBits = time_status \cap DaemonBits
      BY <1>1, <1>6 DEF Killed, Step, CopyKept, DaemonBits
    <2>2. "STA_PLL" \in status
      BY <1>1, <2>1 DEF DaemonBits
    <2>3. AdjTime(StatusRequest(status))
      BY <1>6 DEF Killed
    <2> HIDE DEF status
    <2>4. /\ time_status' \cap DaemonBits = time_status \cap DaemonBits
          /\ UNCHANGED <<tv_sec, time_state, time_tai>>
      BY <2>1, <2>2, <2>3, StatusRequested
    <2>5. UNCHANGED leapClock /\ apc' = apc /\ ntv' = time_status'
      BY <1>6, <2>4 DEF Killed, leapClock, appVars, server
    <2> QED BY <1>1, <1>2, <2>4, <2>5, LeapStutter DEF LeapInv, CopyKept
  <1> QED BY <1>3, <1>4, <1>5, <1>6

(* The better answer of a round has been told, since all of them have.     *)
LEMMA KeepBestTold ==
    ASSUME DaemonInv, dpc = "shoot", NEW answer, KeepBest(answer),
           shots > 0 => Told(data[best]), Told(answer)
    PROVE  Told(data'[best'])
  <1>1. Slots /\ (NothingHeard \/ BestKept)
    BY DEF DaemonInv, RoundOK, InRound
  <1>2. /\ DOMAIN data' = {0, 1} /\ data'[try] = answer
        /\ \A i \in {0, 1} : i # try => data'[i] = data[i]
        /\ best' \in {best, try}
    BY <1>1 DEF KeepBest, Slots
  <1>3. CASE best' = try
    BY <1>2, <1>3
  <1>4. CASE best' # try
    <2>1. best' = best /\ best # try
      BY <1>2, <1>4
    <2>2. shots > 0 /\ best \in {0, 1}
      BY <1>1, <2>1 DEF NothingHeard, BestKept, Slots
    <2>3. data'[best'] = data[best]
      BY <1>2, <2>1, <2>2
    <2> QED BY <2>2, <2>3
  <1> QED BY <1>3, <1>4

LEMMA DaemonHears ==
    ASSUME DaemonInv, LeapDue, LeapInv,
           ShotFails \/ ShotAnswered \/ AcceptFiltered \/ Update
    PROVE  LeapInv'
  <1>1. LeapMachine /\ LeapStatus /\ CopyKept /\ AnswerHeard
    BY DEF LeapInv
  <1>2. /\ UNCHANGED leapClock /\ UNCHANGED <<apc, ntv>>
        /\ time_status' \cap DaemonBits = time_status \cap DaemonBits
        /\ dpc # "start"
    <2>1. CASE ShotFails \/ ShotAnswered \/ AcceptFiltered
      BY <2>1 DEF ShotFails, ShotAnswered, AcceptFiltered, kvars, leapClock,
         timevar, leapVars, appVars, server
    <2>2. CASE Update
      <3>1. PICK offset : Discipline(offset)
        BY <2>2 DEF Update
      <3> QED
        BY <2>2, <3>1, BitsDisciplined DEF Update, Step, leapClock, appVars,
           server
    <2> QED BY <2>1, <2>2
  <1>3. /\ LeapMachine' /\ LeapStatus' /\ CopyKept'
        /\ \A answer : Told(answer) => Told(answer)'
    BY <1>1, <1>2, LeapStutter DEF CopyKept
  <1>4. /\ DaemonInv' /\ shots \in Nat /\ retry \in Int
        /\ UNCHANGED leapKind
    BY <1>2, ShotFailsInv, ShotAnsweredInv, AcceptFilteredInv,
       DaemonUpdateInv DEF DaemonInv, Counts, leapClock
  <1>5. Told(data'[best']) => Told(data[best])'
    BY <1>2, ToldLater
  <1>6. CASE ShotFails
    <2>1. /\ dpc = "shoot" /\ UNCHANGED <<shots, data, best>>
          /\ dpc' = IF retry' > 0 THEN "shoot" ELSE IF shots = 0 THEN "judge"
                    ELSE "filter"
      BY <1>6 DEF ShotFails, answerVars
    <2>2. AnswerHeard'
      BY <1>1, <1>5, <2>1 DEF AnswerHeard, Idle
    <2> QED BY <1>3, <2>2 DEF LeapInv
  <1>7. CASE ShotAnswered
    <2>1. PICK answer \in Answers : KeepBest(answer)
      BY <1>7 DEF ShotAnswered
    <2>2. dpc = "shoot" /\ dpc' \in {"shoot", "filter"}
      BY <1>7 DEF ShotAnswered
    <2>3. Told(data'[best'])
      <3>1. Told(answer)
        BY <1>1, AnswerTold
      <3>2. shots > 0 => Told(data[best])
        BY <1>1, <2>2 DEF AnswerHeard, Idle
      <3> QED BY <2>1, <2>2, <3>1, <3>2, KeepBestTold
    <2>4. AnswerHeard'
      BY <1>5, <2>2, <2>3 DEF AnswerHeard
    <2> QED BY <1>3, <2>4 DEF LeapInv
  <1>8. CASE AcceptFiltered
    <2>1. /\ dpc = "filter" /\ data' = data
          /\ \/ dpc' = "update" /\ UNCHANGED <<shots, best>>
             \/ shots' = 0 /\ (dpc' = "judge" => ~(retry' > 0))
      BY <1>8 DEF AcceptFiltered
    <2>2. AnswerHeard'
      BY <1>1, <1>5, <2>1 DEF AnswerHeard, Idle
    <2> QED BY <1>3, <2>2 DEF LeapInv
  <1>9. CASE Update
    <2>1. /\ dpc = "update" /\ dpc' = "judge"
          /\ UNCHANGED <<shots, data, best>>
      BY <1>9 DEF Update, Step, pollVars, answerVars
    <2>2. shots > 0
      BY <2>1 DEF DaemonInv, RoundOK, BestKept
    <2>3. AnswerHeard'
      BY <1>1, <1>5, <2>1, <2>2 DEF AnswerHeard, Idle
    <2> QED BY <1>3, <2>3 DEF LeapInv
  <1> QED BY <1>6, <1>7, <1>8, <1>9

(* The judgement: what the answer says of the leap goes to the kernel.     *)
LEMMA LeapBitsKept ==
    ASSUME NEW status, NEW answer, LeapDue,
           answer.leap \in {leapKind, "LEAP_NO", "unknown"}
    PROVE  /\ \A bit \in DaemonBits \ {LeapBit} :
                    bit \in LeapBits(status, answer) =>
                        bit \in status
           /\ "STA_PLL" \in status => "STA_PLL" \in LeapBits(status, answer)
           /\ LeapBit \in LeapBits(status, answer) <=>
                \/ answer.leap = leapKind /\ answer.day = LeapDay
                \/ answer.leap # "LEAP_NO" /\ LeapBit \in status
  <1>1. CASE leapKind = "LEAP_INS"
    BY <1>1 DEF LeapBits, LeapBit, LastDayOfHalf, DaemonBits
  <1>2. CASE leapKind = "LEAP_DEL"
    BY <1>2 DEF LeapBits, LeapBit, LastDayOfHalf, DaemonBits
  <1> QED BY <1>1, <1>2 DEF LeapDue

LEMMA DaemonJudges ==
    ASSUME DaemonInv, LeapDue, LeapInv, Judge
    PROVE  LeapInv'
  <1> DEFINE answer == data[best]
             status == IF Failed THEN ntv ELSE LeapBits(ntv, answer)
             written == IF CountFailures > MAX_FAILED_SYNCS
                        THEN status \cup {"STA_UNSYNC"}
                        ELSE status \ {"STA_UNSYNC"}
  <1>1. /\ LeapMachine /\ LeapStatus /\ CopyKept /\ AnswerHeard
        /\ dpc = "judge" /\ dpc' = "wait"
        /\ ntv' = time_status' /\ UNCHANGED <<leapKind, apc>>
        /\ age' = IF Failed \/ answer.leap = "unknown" THEN age ELSE 0
    BY DEF LeapInv, Judge, Step, appVars, server
  <1>2. AdjTime(StatusRequest(written))
    BY DEF Judge
  <1>3. ntv \cap DaemonBits = time_status \cap DaemonBits
    BY <1>1 DEF CopyKept
  <1>4. ~Failed => Told(answer)
    BY <1>1 DEF AnswerHeard, Idle, Failed, DaemonInv, Counts
  <1>5. written \cap DaemonBits = status \cap DaemonBits
    BY DEF DaemonBits
  <1>6. AnswerHeard' /\ CopyKept'
    BY <1>1 DEF AnswerHeard, Idle, CopyKept
  <1> HIDE DEF answer, status, written
  <1>7. ~Failed => /\ answer.leap \in {leapKind, "LEAP_NO", "unknown"}
                   /\ status = LeapBits(ntv, answer)
    BY <1>4 DEF Told, status
  <1>8. Failed => status = ntv
    BY DEF status
  <1>9. "STA_PLL" \in ntv
    BY <1>1, <1>3 DEF LeapStatus, Has, DaemonBits
  <1>10. "STA_PLL" \in status
    BY <1>7, <1>8, <1>9, LeapBitsKept
  <1>11. "STA_PLL" \in written
    BY <1>5, <1>10 DEF DaemonBits
  <1>12. /\ time_status' \cap DaemonBits = status \cap DaemonBits
         /\ UNCHANGED <<tv_sec, time_state, time_tai>>
    BY <1>2, <1>5, <1>11, StatusRequested
  <1>13. CASE Failed \/ answer.leap = "unknown"
    <2>1. status \cap DaemonBits = ntv \cap DaemonBits
      BY <1>7, <1>8, <1>13 DEF LeapBits
    <2>2. UNCHANGED leapClock
      BY <1>1, <1>12, <1>13 DEF leapClock
    <2>3. LeapMachine' /\ LeapStatus'
      BY <1>1, <1>3, <1>12, <2>1, <2>2, LeapStutter
    <2> QED BY <1>6, <2>3 DEF LeapInv
  <1>14. CASE ~Failed /\ answer.leap # "unknown"
    <2> DEFINE e == Elapsed
               D == DueAt
               T == Over
               S == Begins
               had == Has(LeapBit)
               has == LeapBit \in time_status'
               warns == answer.leap = leapKind /\ answer.day = LeapDay
    <2>1. /\ e \in Nat /\ D \in Nat /\ T \in Nat /\ S \in Nat
          /\ MaxAge \in Nat /\ age \in Nat /\ age <= MaxAge
          /\ T <= D + 1 /\ S <= D
          /\ Polled = e - age /\ age' = 0
      BY <1>1, <1>14, LeapTimes DEF LeapMachine, LeapStatus, LeapDue, Polled
    <2>2. /\ Elapsed' = e /\ DueAt' = D /\ Over' = T /\ Begins' = S
          /\ Warned' = Warned /\ LeapBit' = LeapBit /\ Change' = Change
          /\ leapKind' = leapKind
      BY <1>1, <1>12 DEF Elapsed, DueAt, Over, Warned, LeapBit, Change,
         Begins
    <2>3. Polled' = e
      BY <2>1, <2>2 DEF Polled
    <2>4. /\ LeapBit \in DaemonBits /\ "STA_PLL" \in DaemonBits
          /\ LeapBit # "STA_PLL"
      BY DEF LeapBit, DaemonBits
    <2>5. /\ Has("STA_PLL")'
          /\ ~Has(IF LeapBit = "STA_INS" THEN "STA_DEL" ELSE "STA_INS")'
      <3>1. ~Has(IF LeapBit = "STA_INS" THEN "STA_DEL" ELSE "STA_INS")
        BY <1>1 DEF LeapStatus
      <3>2. (IF LeapBit = "STA_INS" THEN "STA_DEL" ELSE "STA_INS")
                \in DaemonBits \ {LeapBit}
        BY DEF LeapBit, DaemonBits
      <3>3. (IF LeapBit = "STA_INS" THEN "STA_DEL" ELSE "STA_INS")
                \notin status
        BY <1>3, <1>7, <1>14, <3>1, <3>2, LeapBitsKept DEF Has
      <3> QED BY <1>10, <1>12, <2>2, <2>4, <3>2, <3>3 DEF Has
    <2>6. has <=> warns \/ (answer.leap # "LEAP_NO" /\ had)
      <3>1. LeapBit \in status <=>
                    warns \/ (answer.leap # "LEAP_NO" /\ LeapBit \in ntv)
        BY <1>7, <1>14, LeapBitsKept
      <3>2. LeapBit \in ntv <=> had
        BY <1>3, <2>4 DEF Has
      <3> QED BY <1>12, <2>4, <3>1, <3>2
    <2>7. /\ warns => e >= S /\ e - age < T
          /\ answer.leap = leapKind /\ ~warns =>
                \/ e - age < S
                \/ e >= T /\ e - age <= D + 1
          /\ answer.leap = "LEAP_NO" => e - age < S \/ e >= T
          /\ answer.leap = leapKind \/ answer.leap = "LEAP_NO"
          /\ ~(warns /\ answer.leap = "LEAP_NO")
      BY <1>4, <1>7, <1>14, <2>1 DEF Told, LeapDue
    <2>8. /\ had => e >= S
          /\ e >= T /\ ~had => e - age >= T
      BY <1>1, <2>1 DEF LeapStatus
    <2> HIDE DEF e, D, T, S, had, has, warns
    <2>9. /\ has => e >= S
          /\ e >= S + MaxAge /\ e < T => has
          /\ e >= D + 2 + MaxAge => ~has
          /\ e >= T /\ ~had => ~has
      BY <2>1, <2>6, <2>7, <2>8
    <2>10. Has(LeapBit)' <=> has
      BY <2>2 DEF Has, has
    <2>11. LeapStatus'
      BY <2>1, <2>2, <2>3, <2>5, <2>9, <2>10 DEF LeapStatus
    <2>12. LeapMachine'
      <3>1. e >= T /\ time_state = "TIME_OK" => ~has
        BY <1>1, <2>9 DEF LeapMachine, e, T, had
      <3> QED
        BY <1>1, <1>12, <2>2, <2>10, <3>1, Zenon
           DEF LeapMachine, e, D, T, S
    <2> QED BY <1>6, <2>11, <2>12 DEF LeapInv
  <1> QED BY <1>13, <1>14

(* A tick, and what the server does.                                       *)
LEMMA LeapTicks ==
    ASSUME DaemonInv, LeapDue, LeapInv, PollsOften, ClockTicks
    PROVE  LeapInv'
  <1>1. /\ LeapMachine /\ LeapStatus /\ CopyKept /\ AnswerHeard
        /\ age < MaxAge
        /\ age' = IF tv_sec' # tv_sec \/ time_state' # time_state
                  THEN age + 1 ELSE age
        /\ UNCHANGED <<dpc, ntv, apc, leapKind, shots, retry, data, best>>
    BY DEF LeapInv, ClockTicks, appVars, server, pollVars, answerVars
  <1>2. \A bit \in DaemonBits : Has(bit)' <=> Has(bit)
    BY BitsTick DEF ClockTicks
  <1>3. CopyKept'
    BY <1>1, <1>2 DEF CopyKept, Has
  <1>4. CASE Tick
    <2>1. UNCHANGED leapClock
      BY <1>1, <1>4 DEF Tick, leapClock, leapVars
    <2>2. time_status' = time_status
      BY <1>4 DEF Tick
    <2>3. LeapMachine' /\ LeapStatus'
      BY <1>1, <2>1, <2>2, LeapStutter
    <2>4. Told(data'[best']) => Told(data[best])'
      BY <2>1, ToldLater
    <2>5. AnswerHeard'
      BY <1>1, <2>4 DEF AnswerHeard, Idle
    <2> QED BY <1>3, <2>3, <2>5 DEF LeapInv
  <1>5. CASE SecondOverflow
    <2>1. LeapStep(tv_sec + 1)
      BY <1>5 DEF SecondOverflow
    <2>2. /\ LeapMachine' /\ Elapsed' = Elapsed + 1
          /\ tv_sec' # tv_sec \/ time_state' # time_state
      BY <1>1, <1>2, <2>1, MachineNext
    <2>3. age' = age + 1
      BY <1>1, <2>2
    <2>4. LeapStatus'
      BY <1>1, <1>2, <2>2, <2>3, StatusNext
    <2>5. Told(data'[best']) => Told(data[best])'
      <3>1. /\ DueAt' = DueAt /\ Over' = Over /\ Begins' = Begins
            /\ leapKind' = leapKind
        BY <1>1 DEF DueAt, Over, Begins
      <3>2. /\ Elapsed \in Nat /\ Begins \in Nat /\ Over \in Nat
            /\ Elapsed >= Begins => Elapsed + 1 >= Begins
            /\ Elapsed >= Over => Elapsed + 1 >= Over
        BY <1>1, LeapTimes DEF LeapMachine
      <3>3. Polled' = Polled
        BY <1>1, <2>2, <2>3, <3>2 DEF Polled, LeapStatus
      <3> QED BY <2>2, <3>1, <3>2, <3>3 DEF Told
    <2>6. AnswerHeard'
      BY <1>1, <2>5 DEF AnswerHeard, Idle
    <2> QED BY <1>3, <2>2, <2>4, <2>6 DEF LeapInv
  <1> QED BY <1>4, <1>5 DEF ClockTicks, Hardclock

LEMMA LeapUntouched ==
    ASSUME LeapDue, LeapInv,
           UNCHANGED <<leapClock, time_status, dpc, ntv, apc, shots, retry,
                       data, best>>
    PROVE  LeapInv'
  <1>1. LeapMachine /\ LeapStatus /\ CopyKept /\ AnswerHeard
    BY DEF LeapInv
  <1>2. LeapMachine' /\ LeapStatus'
    BY <1>1, LeapStutter
  <1>3. CopyKept'
    BY <1>1, CopyStutter
  <1>4. Told(data'[best']) => Told(data[best])'
    BY ToldLater
  <1>5. AnswerHeard'
    BY <1>1, <1>4 DEF AnswerHeard, Idle
  <1> QED BY <1>2, <1>3, <1>5 DEF LeapInv

LEMMA NoSetting ==
    ASSUME SettingsLeft, CopyKept
    PROVE  ~rtemsNtpSetPollInterval
  BY DEF SettingsLeft, CopyKept, rtemsNtpSetPollInterval, SettingRead,
     SettingDecode, SettingWrite

LEMMA KindKept == [DaemonNext]_allvars => leapKind' = leapKind
  BY DEF DaemonNext, ntpDaemon, Read, Claim, Poll, ShotFails, ShotAnswered,
     AcceptFiltered, Update, Judge, Killed, rtemsNtpSetPollInterval,
     SettingRead, SettingDecode, SettingWrite, ClockTicks, Outage, allvars,
     dvars, server

LEMMA LeapNext ==
    ASSUME SettingsLeft, PollsOften, DaemonInv, LeapInv,
           [DaemonNext]_allvars
    PROVE  LeapInv'
  <1>1. CASE ~LeapDue
    BY <1>1, KindKept DEF LeapInv, LeapDue
  <1>2. CASE LeapDue
    <2>1. CASE Read \/ Claim \/ Poll \/ Killed
      BY <1>2, <2>1, DaemonReads
    <2>2. CASE ShotFails \/ ShotAnswered \/ AcceptFiltered \/ Update
      BY <1>2, <2>2, DaemonHears
    <2>3. CASE Judge
      BY <1>2, <2>3, DaemonJudges
    <2>4. CASE ClockTicks
      BY <1>2, <2>4, LeapTicks
    <2>5. CASE Outage \/ UNCHANGED allvars
      BY <1>2, <2>5, LeapUntouched
         DEF Outage, allvars, dvars, kvars, leapClock, timevar, leapVars,
             appVars, server, pollVars, answerVars
    <2>6. ~rtemsNtpSetPollInterval
      BY <1>2, NoSetting DEF LeapInv
    <2> QED
      BY <2>1, <2>2, <2>3, <2>4, <2>5, <2>6 DEF DaemonNext, ntpDaemon
  <1> QED BY <1>1, <1>2

LEMMA QuietNext ==
    ASSUME SettingsLeft, DaemonInv, QuietInv, [DaemonNext]_allvars
    PROVE  QuietInv'
  <1> SUFFICES ASSUME ~LeapDue PROVE QuietInv'
    BY KindKept DEF QuietInv, LeapDue
  <1> DEFINE quiet == /\ tv_sec \in 0 .. MaxSec
                      /\ time_state = "TIME_OK" /\ time_tai = 0
             off == Has("STA_PLL") /\ ~Has("STA_INS") /\ ~Has("STA_DEL")
             told == \A i \in {0, 1} : data[i].leap = "LEAP_NO"
  <1>1. quiet /\ off /\ CopyKept /\ told /\ leapKind = "LEAP_NO"
    BY DEF QuietInv
  <1>2. leapKind' = leapKind
    BY KindKept
  <1>3. ASSUME UNCHANGED <<tv_sec, time_state, time_tai>>,
               time_status' \cap DaemonBits = time_status \cap DaemonBits,
               CopyKept', told'
        PROVE  QuietInv'
    BY <1>1, <1>2, <1>3 DEF QuietInv, Has, DaemonBits
  <1>4. ASSUME NEW status, AdjTime(StatusRequest(status)),
               status \cap DaemonBits = {"STA_PLL"}
        PROVE  /\ time_status' \cap DaemonBits = time_status \cap DaemonBits
               /\ UNCHANGED <<tv_sec, time_state, time_tai>>
    <2>1. "STA_PLL" \in status
      BY <1>4
    <2>2. time_status' \cap DaemonBits = status \cap DaemonBits
      BY <1>4, <2>1, StatusRequested
    <2> QED BY <1>1, <1>4, <2>1, <2>2, StatusRequested DEF Has, DaemonBits
  <1>5. CASE Read \/ Poll
    <2>1. UNCHANGED <<tv_sec, time_state, time_tai, time_status, data, apc>>
      BY <1>5 DEF Read, Poll, kvars, timevar, leapVars, pollVars, answerVars,
         appVars
    <2>2. CopyKept'
      BY <1>1, <1>5, <2>1 DEF CopyKept, Read, Poll, Step
    <2> QED BY <1>1, <1>3, <2>1, <2>2
  <1>6. CASE Claim \/ Killed
    <2>1. PICK status \in {ntv \ {"STA_UNSYNC"}, ntv \cup {"STA_UNSYNC"}} :
                AdjTime(StatusRequest(status))
      BY <1>6 DEF Claim, Killed
    <2>2. status \cap DaemonBits = {"STA_PLL"}
      BY <1>1, <1>6 DEF CopyKept, Claim, Killed, Step, DaemonBits, Has
    <2>3. ntv' = time_status' /\ UNCHANGED <<data, apc>>
      BY <1>6 DEF Claim, Killed, pollVars, answerVars, appVars
    <2>4. CopyKept' /\ told'
      BY <1>1, <2>3 DEF CopyKept
    <2> QED BY <1>3, <1>4, <2>1, <2>2, <2>4
  <1>7. CASE ShotFails \/ AcceptFiltered
    <2>1. /\ UNCHANGED <<tv_sec, time_state, time_tai, time_status, data,
                         apc, ntv>>
          /\ dpc # "start"
      BY <1>7 DEF ShotFails, AcceptFiltered, kvars, timevar, leapVars,
         answerVars, appVars
    <2>2. CopyKept'
      BY <1>1, <2>1 DEF CopyKept
    <2> QED BY <1>1, <1>3, <2>1, <2>2
  <1>8. CASE ShotAnswered
    <2>1. /\ UNCHANGED <<tv_sec, time_state, time_tai, time_status, apc,
                         ntv>>
          /\ dpc # "start"
      BY <1>8 DEF ShotAnswered, kvars, timevar, leapVars, appVars
    <2>2. PICK answer \in Answers : KeepBest(answer)
      BY <1>8 DEF ShotAnswered
    <2>3. answer.leap = "LEAP_NO"
      BY <1>1 DEF Answers, Announced
    <2>4. told'
      BY <1>1, <2>2, <2>3 DEF KeepBest, DaemonInv, Slots
    <2>5. CopyKept'
      BY <1>1, <2>1 DEF CopyKept
    <2> QED BY <1>3, <2>1, <2>4, <2>5
  <1>9. CASE Update
    <2>1. PICK offset : Discipline(offset)
      BY <1>9 DEF Update
    <2>2. /\ UNCHANGED <<tv_sec, time_state, time_tai, data, apc, ntv>>
          /\ time_status' \cap DaemonBits = time_status \cap DaemonBits
          /\ dpc # "start"
      BY <1>9, <2>1, BitsDisciplined DEF Update, Step, pollVars, answerVars,
         appVars
    <2>3. CopyKept' /\ told'
      BY <1>1, <2>2 DEF CopyKept
    <2> QED BY <1>3, <2>2, <2>3
  <1>10. CASE Judge
    <2> DEFINE before == IF Failed THEN ntv ELSE LeapBits(ntv, data[best])
               status == IF CountFailures > MAX_FAILED_SYNCS
                         THEN before \cup {"STA_UNSYNC"}
                         ELSE before \ {"STA_UNSYNC"}
    <2>1. ntv \cap DaemonBits = {"STA_PLL"}
      BY <1>1, <1>10 DEF CopyKept, Judge, Step, DaemonBits, Has
    <2>2. data[best].leap = "LEAP_NO"
      BY <1>1 DEF DaemonInv, Slots
    <2>3. before \cap DaemonBits = {"STA_PLL"}
      BY <2>1, <2>2 DEF LeapBits, DaemonBits
    <2>4. status \cap DaemonBits = {"STA_PLL"}
      BY <2>3 DEF DaemonBits
    <2>5. AdjTime(StatusRequest(status))
      BY <1>10 DEF Judge
    <2>6. ntv' = time_status' /\ UNCHANGED <<data, apc>>
      BY <1>10 DEF Judge, answerVars, appVars
    <2>7. CopyKept' /\ told'
      BY <1>1, <2>6 DEF CopyKept
    <2> HIDE DEF status
    <2> QED BY <1>3, <1>4, <2>4, <2>5, <2>7
  <1>11. CASE ClockTicks
    <2>1. UNCHANGED <<dpc, ntv, apc, data>>
      BY <1>11 DEF ClockTicks, pollVars, answerVars, appVars
    <2>2. \A bit \in DaemonBits : Has(bit)' <=> Has(bit)
      BY <1>11, BitsTick DEF ClockTicks
    <2>3. time_status' \cap DaemonBits = time_status \cap DaemonBits
      BY <2>2 DEF Has
    <2>4. CopyKept' /\ told'
      BY <1>1, <2>1, <2>3 DEF CopyKept
    <2>5. CASE Tick
      BY <1>3, <2>3, <2>4, <2>5 DEF Tick, leapVars
    <2>6. CASE SecondOverflow
      <3>1. /\ time_state' = "TIME_OK" /\ time_tai' = 0
            /\ tv_sec' = tv_sec + 1 /\ tv_sec < MaxSec
        BY <1>1, <2>6 DEF SecondOverflow, LeapStep, NoWarning,
           WarningWithdrawn, WarningPending, InsertSecond, DeleteSecond,
           EndInsertion, WaitForBits
      <3>2. tv_sec' \in 0 .. MaxSec
        BY <1>1, <3>1, KtimeAssumption
      <3>3. off'
        BY <1>1, <2>2 DEF DaemonBits
      <3> QED BY <1>1, <1>2, <2>4, <3>1, <3>2, <3>3 DEF QuietInv
    <2> QED BY <1>11, <2>5, <2>6 DEF ClockTicks, Hardclock
  <1>12. CASE Outage \/ UNCHANGED allvars
    <2>1. UNCHANGED <<tv_sec, time_state, time_tai, time_status, data, apc,
                      ntv, dpc>>
      BY <1>12 DEF Outage, allvars, dvars, kvars, timevar, leapVars,
         pollVars, answerVars, appVars
    <2>2. CopyKept'
      BY <1>1, <2>1 DEF CopyKept
    <2> QED BY <1>1, <1>3, <2>1, <2>2
  <1>13. ~rtemsNtpSetPollInterval
    BY <1>1, NoSetting
  <1> QED
    BY <1>5, <1>6, <1>7, <1>8, <1>9, <1>10, <1>11, <1>12, <1>13
       DEF DaemonNext, ntpDaemon

LEMMA LeapStarts ==
    ASSUME StartsEarly, DaemonInit
    PROVE  LeapInv /\ QuietInv
  <1>1. /\ tv_sec \in Nat /\ tv_sec < Begins /\ tv_sec <= MaxSec
        /\ time_state = "TIME_OK" /\ time_tai = 0 /\ age = 0
        /\ Has("STA_PLL") /\ ~Has("STA_INS") /\ ~Has("STA_DEL")
        /\ dpc = "start" /\ apc = "idle" /\ shots = 0
        /\ \A i \in {0, 1} : data[i].leap = "LEAP_NO"
        /\ leapKind \in {"LEAP_INS", "LEAP_DEL", "LEAP_NO"}
    BY KtimeAssumption, DaemonAssumption
       DEF DaemonInit, StartsEarly, Has, NoAnswer
  <1>2. Elapsed = tv_sec /\ Polled = tv_sec
    BY <1>1 DEF Elapsed, Polled
  <1>3. CopyKept /\ AnswerHeard
    BY <1>1 DEF CopyKept, AnswerHeard, Idle
  <1>4. QuietInv
    BY <1>1, <1>3, KtimeAssumption DEF QuietInv, LeapDue
  <1>5. ASSUME LeapDue PROVE LeapMachine /\ LeapStatus
    <2>1. /\ Begins \in Nat /\ MaxAge \in Nat /\ DueAt \in Nat
          /\ DueAt - 1 > tv_sec /\ Over >= DueAt /\ Over \in Nat
      BY <1>1, <1>5, LeapTimes DEF LeapDue
    <2>2. LeapBit \in {"STA_INS", "STA_DEL"}
      BY DEF LeapBit
    <2>3. LeapMachine
      <3>1. /\ tv_sec < DueAt /\ tv_sec # DueAt - 1 /\ tv_sec < Over
            /\ ~(tv_sec > DueAt + 2 * MaxAge + 1)
            /\ ~(DueAt <= tv_sec) /\ ~(tv_sec >= Over)
        BY <1>1, <2>1
      <3>2. Warned # "TIME_OK"
        BY DEF Warned
      <3> QED BY <1>1, <1>2, <3>1, <3>2 DEF LeapMachine
    <2>4. LeapStatus
      BY <1>1, <1>2, <2>1, <2>2 DEF LeapStatus
    <2> QED BY <2>3, <2>4
  <1> QED BY <1>3, <1>4, <1>5 DEF LeapInv

(* The true time, and the clock's, in each of the phases.                  *)
LEMMA TimeShown ==
    ASSUME LeapInv, QuietInv
    PROVE  ShowsTrueTime
  <1>1. CASE ~LeapDue
    <2>1. /\ tv_sec \in Nat /\ tv_sec <= MaxSec /\ time_tai = 0
          /\ time_state = "TIME_OK" /\ leapKind = "LEAP_NO"
          /\ MaxSec \in Nat /\ DAY \in Nat /\ DAY >= 3
      BY <1>1, KtimeAssumption DEF QuietInv
    <2>2. Elapsed = tv_sec
      BY <2>1 DEF Elapsed
    <2>3. DueAt = MaxSec + DAY
      BY <2>1 DEF DueAt
    <2>4. Elapsed < DueAt
      BY <2>1, <2>2, <2>3
    <2> QED
      BY <2>1, <2>2, <2>4
         DEF ShowsTrueTime, UtcDay, UtcSecond, TrueDay, TrueSecond
  <1>2. CASE LeapDue
    <2> DEFINE e == Elapsed
    <2>1. /\ e \in Nat /\ tv_sec \in Nat /\ DueAt \in Nat /\ Over \in Nat
          /\ LeapDay \in Nat /\ Begins \in Nat /\ DAY \in Nat
          /\ DAY \in Nat \ {0} /\ Begins = LeapDay * DAY
          /\ leapKind = "LEAP_INS" => DueAt = Begins + DAY /\ Over = DueAt + 1
          /\ leapKind = "LEAP_DEL" => Over = DueAt
          /\ LeapMachine
      BY <1>2, LeapTimes DEF LeapInv, LeapMachine, Begins
    <2>2. CASE e < DueAt
      <3>1. time_tai = 0 /\ time_state # "TIME_OOP" /\ e = tv_sec
        BY <2>1, <2>2 DEF LeapMachine, Elapsed, Warned
      <3> QED
        BY <2>2, <3>1
           DEF ShowsTrueTime, UtcDay, UtcSecond, TrueDay, TrueSecond
    <2>3. CASE DueAt <= e /\ e < Over
      <3>1. /\ leapKind = "LEAP_INS" /\ e = DueAt
            /\ time_state = "TIME_OOP" /\ time_tai = 0
        BY <1>2, <2>1, <2>3 DEF LeapMachine, LeapDue
      <3>2. e = tv_sec + 1 + time_tai
        BY <3>1 DEF Elapsed
      <3> HIDE DEF e
      <3>3. LeapDay * DAY <= tv_sec /\ tv_sec < LeapDay * DAY + DAY
        BY <2>1, <3>1, <3>2
      <3>4. tv_sec \div DAY = LeapDay
        BY <2>1, <3>3, DayOf
      <3>5. ~(e < DueAt) /\ leapKind # "LEAP_DEL"
        BY <2>1, <3>1
      <3> QED
        BY <3>1, <3>4, <3>5
           DEF ShowsTrueTime, UtcDay, UtcSecond, TrueDay, TrueSecond, e
    <2>4. CASE e >= Over
      <3>1. /\ time_tai = Change /\ time_state # "TIME_OOP"
            /\ e = tv_sec + time_tai
        BY <2>1, <2>4 DEF LeapMachine, Elapsed, Change
      <3>2. ~(e < DueAt)
        BY <1>2, <2>1, <2>4 DEF LeapDue
      <3>3. CASE leapKind = "LEAP_INS"
        <4>1. tv_sec = e - 1 /\ e # DueAt
          BY <2>1, <2>4, <3>1, <3>3 DEF Change
        <4> QED
          BY <3>1, <3>2, <3>3, <4>1
             DEF ShowsTrueTime, UtcDay, UtcSecond, TrueDay, TrueSecond
      <3>4. CASE leapKind = "LEAP_DEL"
        <4>1. tv_sec = e + 1
          BY <2>1, <3>1, <3>4 DEF Change
        <4> QED
          BY <3>1, <3>2, <3>4, <4>1
             DEF ShowsTrueTime, UtcDay, UtcSecond, TrueDay, TrueSecond
      <3> QED BY <1>2, <3>3, <3>4 DEF LeapDue
    <2> QED BY <2>1, <2>2, <2>3, <2>4
  <1> QED BY <1>1, <1>2

LEMMA LeapInvHolds ==
    SettingsLeft /\ StartsEarly /\ PollsOften
        => (DaemonSpec => [](LeapInv /\ QuietInv))
  <1> SUFFICES ASSUME SettingsLeft /\ StartsEarly /\ PollsOften
               PROVE  DaemonSpec => [](LeapInv /\ QuietInv)
    OBVIOUS
  <1>1. DaemonInit => LeapInv /\ QuietInv
    BY LeapStarts
  <1>2. DaemonInv /\ LeapInv /\ QuietInv /\ [DaemonNext]_allvars
            => LeapInv' /\ QuietInv'
    BY LeapNext, QuietNext
  <1> QED BY <1>1, <1>2, DaemonInvHolds, PTL DEF DaemonSpec

(* Through whatever answers, outages and dropped answers, as long as polls *)
(* succeed within MaxAge seconds, at most half a day, the daemon's leap    *)
(* bits (rtemsdep.c:633-659) make the machine of second_overflow() insert  *)
(* or delete the leap second when it is due and at no other midnight, so   *)
(* that the clock shows the true day and second.                           *)
THEOREM ShowsTrueTimeHolds ==
    SettingsLeft /\ StartsEarly /\ PollsOften
        => (DaemonSpec => []ShowsTrueTime)
  <1> SUFFICES ASSUME SettingsLeft /\ StartsEarly /\ PollsOften
               PROVE  DaemonSpec => []ShowsTrueTime
    OBVIOUS
  <1>1. LeapInv /\ QuietInv => ShowsTrueTime
    BY TimeShown
  <1>2. DaemonSpec => [](LeapInv /\ QuietInv)
    BY LeapInvHolds
  <1> QED BY <1>1, <1>2, PTL

(* The daemon withdraws the leap bits once the leap is over, and the       *)
(* machine is ready for the next one within two polls of it.               *)
THEOREM RearmedAfterLeapHolds ==
    SettingsLeft /\ StartsEarly /\ PollsOften
        => (DaemonSpec => []RearmedAfterLeap)
  <1> SUFFICES ASSUME SettingsLeft /\ StartsEarly /\ PollsOften
               PROVE  DaemonSpec => []RearmedAfterLeap
    OBVIOUS
  <1>1. LeapInv /\ QuietInv => RearmedAfterLeap
    BY DEF LeapInv, LeapMachine, QuietInv, RearmedAfterLeap
  <1>2. DaemonSpec => [](LeapInv /\ QuietInv)
    BY LeapInvHolds
  <1> QED BY <1>1, <1>2, PTL

(***************************************************************************)
(* rtemsNtpSetPollInterval().  secs2tcld() finds the first power of two    *)
(* that is not below the request, and takes it or the one before it.       *)
(***************************************************************************)
FirstPower(r, units) ==
    /\ r \in 0 .. units
    /\ PowerOfTwo[r] >= units
    /\ \A q \in 0 .. r - 1 : PowerOfTwo[q] < units

LEMMA PowerAbove == \A n \in Nat : PowerOfTwo[n] >= n
  <1> DEFINE S == {n \in Nat : PowerOfTwo[n] >= n}
  <1>1. 0 \in S
    BY PowerStep
  <1>2. ASSUME NEW n \in Nat, n \in S PROVE n + 1 \in S
    <2>1. PowerOfTwo[n] \in Nat \ {0} /\ PowerOfTwo[n] >= n
      BY <1>2, PowerType
    <2>2. PowerOfTwo[n + 1] = 2 * PowerOfTwo[n]
      BY PowerStep
    <2> QED BY <2>1, <2>2
  <1> HIDE DEF S
  <1>3. Nat \subseteq S
    BY <1>1, <1>2, SetInduction
  <1> QED BY <1>3 DEF S

LEMMA FirstPowerExists ==
    ASSUME NEW units \in Nat
    PROVE  \E r \in 0 .. units : FirstPower(r, units)
  <1> DEFINE T == {r \in Nat : PowerOfTwo[r] >= units}
  <1>1. units \in T
    BY PowerAbove
  <1>2. PICK r \in T : \A q \in T : r <= q
    <2>1. T \subseteq Nat /\ T # {}
      BY <1>1
    <2> HIDE DEF T
    <2> QED BY <2>1, LeastNatural
  <1>3. r \in Nat /\ r <= units /\ PowerOfTwo[r] >= units
    BY <1>1, <1>2
  <1>4. ASSUME NEW q \in 0 .. r - 1 PROVE PowerOfTwo[q] < units
    <2>1. q \in Nat /\ q < r
      BY <1>3
    <2>2. q \notin T
      BY <1>2, <1>3, <2>1
    <2>3. PowerOfTwo[q] \in Nat
      BY <2>1, PowerType
    <2> QED BY <2>1, <2>2, <2>3
  <1> QED BY <1>3, <1>4 DEF FirstPower

(* How far an interval of PowerOfTwo[c] units is from the one asked for.   *)
Distance(units, c) ==
    IF PowerOfTwo[c] < units THEN units - PowerOfTwo[c]
    ELSE PowerOfTwo[c] - units

LEMMA NearestConstant ==
    ASSUME NEW units \in Nat \ {0}, NEW up \in Nat, FirstPower(up, units),
           NEW limit \in Nat, NEW chosen,
           chosen = IF up = 0 THEN 0
                    ELSE IF PowerOfTwo[up] - units < units - PowerOfTwo[up - 1]
                    THEN up ELSE up - 1,
           NEW c \in 0 .. limit
    PROVE  Distance(units, IF chosen > limit THEN limit ELSE chosen)
                <= Distance(units, c)
  <1>1. \A n \in Nat : PowerOfTwo[n] \in Nat \ {0}
    BY PowerType
  <1>2. c \in Nat /\ c <= limit /\ PowerOfTwo[c] \in Nat
    BY <1>1
  <1>3. CASE up = 0
    <2>1. PowerOfTwo[0] = 1 /\ units = 1 /\ chosen = 0
      BY <1>3, PowerStep DEF FirstPower
    <2>2. ~(chosen > limit)
      BY <2>1
    <2> QED BY <1>2, <2>1, <2>2 DEF Distance
  <1>4. CASE up > 0
    <2> DEFINE down == up - 1
    <2>1. down \in Nat /\ down < up /\ PowerOfTwo[down] < units
          /\ PowerOfTwo[up] >= units
          /\ PowerOfTwo[down] \in Nat /\ PowerOfTwo[up] \in Nat
      BY <1>1, <1>4 DEF FirstPower
    <2>2. chosen = IF PowerOfTwo[up] - units < units - PowerOfTwo[down]
                   THEN up ELSE down
      BY <1>4
    <2>3. \A n \in Nat : n < up => n <= down
      BY <1>4
    <2> HIDE DEF down
    <2>4. CASE chosen > limit
      <3>1. limit <= down
        BY <2>1, <2>2, <2>3, <2>4
      <3>2. PowerOfTwo[c] <= PowerOfTwo[limit]
            /\ PowerOfTwo[limit] <= PowerOfTwo[down]
        BY <1>2, <2>1, <3>1, PowerMono
      <3>3. PowerOfTwo[limit] \in Nat
        BY <1>1
      <3> QED BY <1>2, <2>1, <2>4, <3>2, <3>3 DEF Distance
    <2>5. CASE ~(chosen > limit)
      <3>1. CASE c <= down
        <4>1. PowerOfTwo[c] <= PowerOfTwo[down]
          BY <1>2, <2>1, <3>1, PowerMono
        <4> QED BY <1>2, <2>1, <2>2, <2>5, <4>1 DEF Distance
      <3>2. CASE c >= up
        <4>1. PowerOfTwo[up] <= PowerOfTwo[c]
          BY <1>2, <3>2, PowerMono
        <4> QED BY <1>2, <2>1, <2>2, <2>5, <4>1 DEF Distance
      <3> QED BY <1>2, <2>1, <2>3, <3>1, <3>2
    <2> QED BY <2>4, <2>5
  <1> QED BY <1>3, <1>4

(* rtemsNtpSetPollInterval() sets the constant whose interval is closest   *)
(* to the request within the range of constants: secs2tcld()               *)
(* (rtemsdep.c:161-174) for every request and every range.                 *)
THEOREM ClosestIntervalHolds == DaemonSpec => ClosestInterval
  <1>1. ASSUME NEW secs \in PollSeconds, SettingWrite(secs),
               NEW c \in 0 .. MAXTC
        PROVE  LET units == IF secs < 16 THEN 1 ELSE secs \div 16
               IN  Distance(units, time_constant') <= Distance(units, c)
    <2> DEFINE s == IF secs < 16 THEN 16 ELSE secs
               units == s \div 16
               r == [StatusRequest(app \cup {"STA_PLL"}) EXCEPT
                        !.modes = {"MOD_TIMECONST", "MOD_STATUS"},
                        !.constant = secs2tcld(s)]
               up == CHOOSE k \in 0 .. units :
                        /\ PowerOfTwo[k] >= units
                        /\ \A q \in 0 .. k - 1 : PowerOfTwo[q] < units
    <2>0. time_constant' = ConstantAfter(r)
      BY <1>1 DEF SettingWrite, AdjTime
    <2>1. secs \in Int
      BY DaemonAssumption
    <2>2. s \in Nat /\ s >= 16
      BY <2>1
    <2> HIDE DEF s
    <2>3. units \in Nat \ {0}
      BY <2>2
    <2>4. units = IF secs < 16 THEN 1 ELSE secs \div 16
      BY <2>1 DEF s
    <2>5. secs2tcld(s) = IF up = 0 THEN 0
                         ELSE IF PowerOfTwo[up] - units
                                    < units - PowerOfTwo[up - 1]
                         THEN up ELSE up - 1
      BY Zenon DEF secs2tcld
    <2> HIDE DEF units, up
    <2>6. up \in 0 .. units /\ FirstPower(up, units)
      BY <2>3, FirstPowerExists DEF up, FirstPower
    <2>7. up \in Nat
      BY <2>3, <2>6
    <2>8. r.modes = {"MOD_TIMECONST", "MOD_STATUS"}
          /\ r.constant = secs2tcld(s)
      BY DEF StatusRequest
    <2> HIDE DEF r
    <2> DEFINE chosen == secs2tcld(s)
    <2>10. chosen \in Nat
      BY <2>5, <2>7
    <2>11. time_constant' = IF chosen > MAXTC THEN MAXTC ELSE chosen
      <3>1. ~(chosen < 0)
        BY <2>10
      <3> HIDE DEF chosen
      <3> QED BY <2>0, <2>8, <3>1 DEF ConstantAfter, chosen
    <2>12. MAXTC \in Nat
      BY TimexAssumption
    <2> HIDE DEF chosen
    <2>13. Distance(units, IF chosen > MAXTC THEN MAXTC ELSE chosen)
                <= Distance(units, c)
      BY <2>3, <2>5, <2>6, <2>7, <2>12, NearestConstant DEF chosen
    <2> QED BY <2>4, <2>11, <2>13
  <1>2. [DaemonNext]_allvars =>
            [ \A secs \in PollSeconds : SettingWrite(secs) =>
                LET units == IF secs < 16 THEN 1 ELSE secs \div 16
                    distance(c) == IF PowerOfTwo[c] < units
                                   THEN units - PowerOfTwo[c]
                                   ELSE PowerOfTwo[c] - units
                IN  \A c \in 0 .. MAXTC :
                        distance(time_constant') <= distance(c) ]_allvars
    BY <1>1 DEF Distance
  <1> QED BY <1>2, PTL DEF DaemonSpec, ClosestInterval

(***************************************************************************)
(* The daemon and the application as callers of the kernel.  Every request *)
(* that they make up, from copies of the status word, answers of a server  *)
(* and an argument of any size, is one of struct timex, and between two of *)
(* their calls the kernel is left alone: what Ktime promises it promises to*)
(* a clock that is run by them.                                            *)
(***************************************************************************)
CallersInv ==
    /\ ntv \subseteq STA_BITS /\ app \subseteq STA_BITS
    /\ \A i \in {0, 1} : data[i].diff \in Int

LEMMA ConstantType ==
    ASSUME NEW secs \in Nat
    PROVE  secs2tcld(secs) \in Nat
  <1> DEFINE units == secs \div 16
             up == CHOOSE k \in 0 .. units :
                        /\ PowerOfTwo[k] >= units
                        /\ \A q \in 0 .. k - 1 : PowerOfTwo[q] < units
  <1>1. units \in Nat
    OBVIOUS
  <1>2. secs2tcld(secs) = IF up = 0 THEN 0
                          ELSE IF PowerOfTwo[up] - units
                                     < units - PowerOfTwo[up - 1]
                          THEN up ELSE up - 1
    BY Zenon DEF secs2tcld
  <1> HIDE DEF units
  <1>3. up \in 0 .. units
    BY <1>1, FirstPowerExists DEF FirstPower
  <1> HIDE DEF up
  <1> QED BY <1>1, <1>2, <1>3

LEMMA StatusRequestType ==
    ASSUME NEW status \in SUBSET STA_BITS
    PROVE  StatusRequest(status) \in TimexRequest
  BY DEF StatusRequest, TimexRequest, MODES

LEMMA SettingCalls ==
    ASSUME NEW secs \in PollSeconds, CallersInv, SettingWrite(secs)
    PROVE  \E r \in TimexRequest : AdjTime(r)
  <1> DEFINE s == IF secs < 16 THEN 16 ELSE secs
             t == StatusRequest(app \cup {"STA_PLL"})
             c == secs2tcld(s)
             r == [t EXCEPT !.modes = {"MOD_TIMECONST", "MOD_STATUS"},
                            !.constant = c]
  <1>1. s \in Nat
    BY DaemonAssumption
  <1>2. c \in Int
    BY <1>1, ConstantType
  <1>3. t \in TimexRequest
    BY StatusRequestType DEF CallersInv, STA_BITS
  <1>4. AdjTime(r)
    BY DEF SettingWrite
  <1> HIDE DEF c, t
  <1>5. r \in TimexRequest
    BY <1>2, <1>3 DEF TimexRequest, MODES
  <1> QED BY <1>4, <1>5

LEMMA JudgeCalls ==
    ASSUME CallersInv, Judge
    PROVE  \E r \in TimexRequest : AdjTime(r)
  <1> DEFINE status == IF Failed THEN ntv ELSE LeapBits(ntv, data[best])
  <1>1. status \in SUBSET STA_BITS
    <2>1. \A answer : LeapBits(ntv, answer) \in SUBSET STA_BITS
      BY DEF LeapBits, CallersInv, STA_BITS
    <2> QED BY <2>1 DEF CallersInv
  <1>2. \/ AdjTime(StatusRequest(status \cup {"STA_UNSYNC"}))
        \/ AdjTime(StatusRequest(status \ {"STA_UNSYNC"}))
    BY Zenon DEF Judge
  <1> HIDE DEF status
  <1>3. /\ status \cup {"STA_UNSYNC"} \in SUBSET STA_BITS
        /\ status \ {"STA_UNSYNC"} \in SUBSET STA_BITS
    BY <1>1 DEF STA_BITS
  <1> QED BY <1>2, <1>3, StatusRequestType

LEMMA UpdateCalls ==
    ASSUME DaemonInv, CallersInv, Update
    PROVE  \E offset \in Int : Discipline(offset)
  <1>1. data[best].diff \in Int
    BY DEF DaemonInv, Slots, CallersInv
  <1>2. Clamp(data[best].diff, MAXPHASE) \in Int
    BY <1>1, TimexAssumption DEF Clamp
  <1> QED BY <1>2 DEF Update

(* Each step of the composition is a call of the kernel, or none.          *)
LEMMA DaemonCalls ==
    ASSUME DaemonInv, CallersInv, [DaemonNext]_allvars
    PROVE  [AnyCall]_kvars
  <1>1. CASE \/ Read \/ Poll \/ ShotFails \/ ShotAnswered \/ AcceptFiltered
             \/ SettingRead \/ SettingDecode \/ Outage
    BY <1>1 DEF Read, Poll, ShotFails, ShotAnswered, AcceptFiltered,
       SettingRead, SettingDecode, Outage
  <1>2. CASE Claim
    <2>1. ntv \ {"STA_UNSYNC"} \in SUBSET STA_BITS
      BY DEF CallersInv
    <2> QED BY <1>2, <2>1, StatusRequestType DEF Claim, AnyCall
  <1>3. CASE Killed
    <2>1. ntv \cup {"STA_UNSYNC"} \in SUBSET STA_BITS
      BY DEF CallersInv, STA_BITS
    <2> QED BY <1>3, <2>1, StatusRequestType DEF Killed, AnyCall
  <1>4. CASE Update
    BY <1>4, UpdateCalls DEF AnyCall
  <1>5. CASE Judge
    BY <1>5, JudgeCalls DEF AnyCall
  <1>6. CASE \E secs \in PollSeconds : SettingWrite(secs)
    BY <1>6, SettingCalls DEF AnyCall
  <1>7. CASE ClockTicks
    BY <1>7 DEF ClockTicks, Hardclock, AnyCall
  <1>8. CASE UNCHANGED allvars
    BY <1>8 DEF allvars
  <1> QED
    BY <1>1, <1>2, <1>3, <1>4, <1>5, <1>6, <1>7, <1>8
       DEF DaemonNext, ntpDaemon, rtemsNtpSetPollInterval

LEMMA CallersStep ==
    ASSUME DaemonInv, CallersInv, Inv, Inv', [DaemonNext]_allvars
    PROVE  CallersInv'
  <1>0. time_status \subseteq STA_BITS /\ time_status' \subseteq STA_BITS
    BY DEF Inv, TypeOK
  <1>1. CASE Read \/ Claim \/ Judge \/ Killed
    <2>1. /\ ntv' \in {time_status, time_status'}
          /\ UNCHANGED <<app, data>>
      BY <1>1 DEF Read, Claim, Judge, Killed, pollVars, answerVars, appVars
    <2> QED BY <1>0, <2>1 DEF CallersInv
  <1>2. CASE SettingRead
    <2>1. app' = time_status /\ UNCHANGED <<ntv, data>>
      BY <1>2 DEF SettingRead, pollVars, answerVars
    <2> QED BY <1>0, <2>1 DEF CallersInv
  <1>3. CASE ShotAnswered
    <2>1. PICK answer \in Answers : KeepBest(answer)
      BY <1>3 DEF ShotAnswered
    <2>2. answer.diff \in Int
      BY KtimeAssumption DEF Answers
    <2>3. data' = [data EXCEPT ![try] = answer]
      BY <2>1 DEF KeepBest
    <2>4. \A i \in {0, 1} : data'[i] \in {data[i], answer}
      BY <2>3 DEF DaemonInv, Slots
    <2>5. UNCHANGED <<ntv, app>>
      BY <1>3 DEF ShotAnswered, appVars
    <2> QED BY <2>2, <2>4, <2>5 DEF CallersInv
  <1>4. CASE \/ Poll \/ ShotFails \/ AcceptFiltered \/ Update
             \/ SettingDecode \/ (\E secs \in PollSeconds : SettingWrite(secs))
             \/ ClockTicks \/ Outage \/ UNCHANGED allvars
    <2>1. UNCHANGED <<ntv, app, data>>
      BY <1>4 DEF Poll, ShotFails, AcceptFiltered, Update, SettingDecode,
         SettingWrite, ClockTicks, Outage, allvars, dvars, pollVars,
         answerVars, appVars
    <2> QED BY <2>1 DEF CallersInv
  <1> QED
    BY <1>1, <1>2, <1>3, <1>4
       DEF DaemonNext, ntpDaemon, rtemsNtpSetPollInterval

(* rtemsNtpInitialize() leaves the kernel in a state that it could be in.  *)
LEMMA DaemonStarts ==
    ASSUME DaemonInit
    PROVE  Inv /\ CallersInv /\ Utc!Init /\ Settling /\ UpdatesSpaced
  <1>1. time_constant \in 0 .. MAXTC
    <2>1. secs2tcld(64) \in Nat /\ MAXTC \in Nat
      BY ConstantType, TimexAssumption
    <2>2. Clamp(secs2tcld(64), MAXTC) \in 0 .. MAXTC
      BY <2>1 DEF Clamp
    <2> QED BY <2>2 DEF DaemonInit
  <1>2. time_status \in SUBSET STA_BITS /\ NoSignal
    BY DEF DaemonInit, STA_BITS, STA_RONLY, NoSignal
  <1>3. Inv
    BY <1>1, <1>2, StartInv DEF DaemonInit
  <1>4. Utc!Init
    BY UtcInit DEF DaemonInit
  <1>5. Settling
    BY <1>2, <1>3, SettlingInit DEF DaemonInit
  <1>6. UpdatesSpaced
    BY <1>2, SpacedInit DEF DaemonInit, NoSignal
  <1>7. CallersInv
    BY DEF DaemonInit, CallersInv, NoAnswer
  <1> QED BY <1>3, <1>4, <1>5, <1>6, <1>7

LEMMA DaemonRunsKernel ==
    DaemonSpec => /\ Inv /\ Utc!Init /\ Settling /\ UpdatesSpaced
                  /\ [][AnyCall]_kvars
  <1>1. DaemonInit => Inv /\ CallersInv /\ Utc!Init /\ Settling
                          /\ UpdatesSpaced
    BY DaemonStarts
  <1>2. DaemonInv /\ CallersInv /\ [DaemonNext]_allvars => [AnyCall]_kvars
    BY DaemonCalls
  <1>3. Inv /\ [AnyCall]_kvars => Inv'
    BY CallInv
  <1>4. DaemonInv /\ CallersInv /\ Inv /\ Inv' /\ [DaemonNext]_allvars
            => CallersInv'
    BY CallersStep
  <1> QED BY <1>1, <1>2, <1>3, <1>4, DaemonInvHolds, PTL DEF DaemonSpec

(* Run by the daemon and the application, the clock stays within the       *)
(* invariant of the kernel: whatever a server answers and whatever interval*)
(* is asked for, the phase and the frequency stay in their envelope and    *)
(* the clock runs forward (rtemsdep.c:539-675 over ktime.c).               *)
THEOREM DaemonKeepsInv == DaemonSpec => [](Inv /\ Envelope)
  <1>1. Settling => Envelope
    BY DEF Settling
  <1> QED BY <1>1, DaemonRunsKernel, CallsKeepEnvelope, PTL

(* Run by the daemon and the application, the clock implements the UTC     *)
(* clock of UtcClock: the leap bits that the daemon writes, rewrites and   *)
(* withdraws from its own copy of the status word never make it leave a    *)
(* leap second out, make one twice, or lose count of TAI.                  *)
THEOREM DaemonRefinesUtc == DaemonSpec => RefinesUtc
  BY DaemonRunsKernel, CallsKeepUtc, PTL

(* No answer of a server and no setting of the application sets the clock  *)
(* back, opens a gap in TAI, or makes an offset overshoot: once the clock  *)
(* is set, rtemsdep.c steers it by hardupdate() and ntp_adjtime() alone.   *)
THEOREM DaemonKeepsTime ==
    DaemonSpec => ForwardOutsideLeap /\ TaiContinuous /\ NoOvershoot
  BY DaemonRunsKernel, CallsKeepForward, CallsKeepTai, CallsKeepOffset, PTL

(* With the intervals that the daemon polls at, its updates settle, and    *)
(* none is left over by an outage: an offset loaded before one is amortized*)
(* while nobody answers.                                                   *)
THEOREM DaemonSettles == DaemonSpec => []OffsetSettles
  BY DaemonRunsKernel, CallsSettle, PTL

(* No offset that is measured steers the frequency away from it, after     *)
(* outages as long as the integral gain of the PLL fits an l_fp, whatever  *)
(* constants the application sets in between.                              *)
THEOREM DaemonSteers ==
    ASSUME NEW interval \in Nat, NoWrap(interval), IntervalsWithin(interval)
    PROVE  DaemonSpec => SteersTowardOffset
  BY DaemonRunsKernel, CallsSteer, PTL
=============================================================================
