---------------------------- MODULE KtimeProofs ----------------------------
(***************************************************************************)
(* Proofs about Ktime, for every value of its constants.                   *)
(***************************************************************************)
EXTENDS Ktime, PowersProofs

(***************************************************************************)
(* Arithmetic of C division and of the fixed-point macros.                 *)
(***************************************************************************)

LEMMA DivExact ==
    ASSUME NEW a \in Nat, NEW d \in Nat \ {0}
    PROVE  (a * d) \div d = a
  OBVIOUS

(* Truncating division never grows a number and never reverses its sign.   *)
LEMMA CDivShrinks ==
    ASSUME NEW a \in Int, NEW d \in Nat \ {0}
    PROVE  /\ CDiv(a, d) \in Int
           /\ a >= 0 => CDiv(a, d) \in 0 .. a
           /\ a <= 0 => CDiv(a, d) \in a .. 0
  <1>1. \A n \in Nat : n \div d \in 0 .. n
    <2> SUFFICES ASSUME NEW n \in Nat PROVE n \div d \in 0 .. n
      OBVIOUS
    <2>1. n \div d \in Nat /\ d * (n \div d) <= n
      BY DivNat
    <2>2. 1 * (n \div d) <= d * (n \div d)
      BY <2>1
    <2> QED BY <2>1, <2>2
  <1>2. CASE a >= 0
    BY <1>1, <1>2 DEF CDiv
  <1>3. CASE a < 0
    <2>1. (-a) \div d \in 0 .. -a
      BY <1>1, <1>3
    <2> QED BY <2>1, <1>3 DEF CDiv
  <1> QED BY <1>2, <1>3

LEMMA FracType == FRAC \in Nat \ {0}
  BY TimexAssumption

LEMMA LintType ==
    ASSUME NEW a \in Int
    PROVE  L_LINT(a) \in Int
  BY FracType DEF L_LINT

(* The integral part of a loaded integer is that integer.                  *)
LEMMA GintLint ==
    ASSUME NEW a \in Int
    PROVE  L_GINT(L_LINT(a)) = a
  <1>1. CASE a >= 0
    <2>1. a * FRAC >= 0 /\ (a * FRAC) \div FRAC = a
      BY <1>1, DivExact, FracType
    <2> QED BY <2>1 DEF L_GINT, L_LINT, CDiv
  <1>2. CASE a < 0
    <2>1. a * FRAC < 0 /\ -(a * FRAC) = (-a) * FRAC
      BY <1>2, FracType
    <2>2. ((-a) * FRAC) \div FRAC = -a
      BY <1>2, DivExact, FracType
    <2>3. (-(a * FRAC)) \div FRAC = -a
      BY <2>1, <2>2
    <2>4. a * FRAC \in Int /\ ~(a * FRAC >= 0)
      BY <2>1, FracType
    <2>5. CDiv(a * FRAC, FRAC) = -((-(a * FRAC)) \div FRAC)
      BY <2>4, Zenon DEF CDiv
    <2>6. CDiv(a * FRAC, FRAC) = a
      BY <2>3, <2>5
    <2> QED BY <2>6 DEF L_GINT, L_LINT
  <1> QED BY <1>1, <1>2

(* A value is less than one away from its integral part.                   *)
LEMMA GintSplit ==
    ASSUME NEW v \in Int
    PROVE  /\ L_GINT(v) \in Int
           /\ v >= 0 => /\ L_GINT(v) >= 0
                        /\ FRAC * L_GINT(v) <= v
                        /\ v < FRAC * L_GINT(v) + FRAC
           /\ v < 0 => -v < FRAC * (-L_GINT(v)) + FRAC
  <1>1. CASE v >= 0
    <2>1. L_GINT(v) = v \div FRAC
      BY <1>1 DEF L_GINT, CDiv
    <2> QED BY <1>1, <2>1, DivNat, FracType
  <1>2. CASE ~(v >= 0)
    <2>1. L_GINT(v) = -((-v) \div FRAC)
      BY <1>2, Zenon DEF L_GINT, CDiv
    <2>2. /\ (-v) \div FRAC \in Nat
          /\ -v < FRAC * ((-v) \div FRAC) + FRAC
      BY <1>2, DivNat, FracType
    <2>3. -L_GINT(v) = (-v) \div FRAC
      BY <2>1, <2>2
    <2> QED BY <1>2, <2>1, <2>2, <2>3
  <1> QED BY <1>1, <1>2

(* A value whose integral part is within a limit is less than one beyond.  *)
LEMMA GintBound ==
    ASSUME NEW v \in Int, NEW limit \in Nat,
           L_GINT(v) \in -limit .. limit
    PROVE  /\ v < L_LINT(limit + 1)
           /\ -v < L_LINT(limit + 1)
  <1> DEFINE g == L_GINT(v)
  <1>1. /\ g \in Int
        /\ v >= 0 => v < FRAC * g + FRAC
        /\ v < 0 => -v < FRAC * (-g) + FRAC
    BY GintSplit
  <1>2. /\ FRAC * g <= FRAC * limit
        /\ FRAC * (-g) <= FRAC * limit
        /\ 0 <= FRAC * limit
    BY <1>1, FracType
  <1>3. L_LINT(limit + 1) = FRAC * limit + FRAC /\ FRAC * limit \in Int
    BY FracType DEF L_LINT
  <1> HIDE DEF g
  <1>4. FRAC * g \in Int /\ FRAC * (-g) \in Int
    BY <1>1, FracType
  <1>5. CASE v >= 0
    BY <1>1, <1>2, <1>3, <1>4, <1>5, FracType
  <1>6. CASE v < 0
    BY <1>1, <1>2, <1>3, <1>4, <1>6, FracType
  <1> QED BY <1>5, <1>6

LEMMA ShiftShrinks ==
    ASSUME NEW v \in Int, NEW n \in Nat
    PROVE  /\ L_RSHIFT(v, n) \in Int
           /\ v >= 0 => L_RSHIFT(v, n) \in 0 .. v
           /\ v <= 0 => L_RSHIFT(v, n) \in v .. 0
  BY CDivShrinks, PowerType DEF L_RSHIFT

LEMMA WrapType ==
    ASSUME NEW x \in Int
    PROVE  WrapFp(x) \in Int /\ WrapLong(x) \in Int
  <1>1. 2 * LONG_HALF * FRAC \in Nat \ {0} /\ 2 * LONG_HALF \in Nat \ {0}
    BY TimexAssumption
  <1>2. \A a \in Int, d \in Nat \ {0} : a % d \in Int
    OBVIOUS
  <1>3. LONG_HALF * FRAC \in Int
    BY TimexAssumption
  <1> QED BY <1>1, <1>2, <1>3, TimexAssumption DEF WrapFp, WrapLong

LEMMA ClampType ==
    ASSUME NEW x \in Int, NEW limit \in Nat
    PROVE  Clamp(x, limit) \in -limit .. limit
  BY DEF Clamp

(***************************************************************************)
(* The tick: what ntp_tick_adjust() adds to the clock.                     *)
(***************************************************************************)

(* A tick adds between nothing and a second, and what it leaves in         *)
(* time_phase is less than a nanosecond per tick.                          *)
LEMMA TickBounds ==
    ASSUME TypeOK, ResidueBounded, RunsForward
    PROVE  /\ TickUpdate \in 0 .. NANOSECOND
           /\ time_phase + time_adj - L_LINT(TickUpdate * hz) \in Int
           /\ 0 <= time_phase + time_adj - L_LINT(TickUpdate * hz)
           /\ time_phase + time_adj - L_LINT(TickUpdate * hz) < L_LINT(hz)
  <1> DEFINE p == time_phase + time_adj
             g == p \div FRAC
             u == g \div hz
  <1>1. p \in Nat /\ p < FRAC * (hz + 2 * NANOSECOND)
    <2>1. p \in Nat /\ p < L_LINT(hz) + 2 * L_LINT(NANOSECOND)
      BY TimexAssumption, KtimeAssumption
      DEF TypeOK, ResidueBounded, RunsForward, L_LINT
    <2>2. L_LINT(hz) + 2 * L_LINT(NANOSECOND) = FRAC * (hz + 2 * NANOSECOND)
      BY TimexAssumption, KtimeAssumption DEF L_LINT
    <2> QED BY <2>1, <2>2
  <1>2. g \in Nat /\ FRAC * g <= p /\ p < FRAC * g + FRAC
    BY <1>1, DivNat, FracType
  <1>3. u \in Nat /\ hz * u <= g /\ g < hz * u + hz
    <2>1. g \in Nat
      BY <1>2
    <2>2. hz \in Nat \ {0}
      BY KtimeAssumption
    <2> HIDE DEF g
    <2> QED BY <2>1, <2>2, DivNat
  <1>4. g < hz + 2 * NANOSECOND
    <2>1. g * FRAC < (hz + 2 * NANOSECOND) * FRAC
      BY <1>1, <1>2, TimexAssumption, KtimeAssumption
    <2> QED BY <1>2, <2>1, MulCancel, TimexAssumption, KtimeAssumption
  <1>5. u <= NANOSECOND
    <2> SUFFICES ASSUME u >= NANOSECOND + 1 PROVE FALSE
      BY <1>3, TimexAssumption
    <2>1. (NANOSECOND + 1) * hz <= u * hz
      BY <1>3, MulMono, TimexAssumption, KtimeAssumption
    <2>2. 2 * NANOSECOND <= hz * NANOSECOND
      BY MulMono, TimexAssumption, KtimeAssumption
    <2>3. (NANOSECOND + 1) * hz = hz * NANOSECOND + hz
      BY TimexAssumption, KtimeAssumption
    <2>4. u * hz = hz * u /\ hz * u \in Int /\ hz * NANOSECOND \in Int
      BY <1>3, TimexAssumption, KtimeAssumption
    <2> HIDE DEF u, g
    <2> QED BY <1>2, <1>3, <1>4, <2>1, <2>2, <2>3, <2>4,
               TimexAssumption, KtimeAssumption
  <1>6. TickUpdate = u
    <2>1. L_GINT(p) = g
      <3>1. p >= 0
        BY <1>1
      <3> HIDE DEF p
      <3> QED BY <3>1, Zenon DEF L_GINT, CDiv, g
    <2>2. CDiv(g, hz) = u
      <3>1. g >= 0
        BY <1>2
      <3> HIDE DEF g
      <3> QED BY <3>1, Zenon DEF CDiv, u
    <2> QED BY <2>1, <2>2 DEF TickUpdate
  <1>7. L_LINT(u * hz) = FRAC * (hz * u) /\ L_LINT(hz) = FRAC * hz
    <2> HIDE DEF u
    <2>1. \A a, b, c \in Int : (a * b) * c = c * (b * a) /\ b * c = c * b
      OBVIOUS
    <2> QED BY <1>3, <2>1, TimexAssumption, KtimeAssumption DEF L_LINT
  <1>8. FRAC * (hz * u) <= FRAC * g
    BY <1>2, <1>3, TimexAssumption, KtimeAssumption
  <1>9. FRAC * g + FRAC <= FRAC * (hz * u) + FRAC * hz
    <2>1. g + 1 <= hz * u + hz
      BY <1>2, <1>3, KtimeAssumption
    <2>2. (g + 1) * FRAC <= (hz * u + hz) * FRAC
      BY <1>2, <1>3, <2>1, MulMono, FracType, KtimeAssumption
    <2> QED BY <1>2, <1>3, <2>2, FracType, KtimeAssumption
  <1>10. {FRAC * g, FRAC * (hz * u), FRAC * hz} \subseteq Int
    BY <1>2, <1>3, FracType, KtimeAssumption
  <1> HIDE DEF p, g, u
  <1>11. \A a, b, c, d, e \in Int :
            b <= a /\ a < b + e /\ c <= b /\ b + e <= c + d
                => a - c \in Int /\ 0 <= a - c /\ a - c < d
    OBVIOUS
  <1>12. /\ p - FRAC * (hz * u) \in Int
         /\ 0 <= p - FRAC * (hz * u)
         /\ p - FRAC * (hz * u) < FRAC * hz
    <2>1. p \in Int /\ FRAC \in Int
      BY <1>1, FracType
    <2> QED BY <1>2, <1>8, <1>9, <1>10, <1>11, <2>1
  <1>13. time_phase + time_adj = p
    BY DEF p
  <1>14. u \in 0 .. NANOSECOND
    BY <1>3, <1>5, TimexAssumption
  <1>15. /\ time_phase + time_adj - L_LINT(TickUpdate * hz)
                = p - FRAC * (hz * u)
         /\ L_LINT(hz) = FRAC * hz
    <2>1. L_LINT(TickUpdate * hz) = FRAC * (hz * u)
      BY <1>6, <1>7, Zenon
    <2>2. {time_phase, time_adj, p, FRAC * (hz * u)} \subseteq Int
      BY <1>1, <1>10 DEF TypeOK
    <2> HIDE DEF TickUpdate
    <2> QED BY <1>7, <1>13, <2>1, <2>2
  <1> QED BY <1>6, <1>12, <1>14, <1>15, Zenon

(***************************************************************************)
(* Updates: what hardupdate() returns.                                     *)
(***************************************************************************)

(* A frequency that is loaded or clamped is within the envelope.           *)
LEMMA LoadedFreq ==
    ASSUME NEW f \in -MAXFREQ .. MAXFREQ
    PROVE  L_LINT(f) \in Int /\ L_GINT(L_LINT(f)) \in -MAXFREQ .. MAXFREQ
  BY GintLint, LintType, TimexAssumption

LEMMA LoadedPhase ==
    ASSUME NEW m \in -MAXPHASE .. MAXPHASE
    PROVE  L_LINT(m) \in L_LINT(-MAXPHASE) .. L_LINT(MAXPHASE)
  BY MulMono, FracType, LintType, TimexAssumption DEF L_LINT

LEMMA NewFreqType ==
    ASSUME TypeOK,
           NEW status \in SUBSET STA_BITS, NEW constant \in 0 .. MAXTC,
           NEW monitor \in Int, NEW mtemp \in Int
    PROVE  /\ NewFreq(status, constant, monitor, mtemp) \in Int
           /\ L_GINT(NewFreq(status, constant, monitor, mtemp))
                    \in -MAXFREQ .. MAXFREQ
  <1>1. time_freq \in Int
    BY DEF TypeOK
  <1>2. PllTerm(monitor, constant, mtemp) \in Int
    <2>1. 2 * (SHIFT_PLL + 2 + constant) \in Nat
      BY TimexAssumption, KtimeAssumption
    <2>2. L_RSHIFT(L_LINT(monitor), 2 * (SHIFT_PLL + 2 + constant)) \in Int
      BY <2>1, ShiftShrinks, LintType
    <2>3. L_RSHIFT(L_LINT(monitor), 2 * (SHIFT_PLL + 2 + constant)) * mtemp
            \in Int
      BY <2>2
    <2> QED BY <2>3, WrapType DEF PllTerm
  <1> DEFINE pll == WrapFp(time_freq + PllTerm(monitor, constant, mtemp))
  <1>3. pll \in Int
    BY <1>1, <1>2, WrapType
  <1>4. UsesFll(status, mtemp) => FllTerm(monitor, mtemp) \in Int
    <2> SUFFICES ASSUME UsesFll(status, mtemp)
                 PROVE  FllTerm(monitor, mtemp) \in Int
      OBVIOUS
    <2>1. mtemp \in Nat \ {0}
      BY TimexAssumption DEF UsesFll
    <2>2. CDiv(WrapLong(monitor * 16), mtemp) \in Int
      BY <2>1, CDivShrinks, WrapType
    <2>3. SHIFT_FLL + 4 \in Nat
      BY TimexAssumption, KtimeAssumption
    <2> QED BY <2>2, <2>3, LintType, ShiftShrinks DEF FllTerm
  <1> HIDE DEF pll
  <1> DEFINE sum == IF UsesFll(status, mtemp)
                    THEN WrapFp(pll + FllTerm(monitor, mtemp)) ELSE pll
  <1>5. sum \in Int
    BY <1>3, <1>4, WrapType
  <1>6. NewFreq(status, constant, monitor, mtemp) =
            IF L_GINT(sum) > MAXFREQ THEN L_LINT(MAXFREQ)
            ELSE IF L_GINT(sum) < -MAXFREQ THEN L_LINT(-MAXFREQ)
            ELSE sum
    BY Zenon DEF NewFreq, pll
  <1> HIDE DEF sum
  <1>7. L_GINT(sum) \in Int
    BY <1>5, GintSplit
  <1>8. MAXFREQ \in -MAXFREQ .. MAXFREQ /\ -MAXFREQ \in -MAXFREQ .. MAXFREQ
    BY TimexAssumption
  <1>9. /\ L_LINT(MAXFREQ) \in Int /\ L_LINT(-MAXFREQ) \in Int
        /\ L_GINT(L_LINT(MAXFREQ)) \in -MAXFREQ .. MAXFREQ
        /\ L_GINT(L_LINT(-MAXFREQ)) \in -MAXFREQ .. MAXFREQ
    BY <1>8, LoadedFreq
  <1>10. CASE L_GINT(sum) > MAXFREQ
    BY <1>6, <1>9, <1>10
  <1>11. CASE ~(L_GINT(sum) > MAXFREQ) /\ L_GINT(sum) < -MAXFREQ
    BY <1>6, <1>9, <1>11
  <1>12. CASE ~(L_GINT(sum) > MAXFREQ) /\ ~(L_GINT(sum) < -MAXFREQ)
    <2>1. NewFreq(status, constant, monitor, mtemp) = sum
      BY <1>6, <1>12
    <2>2. L_GINT(sum) \in -MAXFREQ .. MAXFREQ
      BY <1>7, <1>12, TimexAssumption
    <2> QED BY <1>5, <2>1, <2>2
  <1> QED BY <1>10, <1>11, <1>12

(* The pending offset's reach, and the part of it that a second takes.     *)
LEMMA ReachType ==
    /\ PhaseReach \in Nat
    /\ {L_LINT(MAXPHASE), L_LINT(PhaseReach)} \subseteq Nat
    /\ L_LINT(-MAXPHASE) = -L_LINT(MAXPHASE)
    /\ L_LINT(-PhaseReach) = -L_LINT(PhaseReach)
    /\ L_LINT(MAXPHASE) <= L_LINT(PhaseReach)
    /\ L_LINT(PhaseReach) <= 2 * L_LINT(MAXPHASE)
    /\ ~PPS_SYNC => L_LINT(PhaseReach) = L_LINT(MAXPHASE)
    /\ PPS_SYNC => L_LINT(PhaseReach) = 2 * L_LINT(MAXPHASE)
  <1>1. MAXPHASE \in Nat /\ FRAC \in Nat \ {0} /\ PPS_SYNC \in BOOLEAN
    BY TimexAssumption, KtimeAssumption
  <1>2. \A x \in Nat : /\ x * FRAC \in Nat /\ (-x) * FRAC = -(x * FRAC)
                       /\ (2 * x) * FRAC = 2 * (x * FRAC)
    BY <1>1
  <1>3. CASE PPS_SYNC
    <2>1. PhaseReach = 2 * MAXPHASE
      BY <1>3 DEF PhaseReach
    <2> QED BY <1>1, <1>2, <1>3, <2>1 DEF L_LINT
  <1>4. CASE ~PPS_SYNC
    <2>1. PhaseReach = MAXPHASE
      BY <1>4 DEF PhaseReach
    <2> QED BY <1>1, <1>2, <1>4, <2>1 DEF L_LINT
  <1> QED BY <1>1, <1>3, <1>4

LEMMA HalfShift ==
    ASSUME NEW v \in Nat, NEW n \in Nat, n > 0
    PROVE  2 * (v \div PowerOfTwo[n]) <= v
  <1> DEFINE d == PowerOfTwo[n]
             q == v \div d
  <1>1. d \in Nat /\ d >= 2
    <2>1. n - 1 \in Nat /\ (n - 1) + 1 = n
      OBVIOUS
    <2>2. PowerOfTwo[n - 1] \in Nat \ {0} /\ d = 2 * PowerOfTwo[n - 1]
      BY <2>1, PowerType, PowerStep
    <2> QED BY <2>2
  <1> HIDE DEF d
  <1>2. q \in Nat /\ d * q <= v
    BY <1>1, DivNat
  <1> HIDE DEF q
  <1>3. 2 * q <= d * q
    BY <1>1, <1>2
  <1>4. d * q \in Nat /\ 2 * q \in Nat
    BY <1>1, <1>2
  <1> QED BY <1>2, <1>3, <1>4 DEF q, d

(* A part is never more than the largest offset.                           *)
LEMMA PartWithin ==
    ASSUME NEW v \in L_LINT(-PhaseReach) .. L_LINT(PhaseReach),
           NEW n \in Nat, PPS_SYNC => n > 0
    PROVE  /\ L_RSHIFT(v, n) \in Int
           /\ -L_LINT(MAXPHASE) <= L_RSHIFT(v, n)
           /\ L_RSHIFT(v, n) <= L_LINT(MAXPHASE)
  <1> DEFINE most == L_LINT(MAXPHASE)
             reach == L_LINT(PhaseReach)
  <1>1. /\ most \in Nat /\ reach \in Nat /\ v \in Int
        /\ -reach <= v /\ v <= reach
        /\ ~PPS_SYNC => reach = most
        /\ PPS_SYNC => reach = 2 * most
    BY ReachType
  <1>2. PPS_SYNC \in BOOLEAN
    BY KtimeAssumption
  <1> HIDE DEF most, reach
  <1>3. CASE ~PPS_SYNC
    <2>1. /\ L_RSHIFT(v, n) \in Int
          /\ v >= 0 => L_RSHIFT(v, n) \in 0 .. v
          /\ v <= 0 => L_RSHIFT(v, n) \in v .. 0
      BY <1>1, ShiftShrinks
    <2>2. -most <= L_RSHIFT(v, n) /\ L_RSHIFT(v, n) <= most
      BY <1>1, <1>3, <2>1
    <2> QED BY <2>1, <2>2 DEF most
  <1>4. CASE PPS_SYNC
    <2> DEFINE d == PowerOfTwo[n]
    <2>1. d \in Nat \ {0}
      BY PowerType
    <2>2. CASE v >= 0
      <3> DEFINE q == v \div d
      <3>1. L_RSHIFT(v, n) = q
        BY <2>2 DEF L_RSHIFT, CDiv
      <3>2. q \in Nat /\ 2 * q <= v
        BY <1>1, <1>4, <2>1, <2>2, DivNat, HalfShift
      <3> HIDE DEF q
      <3>3. -most <= L_RSHIFT(v, n) /\ L_RSHIFT(v, n) <= most
        BY <1>1, <1>4, <3>1, <3>2
      <3> QED BY <3>1, <3>2, <3>3 DEF most
    <2>3. CASE v < 0
      <3> DEFINE w == -v
                 q == w \div d
      <3>1. w \in Nat /\ w <= 2 * most /\ ~(v >= 0)
        BY <1>1, <1>4, <2>3
      <3>2. L_RSHIFT(v, n) = -q
        BY <2>3, <3>1 DEF L_RSHIFT, CDiv
      <3> HIDE DEF w
      <3>3. q \in Nat /\ 2 * q <= w
        BY <1>4, <2>1, <3>1, DivNat, HalfShift
      <3> HIDE DEF q
      <3>4. -most <= L_RSHIFT(v, n) /\ L_RSHIFT(v, n) <= most
        BY <1>1, <3>1, <3>2, <3>3
      <3> QED BY <3>2, <3>3, <3>4 DEF most
    <2> QED BY <1>1, <2>2, <2>3
  <1> QED BY <1>2, <1>3, <1>4

LEMMA StatusBits ==
    /\ STA_RONLY \subseteq STA_BITS
    /\ {"STA_MODE", "STA_NANO", "STA_CLK", "STA_PPSSIGNAL", "STA_UNSYNC"}
            \subseteq STA_BITS
  BY DEF STA_BITS, STA_RONLY

(* An update leaves the frequency in the envelope, the offset in it or as  *)
(* it was, and the time of the last update no later than the clock.        *)
LoadedOffset == (L_LINT(-MAXPHASE) .. L_LINT(MAXPHASE)) \cup {time_offset}

LEMMA HardupdateSafe ==
    ASSUME TypeOK, PhaseWithin(PhaseReach), FreqClamped, ReftimeNotAhead,
           NEW status \in SUBSET STA_BITS, NEW constant \in 0 .. MAXTC,
           NEW offset \in Int
    PROVE  LET h == hardupdate(status, constant, offset)
           IN  /\ h.monitor \in -MAXPHASE .. MAXPHASE
               /\ h.offset \in LoadedOffset
               /\ h.freq \in Int
               /\ L_GINT(h.freq) \in -MAXFREQ .. MAXFREQ
               /\ h.reftime \in Nat
               /\ h.reftime <= tv_sec
               /\ h.status \in SUBSET STA_BITS
  <1> DEFINE monitor == Monitored(status, offset)
             mtemp == UpdateInterval(status)
             h == hardupdate(status, constant, offset)
  <1>1. CASE "STA_PLL" \notin status
    <2>1. h = Unlocked(status)
      BY <1>1 DEF hardupdate
    <2> HIDE DEF h
    <2>2. h.monitor = time_monitor /\ h.offset = time_offset
            /\ h.freq = time_freq /\ h.reftime = time_reftime
            /\ h.status = status
      BY <2>1 DEF Unlocked
    <2>3. /\ h.monitor \in -MAXPHASE .. MAXPHASE
          /\ h.offset \in LoadedOffset
          /\ h.freq \in Int
          /\ L_GINT(h.freq) \in -MAXFREQ .. MAXFREQ
          /\ h.reftime \in Nat
          /\ h.reftime <= tv_sec
          /\ h.status \in SUBSET STA_BITS
      BY <2>2 DEF TypeOK, PhaseWithin, LoadedOffset, FreqClamped,
                  ReftimeNotAhead
    <2> QED BY <2>3 DEF h
  <1>2. CASE "STA_PLL" \in status
    <2>1. monitor \in -MAXPHASE .. MAXPHASE
      BY ClampType, TimexAssumption DEF Monitored, PhaseWithin
    <2>2. mtemp \in Int
      BY DEF UpdateInterval, TypeOK
    <2>3. monitor \in Int
      BY <2>1, TimexAssumption
    <2>4. NewFreq(status, constant, monitor, mtemp) \in Int
            /\ L_GINT(NewFreq(status, constant, monitor, mtemp))
                    \in -MAXFREQ .. MAXFREQ
      BY <2>2, <2>3, NewFreqType
    <2>5. L_LINT(monitor) \in L_LINT(-MAXPHASE) .. L_LINT(MAXPHASE)
      BY <2>1, LoadedPhase
    <2>6. NewMode(status, mtemp) \in SUBSET STA_BITS
      BY StatusBits DEF NewMode
    <2> HIDE DEF monitor, mtemp
    <2>7. h = [monitor |-> monitor,
               offset |-> IF PpsTiming(status) THEN time_offset
                          ELSE L_LINT(monitor),
               freq |-> IF PpsSteering(status) THEN time_freq
                        ELSE NewFreq(status, constant, monitor, mtemp),
               reftime |-> tv_sec,
               status |-> IF PpsSteering(status) THEN status
                          ELSE NewMode(status, mtemp)]
      BY <1>2, Zenon DEF hardupdate, monitor, mtemp
    <2> HIDE DEF h
    <2>8. /\ h.monitor = monitor
          /\ h.offset = IF PpsTiming(status) THEN time_offset
                        ELSE L_LINT(monitor)
          /\ h.freq = IF PpsSteering(status) THEN time_freq
                      ELSE NewFreq(status, constant, monitor, mtemp)
          /\ h.reftime = tv_sec
          /\ h.status = IF PpsSteering(status) THEN status
                        ELSE NewMode(status, mtemp)
      BY <2>7, Zenon
    <2>9. /\ h.monitor \in -MAXPHASE .. MAXPHASE
          /\ h.offset \in LoadedOffset
      BY <2>1, <2>5, <2>8 DEF LoadedOffset
    <2>10. h.freq \in Int /\ L_GINT(h.freq) \in -MAXFREQ .. MAXFREQ
      BY <2>4, <2>8 DEF TypeOK, FreqClamped
    <2>11. h.reftime \in Nat /\ h.reftime <= tv_sec
      BY <2>8 DEF TypeOK
    <2>12. h.status \in SUBSET STA_BITS
      BY <2>6, <2>8
    <2> QED BY <2>9, <2>10, <2>11, <2>12 DEF h
  <1> QED BY <1>1, <1>2

(***************************************************************************)
(* The invariant.                                                          *)
(***************************************************************************)

(* The clock at its start, with whatever status and time constant it is    *)
(* given: by a first ntp_adjtime() call, for instance.                     *)
LEMMA StartInv ==
    ASSUME tv_sec \in StartSecs, tv_nsec = 0, time_state = "TIME_OK",
           time_status \in SUBSET STA_BITS, time_constant \in 0 .. MAXTC,
           time_maxerror = CDiv(MAXPHASE, NSPERUS),
           time_esterror = CDiv(MAXPHASE, NSPERUS),
           time_adj = L_LINT(NANOSECOND),
           pps_shift = PPS_FAVG, pps_shiftmax = PPS_FAVGDEF,
           time_tai = 0, time_monitor = 0, time_reftime = 0,
           time_offset = 0, time_freq = 0, time_phase = 0, pps_freq = 0,
           pps_valid = 0
    PROVE  Inv
  <1>1. L_GINT(0) = 0 /\ L_LINT(0) = 0
    <2>1. L_LINT(0) = 0
      BY FracType DEF L_LINT
    <2> QED BY <2>1, GintLint
  <1>2. /\ L_LINT(NANOSECOND) \in Int
        /\ L_LINT(NANOSECOND) > 0
        /\ L_LINT(hz) > 0
    BY TimexAssumption, KtimeAssumption DEF L_LINT
  <1>3. CDiv(MAXPHASE, NSPERUS) \in Int
    BY CDivShrinks, TimexAssumption
  <1>4. TypeOK
    BY <1>2, <1>3, TimexAssumption, KtimeAssumption DEF TypeOK, TIME_STATES
  <1>5. Normalized
    BY TimexAssumption DEF Normalized
  <1>6. ResidueBounded
    BY <1>2 DEF ResidueBounded
  <1>7. PhaseWithin(PhaseReach) /\ FreqClamped
    <2>1. 0 \in -MAXPHASE .. MAXPHASE /\ 0 \in -MAXFREQ .. MAXFREQ
      BY TimexAssumption
    <2>2. 0 \in L_LINT(-PhaseReach) .. L_LINT(PhaseReach)
      BY ReachType
    <2> QED BY <1>1, <2>1, <2>2 DEF PhaseWithin, FreqClamped
  <1>8. RunsForward
    BY <1>2 DEF RunsForward
  <1>9. ReftimeNotAhead /\ LeapAtMidnight
    BY KtimeAssumption DEF ReftimeNotAhead, LeapAtMidnight
  <1> QED BY <1>4, <1>5, <1>6, <1>7, <1>8, <1>9 DEF Inv

LEMMA InitInv == Init => Inv
  <1> SUFFICES ASSUME Init PROVE Inv
    OBVIOUS
  <1>1. time_status \in SUBSET STA_BITS /\ time_constant \in 0 .. MAXTC
    BY StatusBits, TimexAssumption DEF Init
  <1> QED BY <1>1, StartInv DEF Init

LEMMA TickInv == Inv /\ Tick => Inv'
  <1> SUFFICES ASSUME Inv, Tick PROVE Inv'
    OBVIOUS
  <1> USE DEF Inv
  <1> TickUpdate \in 0 .. NANOSECOND
    BY TickBounds
  <1>1. time_phase' \in Int /\ 0 <= time_phase' /\ time_phase' < L_LINT(hz)
    BY TickBounds DEF Tick, TickPhase
  <1>2. tv_nsec' \in 0 .. NANOSECOND - 1
    BY TimexAssumption DEF Tick, TickAdjusted, Normalized
  <1>3. UNCHANGED <<tv_sec, time_state, time_status, time_tai, time_monitor,
                    time_constant, time_maxerror, time_esterror,
                    time_reftime, time_offset, time_freq, time_adj,
                    pps_freq, pps_shift, pps_shiftmax, pps_valid>>
    BY DEF Tick, leapVars, loopVars, errorVars, ppsVars
  <1>4. TypeOK'
    BY <1>1, <1>2, <1>3, TimexAssumption DEF TypeOK
  <1>5. Normalized' /\ ResidueBounded'
    BY <1>1, <1>2 DEF Normalized, ResidueBounded
  <1>6. /\ PhaseWithin(PhaseReach)' /\ FreqClamped'
        /\ RunsForward' /\ ReftimeNotAhead' /\ LeapAtMidnight'
    BY <1>3 DEF PhaseWithin, FreqClamped, RunsForward, ReftimeNotAhead,
                LeapAtMidnight
  <1> QED BY <1>4, <1>5, <1>6

(* The leap machine moves the clock by zero, one or two seconds and enters *)
(* TIME_OOP only in the last second of a day.                              *)
LEMMA LeapStepSafe ==
    ASSUME TypeOK, LeapStep(tv_sec + 1)
    PROVE  /\ tv_sec' \in Nat /\ tv_sec' >= tv_sec
           /\ time_state' \in TIME_STATES
           /\ time_tai' \in Int
           /\ LeapAtMidnight'
  <1> DEFINE sec == tv_sec + 1
  <1>1. tv_sec \in Nat /\ time_tai \in Int /\ time_state \in TIME_STATES
    BY DEF TypeOK
  <1>2. CASE NoWarning(sec)
    BY <1>1, <1>2 DEF NoWarning, TIME_STATES, LeapAtMidnight
  <1>3. CASE \/ WarningWithdrawn("TIME_INS", "STA_INS", sec)
             \/ WarningWithdrawn("TIME_DEL", "STA_DEL", sec)
    BY <1>1, <1>3 DEF WarningWithdrawn, TIME_STATES, LeapAtMidnight
  <1>4. CASE \/ WarningPending("TIME_INS", "STA_INS", sec % DAY = 0, sec)
             \/ WarningPending("TIME_DEL", "STA_DEL", (sec + 1) % DAY = 0, sec)
    BY <1>1, <1>4 DEF WarningPending, TIME_STATES, LeapAtMidnight
  <1>5. CASE InsertSecond(sec)
    <2>1. tv_sec' = tv_sec /\ (tv_sec' + 1) % DAY = 0
      BY <1>1, <1>5 DEF InsertSecond
    <2> QED BY <1>1, <1>5, <2>1 DEF InsertSecond, TIME_STATES, LeapAtMidnight
  <1>6. CASE DeleteSecond(sec)
    BY <1>1, <1>6 DEF DeleteSecond, TIME_STATES, LeapAtMidnight
  <1>7. CASE EndInsertion(sec)
    BY <1>1, <1>7 DEF EndInsertion, TIME_STATES, LeapAtMidnight
  <1>8. CASE WaitForBits(sec)
    BY <1>1, <1>8 DEF WaitForBits, TIME_STATES, LeapAtMidnight
  <1> QED BY <1>2, <1>3, <1>4, <1>5, <1>6, <1>7, <1>8 DEF LeapStep

LEMMA OffsetShiftType ==
    ASSUME TypeOK
    PROVE  OffsetShift \in Nat /\ (PPS_SYNC => OffsetShift > 0)
  BY TimexAssumption, KtimeAssumption DEF TypeOK, OffsetShift

(* What is amortized in a second is a part of the offset.                  *)
LEMMA AmortizedPart ==
    ASSUME TypeOK
    PROVE  /\ Amortized \in Int
           /\ time_offset >= 0 => Amortized \in 0 .. time_offset
           /\ time_offset <= 0 => Amortized \in time_offset .. 0
  <1>1. time_offset \in Int
    BY DEF TypeOK
  <1> QED BY <1>1, OffsetShiftType, ShiftShrinks DEF Amortized

LEMMA AmortizedWithin ==
    ASSUME TypeOK, PhaseWithin(PhaseReach)
    PROVE  /\ Amortized \in Int
           /\ -L_LINT(MAXPHASE) <= Amortized
           /\ Amortized <= L_LINT(MAXPHASE)
  BY OffsetShiftType, PartWithin DEF Amortized, PhaseWithin

(* With a part within the envelope, the clock of the next second runs      *)
(* forward and at less than twice its rate.                                *)
Adjustment(part, freq) == part + freq + L_LINT(NANOSECOND)

LEMMA AdjustmentBounds ==
    ASSUME NEW part \in Int, NEW freq \in Int,
           -L_LINT(MAXPHASE) <= part, part <= L_LINT(MAXPHASE),
           L_GINT(freq) \in -MAXFREQ .. MAXFREQ
    PROVE  /\ Adjustment(part, freq) \in Int
           /\ Adjustment(part, freq) > 0
           /\ Adjustment(part, freq) < 2 * L_LINT(NANOSECOND)
  <1>1. /\ freq < L_LINT(MAXFREQ + 1) /\ -freq < L_LINT(MAXFREQ + 1)
    BY GintBound, TimexAssumption
  <1>2. /\ L_LINT(MAXPHASE) + L_LINT(MAXFREQ + 1) <= L_LINT(NANOSECOND)
        /\ {L_LINT(MAXPHASE), L_LINT(MAXFREQ + 1), L_LINT(NANOSECOND)}
              \subseteq Int
    <2>1. (MAXPHASE + (MAXFREQ + 1)) * FRAC <= NANOSECOND * FRAC
      BY MulMono, TimexAssumption
    <2> QED BY <2>1, LintType, TimexAssumption DEF L_LINT
  <1> QED BY <1>1, <1>2 DEF Adjustment

(* How much the adjustment of a second, phase and frequency at their       *)
(* limits, and with it one tick, may be.                                   *)
AdjFloor == NANOSECOND - MAXPHASE - MAXFREQ - 1

AdjLimit == NANOSECOND + MAXPHASE + MAXFREQ + 1

AdjBounded == L_LINT(AdjFloor) < time_adj /\ time_adj < L_LINT(AdjLimit)

ShortestUpdate == AdjFloor \div hz

LongestUpdate == ((NANOSECOND + MAXPHASE + MAXFREQ) \div hz) + 1

LEMMA AdjustmentRange ==
    ASSUME NEW part \in Int, NEW freq \in Int,
           -L_LINT(MAXPHASE) <= part, part <= L_LINT(MAXPHASE),
           L_GINT(freq) \in -MAXFREQ .. MAXFREQ
    PROVE  /\ L_LINT(AdjFloor) < Adjustment(part, freq)
           /\ Adjustment(part, freq) < L_LINT(AdjLimit)
  <1>1. /\ freq < L_LINT(MAXFREQ + 1) /\ -freq < L_LINT(MAXFREQ + 1)
    BY GintBound, TimexAssumption
  <1>2. /\ L_LINT(MAXPHASE) + L_LINT(MAXFREQ + 1) + L_LINT(NANOSECOND)
                = L_LINT(AdjLimit)
        /\ L_LINT(NANOSECOND) - L_LINT(MAXPHASE) - L_LINT(MAXFREQ + 1)
                = L_LINT(AdjFloor)
        /\ {L_LINT(MAXPHASE), L_LINT(MAXFREQ + 1), L_LINT(NANOSECOND),
            L_LINT(AdjLimit), L_LINT(AdjFloor)} \subseteq Int
    BY TimexAssumption DEF L_LINT, AdjLimit, AdjFloor
  <1> QED BY <1>1, <1>2 DEF Adjustment

LEMMA AdjustmentTight ==
    ASSUME Inv
    PROVE  /\ L_LINT(AdjFloor) < SecondAdjustment
           /\ SecondAdjustment < L_LINT(AdjLimit)
  <1>1. SecondAdjustment = Adjustment(Amortized, time_freq)
    BY DEF SecondAdjustment, Adjustment
  <1> QED BY <1>1, AmortizedWithin, AdjustmentRange
          DEF Inv, TypeOK, FreqClamped

LEMMA InitAdj == Init => AdjBounded
  <1>1. \A a, b \in Int : a < b => L_LINT(a) < L_LINT(b)
    <2> SUFFICES ASSUME NEW a \in Int, NEW b \in Int, a < b
                 PROVE  L_LINT(a) < L_LINT(b)
      OBVIOUS
    <2>1. (a + 1) * FRAC <= b * FRAC
      BY MulMono, FracType
    <2>2. (a + 1) * FRAC = a * FRAC + FRAC /\ a * FRAC \in Int
          /\ b * FRAC \in Int /\ FRAC \in Nat \ {0}
      BY FracType
    <2>3. a * FRAC < b * FRAC
      BY <2>1, <2>2
    <2> QED BY <2>3 DEF L_LINT
  <1>2. /\ {NANOSECOND, AdjFloor, AdjLimit} \subseteq Int
        /\ AdjFloor < NANOSECOND /\ NANOSECOND < AdjLimit
    BY TimexAssumption DEF AdjFloor, AdjLimit
  <1> QED BY <1>1, <1>2 DEF Init, AdjBounded

LEMMA UpdateBounds ==
    ASSUME Inv, AdjBounded
    PROVE  /\ TickUpdate \in ShortestUpdate .. LongestUpdate
           /\ ShortestUpdate \in Nat /\ LongestUpdate \in Nat
  <1> DEFINE p == time_phase + time_adj
             g == p \div FRAC
             f == AdjFloor
             s == NANOSECOND + MAXPHASE + MAXFREQ
  <1>1. /\ s \in Nat /\ f \in Nat /\ hz \in Nat \ {0}
        /\ FRAC \in Nat \ {0}
    BY TimexAssumption, KtimeAssumption DEF AdjFloor
  <1>2. p \in Nat /\ p < FRAC * (hz + s + 1) /\ FRAC * f < p
    <2>1. /\ p \in Nat /\ p < L_LINT(hz) + L_LINT(AdjLimit)
          /\ L_LINT(AdjFloor) < p
      BY TimexAssumption, KtimeAssumption
      DEF Inv, TypeOK, ResidueBounded, RunsForward, AdjBounded, L_LINT,
          AdjLimit, AdjFloor
    <2>2. L_LINT(hz) + L_LINT(AdjLimit) = FRAC * (hz + s + 1)
      BY TimexAssumption, KtimeAssumption DEF L_LINT, AdjLimit
    <2>3. L_LINT(AdjFloor) = FRAC * f
      BY <1>1, TimexAssumption DEF L_LINT
    <2> QED BY <2>1, <2>2, <2>3
  <1>3. g \in Nat /\ FRAC * g <= p /\ p < FRAC * g + FRAC
    BY <1>1, <1>2, DivNat
  <1>4. g <= hz + s
    <2> HIDE DEF p, g, s
    <2>1. FRAC * g < FRAC * (hz + s + 1) /\ hz + s + 1 \in Int
      <3>1. {FRAC * g, p, FRAC * (hz + s + 1)} \subseteq Int
        BY <1>1, <1>2, <1>3
      <3> QED BY <1>1, <1>2, <1>3, <3>1
    <2>2. g * FRAC < (hz + s + 1) * FRAC
      BY <1>1, <1>3, <2>1
    <2>3. g < hz + s + 1
      BY <1>1, <1>3, <2>1, <2>2, MulCancel
    <2> QED BY <1>1, <1>3, <2>3
  <1>5. f <= g
    <2> HIDE DEF p, g, f
    <2>1. f * FRAC < (g + 1) * FRAC
      <3>1. /\ {FRAC * g, p, FRAC * f} \subseteq Int
            /\ f * FRAC = FRAC * f /\ (g + 1) * FRAC = FRAC * g + FRAC
        BY <1>1, <1>2, <1>3
      <3> QED BY <1>1, <1>2, <1>3, <3>1
    <2>2. f < g + 1
      BY <1>1, <1>3, <2>1, MulCancel
    <2> QED BY <1>1, <1>3, <2>2
  <1>6. TickUpdate = g \div hz
    <2>1. L_GINT(p) = g
      <3>1. p >= 0
        BY <1>2
      <3> HIDE DEF p
      <3> QED BY <3>1, Zenon DEF L_GINT, CDiv, g
    <2>2. CDiv(g, hz) = g \div hz
      <3>1. g >= 0
        BY <1>3
      <3> HIDE DEF g
      <3> QED BY <3>1, Zenon DEF CDiv
    <2> QED BY <2>1, <2>2 DEF TickUpdate
  <1> DEFINE u == g \div hz
             v == s \div hz
             w == f \div hz
  <1> HIDE DEF p, g, s, f
  <1>7. /\ u \in Nat /\ hz * u <= g /\ g < hz * u + hz
        /\ v \in Nat /\ s < hz * v + hz
        /\ w \in Nat /\ hz * w <= f
    BY <1>1, <1>3, DivNat
  <1> HIDE DEF u, v, w
  <1>8. u <= v + 1
    <2>1. u * hz < (v + 2) * hz
      <3>1. hz * u \in Int /\ hz * v \in Int /\ u * hz = hz * u
            /\ (v + 2) * hz = hz * v + hz + hz
        BY <1>1, <1>7
      <3> QED BY <1>1, <1>3, <1>4, <1>7, <3>1
    <2>2. u < v + 2
      BY <1>1, <1>7, <2>1, MulCancel
    <2> QED BY <1>7, <2>2
  <1>9. w <= u
    <2>1. w * hz < (u + 1) * hz
      <3>1. hz * u \in Int /\ hz * w \in Int /\ w * hz = hz * w
            /\ (u + 1) * hz = hz * u + hz
        BY <1>1, <1>7
      <3> QED BY <1>1, <1>3, <1>5, <1>7, <3>1
    <2>2. w < u + 1
      BY <1>1, <1>7, <2>1, MulCancel
    <2> QED BY <1>7, <2>2
  <1>10. TickUpdate = u /\ ShortestUpdate = w /\ LongestUpdate = v + 1
    BY <1>6 DEF u, v, w, f, s, ShortestUpdate, LongestUpdate
  <1> QED BY <1>7, <1>8, <1>9, <1>10

(* What is left of an offset is no more than the offset.                   *)
LEMMA LeftWithin ==
    ASSUME TypeOK, PhaseWithin(PhaseReach)
    PROVE  /\ OffsetLeft \in L_LINT(-PhaseReach) .. L_LINT(PhaseReach)
           /\ PhaseWithin(MAXPHASE) =>
                  OffsetLeft \in L_LINT(-MAXPHASE) .. L_LINT(MAXPHASE)
  <1>1. /\ time_offset \in Int
        /\ time_offset \in L_LINT(-PhaseReach) .. L_LINT(PhaseReach)
        /\ PhaseWithin(MAXPHASE) =>
                time_offset \in L_LINT(-MAXPHASE) .. L_LINT(MAXPHASE)
    BY DEF TypeOK, PhaseWithin
  <1>2. OffsetLeft = time_offset - Amortized
    BY DEF OffsetLeft
  <1> QED BY <1>1, <1>2, AmortizedPart, ReachType

LEMMA SecondOverflowInv == Inv /\ SecondOverflow => Inv'
  <1> SUFFICES ASSUME Inv, SecondOverflow PROVE Inv'
    OBVIOUS
  <1> USE DEF Inv
  <1>1. time_phase' \in Int /\ 0 <= time_phase' /\ time_phase' < L_LINT(hz)
    BY TickBounds DEF SecondOverflow, TickPhase
  <1>2. tv_nsec' \in 0 .. NANOSECOND - 1
    <2>1. TickUpdate \in 0 .. NANOSECOND
      BY TickBounds
    <2> QED BY <2>1, TimexAssumption
            DEF SecondOverflow, TickAdjusted, Normalized
  <1>3. /\ tv_sec' \in Nat /\ tv_sec' >= tv_sec
        /\ time_state' \in TIME_STATES
        /\ time_tai' \in Int
        /\ LeapAtMidnight'
    BY LeapStepSafe DEF SecondOverflow
  <1>4. UNCHANGED <<time_monitor, time_constant, time_reftime, time_freq,
                    time_esterror, pps_freq, pps_shift, pps_shiftmax>>
    BY DEF SecondOverflow, loopVars
  <1>5. time_maxerror' \in Int
    <2>1. CDiv(MAXFREQ, NSPERUS) \in Int
      BY CDivShrinks, TimexAssumption
    <2>2. time_maxerror + CDiv(MAXFREQ, NSPERUS) \in Int
      BY <2>1 DEF TypeOK
    <2> QED BY <2>2, WrapType DEF SecondOverflow
  <1>6. time_status' \subseteq STA_BITS /\ pps_valid' \in 0 .. PPS_VALID
    BY KtimeAssumption DEF SecondOverflow, PpsWatchdog, TypeOK
  <1>7. time_offset' \in Int
        /\ time_offset' \in L_LINT(-PhaseReach) .. L_LINT(PhaseReach)
    <2>1. time_offset' = OffsetLeft
      BY DEF SecondOverflow
    <2> QED BY <2>1, LeftWithin
  <1>8. time_adj' \in Int /\ time_adj' > 0
        /\ time_adj' < 2 * L_LINT(NANOSECOND)
    <2>1. time_adj' = Adjustment(Amortized, time_freq)
      BY DEF SecondOverflow, SecondAdjustment, Adjustment
    <2> QED BY <2>1, AmortizedWithin, AdjustmentBounds
            DEF TypeOK, FreqClamped
  <1>9. TypeOK'
    BY <1>1, <1>2, <1>3, <1>4, <1>5, <1>6, <1>7, <1>8, TimexAssumption
    DEF TypeOK
  <1>10. Normalized' /\ ResidueBounded' /\ RunsForward'
    BY <1>1, <1>2, <1>8 DEF Normalized, ResidueBounded, RunsForward
  <1>11. PhaseWithin(PhaseReach)' /\ FreqClamped'
    BY <1>4, <1>7 DEF PhaseWithin, FreqClamped
  <1>12. ReftimeNotAhead'
    BY <1>3, <1>4 DEF ReftimeNotAhead, TypeOK
  <1> QED BY <1>3, <1>9, <1>10, <1>11, <1>12

(* What ntp_adjtime() and the daemon's direct call leave unchanged, and    *)
(* what they share: new loop variables and status word.                    *)
LEMMA UpdateInv ==
    ASSUME Inv,
           UNCHANGED <<timevar, tickVars>>,
           pps_valid' \in 0 .. PPS_VALID,
           time_state' \in {time_state, "TIME_OK"},
           {time_tai', time_maxerror', time_esterror', pps_freq'}
                \subseteq Int,
           time_constant' \in 0 .. MAXTC,
           pps_shift' \in PPS_FAVG .. PPS_FAVGMAX,
           pps_shiftmax' \in PPS_FAVG .. PPS_FAVGMAX,
           time_monitor' \in -MAXPHASE .. MAXPHASE,
           time_offset' \in LoadedOffset,
           time_freq' \in Int,
           L_GINT(time_freq') \in -MAXFREQ .. MAXFREQ,
           time_reftime' \in Nat,
           time_reftime' <= tv_sec,
           time_status' \in SUBSET STA_BITS
    PROVE  Inv'
  <1> USE DEF Inv
  <1>1. UNCHANGED <<tv_sec, tv_nsec, time_adj, time_phase>>
    BY DEF timevar, tickVars
  <1>2. /\ time_offset' \in Int /\ time_monitor' \in Int
        /\ time_offset' \in L_LINT(-PhaseReach) .. L_LINT(PhaseReach)
    BY ReachType, TimexAssumption DEF LoadedOffset, TypeOK, PhaseWithin
  <1>3. TypeOK'
    BY <1>1, <1>2 DEF TypeOK, TIME_STATES
  <1>4. Normalized' /\ ResidueBounded' /\ RunsForward'
    BY <1>1 DEF Normalized, ResidueBounded, RunsForward
  <1>5. PhaseWithin(PhaseReach)' /\ FreqClamped'
    BY <1>2 DEF PhaseWithin, FreqClamped
  <1>6. ReftimeNotAhead' /\ LeapAtMidnight'
    BY <1>1 DEF ReftimeNotAhead, LeapAtMidnight
  <1> QED BY <1>3, <1>4, <1>5, <1>6

LEMMA DisciplineInv ==
    ASSUME Inv, NEW offset \in Int, Discipline(offset)
    PROVE  Inv'
  <1> DEFINE h == hardupdate(time_status, time_constant, offset)
  <1>1. /\ time_status \in SUBSET STA_BITS /\ time_constant \in 0 .. MAXTC
    BY DEF Inv, TypeOK
  <1>2. /\ h.monitor \in -MAXPHASE .. MAXPHASE
        /\ h.offset \in LoadedOffset
        /\ h.freq \in Int
        /\ L_GINT(h.freq) \in -MAXFREQ .. MAXFREQ
        /\ h.reftime \in Nat
        /\ h.reftime <= tv_sec
        /\ h.status \in SUBSET STA_BITS
    BY <1>1, HardupdateSafe DEF Inv
  <1> HIDE DEF h
  <1>3. /\ time_monitor' = h.monitor /\ time_offset' = h.offset
        /\ time_freq' = h.freq /\ time_reftime' = h.reftime
        /\ time_status' = h.status
    BY DEF Discipline, h
  <1>4. UNCHANGED <<timevar, tickVars, pps_valid, time_state, time_tai,
                    time_maxerror, time_esterror, pps_freq, time_constant,
                    pps_shift, pps_shiftmax>>
    BY DEF Discipline, leapVars, errorVars, ppsVars
  <1>5. /\ time_state' \in {time_state, "TIME_OK"}
        /\ {time_tai', time_maxerror', time_esterror', pps_freq'}
                \subseteq Int
        /\ time_constant' \in 0 .. MAXTC
        /\ pps_shift' \in PPS_FAVG .. PPS_FAVGMAX
        /\ pps_shiftmax' \in PPS_FAVG .. PPS_FAVGMAX
        /\ pps_valid' \in 0 .. PPS_VALID
    BY <1>4 DEF Inv, TypeOK
  <1>6. /\ time_monitor' \in -MAXPHASE .. MAXPHASE
        /\ time_offset' \in LoadedOffset
        /\ time_freq' \in Int
        /\ L_GINT(time_freq') \in -MAXFREQ .. MAXFREQ
        /\ time_reftime' \in Nat
        /\ time_reftime' <= tv_sec
        /\ time_status' \in SUBSET STA_BITS
    BY <1>2, <1>3, Zenon
  <1> QED BY <1>4, <1>5, <1>6, UpdateInv, Zenon

(* What a request loads.                                                   *)
LEMMA RequestLoads ==
    ASSUME Inv, NEW r \in TimexRequest
    PROVE  LET h == LoopAfter(r)
           IN  /\ h.monitor \in -MAXPHASE .. MAXPHASE
               /\ h.offset \in LoadedOffset
               /\ h.freq \in Int
               /\ L_GINT(h.freq) \in -MAXFREQ .. MAXFREQ
               /\ h.reftime \in Nat
               /\ h.reftime <= tv_sec
               /\ h.status \in SUBSET STA_BITS
  <1> DEFINE h == LoopAfter(r)
  <1>2. /\ r.modes \subseteq MODES /\ r.status \subseteq STA_BITS
        /\ {r.constant, r.offset, r.freq, r.maxerror, r.esterror, r.shift}
                \subseteq Int
    BY DEF TimexRequest
  <1>3. SelectedStatus(r) \in SUBSET STA_BITS
    <2>1. WrittenStatus(r) \in SUBSET STA_BITS
      BY <1>2, StatusBits DEF WrittenStatus, Inv, TypeOK
    <2> QED BY <2>1, StatusBits DEF SelectedStatus, SelectBit
  <1>4. ConstantAfter(r) \in 0 .. MAXTC
    BY <1>2, TimexAssumption DEF ConstantAfter, Inv, TypeOK
  <1>5. OffsetOf(r, SelectedStatus(r)) \in Int
    <2>1. r.offset * NSPERUS \in Int
      BY <1>2, TimexAssumption
    <2> QED BY <1>2, <2>1, WrapType DEF OffsetOf
  <1>6. /\ h.monitor \in -MAXPHASE .. MAXPHASE
        /\ h.offset \in LoadedOffset
        /\ h.freq \in Int
        /\ L_GINT(h.freq) \in -MAXFREQ .. MAXFREQ
        /\ h.reftime \in Nat
        /\ h.reftime <= tv_sec
        /\ h.status \in SUBSET STA_BITS
    <2>1. CASE "MOD_OFFSET" \in r.modes
      <3>1. h = hardupdate(SelectedStatus(r), ConstantAfter(r),
                           OffsetOf(r, SelectedStatus(r)))
        BY <2>1, Zenon DEF LoopAfter
      <3> HIDE DEF h
      <3> QED BY <1>3, <1>4, <1>5, <3>1, HardupdateSafe DEF Inv
    <2>2. CASE "MOD_OFFSET" \notin r.modes
      <3>1. h = Unlocked(SelectedStatus(r))
        BY <2>2, Zenon DEF LoopAfter
      <3> HIDE DEF h
      <3>2. h.monitor = time_monitor /\ h.offset = time_offset
            /\ h.freq = time_freq /\ h.reftime = time_reftime
            /\ h.status = SelectedStatus(r)
        BY <3>1 DEF Unlocked
      <3> QED BY <1>3, <3>2 DEF Inv, TypeOK, PhaseWithin, LoadedOffset,
                                FreqClamped, ReftimeNotAhead
    <2> QED BY <2>1, <2>2
  <1> QED BY <1>6 DEF h

LEMMA AdjTimeInv ==
    ASSUME Inv, NEW r \in TimexRequest, AdjTime(r)
    PROVE  Inv'
  <1> DEFINE h == LoopAfter(r)
  <1>2. /\ r.modes \subseteq MODES /\ r.status \subseteq STA_BITS
        /\ {r.constant, r.offset, r.freq, r.maxerror, r.esterror, r.shift}
                \subseteq Int
    BY DEF TimexRequest
  <1>4. ConstantAfter(r) \in 0 .. MAXTC
    BY <1>2, TimexAssumption DEF ConstantAfter, Inv, TypeOK
  <1>6. /\ h.monitor \in -MAXPHASE .. MAXPHASE
        /\ h.offset \in LoadedOffset
        /\ h.freq \in Int
        /\ L_GINT(h.freq) \in -MAXFREQ .. MAXFREQ
        /\ h.reftime \in Nat
        /\ h.reftime <= tv_sec
        /\ h.status \in SUBSET STA_BITS
    BY RequestLoads DEF h
  <1> HIDE DEF h
  <1>7. /\ time_monitor' = h.monitor /\ time_offset' = h.offset
        /\ time_reftime' = h.reftime /\ time_status' = h.status
        /\ time_freq' \in {h.freq, FreqOf(r)}
    BY DEF AdjTime, h
  <1>8. FreqOf(r) \in Int /\ L_GINT(FreqOf(r)) \in -MAXFREQ .. MAXFREQ
    <2>1. CDiv(r.freq, SCALE_PPM) \in Int
      BY <1>2, CDivShrinks, TimexAssumption
    <2>2. Clamp(CDiv(r.freq, SCALE_PPM), MAXFREQ) \in -MAXFREQ .. MAXFREQ
      BY <2>1, ClampType, TimexAssumption
    <2> QED BY <2>2, LoadedFreq DEF FreqOf
  <1>9. /\ time_monitor' \in -MAXPHASE .. MAXPHASE
        /\ time_offset' \in LoadedOffset
        /\ time_freq' \in Int
        /\ L_GINT(time_freq') \in -MAXFREQ .. MAXFREQ
        /\ time_reftime' \in Nat
        /\ time_reftime' <= tv_sec
        /\ time_status' \in SUBSET STA_BITS
    BY <1>6, <1>7, <1>8, Zenon
  <1>10. UNCHANGED <<timevar, tickVars>> /\ pps_valid' \in 0 .. PPS_VALID
    BY DEF AdjTime, Inv, TypeOK
  <1>11. time_state' \in {time_state, "TIME_OK"}
    BY DEF AdjTime
  <1>12. {time_tai', time_maxerror', time_esterror', pps_freq'} \subseteq Int
    BY <1>2, <1>8 DEF AdjTime, Inv, TypeOK
  <1>13. time_constant' \in 0 .. MAXTC
    BY <1>4 DEF AdjTime
  <1>14. pps_shift' \in PPS_FAVG .. PPS_FAVGMAX
    BY KtimeAssumption DEF AdjTime, Inv, TypeOK
  <1>15. pps_shiftmax' \in PPS_FAVG .. PPS_FAVGMAX
    BY <1>2, KtimeAssumption DEF AdjTime, ShiftMaxAfter, Inv, TypeOK
  <1> QED BY <1>9, <1>10, <1>11, <1>12, <1>13, <1>14, <1>15, UpdateInv, Zenon

LeapFlags == {"STA_INS", "STA_DEL"}

(* What an update makes of the status word leaves the leap bits alone.     *)
LEMMA UpdatedBits ==
    ASSUME NEW status, NEW constant, NEW offset
    PROVE  hardupdate(status, constant, offset).status \cap LeapFlags
                = status \cap LeapFlags
  <1>1. \A m : NewMode(status, m) \cap LeapFlags = status \cap LeapFlags
    BY DEF NewMode, LeapFlags
  <1>2. CASE "STA_PLL" \notin status
    BY <1>2 DEF hardupdate, Unlocked
  <1>3. CASE "STA_PLL" \in status
    BY <1>1, <1>3 DEF hardupdate
  <1> QED BY <1>2, <1>3

LEMMA RequestedBits ==
    ASSUME NEW r
    PROVE  LoopAfter(r).status \cap LeapFlags =
                IF "MOD_STATUS" \in r.modes THEN r.status \cap LeapFlags
                ELSE time_status \cap LeapFlags
  <1>1. WrittenStatus(r) \cap LeapFlags =
                IF "MOD_STATUS" \in r.modes THEN r.status \cap LeapFlags
                ELSE time_status \cap LeapFlags
    <2>1. STA_RONLY \cap LeapFlags = {}
      BY DEF STA_RONLY, LeapFlags
    <2> QED BY <2>1 DEF WrittenStatus
  <1>2. \A status, setter, clearer :
            /\ SelectBit(status, r.modes, setter, clearer, "STA_NANO")
                    \cap LeapFlags = status \cap LeapFlags
            /\ SelectBit(status, r.modes, setter, clearer, "STA_CLK")
                    \cap LeapFlags = status \cap LeapFlags
    BY DEF SelectBit, LeapFlags
  <1>3. SelectedStatus(r) \cap LeapFlags = WrittenStatus(r) \cap LeapFlags
    BY <1>2 DEF SelectedStatus
  <1>4. LoopAfter(r).status \cap LeapFlags = SelectedStatus(r) \cap LeapFlags
    <2>1. CASE "MOD_OFFSET" \in r.modes
      BY <2>1, UpdatedBits DEF LoopAfter
    <2>2. CASE "MOD_OFFSET" \notin r.modes
      BY <2>2 DEF LoopAfter, Unlocked
    <2> QED BY <2>1, <2>2
  <1> QED BY <1>1, <1>3, <1>4

LEMMA StutterInv == Inv /\ UNCHANGED kvars => Inv'
  <1> SUFFICES ASSUME Inv, UNCHANGED kvars PROVE Inv'
    OBVIOUS
  <1>1. UNCHANGED <<tv_sec, tv_nsec, time_state, time_status, time_tai,
                    time_monitor, time_constant, time_maxerror,
                    time_esterror, time_reftime, time_offset, time_freq,
                    time_adj, time_phase, pps_freq, pps_shift, pps_shiftmax,
                    pps_valid>>
    BY DEF kvars, timevar, leapVars, loopVars, errorVars, tickVars, ppsVars
  <1> QED BY <1>1 DEF Inv, TypeOK, Normalized, ResidueBounded,
               PhaseWithin, FreqClamped, RunsForward, ReftimeNotAhead,
               LeapAtMidnight

(* A call of the kernel with any arguments.  Spec chooses them from its    *)
(* constants; the compositions of the kernel with its callers do not.      *)
AnyCall ==
    \/ Tick
    \/ SecondOverflow
    \/ \E r \in TimexRequest : AdjTime(r)
    \/ \E offset \in Int : Discipline(offset)

LEMMA NextIsCall == [Next]_kvars => [AnyCall]_kvars
  BY KtimeAssumption DEF Next, AnyCall

LEMMA CallInv == Inv /\ [AnyCall]_kvars => Inv'
  <1> SUFFICES ASSUME Inv, [AnyCall]_kvars PROVE Inv'
    OBVIOUS
  <1>1. CASE Tick
    BY <1>1, TickInv
  <1>2. CASE SecondOverflow
    BY <1>2, SecondOverflowInv
  <1>3. CASE \E r \in TimexRequest : AdjTime(r)
    BY <1>3, AdjTimeInv
  <1>4. CASE \E offset \in Int : Discipline(offset)
    BY <1>4, DisciplineInv
  <1>5. CASE UNCHANGED kvars
    BY <1>5, StutterInv
  <1> QED BY <1>1, <1>2, <1>3, <1>4, <1>5 DEF AnyCall

LEMMA NextInv == Inv /\ [Next]_kvars => Inv'
  BY NextIsCall, CallInv

(* The whole invariant holds in every state, for every tick rate, length   *)
(* of the day, limits of the loop, and calls that are made.                *)
THEOREM InvHolds == Spec => []Inv
  BY InitInv, NextInv, PTL DEF Spec

(* A call takes nothing outside the envelope that is within it.            *)
LEMMA EnvelopeStep ==
    ASSUME Inv, Inv', Envelope, [AnyCall]_kvars
    PROVE  Envelope'
  <1>1. PhaseWithin(MAXPHASE)
    BY DEF Envelope
  <1>2. time_monitor' \in -MAXPHASE .. MAXPHASE /\ FreqClamped'
    BY DEF Inv, PhaseWithin
  <1>3. LoadedOffset = L_LINT(-MAXPHASE) .. L_LINT(MAXPHASE)
    BY <1>1 DEF PhaseWithin, LoadedOffset
  <1>4. time_offset' \in L_LINT(-MAXPHASE) .. L_LINT(MAXPHASE)
    <2>1. CASE Tick \/ UNCHANGED kvars
      BY <1>1, <2>1 DEF Tick, kvars, PhaseWithin
    <2>2. CASE SecondOverflow
      BY <1>1, <2>2, LeftWithin DEF SecondOverflow, Inv
    <2>3. CASE \E r \in TimexRequest : AdjTime(r)
      <3>1. PICK r \in TimexRequest : AdjTime(r)
        BY <2>3
      <3>2. time_offset' = LoopAfter(r).offset
        BY <3>1 DEF AdjTime
      <3> QED BY <1>3, <3>2, RequestLoads
    <2>4. CASE \E offset \in Int : Discipline(offset)
      <3>1. PICK offset \in Int : Discipline(offset)
        BY <2>4
      <3>2. time_offset' =
                hardupdate(time_status, time_constant, offset).offset
        BY <3>1 DEF Discipline
      <3> QED BY <1>3, <3>2, HardupdateSafe DEF Inv, TypeOK
    <2> QED BY <2>1, <2>2, <2>3, <2>4 DEF AnyCall
  <1> QED BY <1>2, <1>4 DEF Envelope, PhaseWithin

LEMMA StartEnvelope ==
    ASSUME Inv, time_offset = 0
    PROVE  Envelope
  <1>1. 0 \in L_LINT(-MAXPHASE) .. L_LINT(MAXPHASE)
    BY ReachType
  <1> QED BY <1>1 DEF Inv, Envelope, PhaseWithin

(* The performance envelope of timex.h is never left.                      *)
THEOREM EnvelopeHolds == Spec => []Envelope
  <1>1. Init => Envelope
    BY InitInv, StartEnvelope DEF Init
  <1>2. Inv /\ Inv' /\ Envelope /\ [Next]_kvars => Envelope'
    BY NextIsCall, EnvelopeStep
  <1> QED BY <1>1, <1>2, InvHolds, PTL DEF Spec

(* TIMEVAR is a normalized time between ticks: a single carry is enough.   *)
THEOREM ClockNormalized == Spec => []Normalized
  <1>1. Inv => Normalized
    BY DEF Inv
  <1> QED BY <1>1, InvHolds, PTL

(* The adjustment of a second never stops the clock nor doubles its rate.  *)
THEOREM RunsForwardHolds == Spec => []RunsForward
  <1>1. Inv => RunsForward
    BY DEF Inv
  <1> QED BY <1>1, InvHolds, PTL

(* The update interval that hardupdate() computes is never negative.       *)
THEOREM ReftimeHolds == Spec => []ReftimeNotAhead
  <1>1. Inv => ReftimeNotAhead
    BY DEF Inv
  <1> QED BY <1>1, InvHolds, PTL

(* The states of the clock keep their types, and the time offset and the   *)
(* frequency their widths, whatever calls are made.                        *)
THEOREM TypeHolds == Spec => []TypeOK
  <1>1. Inv => TypeOK
    BY DEF Inv
  <1> QED BY <1>1, InvHolds, PTL

(* The last second of an inserted leap second is the last of its day.      *)
THEOREM LeapAtMidnightHolds == Spec => []LeapAtMidnight
  <1>1. Inv => LeapAtMidnight
    BY DEF Inv
  <1> QED BY <1>1, InvHolds, PTL

(* The division of a second into ticks loses nothing: what is carried from *)
(* tick to tick is less than a nanosecond for each tick of the second.     *)
THEOREM ResidueHolds == Spec => []ResidueBounded
  <1>1. Inv => ResidueBounded
    BY DEF Inv
  <1> QED BY <1>1, InvHolds, PTL

(* The end of a second sets the clock back only to insert one.             *)
LEMMA ForwardRollover ==
    ASSUME Inv, LeapStep(tv_sec + 1)
    PROVE  \/ tv_sec' > tv_sec
           \/ /\ time_state = "TIME_INS" /\ time_state' = "TIME_OOP"
              /\ tv_sec' = tv_sec
  <1> DEFINE sec == tv_sec + 1
  <1>1. tv_sec \in Nat
    BY DEF Inv, TypeOK
  <1>2. CASE InsertSecond(sec)
    BY <1>1, <1>2 DEF InsertSecond
  <1>3. CASE DeleteSecond(sec)
    <2>1. tv_sec' = sec + 1
      BY <1>3, Zenon DEF DeleteSecond
    <2> QED BY <1>1, <2>1
  <1>4. CASE ~InsertSecond(sec) /\ ~DeleteSecond(sec)
    <2>1. tv_sec' = sec
      BY <1>4, Zenon
      DEF LeapStep, NoWarning, WarningWithdrawn, WarningPending,
          EndInsertion, WaitForBits
    <2> QED BY <1>1, <2>1
  <1> QED BY <1>2, <1>3, <1>4

LEMMA ForwardStep ==
    ASSUME Inv, [AnyCall]_kvars
    PROVE  \/ UNCHANGED timevar
           \/ tv_sec' > tv_sec
           \/ tv_sec' = tv_sec /\ tv_nsec' >= tv_nsec
           \/ /\ time_state = "TIME_INS" /\ time_state' = "TIME_OOP"
              /\ tv_sec' = tv_sec
  <1>1. tv_sec \in Nat /\ tv_nsec \in Int
    BY DEF Inv, TypeOK
  <1>2. CASE Tick
    <2>1. TickUpdate \in 0 .. NANOSECOND
      BY TickBounds DEF Inv
    <2>2. tv_sec' = tv_sec /\ tv_nsec' = tv_nsec + TickUpdate
      BY <1>2 DEF Tick, TickAdjusted
    <2> QED BY <1>1, <2>1, <2>2
  <1>3. CASE SecondOverflow
    BY <1>3, ForwardRollover DEF SecondOverflow
  <1>4. CASE \E r \in TimexRequest : AdjTime(r)
    BY <1>4 DEF AdjTime
  <1>5. CASE \E offset \in Int : Discipline(offset)
    BY <1>5 DEF Discipline
  <1>6. CASE UNCHANGED kvars
    BY <1>6 DEF kvars
  <1> QED BY <1>2, <1>3, <1>4, <1>5, <1>6 DEF AnyCall

(* No call but the tick that begins an inserted second sets the clock back.*)
THEOREM ForwardHolds == Spec => ForwardOutsideLeap
  <1>1. Inv /\ [Next]_kvars =>
            [ \/ tv_sec' > tv_sec
              \/ tv_sec' = tv_sec /\ tv_nsec' >= tv_nsec
              \/ /\ time_state = "TIME_INS" /\ time_state' = "TIME_OOP"
                 /\ tv_sec' = tv_sec ]_timevar
    BY NextIsCall, ForwardStep
  <1> QED BY <1>1, InvHolds, PTL DEF Spec, ForwardOutsideLeap

(* The amortization of an offset converges from one side.                  *)
LEMMA AmortizedStep ==
    ASSUME Inv, SecondOverflow
    PROVE  IF time_offset >= 0 THEN time_offset' \in 0 .. time_offset
           ELSE time_offset' \in time_offset .. 0
  <1>1. time_offset \in Int
    BY DEF Inv, TypeOK
  <1>2. /\ Amortized \in Int
        /\ time_offset >= 0 => Amortized \in 0 .. time_offset
        /\ time_offset <= 0 => Amortized \in time_offset .. 0
    BY AmortizedPart DEF Inv
  <1>3. time_offset' = time_offset - Amortized
    BY DEF SecondOverflow, OffsetLeft
  <1> QED BY <1>1, <1>2, <1>3

(* No second takes more off an offset than is left of it: the sign of what *)
(* is left never changes, at any time constant.                            *)
THEOREM NoOvershootHolds == Spec => NoOvershoot
  <1>1. Inv /\ [Next]_kvars =>
            [ SecondOverflow =>
                IF time_offset >= 0 THEN time_offset' \in 0 .. time_offset
                ELSE time_offset' \in time_offset .. 0 ]_kvars
    BY AmortizedStep
  <1> QED BY <1>1, InvHolds, PTL DEF Spec, NoOvershoot

(* Each way out of the switch on the clock's state counts one second.      *)
LEMMA ElapsedStep ==
    ASSUME Inv, LeapStep(tv_sec + 1)
    PROVE  Elapsed' = Elapsed + 1
  <1> DEFINE sec == tv_sec + 1
  <1>1. tv_sec \in Nat /\ time_tai \in Int
    BY DEF Inv, TypeOK
  <1>2. CASE InsertSecond(sec)
    BY <1>1, <1>2 DEF InsertSecond, Elapsed
  <1>3. CASE DeleteSecond(sec)
    BY <1>1, <1>3 DEF DeleteSecond, Elapsed
  <1>4. CASE EndInsertion(sec)
    BY <1>1, <1>4 DEF EndInsertion, Elapsed
  <1>5. CASE ~ \/ InsertSecond(sec) \/ DeleteSecond(sec)
               \/ EndInsertion(sec)
    <2>1. /\ tv_sec' = sec /\ time_tai' = time_tai
          /\ time_state # "TIME_OOP" /\ time_state' # "TIME_OOP"
      BY <1>5, Zenon
      DEF LeapStep, NoWarning, WarningWithdrawn, WarningPending, WaitForBits
    <2> QED BY <1>1, <2>1 DEF Elapsed
  <1> QED BY <1>2, <1>3, <1>4, <1>5

(* A leap second, however it is interleaved with calls, leaves the count   *)
(* of atomic seconds without a gap or a repetition.                        *)
THEOREM TaiContinuousHolds == Spec => TaiContinuous
  <1>1. Inv /\ [Next]_kvars => [SecondOverflow => Elapsed' = Elapsed + 1]_kvars
    BY ElapsedStep DEF SecondOverflow
  <1> QED BY <1>1, InvHolds, PTL DEF Spec, TaiContinuous

(***************************************************************************)
(* The direction of an update.  Reach is the largest offset that, shifted  *)
(* left four places, fits a long and is not clamped.  The assumption is on *)
(* the time between updates, of which NoWrap says that the integral gain   *)
(* of the PLL does not overflow an l_fp: with the constants of ktime.c     *)
(* that is a time of 18 hours.                                             *)
(***************************************************************************)
Reach == IF MAXPHASE <= LONG_HALF \div 16 THEN MAXPHASE
         ELSE LONG_HALF \div 16

PllReach(constant) == L_RSHIFT(L_LINT(Reach), 2 * (SHIFT_PLL + 2 + constant))

FllReach == L_RSHIFT(L_LINT(LONG_HALF), SHIFT_FLL + 4)

NoWrap(interval) ==
    \A constant \in 0 .. MAXTC :
        PllReach(constant) * interval + FllReach + L_LINT(MAXFREQ + 1)
            <= LONG_HALF * FRAC

IntervalsWithin(interval) ==
    \A start \in StartSecs : MaxSec + 1 - start <= interval

LEMMA WrapLongFits ==
    ASSUME NEW x \in Int, -LONG_HALF <= x, x < LONG_HALF
    PROVE  WrapLong(x) = x
  <1>1. \A a \in Nat, d \in Nat \ {0} : a < d => a % d = a
    OBVIOUS
  <1>2. /\ x + LONG_HALF \in Nat /\ 2 * LONG_HALF \in Nat \ {0}
        /\ x + LONG_HALF < 2 * LONG_HALF
    BY TimexAssumption
  <1>3. (x + LONG_HALF) % (2 * LONG_HALF) = x + LONG_HALF
    BY <1>1, <1>2
  <1> QED BY <1>3, TimexAssumption DEF WrapLong

LEMMA WrapFpFits ==
    ASSUME NEW x \in Int, -(LONG_HALF * FRAC) <= x, x < LONG_HALF * FRAC
    PROVE  WrapFp(x) = x
  <1> DEFINE half == LONG_HALF * FRAC
  <1>1. \A a \in Nat, d \in Nat \ {0} : a < d => a % d = a
    OBVIOUS
  <1>2. half \in Nat \ {0} /\ 2 * LONG_HALF * FRAC = 2 * half
    BY TimexAssumption
  <1>3. WrapFp(x) = ((x + half) % (2 * half)) - half
    BY <1>2 DEF WrapFp
  <1>4. -half <= x /\ x < half
    OBVIOUS
  <1> HIDE DEF half
  <1>5. /\ x + half \in Nat /\ 2 * half \in Nat \ {0}
        /\ x + half < 2 * half
    BY <1>2, <1>4
  <1>6. (x + half) % (2 * half) = x + half
    BY <1>1, <1>5
  <1> QED BY <1>2, <1>3, <1>6

(* Truncating division is monotonic and odd.                               *)
LEMMA DivMono ==
    ASSUME NEW a \in Nat, NEW b \in Nat, NEW d \in Nat \ {0}, a <= b
    PROVE  a \div d <= b \div d
  <1> DEFINE p == a \div d
             q == b \div d
  <1>1. /\ p \in Nat /\ d * p <= a
        /\ q \in Nat /\ b < d * q + d
    BY DivNat
  <1> HIDE DEF p, q
  <1>2. (q + 1) * d = d * q + d /\ p * d = d * p
    BY <1>1
  <1>3. /\ d * q \in Int /\ d * p \in Int
        /\ d * p < d * q + d
    BY <1>1
  <1>4. p * d < (q + 1) * d
    BY <1>2, <1>3
  <1>5. p < q + 1
    BY <1>1, <1>4, MulCancel
  <1> QED BY <1>1, <1>5 DEF p, q

LEMMA CDivMono ==
    ASSUME NEW a \in Int, NEW b \in Int, NEW d \in Nat \ {0}, a <= b
    PROVE  CDiv(a, d) <= CDiv(b, d)
  <1>1. /\ CDiv(a, d) \in Int /\ CDiv(b, d) \in Int
        /\ a <= 0 => CDiv(a, d) <= 0
        /\ b >= 0 => CDiv(b, d) >= 0
    BY CDivShrinks
  <1>2. CASE a >= 0
    BY <1>2, DivMono DEF CDiv
  <1>3. CASE b < 0
    <2>1. -b \in Nat /\ -a \in Nat /\ -b <= -a /\ ~(a >= 0) /\ ~(b >= 0)
      BY <1>3
    <2>2. (-b) \div d <= (-a) \div d
      BY <2>1, DivMono
    <2>3. (-b) \div d \in Int /\ (-a) \div d \in Int
      BY <2>1
    <2>4. CDiv(a, d) = -((-a) \div d) /\ CDiv(b, d) = -((-b) \div d)
      BY <2>1, Zenon DEF CDiv
    <2> QED BY <2>2, <2>3, <2>4
  <1>4. CASE a < 0 /\ b >= 0
    BY <1>1, <1>4
  <1> QED BY <1>2, <1>3, <1>4

LEMMA CDivOdd ==
    ASSUME NEW a \in Nat, NEW d \in Nat \ {0}
    PROVE  CDiv(-a, d) = -CDiv(a, d)
  <1>1. a \div d \in Nat /\ CDiv(a, d) = a \div d
    BY DEF CDiv
  <1>2. CASE a = 0
    <2>1. CDiv(0, d) \in 0 .. 0
      BY CDivShrinks
    <2> QED BY <1>2, <2>1
  <1>3. CASE a > 0
    <2>1. ~(-a >= 0) /\ -(-a) = a
      BY <1>3
    <2>2. CDiv(-a, d) = -((-(-a)) \div d)
      BY <2>1, Zenon DEF CDiv
    <2> QED BY <1>1, <2>1, <2>2
  <1> QED BY <1>2, <1>3

(* What is within a limit stays within it, divided.                        *)
LEMMA CDivWithin ==
    ASSUME NEW a \in Int, NEW limit \in Nat, NEW d \in Nat \ {0},
           -limit <= a, a <= limit
    PROVE  -CDiv(limit, d) <= CDiv(a, d) /\ CDiv(a, d) <= CDiv(limit, d)
  <1>1. CDiv(-limit, d) <= CDiv(a, d) /\ CDiv(a, d) <= CDiv(limit, d)
    BY CDivMono
  <1> QED BY <1>1, CDivOdd

LEMMA GintMono ==
    ASSUME NEW a \in Int, NEW b \in Int, a <= b
    PROVE  L_GINT(a) <= L_GINT(b)
  BY CDivMono, FracType DEF L_GINT

LEMMA LintMono ==
    ASSUME NEW a \in Int, NEW b \in Int, a <= b
    PROVE  L_LINT(a) <= L_LINT(b)
  BY MulMono, FracType DEF L_LINT

LEMMA LintOdd ==
    ASSUME NEW a \in Int
    PROVE  L_LINT(-a) = -L_LINT(a) /\ L_LINT(0) = 0
  BY FracType DEF L_LINT

LEMMA ShiftWithin ==
    ASSUME NEW m \in Int, NEW limit \in Nat, NEW n \in Nat,
           -limit <= m, m <= limit
    PROVE  /\ L_RSHIFT(L_LINT(m), n) \in Int
           /\ L_RSHIFT(L_LINT(limit), n) \in Nat
           /\ -L_RSHIFT(L_LINT(limit), n) <= L_RSHIFT(L_LINT(m), n)
           /\ L_RSHIFT(L_LINT(m), n) <= L_RSHIFT(L_LINT(limit), n)
           /\ m >= 0 => L_RSHIFT(L_LINT(m), n) >= 0
           /\ m <= 0 => L_RSHIFT(L_LINT(m), n) <= 0
  <1> DEFINE v == L_LINT(m)
             w == L_LINT(limit)
  <1>1. /\ v \in Int /\ w \in Int /\ v <= w /\ -w <= v /\ w >= 0
        /\ m >= 0 => v >= 0
        /\ m <= 0 => v <= 0
    <2>1. L_LINT(-limit) <= v /\ v <= w
      BY LintMono
    <2>2. /\ m >= 0 => L_LINT(0) <= v
          /\ m <= 0 => v <= L_LINT(0)
          /\ L_LINT(0) <= w
      BY LintMono
    <2> QED BY <2>1, <2>2, LintOdd, LintType
  <1> HIDE DEF v, w
  <1>2. PowerOfTwo[n] \in Nat \ {0}
    BY PowerType
  <1>3. /\ -CDiv(w, PowerOfTwo[n]) <= CDiv(v, PowerOfTwo[n])
        /\ CDiv(v, PowerOfTwo[n]) <= CDiv(w, PowerOfTwo[n])
    BY <1>1, <1>2, CDivWithin
  <1>4. /\ L_RSHIFT(v, n) \in Int /\ L_RSHIFT(w, n) \in 0 .. w
        /\ v >= 0 => L_RSHIFT(v, n) \in 0 .. v
        /\ v <= 0 => L_RSHIFT(v, n) \in v .. 0
    BY <1>1, ShiftShrinks
  <1> QED BY <1>1, <1>3, <1>4 DEF L_RSHIFT, v, w

LEMMA ProductWithin ==
    ASSUME NEW g \in Int, NEW r \in Nat, NEW t \in Nat, NEW i \in Nat,
           -r <= g, g <= r, t <= i
    PROVE  /\ g * t \in Int /\ r * i \in Nat
           /\ -(r * i) <= g * t /\ g * t <= r * i
           /\ g >= 0 => g * t >= 0
           /\ g <= 0 => g * t <= 0
  <1>1. \A a, b, c \in Nat : a <= b => a * c <= b * c /\ c * a <= c * b
    OBVIOUS
  <1>2. r * t <= r * i /\ r * t \in Nat /\ r * i \in Nat
    BY <1>1
  <1>3. CASE g >= 0
    <2>1. g * t <= r * t /\ g * t \in Nat
      BY <1>1, <1>3
    <2> QED BY <1>2, <1>3, <2>1
  <1>4. CASE g <= 0
    <2>1. -g \in Nat /\ -g <= r
      BY <1>4
    <2>2. (-g) * t <= r * t /\ (-g) * t \in Nat
      BY <1>1, <2>1
    <2>3. (-g) * t = -(g * t) /\ g * t \in Int
      OBVIOUS
    <2>4. g = 0 => g * t = 0
      OBVIOUS
    <2> QED BY <1>2, <1>4, <2>2, <2>3, <2>4
  <1> QED BY <1>3, <1>4

(* The two terms of an update have the sign of the offset, and a bound.    *)
Within(x, limit) == -limit <= x /\ x <= limit

LEMMA PllTermWithin ==
    ASSUME NEW m \in Int, Within(m, Reach), NEW constant \in 0 .. MAXTC,
           NEW t \in Nat, NEW i \in Nat, t <= i, NoWrap(i)
    PROVE  /\ PllTerm(m, constant, t) \in Int
           /\ PllReach(constant) * i \in Nat
           /\ Within(PllTerm(m, constant, t), PllReach(constant) * i)
           /\ m >= 0 => PllTerm(m, constant, t) >= 0
           /\ m <= 0 => PllTerm(m, constant, t) <= 0
  <1> DEFINE n == 2 * (SHIFT_PLL + 2 + constant)
             g == L_RSHIFT(L_LINT(m), n)
             r == PllReach(constant)
  <1>1. Reach \in Nat
    BY TimexAssumption DEF Reach
  <1>2. n \in Nat
    BY TimexAssumption, KtimeAssumption
  <1> HIDE DEF n
  <1>3. /\ g \in Int /\ L_RSHIFT(L_LINT(Reach), n) \in Nat
        /\ -L_RSHIFT(L_LINT(Reach), n) <= g
        /\ g <= L_RSHIFT(L_LINT(Reach), n)
        /\ m >= 0 => g >= 0
        /\ m <= 0 => g <= 0
    BY <1>1, <1>2, ShiftWithin DEF Within
  <1>4. L_RSHIFT(L_LINT(Reach), n) = r
    BY DEF PllReach, n
  <1> HIDE DEF g, r
  <1>5. /\ g * t \in Int /\ r * i \in Nat
        /\ -(r * i) <= g * t /\ g * t <= r * i
        /\ g >= 0 => g * t >= 0
        /\ g <= 0 => g * t <= 0
    BY <1>3, <1>4, ProductWithin
  <1>6. r * i < LONG_HALF * FRAC
    <2>1. r * i + FllReach + L_LINT(MAXFREQ + 1) <= LONG_HALF * FRAC
      BY DEF NoWrap, r
    <2>2. FllReach \in Nat
      <3>1. LONG_HALF \in Nat /\ SHIFT_FLL + 4 \in Nat
        BY TimexAssumption, KtimeAssumption
      <3>2. L_LINT(LONG_HALF) \in Nat
        BY TimexAssumption DEF L_LINT
      <3>3. L_RSHIFT(L_LINT(LONG_HALF), SHIFT_FLL + 4) \in Nat
        BY <3>1, <3>2, ShiftShrinks
      <3> QED BY <3>3 DEF FllReach
    <2>3. L_LINT(MAXFREQ + 1) > 0 /\ L_LINT(MAXFREQ + 1) \in Int
      BY TimexAssumption DEF L_LINT
    <2>4. LONG_HALF * FRAC \in Int
      BY TimexAssumption
    <2> QED BY <1>5, <2>1, <2>2, <2>3, <2>4
  <1>7. WrapFp(g * t) = g * t
    <2>1. LONG_HALF * FRAC \in Int
      BY TimexAssumption
    <2>2. -(LONG_HALF * FRAC) <= g * t /\ g * t < LONG_HALF * FRAC
      BY <1>5, <1>6, <2>1
    <2> QED BY <1>5, <2>2, WrapFpFits
  <1>8. PllTerm(m, constant, t) = g * t
    BY <1>7 DEF PllTerm, g, n
  <1> QED BY <1>3, <1>5, <1>8 DEF Within, r

LEMMA FllTermWithin ==
    ASSUME NEW m \in Int, Within(m, Reach), m * 16 < LONG_HALF,
           NEW t \in Nat \ {0}
    PROVE  /\ FllTerm(m, t) \in Int /\ FllReach \in Nat
           /\ Within(FllTerm(m, t), FllReach)
           /\ m >= 0 => FllTerm(m, t) >= 0
           /\ m <= 0 => FllTerm(m, t) <= 0
  <1> DEFINE l == m * 16
             q == CDiv(l, t)
  <1>1. Reach \in Nat /\ 16 * Reach <= LONG_HALF
    <2>1. /\ LONG_HALF \div 16 \in Nat
          /\ 16 * (LONG_HALF \div 16) <= LONG_HALF
      BY TimexAssumption
    <2> QED BY <2>1, TimexAssumption DEF Reach
  <1>2. l \in Int /\ -LONG_HALF <= l /\ l < LONG_HALF
    BY <1>1, TimexAssumption DEF Within
  <1>3. WrapLong(l) = l
    BY <1>2, WrapLongFits
  <1>4. /\ q \in Int
        /\ -LONG_HALF <= q /\ q <= LONG_HALF
        /\ m >= 0 => q >= 0
        /\ m <= 0 => q <= 0
    <2>1. /\ CDiv(l, t) \in Int
          /\ l >= 0 => CDiv(l, t) \in 0 .. l
          /\ l <= 0 => CDiv(l, t) \in l .. 0
      BY <1>2, CDivShrinks
    <2>2. (m >= 0 => l >= 0) /\ (m <= 0 => l <= 0)
      OBVIOUS
    <2> HIDE DEF l
    <2> QED BY <1>2, <2>1, <2>2, TimexAssumption
  <1>5. FllTerm(m, t) = L_RSHIFT(L_LINT(q), SHIFT_FLL + 4)
    BY <1>3 DEF FllTerm
  <1> HIDE DEF q
  <1>6. LONG_HALF \in Nat /\ SHIFT_FLL + 4 \in Nat
    BY TimexAssumption, KtimeAssumption
  <1> QED BY <1>4, <1>5, <1>6, ShiftWithin DEF FllReach, Within

(* The frequency after an update, and that before it.                      *)
LEMMA NewFreqDirection ==
    ASSUME TypeOK, FreqClamped,
           NEW status, NEW constant \in 0 .. MAXTC,
           NEW m \in Int, Within(m, Reach), m * 16 < LONG_HALF,
           NEW t \in Nat, NEW i \in Nat, t <= i, NoWrap(i)
    PROVE  /\ m >= 0 => L_GINT(NewFreq(status, constant, m, t))
                            >= L_GINT(time_freq)
           /\ m <= 0 => L_GINT(NewFreq(status, constant, m, t))
                            <= L_GINT(time_freq)
  <1> DEFINE f == time_freq
             p == PllTerm(m, constant, t)
             uses == UsesFll(status, t)
             q == IF uses THEN FllTerm(m, t) ELSE 0
             half == LONG_HALF * FRAC
             bp == PllReach(constant) * i
             bq == FllReach
             bf == L_LINT(MAXFREQ + 1)
  <1>1. /\ f \in Int /\ half \in Int /\ bf \in Int
        /\ f < bf /\ -f < bf
        /\ L_GINT(f) \in Int
        /\ -MAXFREQ <= L_GINT(f) /\ L_GINT(f) <= MAXFREQ
    <2>1. f \in Int /\ L_GINT(f) \in -MAXFREQ .. MAXFREQ /\ MAXFREQ \in Nat
      BY TimexAssumption DEF TypeOK, FreqClamped
    <2>2. f < bf /\ -f < bf
      BY <2>1, GintBound
    <2>3. half \in Int /\ bf \in Int
      BY <2>1, LintType, TimexAssumption
    <2> QED BY <2>1, <2>2, <2>3
  <1>2. /\ p \in Int /\ bp \in Nat /\ Within(p, bp)
        /\ m >= 0 => p >= 0
        /\ m <= 0 => p <= 0
    BY PllTermWithin
  <1>3. uses => t \in Nat \ {0}
    BY TimexAssumption DEF UsesFll
  <1>4. /\ q \in Int /\ bq \in Nat /\ Within(q, bq)
        /\ m >= 0 => q >= 0
        /\ m <= 0 => q <= 0
    <2>1. FllReach \in Nat
      BY FllTermWithin
    <2>2. CASE uses
      BY <1>3, <2>2, FllTermWithin
    <2>3. CASE ~uses
      BY <2>1, <2>3 DEF Within
    <2> QED BY <2>2, <2>3
  <1>5. bp + bq + bf <= half
    BY DEF NoWrap
  <1> DEFINE sum == f + p + q
  <1>6. NewFreq(status, constant, m, t) =
            IF L_GINT(sum) > MAXFREQ THEN L_LINT(MAXFREQ)
            ELSE IF L_GINT(sum) < -MAXFREQ THEN L_LINT(-MAXFREQ)
            ELSE sum
    <2> DEFINE pll == WrapFp(f + p)
               new == IF uses THEN WrapFp(pll + FllTerm(m, t)) ELSE pll
    <2>1. NewFreq(status, constant, m, t) =
            IF L_GINT(new) > MAXFREQ THEN L_LINT(MAXFREQ)
            ELSE IF L_GINT(new) < -MAXFREQ THEN L_LINT(-MAXFREQ)
            ELSE new
      BY Zenon DEF NewFreq
    <2>2. pll = f + p
      <3> HIDE DEF f, p, half, bp, bq, bf, q
      <3>1. -half <= f + p /\ f + p < half /\ f + p \in Int
        BY <1>1, <1>2, <1>4, <1>5 DEF Within
      <3> QED BY <3>1, WrapFpFits DEF half
    <2>3. WrapFp(f + p + q) = f + p + q
      <3> HIDE DEF f, p, half, bp, bq, bf, q
      <3>1. -half <= f + p + q /\ f + p + q < half /\ f + p + q \in Int
        BY <1>1, <1>2, <1>4, <1>5 DEF Within
      <3> QED BY <3>1, WrapFpFits DEF half
    <2>4. new = sum
      <3>1. CASE uses
        <4>1. q = FllTerm(m, t)
          BY <3>1
        <4> QED BY <2>2, <2>3, <3>1, <4>1
      <3>2. CASE ~uses
        <4>1. q = 0
          BY <3>2
        <4> HIDE DEF f, p, q, uses
        <4> QED BY <1>1, <1>2, <2>2, <3>2, <4>1
      <3> QED BY <3>1, <3>2
    <2> HIDE DEF new, sum
    <2> QED BY <2>1, <2>4
  <1> HIDE DEF f, p, q
  <1>7. /\ sum \in Int
        /\ m >= 0 => f <= sum
        /\ m <= 0 => sum <= f
    BY <1>1, <1>2, <1>4
  <1> HIDE DEF sum
  <1>8. /\ L_GINT(sum) \in Int
        /\ m >= 0 => L_GINT(f) <= L_GINT(sum)
        /\ m <= 0 => L_GINT(sum) <= L_GINT(f)
    BY <1>1, <1>7, GintMono, GintSplit
  <1>9. /\ L_GINT(L_LINT(MAXFREQ)) = MAXFREQ
        /\ L_GINT(L_LINT(-MAXFREQ)) = -MAXFREQ
        /\ MAXFREQ \in Nat
    BY GintLint, TimexAssumption
  <1> DEFINE g == L_GINT(NewFreq(status, constant, m, t))
  <1>10. g = IF L_GINT(sum) > MAXFREQ THEN MAXFREQ
             ELSE IF L_GINT(sum) < -MAXFREQ THEN -MAXFREQ
             ELSE L_GINT(sum)
    BY <1>6, <1>9
  <1> HIDE DEF g
  <1>11. /\ m >= 0 => g >= L_GINT(f)
         /\ m <= 0 => g <= L_GINT(f)
    BY <1>1, <1>8, <1>9, <1>10
  <1> QED BY <1>11 DEF g, f

(* The time between two updates, and the signal that Ktime alone does not  *)
(* have: without it the offset that steers is that of the update.          *)
UpdatesSpaced ==
    /\ "STA_PPSSIGNAL" \notin time_status
    /\ \E start \in StartSecs : tv_sec >= start
    /\ time_reftime # 0 /\ time_reftime # tv_sec =>
            /\ tv_sec <= MaxSec + 1
            /\ \E start \in StartSecs : time_reftime >= start

LEMMA UpdatedStatus ==
    ASSUME NEW status, NEW constant, NEW offset
    PROVE  LET h == hardupdate(status, constant, offset)
           IN  /\ h.reftime \in {time_reftime, tv_sec}
               /\ "STA_PPSSIGNAL" \in h.status => "STA_PPSSIGNAL" \in status
  BY DEF hardupdate, Unlocked, NewMode

LEMMA SpacedInit ==
    ASSUME tv_sec \in StartSecs, "STA_PPSSIGNAL" \notin time_status,
           time_reftime = 0
    PROVE  UpdatesSpaced
  <1>1. tv_sec >= tv_sec
    BY KtimeAssumption
  <1> QED BY <1>1 DEF UpdatesSpaced

LEMMA SpacedStep ==
    ASSUME Inv, UpdatesSpaced, [AnyCall]_kvars
    PROVE  UpdatesSpaced'
  <1>1. /\ tv_sec \in Nat /\ time_reftime \in Nat /\ MaxSec \in Nat
        /\ \A start \in StartSecs : start \in Nat
    BY KtimeAssumption DEF Inv, TypeOK
  <1>2. ASSUME tv_sec' = tv_sec, time_reftime' \in {time_reftime, tv_sec},
               "STA_PPSSIGNAL" \notin time_status'
        PROVE  UpdatesSpaced'
    BY <1>2 DEF UpdatesSpaced
  <1>3. CASE Tick
    BY <1>2, <1>3 DEF Tick, loopVars, UpdatesSpaced
  <1>4. CASE SecondOverflow
    <2>1. /\ time_reftime' = time_reftime /\ tv_sec < MaxSec
          /\ "STA_PPSSIGNAL" \notin time_status'
      BY <1>4 DEF SecondOverflow, loopVars, PpsWatchdog, UpdatesSpaced
    <2>2. tv_sec' \in Nat /\ tv_sec <= tv_sec' /\ tv_sec' <= tv_sec + 2
      <3>1. tv_sec' \in {tv_sec + 1, tv_sec + 1 - 1, tv_sec + 1 + 1}
        <4> DEFINE sec == tv_sec + 1
        <4>1. LeapStep(sec)
          BY <1>4 DEF SecondOverflow
        <4> HIDE DEF sec
        <4>2. tv_sec' \in {sec, sec - 1, sec + 1}
          BY <4>1, Zenon DEF LeapStep, NoWarning, WarningWithdrawn,
             WarningPending, InsertSecond, DeleteSecond, EndInsertion,
             WaitForBits
        <4> QED BY <1>1, <4>2 DEF sec
      <3> QED BY <1>1, <3>1
    <2>3. \E start \in StartSecs : tv_sec' >= start
      BY <1>1, <2>2 DEF UpdatesSpaced
    <2>4. ASSUME time_reftime # 0
          PROVE  \E start \in StartSecs : time_reftime >= start
      BY <2>4 DEF UpdatesSpaced
    <2>5. tv_sec' <= MaxSec + 1
      BY <1>1, <2>1, <2>2
    <2> QED BY <2>1, <2>3, <2>4, <2>5 DEF UpdatesSpaced
  <1>5. CASE \E r \in TimexRequest : AdjTime(r)
    <2>1. PICK r \in TimexRequest : AdjTime(r)
      BY <1>5
    <2>2. "STA_PPSSIGNAL" \notin SelectedStatus(r)
      <3>1. "STA_PPSSIGNAL" \notin WrittenStatus(r)
        BY DEF WrittenStatus, STA_RONLY, UpdatesSpaced
      <3> QED BY <3>1 DEF SelectedStatus, SelectBit
    <2>3. /\ LoopAfter(r).reftime \in {time_reftime, tv_sec}
          /\ "STA_PPSSIGNAL" \notin LoopAfter(r).status
      <3>1. CASE "MOD_OFFSET" \in r.modes
        BY <2>2, <3>1, UpdatedStatus DEF LoopAfter
      <3>2. CASE "MOD_OFFSET" \notin r.modes
        BY <2>2, <3>2 DEF LoopAfter, Unlocked
      <3> QED BY <3>1, <3>2
    <2>4. /\ tv_sec' = tv_sec /\ time_reftime' = LoopAfter(r).reftime
          /\ time_status' = LoopAfter(r).status
      BY <2>1 DEF AdjTime, timevar
    <2> QED BY <1>2, <2>3, <2>4
  <1>6. CASE \E offset \in Int : Discipline(offset)
    <2>1. PICK offset \in Int : Discipline(offset)
      BY <1>6
    <2> DEFINE h == hardupdate(time_status, time_constant, offset)
    <2>2. /\ h.reftime \in {time_reftime, tv_sec}
          /\ "STA_PPSSIGNAL" \notin h.status
      BY UpdatedStatus DEF UpdatesSpaced
    <2>3. /\ tv_sec' = tv_sec /\ time_reftime' = h.reftime
          /\ time_status' = h.status
      BY <2>1 DEF Discipline, timevar
    <2> QED BY <1>2, <2>2, <2>3
  <1>7. CASE UNCHANGED kvars
    BY <1>2, <1>7 DEF kvars, timevar, loopVars, UpdatesSpaced
  <1> QED BY <1>3, <1>4, <1>5, <1>6, <1>7 DEF AnyCall

LEMMA UpdateDirected ==
    ASSUME Inv, UpdatesSpaced, NEW interval \in Nat, NoWrap(interval),
           IntervalsWithin(interval),
           NEW offset \in Int, Discipline(offset), InRange(offset)
    PROVE  /\ L_GINT(time_freq') > L_GINT(time_freq) => offset > 0
           /\ L_GINT(time_freq') < L_GINT(time_freq) => offset < 0
  <1> DEFINE status == time_status
             h == hardupdate(status, time_constant, offset)
             m == Monitored(status, offset)
             t == UpdateInterval(status)
  <1>1. time_freq' = h.freq
    BY DEF Discipline
  <1>2. /\ offset \in Int /\ time_constant \in 0 .. MAXTC
        /\ tv_sec \in Nat /\ time_reftime \in Nat /\ time_reftime <= tv_sec
        /\ TypeOK /\ FreqClamped /\ MaxSec \in Nat
        /\ \A start \in StartSecs : start \in Nat
    BY KtimeAssumption DEF Inv, TypeOK, PhaseWithin, ReftimeNotAhead
  <1>3. L_GINT(time_freq) \in Int
    BY <1>2 DEF FreqClamped
  <1>4. /\ m \in Int /\ Within(m, Reach) /\ m * 16 < LONG_HALF
        /\ offset >= 0 => m >= 0
        /\ offset <= 0 => m <= 0
    <2>1. m = Clamp(offset, MAXPHASE)
      BY DEF Monitored, PpsTiming, UpdatesSpaced
    <2>2. -LONG_HALF <= offset * 16 /\ offset * 16 < LONG_HALF
      <3> DEFINE w == (offset * 16 + LONG_HALF) % (2 * LONG_HALF)
      <3>1. w \in 0 .. 2 * LONG_HALF - 1
        <4>1. \A a \in Int, d \in Nat \ {0} : a % d \in 0 .. d - 1
          OBVIOUS
        <4>2. offset * 16 + LONG_HALF \in Int /\ 2 * LONG_HALF \in Nat \ {0}
          BY <1>2, TimexAssumption
        <4> QED BY <4>1, <4>2
      <3>2. w - LONG_HALF = offset * 16
        BY DEF InRange, WrapLong
      <3> HIDE DEF w
      <3> QED BY <1>2, <3>1, <3>2, TimexAssumption
    <2> DEFINE limit == LONG_HALF \div 16
    <2>3. /\ limit \in Nat /\ LONG_HALF < 16 * limit + 16
          /\ LONG_HALF \in Nat /\ MAXPHASE \in Nat
      BY TimexAssumption
    <2>4. Reach = IF MAXPHASE <= limit THEN MAXPHASE ELSE limit
      BY DEF Reach
    <2> HIDE DEF limit
    <2>5. -limit <= offset /\ offset <= limit
      BY <1>2, <2>2, <2>3
    <2>6. /\ m \in Int /\ -MAXPHASE <= m /\ m <= MAXPHASE
          /\ offset >= 0 => 0 <= m /\ m <= offset
          /\ offset <= 0 => m <= 0 /\ offset <= m
      BY <1>2, <2>1, <2>3 DEF Clamp
    <2> HIDE DEF m
    <2>7. -Reach <= m /\ m <= Reach /\ m * 16 < LONG_HALF
      BY <1>2, <2>2, <2>3, <2>4, <2>5, <2>6
    <2> QED BY <1>2, <2>6, <2>7 DEF Within
  <1>5. t \in Nat /\ t <= interval
    <2>1. CASE time_reftime = 0 \/ "STA_FREQHOLD" \in status
      BY <2>1 DEF UpdateInterval
    <2>2. CASE time_reftime = tv_sec
      BY <1>2, <2>2 DEF UpdateInterval
    <2>3. CASE ~(time_reftime = 0 \/ "STA_FREQHOLD" \in status)
               /\ time_reftime # tv_sec
      <3>1. t = tv_sec - time_reftime
        BY <2>3 DEF UpdateInterval
      <3>2. PICK start \in StartSecs : time_reftime >= start
        BY <2>3 DEF UpdatesSpaced
      <3>3. tv_sec <= MaxSec + 1 /\ MaxSec + 1 - start <= interval
        BY <2>3, <3>2 DEF UpdatesSpaced, IntervalsWithin
      <3> QED BY <1>2, <3>1, <3>2, <3>3
    <2> QED BY <2>1, <2>2, <2>3
  <1> HIDE DEF m, t
  <1>6. CASE h.freq = time_freq
    BY <1>1, <1>3, <1>6
  <1>7. CASE h.freq = NewFreq(status, time_constant, m, t)
    <2> DEFINE g == L_GINT(NewFreq(status, time_constant, m, t))
    <2>1. /\ m >= 0 => g >= L_GINT(time_freq)
          /\ m <= 0 => g <= L_GINT(time_freq)
      BY <1>2, <1>4, <1>5, NewFreqDirection
    <2>2. g \in Int
      <3>1. status \in SUBSET STA_BITS
        BY <1>2 DEF TypeOK
      <3>2. t \in Int
        BY <1>5
      <3> QED BY <1>2, <1>4, <3>1, <3>2, NewFreqType
    <2>3. L_GINT(time_freq') = g
      BY <1>1, <1>7
    <2> HIDE DEF g, status
    <2>4. g > L_GINT(time_freq) => offset > 0
      BY <1>2, <1>3, <1>4, <2>1, <2>2
    <2>5. g < L_GINT(time_freq) => offset < 0
      BY <1>2, <1>3, <1>4, <2>1, <2>2
    <2> QED BY <2>3, <2>4, <2>5
  <1>8. h.freq \in {time_freq, NewFreq(status, time_constant, m, t)}
    BY DEF hardupdate, Unlocked, m, t
  <1> QED BY <1>6, <1>7, <1>8

(* An update never steers the frequency away from the offset by a whole    *)
(* nanosecond per second, in PLL or FLL mode and whatever updates and      *)
(* requests came before, as long as none is more than the interval from    *)
(* the one before it: ktime.c:596-660.                                     *)
THEOREM SteersTowardOffsetHolds ==
    ASSUME NEW interval \in Nat, NoWrap(interval), IntervalsWithin(interval)
    PROVE  Spec => SteersTowardOffset
  <1>1. Init => UpdatesSpaced
    BY SpacedInit DEF Init
  <1>2. Inv /\ UpdatesSpaced /\ [Next]_kvars => UpdatesSpaced'
    BY NextIsCall, SpacedStep
  <1>3. Inv /\ UpdatesSpaced /\ [Next]_kvars =>
            [ \A offset \in Offsets :
                Discipline(offset) /\ InRange(offset) =>
                    /\ L_GINT(time_freq') > L_GINT(time_freq) => offset > 0
                    /\ L_GINT(time_freq') < L_GINT(time_freq) => offset < 0
            ]_kvars
    BY KtimeAssumption, UpdateDirected
  <1> QED
    BY <1>1, <1>2, <1>3, InvHolds, PTL DEF Spec, SteersTowardOffset

(***************************************************************************)
(* How an offset settles.  After n seconds what is left is below a line    *)
(* that falls, in as many seconds as a part has units, from one number of  *)
(* whole parts to half of it; each second amortizes a unit of each part.   *)
(***************************************************************************)
Magnitude == IF time_offset < 0 THEN -time_offset ELSE time_offset

PartsAfter(k) == WholeParts(L_LINT(MAXPHASE)) \div PowerOfTwo[k]

Below(m, k, j) ==
    \/ m + j * (PartsAfter(k + 1) + 1) < (PartsAfter(k) + 1) * SettlingPart
    \/ m < (PartsAfter(k + 1) + 1) * SettlingPart

SettledTo(m, n) ==
    \A k \in Nat : \A j \in 0 .. SettlingPart :
        n >= k * SettlingPart + j => Below(m, k, j)

NoSignal == "STA_PPSSIGNAL" \notin time_status

Settling ==
    NoSignal /\ Envelope /\ SettledTo(Magnitude, SettlingSeconds)

LEMMA PartType == SettlingPart \in Nat \ {0}
  <1>1. SHIFT_PLL + MAXTC \in Nat
    BY TimexAssumption, KtimeAssumption
  <1> QED BY <1>1, PowerType DEF SettlingPart

LEMMA DivAnti ==
    ASSUME NEW a \in Nat, NEW d \in Nat \ {0}, NEW e \in Nat \ {0}, d <= e
    PROVE  a \div e <= a \div d
  <1> DEFINE p == a \div e
             q == a \div d
  <1>1. p \in Nat /\ e * p <= a /\ q \in Nat /\ a < d * q + d
    BY DivNat
  <1> HIDE DEF p, q
  <1>2. \A x \in Nat : d * x <= e * x /\ d * x \in Nat /\ e * x \in Nat
    OBVIOUS
  <1>3. d * p < d * q + d
    BY <1>1, <1>2
  <1>4. p * d < (q + 1) * d
    BY <1>1, <1>3
  <1>5. p < q + 1
    BY <1>1, <1>4, MulCancel
  <1> QED BY <1>1, <1>5 DEF p, q

(* The numbers of parts: of the largest offset at first, and then halves.  *)
LEMMA PartsFall ==
    /\ \A k \in Nat : PartsAfter(k) \in Nat
    /\ L_LINT(MAXPHASE) \in Nat
    /\ L_LINT(MAXPHASE) < (PartsAfter(0) + 1) * SettlingPart
    /\ \A k \in Nat : /\ PartsAfter(k + 1) <= PartsAfter(k)
                      /\ PartsAfter(k) <= 2 * PartsAfter(k + 1) + 1
  <1> DEFINE most == L_LINT(MAXPHASE)
             w == WholeParts(most)
  <1>1. most \in Nat
    BY FracType, TimexAssumption DEF L_LINT
  <1> HIDE DEF most
  <1>2. w = most \div SettlingPart
    BY <1>1 DEF WholeParts
  <1> HIDE DEF w
  <1>3. w \in Nat /\ most < SettlingPart * w + SettlingPart
    BY <1>1, <1>2, PartType, DivNat
  <1>4. ASSUME NEW k \in Nat
        PROVE  /\ PartsAfter(k) \in Nat
               /\ PartsAfter(k + 1) <= PartsAfter(k)
               /\ PartsAfter(k) <= 2 * PartsAfter(k + 1) + 1
    <2> DEFINE d == PowerOfTwo[k]
               p == w \div d
               q == w \div (2 * d)
    <2>1. d \in Nat \ {0} /\ PowerOfTwo[k + 1] = 2 * d
      BY PowerType, PowerStep
    <2>2. PartsAfter(k) = p /\ PartsAfter(k + 1) = q
      BY <2>1 DEF PartsAfter, w, most
    <2> HIDE DEF d
    <2>3. 2 * d \in Nat \ {0} /\ d <= 2 * d
      BY <2>1
    <2>4. /\ p \in Nat /\ d * p <= w
          /\ q \in Nat /\ w < (2 * d) * q + 2 * d
      BY <1>3, <2>1, <2>3, DivNat
    <2>5. q <= p
      BY <1>3, <2>1, <2>3, DivAnti
    <2> HIDE DEF p, q
    <2>6. (2 * d) * q + 2 * d = (2 * q + 2) * d /\ d * p = p * d
      BY <2>1, <2>4
    <2>7. p * d < (2 * q + 2) * d
      BY <1>3, <2>1, <2>4, <2>6
    <2>8. p < 2 * q + 2
      BY <2>1, <2>4, <2>7, MulCancel
    <2> QED BY <2>2, <2>4, <2>5, <2>8
  <1>5. PartsAfter(0) = w
    <2>1. PowerOfTwo[0] = 1
      BY PowerStep
    <2> QED BY <1>3, <2>1 DEF PartsAfter, w, most
  <1>6. most < (PartsAfter(0) + 1) * SettlingPart
    BY <1>1, <1>3, <1>5, PartType
  <1> QED BY <1>1, <1>4, <1>6 DEF most

(* One second of amortizing, in the middle of a fall.                      *)
LEMMA FallsOn ==
    ASSUME NEW part \in Nat \ {0}, NEW m \in Nat, NEW left \in Nat,
           NEW a \in Nat, NEW b \in Nat, NEW j \in Nat, j >= 1,
           left <= m - (m \div part),
           m + (j - 1) * a < b \/ m < a * part
    PROVE  left + j * a < b \/ left < a * part
  <1> DEFINE q == m \div part
  <1>1. q \in Nat /\ part * q <= m /\ m < part * q + part
    BY DivNat
  <1> HIDE DEF q
  <1>2. left <= m - q
    BY DEF q
  <1>3. CASE m < a * part
    BY <1>1, <1>2, <1>3
  <1>4. CASE ~(m < a * part)
    <2>1. a * part \in Nat /\ a * part < (q + 1) * part
      BY <1>1, <1>4
    <2>2. a < q + 1
      BY <1>1, <2>1, MulCancel
    <2>3. (j - 1) * a = j * a - a /\ j * a \in Nat
      OBVIOUS
    <2> QED BY <1>1, <1>2, <1>4, <2>2, <2>3
  <1> QED BY <1>3, <1>4

LEMMA SettledOn ==
    ASSUME NEW m \in Nat, NEW left \in Nat, NEW n \in Int, NEW after \in Int,
           SettledTo(m, n), after <= n + 1,
           left <= m - (m \div SettlingPart), left <= L_LINT(MAXPHASE)
    PROVE  SettledTo(left, after)
  <1> DEFINE part == SettlingPart
  <1>1. part \in Nat \ {0}
    BY PartType
  <1>2. \A k \in Nat : /\ PartsAfter(k) \in Nat /\ PartsAfter(k + 1) \in Nat
                      /\ (PartsAfter(k) + 1) * part \in Nat
                      /\ k * part \in Nat
    BY <1>1, PartsFall
  <1>3. ASSUME NEW k \in Nat, NEW j \in 1 .. part, after >= k * part + j
        PROVE  Below(left, k, j)
    <2> DEFINE a == PartsAfter(k + 1) + 1
               b == (PartsAfter(k) + 1) * part
    <2>1. j \in Nat /\ j >= 1 /\ j - 1 \in 0 .. part
      BY <1>1
    <2>2. n >= k * part + (j - 1)
      BY <1>2, <1>3, <2>1
    <2>3. Below(m, k, j - 1)
      BY <2>1, <2>2 DEF SettledTo
    <2>4. m + (j - 1) * a < b \/ m < a * part
      BY <2>3 DEF Below
    <2>5. a \in Nat /\ b \in Nat
      BY <1>2
    <2> HIDE DEF a, b
    <2>6. left + j * a < b \/ left < a * part
      BY <1>1, <2>1, <2>4, <2>5, FallsOn
    <2> QED BY <2>6 DEF Below, a, b
  <1>4. Below(left, 0, 0)
    <2>1. left < (PartsAfter(0) + 1) * part
      BY <1>2, PartsFall
    <2>2. left + 0 * (PartsAfter(0 + 1) + 1) = left
      BY <1>2
    <2> QED BY <2>1, <2>2 DEF Below
  <1>5. ASSUME NEW k \in Nat, k # 0, after >= k * part
        PROVE  Below(left, k, 0)
    <2> DEFINE i == k - 1
               q == PartsAfter(i)
               r == PartsAfter(k)
    <2>1. i \in Nat /\ i + 1 = k
      BY <1>5
    <2> HIDE DEF i
    <2>2. i * part + part = k * part /\ part \in 1 .. part
      BY <1>1, <2>1
    <2>3. Below(left, i, part)
      BY <1>3, <1>5, <2>1, <2>2
    <2>4. q \in Nat /\ r \in Nat /\ q <= 2 * r + 1
      BY <2>1, PartsFall
    <2>5. left + part * (r + 1) < (q + 1) * part \/ left < (r + 1) * part
      BY <2>1, <2>3 DEF Below
    <2> HIDE DEF q, r
    <2>6. left < (r + 1) * part
      <3>1. (q + 1) * part <= (2 * r + 2) * part
        BY <1>1, <2>4, MulMono
      <3>2. (2 * r + 2) * part = (r + 1) * part + part * (r + 1)
            /\ part * (r + 1) = (r + 1) * part
            /\ (r + 1) * part \in Nat /\ (q + 1) * part \in Nat
        BY <1>1, <2>4
      <3> QED BY <2>5, <3>1, <3>2
    <2>7. left + 0 * (PartsAfter(k + 1) + 1) = left
      BY <1>2
    <2> QED BY <2>6, <2>7 DEF Below, r
  <1> HIDE DEF part
  <1>6. ASSUME NEW k \in Nat, NEW j \in 0 .. part, after >= k * part + j
        PROVE  Below(left, k, j)
    <2>1. CASE j \in 1 .. part
      BY <1>3, <1>6, <2>1
    <2>2. CASE j = 0
      <3>1. after >= k * part
        BY <1>2, <1>6, <2>2
      <3> QED BY <1>4, <1>5, <2>2, <3>1
    <2> QED BY <1>1, <2>1, <2>2
  <1> QED BY <1>6 DEF SettledTo, part

(* A new offset is at the start of its fall.                               *)
LEMMA SettledFresh ==
    ASSUME NEW m \in Nat, m <= L_LINT(MAXPHASE), NEW n \in Int, n <= 0
    PROVE  SettledTo(m, n)
  <1>1. ASSUME NEW k \in Nat, NEW j \in 0 .. SettlingPart,
               n >= k * SettlingPart + j
        PROVE  k = 0 /\ j = 0
    <2>1. j \in Nat /\ SettlingPart \in Nat \ {0}
      BY PartType
    <2>2. k * SettlingPart \in Nat /\ k <= k * SettlingPart
      BY <2>1
    <2> QED BY <1>1, <2>1, <2>2
  <1>2. Below(m, 0, 0)
    <2>1. m < (PartsAfter(0) + 1) * SettlingPart
      <3>1. (PartsAfter(0) + 1) * SettlingPart \in Int
        BY PartsFall, PartType
      <3> QED BY <3>1, PartsFall
    <2>2. PartsAfter(0 + 1) \in Nat
      BY PartsFall
    <2>3. m + 0 * (PartsAfter(0 + 1) + 1) = m
      BY <2>2
    <2> QED BY <2>1, <2>3 DEF Below
  <1> QED BY <1>1, <1>2 DEF SettledTo

(* An offset of zero has settled whatever the time.                        *)
LEMMA SettledZero == ASSUME NEW n \in Int PROVE SettledTo(0, n)
  <1>1. ASSUME NEW k \in Nat, NEW j \in 0 .. SettlingPart
        PROVE  Below(0, k, j)
    <2>1. PartsAfter(k + 1) \in Nat /\ SettlingPart \in Nat \ {0}
      BY PartsFall, PartType
    <2>2. 0 < (PartsAfter(k + 1) + 1) * SettlingPart
      BY <2>1
    <2> QED BY <2>2 DEF Below
  <1> QED BY <1>1 DEF SettledTo

(* The rollover: each takes at least a unit of each part.                  *)
LEMMA MagnitudeFalls ==
    ASSUME Inv, NoSignal, Envelope, SecondOverflow
    PROVE  /\ Magnitude \in Nat /\ Magnitude' \in Nat
           /\ Magnitude' <= Magnitude - (Magnitude \div SettlingPart)
           /\ Magnitude' <= L_LINT(MAXPHASE)
  <1> DEFINE d == PowerOfTwo[OffsetShift]
             v == time_offset
             m == Magnitude
  <1>1. /\ v \in Int /\ time_constant \in Nat /\ time_constant <= MAXTC
        /\ SHIFT_PLL \in Nat /\ MAXTC \in Nat
    BY TimexAssumption, KtimeAssumption DEF Inv, TypeOK
  <1>2. OffsetShift = SHIFT_PLL + time_constant
    BY DEF OffsetShift, PpsTiming, NoSignal
  <1>3. d \in Nat \ {0} /\ d <= SettlingPart
    <2>1. /\ OffsetShift \in Nat /\ SHIFT_PLL + MAXTC \in Nat
          /\ OffsetShift <= SHIFT_PLL + MAXTC
      BY <1>1, <1>2
    <2> QED BY <2>1, PowerType, PowerMono DEF SettlingPart
  <1> HIDE DEF d
  <1>4. time_offset' = v - CDiv(v, d)
    BY DEF SecondOverflow, OffsetLeft, Amortized, L_RSHIFT, d
  <1> HIDE DEF v
  <1>5. m \in Nat
    BY <1>1 DEF Magnitude, v
  <1>6. m \div d \in 0 .. m /\ m \div SettlingPart <= m \div d
    <2>1. CDiv(m, d) \in 0 .. m
      BY <1>3, <1>5, CDivShrinks
    <2>2. CDiv(m, d) = m \div d
      BY <1>5 DEF CDiv
    <2> QED BY <1>3, <1>5, <2>1, <2>2, PartType, DivAnti
  <1>7. Magnitude' = m - (m \div d)
    <2>1. CASE v >= 0
      <3>1. m = v /\ CDiv(v, d) = v \div d
        BY <1>1, <2>1 DEF Magnitude, CDiv, v
      <3>2. time_offset' = m - (m \div d) /\ time_offset' >= 0
        BY <1>4, <1>5, <1>6, <3>1
      <3> QED BY <1>5, <1>6, <3>2 DEF Magnitude
    <2>2. CASE v < 0
      <3>1. m = -v /\ CDiv(v, d) = -((-v) \div d)
        <4>1. ~(v >= 0)
          BY <1>1, <2>2
        <4> QED BY <2>2, <4>1 DEF Magnitude, CDiv, v
      <3>2. CDiv(v, d) = -(m \div d)
        BY <3>1
      <3>3. time_offset' = -(m - (m \div d)) /\ m - (m \div d) >= 0
        BY <1>1, <1>4, <1>5, <1>6, <3>1, <3>2
      <3> DEFINE x == m - (m \div d)
      <3>4. x \in Nat /\ time_offset' = -x
        BY <1>5, <1>6, <3>3
      <3> HIDE DEF x
      <3>5. Magnitude' = x
        BY <3>4 DEF Magnitude
      <3> QED BY <3>5 DEF x
    <2> QED BY <1>1, <2>1, <2>2
  <1>8. m <= L_LINT(MAXPHASE)
    <2>1. L_LINT(-MAXPHASE) = -L_LINT(MAXPHASE) /\ L_LINT(MAXPHASE) \in Nat
      BY TimexAssumption, FracType DEF L_LINT
    <2>2. v \in L_LINT(-MAXPHASE) .. L_LINT(MAXPHASE)
      BY DEF Envelope, PhaseWithin, v
    <2> QED BY <1>1, <2>1, <2>2 DEF Magnitude, v
  <1>9. m \div SettlingPart \in Nat /\ L_LINT(MAXPHASE) \in Nat
    BY <1>5, PartType, PartsFall
  <1> HIDE DEF m
  <1>10. m \div d \in Nat
    BY <1>6, <1>5
  <1>11. Magnitude' \in Nat /\ Magnitude' <= m - (m \div SettlingPart)
         /\ Magnitude' <= L_LINT(MAXPHASE)
    BY <1>5, <1>6, <1>7, <1>8, <1>9, <1>10
  <1> QED BY <1>5, <1>11 DEF m

LEMMA SecondsType ==
    ASSUME Inv
    PROVE  SettlingSeconds \in Nat
  <1> DEFINE p == time_reftime \div DAY
             q == tv_sec \div DAY
             m == tv_sec - time_reftime
  <1>1. /\ tv_sec \in Nat /\ time_reftime \in Nat /\ DAY \in Nat \ {0}
        /\ m \in Nat
    BY KtimeAssumption DEF Inv, TypeOK, ReftimeNotAhead
  <1>2. /\ p \in Nat /\ time_reftime < DAY * p + DAY
        /\ q \in Nat /\ DAY * q <= tv_sec
    BY <1>1, DivNat
  <1>3. tv_sec = time_reftime + m /\ SettlingSeconds = m - (q - p)
    BY <1>1 DEF SettlingSeconds
  <1> HIDE DEF p, q, m
  <1>4. m <= DAY * m /\ DAY * m \in Nat
    BY <1>1
  <1>5. q * DAY < (p + m + 1) * DAY
    <2>1. (p + m + 1) * DAY = DAY * p + DAY + DAY * m /\ q * DAY = DAY * q
          /\ DAY * p \in Nat /\ DAY * q \in Nat
      BY <1>1, <1>2
    <2> QED BY <1>1, <1>2, <1>3, <1>4, <2>1
  <1>6. q < p + m + 1
    BY <1>1, <1>2, <1>5, MulCancel
  <1> QED BY <1>1, <1>2, <1>3, <1>6

LEMMA SecondsStep ==
    ASSUME Inv, SecondOverflow
    PROVE  SettlingSeconds' <= SettlingSeconds + 1
  <1>1. /\ tv_sec \in Nat /\ time_reftime \in Nat /\ DAY \in Nat \ {0}
        /\ time_reftime' = time_reftime
    BY KtimeAssumption DEF Inv, TypeOK, SecondOverflow, loopVars
  <1> DEFINE sec == tv_sec + 1
             p == tv_sec \div DAY
             q == tv_sec' \div DAY
             r == time_reftime \div DAY
  <1>2. p \in Nat /\ r \in Nat /\ DAY * p <= tv_sec
    BY <1>1, DivNat
  <1>3. /\ SettlingSeconds = (tv_sec - time_reftime) - (p - r)
        /\ SettlingSeconds' = (tv_sec' - time_reftime) - (q - r)
    BY <1>1 DEF SettlingSeconds
  <1>4. LeapStep(sec)
    BY DEF SecondOverflow
  <1>5. CASE DeleteSecond(sec)
    <2>1. tv_sec' = sec + 1 /\ (sec + 1) % DAY = 0
      BY <1>5 DEF DeleteSecond
    <2>2. tv_sec' \in Nat /\ tv_sec' = tv_sec + 2 /\ tv_sec' % DAY = 0
      BY <1>1, <2>1
    <2>3. q \in Nat /\ tv_sec' = DAY * q
      BY <1>1, <2>2
    <2> HIDE DEF p, q, r
    <2>4. p * DAY < q * DAY
      BY <1>1, <1>2, <2>2, <2>3
    <2>5. p < q
      BY <1>1, <1>2, <2>3, <2>4, MulCancel
    <2> QED BY <1>1, <1>2, <1>3, <2>2, <2>3, <2>5
  <1>6. CASE ~DeleteSecond(sec)
    <2>1. tv_sec' \in {sec, sec - 1}
      <3> HIDE DEF sec
      <3> QED BY <1>4, <1>6, Zenon DEF LeapStep, NoWarning, WarningWithdrawn,
                 WarningPending, InsertSecond, EndInsertion, WaitForBits
    <2>2. tv_sec' \in Nat /\ tv_sec <= tv_sec' /\ tv_sec' <= tv_sec + 1
      BY <1>1, <2>1
    <2>3. tv_sec \div DAY <= tv_sec' \div DAY
      BY <1>1, <2>2, DivMono
    <2>4. q \in Nat
      BY <1>1, <2>2, DivNat
    <2>5. p <= q
      BY <2>3
    <2>6. time_reftime \in Int /\ p \in Int /\ q \in Int /\ r \in Int
      BY <1>1, <1>2, <2>4
    <2>7. \A a, b, c, x, y, z \in Int :
              b <= a + 1 /\ x <= y => (b - c) - (y - z) <= ((a - c) - (x - z)) + 1
      OBVIOUS
    <2>8. tv_sec \in Int /\ tv_sec' \in Int
      BY <1>1, <2>2
    <2> HIDE DEF p, q, r
    <2>9. (tv_sec' - time_reftime) - (q - r)
                <= ((tv_sec - time_reftime) - (p - r)) + 1
      BY <2>2, <2>5, <2>6, <2>7, <2>8, Zenon
    <2>10. SettlingSeconds' <= SettlingSeconds + 1
      BY <1>3, <2>9
    <2> QED BY <2>10
  <1> QED BY <1>5, <1>6

(* An update loads an offset within MAXPHASE and starts the count again, or*)
(* leaves both alone.                                                      *)
LEMMA UpdateFresh ==
    ASSUME Inv, NoSignal, NEW status, NEW constant, NEW offset,
           "STA_PPSSIGNAL" \notin status
    PROVE  LET h == hardupdate(status, constant, offset)
           IN  /\ "STA_PPSSIGNAL" \notin h.status
               /\ \/ h.reftime = tv_sec
                  \/ h.reftime = time_reftime /\ h.offset = time_offset
  BY UpdatedStatus DEF hardupdate, Unlocked

LEMMA SettlingKept ==
    ASSUME Inv, Inv', Settling, NoSignal', Envelope', tv_sec' = tv_sec,
           \/ time_reftime' = tv_sec
           \/ time_reftime' = time_reftime /\ time_offset' = time_offset
    PROVE  Settling'
  <1>1. CASE time_reftime' = time_reftime /\ time_offset' = time_offset
    <2>1. SettlingSeconds' = SettlingSeconds /\ Magnitude' = Magnitude
      BY <1>1 DEF SettlingSeconds, Magnitude
    <2>2. SettledTo(Magnitude', SettlingSeconds')
      BY <2>1 DEF Settling
    <2> QED BY <2>2 DEF Settling
  <1>2. CASE time_reftime' = tv_sec
    <2>1. SettlingSeconds' = 0
      <3>1. tv_sec \in Nat /\ tv_sec \div DAY \in Int
        BY KtimeAssumption DEF Inv, TypeOK
      <3> QED BY <1>2, <3>1 DEF SettlingSeconds
    <2>2. Magnitude' \in Nat /\ Magnitude' <= L_LINT(MAXPHASE)
      <3>1. L_LINT(-MAXPHASE) = -L_LINT(MAXPHASE) /\ L_LINT(MAXPHASE) \in Nat
        BY TimexAssumption, FracType DEF L_LINT
      <3> DEFINE x == time_offset'
                 most == L_LINT(MAXPHASE)
      <3>2. x \in Int /\ x \in L_LINT(-MAXPHASE) .. L_LINT(MAXPHASE)
        BY DEF Inv, TypeOK, Envelope, PhaseWithin
      <3>3. x \in Int /\ most \in Nat /\ -most <= x /\ x <= most
        BY <3>1, <3>2
      <3>4. Magnitude' = IF x < 0 THEN -x ELSE x
        BY DEF Magnitude
      <3> HIDE DEF x, most
      <3>5. Magnitude' \in Nat /\ Magnitude' <= most
        BY <3>3, <3>4
      <3> QED BY <3>5 DEF most
    <2>3. SettledTo(Magnitude', SettlingSeconds')
      BY <2>1, <2>2, SettledFresh
    <2> QED BY <2>3 DEF Settling
  <1> QED BY <1>1, <1>2

LEMMA SettlingStep ==
    ASSUME Inv, Inv', Settling, [AnyCall]_kvars
    PROVE  Settling'
  <1>1. NoSignal /\ Envelope /\ Envelope'
    BY EnvelopeStep DEF Settling
  <1>2. CASE Tick \/ UNCHANGED kvars
    <2>1. UNCHANGED <<tv_sec, time_reftime, time_offset, time_status>>
      BY <1>2 DEF Tick, kvars, timevar, loopVars
    <2> QED BY <1>1, <2>1, SettlingKept DEF NoSignal
  <1>3. CASE SecondOverflow
    <2>1. NoSignal'
      BY <1>1, <1>3 DEF NoSignal, SecondOverflow, PpsWatchdog
    <2>2. SettlingSeconds \in Int /\ SettlingSeconds' \in Int
      <3>1. SettlingSeconds \in Nat
        BY SecondsType
      <3>2. /\ tv_sec' \in Nat /\ time_reftime' \in Nat
            /\ DAY \in Nat \ {0}
        BY KtimeAssumption DEF Inv, TypeOK
      <3> QED BY <3>1, <3>2 DEF SettlingSeconds
    <2>3. SettledTo(Magnitude, SettlingSeconds)
      BY DEF Settling
    <2>4. SettledTo(Magnitude', SettlingSeconds')
      BY <1>1, <1>3, <2>2, <2>3, MagnitudeFalls, SecondsStep, SettledOn
    <2> QED BY <1>1, <2>1, <2>4 DEF Settling
  <1>4. CASE \E r \in TimexRequest : AdjTime(r)
    <2>1. PICK r \in TimexRequest : AdjTime(r)
      BY <1>4
    <2>2. "STA_PPSSIGNAL" \notin SelectedStatus(r)
      <3>1. "STA_PPSSIGNAL" \notin WrittenStatus(r)
        BY <1>1 DEF WrittenStatus, STA_RONLY, NoSignal
      <3> QED BY <3>1 DEF SelectedStatus, SelectBit
    <2>3. /\ "STA_PPSSIGNAL" \notin LoopAfter(r).status
          /\ \/ LoopAfter(r).reftime = tv_sec
             \/ /\ LoopAfter(r).reftime = time_reftime
                /\ LoopAfter(r).offset = time_offset
      <3>1. CASE "MOD_OFFSET" \in r.modes
        BY <1>1, <2>2, <3>1, UpdateFresh DEF LoopAfter
      <3>2. CASE "MOD_OFFSET" \notin r.modes
        BY <2>2, <3>2 DEF LoopAfter, Unlocked
      <3> QED BY <3>1, <3>2
    <2>4. /\ tv_sec' = tv_sec /\ time_reftime' = LoopAfter(r).reftime
          /\ time_offset' = LoopAfter(r).offset
          /\ time_status' = LoopAfter(r).status
      BY <2>1 DEF AdjTime, timevar
    <2> QED BY <1>1, <2>3, <2>4, SettlingKept DEF NoSignal
  <1>5. CASE \E offset \in Int : Discipline(offset)
    <2>1. PICK offset \in Int : Discipline(offset)
      BY <1>5
    <2> DEFINE h == hardupdate(time_status, time_constant, offset)
    <2>2. /\ "STA_PPSSIGNAL" \notin h.status
          /\ \/ h.reftime = tv_sec
             \/ h.reftime = time_reftime /\ h.offset = time_offset
      BY <1>1, UpdateFresh DEF NoSignal
    <2>3. /\ tv_sec' = tv_sec /\ time_reftime' = h.reftime
          /\ time_offset' = h.offset /\ time_status' = h.status
      BY <2>1 DEF Discipline, timevar
    <2> HIDE DEF h
    <2> QED BY <1>1, <2>2, <2>3, SettlingKept DEF NoSignal
  <1> QED BY <1>2, <1>3, <1>4, <1>5 DEF AnyCall

LEMMA SettlingInit ==
    ASSUME Inv, time_offset = 0, NoSignal
    PROVE  Settling
  <1>1. Magnitude = 0
    BY DEF Magnitude
  <1>2. SettlingSeconds \in Int
    BY SecondsType
  <1> QED BY <1>1, <1>2, SettledZero, StartEnvelope DEF Settling

LEMMA SettledParts ==
    ASSUME Inv, Settling
    PROVE  OffsetSettles
  <1> DEFINE part == SettlingPart
             n == SettlingSeconds
             k == n \div part
             q == PartsAfter(k)
             m == Magnitude
  <1>1. part \in Nat \ {0} /\ n \in Nat
    BY PartType, SecondsType
  <1>2. k \in Nat /\ k * part \in Nat /\ n >= k * part + 0
    <2>1. k \in Nat /\ part * k <= n
      BY <1>1, DivNat
    <2> HIDE DEF part, n, k
    <2> QED BY <1>1, <2>1
  <1>3. 0 \in 0 .. part
    BY <1>1
  <1>4. m \in Nat
    BY DEF Inv, TypeOK, Magnitude
  <1>5. WholeParts(time_offset) = m \div part
    BY DEF WholeParts, Magnitude
  <1>6. SettledTo(m, n)
    BY DEF Settling
  <1> HIDE DEF k, m
  <1>7. Below(m, k, 0)
    BY <1>2, <1>3, <1>6 DEF SettledTo
  <1>8. q \in Nat /\ PartsAfter(k + 1) \in Nat /\ PartsAfter(k + 1) <= q
    BY <1>2, PartsFall
  <1>9. m < (q + 1) * part
    <2> DEFINE r == PartsAfter(k + 1)
    <2>1. m + 0 * (r + 1) < (q + 1) * part \/ m < (r + 1) * part
      BY <1>7 DEF Below
    <2> HIDE DEF r, q, part
    <2>2. r \in Nat /\ q \in Nat /\ r <= q
      BY <1>8 DEF r
    <2>3. (r + 1) * part <= (q + 1) * part
      BY <1>1, <2>2, MulMono
    <2>4. 0 * (r + 1) = 0 /\ (r + 1) * part \in Nat /\ (q + 1) * part \in Nat
      BY <1>1, <2>2
    <2> QED BY <1>4, <2>1, <2>3, <2>4
  <1>10. m \div part <= q
    <2> DEFINE w == m \div part
    <2> HIDE DEF part, q
    <2>1. w \in Nat /\ part * w <= m
      BY <1>1, <1>4, DivNat
    <2> HIDE DEF w
    <2>2. w * part < (q + 1) * part
      BY <1>1, <1>4, <1>8, <1>9, <2>1
    <2>3. w < q + 1
      BY <1>1, <1>8, <2>1, <2>2, MulCancel
    <2> QED BY <1>8, <2>1, <2>3 DEF w
  <1> QED BY <1>5, <1>10 DEF OffsetSettles, PartsAfter, k

(* Whatever time constants are set while second_overflow()                 *)
(* (ktime.c:506-524) amortizes an offset, and whatever leap seconds fall in*)
(* between, each 2^(SHIFT_PLL + MAXTC) seconds halve what is left of it.   *)
THEOREM OffsetSettlesHolds == Spec => []OffsetSettles
  <1>1. Inv /\ Inv' /\ Settling /\ [Next]_kvars => Settling'
    BY NextIsCall, SettlingStep
  <1>2. Inv /\ Settling => OffsetSettles
    BY SettledParts
  <1>3. Init => Settling
    BY InitInv, SettlingInit DEF Init, NoSignal
  <1> QED BY <1>1, <1>2, <1>3, InvHolds, PTL DEF Spec

(***************************************************************************)
(* Ktime implements UtcClock: for every length of the day and every        *)
(* sequence of calls.                                                      *)
(***************************************************************************)

(* The second that follows s, as a day and a second of the day.            *)
LEMMA DivModStep ==
    ASSUME NEW s \in Nat, NEW d \in Nat \ {0}
    PROVE  /\ s \div d \in Nat
           /\ s % d \in 0 .. d - 1
           /\ s % d = d - 1 => /\ (s + 1) \div d = s \div d + 1
                               /\ (s + 1) % d = 0
           /\ s % d # d - 1 => /\ (s + 1) \div d = s \div d
                               /\ (s + 1) % d = (s % d) + 1
  <1>1. /\ s \div d \in Nat
        /\ s % d \in 0 .. d - 1
        /\ s = d * (s \div d) + (s % d)
    OBVIOUS
  <1>2. \A q \in Nat, r \in 0 .. d - 1 :
            s + 1 = d * q + r => (s + 1) \div d = q /\ (s + 1) % d = r
    <2> SUFFICES ASSUME NEW q \in Nat, NEW r \in 0 .. d - 1,
                        s + 1 = d * q + r
                 PROVE  (s + 1) \div d = q /\ (s + 1) % d = r
      OBVIOUS
    <2>1. s + 1 \in Nat
      OBVIOUS
    <2> QED BY <2>1, DivModUnique
  <1>3. CASE s % d = d - 1
    <2>1. s + 1 = d * (s \div d + 1) + 0
      <3>1. \A a \in Nat : d * (a + 1) + 0 = d * a + d
        OBVIOUS
      <3> QED BY <1>1, <1>3, <3>1
    <2> QED BY <1>1, <1>2, <1>3, <2>1
  <1>4. CASE s % d # d - 1
    <2>1. s + 1 = d * (s \div d) + ((s % d) + 1)
      BY <1>1
    <2>2. (s % d) + 1 \in 0 .. d - 1
      BY <1>1, <1>4
    <2> QED BY <1>1, <1>2, <1>4, <2>1, <2>2
  <1> QED BY <1>1, <1>3, <1>4

(* The last seconds of a day.                                              *)
LEMMA DayEnd ==
    ASSUME NEW s \in Nat, NEW d \in Nat \ {0}, d >= 3
    PROVE  /\ (s + 1) % d = 0 => /\ s % d = d - 1
                                 /\ (s + 1) \div d = s \div d + 1
           /\ s % d = d - 2 => (s + 1 + 1) % d = 0
           /\ (s + 1 + 1) % d = 0 => /\ s % d = d - 2
                                     /\ (s + 1 + 1) \div d = s \div d + 1
  <1> DEFINE M(x) == x % d
             Q(x) == x \div d
  <1>1. \A x \in Nat : /\ Q(x) \in Nat
                       /\ M(x) \in 0 .. d - 1
                       /\ M(x) = d - 1 => Q(x + 1) = Q(x) + 1 /\ M(x + 1) = 0
                       /\ M(x) # d - 1 => /\ Q(x + 1) = Q(x)
                                          /\ M(x + 1) = M(x) + 1
    BY DivModStep
  <1>2. s + 1 \in Nat
    OBVIOUS
  <1> SUFFICES /\ M(s + 1) = 0 => M(s) = d - 1 /\ Q(s + 1) = Q(s) + 1
               /\ M(s) = d - 2 => M(s + 1 + 1) = 0
               /\ M(s + 1 + 1) = 0 => /\ M(s) = d - 2
                                      /\ Q(s + 1 + 1) = Q(s) + 1
    OBVIOUS
  <1> HIDE DEF M, Q
  <1> QED BY <1>1, <1>2

LEMMA WarningOf ==
    /\ time_state = "TIME_OK" => UtcWarning = "none"
    /\ time_state = "TIME_INS" => UtcWarning = "insert"
    /\ time_state = "TIME_DEL" => UtcWarning = "delete"
    /\ time_state \in {"TIME_OOP", "TIME_WAIT"} => UtcWarning = "spent"
  BY DEF UtcWarning

LEMMA WarningOfNext ==
    /\ time_state' = "TIME_OK" => UtcWarning' = "none"
    /\ time_state' = "TIME_INS" => UtcWarning' = "insert"
    /\ time_state' = "TIME_DEL" => UtcWarning' = "delete"
    /\ time_state' \in {"TIME_OOP", "TIME_WAIT"} => UtcWarning' = "spent"
  BY DEF UtcWarning

LEMMA UtcInit ==
    ASSUME tv_sec \in StartSecs, time_state = "TIME_OK", time_tai = 0
    PROVE  Utc!Init
  <1>1. UtcSecond = tv_sec % DAY
    BY DEF UtcSecond
  <1>2. UtcWarning = "none"
    BY WarningOf
  <1> QED BY <1>1, <1>2 DEF Utc!Init, UtcDay

(* Steps that touch neither the clock's second nor the leap machine.       *)
LEMMA UtcStutter ==
    ASSUME UNCHANGED <<tv_sec, time_state, time_tai>>
    PROVE  UNCHANGED Utc!vars
  BY DEF Utc!vars, UtcDay, UtcSecond, UtcWarning

(* ntp_adjtime() is an operator's step.                                    *)
LEMMA UtcOperate ==
    ASSUME Inv, NEW r \in TimexRequest, AdjTime(r)
    PROVE  Utc!Operate
  <1>1. tv_sec' = tv_sec /\ time_state' \in {time_state, "TIME_OK"}
    BY DEF AdjTime, timevar
  <1>2. time_tai' \in {time_tai} \cup (Nat \ {0})
    BY KtimeAssumption DEF AdjTime, TimexRequest
  <1>3. UtcWarning' \in {UtcWarning, "none"}
    <2>1. CASE time_state' = time_state
      BY <2>1 DEF UtcWarning
    <2>2. CASE time_state' = "TIME_OK"
      BY <2>2, WarningOfNext
    <2> QED BY <1>1, <2>1, <2>2
  <1>4. UtcDay' = UtcDay
    BY <1>1 DEF UtcDay
  <1>0. tv_sec \in Nat /\ DAY \in Nat \ {0} /\ DAY >= 3
    BY KtimeAssumption DEF Inv, TypeOK
  <1>5. tv_sec % DAY \in 0 .. DAY - 1
    BY <1>0
  <1>6. UtcSecond' = IF UtcSecond = DAY /\ UtcWarning' = "none" THEN DAY - 1
                     ELSE UtcSecond
    <2>1. CASE time_state # "TIME_OOP"
      BY <1>1, <1>5, <2>1, KtimeAssumption DEF UtcSecond
    <2>2. CASE time_state = "TIME_OOP" /\ time_state' = "TIME_OOP"
      BY <2>2, WarningOfNext DEF UtcSecond
    <2>3. CASE time_state = "TIME_OOP" /\ time_state' = "TIME_OK"
      <3>1. (tv_sec + 1) % DAY = 0
        BY <2>3 DEF Inv, LeapAtMidnight
      <3>2. tv_sec % DAY = DAY - 1
        BY <1>0, <3>1, DayEnd
      <3> QED BY <1>1, <2>3, <3>2, WarningOfNext DEF UtcSecond
    <2> QED BY <1>1, <2>1, <2>2, <2>3
  <1> QED BY <1>2, <1>3, <1>4, <1>6 DEF Utc!Operate

(* A rollover without a leap.                                              *)
LEMMA UtcPlain ==
    ASSUME Inv, time_state # "TIME_OOP", time_state' # "TIME_OOP",
           tv_sec' = tv_sec + 1, time_tai' = time_tai,
           \/ UtcWarning = "none"
                /\ UtcWarning' \in {"none", "insert", "delete"}
           \/ UtcWarning # "none" /\ UtcWarning' \in {UtcWarning, "none"}
    PROVE  Utc!PlainSecond
  <1>1. tv_sec \in Nat /\ DAY \in Nat \ {0}
    BY KtimeAssumption DEF Inv, TypeOK
  <1>2. UtcSecond = tv_sec % DAY /\ UtcSecond' = (tv_sec + 1) % DAY
    BY DEF UtcSecond
  <1>3. UtcDay' = (tv_sec + 1) \div DAY /\ UtcDay = tv_sec \div DAY
    BY DEF UtcDay
  <1>4. UtcSecond < DAY
    BY <1>1, <1>2, DivModStep
  <1>5. IF UtcSecond = DAY - 1 THEN UtcDay' = UtcDay + 1 /\ UtcSecond' = 0
        ELSE UtcDay' = UtcDay /\ UtcSecond' = UtcSecond + 1
    BY <1>1, <1>2, <1>3, DivModStep
  <1> QED BY <1>4, <1>5 DEF Utc!PlainSecond

LEMMA UtcRollover ==
    ASSUME Inv, LeapStep(tv_sec + 1)
    PROVE  Utc!Next
  <1>0. /\ tv_sec \in Nat /\ DAY \in Nat \ {0} /\ DAY >= 3
        /\ time_tai \in Int
    BY KtimeAssumption DEF Inv, TypeOK
  <1>1. CASE NoWarning(tv_sec + 1)
    <2>1. /\ time_state = "TIME_OK"
          /\ time_state' \in {"TIME_OK", "TIME_INS", "TIME_DEL"}
          /\ tv_sec' = tv_sec + 1 /\ time_tai' = time_tai
      BY <1>1 DEF NoWarning
    <2>2. UtcWarning = "none" /\ UtcWarning' \in {"none", "insert", "delete"}
      BY <2>1, WarningOf, WarningOfNext
    <2>3. Utc!PlainSecond
      BY <2>1, <2>2, UtcPlain
    <2> QED BY <2>2, <2>3 DEF Utc!Next, Utc!NotDue
  <1>2. CASE \E w \in {<<"TIME_INS", "STA_INS">>, <<"TIME_DEL", "STA_DEL">>} :
                WarningWithdrawn(w[1], w[2], tv_sec + 1)
    <2>1. /\ time_state \in {"TIME_INS", "TIME_DEL"}
          /\ time_state' = "TIME_OK"
          /\ tv_sec' = tv_sec + 1 /\ time_tai' = time_tai
      BY <1>2 DEF WarningWithdrawn
    <2>2. UtcWarning # "none" /\ UtcWarning' = "none"
      BY <2>1, WarningOf, WarningOfNext
    <2>3. Utc!PlainSecond
      BY <2>1, <2>2, UtcPlain
    <2> QED BY <2>2, <2>3 DEF Utc!Next, Utc!NotDue
  <1>3. CASE WarningPending("TIME_INS", "STA_INS", (tv_sec + 1) % DAY = 0,
                            tv_sec + 1)
    <2>1. /\ time_state = "TIME_INS" /\ time_state' = "TIME_INS"
          /\ tv_sec' = tv_sec + 1 /\ time_tai' = time_tai
          /\ (tv_sec + 1) % DAY # 0
      BY <1>3 DEF WarningPending
    <2>2. UtcWarning = "insert" /\ UtcWarning' = "insert"
      BY <2>1, WarningOf, WarningOfNext
    <2>3. Utc!PlainSecond
      BY <2>1, <2>2, UtcPlain
    <2>4. UtcSecond # DAY - 1
      BY <1>0, <2>1, DivModStep DEF UtcSecond
    <2> QED BY <2>2, <2>3, <2>4 DEF Utc!Next, Utc!NotDue
  <1>4. CASE WarningPending("TIME_DEL", "STA_DEL",
                            (tv_sec + 1 + 1) % DAY = 0, tv_sec + 1)
    <2>1. /\ time_state = "TIME_DEL" /\ time_state' = "TIME_DEL"
          /\ tv_sec' = tv_sec + 1 /\ time_tai' = time_tai
          /\ (tv_sec + 1 + 1) % DAY # 0
      BY <1>4 DEF WarningPending
    <2>2. UtcWarning = "delete" /\ UtcWarning' = "delete"
      BY <2>1, WarningOf, WarningOfNext
    <2>3. Utc!PlainSecond
      BY <2>1, <2>2, UtcPlain
    <2>4. UtcSecond # DAY - 2
      <3>1. SUFFICES ASSUME tv_sec % DAY = DAY - 2 PROVE FALSE
        BY <2>1 DEF UtcSecond
      <3>2. (tv_sec + 1 + 1) % DAY = 0
        BY <1>0, <3>1, DayEnd
      <3> QED BY <2>1, <3>2
    <2> QED BY <2>2, <2>3, <2>4 DEF Utc!Next, Utc!NotDue
  <1>5. CASE InsertSecond(tv_sec + 1)
    <2>1. /\ time_state = "TIME_INS" /\ time_state' = "TIME_OOP"
          /\ tv_sec' = tv_sec /\ time_tai' = time_tai
          /\ (tv_sec + 1) % DAY = 0
      BY <1>0, <1>5 DEF InsertSecond
    <2>2. UtcWarning = "insert" /\ UtcWarning' = "spent"
      BY <2>1, WarningOf, WarningOfNext
    <2>3. UtcSecond = DAY - 1 /\ UtcSecond' = DAY
      BY <1>0, <2>1, DayEnd DEF UtcSecond
    <2>4. UtcDay' = UtcDay
      BY <2>1 DEF UtcDay
    <2> QED BY <2>1, <2>2, <2>3, <2>4 DEF Utc!Next, Utc!BeginLeapSecond
  <1>6. CASE DeleteSecond(tv_sec + 1)
    <2>1. /\ time_state = "TIME_DEL" /\ time_state' = "TIME_WAIT"
          /\ tv_sec' = tv_sec + 1 + 1 /\ time_tai' = time_tai - 1
          /\ (tv_sec + 1 + 1) % DAY = 0
      BY <1>6 DEF DeleteSecond
    <2>2. UtcWarning = "delete" /\ UtcWarning' = "spent"
      BY <2>1, WarningOf, WarningOfNext
    <2>3. /\ tv_sec % DAY = DAY - 2
          /\ (tv_sec + 1 + 1) \div DAY = tv_sec \div DAY + 1
      BY <1>0, <2>1, DayEnd
    <2>4. UtcSecond = DAY - 2 /\ UtcSecond' = 0
      BY <2>1, <2>3 DEF UtcSecond
    <2>5. UtcDay' = UtcDay + 1
      BY <2>1, <2>3 DEF UtcDay
    <2> QED BY <2>1, <2>2, <2>4, <2>5 DEF Utc!Next, Utc!SkipSecond
  <1>7. CASE EndInsertion(tv_sec + 1)
    <2>1. /\ time_state = "TIME_OOP" /\ time_state' = "TIME_WAIT"
          /\ tv_sec' = tv_sec + 1 /\ time_tai' = time_tai + 1
      BY <1>7 DEF EndInsertion
    <2>2. UtcWarning = "spent" /\ UtcWarning' = "spent"
      BY <2>1, WarningOf, WarningOfNext
    <2>3. (tv_sec + 1) % DAY = 0
      BY <2>1 DEF Inv, LeapAtMidnight
    <2>4. UtcSecond = DAY /\ UtcSecond' = 0
      BY <2>1, <2>3 DEF UtcSecond
    <2>5. UtcDay' = UtcDay + 1
      <3>1. (tv_sec + 1) \div DAY = tv_sec \div DAY + 1
        BY <1>0, <2>3, DayEnd
      <3> QED BY <2>1, <3>1 DEF UtcDay
    <2> QED BY <2>1, <2>2, <2>4, <2>5 DEF Utc!Next, Utc!EndLeapSecond
  <1>8. CASE WaitForBits(tv_sec + 1)
    <2>1. /\ time_state = "TIME_WAIT"
          /\ time_state' \in {"TIME_WAIT", "TIME_OK"}
          /\ tv_sec' = tv_sec + 1 /\ time_tai' = time_tai
      BY <1>8 DEF WaitForBits
    <2>2. UtcWarning = "spent" /\ UtcWarning' \in {"spent", "none"}
      BY <2>1, WarningOf, WarningOfNext
    <2>3. Utc!PlainSecond
      BY <2>1, <2>2, UtcPlain
    <2> QED BY <2>2, <2>3 DEF Utc!Next, Utc!NotDue
  <1> QED BY <1>1, <1>2, <1>3, <1>4, <1>5, <1>6, <1>7, <1>8 DEF LeapStep

LEMMA UtcStep ==
    ASSUME Inv, [AnyCall]_kvars
    PROVE  [Utc!Next]_(Utc!vars)
  <1>1. CASE Tick
    <2>1. UNCHANGED <<tv_sec, time_state, time_tai>>
      BY <1>1 DEF Tick, leapVars
    <2> QED BY <2>1, UtcStutter
  <1>2. CASE SecondOverflow
    BY <1>2, UtcRollover DEF SecondOverflow
  <1>3. CASE \E r \in TimexRequest : AdjTime(r)
    <2>1. PICK r \in TimexRequest : AdjTime(r)
      BY <1>3
    <2> QED BY <2>1, UtcOperate DEF Utc!Next
  <1>4. CASE \E offset \in Int : Discipline(offset)
    <2>1. UNCHANGED <<tv_sec, time_state, time_tai>>
      BY <1>4 DEF Discipline, timevar, leapVars
    <2> QED BY <2>1, UtcStutter
  <1>5. CASE UNCHANGED kvars
    <2>1. UNCHANGED <<tv_sec, time_state, time_tai>>
      BY <1>5 DEF kvars, timevar, leapVars
    <2> QED BY <2>1, UtcStutter
  <1> QED BY <1>1, <1>2, <1>3, <1>4, <1>5 DEF AnyCall

(* The leap machine of second_overflow(), with ntp_adjtime() called at any *)
(* moment and with any arguments, implements the UTC clock of UtcClock.    *)
THEOREM RefinesUtcHolds == Spec => RefinesUtc
  <1>1. Inv /\ [Next]_kvars => [Utc!Next]_(Utc!vars)
    BY NextIsCall, UtcStep
  <1>2. Init => Utc!Init
    BY UtcInit DEF Init
  <1> QED BY <1>1, <1>2, InvHolds, PTL DEF Spec, RefinesUtc, Utc!Spec

(***************************************************************************)
(* How the clock goes on.  The safety behind the liveness of leaps: what a *)
(* second still lacks is used up by time_adj in each tick and by nothing   *)
(* else, and each second is one nearer to the midnight of an insertion.    *)
(***************************************************************************)
(* What the second lacks, in the l_fp units of time_adj.                   *)
Shortfall == L_LINT(hz * (NANOSECOND - tv_nsec)) - time_phase

UsedUp ==
    /\ Tick => Shortfall' = Shortfall - time_adj
    /\ SecondOverflow =>
            Shortfall' = Shortfall - time_adj + L_LINT(hz * NANOSECOND)
    /\ ~Tick /\ ~SecondOverflow => UNCHANGED <<Shortfall, time_adj>>

LEMMA ShortfallBounds ==
    Inv => Shortfall > 0 /\ Shortfall <= L_LINT(hz * NANOSECOND)
  <1> SUFFICES ASSUME Inv
               PROVE  Shortfall > 0 /\ Shortfall <= L_LINT(hz * NANOSECOND)
    OBVIOUS
  <1> DEFINE left == NANOSECOND - tv_nsec
  <1>1. /\ left \in 1 .. NANOSECOND /\ hz \in Nat \ {0}
        /\ FRAC \in Nat \ {0} /\ NANOSECOND \in Nat
        /\ time_phase \in Int /\ 0 <= time_phase /\ time_phase < hz * FRAC
    BY KtimeAssumption, TimexAssumption, FracType
       DEF Inv, TypeOK, Normalized, ResidueBounded, L_LINT
  <1> HIDE DEF left
  <1>2. /\ 1 * hz <= left * hz /\ left * hz <= NANOSECOND * hz
        /\ left * hz \in Int /\ NANOSECOND * hz \in Int
    BY <1>1, MulMono
  <1>3. hz <= hz * left /\ hz * left <= hz * NANOSECOND
        /\ hz * left \in Int /\ hz * NANOSECOND \in Int
    BY <1>1, <1>2
  <1>4. /\ hz * FRAC <= (hz * left) * FRAC
        /\ (hz * left) * FRAC <= (hz * NANOSECOND) * FRAC
    BY <1>1, <1>3, MulMono
  <1>5. Shortfall = (hz * left) * FRAC - time_phase
    BY DEF Shortfall, L_LINT, left
  <1>6. /\ hz * FRAC \in Int /\ (hz * left) * FRAC \in Int
        /\ (hz * NANOSECOND) * FRAC \in Int
    BY <1>1, <1>3
  <1> HIDE DEF Shortfall
  <1> QED BY <1>1, <1>4, <1>5, <1>6 DEF L_LINT

LEMMA ShortfallStep ==
    ASSUME Inv, [AnyCall]_kvars
    PROVE  UsedUp
  <1>1. /\ hz \in Int /\ FRAC \in Int /\ NANOSECOND \in Int
        /\ tv_nsec \in Int /\ time_phase \in Int /\ time_adj \in Int
    BY KtimeAssumption, TimexAssumption, FracType DEF Inv, TypeOK
  <1>2. TickUpdate \in Int
    BY <1>1, TickBounds DEF Inv
  <1>3. ASSUME NEW carry \in Int,
               tv_nsec' = tv_nsec + TickUpdate - carry, TickPhase
        PROVE  Shortfall' = Shortfall - time_adj + L_LINT(hz * carry)
    <2> DEFINE u == TickUpdate
    <2>1. /\ time_phase' = time_phase + time_adj - (u * hz) * FRAC
          /\ tv_nsec' = tv_nsec + u - carry
      BY <1>3 DEF TickPhase, L_LINT
    <2>2. u \in Int
      BY <1>2
    <2> HIDE DEF u
    <2>3. (hz * (NANOSECOND - (tv_nsec + u - carry))) * FRAC
            = (hz * (NANOSECOND - tv_nsec)) * FRAC - (u * hz) * FRAC
                + (hz * carry) * FRAC
      BY <1>1, <1>3, <2>2
    <2>4. /\ (hz * (NANOSECOND - tv_nsec)) * FRAC \in Int
          /\ (u * hz) * FRAC \in Int /\ (hz * carry) * FRAC \in Int
      BY <1>1, <1>3, <2>2
    <2>5. Shortfall' = (hz * (NANOSECOND - (tv_nsec + u - carry))) * FRAC
                            - (time_phase + time_adj - (u * hz) * FRAC)
      BY <2>1 DEF Shortfall, L_LINT
    <2>6. Shortfall = (hz * (NANOSECOND - tv_nsec)) * FRAC - time_phase
      BY DEF Shortfall, L_LINT
    <2> HIDE DEF Shortfall
    <2>7. L_LINT(hz * carry) = (hz * carry) * FRAC
      BY DEF L_LINT
    <2> QED BY <1>1, <2>3, <2>4, <2>5, <2>6, <2>7
  <1>4. Shortfall \in Int
    BY <1>1 DEF Shortfall, L_LINT
  <1>5. ASSUME Tick PROVE Shortfall' = Shortfall - time_adj
    <2>1. tv_nsec' = tv_nsec + TickUpdate - 0 /\ TickPhase
      BY <1>1, <1>2, <1>5 DEF Tick, TickAdjusted
    <2>2. Shortfall' = Shortfall - time_adj + L_LINT(hz * 0)
      BY <1>3, <2>1
    <2>3. L_LINT(hz * 0) = 0
      BY <1>1 DEF L_LINT
    <2> HIDE DEF Shortfall
    <2> QED BY <1>1, <1>4, <2>2, <2>3
  <1>6. ASSUME SecondOverflow
        PROVE  Shortfall' = Shortfall - time_adj + L_LINT(hz * NANOSECOND)
    <2>1. tv_nsec' = TickAdjusted - NANOSECOND /\ TickPhase
      BY <1>6 DEF SecondOverflow
    <2>2. TickAdjusted = tv_nsec + TickUpdate
      BY DEF TickAdjusted
    <2>3. tv_nsec' = tv_nsec + TickUpdate - NANOSECOND
      BY <1>1, <1>2, <2>1, <2>2
    <2>4. NANOSECOND \in Int /\ TickPhase
      BY <1>1, <2>1
    <2> QED BY <1>3, <2>3, <2>4
  <1>7. ASSUME ~Tick, ~SecondOverflow
        PROVE  UNCHANGED <<Shortfall, time_adj>>
    <2>1. UNCHANGED <<tv_nsec, time_phase, time_adj>>
      BY <1>7 DEF AnyCall, AdjTime, Discipline, kvars, timevar, tickVars
    <2> QED BY <2>1 DEF Shortfall
  <1> QED BY <1>5, <1>6, <1>7 DEF UsedUp

(* The clock gains time_adj in each tick, to the last fraction of a        *)
(* nanosecond, and by nothing else; and as that is never less than what    *)
(* the phase and the frequency leave of a second, every second ends        *)
(* (ntp_tick_adjust(), ktime.c:388-394).                                   *)
THEOREM SecondsEnd ==
    Spec => /\ [](Shortfall > 0 /\ Shortfall <= L_LINT(hz * NANOSECOND))
            /\ []AdjBounded
            /\ [][UsedUp]_kvars
  <1>1. Spec => [](Shortfall > 0 /\ Shortfall <= L_LINT(hz * NANOSECOND))
    BY InvHolds, ShortfallBounds, PTL
  <1>2. Spec => []AdjBounded
    <2>1. Inv /\ AdjBounded /\ [Next]_kvars => AdjBounded'
      <3> SUFFICES ASSUME Inv, AdjBounded, [AnyCall]_kvars PROVE AdjBounded'
        BY NextIsCall
      <3>1. CASE SecondOverflow
        BY <3>1, AdjustmentTight DEF SecondOverflow, AdjBounded
      <3>2. CASE ~SecondOverflow
        <4>1. UNCHANGED time_adj
          BY <3>2 DEF AnyCall, Tick, AdjTime, Discipline, kvars, timevar,
             tickVars
        <4> QED BY <4>1 DEF AdjBounded
      <3> QED BY <3>1, <3>2
    <2> QED BY InitAdj, InvHolds, <2>1, PTL DEF Spec
  <1>3. Spec => [][UsedUp]_kvars
    <2>1. Inv /\ [Next]_kvars => UsedUp
      BY NextIsCall, ShortfallStep
    <2> QED BY <2>1, InvHolds, PTL DEF Spec
  <1> QED BY <1>1, <1>2, <1>3

(* The next number leaves one more, unless it leaves nothing.              *)
LEMMA ModNext ==
    ASSUME NEW n \in Nat, NEW d \in Nat \ {0}
    PROVE  (n + 1) % d = 0 \/ (n + 1) % d = (n % d) + 1
  <1> DEFINE p == n \div d
             q == (n + 1) \div d
             r == n % d
             s == (n + 1) % d
  <1>1. /\ p \in Int /\ r \in 0 .. d - 1 /\ n = d * p + r
        /\ q \in Int /\ s \in 0 .. d - 1 /\ n + 1 = d * q + s
    OBVIOUS
  <1> HIDE DEF p, q, r, s
  <1> DEFINE e == q - p
  <1>2. e \in Int /\ d * q = d * p + d * e /\ d * p \in Int /\ d * e \in Int
    BY <1>1
  <1>3. d * e = r + 1 - s
    <2> HIDE DEF e
    <2> QED BY <1>1, <1>2
  <1>4. CASE e <= -1
    <2>1. e * d <= (-1) * d
      BY <1>2, <1>4, MulMono
    <2>2. d * e <= -d
      BY <1>2, <2>1
    <2> QED BY <1>1, <1>3, <2>2
  <1>5. CASE e = 0
    BY <1>1, <1>3, <1>5 DEF r, s
  <1>6. CASE e >= 1
    <2>1. 1 * d <= e * d
      BY <1>2, <1>6, MulMono
    <2>2. d * e >= d
      BY <1>2, <2>1
    <2>3. s = 0
      BY <1>1, <1>3, <2>2
    <2> QED BY <2>3 DEF s
  <1> QED BY <1>2, <1>4, <1>5, <1>6

MidnightNearer ==
    /\ SecondOverflow =>
        /\ time_state = "TIME_INS" =>
                \/ time_state' \in {"TIME_OOP", "TIME_OK"}
                \/ /\ time_state' = "TIME_INS" /\ tv_sec' = tv_sec + 1
                   /\ tv_sec' % DAY = (tv_sec % DAY) + 1
        /\ time_state = "TIME_OOP" => time_state' = "TIME_WAIT"
    /\ ~SecondOverflow =>
            tv_sec' = tv_sec /\ time_state' \in {time_state, "TIME_OK"}

(* A second that is announced is inserted within the day, or its           *)
(* announcement is withdrawn; and it is over with the next second          *)
(* (second_overflow(), ktime.c:446-497).                                   *)
THEOREM LeapIsNear == Spec => [][MidnightNearer]_kvars
  <1>1. ASSUME Inv, [AnyCall]_kvars PROVE MidnightNearer
    <2>1. tv_sec \in Nat /\ DAY \in Nat \ {0}
      BY <1>1, KtimeAssumption DEF Inv, TypeOK
    <2>2. ASSUME SecondOverflow, time_state = "TIME_INS"
          PROVE  \/ time_state' \in {"TIME_OOP", "TIME_OK"}
                 \/ /\ time_state' = "TIME_INS" /\ tv_sec' = tv_sec + 1
                    /\ (tv_sec + 1) % DAY # 0
      BY <2>2 DEF SecondOverflow, LeapStep, NoWarning, WarningWithdrawn,
         WarningPending, InsertSecond, DeleteSecond, EndInsertion, WaitForBits
    <2>3. ASSUME SecondOverflow, time_state = "TIME_OOP"
          PROVE  time_state' = "TIME_WAIT"
      BY <2>3 DEF SecondOverflow, LeapStep, NoWarning, WarningWithdrawn,
         WarningPending, InsertSecond, DeleteSecond, EndInsertion, WaitForBits
    <2>4. ASSUME ~SecondOverflow
          PROVE  tv_sec' = tv_sec /\ time_state' \in {time_state, "TIME_OK"}
      BY <1>1, <2>4 DEF AnyCall, Tick, AdjTime, Discipline, kvars, timevar,
         leapVars
    <2>5. (tv_sec + 1) % DAY = 0 \/ (tv_sec + 1) % DAY = (tv_sec % DAY) + 1
      BY <2>1, ModNext
    <2> QED BY <2>2, <2>3, <2>4, <2>5 DEF MidnightNearer
  <1>2. Inv /\ [Next]_kvars => MidnightNearer
    BY <1>1, NextIsCall
  <1> QED BY <1>2, InvHolds, PTL DEF Spec

(***************************************************************************)
(* The same for the kernel in a composition.  Whoever its callers are, and *)
(* whatever they work out from the clock before they call, the promises of *)
(* the kernel are kept as long as every step is one call or none, which is *)
(* what the clock lock is for.                                             *)
(***************************************************************************)
LEMMA CallsKeepInv == Inv /\ [][AnyCall]_kvars => []Inv
  BY CallInv, PTL

LEMMA CallsKeepEnvelope ==
    Inv /\ Envelope /\ [][AnyCall]_kvars => [](Inv /\ Envelope)
  <1>1. Inv /\ Inv' /\ Envelope /\ [AnyCall]_kvars => Envelope'
    BY EnvelopeStep
  <1> QED BY <1>1, CallsKeepInv, PTL

LEMMA CallsKeepUtc ==
    Inv /\ Utc!Init /\ [][AnyCall]_kvars => RefinesUtc
  <1>1. Inv /\ [AnyCall]_kvars => [Utc!Next]_(Utc!vars)
    BY UtcStep
  <1> QED BY <1>1, CallsKeepInv, PTL DEF RefinesUtc, Utc!Spec

LEMMA CallsKeepForward ==
    Inv /\ [][AnyCall]_kvars => ForwardOutsideLeap
  <1>1. Inv /\ [AnyCall]_kvars =>
            [ \/ tv_sec' > tv_sec
              \/ tv_sec' = tv_sec /\ tv_nsec' >= tv_nsec
              \/ /\ time_state = "TIME_INS" /\ time_state' = "TIME_OOP"
                 /\ tv_sec' = tv_sec ]_timevar
    BY ForwardStep
  <1> QED BY <1>1, CallsKeepInv, PTL DEF ForwardOutsideLeap

LEMMA CallsKeepTai == Inv /\ [][AnyCall]_kvars => TaiContinuous
  <1>1. Inv /\ [AnyCall]_kvars
            => [SecondOverflow => Elapsed' = Elapsed + 1]_kvars
    BY ElapsedStep DEF SecondOverflow
  <1> QED BY <1>1, CallsKeepInv, PTL DEF TaiContinuous

LEMMA CallsKeepOffset == Inv /\ [][AnyCall]_kvars => NoOvershoot
  <1>1. Inv /\ [AnyCall]_kvars =>
            [ SecondOverflow =>
                IF time_offset >= 0 THEN time_offset' \in 0 .. time_offset
                ELSE time_offset' \in time_offset .. 0 ]_kvars
    BY AmortizedStep
  <1> QED BY <1>1, CallsKeepInv, PTL DEF NoOvershoot

LEMMA CallsSettle ==
    Inv /\ Settling /\ [][AnyCall]_kvars => []OffsetSettles
  <1>1. Inv /\ Inv' /\ Settling /\ [AnyCall]_kvars => Settling'
    BY SettlingStep
  <1>2. Inv /\ Settling => OffsetSettles
    BY SettledParts
  <1> QED BY <1>1, <1>2, CallsKeepInv, PTL

LEMMA CallsSteer ==
    ASSUME NEW interval \in Nat, NoWrap(interval), IntervalsWithin(interval)
    PROVE  Inv /\ UpdatesSpaced /\ [][AnyCall]_kvars => SteersTowardOffset
  <1>1. Inv /\ UpdatesSpaced /\ [AnyCall]_kvars => UpdatesSpaced'
    BY SpacedStep
  <1>2. Inv /\ UpdatesSpaced /\ [AnyCall]_kvars =>
            [ \A offset \in Offsets :
                Discipline(offset) /\ InRange(offset) =>
                    /\ L_GINT(time_freq') > L_GINT(time_freq) => offset > 0
                    /\ L_GINT(time_freq') < L_GINT(time_freq) => offset < 0
            ]_kvars
    BY KtimeAssumption, UpdateDirected
  <1> QED BY <1>1, <1>2, CallsKeepInv, PTL DEF SteersTowardOffset
=============================================================================
