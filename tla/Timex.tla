------------------------------- MODULE Timex -------------------------------
(***************************************************************************)
(* The interface of the kernel clock discipline: timex.h and the fixed-    *)
(* point macros of l_fp.h in their 64-bit form, which every RTEMS target   *)
(* but m68k uses.  The numeric limits are parameters so that the checker   *)
(* can use small ones and the proofs hold for all of them.                 *)
(***************************************************************************)
EXTENDS Powers

CONSTANTS
    MAXPHASE,       \* largest phase error (ns)
    MAXFREQ,        \* largest frequency error (ns/s)
    MINSEC,         \* smallest update interval that may use the FLL (s)
    MAXSEC,         \* largest update interval that may stay in the PLL (s)
    NANOSECOND,     \* nanoseconds in a second
    NSPERUS,        \* nanoseconds in a microsecond (the literal 1000)
    SCALE_PPM,      \* ns/s to scaled PPM
    MAXTC,          \* largest time constant
    FRAC,           \* units of an l_fp in one: 2^32 in the code
    LONG_HALF       \* a long is in -LONG_HALF .. LONG_HALF - 1: 2^31

ASSUME TimexAssumption ==
    /\ {MAXPHASE, MAXFREQ, MAXTC} \subseteq Nat
    /\ {MINSEC, MAXSEC, NANOSECOND, NSPERUS, SCALE_PPM, FRAC, LONG_HALF}
            \subseteq Nat \ {0}
    /\ MINSEC <= MAXSEC
    /\ MAXPHASE < LONG_HALF
    /\ MAXPHASE + MAXFREQ + 1 <= NANOSECOND

(***************************************************************************)
(* Mode bits, status bits and clock states.  A word of bits is the set of  *)
(* the bits that are set.                                                  *)
(***************************************************************************)
MODES ==
    {"MOD_OFFSET", "MOD_FREQUENCY", "MOD_MAXERROR", "MOD_ESTERROR",
     "MOD_STATUS", "MOD_TIMECONST", "MOD_PPSMAX", "MOD_TAI",
     "MOD_MICRO", "MOD_NANO", "MOD_CLKB", "MOD_CLKA"}

STA_RONLY ==
    {"STA_PPSSIGNAL", "STA_PPSJITTER", "STA_PPSWANDER", "STA_PPSERROR",
     "STA_CLOCKERR", "STA_NANO", "STA_MODE", "STA_CLK"}

STA_BITS ==
    {"STA_PLL", "STA_PPSFREQ", "STA_PPSTIME", "STA_FLL", "STA_INS",
     "STA_DEL", "STA_UNSYNC", "STA_FREQHOLD"} \cup STA_RONLY

TIME_STATES == {"TIME_OK", "TIME_INS", "TIME_DEL", "TIME_OOP", "TIME_WAIT"}

(* The members of struct timex that ntp_adjtime() reads.                   *)
TimexRequest ==
    [modes : SUBSET MODES, status : SUBSET STA_BITS, constant : Int,
     offset : Int, freq : Int, maxerror : Int, esterror : Int, shift : Int]

(***************************************************************************)
(* C arithmetic.                                                           *)
(***************************************************************************)

(* Division of signed integers truncates toward zero.                      *)
CDiv(a, d) == IF a >= 0 THEN a \div d ELSE -((-a) \div d)

(* What a long holds after an operation whose exact result is x.           *)
WrapLong(x) == ((x + LONG_HALF) % (2 * LONG_HALF)) - LONG_HALF

(* What an l_fp holds after an operation whose exact result is x.          *)
WrapFp(x) ==
    ((x + LONG_HALF * FRAC) % (2 * LONG_HALF * FRAC)) - LONG_HALF * FRAC

Clamp(x, limit) ==
    IF x > limit THEN limit ELSE IF x < -limit THEN -limit ELSE x

(* The fixed-point macros: load and take the integral part, shift right.   *)
(* The negative case negates, shifts and negates again, so that it too     *)
(* rounds toward zero.                                                     *)
L_LINT(a) == a * FRAC
L_GINT(v) == CDiv(v, FRAC)
L_RSHIFT(v, n) == CDiv(v, PowerOfTwo[n])

(***************************************************************************)
(* The error decode that ends ntp_gettime() and ntp_adjtime().             *)
(***************************************************************************)
StatusError(status) ==
    \/ {"STA_UNSYNC", "STA_CLOCKERR"} \cap status # {}
    \/ /\ {"STA_PPSFREQ", "STA_PPSTIME"} \cap status # {}
       /\ "STA_PPSSIGNAL" \notin status
    \/ {"STA_PPSTIME", "STA_PPSJITTER"} \subseteq status
    \/ /\ "STA_PPSFREQ" \in status
       /\ {"STA_PPSWANDER", "STA_PPSERROR"} \cap status # {}

ReturnCode(status, state) ==
    IF StatusError(status) THEN "TIME_ERROR" ELSE state
=============================================================================
