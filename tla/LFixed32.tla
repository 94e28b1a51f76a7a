------------------------------ MODULE LFixed32 ------------------------------
(***************************************************************************)
(* The fixed-point macros of l_fp.h for machines without 64-bit integers:  *)
(* a value is a pair of words, whose fractional part is added and          *)
(* multiplied by half words.  Bit operations are written as the arithmetic *)
(* that they do: a shift divides or multiplies, ~x is -x - 1, and a bit    *)
(* that is tested after a sum of two half words is its carry.              *)
(* Operators named X_Fault are faulty variants of X, which the property    *)
(* below is shown to reject; nothing uses them.                            *)
(***************************************************************************)
EXTENDS Powers

CONSTANTS
    HALFBITS        \* bits in half a word (16)

ASSUME HalfAssumption == HALFBITS \in Nat \ {0}

H == PowerOfTwo[HALFBITS]

WORD == H * H

(* u_int32 and int32.                                                      *)
Unsigned(x) == x % WORD

Signed(x) == ((x + (WORD \div 2)) % WORD) - (WORD \div 2)

l_fp(i, uf) == [l_i |-> i, l_uf |-> uf]

Pairs == {l_fp(i, uf) : i \in -(WORD \div 2) .. (WORD \div 2) - 1,
                        uf \in 0 .. WORD - 1}

M_ADD(r, a) ==
    LET lo_tmp == (r.l_uf % H) + (a.l_uf % H)
        hi_tmp == (r.l_uf \div H) + (a.l_uf \div H) + (lo_tmp \div H)
    IN  l_fp(Signed(r.l_i + a.l_i + (hi_tmp \div H)),
             (hi_tmp % H) * H + (lo_tmp % H))

(* Faulty: ~a for -a, also where there is no fraction to borrow for.       *)
M_SUB_NoZero(r, a) == M_ADD(r, l_fp(-a.l_i - 1, Unsigned(-a.l_uf)))

M_SUB(r, a) ==
    IF a.l_uf = 0 THEN l_fp(Signed(r.l_i - a.l_i), r.l_uf)
    ELSE M_ADD(r, l_fp(-a.l_i - 1, Unsigned(-a.l_uf)))

M_NEG(v) ==
    IF v.l_uf = 0 THEN l_fp(Signed(-v.l_i), 0)
    ELSE l_fp(-v.l_i - 1, Unsigned(-v.l_uf))

ShiftedMagnitude(v, n) ==
    IF n < 2 * HALFBITS
    THEN l_fp(v.l_i \div PowerOfTwo[n],
              (v.l_uf \div PowerOfTwo[n])
                  + Unsigned(v.l_i * PowerOfTwo[2 * HALFBITS - n]))
    ELSE l_fp(0, v.l_i \div PowerOfTwo[n - 2 * HALFBITS])

M_RSHIFT(v, n) ==
    IF v.l_i < 0 THEN M_NEG(ShiftedMagnitude(M_NEG(v), n))
    ELSE ShiftedMagnitude(v, n)

MultipliedMagnitude(v, m) ==
    LET d == Unsigned((v.l_uf % H) * m)
        c == Unsigned((v.l_uf \div H) * m + (d \div H))
        b == Unsigned((v.l_i % H) * m + (c \div H))
        a == Unsigned((v.l_i \div H) * m + (b \div H))
    IN  l_fp(Signed(a * H + (b % H)), Unsigned(c * H + (d % H)))

M_MPY(v, m) ==
    IF v.l_i < 0 THEN M_NEG(MultipliedMagnitude(M_NEG(v), m))
    ELSE MultipliedMagnitude(v, m)

L_GINT(v) == v.l_i

(***************************************************************************)
(* The 64-bit form, on the number that a pair stands for: long long, which *)
(* wraps, and shifts that round toward zero.                               *)
(***************************************************************************)
Fixed(v) == v.l_i * WORD + v.l_uf

LongLong(x) ==
    LET range == WORD * WORD
    IN  ((x + (range \div 2)) % range) - (range \div 2)

Shifted64(x, n) ==
    IF x < 0 THEN -LongLong((-x) \div PowerOfTwo[n]) ELSE x \div PowerOfTwo[n]

(***************************************************************************)
(* A calculation: any sequence of the macros, on an accumulator of either  *)
(* form.                                                                   *)
(***************************************************************************)
VARIABLES
    pair,           \* the accumulator of the 32-bit form
    fixed           \* the accumulator of the 64-bit form

fpVars == <<pair, fixed>>

FpInit == pair = l_fp(0, 0) /\ fixed = 0

L_ADD(a) == pair' = M_ADD(pair, a) /\ fixed' = LongLong(fixed + Fixed(a))

L_SUB(a) == pair' = M_SUB(pair, a) /\ fixed' = LongLong(fixed - Fixed(a))

L_ADDHI(i) ==
    /\ pair' = M_ADD(pair, l_fp(i, 0))
    /\ fixed' = LongLong(fixed + i * WORD)

L_NEG == pair' = M_NEG(pair) /\ fixed' = LongLong(-fixed)

(* The least number has no opposite, and a shift by no bits is undefined.  *)
L_RSHIFT(n) ==
    /\ pair # l_fp(-(WORD \div 2), 0)
    /\ pair' = M_RSHIFT(pair, n)
    /\ fixed' = Shifted64(fixed, n)

L_MPY(m) ==
    /\ pair # l_fp(-(WORD \div 2), 0)
    /\ pair' = M_MPY(pair, m)
    /\ fixed' = LongLong(fixed * m)

FpNext ==
    \/ \E a \in Pairs : L_ADD(a) \/ L_SUB(a)
    \/ \E i \in -(WORD \div 2) .. (WORD \div 2) - 1 : L_ADDHI(i)
    \/ L_NEG
    \/ \E n \in 1 .. 4 * HALFBITS - 2 : L_RSHIFT(n)
    \/ \E m \in 0 .. H - 1 : L_MPY(m)

(***************************************************************************)
(* Properties.                                                             *)
(***************************************************************************)

(* l_fp.h has two forms of one type: wherever carries and borrows fall,    *)
(* sums, differences, opposites, shifts, and products with what fits half  *)
(* a word, are the same number in both; so is its sign.                    *)
PairsImplementFixed ==
    /\ Fixed(pair) = fixed
    /\ L_GINT(pair) < 0 <=> fixed < 0
=============================================================================
