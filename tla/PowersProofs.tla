---------------------------- MODULE PowersProofs ----------------------------
(***************************************************************************)
(* Induction over the natural numbers, what follows from it for the powers *)
(* of two, and facts of products and quotients.  The induction is over     *)
(* membership of a set, for which the least element that is missing is a   *)
(* witness: the library's theorems of induction take a predicate.          *)
(***************************************************************************)
EXTENDS Powers, WellFoundedInduction, TLAPS

LEMMA SetInduction ==
    ASSUME NEW S, 0 \in S, \A n \in Nat : n \in S => n + 1 \in S
    PROVE  Nat \subseteq S
  <1> DEFINE R == OpToRel(<, Nat)
             T == Nat \ S
  <1>1. IsWellFoundedOn(R, Nat)
    BY NatLessThanWellFounded
  <1>2. \A x, y \in Nat : <<x, y>> \in R <=> x < y
    BY DEF OpToRel
  <1>3. ASSUME T # {} PROVE FALSE
    <2>1. T \subseteq Nat
      OBVIOUS
    <2> HIDE DEF T, R
    <2>2. PICK x \in T : \A y \in T : ~(<<y, x>> \in R)
      BY <1>1, <1>3, <2>1, WFMin
    <2>3. x \in Nat /\ x # 0
      BY <2>2 DEF T
    <2>4. x - 1 \in Nat /\ x - 1 < x /\ (x - 1) + 1 = x
      BY <2>3
    <2>5. x - 1 \notin T
      BY <1>2, <2>2, <2>3, <2>4
    <2>6. x - 1 \in S
      BY <2>4, <2>5 DEF T
    <2> QED BY <2>2, <2>4, <2>6 DEF T
  <1> QED BY <1>3

(* The least element of a set of natural numbers.                          *)
LEMMA LeastNatural ==
    ASSUME NEW T, T \subseteq Nat, T # {}
    PROVE  \E x \in T : \A y \in T : x <= y
  <1> DEFINE R == OpToRel(<, Nat)
  <1>1. IsWellFoundedOn(R, Nat)
    BY NatLessThanWellFounded
  <1>2. \A x, y \in Nat : <<x, y>> \in R <=> x < y
    BY DEF OpToRel
  <1> HIDE DEF R
  <1>3. PICK x \in T : \A y \in T : ~(<<y, x>> \in R)
    BY <1>1, WFMin
  <1>4. ASSUME NEW y \in T PROVE x <= y
    <2>1. x \in Nat /\ y \in Nat
      OBVIOUS
    <2>2. ~(y < x)
      BY <1>2, <1>3, <2>1
    <2> QED BY <2>1, <2>2
  <1> QED BY <1>4

(***************************************************************************)
(* PowerOfTwo is the function that its definition describes: there is one  *)
(* on every interval, they agree, and together they make one on Nat.       *)
(***************************************************************************)
Doubles(g, n) ==
    /\ g \in [0 .. n -> Nat]
    /\ g[0] = 1
    /\ \A i \in 1 .. n : g[i] = 2 * g[i - 1]

LEMMA DoublesExists == \A n \in Nat : \E g : Doubles(g, n)
  <1> DEFINE S == {n \in Nat : \E g : Doubles(g, n)}
  <1>1. 0 \in S
    <2> DEFINE g == [i \in 0 .. 0 |-> 1]
    <2>1. Doubles(g, 0)
      BY DEF Doubles
    <2> QED BY <2>1
  <1>2. ASSUME NEW n \in Nat, n \in S PROVE n + 1 \in S
    <2>1. PICK g : Doubles(g, n)
      BY <1>2
    <2> DEFINE h == [i \in 0 .. n + 1 |-> IF i = n + 1 THEN 2 * g[n] ELSE g[i]]
    <2>2. n \in 0 .. n /\ \A i \in 0 .. n : g[i] \in Nat
      BY <2>1 DEF Doubles
    <2>3. h \in [0 .. n + 1 -> Nat]
      BY <2>2
    <2>4. h[0] = 1
      BY <2>1 DEF Doubles
    <2>5. ASSUME NEW i \in 1 .. n + 1 PROVE h[i] = 2 * h[i - 1]
      <3>1. CASE i = n + 1
        BY <3>1
      <3>2. CASE i \in 1 .. n
        <4>1. h[i] = g[i] /\ h[i - 1] = g[i - 1]
          BY <3>2
        <4> QED BY <2>1, <3>2, <4>1 DEF Doubles
      <3> QED BY <3>1, <3>2
    <2>6. Doubles(h, n + 1)
      BY <2>3, <2>4, <2>5 DEF Doubles
    <2> QED BY <2>6
  <1> HIDE DEF S
  <1>3. Nat \subseteq S
    BY <1>1, <1>2, SetInduction
  <1> QED BY <1>3 DEF S

LEMMA DoublesAgree ==
    ASSUME NEW m \in Nat, NEW n \in Nat, NEW g, NEW h,
           Doubles(g, m), Doubles(h, n)
    PROVE  \A i \in Nat : i <= m /\ i <= n => g[i] = h[i]
  <1> DEFINE S == {i \in Nat : i <= m /\ i <= n => g[i] = h[i]}
  <1>1. 0 \in S
    BY DEF Doubles
  <1>2. ASSUME NEW i \in Nat, i \in S PROVE i + 1 \in S
    <2> SUFFICES ASSUME i + 1 <= m, i + 1 <= n PROVE g[i + 1] = h[i + 1]
      OBVIOUS
    <2>1. g[i] = h[i]
      BY <1>2
    <2>2. i + 1 \in 1 .. m /\ i + 1 \in 1 .. n /\ (i + 1) - 1 = i
      OBVIOUS
    <2>3. g[i + 1] = 2 * g[i] /\ h[i + 1] = 2 * h[i]
      BY <2>2 DEF Doubles
    <2> QED BY <2>1, <2>3
  <1> HIDE DEF S
  <1>3. Nat \subseteq S
    BY <1>1, <1>2, SetInduction
  <1> QED BY <1>3 DEF S

LEMMA PowerRecursion ==
    \A n \in Nat : PowerOfTwo[n] = IF n = 0 THEN 1 ELSE 2 * PowerOfTwo[n - 1]
  <1> DEFINE G(n) == CHOOSE g : Doubles(g, n)
             F == [n \in Nat |-> G(n)[n]]
  <1>1. \A n \in Nat : Doubles(G(n), n)
    BY DoublesExists
  <1>2. ASSUME NEW n \in Nat
        PROVE  F[n] = IF n = 0 THEN 1 ELSE 2 * F[n - 1]
    <2>1. CASE n = 0
      BY <1>1, <2>1 DEF Doubles
    <2>2. CASE n # 0
      <3> DEFINE m == n - 1
      <3>1. m \in Nat /\ m <= n /\ m <= m /\ n \in 1 .. n
        BY <2>2
      <3>2. Doubles(G(n), n) /\ Doubles(G(m), m)
        BY <1>1, <3>1
      <3> HIDE DEF G
      <3>3. G(n)[m] = G(m)[m]
        BY <3>1, <3>2, DoublesAgree
      <3>4. G(n)[n] = 2 * G(n)[m]
        BY <3>1, <3>2 DEF Doubles
      <3>5. F[n] = G(n)[n] /\ F[m] = G(m)[m]
        BY <3>1
      <3> HIDE DEF F
      <3> QED BY <2>2, <3>3, <3>4, <3>5
    <2> QED BY <2>1, <2>2
  <1>3. F = [n \in Nat |-> IF n = 0 THEN 1 ELSE 2 * F[n - 1]]
    <2>1. F = [n \in Nat |-> F[n]]
      OBVIOUS
    <2> HIDE DEF F
    <2> QED BY <1>2, <2>1
  <1> HIDE DEF F
  <1>4. PowerOfTwo = [n \in Nat |-> IF n = 0 THEN 1 ELSE 2 * PowerOfTwo[n - 1]]
    BY <1>3, Zenon DEF PowerOfTwo
  <1>5. DOMAIN PowerOfTwo = Nat
    BY <1>4
  <1> QED BY <1>4

(***************************************************************************)
(* The laws of powers that the proofs use.                                 *)
(***************************************************************************)
LEMMA PowerStep ==
    /\ PowerOfTwo[0] = 1
    /\ \A n \in Nat : PowerOfTwo[n + 1] = 2 * PowerOfTwo[n]
  <1>1. PowerOfTwo[0] = 1
    BY PowerRecursion
  <1>2. ASSUME NEW n \in Nat PROVE PowerOfTwo[n + 1] = 2 * PowerOfTwo[n]
    <2>1. n + 1 \in Nat /\ n + 1 # 0 /\ (n + 1) - 1 = n
      OBVIOUS
    <2> QED BY <2>1, PowerRecursion
  <1> QED BY <1>1, <1>2

LEMMA PowerType == \A n \in Nat : PowerOfTwo[n] \in Nat \ {0}
  <1> DEFINE S == {n \in Nat : PowerOfTwo[n] \in Nat \ {0}}
  <1>1. 0 \in S
    BY PowerStep
  <1>2. ASSUME NEW n \in Nat, n \in S PROVE n + 1 \in S
    BY <1>2, PowerStep
  <1> HIDE DEF S
  <1>3. Nat \subseteq S
    BY <1>1, <1>2, SetInduction
  <1> QED BY <1>3 DEF S

LEMMA PowerSum ==
    ASSUME NEW m \in Nat
    PROVE  \A n \in Nat : PowerOfTwo[m + n] = PowerOfTwo[m] * PowerOfTwo[n]
  <1> DEFINE S == {n \in Nat : PowerOfTwo[m + n] = PowerOfTwo[m] * PowerOfTwo[n]}
  <1>1. 0 \in S
    BY PowerStep, PowerType
  <1>2. ASSUME NEW n \in Nat, n \in S PROVE n + 1 \in S
    <2>1. m + (n + 1) = (m + n) + 1 /\ m + n \in Nat
      OBVIOUS
    <2>2. PowerOfTwo[m + (n + 1)] = 2 * PowerOfTwo[m + n]
      BY <2>1, PowerStep
    <2>3. PowerOfTwo[n + 1] = 2 * PowerOfTwo[n]
      BY PowerStep
    <2>4. PowerOfTwo[m] \in Nat /\ PowerOfTwo[n] \in Nat
      BY PowerType
    <2>5. \A a, b \in Nat : a * (2 * b) = 2 * (a * b)
      OBVIOUS
    <2> QED BY <1>2, <2>2, <2>3, <2>4, <2>5
  <1> HIDE DEF S
  <1>3. Nat \subseteq S
    BY <1>1, <1>2, SetInduction
  <1> QED BY <1>3 DEF S

LEMMA PowerMono ==
    ASSUME NEW m \in Nat, NEW n \in Nat, m <= n
    PROVE  PowerOfTwo[m] <= PowerOfTwo[n]
  <1> DEFINE k == n - m
  <1>1. k \in Nat /\ n = m + k
    OBVIOUS
  <1> HIDE DEF k
  <1>2. PowerOfTwo[n] = PowerOfTwo[m] * PowerOfTwo[k]
    BY <1>1, PowerSum
  <1>3. PowerOfTwo[m] \in Nat /\ PowerOfTwo[k] \in Nat /\ PowerOfTwo[k] >= 1
    BY <1>1, PowerType
  <1>4. \A a, b \in Nat : b >= 1 => a <= a * b
    OBVIOUS
  <1> QED BY <1>2, <1>3, <1>4

(***************************************************************************)
(* Products and quotients.                                                 *)
(***************************************************************************)
(* Division of a natural number.                                           *)
LEMMA DivNat ==
    ASSUME NEW a \in Nat, NEW d \in Nat \ {0}
    PROVE  /\ a \div d \in Nat
           /\ d * (a \div d) <= a
           /\ a < d * (a \div d) + d
  OBVIOUS

(* A product of naturals with a positive factor orders as its other one.   *)
LEMMA MulMono ==
    ASSUME NEW a \in Int, NEW b \in Int, NEW d \in Nat \ {0}, a <= b
    PROVE  a * d <= b * d
  OBVIOUS

LEMMA MulCancel ==
    ASSUME NEW a \in Int, NEW b \in Int, NEW d \in Nat \ {0}, a * d < b * d
    PROVE  a < b
  OBVIOUS

(* Quotient and remainder are unique.                                      *)
LEMMA DivModUnique ==
    ASSUME NEW n \in Nat, NEW d \in Nat \ {0},
           NEW q \in Nat, NEW r \in 0 .. d - 1, n = d * q + r
    PROVE  n \div d = q /\ n % d = r
  <1> DEFINE p == n \div d
             m == n % d
  <1>1. p \in Nat /\ m \in 0 .. d - 1 /\ n = d * p + m
    OBVIOUS
  <1> HIDE DEF p, m
  <1>2. \A a, b \in Nat, x, y \in 0 .. d - 1 :
            d * a + x = d * b + y => ~(a < b)
    <2> SUFFICES ASSUME NEW a \in Nat, NEW b \in Nat,
                        NEW x \in 0 .. d - 1, NEW y \in 0 .. d - 1,
                        d * a + x = d * b + y, a < b
                 PROVE  FALSE
      OBVIOUS
    <2>1. (a + 1) * d <= b * d
      BY MulMono
    <2>2. d * a + d <= d * b
      BY <2>1
    <2>3. d * a \in Int /\ d * b \in Int
      OBVIOUS
    <2> QED BY <2>2, <2>3
  <1>3. p = q
    BY <1>1, <1>2
  <1>4. m = r
    BY <1>1, <1>3
  <1> QED BY <1>3, <1>4 DEF p, m
=============================================================================
