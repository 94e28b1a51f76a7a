----------------------------- MODULE DriverProofs -----------------------------
(***************************************************************************)
(* Proofs about the modules that MCDrivers instantiates, for every value   *)
(* of their constants.  HighClock: what highboard() puts together from     *)
(* four registers, read one at a time while the counter goes on, is a      *)
(* value that the counter had.  TproClock: the year that microtime() adds  *)
(* to what IRIG tells is the year of IRIG.  LFixed32: the arithmetic of    *)
(* l_fp on two 32-bit words is the arithmetic on one 64-bit word.          *)
(***************************************************************************)
EXTENDS HighClock, TproClock, LFixed32, PowersProofs

W3(c) == Register("w3", c)
W2Of(c) == Register("w2", c)
W1(c) == Register("w1", c)

(* What has been read is not ahead of the counter at c, compared from high *)
(* to low order.                                                           *)
NotAhead3(c) == cnt["w3"] <= W3(c)

NotAhead2(c) == cnt["w3"] = W3(c) => cnt["w2"] <= W2Of(c)

NotAhead1(c) ==
    cnt["w3"] = W3(c) /\ cnt["w2"] = W2Of(c) => cnt["w1"] <= W1(c)

NotAhead(c) == NotAhead3(c) /\ NotAhead2(c) /\ NotAhead1(c)

(* The registers above w0 are those of the counter when w0 was read.       *)
Consistent ==
    cnt["w3"] = W3(atw0) /\ cnt["w2"] = W2Of(atw0) /\ cnt["w1"] = W1(atw0)

Steps ==
    {"idle", "strobe", "w3", "w2", "w1", "w0", "again w1", "again w2",
     "again w3", "done"}

HighTypes ==
    /\ latched \in BOOLEAN
    /\ {count, strobed, atw0} \subseteq Nat
    /\ next \in Steps
    /\ cnt \in [{"w0", "w1", "w2", "w3"} -> Nat]

(* What each step of highboard() knows of the registers that were read.    *)
(* A comparison that agrees does not yet show that they belong together:   *)
(* they do if the higher registers, which are compared later, agree too.   *)
ReadingInv ==
    /\ next = "w2" => NotAhead3(count)
    /\ next = "w1" => NotAhead3(count) /\ NotAhead2(count)
    /\ next = "w0" => NotAhead(count)

ComparedInv ==
    /\ next \in {"again w1", "again w2", "again w3"} =>
            atw0 <= count /\ NotAhead(atw0)
    /\ next = "again w2" =>
            (cnt["w3"] = W3(count) /\ cnt["w2"] = W2Of(count) => Consistent)
    /\ next = "again w3" => (cnt["w3"] = W3(count) => Consistent)
    /\ next = "done" => Consistent

LowInv ==
    next \in {"again w1", "again w2", "again w3", "done"} =>
        /\ cnt["w0"] \in 0 .. W0 - 1
        /\ ~latched => cnt["w0"] = Register("w0", atw0)

HighInv == HighTypes /\ ReadingInv /\ ComparedInv /\ LowInv

LEMMA DivType ==
    ASSUME NEW a \in Nat, NEW d \in Nat \ {0}
    PROVE  a \div d \in Nat /\ a % d \in Nat /\ a % d \in 0 .. d - 1
  OBVIOUS

LEMMA DivMod ==
    ASSUME NEW a \in Nat, NEW d \in Nat \ {0}
    PROVE  a = d * (a \div d) + (a % d)
  OBVIOUS

LEMMA DivGrows ==
    ASSUME NEW a \in Nat, NEW b \in Nat, NEW d \in Nat \ {0}, a <= b
    PROVE  a \div d <= b \div d
  <1> DEFINE p == a \div d
             q == b \div d
  <1>1. /\ p \in Nat /\ d * p <= a
        /\ q \in Nat /\ b < d * q + d
    BY DivType, DivMod
  <1> HIDE DEF p, q
  <1>2. d * p < d * (q + 1)
    BY <1>1
  <1>3. p < q + 1
    BY <1>1, <1>2
  <1>4. p <= q
    BY <1>1, <1>3
  <1> QED BY <1>4 DEF p, q

LEMMA ModGrows ==
    ASSUME NEW a \in Nat, NEW b \in Nat, NEW d \in Nat \ {0}, a <= b,
           a \div d = b \div d
    PROVE  a % d <= b % d
  <1>1. a = d * (a \div d) + (a % d) /\ b = d * (a \div d) + (b % d)
    BY DivMod
  <1>2. d * (a \div d) \in Nat /\ a % d \in Nat /\ b % d \in Nat
    <2>1. a \div d \in Nat
      BY DivType
    <2> QED BY <2>1, DivType
  <1> QED BY <1>1, <1>2

LEMMA Registers ==
    ASSUME NEW c \in Nat
    PROVE  /\ c \div MICROS \in Nat /\ c % MICROS \in Nat
           /\ W3(c) = (c \div MICROS) \div W2 /\ W3(c) \in Nat
           /\ W2Of(c) = (c \div MICROS) % W2 /\ W2Of(c) \in Nat
           /\ W1(c) = (c % MICROS) \div W0 /\ W1(c) \in Nat
           /\ Register("w0", c) = (c % MICROS) % W0
           /\ Register("w0", c) \in 0 .. W0 - 1
  <1>1. {MICROS, W0, W2} \subseteq Nat \ {0}
    BY HighAssumption
  <1>2. c \div MICROS \in Nat /\ c % MICROS \in Nat
    BY <1>1, DivType
  <1>3. /\ W3(c) = (c \div MICROS) \div W2
        /\ W2Of(c) = (c \div MICROS) % W2
        /\ W1(c) = (c % MICROS) \div W0
        /\ Register("w0", c) = (c % MICROS) % W0
    BY DEF W3, W2Of, W1, Register
  <1>4. (c \div MICROS) \div W2 \in Nat /\ (c \div MICROS) % W2 \in Nat
    BY <1>1, <1>2, DivType
  <1>5. (c % MICROS) \div W0 \in Nat /\ (c % MICROS) % W0 \in 0 .. W0 - 1
    BY <1>1, <1>2, DivType
  <1> QED BY <1>2, <1>3, <1>4, <1>5

(* The registers of a counter that went on, from high to low order.        *)
LEMMA RegistersGrow ==
    ASSUME NEW c \in Nat, NEW d \in Nat, c <= d
    PROVE  /\ W3(c) <= W3(d)
           /\ W3(c) = W3(d) => W2Of(c) <= W2Of(d)
           /\ W3(c) = W3(d) /\ W2Of(c) = W2Of(d) => W1(c) <= W1(d)
  <1>1. {MICROS, W0, W2} \subseteq Nat \ {0}
    BY HighAssumption
  <1> DEFINE s == c \div MICROS
             t == d \div MICROS
  <1>2. s \in Nat /\ t \in Nat /\ c % MICROS \in Nat /\ d % MICROS \in Nat
    BY <1>1, DivType
  <1>3. s <= t
    BY <1>1, DivGrows
  <1>4. /\ W3(c) = s \div W2 /\ W2Of(c) = s % W2
        /\ W3(d) = t \div W2 /\ W2Of(d) = t % W2
        /\ W1(c) = (c % MICROS) \div W0 /\ W1(d) = (d % MICROS) \div W0
    BY Registers
  <1> HIDE DEF s, t
  <1>5. W3(c) <= W3(d)
    BY <1>1, <1>2, <1>3, <1>4, DivGrows
  <1>6. W3(c) = W3(d) => W2Of(c) <= W2Of(d)
    BY <1>1, <1>2, <1>3, <1>4, ModGrows
  <1>7. ASSUME W3(c) = W3(d), W2Of(c) = W2Of(d) PROVE W1(c) <= W1(d)
    <2>1. s = t
      <3>1. /\ s = W2 * (s \div W2) + (s % W2)
            /\ t = W2 * (t \div W2) + (t % W2)
        BY <1>1, <1>2, DivMod
      <3>2. s \div W2 = t \div W2 /\ s % W2 = t % W2
        BY <1>4, <1>7
      <3> QED BY <3>1, <3>2
    <2>2. c % MICROS <= d % MICROS
      BY <1>1, <2>1, ModGrows DEF s, t
    <2> QED BY <1>1, <1>2, <1>4, <2>2, DivGrows
  <1> QED BY <1>5, <1>6, <1>7

(* What is not ahead of the counter stays so.                              *)
LEMMA StaysBehind ==
    ASSUME cnt \in [{"w0", "w1", "w2", "w3"} -> Nat],
           NEW c \in Nat, NEW d \in Nat, c <= d
    PROVE  /\ NotAhead3(c) => NotAhead3(d)
           /\ NotAhead3(c) /\ NotAhead2(c) => NotAhead2(d)
           /\ NotAhead(c) => NotAhead(d)
           /\ NotAhead3(c) /\ cnt["w3"] = W3(d) => cnt["w3"] = W3(c)
           /\ NotAhead(c) /\ cnt["w3"] = W3(d) /\ cnt["w2"] = W2Of(d)
                => cnt["w2"] = W2Of(c)
           /\ NotAhead(c) /\ cnt["w3"] = W3(d) /\ cnt["w2"] = W2Of(d)
                    /\ cnt["w1"] = W1(d)
                => cnt["w1"] = W1(c)
  <1>1. {cnt["w3"], cnt["w2"], cnt["w1"], W3(c), W2Of(c), W1(c), W3(d),
         W2Of(d), W1(d)} \subseteq Int
    BY Registers
  <1>2. /\ W3(c) <= W3(d)
        /\ W3(c) = W3(d) => W2Of(c) <= W2Of(d)
        /\ W3(c) = W3(d) /\ W2Of(c) = W2Of(d) => W1(c) <= W1(d)
    BY RegistersGrow
  <1> QED BY <1>1, <1>2 DEF NotAhead, NotAhead3, NotAhead2, NotAhead1
LEMMA HighInitInv == HighInit => HighInv
  BY HighAssumption
  DEF HighInit, HighInv, HighTypes, Steps, ReadingInv, ComparedInv, LowInv

LEMMA StrobeKeeps ==
    ASSUME HighInv, Strobe, UNCHANGED count
    PROVE  HighInv'
  <1>1. /\ next' = "w3" /\ strobed' = count
        /\ UNCHANGED <<latched, cnt, atw0, count>>
    BY DEF Strobe
  <1>2. HighTypes'
    BY <1>1 DEF HighInv, HighTypes, Steps
  <1> QED BY <1>1, <1>2 DEF HighInv, ReadingInv, ComparedInv, LowInv

(* A register that is read is what the counter has.                        *)
LEMMA ReadKeeps ==
    ASSUME HighInv, UNCHANGED count,
           \/ ReadWord("w3", "w2")
           \/ ReadWord("w2", "w1")
           \/ ReadWord("w1", "w0")
    PROVE  HighInv'
  <1>1. /\ {W3(count), W2Of(count), W1(count)} \subseteq Nat
        /\ cnt \in [{"w0", "w1", "w2", "w3"} -> Nat] /\ count \in Nat
    BY Registers DEF HighInv, HighTypes
  <1>2. CASE ReadWord("w3", "w2")
    <2>1. /\ next = "w3" /\ next' = "w2"
          /\ cnt' = [cnt EXCEPT !["w3"] = W3(count)]
          /\ UNCHANGED <<latched, strobed, atw0, count>>
      BY <1>2 DEF ReadWord, W3
    <2>2. HighTypes' /\ cnt'["w3"] = W3(count)
      BY <1>1, <2>1 DEF HighInv, HighTypes, Steps
    <2>3. NotAhead3(count)'
      BY <1>1, <2>1, <2>2 DEF NotAhead3, W3
    <2> QED BY <2>1, <2>2, <2>3 DEF HighInv, ReadingInv, ComparedInv, LowInv
  <1>3. CASE ReadWord("w2", "w1")
    <2>1. /\ next = "w2" /\ next' = "w1"
          /\ cnt' = [cnt EXCEPT !["w2"] = W2Of(count)]
          /\ UNCHANGED <<latched, strobed, atw0, count>>
      BY <1>3 DEF ReadWord, W2Of
    <2>2. /\ HighTypes' /\ cnt'["w2"] = W2Of(count)
          /\ cnt'["w3"] = cnt["w3"]
      BY <1>1, <2>1 DEF HighInv, HighTypes, Steps
    <2>3. NotAhead3(count)
      BY <2>1 DEF HighInv, ReadingInv
    <2>4. NotAhead3(count)' /\ NotAhead2(count)'
      BY <1>1, <2>1, <2>2, <2>3 DEF NotAhead3, NotAhead2, W3, W2Of
    <2> QED BY <2>1, <2>2, <2>4 DEF HighInv, ReadingInv, ComparedInv, LowInv
  <1>4. CASE ReadWord("w1", "w0")
    <2>1. /\ next = "w1" /\ next' = "w0"
          /\ cnt' = [cnt EXCEPT !["w1"] = W1(count)]
          /\ UNCHANGED <<latched, strobed, atw0, count>>
      BY <1>4 DEF ReadWord, W1
    <2>2. /\ HighTypes' /\ cnt'["w1"] = W1(count)
          /\ cnt'["w3"] = cnt["w3"] /\ cnt'["w2"] = cnt["w2"]
      BY <1>1, <2>1 DEF HighInv, HighTypes, Steps
    <2>3. NotAhead3(count) /\ NotAhead2(count)
      BY <2>1 DEF HighInv, ReadingInv
    <2>4. NotAhead(count)'
      BY <1>1, <2>1, <2>2, <2>3
      DEF NotAhead, NotAhead3, NotAhead2, NotAhead1, W3, W2Of, W1
    <2> QED BY <2>1, <2>2, <2>4 DEF HighInv, ReadingInv, ComparedInv, LowInv
  <1> QED BY <1>2, <1>3, <1>4

LEMMA ReadLowKeeps ==
    ASSUME HighInv, ReadLow, UNCHANGED count
    PROVE  HighInv'
  <1>1. /\ count \in Nat /\ strobed \in Nat /\ latched \in BOOLEAN
        /\ cnt \in [{"w0", "w1", "w2", "w3"} -> Nat]
    BY DEF HighInv, HighTypes
  <1>2. /\ next = "w0" /\ next' = "again w1" /\ atw0' = count
        /\ UNCHANGED <<latched, strobed, count>>
    BY DEF ReadLow
  <1> DEFINE low == Register("w0", IF latched THEN strobed ELSE count)
  <1>3. low \in 0 .. W0 - 1 /\ low \in Nat /\ (~latched => low = Register("w0", count))
    <2>1. Register("w0", count) \in 0 .. W0 - 1
      BY <1>1, Registers
    <2>2. Register("w0", strobed) \in 0 .. W0 - 1
      BY <1>1, Registers
    <2>3. W0 \in Nat
      BY HighAssumption
    <2> QED BY <1>1, <2>1, <2>2, <2>3
  <1>4. cnt' = [cnt EXCEPT !["w0"] = low]
    BY DEF ReadLow
  <1> HIDE DEF low
  <1>5. /\ cnt'["w0"] = low /\ cnt'["w3"] = cnt["w3"]
        /\ cnt'["w2"] = cnt["w2"] /\ cnt'["w1"] = cnt["w1"]
        /\ HighTypes'
    BY <1>1, <1>2, <1>3, <1>4 DEF HighTypes, Steps
  <1>6. NotAhead(atw0)' /\ (atw0 <= count)'
    <2>1. NotAhead(count)
      BY <1>2 DEF HighInv, ReadingInv
    <2>2. NotAhead3(atw0)'
      BY <1>2, <1>5, <2>1 DEF NotAhead, NotAhead3, W3
    <2>3. NotAhead2(atw0)'
      BY <1>2, <1>5, <2>1 DEF NotAhead, NotAhead2, W3, W2Of
    <2>4. NotAhead1(atw0)'
      BY <1>2, <1>5, <2>1 DEF NotAhead, NotAhead1, W3, W2Of, W1
    <2>5. (atw0 <= count)'
      <3>1. atw0' = count /\ count' = count
        BY <1>2
      <3>2. count <= count
        BY <1>1
      <3> QED BY <3>1, <3>2
    <2> QED BY <2>2, <2>3, <2>4, <2>5 DEF NotAhead
  <1>7. LowInv'
    BY <1>2, <1>3, <1>5 DEF LowInv, Register
  <1> QED BY <1>2, <1>5, <1>6, <1>7 DEF HighInv, ReadingInv, ComparedInv

(* Registers that agree when they are compared have been the same all the  *)
(* time, provided that the higher ones were.                               *)
LEMMA CompareKeeps ==
    ASSUME HighInv, Comparisons, UNCHANGED count
    PROVE  HighInv'
  <1>1. /\ UNCHANGED <<latched, strobed, cnt, atw0, count>>
        /\ next \in {"again w1", "again w2", "again w3"}
    BY DEF Comparisons, Compare, boardVars
  <1>2. /\ cnt \in [{"w0", "w1", "w2", "w3"} -> Nat]
        /\ count \in Nat /\ atw0 \in Nat /\ atw0 <= count /\ NotAhead(atw0)
    BY <1>1 DEF HighInv, HighTypes, ComparedInv
  <1>3. NotAhead3(atw0)
    BY <1>2 DEF NotAhead
  <1>4. next' \in Steps
    BY DEF Comparisons, Compare, Steps
  <1>5. HighTypes' /\ LowInv'
    BY <1>1, <1>4 DEF HighInv, HighTypes, LowInv, Register
  <1>6. CASE next' = "strobe"
    BY <1>5, <1>6 DEF HighInv, ReadingInv, ComparedInv
  <1>7. CASE next = "again w1" /\ next' = "again w2"
    <2>1. cnt["w1"] = W1(count)
      BY <1>7 DEF Comparisons, Compare, W1
    <2>2. cnt["w3"] = W3(count) /\ cnt["w2"] = W2Of(count) => Consistent
      BY <1>2, <1>3, <2>1, StaysBehind DEF Consistent
    <2>3. ComparedInv'
      BY <1>1, <1>2, <1>7, <2>2
      DEF ComparedInv, Consistent, NotAhead, NotAhead3, NotAhead2, NotAhead1,
          W3, W2Of, W1
    <2> QED BY <1>5, <1>7, <2>3 DEF HighInv, ReadingInv
  <1>8. CASE next = "again w2" /\ next' = "again w3"
    <2>1. cnt["w2"] = W2Of(count)
      BY <1>8 DEF Comparisons, Compare, W2Of
    <2>2. cnt["w3"] = W3(count) => Consistent
      BY <1>8, <2>1 DEF HighInv, ComparedInv
    <2>3. ComparedInv'
      BY <1>1, <1>2, <1>8, <2>2
      DEF ComparedInv, Consistent, NotAhead, NotAhead3, NotAhead2, NotAhead1,
          W3, W2Of, W1
    <2> QED BY <1>5, <1>8, <2>3 DEF HighInv, ReadingInv
  <1>9. CASE next = "again w3" /\ next' = "done"
    <2>1. cnt["w3"] = W3(count)
      BY <1>9 DEF Comparisons, Compare, W3
    <2>2. Consistent
      BY <1>9, <2>1 DEF HighInv, ComparedInv
    <2>3. ComparedInv'
      BY <1>1, <1>9, <2>2 DEF ComparedInv, Consistent, W3, W2Of, W1
    <2> QED BY <1>5, <1>9, <2>3 DEF HighInv, ReadingInv
  <1>10. \/ next' = "strobe"
         \/ next = "again w1" /\ next' = "again w2"
         \/ next = "again w2" /\ next' = "again w3"
         \/ next = "again w3" /\ next' = "done"
    BY Zenon DEF Comparisons, Compare
  <1> QED BY <1>6, <1>7, <1>8, <1>9, <1>10

(* The counter goes on between any two steps.                              *)
LEMMA AdvanceKeeps ==
    ASSUME HighInv, NEW by \in Advances, Advance(by)
    PROVE  HighInv'
  <1>1. /\ UNCHANGED <<latched, strobed, cnt, atw0, next>>
        /\ count' = count + by
    BY DEF Advance, boardVars
  <1>2. /\ count \in Nat /\ count' \in Nat /\ count <= count' /\ atw0 \in Nat
        /\ cnt \in [{"w0", "w1", "w2", "w3"} -> Nat]
    BY <1>1, HighAssumption DEF HighInv, HighTypes
  <1>3. HighTypes' /\ LowInv'
    BY <1>1, <1>2 DEF HighInv, HighTypes, LowInv, Register
  <1>4. /\ NotAhead3(count) => NotAhead3(count')
        /\ NotAhead3(count) /\ NotAhead2(count) => NotAhead2(count')
        /\ NotAhead(count) => NotAhead(count')
    BY <1>2, StaysBehind
  <1>5. ReadingInv'
    BY <1>1, <1>4
    DEF HighInv, ReadingInv, NotAhead, NotAhead3, NotAhead2, NotAhead1, W3,
        W2Of, W1
  <1>6. ComparedInv'
    <2>1. ASSUME next \in {"again w2", "again w3"}, cnt["w3"] = W3(count')
          PROVE  /\ cnt["w3"] = W3(count)
                 /\ cnt["w2"] = W2Of(count') => cnt["w2"] = W2Of(count)
      <3>1. atw0 <= count /\ NotAhead(atw0)
        BY <2>1 DEF HighInv, ComparedInv
      <3>2. NotAhead(count) /\ NotAhead3(count)
        BY <1>2, <3>1, StaysBehind DEF NotAhead
      <3> QED BY <1>2, <2>1, <3>2, StaysBehind
    <2>2. /\ next = "again w2" =>
               (cnt["w3"] = W3(count') /\ cnt["w2"] = W2Of(count')
                    => Consistent)
          /\ next = "again w3" => (cnt["w3"] = W3(count') => Consistent)
      BY <2>1 DEF HighInv, ComparedInv
    <2>3. next \in {"again w1", "again w2", "again w3"} =>
               atw0 <= count' /\ NotAhead(atw0)
      <3>1. atw0 <= count => atw0 <= count'
        BY <1>2
      <3> QED BY <3>1 DEF HighInv, ComparedInv
    <2>4. next = "done" => Consistent
      BY DEF HighInv, ComparedInv
    <2> QED BY <1>1, <2>2, <2>3, <2>4
            DEF ComparedInv, Consistent, NotAhead, NotAhead3, NotAhead2,
                NotAhead1, W3, W2Of, W1
  <1> QED BY <1>3, <1>5, <1>6 DEF HighInv

(* The callers leave the board alone, and begin a read afresh.             *)
LEMMA CallerKeeps ==
    ASSUME HighInv, UNCHANGED <<boardVars, count>>,
           next' \in {"idle", "strobe"}
    PROVE  HighInv'
  <1>1. UNCHANGED <<latched, strobed, cnt, atw0, count>>
    BY DEF boardVars
  <1> QED BY <1>1
          DEF HighInv, HighTypes, Steps, ReadingInv, ComparedInv, LowInv

LEMMA HighStep ==
    ASSUME HighInv, [HighNext]_highVars
    PROVE  HighInv'
  <1>1. CASE highboard
    BY <1>1, StrobeKeeps, ReadKeeps, ReadLowKeeps, CompareKeeps
    DEF highboard
  <1>2. CASE EndClockSet
    <2>1. next' \in {"idle", "strobe"} /\ UNCHANGED <<boardVars, count>>
      BY <1>2 DEF EndClockSet
    <2> QED BY <2>1, CallerKeeps
  <1>3. CASE EndUniqtime
    BY <1>3, CallerKeeps DEF EndUniqtime
  <1>4. CASE uniqtime
    BY <1>4, CallerKeeps DEF uniqtime
  <1>5. CASE \E sec \in SystemTimes : settimeofday(sec)
    BY <1>5, CallerKeeps DEF settimeofday
  <1>6. CASE \E by \in Advances : Advance(by)
    BY <1>6, AdvanceKeeps
  <1>7. CASE UNCHANGED highVars
    <2>1. UNCHANGED <<latched, strobed, cnt, atw0, count, next>>
      BY <1>7 DEF highVars, boardVars
    <2>2. HighTypes' /\ LowInv'
      BY <2>1 DEF HighInv, HighTypes, LowInv, Register
    <2>3. ReadingInv' /\ ComparedInv'
      BY <2>1
      DEF HighInv, ReadingInv, ComparedInv, Consistent, NotAhead, NotAhead3,
          NotAhead2, NotAhead1, W3, W2Of, W1
    <2> QED BY <2>2, <2>3 DEF HighInv
  <1> QED BY <1>1, <1>2, <1>3, <1>4, <1>5, <1>6, <1>7 DEF HighNext

(* The registers of one count make up that count.                          *)
LEMMA HighReadsFollow ==
    ASSUME HighInv PROVE HighReads
  <1> SUFFICES ASSUME next = "done" PROVE HighReads
    BY DEF HighReads
  <1> DEFINE s == atw0 \div MICROS
             u == atw0 % MICROS
             low == cnt["w0"]
  <1>1. {MICROS, W0, W2} \subseteq Nat \ {0} /\ atw0 \in Nat
    BY HighAssumption DEF HighInv, HighTypes
  <1>2. /\ s \in Nat /\ u \in Nat /\ atw0 = MICROS * s + u
        /\ low \in 0 .. W0 - 1 /\ low \in Int
        /\ u % W0 \in 0 .. W0 - 1 /\ u % W0 \in Int
    <2>1. s \in Nat /\ u \in Nat
      BY <1>1, DivType
    <2>2. atw0 = MICROS * s + u
      BY <1>1, DivMod
    <2>3. low \in 0 .. W0 - 1 /\ low \in Int
      BY <1>1 DEF HighInv, LowInv
    <2> HIDE DEF u
    <2>4. u % W0 \in 0 .. W0 - 1 /\ u % W0 \in Int
      BY <1>1, <2>1, DivType
    <2> QED BY <2>1, <2>2, <2>3, <2>4
  <1>3. /\ cnt["w3"] = s \div W2 /\ cnt["w2"] = s % W2
        /\ cnt["w1"] = u \div W0
        /\ ~latched => low = u % W0
    BY <1>1, Registers DEF HighInv, ComparedInv, LowInv, Consistent
  <1> HIDE DEF s, u, low
  <1>4. /\ htime.tv_sec = (s \div W2) * W2 + (s % W2)
        /\ htime.tv_usec = (u \div W0) * W0 + low
    BY <1>3 DEF htime, timeval, low
  <1>5. htime.tv_sec = s
    <2>1. s = W2 * (s \div W2) + (s % W2) /\ s \div W2 \in Nat
      BY <1>1, <1>2, DivMod, DivType
    <2>2. (s \div W2) * W2 = W2 * (s \div W2)
      BY <1>1, <2>1
    <2> QED BY <1>4, <2>1, <2>2
  <1>6. htime.tv_usec = u - (u % W0) + low
    <2>1. u = W0 * (u \div W0) + (u % W0) /\ u \div W0 \in Nat
      BY <1>1, <1>2, DivMod, DivType
    <2>2. (u \div W0) * W0 = W0 * (u \div W0) /\ W0 * (u \div W0) \in Int
      BY <1>1, <2>1
    <2> DEFINE k == W0 * (u \div W0)
               m == u % W0
    <2> HIDE DEF k, m
    <2>3. htime.tv_usec = k + low /\ u = k + m /\ k \in Int /\ m \in Int
      BY <1>2, <1>4, <2>1, <2>2 DEF k, m
    <2> QED BY <1>2, <2>3 DEF m
  <1> DEFINE d == htime.tv_sec * MICROS + htime.tv_usec - atw0
             m == u % W0
  <1>7. d = low - m
    <2>1. s * MICROS = MICROS * s /\ MICROS * s \in Int
      BY <1>1, <1>2
    <2>2. m \in Int
      BY <1>2
    <2>3. htime.tv_usec = u - m + low
      BY <1>6
    <2> HIDE DEF m
    <2>4. d = MICROS * s + (u - m + low) - (MICROS * s + u)
      BY <1>2, <1>5, <2>1, <2>3
    <2> DEFINE k == MICROS * s
    <2> HIDE DEF k
    <2>5. d = k + (u - m + low) - (k + u) /\ k \in Int
      BY <2>1, <2>4 DEF k
    <2> QED BY <1>2, <2>2, <2>5
  <1>8. d \in (IF latched THEN -(W0 - 1) .. (W0 - 1) ELSE {0})
    <2>1. m \in 0 .. W0 - 1 /\ (~latched => low = m)
      BY <1>2, <1>3
    <2> HIDE DEF d, m
    <2>2. low - m \in -(W0 - 1) .. (W0 - 1)
      BY <1>1, <1>2, <2>1
    <2>3. ~latched => low - m = 0
      BY <1>2, <2>1
    <2> QED BY <1>7, <2>2, <2>3
  <1> QED BY <1>8 DEF HighReads

(* However far the counter goes on between two registers, highboard()      *)
(* returns what it was when w0 was read.                                   *)
THEOREM HighReadsHolds == HighSpec => []HighReads
  <1>1. HighInit => HighInv
    BY HighInitInv
  <1>2. HighInv /\ [HighNext]_highVars => HighInv'
    BY HighStep
  <1>3. HighInv => HighReads
    BY HighReadsFollow
  <1> QED BY <1>1, <1>2, <1>3, PTL DEF HighSpec


(***************************************************************************)
(* The calendar of TproClock.                                              *)
(***************************************************************************)

LEMMA DivRest ==
    ASSUME NEW t \in Nat, NEW d \in Nat, d > 0
    PROVE  /\ t \div d \in Nat /\ t % d \in 0 .. d - 1
           /\ (t \div d) * d \in Nat
           /\ t = (t \div d) * d + (t % d)
  <1>1. \A a, b \in Nat : a * b \in Nat /\ a * b = b * a
    OBVIOUS
  <1> QED BY <1>1, DivType, DivMod

LEMMA YearNumbers ==
    /\ DAY \in Nat /\ DAYS \in Nat /\ DAY_YEAR \in Nat
    /\ DAY >= 1 /\ DAY_YEAR >= DAY
  <1>1. DAY \in Nat /\ DAYS \in Nat /\ DAY >= 1 /\ DAYS >= 1
    BY TproAssumption
  <1>2. \A d, n \in Nat : n >= 1 => n * d \in Nat /\ n * d >= d
    OBVIOUS
  <1> QED BY <1>1, <1>2 DEF DAY_YEAR

LEMMA NewYearType ==
    ASSUME NEW y \in Nat
    PROVE  LeapYears(y) \in Nat /\ NewYear(y) \in Nat /\ y <= NewYear(y)
  <1>1. LeapYears(y) \in Nat
    BY DEF LeapYears
  <1>2. \A a, b \in Nat : a * b \in Nat
    OBVIOUS
  <1>3. \A a, b \in Nat : b >= 1 => a <= a * b
    OBVIOUS
  <1>4. y * DAY_YEAR \in Nat /\ LeapYears(y) * DAY \in Nat
    BY <1>1, <1>2, YearNumbers
  <1>5. y <= y * DAY_YEAR
    BY <1>3, YearNumbers
  <1> QED BY <1>1, <1>4, <1>5 DEF NewYear

(* A year is one of 365 days or of 366.                                    *)
LEMMA YearLength ==
    ASSUME NEW y \in Nat
    PROVE  \/ NewYear(y + 1) = NewYear(y) + DAY_YEAR
           \/ NewYear(y + 1) = NewYear(y) + DAY_YEAR + DAY
  <1> DEFINE old == LeapYears(y)
             new == LeapYears(y + 1)
  <1>1. old \in Nat /\ new \in Nat /\ new \in {old, old + 1}
    BY DEF LeapYears
  <1>2. \A a, b \in Nat : (a + 1) * b = a * b + b /\ a * b \in Nat
    OBVIOUS
  <1>3. (y + 1) * DAY_YEAR = y * DAY_YEAR + DAY_YEAR /\ y * DAY_YEAR \in Nat
    BY <1>2, YearNumbers
  <1>4. (old + 1) * DAY = old * DAY + DAY /\ old * DAY \in Nat
    BY <1>1, <1>2, YearNumbers
  <1>5. /\ NewYear(y) = y * DAY_YEAR + old * DAY
        /\ NewYear(y + 1) = (y + 1) * DAY_YEAR + new * DAY
    BY DEF NewYear
  <1> HIDE DEF old, new
  <1> QED BY <1>1, <1>3, <1>4, <1>5, YearNumbers

LEMMA YearsInOrder ==
    ASSUME NEW a \in Nat, NEW b \in Nat, a < b
    PROVE  NewYear(a + 1) <= NewYear(b)
  <1>1. \A c, d, e \in Nat : c <= d => c * e <= d * e /\ c * e \in Nat
                                         /\ d * e \in Nat
    OBVIOUS
  <1>2. LeapYears(a + 1) <= LeapYears(b)
    BY DEF LeapYears
  <1>3. /\ (a + 1) * DAY_YEAR <= b * DAY_YEAR
        /\ (a + 1) * DAY_YEAR \in Nat /\ b * DAY_YEAR \in Nat
    BY <1>1, YearNumbers
  <1>4. /\ LeapYears(a + 1) * DAY <= LeapYears(b) * DAY
        /\ LeapYears(a + 1) * DAY \in Nat /\ LeapYears(b) * DAY \in Nat
    BY <1>1, <1>2, NewYearType, YearNumbers
  <1> QED BY <1>3, <1>4 DEF NewYear

Within(t, y) == NewYear(y) <= t /\ t < NewYear(y + 1)

LEMMA OneYear ==
    ASSUME NEW t \in Nat, NEW a \in Nat, NEW b \in Nat,
           Within(t, a), Within(t, b)
    PROVE  a = b
  <1>1. /\ NewYear(a) \in Nat /\ NewYear(b) \in Nat
        /\ NewYear(a + 1) \in Nat /\ NewYear(b + 1) \in Nat
    BY NewYearType
  <1>2. ~(a < b)
    BY <1>1, YearsInOrder DEF Within
  <1>3. ~(b < a)
    BY <1>1, YearsInOrder DEF Within
  <1> QED BY <1>2, <1>3

(* clock_set() takes whole cycles of four years off and then whole years.  *)
Cycles(t) == t \div DAY_CYCLE

CycleYear(t, r) == 4 * Cycles(t) + r - 1

EndOf(r) == IF r = 4 THEN DAY_CYCLE ELSE Begin[r + 1]

LEMMA BeginValues ==
    /\ Begin[1] = 0 /\ Begin[2] = DAY_YEAR /\ Begin[3] = 2 * DAY_YEAR
    /\ Begin[4] = 3 * DAY_YEAR + DAY
    /\ DAY_CYCLE = 4 * DAY_YEAR + DAY
  BY YearNumbers DEF Begin, yrtab, DAY_CYCLE

LEMMA CycleBegins ==
    ASSUME NEW k \in Nat, NEW r \in 0 .. 4
    PROVE  NewYear(4 * k + r) = k * DAY_CYCLE
               + (IF r = 4 THEN DAY_CYCLE ELSE Begin[r + 1])
  <1>1. \A n, d, e \in Nat : /\ (4 * n + r) * d = 4 * (n * d) + r * d
                             /\ n * (4 * d + e) = 4 * (n * d) + n * e
                             /\ (n + 1) * e = n * e + e
                             /\ n * d \in Nat
    OBVIOUS
  <1>2. LeapYears(4 * k + r) = IF r \in {3, 4} THEN k + 1 ELSE k
    BY DEF LeapYears
  <1>3. (4 * k + r) * DAY_YEAR = 4 * (k * DAY_YEAR) + r * DAY_YEAR
        /\ k * DAY_YEAR \in Nat
    BY <1>1, YearNumbers
  <1>4. /\ (k + 1) * DAY = k * DAY + DAY
        /\ k * DAY \in Nat
    BY <1>1, YearNumbers
  <1>5. k * DAY_CYCLE = 4 * (k * DAY_YEAR) + k * DAY
    BY <1>1, YearNumbers, BeginValues
  <1>6. NewYear(4 * k + r) = 4 * (k * DAY_YEAR) + r * DAY_YEAR
            + (IF r \in {3, 4} THEN k * DAY + DAY ELSE k * DAY)
    BY <1>2, <1>3, <1>4 DEF NewYear
  <1> DEFINE years == k * DAY_YEAR
             days == k * DAY
             cycle == k * DAY_CYCLE
  <1>7. years \in Nat /\ days \in Nat /\ cycle = 4 * years + days
    BY <1>3, <1>4, <1>5
  <1>8. NewYear(4 * k + r) = 4 * years + r * DAY_YEAR
            + (IF r \in {3, 4} THEN days + DAY ELSE days)
    BY <1>6
  <1> HIDE DEF years, days, cycle
  <1>9. NewYear(4 * k + r) = cycle
            + (IF r = 4 THEN DAY_CYCLE ELSE Begin[r + 1])
    <2>0. r = 0 \/ r = 1 \/ r = 2 \/ r = 3 \/ r = 4
      OBVIOUS
    <2> QED BY <2>0, <1>7, <1>8, BeginValues, YearNumbers
  <1> QED BY <1>9 DEF cycle

LEMMA CycleSplit ==
    ASSUME NEW t \in Nat
    PROVE  /\ Cycles(t) \in Nat /\ t % DAY_CYCLE \in 0 .. DAY_CYCLE - 1
           /\ Cycles(t) * DAY_CYCLE \in Nat
           /\ t = Cycles(t) * DAY_CYCLE + (t % DAY_CYCLE)
  <1>1. DAY_CYCLE \in Nat /\ DAY_CYCLE > 0
    BY BeginValues, YearNumbers
  <1> QED BY <1>1, DivRest DEF Cycles

(* The year in which clock_set() stops is the one of the calendar.         *)
LEMMA CycleYearHolds ==
    ASSUME NEW t \in Nat, NEW r \in 1 .. 4,
           Begin[r] <= t % DAY_CYCLE, t % DAY_CYCLE < EndOf(r)
    PROVE  /\ CycleYear(t, r) \in Nat
           /\ Within(t, CycleYear(t, r))
           /\ NewYear(CycleYear(t, r)) = t - (t % DAY_CYCLE) + Begin[r]
  <1> DEFINE k == Cycles(t)
             rest == t % DAY_CYCLE
             whole == k * DAY_CYCLE
  <1>1. /\ k \in Nat /\ rest \in Nat /\ whole \in Nat
        /\ t = whole + rest
    BY CycleSplit
  <1>2. r - 1 \in 0 .. 4 /\ r \in 0 .. 4 /\ r - 1 # 4 /\ (r - 1) + 1 = r
    OBVIOUS
  <1>3. NewYear(4 * k + (r - 1)) = whole + Begin[r]
    BY <1>1, <1>2, CycleBegins
  <1>4. NewYear(4 * k + r) = whole + EndOf(r)
    BY <1>1, <1>2, CycleBegins DEF EndOf
  <1>5. CycleYear(t, r) = 4 * k + (r - 1) /\ CycleYear(t, r) + 1 = 4 * k + r
    BY <1>1 DEF CycleYear
  <1>6. Begin[r] \in Nat /\ EndOf(r) \in Nat
    <2>0. r = 1 \/ r = 2 \/ r = 3 \/ r = 4
      OBVIOUS
    <2> QED BY <2>0, BeginValues, YearNumbers DEF EndOf
  <1>7. CycleYear(t, r) \in Nat
    BY <1>1, <1>5
  <1>8. Begin[r] <= rest /\ rest < EndOf(r)
    OBVIOUS
  <1>9. NewYear(CycleYear(t, r)) = whole + Begin[r]
        /\ NewYear(CycleYear(t, r) + 1) = whole + EndOf(r)
    BY <1>3, <1>4, <1>5
  <1> HIDE DEF k, rest, whole
  <1>10. Within(t, CycleYear(t, r))
    BY <1>1, <1>6, <1>8, <1>9 DEF Within
  <1>11. NewYear(CycleYear(t, r)) = t - rest + Begin[r]
    BY <1>1, <1>6, <1>9
  <1> QED BY <1>7, <1>10, <1>11 DEF rest

LEMMA RestInAYear ==
    ASSUME NEW t \in Nat
    PROVE  \E r \in 1 .. 4 : Begin[r] <= t % DAY_CYCLE
                               /\ t % DAY_CYCLE < EndOf(r)
  <1> DEFINE rest == t % DAY_CYCLE
  <1>1. rest \in 0 .. DAY_CYCLE - 1
    BY CycleSplit
  <1>2. /\ EndOf(1) = DAY_YEAR /\ EndOf(2) = 2 * DAY_YEAR
        /\ EndOf(3) = 3 * DAY_YEAR + DAY /\ EndOf(4) = 4 * DAY_YEAR + DAY
    BY BeginValues DEF EndOf
  <1> HIDE DEF rest
  <1>3. \/ Begin[1] <= rest /\ rest < EndOf(1)
        \/ Begin[2] <= rest /\ rest < EndOf(2)
        \/ Begin[3] <= rest /\ rest < EndOf(3)
        \/ Begin[4] <= rest /\ rest < EndOf(4)
    BY <1>1, <1>2, BeginValues, YearNumbers
  <1> QED BY <1>3 DEF rest

LEMMA YearHolds ==
    ASSUME NEW t \in Nat
    PROVE  Year(t) \in Nat /\ Within(t, Year(t))
  <1>1. PICK r \in 1 .. 4 : Begin[r] <= t % DAY_CYCLE
                              /\ t % DAY_CYCLE < EndOf(r)
    BY RestInAYear
  <1> DEFINE y == CycleYear(t, r)
  <1>2. y \in Nat /\ Within(t, y)
    BY <1>1, CycleYearHolds
  <1> HIDE DEF y
  <1>3. y \in 0 .. t
    BY <1>2, NewYearType DEF Within
  <1>4. \E x \in 0 .. t : NewYear(x) <= t /\ t < NewYear(x + 1)
    BY <1>2, <1>3 DEF Within
  <1>5. Year(t) \in 0 .. t /\ Within(t, Year(t))
    BY <1>4, Zenon DEF Year, Within
  <1> QED BY <1>5

LEMMA YearOffsetIs ==
    ASSUME NEW t \in Nat
    PROVE  YearOffset(t) = NewYear(Year(t))
  <1>1. PICK r \in 1 .. 4 : Begin[r] <= t % DAY_CYCLE
                              /\ t % DAY_CYCLE < EndOf(r)
    BY RestInAYear
  <1> DEFINE y == CycleYear(t, r)
             begun == {Begin[x] : x \in {x \in 1 .. 4 : Begin[x] <= t % DAY_CYCLE}}
  <1>2. y \in Nat /\ Within(t, y) /\ NewYear(y) = t - (t % DAY_CYCLE) + Begin[r]
    BY <1>1, CycleYearHolds
  <1>3. Year(t) = y
    BY <1>2, YearHolds, OneYear DEF y
  <1>4. Begin[r] \in begun
    BY <1>1
  <1>5. ASSUME NEW b \in begun PROVE b \in Nat /\ Begin[r] >= b
    <2>1. PICK x \in 1 .. 4 : Begin[x] <= t % DAY_CYCLE /\ b = Begin[x]
      OBVIOUS
    <2>2. (x = 1 \/ x = 2 \/ x = 3 \/ x = 4) /\ (r = 1 \/ r = 2 \/ r = 3 \/ r = 4)
      OBVIOUS
    <2>3. t % DAY_CYCLE \in Nat
      BY CycleSplit
    <2> DEFINE rest == t % DAY_CYCLE
    <2> HIDE DEF rest
    <2>4. rest \in Nat /\ Begin[x] <= rest /\ Begin[r] <= rest /\ rest < EndOf(r)
      BY <1>1, <2>1, <2>3 DEF rest
    <2>5. Begin[x] \in Nat /\ Begin[r] >= Begin[x]
      BY <2>2, <2>4, BeginValues, YearNumbers DEF EndOf
    <2> QED BY <2>1, <2>5
  <1>6. Begin[r] \in Nat
    BY <1>4, <1>5
  <1> HIDE DEF begun
  <1>7. Max(begun) \in begun /\ \A b \in begun : Max(begun) >= b
    <2>1. \E x \in begun : \A b \in begun : x >= b
      BY <1>4, <1>5
    <2> QED BY <2>1, Zenon DEF Max
  <1>8. Max(begun) = Begin[r]
    BY <1>4, <1>5, <1>6, <1>7
  <1>9. YearOffset(t) = t - (t % DAY_CYCLE) + Begin[r]
    BY <1>8 DEF YearOffset, begun
  <1> QED BY <1>2, <1>3, <1>9

LEMMA YearStarts ==
    ASSUME NEW t \in Nat
    PROVE  /\ NewYear(Year(t)) \in Nat /\ NewYear(Year(t)) <= t
           /\ t < NewYear(Year(t)) + DAY_YEAR + DAY
  <1>1. Year(t) \in Nat /\ Within(t, Year(t))
    BY YearHolds
  <1>2. NewYear(Year(t)) \in Nat
    BY <1>1, NewYearType
  <1>3. \/ NewYear(Year(t) + 1) = NewYear(Year(t)) + DAY_YEAR
        \/ NewYear(Year(t) + 1) = NewYear(Year(t)) + DAY_YEAR + DAY
    BY <1>1, YearLength
  <1> QED BY <1>1, <1>2, <1>3, YearNumbers DEF Within

LEMMA YearsNotBack ==
    ASSUME NEW s \in Nat, NEW t \in Nat, s <= t
    PROVE  Year(s) <= Year(t)
  <1>1. Year(s) \in Nat /\ Within(s, Year(s))
    BY YearHolds
  <1>2. Year(t) \in Nat /\ Within(t, Year(t))
    BY YearHolds
  <1>3. NewYear(Year(s)) \in Nat /\ NewYear(Year(t) + 1) \in Nat
    BY <1>1, <1>2, NewYearType
  <1>4. ~(Year(t) < Year(s))
    BY <1>1, <1>2, <1>3, YearsInOrder DEF Within
  <1> QED BY <1>1, <1>2, <1>4

(* A year begins at midnight.                                              *)
LEMMA WholeDays ==
    ASSUME NEW y \in Nat
    PROVE  \E n \in Nat : NewYear(y) = n * DAY
  <1> DEFINE leap == LeapYears(y)
             n == y * DAYS + leap
  <1>1. leap \in Nat
    BY NewYearType
  <1>2. \A a, b \in Nat : a * b \in Nat
    OBVIOUS
  <1>3. \A a, b, c, d \in Nat : (a * b + c) * d = a * (b * d) + c * d
    OBVIOUS
  <1>4. n \in Nat
    BY <1>1, <1>2, YearNumbers
  <1> HIDE DEF leap
  <1>5. n * DAY = y * (DAYS * DAY) + leap * DAY
    BY <1>1, <1>3, YearNumbers
  <1>6. NewYear(y) = n * DAY
    BY <1>5 DEF NewYear, DAY_YEAR, leap
  <1> QED BY <1>4, <1>6

(* The day and the seconds that the board sends stand for its time.        *)
LEMMA DaySplit ==
    ASSUME NEW t \in Nat
    PROVE  /\ DayOfYear(t) \in 1 .. DAYS + 1
           /\ (DayOfYear(t) - 1) * DAY \in Nat
           /\ t % DAY \in 0 .. DAY - 1
           /\ t = NewYear(Year(t)) + (DayOfYear(t) - 1) * DAY + (t % DAY)
  <1> DEFINE start == NewYear(Year(t))
             rest == t - start
             day == rest \div DAY
             days == day * DAY
             sec == rest % DAY
  <1>1. start \in Nat /\ start <= t /\ t < start + DAY_YEAR + DAY
    BY YearStarts
  <1>2. rest \in Nat /\ t = start + rest /\ rest < DAY_YEAR + DAY
    BY <1>1, YearNumbers
  <1>3. /\ day \in Nat /\ sec \in 0 .. DAY - 1 /\ days \in Nat
        /\ rest = days + sec
    <2> HIDE DEF rest
    <2> QED BY <1>2, DivRest, YearNumbers
  <1>4. day <= DAYS
    <2>1. ASSUME day > DAYS PROVE FALSE
      <3>1. \A a, b, c \in Nat : a > b => a * c >= b * c + c
        OBVIOUS
      <3> HIDE DEF day
      <3>2. day * DAY >= DAYS * DAY + DAY
        BY <1>3, <2>1, <3>1, YearNumbers
      <3> HIDE DEF rest, sec
      <3> QED BY <1>2, <1>3, <3>2, YearNumbers DEF DAY_YEAR
    <2> HIDE DEF day
    <2> QED BY <1>3, <2>1, YearNumbers
  <1>5. t % DAY = sec
    <2>1. PICK n \in Nat : start = n * DAY
      BY WholeDays, YearHolds
    <2>2. \A a, b, c \in Nat : (a + b) * c = a * c + b * c
      OBVIOUS
    <2> DEFINE q == t \div DAY
               m == t % DAY
    <2>3. q \in Nat /\ m \in 0 .. DAY - 1 /\ t = q * DAY + m
      BY DivRest, YearNumbers
    <2> HIDE DEF start, rest, day, sec, q, m
    <2>4. t = (n + day) * DAY + sec
      BY <1>2, <1>3, <2>1, <2>2, YearNumbers
    <2>5. \A a, b, c, e \in Nat, d \in Nat :
              /\ b < d /\ e < d /\ a * d + b = c * d + e
              => b = e
      <3> SUFFICES ASSUME NEW a \in Nat, NEW b \in Nat, NEW c \in Nat,
                          NEW e \in Nat, NEW d \in Nat,
                          b < d, e < d, a * d + b = c * d + e
                   PROVE  b = e
        OBVIOUS
      <3>1. \A x, y \in Nat : x < y => y * d >= x * d + d /\ x * d \in Nat
                                           /\ y * d \in Nat
        OBVIOUS
      <3>2. a * d \in Nat /\ c * d \in Nat
        OBVIOUS
      <3>3. CASE a < c
        BY <3>1, <3>2, <3>3
      <3>4. CASE c < a
        BY <3>1, <3>2, <3>4
      <3>5. CASE a = c
        BY <3>2, <3>5
      <3> QED BY <3>3, <3>4, <3>5
    <2>6. n + day \in Nat /\ sec \in Nat /\ m \in Nat /\ sec < DAY /\ m < DAY
      BY <1>3, <2>3, YearNumbers
    <2>7. m = sec
      BY <2>3, <2>4, <2>5, <2>6, YearNumbers
    <2> QED BY <2>7 DEF m
  <1>6. DayOfYear(t) = day + 1
    BY DEF DayOfYear
  <1>7. DayOfYear(t) - 1 = day /\ DayOfYear(t) \in 1 .. DAYS + 1
    <2> HIDE DEF day
    <2> QED BY <1>3, <1>4, <1>6, YearNumbers
  <1>8. t = start + days + sec
    <2> HIDE DEF start, rest, days, sec
    <2> QED BY <1>1, <1>2, <1>3
  <1>9. (DayOfYear(t) - 1) * DAY = days
    BY <1>7
  <1> HIDE DEF days, sec, start
  <1>10. t = NewYear(Year(t)) + (DayOfYear(t) - 1) * DAY + (t % DAY)
    BY <1>5, <1>8, <1>9 DEF start
  <1> QED BY <1>3, <1>5, <1>7, <1>9, <1>10

(* A day that has not fallen back, less than most of a year later, is one  *)
(* of the same year.                                                       *)
LEMMA SameYear ==
    ASSUME NEW s \in Nat, NEW t \in Nat, s <= t, t - s < DAY_YEAR - DAY,
           DayOfYear(s) <= DayOfYear(t)
    PROVE  Year(s) = Year(t)
  <1>1. /\ Year(s) \in Nat /\ Year(t) \in Nat /\ Year(s) <= Year(t)
        /\ Within(s, Year(s)) /\ Within(t, Year(t))
    BY YearHolds, YearsNotBack
  <1>2. ASSUME Year(s) < Year(t) PROVE FALSE
    <2> DEFINE old == NewYear(Year(s))
               next_year == NewYear(Year(s) + 1)
               new == NewYear(Year(t))
               x == (DayOfYear(s) - 1) * DAY
               y == (DayOfYear(t) - 1) * DAY
    <2>1. old \in Nat /\ next_year \in Nat /\ new \in Nat
      BY <1>1, NewYearType
    <2>2. next_year <= new
      BY <1>1, <1>2, YearsInOrder
    <2>3. next_year >= old + DAY_YEAR
      BY <1>1, <2>1, YearLength, YearNumbers
    <2>4. /\ x \in Nat /\ s % DAY \in 0 .. DAY - 1 /\ s = old + x + (s % DAY)
          /\ DayOfYear(s) \in 1 .. DAYS + 1
      BY DaySplit
    <2>5. /\ y \in Nat /\ t % DAY \in 0 .. DAY - 1 /\ t = new + y + (t % DAY)
          /\ DayOfYear(t) \in 1 .. DAYS + 1
      BY DaySplit
    <2>6. x <= y
      <3>1. \A a, b, c \in Nat : a <= b => a * c <= b * c
        OBVIOUS
      <3>2. /\ DayOfYear(s) - 1 \in Nat /\ DayOfYear(t) - 1 \in Nat
            /\ DayOfYear(s) - 1 <= DayOfYear(t) - 1
        BY <2>4, <2>5, YearNumbers
      <3> QED BY <3>1, <3>2, YearNumbers
    <2> HIDE DEF old, next_year, new, x, y
    <2> QED BY <2>1, <2>2, <2>3, <2>4, <2>5, <2>6, YearNumbers
  <1> QED BY <1>1, <1>2

(***************************************************************************)
(* The card tells the day, the driver the year.                            *)
(***************************************************************************)

TproTypeOK ==
    /\ irig \in Nat /\ lead \in Int /\ time \in Nat
    /\ mapped \in BOOLEAN /\ agreed \in BOOLEAN
    /\ year_offset \in Int /\ lastday \in Nat
    /\ seen \in 0 .. irig

(* What the next day is compared with is the day of the last good reading. *)
LastDayKept == lastday # 0 => mapped /\ lastday = DayOfYear(seen)

(* The offset is that of a year from the last good reading to now: a new   *)
(* year that has begun since is the one that the next reading notices.     *)
YearKept ==
    agreed => \E y \in Year(seen) .. Year(irig) : year_offset = NewYear(y)

TproInv == TproTypeOK /\ LastDayKept /\ YearKept

LEMMA OffsetType ==
    ASSUME NEW t \in Nat PROVE YearOffset(t) \in Int
  BY YearOffsetIs, YearStarts

LEMMA TproInitInv == TproInit => TproInv
  <1> SUFFICES ASSUME TproInit PROVE TproInv
    OBVIOUS
  <1>1. /\ irig \in Nat /\ lead \in Int /\ irig + lead >= 0
        /\ mapped = FALSE /\ year_offset = 0 /\ lastday = 0 /\ seen = irig
        /\ agreed = FALSE
    BY TproAssumption DEF TproInit
  <1>2. irig + lead \in Nat /\ seen \in 0 .. irig
    BY <1>1
  <1>3. mapped \in BOOLEAN /\ agreed \in BOOLEAN
    BY <1>1
  <1>4. year_offset \in Int /\ lastday \in Nat
    BY <1>1
  <1>5. TproTypeOK
    BY <1>1, <1>2, <1>3, <1>4, Zenon DEF TproTypeOK, time
  <1> QED BY <1>1, <1>5 DEF TproInv, LastDayKept, YearKept

(* Data that is accepted is the board's time.                              *)
LEMMA ValidIsSent ==
    ASSUME NEW data \in {Sent, BadData}, data.day \in 1 .. DAYS + 1
    PROVE  data = Sent /\ data.day = DayOfYear(irig)
  <1>1. BadData.day = 0
    BY DEF BadData
  <1>2. data # BadData
    BY <1>1, YearNumbers
  <1> QED BY <1>2 DEF Sent

(* The offset after a reading that is good, if the years agree then.       *)
LEMMA YearHeard ==
    ASSUME TproInv, Agreed(DayOfYear(irig), TRUE)
    PROVE  SetOffset(DayOfYear(irig), TRUE) = NewYear(Year(irig))
  <1> DEFINE day == DayOfYear(irig)
  <1>1. CASE ~mapped \/ day < lastday
    <2>1. Year(time) = Year(irig)
      BY <1>1 DEF Agreed
    <2>2. SetOffset(day, TRUE) = YearOffset(time)
      BY <1>1 DEF SetOffset, NewYearSeen
    <2> QED BY <2>1, <2>2, YearOffsetIs DEF TproInv, TproTypeOK
  <1>2. CASE mapped /\ ~(day < lastday)
    <2>1. /\ agreed
          /\ IF lastday = 0 THEN Year(irig) = Year(seen)
             ELSE irig - seen < DAY_YEAR - DAY
      BY <1>2 DEF Agreed
    <2>2. SetOffset(day, TRUE) = year_offset
      BY <1>2 DEF SetOffset, NewYearSeen
    <2>3. irig \in Nat /\ seen \in Nat /\ seen <= irig /\ lastday \in Nat
      BY DEF TproInv, TproTypeOK
    <2>4. Year(seen) = Year(irig)
      <3>1. CASE lastday = 0
        BY <2>1, <3>1
      <3>2. CASE lastday # 0
        <4>1. DayOfYear(seen) = lastday
          BY <3>2 DEF TproInv, LastDayKept
        <4>2. day \in Int
          BY <2>3, DaySplit
        <4> HIDE DEF day
        <4>3. DayOfYear(seen) <= day
          BY <1>2, <2>3, <4>1, <4>2
        <4> QED BY <2>1, <2>3, <3>2, <4>3, SameYear DEF day
      <3> QED BY <3>1, <3>2
    <2>5. PICK y \in Year(seen) .. Year(irig) : year_offset = NewYear(y)
      BY <2>1 DEF TproInv, YearKept
    <2>6. Year(irig) \in Nat
      BY <2>3, YearHolds
    <2>7. y = Year(irig)
      BY <2>4, <2>5, <2>6
    <2> QED BY <2>2, <2>5, <2>7
  <1> QED BY <1>1, <1>2 DEF TproInv, TproTypeOK

LEMMA MicrotimeInv ==
    ASSUME TproInv, NEW signal \in BOOLEAN, NEW sync \in BOOLEAN,
           NEW data \in {Sent, BadData}, microtime(signal, sync, data)
    PROVE  TproInv'
  <1> DEFINE valid == signal /\ sync /\ data.day \in 1 .. DAYS + 1
  <1>1. /\ mapped' = TRUE
        /\ year_offset' = SetOffset(data.day, valid)
        /\ agreed' = Agreed(data.day, valid)
        /\ seen' = IF valid \/ ~mapped THEN irig ELSE seen
        /\ lastday' = IF valid THEN data.day ELSE lastday
        /\ irig' = irig /\ lead' = lead
    BY DEF microtime
  <1>2. /\ irig \in Nat /\ lead \in Int /\ time \in Nat /\ time' = time
        /\ year_offset \in Int /\ lastday \in Nat /\ seen \in 0 .. irig
        /\ agreed \in BOOLEAN /\ mapped \in BOOLEAN
    BY <1>1 DEF TproInv, TproTypeOK, time
  <1>3. Year(irig) \in Nat /\ Year(irig)' = Year(irig)
    BY <1>1, <1>2, YearHolds
  <1>4. CASE valid
    <2>1. data = Sent /\ data.day = DayOfYear(irig)
      BY <1>4, ValidIsSent
    <2>2. /\ year_offset' = SetOffset(DayOfYear(irig), TRUE)
          /\ agreed' = Agreed(DayOfYear(irig), TRUE)
          /\ seen' = irig /\ lastday' = DayOfYear(irig)
      BY <1>1, <1>4, <2>1
    <2>3. year_offset' \in Int /\ agreed' \in BOOLEAN
      BY <1>2, <2>2, OffsetType DEF SetOffset, Agreed
    <2>4. lastday' \in Nat
      BY <1>2, <2>2, DaySplit, YearNumbers
    <2>5. TproTypeOK'
      BY <1>1, <1>2, <2>2, <2>3, <2>4 DEF TproTypeOK
    <2>6. LastDayKept'
      BY <1>1, <2>2 DEF LastDayKept
    <2>7. agreed' => year_offset' = NewYear(Year(irig))
      BY <2>2, YearHeard
    <2>8. Year(irig) \in Year(seen)' .. Year(irig)'
      BY <1>1, <1>3, <2>2
    <2>9. YearKept'
      BY <2>7, <2>8 DEF YearKept
    <2> QED BY <2>5, <2>6, <2>9 DEF TproInv
  <1>5. CASE ~valid /\ ~mapped
    <2>1. /\ year_offset' = YearOffset(time)
          /\ agreed' = (Year(time) = Year(irig))
          /\ seen' = irig /\ lastday' = lastday
      BY <1>1, <1>5 DEF SetOffset, Agreed
    <2>2. lastday = 0
      BY <1>5 DEF TproInv, LastDayKept
    <2>3. year_offset' = NewYear(Year(time)) /\ year_offset' \in Int
      BY <1>2, <2>1, YearOffsetIs, OffsetType
    <2>4. TproTypeOK'
      <3>1. agreed' \in BOOLEAN /\ mapped' \in BOOLEAN
        BY <1>1, <2>1
      <3>2. /\ irig' \in Nat /\ lead' \in Int /\ time' \in Nat
            /\ lastday' \in Nat /\ seen' \in 0 .. irig'
        BY <1>1, <1>2, <2>1
      <3> QED BY <2>3, <3>1, <3>2 DEF TproTypeOK
    <2>5. LastDayKept'
      BY <2>1, <2>2 DEF LastDayKept
    <2>6. Year(irig) \in Year(seen)' .. Year(irig)'
      BY <1>1, <1>3, <2>1
    <2>7. YearKept'
      BY <2>1, <2>3, <2>6 DEF YearKept
    <2> QED BY <2>4, <2>5, <2>7 DEF TproInv
  <1>6. CASE ~valid /\ mapped
    <2>1. /\ year_offset' = year_offset /\ seen' = seen /\ lastday' = lastday
          /\ agreed' \in BOOLEAN /\ (agreed' => agreed)
      BY <1>1, <1>2, <1>6 DEF SetOffset, Agreed
    <2>2. TproTypeOK'
      BY <1>1, <1>2, <2>1 DEF TproTypeOK
    <2>3. LastDayKept'
      BY <1>1, <1>6, <2>1 DEF TproInv, LastDayKept
    <2>4. YearKept'
      BY <1>1, <2>1 DEF TproInv, YearKept
    <2> QED BY <2>2, <2>3, <2>4 DEF TproInv
  <1> HIDE DEF valid
  <1> QED BY <1>4, <1>5, <1>6

LEMMA SetTimeInv ==
    ASSUME TproInv, NEW ahead \in Leads, SetTime(ahead)
    PROVE  TproInv'
  <1>1. /\ irig \in Nat /\ lead \in Int /\ lastday \in Nat
        /\ seen \in 0 .. irig /\ mapped \in BOOLEAN
    BY DEF TproInv, TproTypeOK
  <1>2. /\ irig' = irig /\ lead' = ahead /\ irig + ahead \in Nat
        /\ year_offset' = YearOffset(irig + ahead)
        /\ agreed' = (Year(irig + ahead) = Year(irig))
        /\ seen' = IF lastday = 0 THEN irig ELSE seen
        /\ lastday' = lastday /\ mapped' = mapped /\ ahead \in Int
    BY <1>1, TproAssumption DEF SetTime
  <1>3. year_offset' = NewYear(Year(irig + ahead)) /\ year_offset' \in Int
    BY <1>2, YearOffsetIs, OffsetType
  <1>4. seen' \in 0 .. irig
    BY <1>1, <1>2
  <1>5. TproTypeOK'
    BY <1>1, <1>2, <1>3, <1>4 DEF TproTypeOK, time
  <1>6. LastDayKept'
    BY <1>2 DEF TproInv, LastDayKept
  <1>7. YearKept'
    <2>1. /\ Year(irig) \in Nat /\ Year(seen)' \in Nat
          /\ Year(seen)' <= Year(irig)
      BY <1>1, <1>4, YearHolds, YearsNotBack
    <2>2. Year(irig) \in Year(seen)' .. Year(irig)'
      BY <1>2, <2>1
    <2> QED BY <1>2, <1>3, <2>2 DEF YearKept
  <1> QED BY <1>5, <1>6, <1>7 DEF TproInv

LEMMA SecondInv ==
    ASSUME TproInv, Second PROVE TproInv'
  <1>1. /\ irig \in Nat /\ lead \in Int /\ lastday \in Nat
        /\ irig + lead \in Nat /\ agreed \in BOOLEAN
        /\ seen \in 0 .. irig /\ mapped \in BOOLEAN /\ year_offset \in Int
    BY DEF TproInv, TproTypeOK, time
  <1>2. /\ irig' = irig + 1 /\ lead' = lead /\ seen' = seen
        /\ year_offset' = year_offset /\ agreed' = agreed
        /\ lastday' = lastday /\ mapped' = mapped
    BY DEF Second
  <1>3. TproTypeOK'
    BY <1>1, <1>2 DEF TproTypeOK, time
  <1>4. LastDayKept'
    BY <1>2 DEF TproInv, LastDayKept
  <1>5. YearKept'
    <2>1. ASSUME agreed PROVE \E y \in Year(seen) .. Year(irig)' :
                                  year_offset = NewYear(y)
      <3>1. PICK y \in Year(seen) .. Year(irig) : year_offset = NewYear(y)
        BY <2>1 DEF TproInv, YearKept
      <3>2. /\ Year(seen) \in Nat /\ Year(irig) \in Nat /\ Year(irig)' \in Nat
            /\ Year(irig) <= Year(irig)'
        BY <1>1, <1>2, YearHolds, YearsNotBack
      <3>3. y \in Year(seen) .. Year(irig)'
        BY <3>2
      <3> QED BY <3>1, <3>3
    <2>2. Year(seen)' = Year(seen)
      BY <1>2
    <2> QED BY <1>2, <2>1, <2>2 DEF YearKept
  <1> QED BY <1>3, <1>4, <1>5 DEF TproInv

LEMMA TproStep == TproInv /\ [TproNext]_tproVars => TproInv'
  <1> SUFFICES ASSUME TproInv, [TproNext]_tproVars PROVE TproInv'
    OBVIOUS
  <1>1. CASE UNCHANGED tproVars
    BY <1>1 DEF tproVars, TproInv, TproTypeOK, LastDayKept, YearKept, time
  <1>2. ASSUME NEW signal \in BOOLEAN, NEW sync \in BOOLEAN,
               NEW data \in {Sent, BadData}, microtime(signal, sync, data)
        PROVE  TproInv'
    BY <1>2, MicrotimeInv
  <1>3. ASSUME NEW ahead \in Leads, SetTime(ahead) PROVE TproInv'
    BY <1>3, SetTimeInv
  <1>4. CASE Second
    BY <1>4, SecondInv
  <1> QED BY <1>1, <1>2, <1>3, <1>4 DEF TproNext

LEMMA AnswerIsIrig ==
    ASSUME TproInv, microtime(TRUE, TRUE, Sent), agreed',
           lead \in -MAXDIFF .. MAXDIFF
    PROVE  answer' = irig
  <1> DEFINE day == DayOfYear(irig)
             sec == (irig % DAY) + NewYear(Year(irig)) + (day - 1) * DAY
  <1>1. irig \in Nat /\ lead \in Int /\ time = irig + lead
    BY DEF TproInv, TproTypeOK, time
  <1>2. Sent.day = day /\ Sent.sec = irig % DAY
    BY DEF Sent
  <1>3. day \in 1 .. DAYS + 1
    BY <1>1, DaySplit
  <1>4. agreed' = Agreed(day, TRUE)
    BY <1>2, <1>3 DEF microtime
  <1>5. SetOffset(day, TRUE) = NewYear(Year(irig))
    BY <1>4, YearHeard
  <1>6. answer' = IF sec - time \notin -MAXDIFF .. MAXDIFF THEN EBADTIME
                  ELSE sec
    BY <1>2, <1>3, <1>5 DEF microtime
  <1>7. sec = irig
    <2>1. /\ (day - 1) * DAY \in Nat /\ irig % DAY \in 0 .. DAY - 1
          /\ irig = NewYear(Year(irig)) + (day - 1) * DAY + (irig % DAY)
          /\ NewYear(Year(irig)) \in Nat
      BY <1>1, DaySplit, YearStarts
    <2> DEFINE days == (day - 1) * DAY
               rest == irig % DAY
    <2>2. /\ days \in Nat /\ rest \in Nat
          /\ irig = NewYear(Year(irig)) + days + rest
      BY <2>1, YearNumbers
    <2>3. sec = rest + NewYear(Year(irig)) + days
      OBVIOUS
    <2> HIDE DEF days, rest, sec
    <2> QED BY <2>1, <2>2, <2>3
  <1> HIDE DEF sec
  <1>8. sec - time \in -MAXDIFF .. MAXDIFF
    BY <1>1, <1>7, TproAssumption
  <1> QED BY <1>6, <1>7, <1>8

(* AnswersIrig.  tprotime.c: the board tells the day of the year and not   *)
(* the year; microtime() adds the offset of the year, which clock_set()    *)
(* takes from the system time when the day falls back, and that stays the  *)
(* offset of the IRIG year through all leap years, for every length of the *)
(* day and of the year.                                                    *)
THEOREM AnswersIrigHolds == TproSpec => AnswersIrig
  <1>1. TproInv /\ [TproNext]_tproVars
          => [ microtime(TRUE, TRUE, Sent) /\ agreed'
                   /\ lead \in -MAXDIFF .. MAXDIFF
                   => answer' = irig ]_tproVars
    BY AnswerIsIrig
  <1> QED BY <1>1, TproInitInv, TproStep, PTL DEF TproSpec, AnswersIrig

(***************************************************************************)
(* The two forms of l_fp.  A pair stands for a number of the 64-bit range, *)
(* and no other number of that range differs from it by a multiple of the  *)
(* range: it is enough to compare numbers up to multiples of it.           *)
(***************************************************************************)
HalfWord == WORD \div 2

Congruent(x, y, d) == \E k \in Int : y = x + k * d

LEMMA HalfType == H \in Nat \ {0} /\ H >= 2
  <1> DEFINE n == HALFBITS - 1
  <1>1. n \in Nat /\ HALFBITS = n + 1
    BY HalfAssumption
  <1> HIDE DEF n
  <1>2. PowerOfTwo[n] \in Nat \ {0} /\ PowerOfTwo[n + 1] = 2 * PowerOfTwo[n]
    BY <1>1, PowerType, PowerStep
  <1> QED BY <1>1, <1>2 DEF H

LEMMA WordType ==
    /\ WORD \in Nat \ {0} /\ HalfWord \in Nat \ {0}
    /\ WORD = 2 * HalfWord /\ WORD = H * H
  <1> DEFINE n == HALFBITS - 1
             g == PowerOfTwo[n]
  <1>1. n \in Nat /\ HALFBITS = n + 1
    BY HalfAssumption
  <1> HIDE DEF n
  <1>2. g \in Nat \ {0} /\ H = 2 * g
    BY <1>1, PowerType, PowerStep DEF H
  <1> HIDE DEF g
  <1>3. WORD = 2 * (2 * g * g) /\ 2 * g * g \in Nat \ {0}
    BY <1>2 DEF WORD
  <1> DEFINE x == 2 * g * g
  <1>4. x \in Nat \ {0} /\ WORD = 2 * x
    BY <1>3
  <1> HIDE DEF x
  <1>5. WORD \div 2 = x
    BY <1>4
  <1> QED BY <1>4, <1>5 DEF HalfWord, WORD

(* Remainder and quotient of an integer.                                   *)
LEMMA Division ==
    ASSUME NEW x \in Int, NEW d \in Nat \ {0}
    PROVE  /\ x % d \in 0 .. d - 1 /\ x \div d \in Int
           /\ x = d * (x \div d) + (x % d)
  OBVIOUS

(* A word, or a pair, holds the number of its range that is congruent.     *)
LEMMA Wrapped ==
    ASSUME NEW x \in Int, NEW half \in Nat \ {0}
    PROVE  LET w == ((x + half) % (2 * half)) - half
           IN  w \in -half .. half - 1 /\ Congruent(x, w, 2 * half)
  <1> DEFINE d == 2 * half
             q == (x + half) \div d
             r == (x + half) % d
  <1>1. x + half \in Int /\ d \in Nat \ {0}
    OBVIOUS
  <1>2. r \in 0 .. d - 1 /\ q \in Int /\ x + half = d * q + r
    BY <1>1, Division
  <1> HIDE DEF q, r
  <1>3. r - half = x + (-q) * d /\ -q \in Int
    BY <1>1, <1>2
  <1>4. r - half \in -half .. half - 1
    BY <1>2
  <1> QED BY <1>3, <1>4 DEF Congruent, r

LEMMA SignedIs ==
    ASSUME NEW x \in Int
    PROVE  Signed(x) \in -HalfWord .. HalfWord - 1 /\ Congruent(x, Signed(x), WORD)
  BY WordType, Wrapped DEF Signed, HalfWord

LEMMA UnsignedIs ==
    ASSUME NEW x \in Int
    PROVE  Unsigned(x) \in 0 .. WORD - 1 /\ Congruent(x, Unsigned(x), WORD)
  <1> DEFINE q == x \div WORD
             r == x % WORD
  <1>1. r \in 0 .. WORD - 1 /\ q \in Int /\ x = WORD * q + r
    BY WordType, Division
  <1> HIDE DEF q, r
  <1>2. r = x + (-q) * WORD /\ -q \in Int /\ r \in Int
    BY <1>1, WordType
  <1> QED BY <1>1, <1>2 DEF Unsigned, Congruent, r

LEMMA UnsignedSame ==
    ASSUME NEW x \in 0 .. WORD - 1 PROVE Unsigned(x) = x
  <1>1. x \in Nat /\ x < WORD /\ WORD \in Nat \ {0}
    BY WordType
  <1> QED BY <1>1 DEF Unsigned

RANGE == WORD * WORD

HalfRange == HalfWord * WORD

LEMMA RangeType ==
    /\ RANGE \in Nat \ {0} /\ HalfRange \in Nat \ {0}
    /\ RANGE = 2 * HalfRange /\ RANGE \div 2 = HalfRange
  <1>1. RANGE = 2 * HalfRange /\ HalfRange \in Nat \ {0}
    BY WordType DEF RANGE, HalfRange
  <1> QED BY <1>1

LEMMA LongLongIs ==
    ASSUME NEW x \in Int
    PROVE  /\ LongLong(x) \in -HalfRange .. HalfRange - 1
           /\ Congruent(x, LongLong(x), RANGE)
  BY RangeType, Wrapped DEF LongLong, RANGE

(* Congruent numbers of one range are the same.                            *)
LEMMA SameNumber ==
    ASSUME NEW x \in Int, NEW y \in -HalfRange .. HalfRange - 1,
           NEW z \in -HalfRange .. HalfRange - 1,
           Congruent(x, y, RANGE), Congruent(x, z, RANGE)
    PROVE  y = z
  <1>1. PICK k \in Int : y = x + k * RANGE
    BY DEF Congruent
  <1>2. PICK j \in Int : z = x + j * RANGE
    BY DEF Congruent
  <1> DEFINE d == RANGE
  <1>3. d \in Nat \ {0} /\ y - z < d /\ z - y < d /\ y \in Int /\ z \in Int
    BY RangeType
  <1>4. y - z = (k - j) * d
    BY <1>1, <1>2, <1>3
  <1> HIDE DEF d
  <1>5. k - j < 1 /\ j - k < 1
    <2>1. \A i \in Int : i >= 1 => i * d >= d
      BY <1>3
    <2>2. z - y = (j - k) * d
      BY <1>3, <1>4
    <2> QED BY <1>3, <1>4, <2>1, <2>2
  <1> QED BY <1>3, <1>4, <1>5

LEMMA LongLongOf ==
    ASSUME NEW x \in Int, NEW y \in -HalfRange .. HalfRange - 1,
           Congruent(x, y, RANGE)
    PROVE  LongLong(x) = y
  BY LongLongIs, SameNumber

LEMMA LongLongSame ==
    ASSUME NEW x \in -HalfRange .. HalfRange - 1 PROVE LongLong(x) = x
  <1>1. x \in Int
    BY RangeType
  <1>2. x = x + 0 * RANGE
    BY <1>1, RangeType
  <1> QED BY <1>1, <1>2, LongLongOf DEF Congruent

LEMMA CongruentNeg ==
    ASSUME NEW x \in Int, NEW y \in Int, NEW d \in Int, Congruent(x, y, d)
    PROVE  Congruent(-x, -y, d)
  <1>1. PICK k \in Int : y = x + k * d
    BY DEF Congruent
  <1>2. -y = -x + (-k) * d /\ -k \in Int
    BY <1>1
  <1> QED BY <1>2 DEF Congruent

LEMMA CongruentAgain ==
    ASSUME NEW x \in Int, NEW y \in Int, NEW z \in Int, NEW d \in Int,
           Congruent(x, y, d), Congruent(y, z, d)
    PROVE  Congruent(x, z, d)
  <1>1. PICK k \in Int : y = x + k * d
    BY DEF Congruent
  <1>2. PICK j \in Int : z = y + j * d
    BY DEF Congruent
  <1>3. z = x + (k + j) * d /\ k + j \in Int
    BY <1>1, <1>2
  <1> QED BY <1>3 DEF Congruent

(* A high word that has wrapped changes the pair by a multiple of the range*)
LEMMA HighWraps ==
    ASSUME NEW i \in Int, NEW w \in Int, NEW uf \in Int,
           Congruent(i, w, WORD)
    PROVE  Congruent(i * WORD + uf, w * WORD + uf, RANGE)
  <1>1. PICK k \in Int : w = i + k * WORD
    BY DEF Congruent
  <1>2. \A a, b, c, d \in Int : (a + b * d) * d + c = (a * d + c) + b * (d * d)
    OBVIOUS
  <1>3. w * WORD + uf = (i * WORD + uf) + k * RANGE
    BY <1>1, <1>2, WordType DEF RANGE
  <1> QED BY <1>3 DEF Congruent

(***************************************************************************)
(* Pairs.                                                                  *)
(***************************************************************************)
LEMMA PairIs ==
    ASSUME NEW i, NEW uf
    PROVE  /\ l_fp(i, uf) \in Pairs
                <=> i \in -HalfWord .. HalfWord - 1 /\ uf \in 0 .. WORD - 1
           /\ l_fp(i, uf).l_i = i /\ l_fp(i, uf).l_uf = uf
           /\ Fixed(l_fp(i, uf)) = i * WORD + uf
  <1>1. l_fp(i, uf).l_i = i /\ l_fp(i, uf).l_uf = uf
    BY DEF l_fp
  <1>2. Fixed(l_fp(i, uf)) = i * WORD + uf
    BY <1>1 DEF Fixed
  <1>3. ASSUME l_fp(i, uf) \in Pairs
        PROVE  i \in -HalfWord .. HalfWord - 1 /\ uf \in 0 .. WORD - 1
    <2>1. PICK a \in -HalfWord .. HalfWord - 1, b \in 0 .. WORD - 1 :
                l_fp(i, uf) = l_fp(a, b)
      BY <1>3 DEF Pairs, HalfWord
    <2>2. l_fp(a, b).l_i = a /\ l_fp(a, b).l_uf = b
      BY DEF l_fp
    <2> QED BY <1>1, <2>1, <2>2
  <1>4. ASSUME i \in -HalfWord .. HalfWord - 1, uf \in 0 .. WORD - 1
        PROVE  l_fp(i, uf) \in Pairs
    BY <1>4 DEF Pairs, HalfWord
  <1> QED BY <1>1, <1>2, <1>3, <1>4

LEMMA PairParts ==
    ASSUME NEW v \in Pairs
    PROVE  /\ v = l_fp(v.l_i, v.l_uf)
           /\ v.l_i \in -HalfWord .. HalfWord - 1 /\ v.l_i \in Int
           /\ v.l_uf \in 0 .. WORD - 1 /\ v.l_uf \in Nat
           /\ Fixed(v) \in Int
  <1>1. PICK a \in -HalfWord .. HalfWord - 1, b \in 0 .. WORD - 1 :
            v = l_fp(a, b)
    BY DEF Pairs, HalfWord
  <1>2. v.l_i = a /\ v.l_uf = b
    BY <1>1 DEF l_fp
  <1>3. a \in Int /\ b \in Nat
    BY WordType
  <1> QED BY <1>1, <1>2, <1>3, WordType DEF Fixed

LEMMA PairRange ==
    ASSUME NEW v \in Pairs
    PROVE  /\ Fixed(v) \in -HalfRange .. HalfRange - 1
           /\ v.l_i < 0 <=> Fixed(v) < 0
  <1> DEFINE i == v.l_i
             uf == v.l_uf
             w == WORD
             h == HalfWord
  <1>1. i \in Int /\ -h <= i /\ i <= h - 1 /\ uf \in Int /\ 0 <= uf /\ uf <= w - 1
    BY PairParts, WordType
  <1>2. w \in Nat \ {0} /\ h \in Nat \ {0}
    BY WordType
  <1>3. Fixed(v) = i * w + uf /\ HalfRange = h * w
    BY DEF Fixed, HalfRange
  <1> HIDE DEF i, uf, w, h
  <1>4. (-h) * w <= i * w /\ i * w <= (h - 1) * w
    BY <1>1, <1>2
  <1>5. (h - 1) * w = h * w - w /\ (-h) * w = -(h * w) /\ h * w \in Int
        /\ i * w \in Int
    BY <1>1, <1>2
  <1>6. i < 0 => i * w <= -w
    <2>1. \A a, b \in Int : a < 0 /\ b >= 0 => a * b <= -b
      OBVIOUS
    <2> QED BY <1>1, <1>2, <2>1
  <1>7. i >= 0 => i * w >= 0
    BY <1>1, <1>2
  <1>8. Fixed(v) \in -(h * w) .. h * w - 1 /\ (i < 0 <=> Fixed(v) < 0)
    BY <1>1, <1>2, <1>3, <1>4, <1>5, <1>6, <1>7
  <1> QED BY <1>3, <1>8 DEF i

(* What a pair stands for is the wrapped result if it is congruent to it.  *)
LEMMA PairHolds ==
    ASSUME NEW v \in Pairs, NEW x \in Int, Congruent(x, Fixed(v), RANGE)
    PROVE  Fixed(v) = LongLong(x)
  <1>1. LongLong(x) = Fixed(v)
    BY PairRange, LongLongOf
  <1> QED BY <1>1

LEMMA PairNotNegative ==
    ASSUME NEW v \in Pairs
    PROVE  Fixed(v) >= 0 <=> v.l_i >= 0
  BY PairRange, PairParts

(***************************************************************************)
(* The macros.  Half words are added with their carries.                   *)
(***************************************************************************)
LEMMA HalvesJoin ==
    ASSUME NEW hi \in Int, NEW lo \in Int
    PROVE  /\ (hi % H) * H + (lo % H) \in 0 .. WORD - 1
           /\ (hi \div H) * WORD + ((hi % H) * H + (lo % H))
                    = hi * H + (lo % H)
  <1> DEFINE q == hi \div H
             r == hi % H
             l == lo % H
             h == H
  <1>1. /\ r \in 0 .. h - 1 /\ q \in Int /\ hi = h * q + r
        /\ l \in 0 .. h - 1 /\ h \in Nat \ {0} /\ WORD = h * h
    BY HalfType, WordType, Division
  <1> HIDE DEF q, r, l, h
  <1>2. r * h <= (h - 1) * h /\ (h - 1) * h = h * h - h /\ r * h >= 0
    BY <1>1
  <1>3. r * h + l \in 0 .. h * h - 1
    BY <1>1, <1>2
  <1>4. q * (h * h) + (r * h + l) = (h * q + r) * h + l
    BY <1>1
  <1>5. q * WORD + (r * h + l) = hi * h + l
    BY <1>1, <1>4
  <1> QED BY <1>1, <1>3, <1>5 DEF q, r, l, h

LEMMA AddHolds ==
    ASSUME NEW r \in Pairs, NEW a \in Pairs
    PROVE  /\ M_ADD(r, a) \in Pairs
           /\ Congruent(Fixed(r) + Fixed(a), Fixed(M_ADD(r, a)), RANGE)
  <1> DEFINE ri == r.l_i
             ru == r.l_uf
             ai == a.l_i
             au == a.l_uf
             lo == (ru % H) + (au % H)
             hi == (ru \div H) + (au \div H) + (lo \div H)
             uf == (hi % H) * H + (lo % H)
             top == ri + ai + (hi \div H)
  <1>1. ri \in Int /\ ai \in Int /\ ru \in Int /\ au \in Int
    BY PairParts
  <1>2. M_ADD(r, a) = l_fp(Signed(top), uf)
    BY DEF M_ADD
  <1> HIDE DEF ri, ru, ai, au
  <1>3. lo \in Int /\ hi \in Int /\ H \in Nat \ {0}
    BY <1>1, HalfType
  <1>4. /\ ru = H * (ru \div H) + (ru % H) /\ au = H * (au \div H) + (au % H)
        /\ lo = H * (lo \div H) + (lo % H)
        /\ ru \div H \in Int /\ au \div H \in Int /\ lo \div H \in Int
        /\ ru % H \in Int /\ au % H \in Int /\ lo % H \in Int
    <2> HIDE DEF lo
    <2> QED BY <1>1, <1>3, Division
  <1>5. hi * H + (lo % H) = ru + au
    <2> DEFINE x == ru \div H
               y == au \div H
               z == lo \div H
               u == ru % H
               v == au % H
               w == lo % H
    <2>1. /\ {x, y, z, u, v, w} \subseteq Int /\ hi = x + y + z /\ lo = u + v
          /\ ru = H * x + u /\ au = H * y + v /\ lo = H * z + w
      BY <1>4
    <2> HIDE DEF x, y, z, u, v, w, lo, hi
    <2>2. (x + y + z) * H = H * x + H * y + H * z
          /\ H * x \in Int /\ H * y \in Int /\ H * z \in Int
      BY <1>3, <2>1
    <2>3. hi * H = H * x + H * y + H * z
      BY <2>1, <2>2
    <2>4. \A j, k, l, m, n, p \in Int :
                m + n = l + p => (j + k + l) + p = (j + m) + (k + n)
      OBVIOUS
    <2>5. u + v = H * z + w
      BY <2>1
    <2>6. (H * x + H * y + H * z) + w = (H * x + u) + (H * y + v)
      BY <2>1, <2>2, <2>4, <2>5
    <2>7. hi * H + w = ru + au
      BY <2>1, <2>3, <2>6
    <2> QED BY <2>7 DEF w
  <1>6. uf \in 0 .. WORD - 1 /\ (hi \div H) * WORD + uf = ru + au
        /\ uf \in Int /\ hi \div H \in Int
    <2> HIDE DEF hi, lo
    <2>1. hi \div H \in Int
      BY <1>3, Division
    <2>2. uf \in 0 .. WORD - 1 /\ (hi \div H) * WORD + uf = ru + au
      BY <1>3, <1>5, HalvesJoin
    <2> HIDE DEF uf
    <2> QED BY <2>1, <2>2, WordType
  <1> DEFINE c == hi \div H
  <1>7. top = ri + ai + c /\ c \in Int /\ c * WORD + uf = ru + au
    BY <1>6
  <1> HIDE DEF c, hi, lo, uf, top
  <1>8. top \in Int
    BY <1>1, <1>7
  <1>9. Signed(top) \in -HalfWord .. HalfWord - 1
        /\ Congruent(top, Signed(top), WORD) /\ Signed(top) \in Int
    BY <1>8, SignedIs, WordType
  <1>10. Congruent(top * WORD + uf, Signed(top) * WORD + uf, RANGE)
    BY <1>6, <1>8, <1>9, HighWraps
  <1>11. top * WORD + uf = Fixed(r) + Fixed(a)
    <2>1. Fixed(r) = ri * WORD + ru /\ Fixed(a) = ai * WORD + au
      BY DEF Fixed, ri, ru, ai, au
    <2>2. (ri + ai + c) * WORD = ri * WORD + ai * WORD + c * WORD
          /\ ri * WORD \in Int /\ ai * WORD \in Int /\ c * WORD \in Int
      BY <1>1, <1>7, WordType
    <2> QED BY <1>1, <1>6, <1>7, <2>1, <2>2
  <1> QED BY <1>2, <1>6, <1>9, <1>10, <1>11, PairIs

LEMMA NegHolds ==
    ASSUME NEW v \in Pairs
    PROVE  /\ M_NEG(v) \in Pairs
           /\ Congruent(-Fixed(v), Fixed(M_NEG(v)), RANGE)
  <1> DEFINE i == v.l_i
             uf == v.l_uf
  <1>1. i \in Int /\ i \in -HalfWord .. HalfWord - 1 /\ uf \in 0 .. WORD - 1
        /\ uf \in Nat /\ Fixed(v) = i * WORD + uf
        /\ WORD \in Nat \ {0} /\ HalfWord \in Nat \ {0}
    BY PairParts, WordType DEF Fixed
  <1>2. CASE uf = 0
    <2>1. M_NEG(v) = l_fp(Signed(-i), 0)
      BY <1>2 DEF M_NEG
    <2> HIDE DEF i, uf
    <2>2. /\ Signed(-i) \in -HalfWord .. HalfWord - 1
          /\ Congruent(-i, Signed(-i), WORD) /\ Signed(-i) \in Int /\ -i \in Int
      BY <1>1, SignedIs
    <2>3. Congruent((-i) * WORD + 0, Signed(-i) * WORD + 0, RANGE)
      BY <2>2, HighWraps
    <2>4. (-i) * WORD + 0 = -Fixed(v)
      BY <1>1, <1>2
    <2>5. 0 \in 0 .. WORD - 1
      BY <1>1
    <2> QED BY <2>1, <2>2, <2>3, <2>4, <2>5, PairIs
  <1>3. CASE uf # 0
    <2>1. M_NEG(v) = l_fp(-i - 1, Unsigned(-uf))
      BY <1>3 DEF M_NEG
    <2> HIDE DEF i, uf
    <2>2. Unsigned(-uf) = WORD - uf
      <3>1. -uf = WORD * (-1) + (WORD - uf) /\ WORD - uf \in 0 .. WORD - 1
        BY <1>1, <1>3
      <3> QED BY <1>1, <3>1 DEF Unsigned
    <2>3. WORD - uf \in 0 .. WORD - 1 /\ -i - 1 \in -HalfWord .. HalfWord - 1
      BY <1>1, <1>3
    <2>4. (-i - 1) * WORD + (WORD - uf) = -Fixed(v)
      BY <1>1
    <2>5. -Fixed(v) \in Int /\ -Fixed(v) = -Fixed(v) + 0 * RANGE
      BY <1>1, RangeType
    <2>6. M_NEG(v) \in Pairs /\ Fixed(M_NEG(v)) = -Fixed(v)
      BY <2>1, <2>2, <2>3, <2>4, PairIs
    <2> QED BY <2>5, <2>6 DEF Congruent
  <1> QED BY <1>2, <1>3

(* A pair but the least has its opposite.                                  *)
LEMMA NegExact ==
    ASSUME NEW v \in Pairs, Fixed(v) # -HalfRange
    PROVE  M_NEG(v) \in Pairs /\ Fixed(M_NEG(v)) = -Fixed(v)
  <1>1. Fixed(v) \in -HalfRange .. HalfRange - 1 /\ HalfRange \in Nat \ {0}
    BY PairRange, RangeType
  <1>2. -Fixed(v) \in -HalfRange .. HalfRange - 1 /\ -Fixed(v) \in Int
    BY <1>1
  <1>3. Fixed(M_NEG(v)) = LongLong(-Fixed(v))
    BY <1>2, NegHolds, PairHolds
  <1> QED BY <1>2, <1>3, NegHolds, LongLongSame

LEMMA SubHolds ==
    ASSUME NEW r \in Pairs, NEW a \in Pairs
    PROVE  /\ M_SUB(r, a) \in Pairs
           /\ Congruent(Fixed(r) - Fixed(a), Fixed(M_SUB(r, a)), RANGE)
  <1> DEFINE ri == r.l_i
             ru == r.l_uf
             ai == a.l_i
             au == a.l_uf
  <1>1. /\ ri \in Int /\ ai \in Int /\ ru \in Nat /\ au \in Nat
        /\ ru \in 0 .. WORD - 1 /\ au \in 0 .. WORD - 1
        /\ ai \in -HalfWord .. HalfWord - 1
        /\ Fixed(r) = ri * WORD + ru /\ Fixed(a) = ai * WORD + au
        /\ WORD \in Nat \ {0} /\ HalfWord \in Nat \ {0}
    BY PairParts, WordType DEF Fixed
  <1>2. CASE au = 0
    <2> DEFINE x == ri - ai
    <2>1. M_SUB(r, a) = l_fp(Signed(x), ru)
      BY <1>2 DEF M_SUB
    <2> HIDE DEF ri, ru, ai, au
    <2>2. x \in Int
      BY <1>1
    <2>3. x * WORD + ru = Fixed(r) - Fixed(a)
      BY <1>1, <1>2
    <2> HIDE DEF x
    <2>4. /\ Signed(x) \in -HalfWord .. HalfWord - 1
          /\ Congruent(x, Signed(x), WORD) /\ Signed(x) \in Int
      BY <1>1, <2>2, SignedIs
    <2>5. ru \in Int
      BY <1>1
    <2>6. Congruent(x * WORD + ru, Signed(x) * WORD + ru, RANGE)
      BY <2>2, <2>4, <2>5, HighWraps
    <2> QED BY <1>1, <2>1, <2>3, <2>4, <2>6, PairIs
  <1>3. CASE au # 0
    <2> DEFINE n == l_fp(-ai - 1, Unsigned(-au))
    <2>1. M_SUB(r, a) = M_ADD(r, n)
      BY <1>3 DEF M_SUB
    <2> HIDE DEF ri, ru, ai, au
    <2>2. Unsigned(-au) = WORD - au
      <3>1. -au = WORD * (-1) + (WORD - au) /\ WORD - au \in 0 .. WORD - 1
        BY <1>1, <1>3
      <3> QED BY <1>1, <3>1 DEF Unsigned
    <2>3. WORD - au \in 0 .. WORD - 1 /\ -ai - 1 \in -HalfWord .. HalfWord - 1
      BY <1>1, <1>3
    <2>4. (-ai - 1) * WORD + (WORD - au) = -Fixed(a)
      BY <1>1
    <2>5. n \in Pairs /\ Fixed(n) = -Fixed(a)
      BY <2>2, <2>3, <2>4, PairIs
    <2>6. Fixed(r) + Fixed(n) = Fixed(r) - Fixed(a)
      <3>1. Fixed(r) \in Int /\ Fixed(a) \in Int
        BY PairParts
      <3> QED BY <2>5, <3>1
    <2> HIDE DEF n
    <2> QED BY <2>1, <2>5, <2>6, AddHolds
  <1> QED BY <1>2, <1>3

(* The high word shifted, and what falls out of it on top of the low word. *)
LEMMA ShiftJoins ==
    ASSUME NEW i \in Nat, NEW uf \in Nat, NEW d \in Nat \ {0},
           NEW e \in Nat \ {0}, uf < d * e
    PROVE  /\ (uf \div d) + ((i * e) % (d * e)) \in 0 .. d * e - 1
           /\ (i * (d * e) + uf) \div d
                = (i \div d) * (d * e) + ((uf \div d) + ((i * e) % (d * e)))
  <1> DEFINE q == i \div d
             r == i % d
             g == uf \div d
             t == uf % d
             w == d * e
  <1>1. /\ q \in Nat /\ r \in 0 .. d - 1 /\ i = d * q + r
        /\ g \in Nat /\ t \in 0 .. d - 1 /\ uf = d * g + t
    OBVIOUS
  <1>2. w \in Nat \ {0}
    OBVIOUS
  <1>3. (i * e) % w = r * e
    <2> HIDE DEF q, r
    <2>1. r * e <= (d - 1) * e /\ (d - 1) * e = w - e /\ r * e \in Nat
      BY <1>1
    <2>2. r * e \in 0 .. w - 1
      BY <1>2, <2>1
    <2> DEFINE x == i * e
               y == r * e
    <2>3. x = w * q + y /\ x \in Nat
      BY <1>1
    <2>4. q \in Nat /\ y \in 0 .. w - 1
      BY <1>1, <2>2
    <2> HIDE DEF w, x, y
    <2>5. x % w = y
      BY <1>2, <2>3, <2>4, DivModUnique
    <2> QED BY <2>5 DEF x, y
  <1>4. g < e
    <2> HIDE DEF g, t
    <2>1. g * d < e * d
      BY <1>1
    <2> QED BY <1>1, <2>1, MulCancel
  <1>5. g + r * e \in 0 .. w - 1
    <2> HIDE DEF q, r, g, t
    <2>1. r * e <= (d - 1) * e /\ (d - 1) * e = w - e /\ r * e \in Nat
      BY <1>1
    <2> HIDE DEF w
    <2> QED BY <1>1, <1>2, <1>4, <2>1
  <1>6. (i * w + uf) \div d = i * e + g
    <2> HIDE DEF q, r, g, t
    <2>1. i * w + uf = d * (i * e + g) + t /\ i * w + uf \in Nat
          /\ i * e + g \in Nat
      BY <1>1
    <2> HIDE DEF w
    <2> QED BY <1>1, <2>1, DivModUnique
  <1>7. i * e = q * w + r * e
    <2> HIDE DEF q, r
    <2> QED BY <1>1
  <1>8. i * e + g = q * w + (g + r * e)
    <2> DEFINE x == i * e
               y == q * w
               z == r * e
    <2>1. x \in Int /\ y \in Int /\ z \in Int /\ g \in Int /\ x = y + z
      BY <1>1, <1>2, <1>7
    <2> HIDE DEF x, y, z, g
    <2>2. x + g = y + (g + z)
      BY <2>1
    <2> QED BY <2>2 DEF x, y, z
  <1> QED BY <1>3, <1>5, <1>6, <1>8

(* A shift by all of the low word, and more.                               *)
LEMMA ShiftAll ==
    ASSUME NEW i \in Nat, NEW w \in Nat \ {0}, NEW uf \in 0 .. w - 1,
           NEW d \in Nat \ {0}
    PROVE  (i * w + uf) \div (w * d) = i \div d
  <1> DEFINE q == i \div d
             r == i % d
             m == w * d
             t == r * w + uf
  <1>1. q \in Nat /\ r \in 0 .. d - 1 /\ i = d * q + r
    OBVIOUS
  <1> HIDE DEF q, r
  <1>2. r * w <= (d - 1) * w /\ (d - 1) * w = m - w /\ r * w \in Nat
        /\ m \in Nat \ {0}
    BY <1>1
  <1>3. i * w + uf = m * q + t
    BY <1>1
  <1> HIDE DEF m
  <1>4. t \in 0 .. m - 1
    BY <1>2
  <1> HIDE DEF t
  <1>5. i * w + uf \in Nat
    OBVIOUS
  <1>6. (i * w + uf) \div m = q
    BY <1>1, <1>2, <1>3, <1>4, <1>5, DivModUnique
  <1> QED BY <1>6 DEF m, q

LEMMA MagnitudeShifts ==
    ASSUME NEW v \in Pairs, v.l_i >= 0, NEW n \in 1 .. 4 * HALFBITS - 2
    PROVE  /\ ShiftedMagnitude(v, n) \in Pairs
           /\ Fixed(ShiftedMagnitude(v, n)) = Fixed(v) \div PowerOfTwo[n]
           /\ ShiftedMagnitude(v, n).l_i >= 0
  <1> DEFINE i == v.l_i
             uf == v.l_uf
             two == 2 * HALFBITS
  <1>1. /\ i \in Nat /\ i <= HalfWord - 1 /\ uf \in Nat /\ uf < WORD
        /\ uf \in 0 .. WORD - 1
        /\ Fixed(v) = i * WORD + uf
        /\ WORD \in Nat \ {0} /\ HalfWord \in Nat \ {0} /\ WORD = 2 * HalfWord
    BY PairParts, WordType DEF Fixed
  <1>2. n \in Nat /\ HALFBITS \in Nat /\ two \in Nat
    BY HalfAssumption
  <1>3. WORD = PowerOfTwo[two]
    <2>1. PowerOfTwo[HALFBITS + HALFBITS] = H * H
      BY <1>2, PowerSum DEF H
    <2>2. HALFBITS + HALFBITS = two
      BY <1>2
    <2> QED BY <2>1, <2>2 DEF WORD
  <1>4. ASSUME NEW d \in Nat \ {0}
        PROVE  i \div d \in 0 .. HalfWord - 1 /\ i \div d \in 0 .. WORD - 1
    <2> HIDE DEF i
    <2>1. i \div d <= i /\ i \div d \in Nat
      <3> DEFINE q == i \div d
      <3>1. q \in Nat /\ d * q <= i
        BY <1>1, DivNat
      <3> HIDE DEF q
      <3>2. q <= d * q
        BY <3>1
      <3>3. q <= i
        BY <1>1, <3>1, <3>2
      <3> QED BY <3>1, <3>3 DEF q
    <2> QED BY <1>1, <2>1
  <1> HIDE DEF i, uf
  <1>5. CASE n < two
    <2> DEFINE m == two - n
               d == PowerOfTwo[n]
               e == PowerOfTwo[m]
               low == (uf \div d) + ((i * e) % (d * e))
    <2>1. m \in Nat /\ n + m = two
      BY <1>2, <1>5
    <2> HIDE DEF m
    <2>2. d \in Nat \ {0} /\ e \in Nat \ {0} /\ WORD = d * e
      BY <1>2, <1>3, <2>1, PowerType, PowerSum
    <2>3. ShiftedMagnitude(v, n)
            = l_fp(i \div d, (uf \div d) + Unsigned(i * e))
      BY <1>5 DEF ShiftedMagnitude, i, uf, m
    <2>4. Unsigned(i * e) = (i * e) % (d * e)
      BY <2>2 DEF Unsigned
    <2>5. ShiftedMagnitude(v, n) = l_fp(i \div d, low)
      BY <2>3, <2>4
    <2> HIDE DEF d, e
    <2>6. low \in 0 .. d * e - 1
          /\ (i * (d * e) + uf) \div d = (i \div d) * (d * e) + low
      <3>1. i \in Nat /\ uf \in Nat /\ uf < d * e
        BY <1>1, <2>2
      <3> DEFINE Joins(j, u, x, y) ==
                   /\ (u \div x) + ((j * y) % (x * y)) \in 0 .. x * y - 1
                   /\ (j * (x * y) + u) \div x
                        = (j \div x) * (x * y) + ((u \div x) + ((j * y) % (x * y)))
      <3>2. \A j, u \in Nat : \A x, y \in Nat \ {0} :
                  u < x * y => Joins(j, u, x, y)
        BY ShiftJoins
      <3> HIDE DEF Joins
      <3>3. Joins(i, uf, d, e)
        BY <2>2, <3>1, <3>2
      <3> QED BY <3>3 DEF Joins
    <2> HIDE DEF low
    <2>7. low \in 0 .. WORD - 1
          /\ Fixed(v) \div d = (i \div d) * WORD + low
      BY <1>1, <2>2, <2>6
    <2>8. i \div d \in 0 .. HalfWord - 1 /\ i \div d \in -HalfWord .. HalfWord - 1
      BY <1>1, <1>4, <2>2
    <2>9. ShiftedMagnitude(v, n) \in Pairs
          /\ Fixed(ShiftedMagnitude(v, n)) = Fixed(v) \div d
          /\ ShiftedMagnitude(v, n).l_i = i \div d
      BY <2>5, <2>7, <2>8, PairIs
    <2> QED BY <1>1, <2>8, <2>9 DEF d
  <1>6. CASE ~(n < two)
    <2> DEFINE m == n - two
               d == PowerOfTwo[m]
    <2>1. m \in Nat /\ two + m = n
      BY <1>2, <1>6
    <2> HIDE DEF m
    <2>2. d \in Nat \ {0} /\ PowerOfTwo[n] = WORD * d
      BY <1>2, <1>3, <2>1, PowerType, PowerSum
    <2>3. ShiftedMagnitude(v, n) = l_fp(0, i \div d)
      BY <1>6 DEF ShiftedMagnitude, i, m
    <2> HIDE DEF d
    <2>4. Fixed(v) \div PowerOfTwo[n] = i \div d
      <3>1. i \in Nat /\ WORD \in Nat \ {0} /\ uf \in 0 .. WORD - 1
        BY <1>1
      <3>2. (i * WORD + uf) \div (WORD * d) = i \div d
        BY <2>2, <3>1, ShiftAll
      <3> QED BY <1>1, <2>2, <3>2
    <2>5. i \div d \in 0 .. WORD - 1 /\ 0 \in -HalfWord .. HalfWord - 1
      BY <1>1, <1>4, <2>2
    <2>6. 0 * WORD + (i \div d) = i \div d
      BY <1>1, <2>5
    <2> QED BY <2>3, <2>4, <2>5, <2>6, PairIs
  <1> QED BY <1>5, <1>6

(* A product is made of four products of half words and their carries.     *)
LEMMA MagnitudeMultiplies ==
    ASSUME NEW v \in Pairs, v.l_i >= 0, NEW m \in 0 .. H - 1
    PROVE  /\ MultipliedMagnitude(v, m) \in Pairs
           /\ Congruent(Fixed(v) * m, Fixed(MultipliedMagnitude(v, m)), RANGE)
  <1> DEFINE i == v.l_i
             uf == v.l_uf
             h == H
             ul == uf % h
             uh == uf \div h
             il == i % h
             ih == i \div h
  <1>1. /\ i \in Nat /\ i < WORD /\ uf \in Nat /\ uf < WORD
        /\ Fixed(v) = i * WORD + uf /\ m \in Nat /\ m <= h - 1
        /\ WORD = h * h /\ h \in Nat \ {0}
    BY PairParts, WordType, HalfType DEF Fixed
  <1> HIDE DEF i, uf, h
  <1>2. /\ ul \in 0 .. h - 1 /\ uh \in Nat /\ uf = h * uh + ul
        /\ il \in 0 .. h - 1 /\ ih \in Nat /\ i = h * ih + il
    BY <1>1
  <1>3. uh <= h - 1 /\ ih <= h - 1
    <2> HIDE DEF ul, uh, il, ih
    <2>1. uh * h < h * h /\ ih * h < h * h
      BY <1>1, <1>2
    <2> QED BY <1>1, <1>2, <2>1, MulCancel
  <1> HIDE DEF ul, uh, il, ih
  <1>4. \A x, y \in 0 .. h - 1 : x * m + y \in 0 .. WORD - 1
    <2>1. \A x, y, z, n \in Nat :
                x <= n /\ y <= n /\ z <= n => x * z + y <= n * n + n
      <3> SUFFICES ASSUME NEW x \in Nat, NEW y \in Nat, NEW z \in Nat,
                          NEW n \in Nat, x <= n, y <= n, z <= n
                   PROVE  x * z + y <= n * n + n
        OBVIOUS
      <3>1. x * z <= n * z /\ n * z <= n * n
        OBVIOUS
      <3> QED BY <3>1
    <2>2. (h - 1) * (h - 1) + (h - 1) <= WORD - 1
      BY <1>1
    <2>3. h - 1 \in Nat
      BY <1>1
    <2>4. ASSUME NEW x \in 0 .. h - 1, NEW y \in 0 .. h - 1
          PROVE  x * m + y \in 0 .. WORD - 1
      <3>1. x \in Nat /\ y \in Nat /\ x <= h - 1 /\ y <= h - 1
        BY <1>1
      <3>2. x * m + y <= (h - 1) * (h - 1) + (h - 1)
        BY <1>1, <2>1, <2>3, <3>1
      <3>3. x * m + y \in Nat
        BY <1>1, <3>1
      <3>4. (h - 1) * (h - 1) + (h - 1) \in Nat
        BY <2>3
      <3> QED BY <1>1, <2>2, <3>2, <3>3, <3>4
    <2> QED BY <2>4
  <1> DEFINE d == ul * m
             c == uh * m + (d \div h)
             b == il * m + (c \div h)
             a == ih * m + (b \div h)
             top == a * h + (b % h)
             low == (c % h) * h + (d % h)
  <1>5. ASSUME NEW x \in 0 .. WORD - 1
        PROVE  /\ x \div h \in 0 .. h - 1 /\ x % h \in 0 .. h - 1
               /\ x = h * (x \div h) + (x % h) /\ Unsigned(x) = x
    <2> DEFINE q == x \div h
               r == x % h
    <2>1. q \in Nat /\ r \in 0 .. h - 1 /\ x = h * q + r /\ x < h * h
      BY <1>1
    <2> HIDE DEF q, r
    <2>2. q * h < h * h
      BY <1>1, <2>1
    <2>3. q < h
      BY <1>1, <2>1, <2>2, MulCancel
    <2>4. q \in 0 .. h - 1
      BY <1>1, <2>1, <2>3
    <2> QED BY <2>1, <2>4, UnsignedSame DEF q, r
  <1>6. d \in 0 .. WORD - 1
    <2>1. 0 \in 0 .. h - 1 /\ ul * m + 0 = ul * m
      BY <1>1, <1>2
    <2> QED BY <1>2, <1>4, <2>1
  <1> HIDE DEF d
  <1>7. uh \in 0 .. h - 1 /\ ih \in 0 .. h - 1
    BY <1>1, <1>2, <1>3
  <1>8. c \in 0 .. WORD - 1
    BY <1>7, <1>4, <1>5, <1>6
  <1> HIDE DEF c
  <1>9. b \in 0 .. WORD - 1
    BY <1>2, <1>4, <1>5, <1>8
  <1> HIDE DEF b
  <1>10. a \in 0 .. WORD - 1
    BY <1>7, <1>4, <1>5, <1>9
  <1> HIDE DEF a
  <1>11. MultipliedMagnitude(v, m) = l_fp(Signed(top), Unsigned(c * h + (d % h)))
    <2>1. Unsigned(ul * m) = d
      BY <1>5, <1>6 DEF d
    <2>2. Unsigned(uh * m + (d \div h)) = c
      BY <1>5, <1>8 DEF c
    <2>3. Unsigned(il * m + (c \div h)) = b
      BY <1>5, <1>9 DEF b
    <2>4. Unsigned(ih * m + (b \div h)) = a
      BY <1>5, <1>10 DEF a
    <2> QED BY <2>1, <2>2, <2>3, <2>4
            DEF MultipliedMagnitude, ul, uh, il, ih, i, uf, h
  <1>12. /\ {a, b, c, d} \subseteq Nat
         /\ {d \div h, c \div h, b \div h, d % h, c % h, b % h} \subseteq Nat
         /\ d = h * (d \div h) + (d % h)
         /\ c = h * (c \div h) + (c % h)
         /\ b = h * (b \div h) + (b % h)
    BY <1>1, <1>5, <1>6, <1>8, <1>9, <1>10
  <1>13. h \in Nat \ {0} /\ a \in Nat /\ b \in Nat /\ c \in Nat /\ d \in Nat
         /\ b % h \in Nat /\ d % h \in Nat /\ c \div h \in Nat
    BY <1>1, <1>12
  <1>14. low \in 0 .. WORD - 1 /\ (c \div h) * WORD + low = c * h + (d % h)
    <2>1. c \in Int /\ d \in Int
      BY <1>12
    <2> QED BY <2>1, HalvesJoin DEF h
  <1>15. Unsigned(c * h + (d % h)) = low
    <2> DEFINE q == c \div h
               x == c * h + (d % h)
    <2>1. x = WORD * q + low /\ q \in Nat /\ x \in Nat /\ WORD \in Nat \ {0}
      <3>1. c * h \in Nat /\ WORD \in Nat \ {0}
        BY <1>13, WordType
      <3>2. q * WORD = WORD * q /\ q \in Nat
        BY <1>13, <3>1
      <3>3. x \in Nat
        BY <1>13, <3>1
      <3> QED BY <1>14, <3>1, <3>2, <3>3
    <2> HIDE DEF x, q, low
    <2>2. x % WORD = low
      BY <1>14, <2>1, DivModUnique
    <2> QED BY <2>2 DEF Unsigned, x
  <1>16. top * WORD + low = Fixed(v) * m
    <2> DEFINE d1 == d \div h
               d0 == d % h
               c1 == c \div h
               b1 == b \div h
               b0 == b % h
    <2>1. {a, b, c, d, d1, d0, c1, b1, b0, ul, uh, il, ih, h, m} \subseteq Int
      BY <1>1, <1>2, <1>12
    <2>2. /\ d = h * d1 + d0 /\ b = h * b1 + b0
          /\ d = ul * m /\ c = uh * m + d1 /\ b = il * m + c1
          /\ a = ih * m + b1
          /\ top = a * h + b0 /\ c1 * WORD + low = c * h + d0
          /\ low \in Int
      BY <1>12, <1>14, WordType DEF d, c, b, a
    <2> HIDE DEF d1, d0, c1, b1, b0, top, low
    <2>3. uf * m = c * h + d0
      <3>1. uf * m = (uh * m) * h + ul * m
        BY <1>1, <1>2, <2>1
      <3>2. (uh * m + d1) * h + d0 = (uh * m) * h + (h * d1 + d0)
        BY <2>1
      <3> QED BY <2>1, <2>2, <3>1, <3>2
    <2>4. i * m = top - c1
      <3>1. i * m = (ih * m) * h + il * m
        BY <1>1, <1>2, <2>1
      <3>2. (ih * m + b1) * h + b0 = (ih * m) * h + (h * b1 + b0)
        BY <2>1
      <3>3. {(ih * m) * h, il * m, top, h * b1} \subseteq Int
        BY <2>1, <2>2
      <3>4. top = (ih * m) * h + b
        BY <2>2, <3>2
      <3>5. b = il * m + c1
        BY <2>2
      <3> QED BY <2>1, <3>1, <3>3, <3>4, <3>5
    <2>5. Fixed(v) * m = (i * m) * WORD + uf * m
      BY <1>1
    <2>6. top \in Int /\ WORD \in Int /\ c * h + d0 \in Int /\ c1 \in Int
      BY <1>1, <2>1, <2>2
    <2>7. \A w, x, y, z \in Int : (x - y) * w + (y * w + z) = x * w + z
      OBVIOUS
    <2>8. Fixed(v) * m = (top - c1) * WORD + (c1 * WORD + low)
      BY <2>2, <2>3, <2>4, <2>5
    <2> QED BY <2>2, <2>6, <2>7, <2>8
  <1>17. top \in Int /\ low \in Int
    <2>1. a * h \in Nat
      BY <1>13
    <2> HIDE DEF low
    <2>2. low \in Int
      BY <1>14, WordType
    <2> QED BY <1>13, <2>1, <2>2
  <1> HIDE DEF top, low
  <1>18. Signed(top) \in -HalfWord .. HalfWord - 1
         /\ Congruent(top, Signed(top), WORD) /\ Signed(top) \in Int
    BY <1>17, SignedIs, WordType
  <1>19. Congruent(top * WORD + low, Signed(top) * WORD + low, RANGE)
    BY <1>17, <1>18, HighWraps
  <1> QED BY <1>11, <1>14, <1>15, <1>16, <1>18, <1>19, PairIs

(***************************************************************************)
(* Signs, and the steps.                                                   *)
(***************************************************************************)
LeastPair == l_fp(-(WORD \div 2), 0)

LEMMA NotLeast ==
    ASSUME NEW v \in Pairs, v # LeastPair
    PROVE  Fixed(v) # -HalfRange
  <1> DEFINE i == v.l_i
             uf == v.l_uf
             w == WORD
             h == HalfWord
  <1>1. /\ i \in Int /\ -h <= i /\ uf \in Nat /\ Fixed(v) = i * w + uf
        /\ HalfRange = h * w /\ w \in Nat \ {0} /\ h \in Nat \ {0}
        /\ v = l_fp(i, uf)
    BY PairParts, WordType DEF Fixed, HalfRange
  <1>2. ~(i = -h /\ uf = 0)
    BY <1>1 DEF LeastPair, HalfWord
  <1> HIDE DEF i, uf, w, h
  <1>3. CASE i = -h
    <2>1. uf > 0 /\ i * w = -(h * w) /\ h * w \in Int
      BY <1>1, <1>2, <1>3
    <2> QED BY <1>1, <2>1
  <1>4. CASE i # -h
    <2>1. -h + 1 <= i
      BY <1>1, <1>4
    <2>2. (-h + 1) * w <= i * w
      BY <1>1, <2>1
    <2>3. (-h + 1) * w = -(h * w) + w /\ h * w \in Int /\ i * w \in Int
      BY <1>1
    <2> QED BY <1>1, <2>2, <2>3
  <1> QED BY <1>3, <1>4

LEMMA ShiftHolds ==
    ASSUME NEW v \in Pairs, v # LeastPair, NEW n \in 1 .. 4 * HALFBITS - 2
    PROVE  M_RSHIFT(v, n) \in Pairs
           /\ Fixed(M_RSHIFT(v, n)) = Shifted64(Fixed(v), n)
  <1> DEFINE x == Fixed(v)
             d == PowerOfTwo[n]
  <1>1. x \in -HalfRange .. HalfRange - 1 /\ x \in Int /\ x # -HalfRange
        /\ HalfRange \in Nat \ {0}
        /\ (v.l_i < 0 <=> x < 0)
    BY PairRange, RangeType, NotLeast
  <1>2. d \in Nat \ {0}
    BY PowerType
  <1>3. CASE v.l_i < 0
    <2> DEFINE u == M_NEG(v)
               w == ShiftedMagnitude(u, n)
               y == (-x) \div d
    <2>1. u \in Pairs /\ Fixed(u) = -x
      BY <1>1, NegExact
    <2>2. Fixed(u) >= 0
      BY <1>1, <1>3, <2>1
    <2>3. u.l_i >= 0
      BY <2>1, <2>2, PairNotNegative
    <2> HIDE DEF u
    <2>4. w \in Pairs /\ Fixed(w) = y /\ w.l_i >= 0
      BY <2>1, <2>3, MagnitudeShifts
    <2>5. M_RSHIFT(v, n) = M_NEG(w)
      BY <1>3 DEF M_RSHIFT, u
    <2> HIDE DEF w
    <2>6. y \in -HalfRange .. HalfRange - 1 /\ y >= 0 /\ y \in Int
      <3>1. Fixed(w) >= 0 /\ Fixed(w) \in -HalfRange .. HalfRange - 1
        BY <2>4, PairNotNegative, PairRange
      <3> QED BY <2>4, <3>1, RangeType
    <2>7. M_NEG(w) \in Pairs /\ Fixed(M_NEG(w)) = -y
      <3>1. Fixed(w) # -HalfRange
        <4> HIDE DEF y
        <4> QED BY <1>1, <2>4, <2>6
      <3> QED BY <2>4, <3>1, NegExact
    <2>8. LongLong(y) = y
      BY <2>6, LongLongSame
    <2>9. Shifted64(x, n) = -LongLong(y)
      BY <1>1, <1>3 DEF Shifted64
    <2> QED BY <2>5, <2>7, <2>8, <2>9
  <1>4. CASE ~(v.l_i < 0)
    <2>1. v.l_i >= 0 /\ ~(x < 0)
      BY <1>1, <1>4, PairParts
    <2>2. M_RSHIFT(v, n) = ShiftedMagnitude(v, n)
      BY <1>4 DEF M_RSHIFT
    <2>3. Shifted64(x, n) = x \div d
      BY <2>1 DEF Shifted64
    <2> QED BY <2>1, <2>2, <2>3, MagnitudeShifts
  <1> QED BY <1>3, <1>4

LEMMA MultiplyHolds ==
    ASSUME NEW v \in Pairs, v # LeastPair, NEW m \in 0 .. H - 1
    PROVE  /\ M_MPY(v, m) \in Pairs
           /\ Congruent(Fixed(v) * m, Fixed(M_MPY(v, m)), RANGE)
  <1> DEFINE x == Fixed(v)
  <1>1. x \in Int /\ x # -HalfRange /\ (v.l_i < 0 <=> x < 0)
        /\ m \in Int /\ RANGE \in Int
    BY PairRange, PairParts, NotLeast, HalfType, RangeType
  <1>2. CASE v.l_i < 0
    <2> DEFINE u == M_NEG(v)
               w == MultipliedMagnitude(u, m)
    <2>1. u \in Pairs /\ Fixed(u) = -x
      BY <1>1, NegExact
    <2>2. Fixed(u) >= 0
      BY <1>1, <1>2, <2>1
    <2>3. u.l_i >= 0
      BY <2>1, <2>2, PairNotNegative
    <2> HIDE DEF u
    <2>4. w \in Pairs /\ Congruent(Fixed(u) * m, Fixed(w), RANGE)
      BY <2>1, <2>3, MagnitudeMultiplies
    <2>5. M_MPY(v, m) = M_NEG(w)
      BY <1>2 DEF M_MPY, u
    <2> HIDE DEF w, x
    <2>6. M_NEG(w) \in Pairs /\ Congruent(-Fixed(w), Fixed(M_NEG(w)), RANGE)
      BY <2>4, NegHolds
    <2>7. Fixed(w) \in Int /\ Fixed(M_NEG(w)) \in Int /\ Fixed(u) * m \in Int
          /\ -(Fixed(u) * m) = x * m
      <3>1. Fixed(w) \in Int /\ Fixed(M_NEG(w)) \in Int /\ Fixed(u) \in Int
        BY <2>1, <2>4, <2>6, PairParts
      <3> QED BY <1>1, <2>1, <3>1
    <2>8. Congruent(-(Fixed(u) * m), -Fixed(w), RANGE)
      BY <1>1, <2>4, <2>7, CongruentNeg
    <2>9. Congruent(x * m, -Fixed(w), RANGE) /\ x * m \in Int
          /\ -Fixed(w) \in Int
      BY <1>1, <2>7, <2>8
    <2>10. Congruent(x * m, Fixed(M_NEG(w)), RANGE)
      BY <1>1, <2>6, <2>7, <2>9, CongruentAgain
    <2> QED BY <2>5, <2>6, <2>10 DEF x
  <1>3. CASE ~(v.l_i < 0)
    <2>1. v.l_i >= 0
      BY <1>3, PairParts
    <2>2. M_MPY(v, m) = MultipliedMagnitude(v, m)
      BY <1>3 DEF M_MPY
    <2> QED BY <2>1, <2>2, MagnitudeMultiplies
  <1> QED BY <1>2, <1>3

FpInv == pair \in Pairs /\ Fixed(pair) = fixed

LEMMA FpInitInv == FpInit => FpInv
  <1> SUFFICES ASSUME FpInit PROVE FpInv
    OBVIOUS
  <1>1. 0 \in -HalfWord .. HalfWord - 1 /\ 0 \in 0 .. WORD - 1
        /\ 0 * WORD + 0 = 0
    BY WordType
  <1> QED BY <1>1, PairIs DEF FpInit, FpInv

LEMMA FpStep == FpInv /\ [FpNext]_fpVars => FpInv'
  <1> SUFFICES ASSUME FpInv, [FpNext]_fpVars PROVE FpInv'
    OBVIOUS
  <1> DEFINE x == Fixed(pair)
  <1>1. pair \in Pairs /\ fixed = x /\ x \in Int
    BY PairParts DEF FpInv
  <1> HIDE DEF x
  <1>2. ASSUME NEW v \in Pairs, NEW y \in Int, pair' = v,
               fixed' = LongLong(y), Congruent(y, Fixed(v), RANGE)
        PROVE  FpInv'
    <2>1. Fixed(v) = LongLong(y)
      BY <1>2, PairHolds
    <2>2. Fixed(pair)' = Fixed(v)
      BY <1>2 DEF Fixed, WORD, H
    <2> QED BY <1>2, <2>1, <2>2 DEF FpInv, Pairs, l_fp, WORD, H
  <1>3. CASE \E a \in Pairs : L_ADD(a)
    <2>1. PICK a \in Pairs : L_ADD(a)
      BY <1>3
    <2>2. Fixed(a) \in Int
      BY PairParts
    <2>3. M_ADD(pair, a) \in Pairs
          /\ Congruent(x + Fixed(a), Fixed(M_ADD(pair, a)), RANGE)
          /\ x + Fixed(a) \in Int
      BY <1>1, <2>2, AddHolds DEF x
    <2>4. pair' = M_ADD(pair, a) /\ fixed' = LongLong(x + Fixed(a))
      BY <1>1, <2>1 DEF L_ADD
    <2> QED BY <1>2, <2>3, <2>4
  <1>4. CASE \E a \in Pairs : L_SUB(a)
    <2>1. PICK a \in Pairs : L_SUB(a)
      BY <1>4
    <2>2. Fixed(a) \in Int
      BY PairParts
    <2>3. M_SUB(pair, a) \in Pairs
          /\ Congruent(x - Fixed(a), Fixed(M_SUB(pair, a)), RANGE)
          /\ x - Fixed(a) \in Int
      BY <1>1, <2>2, SubHolds DEF x
    <2>4. pair' = M_SUB(pair, a) /\ fixed' = LongLong(x - Fixed(a))
      BY <1>1, <2>1 DEF L_SUB
    <2> QED BY <1>2, <2>3, <2>4
  <1>5. CASE \E i \in -(WORD \div 2) .. (WORD \div 2) - 1 : L_ADDHI(i)
    <2>1. PICK i \in -HalfWord .. HalfWord - 1 : L_ADDHI(i)
      BY <1>5 DEF HalfWord
    <2> DEFINE a == l_fp(i, 0)
    <2>2. a \in Pairs /\ Fixed(a) = i * WORD /\ i * WORD \in Int
      <3>1. 0 \in 0 .. WORD - 1 /\ i \in Int /\ i * WORD + 0 = i * WORD
            /\ i * WORD \in Int
        BY WordType
      <3> QED BY <3>1, PairIs
    <2>3. pair' = M_ADD(pair, a) /\ fixed' = LongLong(x + i * WORD)
      BY <1>1, <2>1 DEF L_ADDHI
    <2> HIDE DEF a
    <2>4. M_ADD(pair, a) \in Pairs
          /\ Congruent(x + i * WORD, Fixed(M_ADD(pair, a)), RANGE)
          /\ x + i * WORD \in Int
      BY <1>1, <2>2, AddHolds DEF x
    <2> QED BY <1>2, <2>3, <2>4
  <1>6. CASE L_NEG
    <2>1. M_NEG(pair) \in Pairs /\ Congruent(-x, Fixed(M_NEG(pair)), RANGE)
          /\ -x \in Int
      BY <1>1, NegHolds DEF x
    <2>2. pair' = M_NEG(pair) /\ fixed' = LongLong(-x)
      BY <1>1, <1>6 DEF L_NEG
    <2> QED BY <1>2, <2>1, <2>2
  <1>7. CASE \E n \in 1 .. 4 * HALFBITS - 2 : L_RSHIFT(n)
    <2>1. PICK n \in 1 .. 4 * HALFBITS - 2 : L_RSHIFT(n)
      BY <1>7
    <2>2. pair # LeastPair /\ pair' = M_RSHIFT(pair, n)
          /\ fixed' = Shifted64(x, n)
      BY <1>1, <2>1 DEF L_RSHIFT, LeastPair
    <2> DEFINE v == M_RSHIFT(pair, n)
    <2>3. v \in Pairs /\ Fixed(v) = fixed' /\ pair' = v
      BY <1>1, <2>2, ShiftHolds DEF x
    <2> HIDE DEF v
    <2>4. Fixed(pair)' = Fixed(v)
      BY <2>3 DEF Fixed, WORD, H
    <2> QED BY <2>3, <2>4 DEF FpInv, Pairs, l_fp, WORD, H
  <1>8. CASE \E m \in 0 .. H - 1 : L_MPY(m)
    <2>1. PICK m \in 0 .. H - 1 : L_MPY(m)
      BY <1>8
    <2>2. pair # LeastPair /\ pair' = M_MPY(pair, m)
          /\ fixed' = LongLong(x * m)
      BY <1>1, <2>1 DEF L_MPY, LeastPair
    <2>3. M_MPY(pair, m) \in Pairs
          /\ Congruent(x * m, Fixed(M_MPY(pair, m)), RANGE)
      BY <1>1, <2>2, MultiplyHolds DEF x
    <2>4. x * m \in Int
      <3>1. m \in Int
        BY HalfType
      <3> QED BY <1>1, <3>1
    <2> QED BY <1>2, <2>2, <2>3, <2>4
  <1>9. CASE UNCHANGED fpVars
    BY <1>9 DEF fpVars, FpInv, Fixed, Pairs, l_fp, WORD, H
  <1> QED BY <1>3, <1>4, <1>5, <1>6, <1>7, <1>8, <1>9 DEF FpNext

(* The two forms of the macros of l_fp.h compute the same numbers, in any  *)
(* sequence of them, for words of every length.                            *)
THEOREM PairsImplementFixedHolds ==
    FpInit /\ [][FpNext]_fpVars => []PairsImplementFixed
  <1>1. FpInv => PairsImplementFixed
    BY PairRange DEF FpInv, PairsImplementFixed, L_GINT
  <1> QED BY <1>1, FpInitInv, FpStep, PTL
===============================================================================
