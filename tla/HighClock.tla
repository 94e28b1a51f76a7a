----------------------------- MODULE HighClock -----------------------------
(***************************************************************************)
(* The Highball counter/timer as the kernel's clock (hightime.c).  The     *)
(* board counts seconds and microseconds in four registers of its own      *)
(* accord; highboard() reads them one at a time, so that each read is a    *)
(* step, and the counter and the kernel time go on between any two of      *)
(* them.  MICROS stands for 1000000, W0 and W2 for the ranges of the low   *)
(* registers.  high.h says of the low microseconds only that they are      *)
(* latched, by the strobe; both kinds of board are modelled.               *)
(***************************************************************************)
EXTENDS Integers

CONSTANTS
    MICROS,         \* microseconds in a second
    W0,             \* range of register w0
    W2,             \* range of register w2
    TICK,           \* microseconds in a tick
    HIGHDIFF,       \* largest believed distance from the system time (s)
    Boards,         \* whether w0 is latched
    Counts,         \* the counter when the system boots (us)
    SystemTimes,    \* system times that are set (s)
    MaxCount,       \* bound on the counter (us)
    Advances        \* what the counter goes on by between two steps (us)

ASSUME HighAssumption ==
    /\ {MICROS, W0, W2, TICK} \subseteq Nat \ {0}
    /\ HIGHDIFF \in Nat /\ MaxCount \in Nat
    /\ Boards \subseteq BOOLEAN
    /\ Counts \subseteq Nat /\ Advances \subseteq Nat
    /\ SystemTimes \subseteq Nat

VARIABLES
    latched,        \* the kind of board
    count,          \* the board's counter (us)
    strobed,        \* the counter at the last strobe
    time_sec,       \* system time, in seconds
    clock_offset,   \* current time offset
    lasttime,       \* last time returned
    caller,         \* who called highboard()
    next,           \* what it does next, or "idle"
    cnt,            \* the register values that it has read
    atw0            \* ghost: the counter when w0 was read

boardVars == <<latched, strobed, cnt, atw0>>
highVars == <<boardVars, count, time_sec, clock_offset, lasttime, caller, next>>

timeval(sec, usec) == [tv_sec |-> sec, tv_usec |-> usec]

(* The registers (not in the repository): seconds in w3 and w2,            *)
(* microseconds in w1 and w0.                                              *)
Register(w, c) ==
    CASE w = "w0" -> (c % MICROS) % W0
      [] w = "w1" -> (c % MICROS) \div W0
      [] w = "w2" -> (c \div MICROS) % W2
      [] w = "w3" -> (c \div MICROS) \div W2

HighInit ==
    /\ latched \in Boards
    /\ count \in Counts
    /\ strobed = 0
    /\ time_sec \in SystemTimes
    /\ clock_offset = timeval(0, 0)
    /\ lasttime = timeval(0, 0)
    /\ caller = "boot"
    /\ next = "strobe"
    /\ cnt = [w \in {"w0", "w1", "w2", "w3"} |-> 0]
    /\ atw0 = 0

(***************************************************************************)
(* highboard(): read from high to low order, then compare in reverse; a    *)
(* discrepancy starts all over.                                            *)
(***************************************************************************)
Strobe ==
    /\ next = "strobe"
    /\ strobed' = count
    /\ next' = "w3"
    /\ UNCHANGED <<latched, cnt, atw0>>

ReadWord(w, then) ==
    /\ next = w
    /\ cnt' = [cnt EXCEPT ![w] = Register(w, count)]
    /\ next' = then
    /\ UNCHANGED <<latched, strobed, atw0>>

ReadLow ==
    /\ next = "w0"
    /\ cnt' = [cnt EXCEPT !["w0"] =
                  Register("w0", IF latched THEN strobed ELSE count)]
    /\ atw0' = count
    /\ next' = "again w1"
    /\ UNCHANGED <<latched, strobed>>

Compare(at, w, then) ==
    /\ next = at
    /\ next' = IF cnt[w] = Register(w, count) THEN then ELSE "strobe"
    /\ UNCHANGED boardVars

(* Faulty: the seconds are not compared.                                   *)
Comparisons_NoSeconds == Compare("again w1", "w1", "done")

Comparisons ==
    \/ Compare("again w1", "w1", "again w2")
    \/ Compare("again w2", "w2", "again w3")
    \/ Compare("again w3", "w3", "done")

highboard ==
    /\ \/ Strobe
       \/ ReadWord("w3", "w2")
       \/ ReadWord("w2", "w1")
       \/ ReadWord("w1", "w0")
       \/ ReadLow
       \/ Comparisons
    /\ UNCHANGED <<count, time_sec, clock_offset, lasttime, caller>>

(* What it returns.                                                        *)
htime == timeval(cnt["w3"] * W2 + cnt["w2"], cnt["w1"] * W0 + cnt["w0"])

(***************************************************************************)
(* Its callers.                                                            *)
(***************************************************************************)
Borrowed(t) ==
    IF t.tv_usec < 0 THEN timeval(t.tv_sec - 1, t.tv_usec + MICROS) ELSE t

Minus(t, u) == Borrowed(timeval(t.tv_sec - u.tv_sec, t.tv_usec - u.tv_usec))

(* Converted to system time; 1000000 microseconds are let pass.            *)
Converted ==
    LET sec == htime.tv_sec + clock_offset.tv_sec
        usec == htime.tv_usec + clock_offset.tv_usec
    IN  IF usec > MICROS THEN timeval(sec + 1, usec - MICROS)
        ELSE timeval(sec, usec)

(* Advanced past the last time, by less than a tick, if that is later and  *)
(* less than a second away.                                                *)
Advanced(t) ==
    LET behind == Minus(lasttime, t)
        usec == t.tv_usec + 1
                   + (IF behind.tv_usec > TICK - 2 THEN TICK - 2
                      ELSE behind.tv_usec)
    IN  IF behind.tv_sec # 0 THEN t
        ELSE IF usec >= MICROS THEN timeval(t.tv_sec + 1, usec - MICROS)
        ELSE timeval(t.tv_sec, usec)

(* The end of clock_set().  The first uniqtime() calls it, and then reads  *)
(* the board itself.                                                       *)
EndClockSet ==
    /\ next = "done" /\ caller # "uniqtime"
    /\ clock_offset' = Minus(timeval(time_sec, 0), htime)
    /\ next' = IF caller = "boot" THEN "strobe" ELSE "idle"
    /\ caller' = "uniqtime"
    /\ UNCHANGED <<boardVars, count, time_sec, lasttime>>

(* The end of uniqtime().  Its caller gets lasttime, or the system time if *)
(* the two are further apart than HIGHDIFF.                                *)
EndUniqtime ==
    /\ next = "done" /\ caller = "uniqtime"
    /\ lasttime' = Advanced(Converted)
    /\ next' = "idle"
    /\ UNCHANGED <<boardVars, count, time_sec, clock_offset, caller>>

tvp ==
    IF lasttime.tv_sec - time_sec \in -HIGHDIFF .. HIGHDIFF THEN lasttime
    ELSE timeval(time_sec, 0)

uniqtime ==
    /\ next = "idle"
    /\ next' = "strobe"
    /\ caller' = "uniqtime"
    /\ UNCHANGED <<boardVars, count, time_sec, clock_offset, lasttime>>

settimeofday(sec) ==
    /\ next = "idle"
    /\ time_sec' = sec
    /\ next' = "strobe"
    /\ caller' = "clock_set"
    /\ UNCHANGED <<boardVars, count, clock_offset, lasttime>>

(* The counter and, once a second, the system time go on.                  *)
Advance(by) ==
    /\ count + by <= MaxCount
    /\ count' = count + by
    /\ time_sec' = time_sec + (count + by) \div MICROS - count \div MICROS
    /\ UNCHANGED <<boardVars, clock_offset, lasttime, caller, next>>

HighNext ==
    \/ highboard
    \/ EndClockSet
    \/ EndUniqtime
    \/ uniqtime
    \/ \E sec \in SystemTimes : settimeofday(sec)
    \/ \E by \in Advances : Advance(by)

HighSpec == HighInit /\ [][HighNext]_highVars

(***************************************************************************)
(* Properties.                                                             *)
(***************************************************************************)

(* However far the counter goes on between two reads, what highboard()     *)
(* returns is what the counter was when w0 was read, on a board that       *)
(* latches nothing.  On one that latches w0 it is off by less than one     *)
(* unit of w1.                                                             *)
HighReads ==
    next = "done" =>
        htime.tv_sec * MICROS + htime.tv_usec - atw0 \in
            (IF latched THEN -(W0 - 1) .. (W0 - 1) ELSE {0})
=============================================================================
