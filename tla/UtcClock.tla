------------------------------ MODULE UtcClock ------------------------------
(***************************************************************************)
(* What the leap-second machine of ktime.c promises, as api.htm describes  *)
(* it: the clock shows seconds 0 .. DAY - 1 of each day, an announced leap *)
(* inserts second DAY or deletes second DAY - 1 of one day, each           *)
(* announcement is honoured at most once, and the TAI offset moves so that *)
(* the count of elapsed seconds never jumps.  Ticks within a second are    *)
(* not visible here.                                                       *)
(***************************************************************************)
EXTENDS Integers

CONSTANTS
    DAY,            \* seconds in a day
    StartSecs       \* the seconds at which the clock may start

VARIABLES
    day, second,    \* the second of UTC that the clock shows
    tai,            \* TAI - UTC
    warning         \* "none", "insert", "delete", or "spent"

vars == <<day, second, tai, warning>>

Init ==
    /\ \E s \in StartSecs : day = s \div DAY /\ second = s % DAY
    /\ tai = 0
    /\ warning = "none"

(* A second without a leap.  Warnings come and go with it.                 *)
PlainSecond ==
    /\ second < DAY
    /\ IF second = DAY - 1 THEN day' = day + 1 /\ second' = 0
       ELSE day' = day /\ second' = second + 1
    /\ \/ warning = "none" /\ warning' \in {"none", "insert", "delete"}
       \/ warning # "none" /\ warning' \in {warning, "none"}
    /\ tai' = tai

(* An announced insertion is never passed over.                            *)
NotDue ==
    /\ ~(warning = "insert" /\ warning' = "insert" /\ second = DAY - 1)
    /\ ~(warning = "delete" /\ warning' = "delete" /\ second = DAY - 2)

BeginLeapSecond ==
    /\ warning = "insert"
    /\ second = DAY - 1
    /\ second' = DAY
    /\ warning' = "spent"
    /\ UNCHANGED <<day, tai>>

EndLeapSecond ==
    /\ second = DAY
    /\ day' = day + 1
    /\ second' = 0
    /\ tai' = tai + 1
    /\ UNCHANGED warning

SkipSecond ==
    /\ warning = "delete"
    /\ second = DAY - 2
    /\ day' = day + 1
    /\ second' = 0
    /\ tai' = tai - 1
    /\ warning' = "spent"

(* The operator sets the TAI offset, disables the loop, or both.  Disabling*)
(* it in mid leap second abandons the leap.                                *)
Operate ==
    /\ tai' \in {tai} \cup (Nat \ {0})
    /\ warning' \in {warning, "none"}
    /\ second' = IF second = DAY /\ warning' = "none" THEN DAY - 1
                 ELSE second
    /\ UNCHANGED day

Next ==
    \/ PlainSecond /\ NotDue
    \/ BeginLeapSecond
    \/ EndLeapSecond
    \/ SkipSecond
    \/ Operate

Spec == Init /\ [][Next]_vars
=============================================================================
