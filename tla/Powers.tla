------------------------------- MODULE Powers -------------------------------
(***************************************************************************)
(* The number 1 << n by which the shifts of the code multiply and divide,  *)
(* as a recursive function: what the provers do not know of an exponent    *)
(* can be proved of it by induction.                                       *)
(***************************************************************************)
EXTENDS Integers

PowerOfTwo[n \in Nat] == IF n = 0 THEN 1 ELSE 2 * PowerOfTwo[n - 1]
=============================================================================
