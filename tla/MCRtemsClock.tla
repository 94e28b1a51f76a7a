---------------------------- MODULE MCRtemsClock ----------------------------
(***************************************************************************)
(* Instances of RtemsClock for TLC: the frequency is set to its limits, and*)
(* leap seconds are announced and never withdrawn.                         *)
(***************************************************************************)
EXTENDS RtemsClock

Request(modes, status, freq) ==
    [modes |-> modes, status |-> status, constant |-> 0, offset |-> 0,
     freq |-> freq, maxerror |-> 0, esterror |-> 0, shift |-> 0]

ClockRequests ==
    {Request({"MOD_STATUS"}, {"STA_PLL", "STA_INS"}, 0),
     Request({"MOD_STATUS"}, {"STA_PLL", "STA_DEL"}, 0)}
        \cup {Request({"MOD_FREQUENCY"}, {}, f) : f \in {-MAXFREQ, MAXFREQ}}

LeapRequests == {Request({"MOD_STATUS"}, {"STA_PLL", "STA_INS"}, 0)}
=============================================================================
