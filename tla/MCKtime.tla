------------------------------ MODULE MCKtime ------------------------------
(***************************************************************************)
(* Instances of Ktime for TLC.  Each request set below is one slice of the *)
(* arguments that ntp_adjtime() may be called with; the cfg files choose.  *)
(***************************************************************************)
EXTENDS Ktime

Request ==
    [modes |-> {}, status |-> {}, constant |-> 0, offset |-> 0, freq |-> 0,
     maxerror |-> 0, esterror |-> 0, shift |-> 0]

SetStatus(status) ==
    [Request EXCEPT !.modes = {"MOD_STATUS"}, !.status = status]

SetTai(tai) == [Request EXCEPT !.modes = {"MOD_TAI"}, !.constant = tai]

SetConstant(constant) ==
    [Request EXCEPT !.modes = {"MOD_TIMECONST"}, !.constant = constant]

(* Leap announcements, made and withdrawn, the loop enabled and disabled,  *)
(* the TAI offset set, and the time constant, also below its range.        *)
LeapRequests ==
    {SetStatus({"STA_PLL"} \cup bits) : bits \in SUBSET {"STA_INS", "STA_DEL"}}
        \cup {SetStatus({}), SetStatus({"STA_INS"}), SetTai(2),
              SetConstant(-1), SetConstant(1)}

(* The loop enabled in its modes, the frequency set.                       *)
SetFreq(freq) ==
    [Request EXCEPT !.modes = {"MOD_FREQUENCY"}, !.freq = freq]

LoopRequests ==
    {SetStatus({"STA_PLL"}), SetStatus({"STA_PLL", "STA_FLL"}),
     SetStatus({"STA_PLL", "STA_FREQHOLD"}), SetFreq(9)}

LoopOffsets == {-9, 2}
=============================================================================
