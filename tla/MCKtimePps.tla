----------------------------- MODULE MCKtimePps -----------------------------
(***************************************************************************)
(* Instances of KtimePps for TLC.                                          *)
(***************************************************************************)
EXTENDS KtimePps

Configure(modes, status, shift) ==
    [modes |-> modes, status |-> status, constant |-> 0, offset |-> 0,
     freq |-> 0, maxerror |-> 0, esterror |-> 0, shift |-> shift]

(* The PPS discipline enabled, with the limit of the interval set; and     *)
(* disabled.                                                               *)
PpsRequests ==
    {Configure({"MOD_STATUS", "MOD_PPSMAX"},
               {"STA_PLL", "STA_PPSFREQ", "STA_PPSTIME"}, PPS_FAVG),
     Configure({"MOD_STATUS"}, {}, 0)}

CountDrifts == {-1, 1}

GoodPhases == {-1, 0}

BadPhases == {12}

(* An offset of MAXPHASE, and pulses that are almost as far off on the     *)
(* other side of the second.                                               *)
FarOffsets == {-MAXPHASE}

FarPhases == {1 - MAXPHASE}
=============================================================================
