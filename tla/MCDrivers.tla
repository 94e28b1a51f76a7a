----------------------------- MODULE MCDrivers -----------------------------
(***************************************************************************)
(* One instance for TLC of the three device modules, of which a kernel has *)
(* one at most, and of the arithmetic of 32-bit machines.  They share no   *)
(* state: each behaviour is one of one module, and the variables of the    *)
(* others stay as they are.                                                *)
(***************************************************************************)
EXTENDS PpsApi, HighClock, TproClock, LFixed32, TLC

CONSTANTS c1, c2

VARIABLE
    config          \* the device, or the type, that this behaviour is about

driverVars == <<config, apiVars, highVars, tproVars, fpVars>>

DriversInit ==
    /\ config \in {"PPS", "HIGHBALL", "TPRO", "l_fp"}
    /\ ApiInit /\ (config # "PPS" => host = "OSF1")
    /\ HighInit /\ (config # "HIGHBALL" => ~latched)
    /\ TproInit /\ (config # "TPRO" => irig = 1 /\ lead = 0)
    /\ FpInit

DriversNext ==
    /\ \/ /\ config = "PPS" /\ ApiNext
          /\ UNCHANGED <<highVars, tproVars, fpVars>>
       \/ /\ config = "HIGHBALL" /\ HighNext
          /\ UNCHANGED <<apiVars, tproVars, fpVars>>
       \/ /\ config = "TPRO" /\ TproNext
          /\ UNCHANGED <<apiVars, highVars, fpVars>>
       \/ /\ config = "l_fp" /\ FpNext
          /\ UNCHANGED <<apiVars, highVars, tproVars>>
    /\ UNCHANGED config

DriversSpec == DriversInit /\ [][DriversNext]_driverVars

(* The two lines of a SunOS host matter, since they share the hook.        *)
HostLines == ("OSF1" :> 1) @@ ("SunOS" :> 2) @@ ("Solaris" :> 1)

(* Offsets that carry and borrow.                                          *)
PpsSettings ==
    {Params({"PPS_CAPTUREASSERT", "PPS_OFFSETASSERT", "PPS_OFFSETCLEAR",
             "PPS_TSFMT_NTPFP"}, Timespec(0, -1), Timespec(1, 3))}

TproLeads == {-1, 0, 2}
=============================================================================
