----------------------------- MODULE MCKernSim -----------------------------
(***************************************************************************)
(* Instances of KernSim for TLC.                                           *)
(***************************************************************************)
EXTENDS KernSim, TLC

CONSTANTS
    Settled,        \* the time (ns) after which the loop has converged
    Tolerance       \* what is then left of the error (ns)

Switches(phase, freq) ==
    [sim_phase |-> phase, sim_freq |-> freq, pps |-> FALSE, fll |-> FALSE,
     poll |-> 1, constant |-> 0, delmax |-> 0, sim_end |-> 320 * NANOSECOND,
     master_cpu |-> 0]

(* Plain, with a longer interval, with the FLL, with a delay line, with    *)
(* the PPS signal, and on two processors.                                  *)
Plain == {Switches(phase, freq) : phase \in {-200, 100}, freq \in {-24, 8}}

SimLines == Plain \cup {[c EXCEPT !.poll = 2, !.constant = 1] : c \in Plain}
                  \cup {[c EXCEPT !.pps = TRUE] : c \in Plain}
                  \cup {[c EXCEPT !.fll = TRUE, !.poll = 4] : c \in Plain}
                  \cup {[c EXCEPT !.delmax = 2] : c \in Plain}
                  \cup {[c EXCEPT !.master_cpu = 1,
                                  !.sim_end = 5 * NANOSECOND] : c \in Plain}

Counters == (0 :> 4096) @@ (1 :> 4000)

(* The loop converges: whatever the phase and the frequency error that it  *)
(* starts with, the poll interval, the mode of the loop and the delay of   *)
(* the updates, the error of the clock ends up within a tolerance.         *)
LoopConverges ==
    stage = "event" /\ time_real >= Settled
        => delta \in -Tolerance .. Tolerance
=============================================================================
