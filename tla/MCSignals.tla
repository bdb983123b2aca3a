----------------------------- MODULE MCSignals -----------------------------
(* Signals with SIGINT, SIGKILL and SIGTERM and a clock of a few ticks *)
EXTENDS ProcSignals

ASSUME SignalsAssumption == Sg!Numbers

MCSpec == Sg!FairSpec

(***************************************************************************)
(* Signals: SIGKILL ends a process that goes on to call the kernel, unless *)
(* an ignored signal with a lower number stays pending.                    *)
(***************************************************************************)
KillEnds == Sg!KillEnds
=============================================================================
