---------------------------- MODULE ProcSignals ----------------------------
(***************************************************************************)
(* Signals, beside the process table: state and wchan are names that Proc  *)
(* has for all processes, so here those of the one process are runs and    *)
(* alarm.                                                                  *)
(***************************************************************************)
CONSTANTS Sigs, SIGKILL, PIT_FREQ, TICKS, Seconds, MAX_KILLS

VARIABLES pending, mask, handlers, context, saved, runs, ticks, alarm, due, left, sent,
          nested, inherited

Sg == INSTANCE Signals WITH state <- runs, wchan <- alarm

(***************************************************************************)
(* Signals: the context that a handler interrupted comes back, and its     *)
(* signal is masked for as long as it runs.                                *)
(***************************************************************************)
HandlersReturn == Sg!HandlersReturn

(***************************************************************************)
(* Signals: sleep(2) ends, and not after its time, over the wrap-around of *)
(* pit_ticks.                                                              *)
(***************************************************************************)
SleepIsTimed == Sg!SleepIsTimed
=============================================================================
