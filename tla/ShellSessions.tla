--------------------------- MODULE ShellSessions ---------------------------
(***************************************************************************)
(* A login session and the shell that it ends in, side by side: login      *)
(* execs the shell, and they share no state.                               *)
(***************************************************************************)
EXTENDS Sessions

CONSTANTS NPROC, NFILE, CmdLines, Garbage

VARIABLES pc, todo, i, pipes, fds, st, job, broken

R == INSTANCE Shell

(***************************************************************************)
(* Shell: every program of a pipeline has the descriptors that it should,  *)
(* and no end of a pipe is left open, unless a pipe() has failed.          *)
(***************************************************************************)
PipesWired == R!PipesWired
=============================================================================
