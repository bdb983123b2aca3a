------------------------------- MODULE MCProc -------------------------------
(* Proc with init and two more slots. *)
EXTENDS Proc
=============================================================================
