------------------------------- MODULE MCPipe -------------------------------
(* Pipe with two processes, a ring of two bytes and positions that wrap     *)
(* around at four.                                                          *)
EXTENDS Pipe
=============================================================================
