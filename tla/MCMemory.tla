------------------------------ MODULE MCMemory ------------------------------
(* Memory with two processes and a machine of a few pages *)
EXTENDS Memory

ASSUME RoomForStrings == StacksFit

MCStrings == {<<>>, <<3, 4>>}
=============================================================================
