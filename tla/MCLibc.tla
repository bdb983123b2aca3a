------------------------------- MODULE MCLibc -------------------------------
(***************************************************************************)
(* The stateful parts of the C library: the allocator, the streams and the *)
(* environment.  They share nothing but the memory that malloc() hands     *)
(* out, so each behaviour exercises one of the three.                      *)
(***************************************************************************)
EXTENDS Libc

VARIABLE part

ASSUME MallocAssumption == H!Sizes
ASSUME EnvironAssumption == Env!Given

storage == <<heap, curbrk, blocks, foreign>>
streams == <<iob, call, taken, user, lost, overrun>>
variables == <<environ, vector, text, pieces, freed, meant>>

MCNames == {<<"A">>, <<"A", "B">>, <<"C">>}
MCValues == {<<>>, <<"x">>, <<"y">>, <<"=", "x">>}
MCOnStack == {<<>>, << <<"A", "=", "x">> >>, << <<"A", "B", "=", "y">>, <<"A", "=", "=", "x">> >>}

NoEnviron ==
    environ = <<>> /\ vector = 0 /\ text = <<>> /\ pieces = {} /\ freed = {} /\ meant = <<>>

MCInit ==
    /\ part \in {"malloc", "stdio", "environ"}
    /\ H!Init /\ IO!Init
    /\ IF part = "environ" THEN Env!Init ELSE NoEnviron

MallocNext == part = "malloc" /\ H!Next /\ UNCHANGED <<part, streams, variables>>
StdioNext == part = "stdio" /\ IO!Next /\ UNCHANGED <<part, storage, variables>>
EnvironNext == part = "environ" /\ Env!Next /\ UNCHANGED <<part, storage, streams>>

MCNext == MallocNext \/ StdioNext \/ EnvironNext
MCSpec == MCInit /\ [][MCNext]_<<part, storage, streams, variables>>
=============================================================================
