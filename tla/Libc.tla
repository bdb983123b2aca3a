-------------------------------- MODULE Libc --------------------------------
(***************************************************************************)
(* The stateful parts of the C library: the allocator, the streams and the *)
(* environment.  They share nothing but the memory that malloc() hands     *)
(* out.                                                                    *)
(***************************************************************************)
CONSTANTS NALLOC, MAX_HEAP, Units, FOREIGN,
          STREAMS, BUFSIZ, Newlines, MAX_BYTES, MAX_CALL,
          Objects, Names, Values, OnStack

VARIABLES heap, curbrk, blocks, foreign,
          iob, call, taken, user, lost, overrun,
          environ, vector, text, pieces, freed, meant

H == INSTANCE Malloc
IO == INSTANCE Stdio WITH NFILE <- STREAMS
Env == INSTANCE Environ

(***************************************************************************)
(* Malloc: each unit of the heap is in one block, and the list has the     *)
(* free ones in order, joined.                                             *)
(***************************************************************************)
HeapSound == H!HeapSound

(***************************************************************************)
(* Stdio: no byte is lost between the program and the kernel, unless a     *)
(* call failed, a buffer was overrun or an output was closed with bytes in *)
(* its buffer.                                                             *)
(***************************************************************************)
BytesKept == IO!BytesKept

(***************************************************************************)
(* Environ: getenv() agrees with what was set, and each string is freed    *)
(* once.                                                                   *)
(***************************************************************************)
EnvKept == Env!EnvKept
=============================================================================
