--------------------------- MODULE MCBufferCache ---------------------------
(* BufferCache with two processes, three buffers and four blocks: one is    *)
(* a bitmap and one is on a device without a drive.                         *)
EXTENDS BufferCache
=============================================================================
