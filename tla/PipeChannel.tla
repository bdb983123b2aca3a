----------------------------- MODULE PipeChannel -----------------------------
(***************************************************************************)
(* What a pipe promises (pipe.2: "a unidirectional data channel"): a FIFO  *)
(* of at most Capacity bytes.  A byte put in comes out once, unchanged and *)
(* in order, and nothing else comes out.                                   *)
(***************************************************************************)
EXTENDS Integers, Sequences

CONSTANTS
    Byte,       \* what can be sent
    Capacity,   \* how many bytes the channel holds
    NoByte      \* nothing has been delivered yet

VARIABLES
    chan,       \* the bytes in the channel, oldest first
    delivered   \* the byte handed to the reader at work, if any

Init == chan = <<>> /\ delivered = NoByte

Put(b) ==
    /\ Len(chan) < Capacity
    /\ chan' = Append(chan, b)
    /\ UNCHANGED delivered

Get ==
    /\ chan # <<>>
    /\ delivered' = Head(chan)
    /\ chan' = Tail(chan)

(* The reader has what it asked for *)
Finish == delivered' = NoByte /\ UNCHANGED chan

Next == (\E b \in Byte : Put(b)) \/ Get \/ Finish

Spec == Init /\ [][Next]_<<chan, delivered>>
=============================================================================
