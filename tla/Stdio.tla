------------------------------- MODULE Stdio -------------------------------
(***************************************************************************)
(* The streams of lib/libc/stdio.c: a buffer for each FILE, filled by      *)
(* read() for fgets(), fread() and fgetc(), and emptied by write() for     *)
(* fputs(), fputc() and fwrite(), with the answers that the kernel may     *)
(* give to both.  A stream is used in one direction.  The bytes of a file  *)
(* or of what is written are numbered from 1; some of them are newlines.   *)
(***************************************************************************)
EXTENDS Integers, SequencesExt, FiniteSetsExt

CONSTANTS
    NFILE,      \* _NFILE: streams
    BUFSIZ,     \* bytes in the buffer of a stream
    Newlines,   \* bound: which bytes are "\n"
    MAX_BYTES,  \* bound: bytes read from or written to one file
    MAX_CALL    \* bound: bytes that one call is about

VARIABLES
    iob,        \* _iob[]: flags, fd, and the "size" bytes at ptr (or before it)
    call,       \* the call under way
    taken,      \* by descriptor: bytes that read() returned or write() took
    user,       \* by descriptor: bytes that the program was given or put
    lost,       \* the descriptors of which bytes were dropped by a write() that
                \* failed, by fread() that returned 0 after all, or by fclose()
    overrun     \* history: fwrite() wrote past the buffer, over the rest of the FILE

vars == <<iob, call, taken, user, lost, overrun>>

Slots == 1 .. NFILE
stdin == 1
stdout == 2
Inputs == {0}       \* a file that is read, with "r"
Outputs == {1}      \* one that is written, with "w"
Fds == Inputs \cup Outputs
Numbers(n) == [k \in 1 .. n |-> k]

Closed == [used |-> FALSE, eof |-> FALSE, fd |-> -1, buf |-> <<>>]
Open(fd) == [Closed EXCEPT !.used = TRUE, !.fd = fd]
Idle == [op |-> "none", at |-> 0, want |-> 0, done |-> <<>>]

(* stdio_init() *)
Init ==
    /\ iob = [s \in Slots |-> IF s = stdin THEN Open(0) ELSE IF s = stdout THEN Open(1) ELSE Closed]
    /\ call = Idle
    /\ taken = [fd \in Fds |-> <<>>]
    /\ user = [fd \in Fds |-> <<>>]
    /\ lost = {}
    /\ overrun = FALSE

f == iob[call.at]
calling(ops) == call.op \in ops /\ UNCHANGED user
return == call' = Idle

(* The last byte that the call copied is a newline *)
Line == \E k \in DOMAIN call.done : k = Len(call.done) /\ call.done[k] \in Newlines

-----------------------------------------------------------------------------
(* falloc(): the first slot that is not used, and open() or none of them *)
falloc == Min({s \in Slots : ~iob[s].used})

fopen(fd) ==
    /\ call = Idle
    /\ \E s \in Slots : ~iob[s].used
    /\ ~\E s \in Slots : iob[s].fd = fd
    /\ iob' = [iob EXCEPT ![falloc] = Open(fd)]
    /\ taken' = [taken EXCEPT ![fd] = <<>>]
    /\ user' = [user EXCEPT ![fd] = <<>>]
    /\ lost' = lost \ {fd}
    /\ UNCHANGED call

(* fclose() writes nothing: what is in the buffer is dropped *)
fclose(s) ==
    /\ call = Idle /\ iob[s].used
    /\ iob' = [iob EXCEPT ![s] = Closed]
    /\ lost' = IF iob[s].fd \in Outputs /\ iob[s].buf # <<>> THEN lost \cup {iob[s].fd} ELSE lost
    /\ UNCHANGED <<call, taken, user>>

-----------------------------------------------------------------------------
(* fread() and fgets() of "want" bytes; fgetc() is fread() of one *)
Get(op, s, n) ==
    /\ call = Idle /\ iob[s].fd \in Inputs
    /\ call' = [op |-> op, at |-> s, want |-> n, done |-> <<>>]
    /\ UNCHANGED <<iob, taken, user, lost>>

Reading == {"fread", "fgets"}
More ==
    /\ call.want > 0
    /\ call.op = "fgets" => ~Line

(* memcpy(), or one byte of fgets() *)
Segment == IF call.op = "fgets" THEN 1 ELSE Min({call.want, Len(f.buf)})

Take ==
    /\ calling(Reading) /\ More /\ f.buf # <<>>
    /\ LET n == Segment
       IN /\ call' = [call EXCEPT !.want = @ - n, !.done = @ \o SubSeq(f.buf, 1, n)]
          /\ iob' = [iob EXCEPT ![call.at].buf = SubSeq(@, n + 1, Len(@))]
    /\ UNCHANGED <<taken, lost>>

(* The call ends with what it has *)
Got ==
    /\ call.op \in Reading
    /\ user' = [user EXCEPT ![f.fd] = @ \o call.done]
    /\ return

GetReturns == ~More /\ Got /\ UNCHANGED <<iob, taken, lost>>

(* fread() gives up when the flag says so, with whatever it copied *)
AtEof ==
    /\ calling({"fread"}) /\ More /\ f.buf = <<>> /\ f.eof
    /\ lost' = IF call.done = <<>> THEN lost ELSE lost \cup {f.fd}
    /\ return
    /\ UNCHANGED <<iob, taken>>

(* _filebuf(): read() gives at most a buffer full.  It is called again      *)
(* after EINTR, which changes nothing.                                      *)
Fills == More /\ f.buf = <<>> /\ (call.op = "fread" => ~f.eof)

Filebuf(n) ==
    /\ calling(Reading) /\ Fills
    /\ Len(taken[f.fd]) + n <= MAX_BYTES
    /\ LET all == Numbers(Len(taken[f.fd]) + n)
       IN /\ iob' = [iob EXCEPT ![call.at].buf = SubSeq(all, Len(taken[f.fd]) + 1, Len(all))]
          /\ taken' = [taken EXCEPT ![f.fd] = all]
    /\ UNCHANGED <<call, lost>>

(* read() returns 0, at the end of a file or of a line of a terminal; or it fails *)
FilebufEnd ==
    /\ Fills /\ Got
    /\ \E zero \in BOOLEAN : iob' = [iob EXCEPT ![call.at].eof = @ \/ zero]
    /\ UNCHANGED <<taken, lost>>

-----------------------------------------------------------------------------
(* Mutant: the buffer is written, but its size is not reset *)
FlushedNot(s) == iob
(* fflush(): ptr and size are reset before the write *)
Flushed(s) == [iob EXCEPT ![s].buf = <<>>]

(* write() takes n of the bytes; -1 is as if it took none, but an error *)
Writes(s, n) ==
    LET fd == iob[s].fd
    IN /\ taken' = [taken EXCEPT ![fd] = @ \o SubSeq(iob[s].buf, 1, n)]
       /\ lost' = IF n = Len(iob[s].buf) THEN lost ELSE lost \cup {fd}

fflush(s) ==
    /\ call = Idle /\ iob[s].fd \in Outputs
    /\ \E n \in 0 .. Len(iob[s].buf) : Writes(s, n)
    /\ iob' = Flushed(s)
    /\ UNCHANGED <<call, user>>

(* fputs() and fwrite() of "want" bytes; fputc() is fputs() of one *)
Put(op, s, n) ==
    /\ call = Idle /\ iob[s].fd \in Outputs
    /\ Len(user[iob[s].fd]) + n <= MAX_BYTES
    /\ call' = [op |-> op, at |-> s, want |-> n, done |-> <<>>]
    /\ UNCHANGED <<iob, taken, user, lost>>

(* When the byte just put was a newline, fputc() flushes, and so it does    *)
(* before there is no room                                                  *)
Full == Len(f.buf) >= BUFSIZ
Flushes ==
    \/ call.op = "fputs" /\ (Line \/ (call.want > 0 /\ Full))
    \/ call.op = "fwrite" /\ call.want > 0 /\ Full

(* fputs() ends at an error, fwrite() does not look at it *)
PutFlush ==
    /\ calling({"fputs", "fwrite"}) /\ Flushes
    /\ \E n \in 0 .. Len(f.buf) :
          /\ Writes(call.at, n)
          /\ call' = IF n < Len(f.buf) /\ call.op = "fputs" THEN Idle ELSE [call EXCEPT !.done = <<>>]
    /\ iob' = Flushed(call.at)

(* fwrite() copies MIN(total, BUFSIZ) bytes, whatever room there is *)
Copies == IF call.op = "fputs" THEN 1 ELSE Min({call.want, BUFSIZ})
Overruns == Len(f.buf) + Copies > BUFSIZ

PutBytes ==
    /\ call.op \in {"fputs", "fwrite"} /\ ~Flushes /\ call.want > 0 /\ ~Overruns
    /\ LET old == Len(user[f.fd])
           new == SubSeq(Numbers(old + Copies), old + 1, old + Copies)
       IN /\ iob' = [iob EXCEPT ![call.at].buf = @ \o new]
          /\ user' = [user EXCEPT ![f.fd] = @ \o new]
          /\ call' = [call EXCEPT !.want = @ - Copies, !.done = new]
    /\ UNCHANGED <<taken, lost>>

(* The bytes that have no room go over size, buf_size, ptr and flags, and    *)
(* over the next FILE: the streams are not followed any further.            *)
PutOverruns ==
    /\ call.op \in {"fputs", "fwrite"} /\ ~Flushes /\ call.want > 0 /\ Overruns
    /\ overrun' = TRUE
    /\ UNCHANGED <<iob, call, taken, user, lost>>

PutReturns ==
    /\ calling({"fputs", "fwrite"}) /\ ~Flushes /\ call.want = 0
    /\ return
    /\ UNCHANGED <<iob, taken, lost>>

-----------------------------------------------------------------------------
Calls ==
    \/ \E fd \in Fds : fopen(fd)
    \/ \E s \in Slots :
          \/ fclose(s) \/ fflush(s)
          \/ \E n \in 1 .. MAX_CALL : \/ \E op \in Reading : Get(op, s, n)
                                      \/ \E op \in {"fputs", "fwrite"} : Put(op, s, n)
    \/ Take \/ GetReturns \/ AtEof \/ FilebufEnd
    \/ \E n \in 1 .. BUFSIZ : Filebuf(n)
    \/ PutFlush \/ PutBytes \/ PutReturns

Next ==
    \/ ~overrun /\ Calls /\ UNCHANGED overrun
    \/ ~overrun /\ PutOverruns
    \/ overrun /\ UNCHANGED vars

Spec == Init /\ [][Next]_vars

-----------------------------------------------------------------------------
(* Of each stream, and of the output that has no stream any more *)
StreamsKept ==
    \A s \in Slots :
        LET fd == iob[s].fd
        IN iob[s].used /\ fd \notin lost =>
             IF fd \in Inputs
             THEN taken[fd] = user[fd] \o (IF call.at = s THEN call.done ELSE <<>>) \o iob[s].buf
             ELSE user[fd] = taken[fd] \o iob[s].buf
ClosedKept ==
    \A fd \in Outputs : fd \notin lost /\ (\A s \in Slots : iob[s].fd # fd) => user[fd] = taken[fd]

(***************************************************************************)
(* stdio.c: no byte is lost, repeated or out of order between the kernel   *)
(* and the program: what read() gave is what the program has and the       *)
(* buffer still holds, and what the program put is what write() took and   *)
(* the buffer holds; all of it is written when the stream is closed.  The  *)
(* code keeps this as long as no write() failed, fread() did not give up,  *)
(* nothing was in the buffer of an output at fclose(), which drops it, and *)
(* no fwrite() came to a buffer with too little room, which it overruns.   *)
(***************************************************************************)
BytesKept == overrun \/ (StreamsKept /\ ClosedKept)
=============================================================================
