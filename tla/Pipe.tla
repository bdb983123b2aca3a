-------------------------------- MODULE Pipe --------------------------------
(***************************************************************************)
(* One pipe of sys/kern/pipe.c and the processes that hold its ends.       *)
(*                                                                         *)
(* System calls run with interrupts off, so a process that entered the     *)
(* kernel keeps the CPU (variable cur) until it sleeps or returns.  The    *)
(* loops of pipe_read() and pipe_write() are modelled one iteration per    *)
(* step, each branch an action of its own.                                 *)
(***************************************************************************)
EXTENDS Integers, FiniteSets, Sequences

CONSTANTS
    Procs,      \* the processes
    NoProc,     \* cur_proc == NULL
    Byte,       \* the values of a byte that are told apart
    NoByte,     \* not a byte
    PIPE_BUF,   \* sizeof(p->buffer)
    SizeMod,    \* 2^width of size_t: read_pos and write_pos wrap around here
    MaxBytes,   \* bound: the largest nbytes passed to read() and write()
    Signalled   \* bound: the processes that signals are sent to

ASSUME PipeAssumption ==
    /\ IsFiniteSet(Procs) /\ NoProc \notin Procs
    /\ Byte # {} /\ NoByte \notin Byte
    /\ PIPE_BUF \in Nat \ {0}
    /\ SizeMod \in Nat
    /\ PIPE_BUF < SizeMod
    /\ SizeMod % PIPE_BUF = 0
    /\ MaxBytes \in Nat
    /\ Signalled \subseteq Procs

VARIABLES
    buffer, read_pos, write_pos, readers, writers,   \* struct pipe
    ref_count,  \* ref_count of the struct file of each end
    holds,      \* the ends found in each process's ofile[]
    state,      \* proc.state; a sleeper's wchan is always the pipe
    pc,         \* where each process is
    nbytes,     \* argument of the system call under way
    done,       \* bytes_read or bytes_written
    sig,        \* signal_pending()
    cur,        \* cur_proc
    delivered   \* the byte that the pipe_read() under way stored last

pipe  == <<buffer, read_pos, write_pos, readers, writers>>
files == <<ref_count, holds>>
call  == <<pc, nbytes, done>>
vars  == <<pipe, files, state, call, sig, cur, delivered>>

-----------------------------------------------------------------------------
(* Data structures and helpers *)

Ends == {"rd", "wr"}

(* fcntl.h: O_RDONLY is 0 and O_WRONLY is 1; sys_pipe() gives one to each end *)
O_RDONLY == 0
O_WRONLY == 1
EndFlags(e) == IF e = "rd" THEN O_RDONLY ELSE O_WRONLY

(* flags & bit, where bit is one of the two flags above *)
FlagSet(flags, bit) == bit # 0 /\ flags % (2 * bit) >= bit

Empty == read_pos = write_pos
Avail == (write_pos - read_pos) % SizeMod
Full  == Avail = PIPE_BUF

Incr(pos) == (pos + 1) % SizeMod

(* wakeup(p): everyone who sleeps on the pipe becomes runnable *)
Wakeup == [q \in Procs |-> IF state[q] = "SLEEP" THEN "RUNNING" ELSE state[q]]

InKernel(p, where) == cur = p /\ pc[p] = where

-----------------------------------------------------------------------------
(* The pipe exists and its two files are shared out, as fork() and close()  *)
(* leave them.  Every process is in user mode.                              *)

Init ==
    /\ buffer \in [0 .. PIPE_BUF - 1 -> {CHOOSE b \in Byte : TRUE}]
    /\ read_pos = 0 /\ write_pos = 0
    /\ readers = 1 /\ writers = 1
    /\ holds \in [Procs -> SUBSET Ends]
    /\ \A e \in Ends : \E p \in Procs : e \in holds[p]
    /\ ref_count = [e \in Ends |-> Cardinality({p \in Procs : e \in holds[p]})]
    /\ state = [p \in Procs |-> "RUNNING"]
    /\ pc = [p \in Procs |-> "user"]
    /\ nbytes = [p \in Procs |-> 0]
    /\ done = [p \in Procs |-> 0]
    /\ sig = [p \in Procs |-> FALSE]
    /\ cur = NoProc
    /\ delivered = NoByte

-----------------------------------------------------------------------------
(* Scheduling *)

(* sched() picks a process that is runnable, or asleep with a signal pending; *)
(* the latter resumes inside its loop while its state still says SLEEP.      *)
Dispatch(p) ==
    /\ cur = NoProc
    /\ state[p] = "RUNNING" \/ (state[p] = "SLEEP" /\ sig[p])
    /\ cur' = p
    /\ UNCHANGED <<pipe, files, state, call, sig, delivered>>

(* The timer interrupt takes the CPU from a process in user mode *)
Preempt(p) ==
    /\ InKernel(p, "user")
    /\ cur' = NoProc
    /\ UNCHANGED <<pipe, files, state, call, sig, delivered>>

(* sleep(p) *)
Sleep(p) ==
    /\ cur' = NoProc
    /\ UNCHANGED <<call, sig, delivered>>

(* A signal arrives: kill() by the running process, or the tty's interrupt *)
Signal(p) ==
    /\ cur = NoProc \/ (cur \in Procs /\ pc[cur] = "user")
    /\ p \in Signalled /\ state[p] # "ZOMBIE"
    /\ sig' = [sig EXCEPT ![p] = TRUE]
    /\ UNCHANGED <<pipe, files, state, call, cur, delivered>>

-----------------------------------------------------------------------------
(* read() and write(): only the type of the file is checked, so either end  *)
(* may be used for both.                                                    *)

Enter(p, where, n) ==
    /\ InKernel(p, "user")
    /\ holds[p] # {}
    /\ pc' = [pc EXCEPT ![p] = where]
    /\ nbytes' = [nbytes EXCEPT ![p] = n]
    /\ done' = [done EXCEPT ![p] = 0]
    /\ UNCHANGED <<pipe, files, state, sig, cur, delivered>>

Return(p) ==
    /\ pc' = [pc EXCEPT ![p] = "leave"]
    /\ nbytes' = [nbytes EXCEPT ![p] = 0]
    /\ done' = [done EXCEPT ![p] = 0]
    /\ delivered' = NoByte
    /\ UNCHANGED <<sig, cur>>

-----------------------------------------------------------------------------
(* pipe_read() *)

(* Mutant: ++read_pos in place of read_pos++ *)
ReadByteNext(p) ==
    /\ InKernel(p, "read") /\ done[p] < nbytes[p]
    /\ ~Empty
    /\ delivered' = buffer[Incr(read_pos) % PIPE_BUF]
    /\ read_pos' = Incr(read_pos)
    /\ done' = [done EXCEPT ![p] = @ + 1]
    /\ UNCHANGED <<buffer, write_pos, readers, writers, files, state, pc, nbytes, sig, cur>>

ReadByte(p) ==
    /\ InKernel(p, "read") /\ done[p] < nbytes[p]
    /\ ~Empty
    /\ delivered' = buffer[read_pos % PIPE_BUF]
    /\ read_pos' = Incr(read_pos)
    /\ done' = [done EXCEPT ![p] = @ + 1]
    /\ UNCHANGED <<buffer, write_pos, readers, writers, files, state, pc, nbytes, sig, cur>>

ReadBlock(p) ==
    /\ InKernel(p, "read") /\ done[p] < nbytes[p]
    /\ Empty /\ writers # 0 /\ done[p] = 0
    /\ state' = [state EXCEPT ![p] = "SLEEP"]
    /\ Sleep(p)
    /\ UNCHANGED <<pipe, files>>

(* Mutant: an empty pipe is end of file, whoever can still write *)
ReadReturnEmpty(p) ==
    /\ InKernel(p, "read")
    /\ done[p] < nbytes[p] => Empty
    /\ state' = Wakeup
    /\ Return(p)
    /\ UNCHANGED <<pipe, files>>

(* Mutant: no wakeup of the writers that wait for room *)
ReadReturnSilent(p) ==
    /\ InKernel(p, "read")
    /\ done[p] < nbytes[p] => Empty /\ (writers = 0 \/ done[p] > 0)
    /\ Return(p)
    /\ UNCHANGED <<pipe, files, state>>

ReadReturn(p) ==
    /\ InKernel(p, "read")
    /\ done[p] < nbytes[p] => Empty /\ (writers = 0 \/ done[p] > 0)
    /\ state' = Wakeup
    /\ Return(p)
    /\ UNCHANGED <<pipe, files>>

-----------------------------------------------------------------------------
(* pipe_write() *)

WriteByte(p, b) ==
    /\ InKernel(p, "write") /\ done[p] < nbytes[p]
    /\ ~Full
    /\ buffer' = [buffer EXCEPT ![write_pos % PIPE_BUF] = b]
    /\ write_pos' = Incr(write_pos)
    /\ done' = [done EXCEPT ![p] = @ + 1]
    /\ UNCHANGED <<read_pos, readers, writers, files, state, pc, nbytes, sig, cur, delivered>>

(* Full: wake up the readers, then sleep *)
WriteBlock(p) ==
    /\ InKernel(p, "write") /\ done[p] < nbytes[p]
    /\ Full
    /\ state' = [Wakeup EXCEPT ![p] = "SLEEP"]
    /\ Sleep(p)
    /\ UNCHANGED <<pipe, files>>

(* Mutant: no wakeup of the readers that wait for data *)
WriteReturnSilent(p) ==
    /\ InKernel(p, "write") /\ done[p] = nbytes[p]
    /\ Return(p)
    /\ UNCHANGED <<pipe, files, state>>

WriteReturn(p) ==
    /\ InKernel(p, "write") /\ done[p] = nbytes[p]
    /\ state' = Wakeup
    /\ Return(p)
    /\ UNCHANGED <<pipe, files>>

-----------------------------------------------------------------------------
(* pipe_close() of every end in E: a last reference takes the file out of   *)
(* the counts, and the pipe is cleared when both counts are 0.              *)

LastRef(e, E, bit) == e \in E /\ ref_count[e] = 1 /\ FlagSet(EndFlags(e), bit)
Dropped(E, bit) == Cardinality({e \in Ends : LastRef(e, E, bit)})

PipeClose(p, E) ==
    LET rd == readers - Dropped(E, O_RDONLY)
        wr == writers - Dropped(E, O_WRONLY)
    IN  /\ holds' = [holds EXCEPT ![p] = @ \ E]
        /\ ref_count' = [e \in Ends |-> IF e \in E THEN ref_count[e] - 1 ELSE ref_count[e]]
        /\ readers' = rd
        /\ writers' = wr
        /\ IF rd = 0 /\ wr = 0      \* pipe_destroy()
           THEN /\ buffer' = [i \in DOMAIN buffer |-> CHOOSE b \in Byte : TRUE]
                /\ read_pos' = 0 /\ write_pos' = 0
           ELSE UNCHANGED <<buffer, read_pos, write_pos>>

Close(p, e) ==
    /\ InKernel(p, "user")
    /\ e \in holds[p]
    /\ PipeClose(p, {e})
    /\ pc' = [pc EXCEPT ![p] = "leave"]
    /\ UNCHANGED <<state, nbytes, done, sig, cur, delivered>>

(* proc_exit() closes every open file and never comes back *)
ProcExit(p) ==
    /\ PipeClose(p, holds[p])
    /\ state' = [state EXCEPT ![p] = "ZOMBIE"]
    /\ pc' = [pc EXCEPT ![p] = "exited"]
    /\ cur' = NoProc
    /\ UNCHANGED <<nbytes, done, sig, delivered>>

Exit(p) == InKernel(p, "user") /\ ProcExit(p)

-----------------------------------------------------------------------------
(* The end of sysent(): a pending signal is posted before user mode resumes *)

Resume(p) ==
    /\ pc' = [pc EXCEPT ![p] = "user"]
    /\ UNCHANGED <<pipe, files, nbytes, done, cur, delivered>>

Leave(p) ==
    /\ InKernel(p, "leave") /\ ~sig[p]
    /\ Resume(p)
    /\ UNCHANGED <<state, sig>>

(* A handler is installed: the signal is taken and the process made runnable *)
PostHandler(p) ==
    /\ InKernel(p, "leave") /\ sig[p]
    /\ sig' = [sig EXCEPT ![p] = FALSE]
    /\ state' = [state EXCEPT ![p] = "RUNNING"]
    /\ Resume(p)

(* SIG_IGN: nothing happens, and the signal stays pending *)
PostIgnore(p) ==
    /\ InKernel(p, "leave") /\ sig[p]
    /\ Resume(p)
    /\ UNCHANGED <<state, sig>>

(* SIG_DFL: the process exits *)
PostDefault(p) == InKernel(p, "leave") /\ sig[p] /\ ProcExit(p)

-----------------------------------------------------------------------------
Kernel(p) ==
    \/ ReadByte(p) \/ ReadBlock(p) \/ ReadReturn(p)
    \/ (\E b \in Byte : WriteByte(p, b)) \/ WriteBlock(p) \/ WriteReturn(p)
    \/ Leave(p) \/ PostHandler(p) \/ PostIgnore(p) \/ PostDefault(p)

User(p) ==
    \/ \E n \in 0 .. MaxBytes : Enter(p, "read", n) \/ Enter(p, "write", n)
    \/ \E e \in Ends : Close(p, e)
    \/ Exit(p)

Next ==
    \E p \in Procs : Kernel(p) \/ User(p) \/ Dispatch(p) \/ Preempt(p) \/ Signal(p)

Spec == Init /\ [][Next]_vars

(* The kernel never stops in the middle of a call; a tick that comes while  *)
(* interrupts are off is taken as soon as user mode resumes; and sched()    *)
(* walks the whole process table in turn.                                   *)
Fairness ==
    \A p \in Procs :
        /\ WF_vars(Kernel(p))
        /\ SF_vars(Preempt(p))
        /\ SF_vars(Dispatch(p))

FairSpec == Spec /\ Fairness

-----------------------------------------------------------------------------
(* Properties *)

(* Every variable of the model has its type. *)
TypeOK ==
    /\ buffer \in [0 .. PIPE_BUF - 1 -> Byte]
    /\ read_pos \in 0 .. SizeMod - 1
    /\ write_pos \in 0 .. SizeMod - 1
    /\ readers \in Int
    /\ writers \in Int
    /\ ref_count \in [Ends -> Int]
    /\ holds \in [Procs -> SUBSET Ends]
    /\ state \in [Procs -> {"RUNNING", "SLEEP", "ZOMBIE"}]
    /\ pc \in [Procs -> {"user", "read", "write", "leave", "exited"}]
    /\ nbytes \in [Procs -> 0 .. MaxBytes]
    /\ done \in [Procs -> 0 .. MaxBytes]
    /\ sig \in [Procs -> BOOLEAN]
    /\ cur \in Procs \cup {NoProc}
    /\ delivered \in Byte \cup {NoByte}

(* pipe_write() stops at sizeof(p->buffer) bytes: the positions, which wrap *)
(* around at 2^32, never run further apart, so no unread byte is lost.      *)
NeverOverfull == Avail <= PIPE_BUF

(* No process is inside a system call on the pipe *)
Quiescent == cur \in Procs => pc[cur] \in {"user", "leave"}

(* A process sleeps in pipe_read() only while the pipe is empty and in      *)
(* pipe_write() only while it is full: whoever changes that calls wakeup()  *)
(* before it sleeps or returns.                                             *)
NoLostWakeup ==
    Quiescent =>
        \A p \in Procs : state[p] = "SLEEP" /\ p # cur =>
            /\ pc[p] = "read" => Empty
            /\ pc[p] = "write" => Full

(* pipe_close() counts the write end out with its last descriptor, neither  *)
(* before nor after: writers is what pipe_read() decides end of file by.    *)
WritersCounted == (writers = 0) <=> (\A p \in Procs : "wr" \notin holds[p])

(* pipe_read() returns 0 for a read of one byte or more only at the end of  *)
(* file: the pipe is empty and no process can write to it any more.         *)
ZeroMeansEof ==
    [][\A p \in Procs :
         pc[p] = "read" /\ pc'[p] = "leave" /\ done[p] = 0 /\ nbytes[p] > 0
             => Empty /\ \A q \in Procs : "wr" \notin holds[q]]_vars

(* The unread bytes, oldest first *)
Contents == [i \in 1 .. Avail |-> buffer[((read_pos + i - 1) % SizeMod) % PIPE_BUF]]

Channel == INSTANCE PipeChannel WITH chan <- Contents, Capacity <- PIPE_BUF

(* pipe_read() and pipe_write() implement a FIFO channel of PIPE_BUF bytes, *)
(* across the wrap-around of the ring and of the positions.                 *)
IsChannel == Channel!Spec

CanGoOn(p) == (pc[p] = "read" /\ ~Empty) \/ (pc[p] = "write" /\ ~Full)

(* A call that can go on does: a reader with bytes to read and a writer     *)
(* with room to write do not stay in pipe_read() and pipe_write() forever.  *)
CallsProceed == \A p \in Procs : CanGoOn(p) ~> ~CanGoOn(p)

(* read.2: "A return value of 0 indicates end-of-file": once the last write *)
(* end is closed, a reader that waits is told so.                           *)
ReaderSeesEof ==
    \A p \in Procs : (pc[p] = "read" /\ writers = 0) ~> (pc[p] # "read")
=============================================================================
