----------------------------- MODULE BufferCache -----------------------------
(***************************************************************************)
(* The block buffer cache, sys/kern/bio.c, over the disk driver,           *)
(* sys/i386/wd.c, which keeps one buffer to read into and one being        *)
(* written (rdbuf, wrbuf).                                                 *)
(*                                                                         *)
(* The kernel is not preempted, so an action is what a process does from   *)
(* one sleep to the next.  A process holds the buffers that bread() gave   *)
(* it until brelse().  As in bmap() and itrunc(), a process that holds a   *)
(* buffer reads no other block but one of the bitmaps, and nothing after   *)
(* that.                                                                   *)
(***************************************************************************)
EXTENDS Integers, Sequences, SequencesExt

CONSTANTS
    Procs,
    NBUF,       \* number of buffers
    Blocks,     \* the blocks that are read
    Maps,       \* those that hold a bitmap
    NoDrive,    \* those of a device that has no drive or partition
    Null,       \* a null pointer
    Signalled   \* bound: the processes that signals are sent to

ASSUME CacheAssumption ==
    /\ NBUF \in Nat \ {0}
    /\ Maps \subseteq Blocks /\ NoDrive \subseteq Blocks
    /\ Null \notin Blocks /\ Null \notin Int
    /\ Signalled \subseteq Procs

Bufs == 0 .. NBUF - 1
Disk == NBUF    \* the channel wd_intr

VARIABLES
    block_no, flags, ref_count,     \* struct buf
    freelist,       \* bfreelist, from next to prev
    rdbuf, wrbuf,   \* struct wd
    cmd,            \* the command that the drive has not answered yet
    pc,             \* where each process is
    wchan,          \* what it sleeps on
    want,           \* argument of the bread() under way
    reads,          \* the buffer that its wd_read() is for
    holds           \* the buffers that bread() returned to it

bufs  == <<block_no, flags, ref_count, freelist>>
drive == <<rdbuf, wrbuf, cmd>>
procs == <<pc, wchan, want, reads, holds>>
vars  == <<bufs, drive, procs>>

-----------------------------------------------------------------------------
(* wakeup(c) *)
Woken(c) == [q \in Procs |-> IF wchan[q] = c THEN Null ELSE wchan[q]]

(* sched() runs a process that is not asleep, or has a signal pending *)
Scheduled(p) == wchan[p] = Null \/ p \in Signalled

Cached(b) == {f \in Bufs : block_no[f] = b}

(* iodone(f) *)
IodoneFlags(F) == (F \cup {"B_DONE"}) \ {"B_WANTED"}
IodoneWoken(f) == IF "B_WANTED" \in flags[f] THEN Woken(f) ELSE wchan

Init ==
    /\ block_no = [f \in Bufs |-> Null]
    /\ flags = [f \in Bufs |-> {}]
    /\ ref_count = [f \in Bufs |-> 0]
    /\ freelist = [i \in 1 .. NBUF |-> i - 1]
    /\ rdbuf = Null /\ wrbuf = Null /\ cmd = "none"
    /\ pc = [p \in Procs |-> "run"]
    /\ wchan = [p \in Procs |-> Null]
    /\ want = [p \in Procs |-> Null]
    /\ reads = [p \in Procs |-> Null]
    /\ holds = [p \in Procs |-> {}]

-----------------------------------------------------------------------------
(* bread(): getblk(), then wd_read() unless the buffer is B_DONE *)

MayRead(p, b) ==
    \/ pc[p] = "run" /\ holds[p] = {}
    \/ /\ pc[p] = "run" /\ b \in Maps
       /\ \E f \in Bufs : holds[p] = {f} /\ block_no[f] \notin Maps
    \/ pc[p] = "getblk" /\ want[p] = b /\ Scheduled(p)

(* The block is in a buffer that is busy: sleep until that changes *)
GetblkSleep(p, b) ==
    /\ MayRead(p, b)
    /\ \E f \in Cached(b) :
        /\ "B_BUSY" \in flags[f]
        /\ flags' = [flags EXCEPT ![f] = @ \cup {"B_WANTED"}]
        /\ wchan' = [wchan EXCEPT ![p] = f]
    /\ pc' = [pc EXCEPT ![p] = "getblk"]
    /\ want' = [want EXCEPT ![p] = b]
    /\ UNCHANGED <<block_no, ref_count, freelist, drive, reads, holds>>

(* bread() returns the buffer f *)
BreadReturn(p, f) ==
    /\ pc' = [pc EXCEPT ![p] = "run"]
    /\ wchan' = [wchan EXCEPT ![p] = Null]
    /\ want' = [want EXCEPT ![p] = Null]
    /\ reads' = [reads EXCEPT ![p] = Null]
    /\ holds' = [holds EXCEPT ![p] = @ \cup {f}]

(* wd_read() of f, a buffer with the flags F: the drive is given the        *)
(* command, or there is no drive                                            *)
WdRead(p, b, f, F) ==
    IF b \in NoDrive
    THEN /\ flags' = [flags EXCEPT ![f] = IodoneFlags(F)]
         /\ BreadReturn(p, f)
         /\ UNCHANGED <<rdbuf, cmd>>
    ELSE /\ flags' = [flags EXCEPT ![f] = F]
         /\ rdbuf' = f
         /\ cmd' = "read"
         /\ pc' = [pc EXCEPT ![p] = "read"]
         /\ wchan' = [wchan EXCEPT ![p] = Disk]
         /\ want' = [want EXCEPT ![p] = b]
         /\ reads' = [reads EXCEPT ![p] = f]
         /\ UNCHANGED holds

(* Mutant: a buffer that is busy is taken all the same *)
HitBusy(b, f) == block_no[f] = b
Hit(b, f) == block_no[f] = b /\ "B_BUSY" \notin flags[f]

(* The free list with f unlinked from it *)
Unlisted(f) ==
    LET i == CHOOSE j \in DOMAIN freelist : freelist[j] = f
    IN  [j \in 1 .. Len(freelist) - 1 |-> IF j < i THEN freelist[j] ELSE freelist[j + 1]]

GetblkHit(p, b, f) ==
    /\ MayRead(p, b)
    /\ Hit(b, f)
    /\ freelist' = IF ref_count[f] = 0 THEN Unlisted(f) ELSE freelist
    /\ ref_count' = [ref_count EXCEPT ![f] = @ + 1]
    /\ IF "B_DONE" \in flags[f]
       THEN BreadReturn(p, f) /\ UNCHANGED <<flags, rdbuf, cmd>>
       ELSE WdRead(p, b, f, flags[f])
    /\ UNCHANGED <<block_no, wrbuf>>

(* Mutant: a buffer for each reader *)
MissAlways(b) == Cached(b) = {} \/ \A f \in Cached(b) : "B_BUSY" \in flags[f]
Miss(b) == Cached(b) = {}

(* The first buffer of the free list is used (it is written first if it is  *)
(* dirty).  getblk() panics when there is none.                             *)
GetblkMiss(p, b) ==
    /\ MayRead(p, b)
    /\ Miss(b)
    /\ freelist # <<>>
    /\ LET f == Head(freelist) IN
        /\ wrbuf' = IF "B_DIRTY" \in flags[f] THEN f ELSE wrbuf
        /\ block_no' = [block_no EXCEPT ![f] = b]
        /\ ref_count' = [ref_count EXCEPT ![f] = 1]
        /\ freelist' = Tail(freelist)
        /\ WdRead(p, b, f, {"B_BUSY"})

(* The loop of wd_read(), until rdbuf is NULL *)
ReadSleep(p) ==
    /\ pc[p] = "read" /\ Scheduled(p)
    /\ rdbuf # Null
    /\ wchan' = [wchan EXCEPT ![p] = Disk]
    /\ UNCHANGED <<bufs, drive, pc, want, reads, holds>>

ReadReturn(p) ==
    /\ pc[p] = "read" /\ Scheduled(p)
    /\ rdbuf = Null
    /\ BreadReturn(p, reads[p])
    /\ UNCHANGED <<bufs, drive>>

-----------------------------------------------------------------------------
(* What a process does with a buffer it holds *)

(* wd_write() does not sleep, whatever the drive was at work on *)
Bwrite(p, f) ==
    /\ pc[p] = "run" /\ f \in holds[p]
    /\ IF block_no[f] \in NoDrive
       THEN /\ flags' = [flags EXCEPT ![f] = IodoneFlags(@ \ {"B_DIRTY"})]
            /\ wchan' = IodoneWoken(f)
            /\ UNCHANGED <<wrbuf, cmd>>
       ELSE /\ flags' = [flags EXCEPT ![f] = @ \ {"B_DIRTY", "B_DONE"}]
            /\ wrbuf' = f
            /\ cmd' = "write"
            /\ UNCHANGED wchan
    /\ UNCHANGED <<block_no, ref_count, freelist, rdbuf, pc, want, reads, holds>>

(* ialloc() marks a bitmap, to have brelse() write it *)
MarkDirty(p, f) ==
    /\ pc[p] = "run" /\ f \in holds[p] /\ block_no[f] \in Maps \ NoDrive
    /\ flags' = [flags EXCEPT ![f] = @ \cup {"B_DIRTY"}]
    /\ UNCHANGED <<block_no, ref_count, freelist, drive, procs>>

LastRelse(f) == ref_count[f] = 1

BrelseWoken(f) == IF "B_WANTED" \in flags[f] THEN Woken(f) ELSE wchan

(* Mutant: a dirty buffer is not written when it is released *)
WritesBackNever(f) == FALSE
WritesBack(f) == LastRelse(f) /\ "B_DIRTY" \in flags[f]

Brelse(p, f) ==
    /\ pc[p] = "run" /\ f \in holds[p]
    /\ wchan' = BrelseWoken(f)
    /\ flags' = [flags EXCEPT ![f] =
                    (@ \ {"B_WANTED", "B_BUSY"})
                        \ (IF WritesBack(f) THEN {"B_DIRTY", "B_DONE"} ELSE {})]
    /\ wrbuf' = IF WritesBack(f) THEN f ELSE wrbuf
    /\ cmd' = IF WritesBack(f) THEN "write" ELSE cmd
    /\ ref_count' = [ref_count EXCEPT ![f] = @ - 1]
    /\ freelist' = IF LastRelse(f) THEN Append(freelist, f) ELSE freelist
    /\ holds' = [holds EXCEPT ![p] = @ \ {f}]
    /\ UNCHANGED <<block_no, rdbuf, pc, want, reads>>

-----------------------------------------------------------------------------
(* wd_intr(), with iodone().  An interrupt that was raised for a write may  *)
(* be taken after the next command was given.                               *)

ReadIntr ==
    /\ cmd = "read" /\ rdbuf # Null
    /\ flags' = [flags EXCEPT ![rdbuf] = IodoneFlags(@)]
    /\ wchan' = [q \in Procs |-> IF wchan[q] = Disk THEN Null ELSE IodoneWoken(rdbuf)[q]]
    /\ rdbuf' = Null
    /\ cmd' = "none"
    /\ UNCHANGED <<block_no, ref_count, freelist, wrbuf, pc, want, reads, holds>>

WriteIntr ==
    /\ cmd # "none" /\ wrbuf # Null
    /\ flags' = [flags EXCEPT ![wrbuf] = IodoneFlags(@)]
    /\ wchan' = IodoneWoken(wrbuf)
    /\ wrbuf' = Null
    /\ cmd' = IF cmd = "write" THEN "none" ELSE cmd
    /\ UNCHANGED <<block_no, ref_count, freelist, rdbuf, pc, want, reads, holds>>

-----------------------------------------------------------------------------
Next ==
    \/ \E p \in Procs, b \in Blocks :
        GetblkSleep(p, b) \/ GetblkMiss(p, b) \/ \E f \in Bufs : GetblkHit(p, b, f)
    \/ \E p \in Procs : ReadSleep(p) \/ ReadReturn(p)
    \/ \E p \in Procs, f \in Bufs : Bwrite(p, f) \/ MarkDirty(p, f) \/ Brelse(p, f)
    \/ ReadIntr \/ WriteIntr

Spec == Init /\ [][Next]_vars

-----------------------------------------------------------------------------
(* Properties *)

(* Every variable of the model has its type. *)
TypeOK ==
    /\ block_no \in [Bufs -> Blocks \cup {Null}]
    /\ flags \in [Bufs -> SUBSET {"B_BUSY", "B_WANTED", "B_DONE", "B_DIRTY"}]
    /\ ref_count \in [Bufs -> Nat]
    /\ freelist \in Seq(Bufs)
    /\ rdbuf \in Bufs \cup {Null} /\ wrbuf \in Bufs \cup {Null}
    /\ cmd \in {"none", "read", "write"}
    /\ pc \in [Procs -> {"run", "getblk", "read"}]
    /\ wchan \in [Procs -> Bufs \cup {Disk, Null}]
    /\ want \in [Procs -> Blocks \cup {Null}]
    /\ reads \in [Procs -> Bufs \cup {Null}]
    /\ holds \in [Procs -> SUBSET Bufs]

(* getblk() never puts a block into two buffers, though processes look for  *)
(* it, sleep and look again at the same time: all see each other's writes.  *)
OneBufferPerBlock ==
    \A f, g \in Bufs : block_no[f] = block_no[g] /\ block_no[f] # Null => f = g

(* The free list holds each buffer that nobody has a reference to once, and *)
(* no other: a buffer is never given another block while someone uses it,   *)
(* and none is lost.                                                        *)
FreeIffUnreferenced ==
    /\ IsInjective(freelist)
    /\ \A f \in Bufs : Contains(freelist, f) <=> ref_count[f] = 0

(* A buffer that is being filled belongs to one process; the others wait.   *)
BusyIsExclusive == \A f \in Bufs : "B_BUSY" \in flags[f] => ref_count[f] = 1

(* Whoever sleeps in getblk() will be woken up by the brelse() or iodone()  *)
(* to come: the buffer is still busy and marked as wanted.                  *)
SleepersWanted ==
    \A p \in Procs : pc[p] = "getblk" /\ wchan[p] # Null =>
        {"B_BUSY", "B_WANTED"} \subseteq flags[wchan[p]]

(* The table of buffers and its free list agree: a block is in one buffer,  *)
(* and a buffer is free or in use.                                          *)
CacheConsistent == TypeOK /\ OneBufferPerBlock /\ FreeIffUnreferenced

(* Getting a buffer that is busy excludes and never forgets anyone.         *)
BuffersLocked == BusyIsExclusive /\ SleepersWanted

(* What is dirty is written before it can be reused: brelse() leaves no     *)
(* dirty buffer without a holder.                                           *)
DirtyIsHeld == \A f \in Bufs : "B_DIRTY" \in flags[f] => ref_count[f] > 0

(* wd.c: "Sleep until I/O is done": wd_read() returns a buffer that was     *)
(* filled.                                                                  *)
ReadIsDone ==
    [][\A p \in Procs : pc[p] = "read" /\ pc'[p] = "run" => "B_DONE" \in flags[reads[p]]]_vars
=============================================================================
