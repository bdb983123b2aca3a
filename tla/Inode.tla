-------------------------------- MODULE Inode --------------------------------
(***************************************************************************)
(* The inode cache of sys/kern/inode.c, the bitmaps of inodes and blocks,  *)
(* and the system calls of file.c that go through them: open, creat,       *)
(* unlink, read, write and close, on the files of one directory.           *)
(*                                                                         *)
(* A process gives up the CPU in bread(), or asleep on a locked inode; the *)
(* rest of a call is a sequence of steps with busy set, which no other     *)
(* process comes between.  panic() ends everything.                        *)
(***************************************************************************)
EXTENDS Integers, FiniteSetsExt

CONSTANTS
    Procs, NoProc,
    NUM_INODES,     \* entries in inodes[]
    Inos,           \* the numbers of the inodes on disk
    Blocks,         \* the numbers of the data blocks
    Names, NoName,  \* names of files
    MAX_FAILED      \* bound: how many open() or creat() may fail

ROOT_INODE == 1
RootSlot == 0       \* where mount() put it

ASSUME InodeAssumption ==
    /\ NUM_INODES \in Nat /\ NUM_INODES > 1
    /\ Inos \subseteq Nat \ {0} /\ ROOT_INODE \in Inos
    /\ Blocks \subseteq Nat \ {0}
    /\ IsFiniteSet(Procs) /\ NoProc \notin Procs /\ NoName \notin Names
    /\ MAX_FAILED \in Nat

Slots == 0 .. NUM_INODES - 1
NoSlot == NUM_INODES

VARIABLES
    inode,      \* inodes[]: number, references, flags, and the fields kept on disk
    dinode,     \* the inodes on disk: links and block
    imap, zmap, \* the bitmaps: inodes and blocks in use
    dir,        \* the entries of the directory
    pc, call,   \* where each process is, and the local variables of its call
    ofile,      \* the inode of the file each process has open
    wchan,      \* the inode it sleeps on
    busy,       \* the process that has the CPU in the kernel
    overput,    \* history: how often a failed open() put the directory again
    raced,      \* history: iget() gave out an inode that iput() was freeing, or had freed
    panic

disk == <<dinode, imap, zmap, dir>>
vars == <<inode, disk, pc, call, ofile, wchan, busy, overput, raced, panic>>

-----------------------------------------------------------------------------
(* The calls of sys_open(), and file_creat() in the second one *)
Opens == {"open", "creat", "file_creat"}

(* Local variables: the call, the name it is about, the number of an inode, *)
(* the slot it is in, where iget() or iput() go back to, a block, and       *)
(* whether iput() is freeing the inode                                      *)
NoCall == [op |-> "none", name |-> NoName, n |-> 0, s |-> NoSlot, ret |-> "user", b |-> 0,
           free |-> FALSE]

Is(s, flag) == flag \in inode[s].flags
(* Mutant: an entry that nobody refers to is not found again *)
CachedReferenced(n) == {s \in Slots : inode[s].ino = n /\ inode[s].ref > 0}
Cached(n) == {s \in Slots : inode[s].ino = n}

Unused == {s \in Slots : inode[s].ref = 0 /\ ~Is(s, "I_DIRTY")}

Init ==
    /\ inode = [s \in Slots |->
                  IF s = RootSlot     \* root_inode and the working directories
                  THEN [ino |-> ROOT_INODE, ref |-> 1 + Cardinality(Procs), flags |-> {},
                        links |-> 2, blk |-> 0]
                  ELSE [ino |-> 0, ref |-> 0, flags |-> {}, links |-> 0, blk |-> 0]]
    /\ dinode = [n \in Inos |-> [links |-> IF n = ROOT_INODE THEN 2 ELSE 0, blk |-> 0]]
    /\ imap = {ROOT_INODE} /\ zmap = {} /\ dir = {}
    /\ pc = [p \in Procs |-> "user"]
    /\ call = [p \in Procs |-> NoCall]
    /\ ofile = [p \in Procs |-> NoSlot]
    /\ wchan = [p \in Procs |-> NoSlot]
    /\ busy = NoProc
    /\ overput = 0 /\ raced = FALSE
    /\ panic = FALSE

-----------------------------------------------------------------------------
(* panic(), as the process p would call it at its next step *)

Panics(p) ==
    LET c == call[p] IN
    \/ /\ pc[p] \in {"lockdir", "unlink", "newinode"} /\ Is(RootSlot, "I_LOCK")   \* ilock
    \/ pc[p] \in {"rd", "wr"} /\ Is(ofile[p], "I_LOCK")                           \* ilock
    \/ pc[p] = "iget" /\ Cached(c.n) = {} /\ Unused = {}                          \* inode cache full!
    \/ pc[p] = "ialloc" /\ Inos \subseteq imap                                    \* No free inode
    \/ pc[p] = "unlinked" /\ inode[c.s].links = 0                                 \* nlinks==0
    \/ pc[p] = "iput" /\ (inode[c.s].ref = 0 \/ Is(c.s, "I_LOCK"))                \* iput
    \/ pc[p] = "found" /\ Is(RootSlot, "I_LOCK")                                  \* iput
    \/ pc[p] = "bfree" /\ c.b \notin zmap                                         \* bfree
    \/ pc[p] = "ifree" /\ c.n \notin imap                                         \* ifree
    \/ pc[p] \in {"load", "wdir", "upd_trunc", "upd_unlink"} /\ ~Is(c.s, "I_LOCK") \* iunlock
    \/ pc[p] = "io" /\ ~Is(ofile[p], "I_LOCK")                                    \* iunlock

(* iput() of the parent directory panics, if the process has no access *)
MayPanic(p) == Panics(p) \/ (pc[p] = "parent" /\ Is(RootSlot, "I_LOCK"))

Runs(p) == ~panic /\ busy \in {NoProc, p} /\ wchan[p] = NoSlot
At(p, where) == Runs(p) /\ pc[p] = where /\ ~Panics(p)

Panic(p) ==
    /\ Runs(p) /\ MayPanic(p)
    /\ panic' = TRUE
    /\ UNCHANGED <<inode, disk, pc, call, ofile, wchan, busy, overput>>

(* How a step ends: the process goes on, or is in bread(), or has returned  *)
Go(p, where) == pc' = [pc EXCEPT ![p] = where] /\ busy' = p /\ UNCHANGED <<overput, panic>>
Bread(p, where) == pc' = [pc EXCEPT ![p] = where] /\ busy' = NoProc /\ UNCHANGED <<overput, panic>>
Return(p) ==
    /\ Bread(p, "user")
    /\ call' = [call EXCEPT ![p] = NoCall]

(* namei() has put the directory, but left it in file->inode, and           *)
(* file_close() puts it again                                               *)
Overput(p) ==
    /\ call' = [call EXCEPT ![p].s = RootSlot, ![p].ret = "user"]
    /\ pc' = [pc EXCEPT ![p] = "iput"] /\ busy' = p
    /\ overput' = overput + 1
    /\ UNCHANGED panic

(* How sys_open() fails, and the other calls *)
Fail(p) == IF call[p].op \in Opens THEN Overput(p) ELSE Return(p)

-----------------------------------------------------------------------------
(* Locks, references and links *)

Reserved == {"I_LOCK"}

Lock(r) == [r EXCEPT !.flags = @ \cup {"I_LOCK"}]
Unlock(r) == [r EXCEPT !.flags = @ \ {"I_LOCK", "I_WANTED"}]
Dirty(r) == [r EXCEPT !.flags = @ \cup {"I_DIRTY"}]
Put(r) == [r EXCEPT !.ref = @ - 1]
Link(r) == [r EXCEPT !.links = @ + 1]
Unlink(r) == [r EXCEPT !.links = @ - 1]

(* Mutant: iunlock() wakes nobody up *)
WokenNone(s) == wchan
Woken(s) == IF Is(s, "I_WANTED") THEN [q \in Procs |-> IF wchan[q] = s THEN NoSlot ELSE wchan[q]]
            ELSE wchan

-----------------------------------------------------------------------------
(* iget(c.n), to go on at c.ret with the inode in c.s.  Of the entries of   *)
(* an inode it takes the first; it may have slept, and the inode been freed *)
(* since its number was found.                                              *)

AtIget(p) == At(p, "iget")

IgetSleep(p) ==
    /\ AtIget(p)
    /\ \E s \in Cached(call[p].n) :
        /\ s = Min(Cached(call[p].n)) /\ Is(s, "I_LOCK")
        /\ inode' = [inode EXCEPT ![s].flags = @ \cup {"I_WANTED"}]
        /\ wchan' = [wchan EXCEPT ![p] = s]
    /\ busy' = NoProc
    /\ UNCHANGED <<disk, pc, call, ofile, overput, panic>>

IgetHit(p) ==
    /\ AtIget(p)
    /\ \E s \in Cached(call[p].n) :
        /\ s = Min(Cached(call[p].n)) /\ ~Is(s, "I_LOCK")
        /\ inode' = [inode EXCEPT ![s].ref = @ + 1]
        /\ call' = [call EXCEPT ![p].s = s]
    /\ Go(p, call[p].ret)
    /\ UNCHANGED <<disk, ofile, wchan>>

(* The first unused entry is reserved and locked, and the inode read into   *)
(* it.  An entry that iput() is freeing has no reference, and is taken, too. *)
IgetMiss(p) ==
    /\ AtIget(p)
    /\ Cached(call[p].n) = {}
    /\ LET s == Min(Unused) IN
        /\ inode' = [inode EXCEPT ![s].ino = call[p].n, ![s].ref = 1, ![s].flags = Reserved]
        /\ call' = [call EXCEPT ![p].s = s]
    /\ Bread(p, "load")
    /\ UNCHANGED <<disk, ofile, wchan>>

(* The iget() of p has found, or read, an inode that is free by now, or has *)
(* taken an entry that iput() is at work on                                 *)
GivesFreed(p) ==
    /\ pc[p] = "iget" /\ pc'[p] # "iget"
    /\ \/ call[p].n \notin imap
       \/ \E q \in Procs : call[q].free /\ call[q].s = call'[p].s

Load(p) ==
    /\ At(p, "load")
    /\ LET s == call[p].s
           d == dinode[call[p].n]
       IN  /\ inode' = [inode EXCEPT ![s] = Unlock([@ EXCEPT !.links = d.links, !.blk = d.blk])]
           /\ wchan' = Woken(s)
    /\ Go(p, call[p].ret)
    /\ UNCHANGED <<disk, call, ofile>>

-----------------------------------------------------------------------------
(* iput(c.s), to go on at c.ret; itrunc(c.s), for iput() and for O_TRUNC;   *)
(* iupdate(c.s), at the pcs "upd_..."                                       *)

(* Mutant: the last iput() frees the inode whatever its links *)
FreesLinked(s) == inode[s].ref = 1
Frees(s) == inode[s].ref = 1 /\ inode[s].links = 0

Iput(p) ==
    /\ At(p, "iput")
    /\ LET s == call[p].s IN
        IF Frees(s)
        THEN /\ inode' = [inode EXCEPT ![s] = Lock(Put(@))]
             /\ call' = [call EXCEPT ![p].free = TRUE]
             /\ Go(p, "trunc")
        ELSE /\ inode' = [inode EXCEPT ![s] = Put(@)]
             /\ IF call[p].ret = "user" THEN Return(p) ELSE Go(p, call[p].ret) /\ UNCHANGED call
    /\ UNCHANGED <<disk, ofile, wchan>>

TruncBlock(p) ==
    /\ At(p, "trunc")
    /\ inode[call[p].s].blk # 0
    /\ call' = [call EXCEPT ![p].b = inode[call[p].s].blk]
    /\ Bread(p, "bfree")
    /\ UNCHANGED <<inode, disk, ofile, wchan>>

(* Mutant: the block stays in the inode *)
FreedKept(r) == r
Freed(r) == [r EXCEPT !.blk = 0]

Bfree(p) ==
    /\ At(p, "bfree")
    /\ zmap' = zmap \ {call[p].b}
    /\ inode' = [inode EXCEPT ![call[p].s] = Freed(@)]
    /\ Go(p, "trunc")
    /\ call' = [call EXCEPT ![p].b = 0]
    /\ UNCHANGED <<dinode, imap, dir, ofile, wchan>>

(* The number is read before bread(), as the place of the inode on disk *)
TruncUpdate(p) ==
    /\ At(p, "trunc")
    /\ inode[call[p].s].blk = 0
    /\ inode' = [inode EXCEPT ![call[p].s] = Dirty(@)]
    /\ call' = [call EXCEPT ![p].n = inode[call[p].s].ino]
    /\ Bread(p, "upd_trunc")
    /\ UNCHANGED <<disk, ofile, wchan>>

Written(s) == [links |-> inode[s].links, blk |-> inode[s].blk]
Clean(r) == [r EXCEPT !.flags = @ \ {"I_DIRTY"}]

(* iupdate() is done, and then iunlock().  iput() goes on to ifree(), and   *)
(* open() returns.                                                          *)
TruncReturn(p) ==
    /\ At(p, "upd_trunc")
    /\ LET s == call[p].s IN
        /\ dinode' = [dinode EXCEPT ![call[p].n] = Written(s)]
        /\ inode' = [inode EXCEPT ![s] = Unlock(Clean(@))]
        /\ wchan' = Woken(s)
        /\ IF call[p].free
           THEN /\ call' = [call EXCEPT ![p].n = inode[s].ino]
                /\ Bread(p, "ifree")
                /\ UNCHANGED ofile
           ELSE /\ ofile' = [ofile EXCEPT ![p] = s]
                /\ Return(p)
    /\ UNCHANGED <<imap, zmap, dir>>

Ifree(p) ==
    /\ At(p, "ifree")
    /\ imap' = imap \ {call[p].n}
    /\ inode' = [inode EXCEPT ![call[p].s] = Dirty(@)]
    /\ call' = [call EXCEPT ![p].n = inode[call[p].s].ino]
    /\ Bread(p, "upd_free")
    /\ UNCHANGED <<dinode, zmap, dir, ofile, wchan>>

FreeReturn(p) ==
    /\ At(p, "upd_free")
    /\ dinode' = [dinode EXCEPT ![call[p].n] = Written(call[p].s)]
    /\ inode' = [inode EXCEPT ![call[p].s] = Clean(@)]
    /\ IF call[p].ret = "user" THEN Return(p)
       ELSE Go(p, call[p].ret) /\ call' = [call EXCEPT ![p].free = FALSE]
    /\ UNCHANGED <<imap, zmap, dir, ofile, wchan>>

-----------------------------------------------------------------------------
(* namei() and parenti() of a name in the directory.  The path is relative  *)
(* (idup() of the working directory) or absolute (iget() of the root).      *)

Nameicore(p, c) ==
    /\ call' = [call EXCEPT ![p] = [c EXCEPT !.n = ROOT_INODE, !.s = RootSlot, !.ret = "lockdir"]]
    /\ \/ inode' = [inode EXCEPT ![RootSlot].ref = @ + 1] /\ Go(p, "lockdir")
       \/ UNCHANGED inode /\ Go(p, "iget")
    /\ UNCHANGED <<disk, ofile, wchan>>

Begin(p, op, name) ==
    /\ At(p, "user")
    /\ op \in Opens =>
         /\ ofile[p] = NoSlot      \* bound: one open file each
         /\ overput + Cardinality({q \in Procs : call[q].op \in Opens}) < MAX_FAILED
    /\ Nameicore(p, [NoCall EXCEPT !.op = op, !.name = name])

(* file_creat() looks the name up once more *)
FileCreat(p) ==
    /\ At(p, "file_creat")
    /\ Nameicore(p, [call[p] EXCEPT !.op = "file_creat"])

WantsParent(p) == call[p].op \in {"unlink", "file_creat"}

LockDir(p) ==
    /\ At(p, "lockdir")
    /\ inode' = [inode EXCEPT ![RootSlot] = Lock(@)]
    /\ Bread(p, "readdir")
    /\ UNCHANGED <<disk, call, ofile, wchan>>

(* access() fails: -EACCES.  parenti() in creat() is not denied what        *)
(* namei() was granted.                                                     *)
LookupDenied(p) ==
    /\ At(p, "lockdir")
    /\ call[p].op # "file_creat"
    /\ inode' = [inode EXCEPT ![RootSlot] = Put(@)]
    /\ Fail(p)
    /\ UNCHANGED <<disk, ofile, wchan>>

Found(p, n) ==
    /\ At(p, "readdir")
    /\ <<call[p].name, n>> \in dir
    /\ inode' = [inode EXCEPT ![RootSlot] = Unlock(@)]
    /\ wchan' = Woken(RootSlot)
    /\ call' = [call EXCEPT ![p].n = n,
                            ![p].ret = IF WantsParent(p) THEN "putnext" ELSE "found"]
    /\ Go(p, "iget")
    /\ UNCHANGED <<disk, ofile>>

NotFound(p) ==
    /\ At(p, "readdir")
    /\ \A n \in Inos : <<call[p].name, n>> \notin dir
    /\ wchan' = Woken(RootSlot)
    /\ inode' = [inode EXCEPT ![RootSlot] = IF WantsParent(p) THEN Unlock(@) ELSE Put(Unlock(@))]
    /\ IF WantsParent(p) \/ call[p].op = "creat"
       THEN Go(p, IF WantsParent(p) THEN "parent" ELSE "file_creat") /\ UNCHANGED call
       ELSE Fail(p)
    /\ UNCHANGED <<disk, ofile>>

(* parenti() puts the inode it found *)
PutNext(p) ==
    /\ At(p, "putnext")
    /\ call' = [call EXCEPT ![p].ret = "parent"]
    /\ Go(p, "iput")
    /\ UNCHANGED <<inode, disk, ofile, wchan>>

(* namei() puts the directory *)
NameiReturn(p) ==
    /\ At(p, "found")
    /\ inode' = [inode EXCEPT ![RootSlot] = Put(@)]
    /\ Go(p, "access")
    /\ UNCHANGED <<disk, call, ofile, wchan>>

(* sys_open() goes on with access() to the inode: file_close() puts it ...  *)
OpenDenied(p) ==
    /\ At(p, "access")
    /\ call' = [call EXCEPT ![p].ret = "user"]
    /\ Go(p, "iput")
    /\ UNCHANGED <<inode, disk, ofile, wchan>>

(* ... or open() returns, and creat() truncates it first *)
OpenGranted(p) ==
    /\ At(p, "access")
    /\ IF call[p].op = "open"
       THEN ofile' = [ofile EXCEPT ![p] = call[p].s] /\ Return(p) /\ UNCHANGED inode
       ELSE /\ inode' = [inode EXCEPT ![call[p].s] = Lock(@)]
            /\ Go(p, "trunc") /\ UNCHANGED <<ofile, call>>
    /\ UNCHANGED <<disk, wchan>>

-----------------------------------------------------------------------------
(* sys_unlink() and file_creat() have the parent directory *)

(* What file_creat() returns is not looked at: creat() goes on with the     *)
(* directory, to which access() is denied again                             *)
ParentDenied(p) ==
    /\ At(p, "parent") /\ ~Is(RootSlot, "I_LOCK")
    /\ inode' = [inode EXCEPT ![RootSlot] = Put(@)]
    /\ Fail(p)
    /\ UNCHANGED <<disk, ofile, wchan>>

ParentGranted(p) ==
    /\ At(p, "parent")
    /\ IF call[p].op = "unlink" THEN Go(p, "unlink") ELSE Bread(p, "ialloc")
    /\ UNCHANGED <<inode, disk, call, ofile, wchan>>

(* ialloc() *)
Ialloc(p) ==
    /\ At(p, "ialloc")
    /\ LET n == Min(Inos \ imap) IN
        /\ imap' = imap \cup {n}
        /\ call' = [call EXCEPT ![p].n = n, ![p].ret = "newinode"]
    /\ Go(p, "iget")
    /\ UNCHANGED <<inode, dinode, zmap, dir, ofile, wchan>>

(* The inode is cleared and locked, then the directory in wdir(), which     *)
(* looks for a free entry                                                   *)
NewInode(p) ==
    /\ At(p, "newinode")
    /\ inode' = [inode EXCEPT ![call[p].s] = Dirty(Lock([@ EXCEPT !.links = 0, !.blk = 0])),
                              ![RootSlot] = Lock(@)]
    /\ Bread(p, "wdir")
    /\ UNCHANGED <<disk, call, ofile, wchan>>

(* wdir() writes the entry; the directory is unlocked and put *)
Wdir(p) ==
    /\ At(p, "wdir")
    /\ dir' = dir \cup {<<call[p].name, call[p].n>>}
    /\ LET s == call[p].s IN
        /\ inode' = [inode EXCEPT ![s] = Unlock(Dirty(Link(@))),
                                  ![RootSlot] = Put(Unlock(@))]
        /\ wchan' = [q \in Procs |-> IF Woken(s)[q] = NoSlot THEN NoSlot ELSE Woken(RootSlot)[q]]
    /\ Go(p, "access")
    /\ UNCHANGED <<dinode, imap, zmap, call, ofile>>

UnlinkLock(p) ==
    /\ At(p, "unlink")
    /\ inode' = [inode EXCEPT ![RootSlot] = Lock(@)]
    /\ Bread(p, "scan")
    /\ UNCHANGED <<disk, call, ofile, wchan>>

(* The entry is cleared, with the directory locked until nlinks is, too *)
UnlinkEntry(p, n) ==
    /\ At(p, "scan")
    /\ <<call[p].name, n>> \in dir
    /\ dir' = dir \ {<<call[p].name, n>>}
    /\ call' = [call EXCEPT ![p].n = n, ![p].ret = "unlinked"]
    /\ Go(p, "iget")
    /\ UNCHANGED <<inode, dinode, imap, zmap, ofile, wchan>>

UnlinkNoEntry(p) ==
    /\ At(p, "scan")
    /\ \A n \in Inos : <<call[p].name, n>> \notin dir
    /\ inode' = [inode EXCEPT ![RootSlot] = Put(Unlock(@))]
    /\ wchan' = Woken(RootSlot)
    /\ Return(p)
    /\ UNCHANGED <<disk, ofile>>

(* Mutant: the directory is unlocked and not put *)
ParentKept(r) == Unlock(r)
ParentPut(r) == Put(Unlock(r))

Unlinked(p) ==
    /\ At(p, "unlinked")
    /\ inode' = [inode EXCEPT ![call[p].s] = Dirty(Lock(Unlink(@))),
                              ![RootSlot] = ParentPut(@)]
    /\ wchan' = Woken(RootSlot)
    /\ call' = [call EXCEPT ![p].n = inode[call[p].s].ino]
    /\ Bread(p, "upd_unlink")
    /\ UNCHANGED <<disk, ofile>>

UnlinkReturn(p) ==
    /\ At(p, "upd_unlink")
    /\ LET s == call[p].s IN
        /\ dinode' = [dinode EXCEPT ![call[p].n] = Written(s)]
        /\ inode' = [inode EXCEPT ![s] = Unlock(Clean(@))]
        /\ wchan' = Woken(s)
    /\ call' = [call EXCEPT ![p].ret = "user"]
    /\ Go(p, "iput")
    /\ UNCHANGED <<imap, zmap, dir, ofile>>

-----------------------------------------------------------------------------
(* file_read(), file_write() and the last close of the open file *)

BeginFile(p, where) ==
    /\ At(p, "user")
    /\ ofile[p] # NoSlot
    /\ IF where = "iput"
       THEN /\ call' = [call EXCEPT ![p].op = "close", ![p].s = ofile[p]]
            /\ ofile' = [ofile EXCEPT ![p] = NoSlot]
       ELSE UNCHANGED <<call, ofile>>
    /\ Go(p, where)
    /\ UNCHANGED <<inode, disk, wchan>>

LockRead(p) ==
    /\ At(p, "rd")
    /\ inode' = [inode EXCEPT ![ofile[p]] = Lock(@)]
    /\ Bread(p, "io")
    /\ UNCHANGED <<disk, call, ofile, wchan>>

LockWrite(p) ==
    /\ At(p, "wr")
    /\ inode' = [inode EXCEPT ![ofile[p]] = Lock(@)]
    /\ Bread(p, IF inode[ofile[p]].blk = 0 THEN "balloc" ELSE "io")
    /\ UNCHANGED <<disk, call, ofile, wchan>>

(* bmap() takes what balloc() returns, which is 0 when the disk is full *)
NextBlock == IF Blocks \subseteq zmap THEN 0 ELSE Min(Blocks \ zmap)

(* Mutant: the inode is not marked when it gets a block *)
GotBlockClean(r) == [r EXCEPT !.blk = NextBlock]
GotBlock(r) == Dirty([r EXCEPT !.blk = NextBlock])

Balloc(p) ==
    /\ At(p, "balloc")
    /\ zmap' = zmap \cup ({NextBlock} \ {0})
    /\ inode' = [inode EXCEPT ![ofile[p]] = GotBlock(@)]
    /\ Bread(p, "io")
    /\ UNCHANGED <<dinode, imap, dir, call, ofile, wchan>>

IoReturn(p) ==
    /\ At(p, "io")
    /\ inode' = [inode EXCEPT ![ofile[p]] = Unlock(@)]
    /\ wchan' = Woken(ofile[p])
    /\ Return(p)
    /\ UNCHANGED <<disk, ofile>>

-----------------------------------------------------------------------------
Kernel(p) ==
    \/ IgetSleep(p) \/ IgetHit(p) \/ IgetMiss(p) \/ Load(p)
    \/ Iput(p) \/ TruncBlock(p) \/ Bfree(p) \/ TruncUpdate(p) \/ TruncReturn(p)
    \/ Ifree(p) \/ FreeReturn(p)
    \/ FileCreat(p) \/ LockDir(p) \/ LookupDenied(p)
    \/ (\E n \in Inos : Found(p, n) \/ UnlinkEntry(p, n))
    \/ NotFound(p) \/ PutNext(p) \/ NameiReturn(p) \/ OpenDenied(p) \/ OpenGranted(p)
    \/ ParentDenied(p) \/ ParentGranted(p) \/ Ialloc(p) \/ NewInode(p) \/ Wdir(p)
    \/ UnlinkLock(p) \/ UnlinkNoEntry(p) \/ Unlinked(p) \/ UnlinkReturn(p)
    \/ LockRead(p) \/ LockWrite(p) \/ Balloc(p) \/ IoReturn(p)

(* Bound: after the race that raced tells of, the calls under way go on to  *)
(* their ends, and no other begins                                          *)
User(p) ==
    /\ ~raced
    /\ \/ \E op \in {"open", "creat", "unlink"}, x \in Names : Begin(p, op, x)
       \/ \E where \in {"rd", "wr", "iput"} : BeginFile(p, where)

(* Bound: when failed calls of open() have put the last reference to the    *)
(* directory, its entry is one that iget() takes for another inode; that is *)
(* not followed                                                             *)
DirReferenced == inode[RootSlot].ref > 0

Next ==
    /\ DirReferenced
    /\ \E p \in Procs :
        /\ Kernel(p) \/ User(p) \/ Panic(p)
        /\ raced' = (raced \/ GivesFreed(p))

Spec == Init /\ [][Next]_vars

-----------------------------------------------------------------------------
(* Properties *)

(* The places between which a process keeps the CPU, and those where it may *)
(* be in bread() or asleep                                                  *)
BusyPcs == {"lockdir", "found", "putnext", "parent", "newinode", "unlink", "unlinked", "access",
            "iput", "trunc", "file_creat", "rd", "wr"}
SleepPcs == {"user", "iget", "load", "readdir", "ialloc", "wdir", "scan", "upd_unlink",
             "upd_trunc", "bfree", "ifree", "upd_free", "balloc", "io"}

(* Every variable of the model has its type. *)
TypeOK ==
    /\ inode \in [Slots -> [ino : Inos \cup {0}, ref : Nat,
                            flags : SUBSET {"I_LOCK", "I_WANTED", "I_DIRTY"},
                            links : Nat, blk : Blocks \cup {0}]]
    /\ dinode \in [Inos -> [links : Nat, blk : Blocks \cup {0}]]
    /\ imap \subseteq Inos /\ zmap \subseteq Blocks /\ dir \subseteq Names \X Inos
    /\ pc \in [Procs -> BusyPcs \cup SleepPcs]
    /\ ofile \in [Procs -> Slots \cup {NoSlot}]
    /\ wchan \in [Procs -> Slots \cup {NoSlot}]
    /\ busy \in Procs \cup {NoProc} /\ overput \in Nat
    /\ raced \in BOOLEAN /\ panic \in BOOLEAN

(* iget() never puts an inode into two entries, though it sleeps while it   *)
(* reads one: all processes see the same links, size and blocks.            *)
OneSlotPerInode ==
    \A s, t \in Slots : inode[s].ino = inode[t].ino /\ inode[s].ino # 0 => s = t

InIget(p) == pc[p] \in {"iget", "load"}

(* The inodes that the call under way has locked *)
Locks(p) ==
    (IF pc[p] \in {"readdir", "wdir", "scan", "unlinked"} \/ (InIget(p) /\ call[p].ret = "unlinked")
     THEN {RootSlot} ELSE {}) \cup
    (IF pc[p] \in {"load", "wdir", "trunc", "bfree", "upd_trunc", "upd_unlink"}
     THEN {call[p].s} ELSE {}) \cup
    (IF pc[p] \in {"io", "balloc"} THEN {ofile[p]} ELSE {})

(* An inode that is locked was locked by one process, which is still at     *)
(* work on it: iget() reuses no entry under somebody's hands.               *)
LocksOwned ==
    LET locks == [p \in Procs |-> Locks(p)] IN
    /\ \A p, q \in Procs : p # q => locks[p] \cap locks[q] = {}
    /\ {s \in Slots : Is(s, "I_LOCK")} = UNION {locks[p] : p \in Procs}

(* The entries of the inode cache: each inode has one, and each lock an     *)
(* owner, until iget() gives out what iput() is freeing.                    *)
CacheSound == raced \/ (TypeOK /\ OneSlotPerInode /\ LocksOwned)

SleepersMarked ==
    \A p \in Procs : wchan[p] # NoSlot => {"I_LOCK", "I_WANTED"} \subseteq inode[wchan[p]].flags

(* Who sleeps in iget() will be woken up by the iunlock() to come, unless   *)
(* iget() gave the entry to another inode meanwhile, and cleared its flags. *)
SleepersWanted == raced \/ SleepersMarked

HoldsDir(p) ==
    \/ pc[p] \in {"lockdir", "readdir", "found", "putnext", "parent",
                  "ialloc", "newinode", "wdir", "unlink", "scan", "unlinked"}
    \/ (InIget(p) \/ pc[p] = "iput") /\ call[p].ret \in {"found", "putnext", "parent", "newinode", "unlinked"}
    \/ pc[p] \in {"trunc", "bfree", "upd_trunc", "ifree", "upd_free"} /\ call[p].ret = "parent"

HoldsInode(p) ==
    \/ pc[p] \in {"load", "found", "putnext", "newinode", "wdir", "unlinked", "upd_unlink",
                  "iput", "access"}
    \/ pc[p] \in {"trunc", "bfree", "upd_trunc"} /\ ~call[p].free

References(s) ==
    (IF s = RootSlot THEN 1 + Cardinality(Procs) + Cardinality({p \in Procs : HoldsDir(p)}) ELSE 0)
    + Cardinality({p \in Procs : HoldsInode(p) /\ call[p].s = s})
    + Cardinality({p \in Procs : ofile[p] = s})

(* i_refcount counts the open files, working directories and calls that use *)
(* the inode, on every way through namei(), open(), creat() and unlink(),   *)
(* but for the directory that each failed open() put once too often: also   *)
(* while iput() frees an inode, and when iget() gives its entry out again.  *)
RefsCounted ==
    \A s \in Slots : inode[s].ref = References(s) - (IF s = RootSlot THEN overput ELSE 0)

(* What the kernel takes for the contents of the inode n *)
Valid(n) == {s \in Cached(n) : \A p \in Procs : ~(pc[p] = "load" /\ call[p].s = s)}
Content(n) == IF Valid(n) = {} THEN dinode[n] ELSE Written(CHOOSE s \in Valid(n) : TRUE)

Unlinking(n) ==
    {p \in Procs : (pc[p] = "unlinked" \/ (InIget(p) /\ call[p].ret = "unlinked")) /\ call[p].n = n}

(* i_nlinks counts the names of an inode, so that the last iput() frees it  *)
(* when it has no name, and no name is left that leads to a free inode,     *)
(* until iget() gives out what iput() is freeing.                           *)
LinksCounted ==
    raced \/ \A n \in Inos \ {ROOT_INODE} :
        /\ Content(n).links = Cardinality({e \in dir : e[2] = n}) + Cardinality(Unlinking(n))
        /\ Content(n).links > 0 => n \in imap

(* A block in use belongs to one inode, and is marked in the bitmap, so     *)
(* that balloc() gives it to nobody else and bfree() frees it once, until   *)
(* iget() gives out what iput() is freeing.                                 *)
BlocksOwned ==
    raced \/
    LET owned == {<<n, Content(n).blk>> : n \in Inos} IN
    /\ zmap = {o[2] : o \in owned} \ {0}
    /\ Cardinality({o \in owned : o[2] # 0}) = Cardinality(zmap)

(* An inode that nobody has locked or marked as dirty is on disk as it is   *)
(* in memory, so that its entry can be reused, until iget() gives out what  *)
(* iput() is freeing.                                                       *)
CleanIsOnDisk ==
    raced \/ \A s \in Slots : inode[s].ino # 0 /\ inode[s].flags = {} => dinode[inode[s].ino] = Written(s)
=============================================================================
