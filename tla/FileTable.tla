------------------------------ MODULE FileTable ------------------------------
(***************************************************************************)
(* File descriptors, the table of open files and the table of pipes:       *)
(* sys/kern/file.c (open, close, dup, dup2), sys_pipe() and pipe_close()   *)
(* of pipe.c, and what fork() and proc_exit() do with ofile[].             *)
(*                                                                         *)
(* A process runs in the kernel (variable busy) until it sleeps.  It       *)
(* sleeps in namei(), and in iput() when that gives up the last reference  *)
(* to an inode that was unlinked and so has to be freed on disk.           *)
(***************************************************************************)
EXTENDS Integers, FiniteSetsExt

CONSTANTS
    Procs, NoProc,
    NFILE,      \* entries in file[]
    NOFILE,     \* entries in ofile[]; as many in file.c
    NPIPES,     \* entries in pipes[]
    Inodes,     \* the inodes of the disk
    Dir,        \* the one that is the directory of all processes
    Null,       \* a null pointer
    Named,      \* bound: the inodes that are opened by name
    MAX_FAILED, \* bound: of the open()s that fail
    SelfDup     \* bound: whether programs call dup2(fd, fd)

ASSUME FileAssumption ==
    /\ IsFiniteSet(Procs) /\ NoProc \notin Procs
    /\ NFILE \in Nat \ {0} /\ NOFILE \in Nat \ {0} /\ NPIPES \in Nat
    /\ Null \notin Int /\ Null \notin Inodes /\ Inodes \cap Int = {} /\ Dir \in Inodes
    /\ Named \subseteq Inodes /\ MAX_FAILED \in Nat /\ SelfDup \in BOOLEAN

Fds   == 0 .. NOFILE - 1
Files == 0 .. NFILE - 1
Pipes == 0 .. NPIPES - 1

VARIABLES
    ofile,              \* proc.ofile[]: the file of each descriptor
    file,               \* the struct files
    readers, writers,   \* the struct pipes
    i_refcount, linked, \* the inodes: references, and i_nlinks > 0
    pc,                 \* where each process is
    arg,                \* the descriptors its system call is about
    at,                 \* the file that sys_open() or file_close() is at work on
    put,                \* the inode that iput() is at work on
    busy,               \* the process that runs in the kernel
    lost,               \* files that open() referenced and gave no descriptor
    overput             \* history: references to Dir that failing open()s put once too often

ends == <<readers, writers>>
disk == <<i_refcount, linked>>
call == <<pc, arg, at, put>>
vars == <<ofile, file, ends, disk, call, busy, lost, overput>>

-----------------------------------------------------------------------------
(* A struct file as file_alloc() returns it, and as it is given back        *)
Allocated ==
    [ref_count |-> 1, type |-> "FT_INODE", inode |-> Null, pipe |-> Null, flags |-> "rd"]
GivenBack == [Allocated EXCEPT !.ref_count = 0]

(* One end of the pipe k *)
End(k, rw) == [Allocated EXCEPT !.type = "FT_PIPE", !.pipe = k, !.flags = rw]

FreeFiles == {f \in Files : file[f].ref_count = 0}
FreeFds(p) == {d \in Fds : ofile[p][d] = Null}
FreePipes == {k \in Pipes : readers[k] = 0 /\ writers[k] = 0}

(* The two entries of lowest number in a set, as two calls in a row find    *)
First(S) == Min(S)
Second(S) == Min(S \ {Min(S)})

User(p) == busy = NoProc /\ pc[p] = "user"
Runs(p, where) == busy = p /\ pc[p] = where

(* The system call is over, and so are its local variables *)
Return(p) ==
    /\ pc' = [pc EXCEPT ![p] = "user"]
    /\ arg' = [arg EXCEPT ![p] = <<0, 0>>]
    /\ at' = [at EXCEPT ![p] = Null]
    /\ busy' = NoProc
    /\ UNCHANGED put

-----------------------------------------------------------------------------
(* A process with no open file, and its future children.  root_inode and    *)
(* its working directory refer to Dir.                                      *)
Init ==
    /\ \E p \in Procs : pc = [q \in Procs |-> IF q = p THEN "user" ELSE "none"]
    /\ ofile = [p \in Procs |-> [d \in Fds |-> Null]]
    /\ file = [f \in Files |-> GivenBack]
    /\ readers = [k \in Pipes |-> 0]
    /\ writers = [k \in Pipes |-> 0]
    /\ i_refcount = [i \in Inodes |-> IF i = Dir THEN 2 ELSE 0]
    /\ linked = [i \in Inodes |-> TRUE]
    /\ arg = [p \in Procs |-> <<0, 0>>]
    /\ at = [p \in Procs |-> Null]
    /\ put = [p \in Procs |-> Null]
    /\ busy = NoProc
    /\ lost = {}
    /\ overput = 0

-----------------------------------------------------------------------------
(* file_close() and pipe_close() of an open file by the process p, which    *)
(* goes on at "where" when they return                                      *)

LastClose(f) == file[f].ref_count = 1

PutsInode(f) == file[f].type = "FT_INODE" /\ LastClose(f) /\ file[f].inode # Null
IputSleeps(f) ==
    PutsInode(f) /\ i_refcount[file[f].inode] = 1 /\ ~linked[file[f].inode]

(* Mutant: every close() of the write end counts it out *)
ClosesWriterAlways(f) == file[f].type = "FT_PIPE" /\ file[f].flags = "wr"
(* flags & O_RDONLY is 0, so pipe_close() never counts a reader out *)
ClosesWriter(f) == file[f].type = "FT_PIPE" /\ LastClose(f) /\ file[f].flags = "wr"

FileClose(p, f, where, args) ==
    /\ file' = [file EXCEPT ![f].ref_count = @ - 1,
                            ![f].inode = IF PutsInode(f) /\ ~IputSleeps(f) THEN Null ELSE @]
    /\ writers' = IF ClosesWriter(f) THEN [writers EXCEPT ![file[f].pipe] = @ - 1] ELSE writers
    /\ i_refcount' = IF PutsInode(f) THEN [i_refcount EXCEPT ![file[f].inode] = @ - 1]
                     ELSE i_refcount
    /\ at' = [at EXCEPT ![p] = IF IputSleeps(f) THEN f ELSE Null]
    /\ put' = [put EXCEPT ![p] = IF IputSleeps(f) THEN file[f].inode ELSE Null]
    /\ busy' = IF IputSleeps(f) THEN NoProc ELSE p
    /\ pc' = [pc EXCEPT ![p] = where]
    /\ arg' = [arg EXCEPT ![p] = args]
    /\ UNCHANGED <<ofile, readers, linked, lost, overput>>

(* iput() comes back to file_close(), which then clears file->inode *)
IputReturn(p) ==
    /\ busy = NoProc /\ put[p] # Null
    /\ file' = [file EXCEPT ![at[p]].inode = Null]
    /\ at' = [at EXCEPT ![p] = Null]
    /\ put' = [put EXCEPT ![p] = Null]
    /\ busy' = p
    /\ UNCHANGED <<ofile, ends, disk, pc, arg, lost, overput>>

-----------------------------------------------------------------------------
(* sys_open(): file_alloc(), namei(), access(), file_fd_alloc() *)

(* namei() keeps the directory that it is in in file->inode *)
OpenStart(p) ==
    /\ User(p)
    /\ FreeFiles # {}
    /\ file' = [file EXCEPT ![First(FreeFiles)] = [Allocated EXCEPT !.inode = Dir]]
    /\ i_refcount' = [i_refcount EXCEPT ![Dir] = @ + 1]
    /\ at' = [at EXCEPT ![p] = First(FreeFiles)]
    /\ pc' = [pc EXCEPT ![p] = "open"]
    /\ UNCHANGED <<ofile, ends, linked, arg, put, busy, lost, overput>>

(* namei() goes on.  When another process has cleared file->inode meanwhile *)
(* it faults on a null pointer, and the system stops.                       *)
NameiReturns(p) == busy = NoProc /\ pc[p] = "open" /\ file[at[p]].inode = Dir

(* No such file, or O_CREAT and no access to its directory: namei() has put *)
(* the directory, and file_close() finds it in file->inode and puts it once *)
(* more.  iput() panics when there is no reference left.                    *)
OpenError(p) ==
    /\ NameiReturns(p) /\ overput < MAX_FAILED /\ i_refcount[Dir] > 1
    /\ file' = [file EXCEPT ![at[p]].ref_count = @ - 1, ![at[p]].inode = Null]
    /\ i_refcount' = [i_refcount EXCEPT ![Dir] = @ - 2]
    /\ overput' = overput + 1
    /\ Return(p)
    /\ UNCHANGED <<ofile, ends, linked, lost>>

(* A file that may not be opened is put again, and so was the directory *)
OpenDenied(p) ==
    /\ NameiReturns(p)
    /\ file' = [file EXCEPT ![at[p]].ref_count = @ - 1, ![at[p]].inode = Null]
    /\ i_refcount' = [i_refcount EXCEPT ![Dir] = @ - 1]
    /\ Return(p)
    /\ UNCHANGED <<ofile, ends, linked, lost, overput>>

(* file_fd_alloc(): with -EMFILE the file stays referenced *)
GivesFd(p) ==
    IF FreeFds(p) = {}
    THEN lost' = lost \cup {at[p]} /\ UNCHANGED ofile
    ELSE ofile' = [ofile EXCEPT ![p][First(FreeFds(p))] = at[p]] /\ UNCHANGED lost

(* O_CREAT when a directory of the name is missing: nobody looks at what    *)
(* file_creat() returns, and the file is the directory that namei() has put *)
OpenUncreated(p) ==
    /\ NameiReturns(p) /\ overput < MAX_FAILED
    /\ i_refcount' = [i_refcount EXCEPT ![Dir] = @ - 1]
    /\ overput' = overput + 1
    /\ GivesFd(p)
    /\ Return(p)
    /\ UNCHANGED <<file, ends, linked>>

(* The name leads to i, or O_CREAT took i, which ifree() is done with *)
Found(i) == linked[i] \/ (i_refcount[i] = 0 /\ \A p \in Procs : put[p] # i)

OpenDone(p, i) ==
    /\ NameiReturns(p)
    /\ Found(i)
    /\ file' = [file EXCEPT ![at[p]].inode = i]
    /\ i_refcount' = [j \in Inodes |-> i_refcount[j] + (IF j = i THEN 1 ELSE 0) - (IF j = Dir THEN 1 ELSE 0)]
    /\ linked' = [linked EXCEPT ![i] = TRUE]
    /\ GivesFd(p)
    /\ Return(p)
    /\ UNCHANGED <<ends, overput>>

(* sys_unlink() of the last name of i *)
Unlink(p, i) ==
    /\ User(p)
    /\ linked[i] /\ i # Dir
    /\ linked' = [linked EXCEPT ![i] = FALSE]
    /\ UNCHANGED <<ofile, file, ends, i_refcount, call, busy, lost, overput>>

-----------------------------------------------------------------------------
(* close(), dup() and dup2() *)

Close(p, d) ==
    /\ User(p)
    /\ ofile[p][d] # Null
    /\ FileClose(p, ofile[p][d], "close", <<d, d>>)

CloseReturn(p) ==
    /\ Runs(p, "close")
    /\ ofile' = [ofile EXCEPT ![p][arg[p][1]] = Null]
    /\ Return(p)
    /\ UNCHANGED <<file, ends, disk, lost, overput>>

Dup(p, d) ==
    /\ User(p)
    /\ ofile[p][d] # Null
    /\ FreeFds(p) # {}
    /\ ofile' = [ofile EXCEPT ![p][First(FreeFds(p))] = ofile[p][d]]
    /\ file' = [file EXCEPT ![ofile[p][d]].ref_count = @ + 1]
    /\ UNCHANGED <<ends, disk, call, busy, lost, overput>>

Dup2Close(p, d, e) ==
    /\ User(p)
    /\ ofile[p][d] # Null
    /\ d = e => SelfDup
    /\ IF ofile[p][e] # Null
       THEN FileClose(p, ofile[p][e], "dup2", <<d, e>>)
       ELSE /\ pc' = [pc EXCEPT ![p] = "dup2"]
            /\ arg' = [arg EXCEPT ![p] = <<d, e>>]
            /\ busy' = p
            /\ UNCHANGED <<ofile, file, ends, disk, at, put, lost, overput>>

Dup2Return(p) ==
    /\ Runs(p, "dup2")
    /\ file' = [file EXCEPT ![ofile[p][arg[p][1]]].ref_count = @ + 1]
    /\ ofile' = [ofile EXCEPT ![p][arg[p][2]] = ofile[p][arg[p][1]]]
    /\ Return(p)
    /\ UNCHANGED <<ends, disk, lost, overput>>

-----------------------------------------------------------------------------
(* sys_pipe() *)

PipeDone(p) ==
    /\ User(p)
    /\ Cardinality(FreeFiles) > 1 /\ FreePipes # {} /\ Cardinality(FreeFds(p)) > 1
    /\ LET k == First(FreePipes) IN
        /\ file' = [file EXCEPT ![First(FreeFiles)] = End(k, "rd"),
                                ![Second(FreeFiles)] = End(k, "wr")]
        /\ readers' = [readers EXCEPT ![k] = @ + 1]
        /\ writers' = [writers EXCEPT ![k] = @ + 1]
    /\ ofile' = [ofile EXCEPT ![p][First(FreeFds(p))] = First(FreeFiles),
                              ![p][Second(FreeFds(p))] = Second(FreeFiles)]
    /\ UNCHANGED <<disk, call, busy, lost, overput>>

(* On an error sys_pipe() gives back the files it allocated *)
PipeError(S) ==
    /\ file' = [f \in Files |-> IF f \in S THEN GivenBack ELSE file[f]]
    /\ UNCHANGED <<ofile, ends, disk, call, busy, lost, overput>>

(* -ENFILE: not two free files *)
PipeNoFile(p) ==
    /\ User(p)
    /\ Cardinality(FreeFiles) = 1
    /\ PipeError(FreeFiles)

(* -ENFILE: no free pipe *)
PipeNoSlot(p) ==
    /\ User(p)
    /\ Cardinality(FreeFiles) > 1 /\ FreePipes = {}
    /\ PipeError({First(FreeFiles), Second(FreeFiles)})

(* -EMFILE: the pipe is destroyed and is free as before *)
PipeNoFd(p) ==
    /\ User(p)
    /\ Cardinality(FreeFiles) > 1 /\ FreePipes # {} /\ Cardinality(FreeFds(p)) < 2
    /\ PipeError({First(FreeFiles), Second(FreeFiles)})

-----------------------------------------------------------------------------
(* fork() and proc_exit() *)

(* Mutant: the child's descriptors are not counted *)
ForkUncounted(p, c) ==
    /\ User(p)
    /\ pc[c] = "none"
    /\ ofile' = [ofile EXCEPT ![c] = ofile[p]]
    /\ i_refcount' = [i_refcount EXCEPT ![Dir] = @ + 1]
    /\ pc' = [pc EXCEPT ![c] = "user"]
    /\ UNCHANGED <<file, ends, linked, arg, at, put, busy, lost, overput>>

Fork(p, c) ==
    /\ User(p)
    /\ pc[c] = "none"
    /\ ofile' = [ofile EXCEPT ![c] = ofile[p]]
    /\ file' = [f \in Files |-> [file[f] EXCEPT
                    !.ref_count = @ + Cardinality({d \in Fds : ofile[p][d] = f})]]
    /\ i_refcount' = [i_refcount EXCEPT ![Dir] = @ + 1]
    /\ pc' = [pc EXCEPT ![c] = "user"]
    /\ UNCHANGED <<ends, linked, arg, at, put, busy, lost, overput>>

(* arg[1] is the next descriptor to close *)
Exit(p) ==
    /\ User(p)
    /\ pc' = [pc EXCEPT ![p] = "exit"]
    /\ arg' = [arg EXCEPT ![p] = <<0, 0>>]
    /\ busy' = p
    /\ UNCHANGED <<ofile, file, ends, disk, at, put, lost, overput>>

ToClose(p) == {d \in Fds : d >= arg[p][1] /\ ofile[p][d] # Null}

ExitClose(p) ==
    /\ Runs(p, "exit")
    /\ ToClose(p) # {}
    /\ LET d == First(ToClose(p)) IN FileClose(p, ofile[p][d], "exit", <<d + 1, 0>>)

(* The working directory is put.  A zombie's ofile[] is not looked at       *)
(* again; fork() clears the slot.                                           *)
ExitReturn(p) ==
    /\ Runs(p, "exit")
    /\ ToClose(p) = {}
    /\ pc' = [pc EXCEPT ![p] = "none"]
    /\ arg' = [arg EXCEPT ![p] = <<0, 0>>]
    /\ ofile' = [ofile EXCEPT ![p] = [d \in Fds |-> Null]]
    /\ busy' = NoProc
    /\ i_refcount' = [i_refcount EXCEPT ![Dir] = @ - 1]
    /\ UNCHANGED <<file, ends, linked, at, put, lost, overput>>

-----------------------------------------------------------------------------
(* Without a reference iget() may take the slot of Dir for another inode,   *)
(* and what the processes then do in it is not followed.                    *)
Next ==
    /\ i_refcount[Dir] > 0
    /\ \E p \in Procs :
        \/ OpenStart(p) \/ OpenError(p) \/ OpenDenied(p) \/ OpenUncreated(p) \/ (\E i \in Named : OpenDone(p, i) \/ Unlink(p, i))
        \/ (\E d \in Fds : Close(p, d) \/ Dup(p, d) \/ \E e \in Fds : Dup2Close(p, d, e))
        \/ IputReturn(p) \/ CloseReturn(p) \/ Dup2Return(p)
        \/ PipeDone(p) \/ PipeNoSlot(p) \/ PipeNoFile(p) \/ PipeNoFd(p)
        \/ (\E c \in Procs : Fork(p, c)) \/ Exit(p) \/ ExitClose(p) \/ ExitReturn(p)

Spec == Init /\ [][Next]_vars

-----------------------------------------------------------------------------
(* Properties *)

(* Every variable of the model has its type. *)
TypeOK ==
    /\ ofile \in [Procs -> [Fds -> Files \cup {Null}]]
    /\ file \in [Files -> [ref_count : Nat, type : {"FT_INODE", "FT_PIPE"},
                           inode : Inodes \cup {Null}, pipe : Pipes \cup {Null},
                           flags : {"rd", "wr"}]]
    /\ readers \in [Pipes -> Int] /\ writers \in [Pipes -> Int]
    /\ i_refcount \in [Inodes -> Int] /\ linked \in [Inodes -> BOOLEAN]
    /\ pc \in [Procs -> {"none", "user", "open", "close", "dup2", "exit"}]
    /\ arg \in [Procs -> (0 .. NOFILE) \X (0 .. NOFILE)]
    /\ at \in [Procs -> Files \cup {Null}]
    /\ put \in [Procs -> Inodes \cup {Null}]
    /\ busy \in Procs \cup {NoProc}
    /\ lost \subseteq Files /\ overput \in Nat

(* The descriptors that file_close() has not been called for *)
Holds(p, d) ==
    /\ pc[p] # "none" /\ ofile[p][d] # Null
    /\ pc[p] = "close" => d # arg[p][1]
    /\ pc[p] = "dup2" => d # arg[p][2]
    /\ pc[p] = "exit" => d >= arg[p][1]

Refs(f) == Cardinality({pd \in Procs \X Fds : Holds(pd[1], pd[2]) /\ ofile[pd[1]][pd[2]] = f})
Opening(f) == Cardinality({p \in Procs : pc[p] = "open" /\ at[p] = f})

(* ref_count is the number of descriptors that refer to the file, in all    *)
(* processes, and of open()s on their way to one: no file is given out      *)
(* while it is in use and none but those that open() lost stays allocated.  *)
RefsCounted ==
    \A f \in Files :
        file[f].ref_count = Refs(f) + Opening(f) + (IF f \in lost THEN 1 ELSE 0)

(* The open files that point to an inode, and to one end of a pipe *)
OpenOn(i) == {f \in Files : file[f].ref_count > 0 /\ file[f].inode = i}
OpenEnds(k, rw) == {f \in Files : file[f].ref_count > 0 /\ file[f].pipe = k /\ file[f].flags = rw}

(* The references that an inode should have besides those of open files:    *)
(* root_inode and every process refer to Dir, and overput were put again    *)
Live == {p \in Procs : pc[p] # "none"}
Owed(i) == IF i = Dir THEN 1 + Cardinality(Live) - overput ELSE 0

(* An inode has a reference for every open file and every process that      *)
(* points to it, so iput() never frees the blocks of a file that someone    *)
(* still has open; the directory of an open() that fails, or that creates   *)
(* nothing, is one short for each of them.                                  *)
InodesReferenced ==
    \A i \in Inodes : i_refcount[i] >= Cardinality(OpenOn(i)) + Owed(i)

(* All counts of descriptors, open()s and open files are exact, and the     *)
(* variables have their types.                                              *)
CountsExact == TypeOK /\ RefsCounted /\ InodesReferenced

(* Each pipe counts one writer for its write end, as long as that is open.  *)
WritersCounted == \A k \in Pipes : writers[k] = Cardinality(OpenEnds(k, "wr"))

(* file.c: "File is no more...": file_close() is done with a file when it   *)
(* is given to someone else, and an open file has its inode.                *)
OpenHasInode ==
    \A p \in Procs, d \in Fds :
        Holds(p, d) /\ file[ofile[p][d]].type = "FT_INODE" => file[ofile[p][d]].inode # Null

(* pipe.2: "The system-wide limit on open files or pipes has been reached": *)
(* when sys_pipe() finds no pipe, all of them are open.                     *)
LimitReached ==
    [][\A p \in Procs : PipeNoSlot(p) =>
         \A k \in Pipes : OpenEnds(k, "rd") \cup OpenEnds(k, "wr") # {}]_vars
=============================================================================
