-------------------------------- MODULE Proc --------------------------------
(***************************************************************************)
(* The process table of sys/kern: proc_alloc(), fork(), proc_exit(),       *)
(* wait(), kill(), the delivery of signals at the end of a system call,    *)
(* sleep(), wakeup(), yield() and sched().                                 *)
(*                                                                         *)
(* The kernel runs with interrupts off: a process keeps the CPU (cur) from *)
(* its entry into the kernel until it sleeps, exits or returns.            *)
(* Interrupts come in user mode, or in the idle loop of sched().           *)
(***************************************************************************)
EXTENDS Integers, FiniteSetsExt

CONSTANTS
    NPROC,      \* size of the process table
    MaxPid,     \* bound: proc_alloc() fails when nextpid gets here (0x7FFF)
    NoProc      \* a null pointer to a process

ASSUME ProcAssumption ==
    /\ NPROC \in Nat \ {0}
    /\ MaxPid \in Nat /\ MaxPid > 1
    /\ NoProc \notin Int

Slots == 0 .. NPROC - 1
InitSlot == 0     \* "Assume init is the first process in the process table"
InitPid == 1

VARIABLES
    state, pid, pgrp, parent, wchan,    \* struct proc, by slot
    sig,        \* signal_pending()
    pc,         \* where each process is
    cur,        \* cur_proc
    nextpid

ids  == <<pid, pgrp, parent, nextpid>>
run  == <<state, wchan>>
vars == <<ids, run, sig, pc, cur>>

(* Wait channels: a process (wait()), the disk, or nothing *)
Disk == NPROC
NoChan == NPROC + 1

-----------------------------------------------------------------------------
Used(i) == state[i] # "NULL"
Alive(i) == state[i] \notin {"NULL", "ZOMBIE"}

Runnable(i) == state[i] = "RUNNING" \/ (state[i] = "SLEEP" /\ sig[i])

(* Interrupts are on: in user mode, or when sched() found nobody to run *)
Interruptible ==
    \/ cur = NoProc /\ \A i \in Slots : ~Runnable(i)
    \/ cur # NoProc /\ pc[cur] = "user"

In(p, where) == cur = p /\ pc[p] = where

(* wakeup(c), applied to a state and a wchan function *)
WokenState(st, wc, c) ==
    [i \in Slots |-> IF st[i] = "SLEEP" /\ wc[i] = c THEN "RUNNING" ELSE st[i]]
WokenChan(st, wc, c) ==
    [i \in Slots |-> IF st[i] = "SLEEP" /\ wc[i] = c THEN NoChan ELSE wc[i]]

(* sleep(c) *)
SleepOn(p, c) ==
    /\ state' = [state EXCEPT ![p] = "SLEEP"]
    /\ wchan' = [wchan EXCEPT ![p] = c]
    /\ cur' = NoProc

(* A system call returns, by way of the end of sysent() *)
Return(p) == pc' = [pc EXCEPT ![p] = "leave"] /\ UNCHANGED cur

-----------------------------------------------------------------------------
(* proc_create() made init *)
Init ==
    /\ state = [i \in Slots |-> IF i = InitSlot THEN "RUNNING" ELSE "NULL"]
    /\ pid = [i \in Slots |-> IF i = InitSlot THEN InitPid ELSE 0]
    /\ pgrp = [i \in Slots |-> 0]
    /\ parent = [i \in Slots |-> NoProc]
    /\ wchan = [i \in Slots |-> NoChan]
    /\ sig = [i \in Slots |-> FALSE]
    /\ pc = [i \in Slots |-> "user"]
    /\ cur = NoProc
    /\ nextpid = InitPid + 1

-----------------------------------------------------------------------------
(* sched() and the interrupts *)

Dispatch(p) ==
    /\ cur = NoProc
    /\ Runnable(p)
    /\ cur' = p
    /\ UNCHANGED <<ids, run, sig, pc>>

(* The timer interrupt preempts user mode *)
Preempt(p) ==
    /\ In(p, "user")
    /\ cur' = NoProc
    /\ UNCHANGED <<ids, run, sig, pc>>

(* The disk interrupt wakes up those who wait for a transfer *)
DiskIntr ==
    /\ Interruptible
    /\ \E i \in Slots : state[i] = "SLEEP" /\ wchan[i] = Disk
    /\ state' = WokenState(state, wchan, Disk)
    /\ wchan' = WokenChan(state, wchan, Disk)
    /\ UNCHANGED <<ids, sig, pc, cur>>

-----------------------------------------------------------------------------
(* wd_read(), in a system call that needs the disk or in proc_exit()        *)

Read(p) ==
    /\ In(p, "user")
    /\ SleepOn(p, Disk)
    /\ pc' = [pc EXCEPT ![p] = "io"]
    /\ UNCHANGED <<ids, sig>>

(* A pending signal made sched() come back before the transfer was over:    *)
(* wd_read() sleeps again, whatever the signal.                             *)
ReadSleepOn(p) ==
    /\ In(p, "io") \/ In(p, "exit_io")
    /\ wchan[p] = Disk
    /\ SleepOn(p, Disk)
    /\ UNCHANGED <<ids, sig, pc>>

ReadReturn(p) ==
    /\ In(p, "io")
    /\ wchan[p] # Disk
    /\ Return(p)
    /\ UNCHANGED <<ids, run, sig>>

-----------------------------------------------------------------------------
(* fork(), with proc_alloc() *)

FreeSlots == {i \in Slots : state[i] = "NULL"}

CanFork == FreeSlots # {} /\ nextpid < MaxPid

Fork(p) ==
    /\ In(p, "user")
    /\ CanFork
    /\ LET c == Min(FreeSlots) IN
        /\ state' = [state EXCEPT ![c] = "RUNNING"]
        /\ pid' = [pid EXCEPT ![c] = nextpid]
        /\ pgrp' = [pgrp EXCEPT ![c] = IF pgrp[p] = 0 THEN nextpid ELSE pgrp[p]]
        /\ parent' = [parent EXCEPT ![c] = p]
        /\ wchan' = [wchan EXCEPT ![c] = NoChan]
        /\ sig' = [sig EXCEPT ![c] = FALSE]
        /\ pc' = [pc EXCEPT ![c] = "user", ![p] = "leave"]
    /\ nextpid' = nextpid + 1
    /\ UNCHANGED cur

(* The table is full, or the ids are used up: a free slot is cleared first *)
ForkFail(p) ==
    /\ In(p, "user")
    /\ ~CanFork
    /\ LET C == IF FreeSlots = {} THEN {} ELSE {Min(FreeSlots)} IN
        /\ pid' = [i \in Slots |-> IF i \in C THEN 0 ELSE pid[i]]
        /\ pgrp' = [i \in Slots |-> IF i \in C THEN 0 ELSE pgrp[i]]
        /\ parent' = [i \in Slots |-> IF i \in C THEN NoProc ELSE parent[i]]
        /\ wchan' = [i \in Slots |-> IF i \in C THEN NoChan ELSE wchan[i]]
        /\ sig' = [i \in Slots |-> IF i \in C THEN FALSE ELSE sig[i]]
    /\ pc' = [pc EXCEPT ![p] = "leave"]
    /\ UNCHANGED <<nextpid, state, cur>>

-----------------------------------------------------------------------------
(* proc_exit().  First the children go to init, which is woken up if one of *)
(* them is a zombie.  Closing the files may sleep on the disk (several      *)
(* sleeps in a row are one here).  Then the parent is woken up and the      *)
(* process is a zombie.                                                     *)

(* Mutant: init adopts the zombies alone *)
OrphansZombies(p) == {i \in Slots : parent[i] = p /\ state[i] = "ZOMBIE"}
Orphans(p) == {i \in Slots : parent[i] = p}

(* Mutant: init is not told of the zombies it adopts *)
AdoptsZombieNever(p) == FALSE
AdoptsZombie(p) == \E i \in Orphans(p) : state[i] = "ZOMBIE"

ExitStart(p) ==
    /\ parent' = [i \in Slots |-> IF i \in Orphans(p) THEN InitSlot ELSE parent[i]]
    /\ IF AdoptsZombie(p)
       THEN /\ state' = WokenState(state, wchan, InitSlot)
            /\ wchan' = WokenChan(state, wchan, InitSlot)
       ELSE UNCHANGED run
    /\ pc' = [pc EXCEPT ![p] = "exit"]
    /\ UNCHANGED <<pid, pgrp, nextpid, sig, cur>>

Exit(p) == p # InitSlot /\ In(p, "user") /\ ExitStart(p)

ExitSleep(p) ==
    /\ In(p, "exit")
    /\ SleepOn(p, Disk)
    /\ pc' = [pc EXCEPT ![p] = "exit_io"]
    /\ UNCHANGED <<ids, sig>>

(* Mutant: the parent is not woken up *)
ExitFinishSilent(p) ==
    /\ In(p, "exit") \/ (In(p, "exit_io") /\ wchan[p] # Disk)
    /\ state' = [state EXCEPT ![p] = "ZOMBIE"]
    /\ cur' = NoProc
    /\ UNCHANGED <<ids, wchan, sig, pc>>

ExitFinish(p) ==
    /\ In(p, "exit") \/ (In(p, "exit_io") /\ wchan[p] # Disk)
    /\ state' = [WokenState(state, wchan, parent[p]) EXCEPT ![p] = "ZOMBIE"]
    /\ wchan' = WokenChan(state, wchan, parent[p])
    /\ cur' = NoProc
    /\ UNCHANGED <<ids, sig, pc>>

-----------------------------------------------------------------------------
(* wait() *)

Children(p) == {i \in Slots : Used(i) /\ parent[i] = p}
(* Mutant: a child that still runs is collected too *)
ZombiesAny(p) == Children(p)
Zombies(p) == {i \in Children(p) : state[i] = "ZOMBIE"}

Wait(p) ==
    /\ In(p, "user")
    /\ pc' = [pc EXCEPT ![p] = "wait"]
    /\ UNCHANGED <<ids, run, sig, cur>>

WaitCollect(p) ==
    /\ In(p, "wait")
    /\ Zombies(p) # {}
    /\ state' = [state EXCEPT ![Min(Zombies(p))] = "NULL"]
    /\ Return(p)
    /\ UNCHANGED <<ids, wchan, sig>>

(* -ECHILD, or -EINTR *)
WaitError(p) ==
    /\ In(p, "wait")
    /\ Zombies(p) = {}
    /\ Children(p) = {} \/ sig[p]
    /\ Return(p)
    /\ UNCHANGED <<ids, run, sig>>

WaitSleep(p) ==
    /\ In(p, "wait")
    /\ Children(p) # {} /\ Zombies(p) = {} /\ ~sig[p]
    /\ SleepOn(p, p)
    /\ UNCHANGED <<ids, sig, pc>>

-----------------------------------------------------------------------------
(* kill() of a process, of a process group, and CTRL-c on a terminal.       *)
(* Nobody sends init a signal.                                              *)

Kill(p, q) ==
    /\ In(p, "user")
    /\ Alive(q) /\ q # InitSlot
    /\ sig' = [sig EXCEPT ![q] = TRUE]
    /\ Return(p)
    /\ UNCHANGED <<ids, run>>

Group(g) == {i \in Slots : Alive(i) /\ pgrp[i] = g}

KillGroup(p, g) ==
    /\ In(p, "user")
    /\ g > 1
    /\ sig' = [i \in Slots |-> sig[i] \/ i \in Group(g)]
    /\ Return(p)
    /\ UNCHANGED <<ids, run>>

TtyIntr(g) ==
    /\ Interruptible
    /\ g > 1
    /\ sig' = [i \in Slots |-> sig[i] \/ i \in Group(g)]
    /\ UNCHANGED <<ids, run, pc, cur>>

-----------------------------------------------------------------------------
(* The end of sysent(): postsig() *)

Leave(p) ==
    /\ In(p, "leave") /\ ~sig[p]
    /\ pc' = [pc EXCEPT ![p] = "user"]
    /\ UNCHANGED <<ids, run, sig, cur>>

PostHandler(p) ==
    /\ In(p, "leave") /\ sig[p]
    /\ sig' = [sig EXCEPT ![p] = FALSE]
    /\ state' = [state EXCEPT ![p] = "RUNNING"]
    /\ pc' = [pc EXCEPT ![p] = "user"]
    /\ UNCHANGED <<ids, wchan, cur>>

PostIgnore(p) ==
    /\ In(p, "leave") /\ sig[p]
    /\ pc' = [pc EXCEPT ![p] = "user"]
    /\ UNCHANGED <<ids, run, sig, cur>>

PostDefault(p) == In(p, "leave") /\ sig[p] /\ ExitStart(p)

-----------------------------------------------------------------------------
Kernel(p) ==
    \/ ReadSleepOn(p) \/ ReadReturn(p) \/ ExitSleep(p) \/ ExitFinish(p)
    \/ WaitCollect(p) \/ WaitError(p) \/ WaitSleep(p)
    \/ Leave(p) \/ PostHandler(p) \/ PostIgnore(p) \/ PostDefault(p)

User(p) ==
    \/ Fork(p) \/ ForkFail(p) \/ Exit(p) \/ Wait(p) \/ Read(p)
    \/ \E q \in Slots : Kill(p, q)
    \/ \E g \in 2 .. MaxPid : KillGroup(p, g)

Next ==
    \/ \E p \in Slots : Kernel(p) \/ User(p) \/ Dispatch(p) \/ Preempt(p)
    \/ DiskIntr
    \/ \E g \in 2 .. MaxPid : TtyIntr(g)

Spec == Init /\ [][Next]_vars

(* The kernel never stops within a call; a tick that comes while interrupts *)
(* are off is taken when user mode resumes; sched() walks the whole table;  *)
(* a transfer that was started ends with an interrupt; and init calls       *)
(* wait() in a loop (etc/init.c).                                           *)
Fairness ==
    /\ WF_vars(\E p \in Slots : Kernel(p))
    /\ SF_vars(\E p \in Slots : Preempt(p))
    /\ \A p \in Slots : SF_vars(Dispatch(p))
    /\ SF_vars(DiskIntr)
    /\ SF_vars(Wait(InitSlot))

FairSpec == Spec /\ Fairness

-----------------------------------------------------------------------------
(* Properties *)

(* Every variable of the model has its type. *)
TypeOK ==
    /\ state \in [Slots -> {"NULL", "RUNNING", "SLEEP", "ZOMBIE"}]
    /\ pid \in [Slots -> 0 .. MaxPid]
    /\ pgrp \in [Slots -> 0 .. MaxPid]
    /\ parent \in [Slots -> Slots \cup {NoProc}]
    /\ wchan \in [Slots -> Slots \cup {Disk, NoChan}]
    /\ sig \in [Slots -> BOOLEAN]
    /\ pc \in [Slots -> {"user", "leave", "wait", "io", "exit", "exit_io"}]
    /\ cur \in Slots \cup {NoProc}
    /\ nextpid \in 2 .. MaxPid

(* Every process but init has a parent that lives and is not on its way out *)
(* of proc_exit(): someone can always collect it, and the pointer never     *)
(* leads to a slot that was freed or given to another process.              *)
ParentAlive ==
    \A i \in Slots \ {InitSlot} : Used(i) =>
        /\ parent[i] \in Slots
        /\ Alive(parent[i])
        /\ pc[parent[i]] \notin {"exit", "exit_io"}

(* No process sleeps in wait() while it has a zombie to collect: neither an *)
(* exit, nor the adoption of a zombie, goes unnoticed by the parent.        *)
NoExitMissed ==
    \A p \in Slots : state[p] = "SLEEP" /\ wchan[p] = p => Zombies(p) = {}

PidsOf(S) == {pid[i] : i \in S}
SlotOf(n) == CHOOSE i \in Slots : Used(i) /\ pid[i] = n

Lin == INSTANCE Lineage WITH
    Init_pid <- InitPid,
    live     <- PidsOf({i \in Slots : Alive(i)}),
    zombie   <- PidsOf({i \in Slots : state[i] = "ZOMBIE"}),
    parentOf <- [n \in PidsOf({i \in Slots \ {InitSlot} : Used(i)}) |-> pid[parent[SlotOf(n)]]],
    last     <- nextpid - 1

(* The table implements Lineage: ids are never given out twice, and each    *)
(* process exits once and is collected once, by its parent or by init.      *)
IsLineage == Lin!Spec

(* A zombie that init inherited or forked is collected, as long as          *)
(* interrupts keep being taken (DiskSleepEnds is about when they are not).  *)
ZombiesCollected ==
    []<>Interruptible =>
        \A i \in Slots \ {InitSlot} :
            (state[i] = "ZOMBIE" /\ parent[i] = InitSlot) ~> (state[i] # "ZOMBIE")

(* wd.c: "Sleep until I/O is done": a process that sleeps on the disk is    *)
(* woken up by the interrupt that ends the transfer.                        *)
DiskSleepEnds ==
    \A p \in Slots \ {InitSlot} :
        (state[p] = "SLEEP" /\ wchan[p] = Disk) ~> (wchan[p] # Disk)
=============================================================================
