# TLA+ models of osix

osix is a small UNIX-like kernel for i386 with a C library, a shell and
utilities. These modules model the parts where several actors meet - processes
that sleep and are woken up, interrupts, signals, shared open files, pipes, buffers
and the disk, memory, terminals - and the programs that keep state of their own: the
shell, init and login, the allocator and the streams of the C library, the editor.
TLC checks each component on small instances; TLAPS proves the properties of
all but the words and patterns of the shell for every value of the constants.

## 1. Inventory

| Component | State | Operations | Hard behaviour | What makes it correct |
|---|---|---|---|---|
| Pipes (`sys/kern/pipe.c`) | ring, positions, readers, writers | pipe_read, pipe_write, pipe_close, sys_pipe | both sides sleep on one channel; positions wrap; ends are shared | FIFO, no lost byte, no lost wakeup, 0 = end of file |
| Process table (`proc.c`, `sched.c`, `kern_fork.c`, `kern_exit.c`) | proc[], cur_proc, nextpid | fork, exit, wait, sleep, wakeup, sched, yield | exit against wait, adoption of orphans, sleeping with a signal | live parents, each exit collected once and noticed |
| Signals (`kern_signal.c`) | sig_pending, sig_mask, handlers, saved context | kill, signal, issignal, postsig, sigreturn | a signal interrupts some sleeps and not others | handled once, the interrupted context comes back |
| Open files (`file.c`) | file[], ofile[] | open, creat, close, dup, dup2, read, write, lseek, unlink, mkdir, stat, ioctl | shared by fork and dup; sleeps in namei and iput | exact reference counts |
| Buffer cache (`bio.c`) | bcache[], bfreelist | getblk, bread, bwrite, brelse, iodone, balloc, bfree | getblk sleeps and looks again; interrupts complete I/O | one buffer per block, the free list |
| Disk driver (`i386/wd.c`) | rdbuf, wrbuf, drive registers | wd_read, wd_write, wd_intr | one outstanding command, late interrupts | a read returns when it is done |
| Inodes (`inode.c`, `fs.c`) | inodes[], super block, bitmaps | iget, iput, ilock, iunlock, readi, writei, bmap, itrunc, ialloc, ifree, namei | locks and references across sleeps; freeing in several steps | no inode or block is used twice |
| Terminals (`tty.c`, `i386/kb.c`, `uart.c`, `cons.c`) | rx ring, termios, pgrp | tty_read, tty_write, tty_input, tty_ioctl | interrupt fills a ring a reader empties | lines arrive whole and in order |
| Virtual memory (`i386/vmm.c`, `pmap.c`, `mem.c`) | page bitmap, page tables | vmm_alloc_page, pmap_enter, pmap_remove, proc_break | pages of two processes; exhaustion | no page has two owners or none |
| Exec (`kern_exec.c`) | image of a process | exec | replaces memory and keeps the rest | the layout of the new stack |
| Timers (`i386/pit.c`, `rtc.c`, `kern_time.c`) | pit_ticks, pit_time | pit_irq, sys_sleep, time, stime | tick against sleep | a sleep ends |
| System call entry (`sysent.c`, `i386/isr.S`, `idt.c`) | interrupt frame | sysent | a signal is posted on the way out | |
| Credentials (`kern_prot.c`, libc `getpwuid.c`, `getgrgid.c`) | uid, gid, groups | setuid, setgid, setgroups, getgrouplist | three calls in the right order; lists at their limit | a session has the rights of its user |
| Init, getty, login (`etc/init.c`, `getty.c`, `bin/login.c`) | ttys[], echo | single, multi, login | orphans and sessions end in any order | one session per terminal, and init knows it |
| Shell (`bin/sh.c`) | pipelines, descriptors, children | tokenize, glob, exec_pipeline, wait_for_children | pipes shared by processes that fail and are interrupted | words, files and pipes end up where they were asked for |
| C library (`malloc.c`, `stdio.c`, `environ.c`) | free list, `_iob[]`, `environ` | malloc, free, fgets, fwrite, fflush, setenv | order of frees, short and interrupted calls, memory of two origins | no block, byte or string is lost or used twice |
| Editor (`usr.bin/vi`) | text, cursor, mode | keys | long sequences of keys at the edges of text and window | the cursor is in the text, other lines are kept |
| Boot, network, libkern, other utilities | | | sequential or register-level | |

Components call each other directly. They share `proc[]`, and everything that
waits does so through `sleep(channel)` and `wakeup(channel)`.

Three facts of the kernel shape every module:

* **The kernel is not preempted.** Interrupt gates turn interrupts off, and they
  are turned on again in user mode (`eflags = 0x200`, `proc.c:173`) and in the
  idle loop of `sched()` (`sched.c:41`) only. So a process that runs in the kernel goes on until
  it sleeps, exits or returns, and an action of a model may span that much.
* **`sched()` also runs a sleeper that has a signal pending** (`sched.c:24`),
  without changing its state or channel. It comes back from `sleep()` as if woken up,
  and its loop has to decide what to do.
* **Signals are posted at the end of a system call only** (`sysent.c:142`).

## 2. Modules

| Module | Models | Checked by |
|---|---|---|
| `PipeChannel` | the abstract FIFO a pipe promises | refined by `Pipe` |
| `Pipe` | one pipe and the processes that share it | runs `pipe`, `pipe_eof`; proofs `PipeProofs` |
| `Lineage` | what fork, exit and wait promise, by process id | refined by `Proc` |
| `Proc` | process table, scheduler, signals as far as they affect it | run `proc`; proofs `ProcProofs` |
| `FileTable` | descriptors, open files, table of pipes, inode references | run `files`; proofs `FileTableProofs` |
| `BufferCache` | buffer cache over the disk driver | run `cache`; proofs `BufferCacheProofs` |
| `Inode` | inode cache, links, bitmaps, path lookup, and the calls on files | run `inodes`; proofs `InodeProofs` |
| `Memory` | page allocator, page tables, address spaces over brk, fork, exec and exit | run `memory`; proofs `MemoryProofs` |
| `Terminal`, `Screen`, `Keyboard` | a terminal and its readers; the console; keyboard and serial line | run `terminal`; proofs `TerminalProofs` |
| `Signals` | handlers, mask and saved context of a process, sleep(2) and the clock | run `signals`; proofs `ProcProofs` |
| `CommandLine`, `Glob`, `Shell` | a line of the shell: its words, its patterns, its processes | run `shell`; proofs (`Shell`) `ProgramProofs` |
| `Sessions` | init, getty, login and credentials | run `shell`; proofs `ProgramProofs` |
| `Malloc`, `Stdio`, `Environ` | the parts of the C library that keep state | run `libc`; proofs `ProgramProofs` |
| `Vi` | the editor | run `vi`; proofs `ProgramProofs` |

`MC*` modules instantiate these for TLC. `MCTerminal`, `MCShell` and `MCLibc` put several components in one run; they
share no state, so a variable `part` says which of them a behaviour exercises.
`ProcSignals`, `ShellSessions`, `Libc` and `Editor` instantiate `Signals`, `Shell`, the three modules of the C library and `Vi`,
and give the properties of the instance a name that the MC module and the module of the proofs share.
A definition whose comment begins with
"Mutant:" is a wrong version of the definition that follows it. No
specification uses one: each is put in the other's place to see that a property fails then.

### Pipe

State: the fields of `struct pipe`, the reference count of the two `struct file`s,
which ends each process has in `ofile[]`, and for each process its `state`, where
it is (`pc`), the arguments of its call and whether a signal is pending. `cur` is
`cur_proc`. The loops of `pipe_read()` and `pipe_write()` are one
iteration per step: `ReadByte`/`ReadBlock`/`ReadReturn` are the three ways through the body
of the first, `WriteByte`/`WriteBlock`/`WriteReturn` those of the second. `PipeClose` is `pipe_close()`, used by
`close()` and by `proc_exit()` for all ends at once. `flags & O_RDONLY` is
computed as the code does (`FlagSet`): it is never true. `Leave` and the `Post*` actions are the
end of `sysent()`. `delivered` is a history variable: the last byte the call under way stored in
the caller's buffer, which is what the abstract channel hands out.

### Proc

State: the fields of `struct proc` by slot, `cur`, `nextpid`, and `pc`. The only
other thing a process can wait for here is the disk, by `wd_read()` in some
system call (`Read`) or on the way through `proc_exit()` (`ExitSleep`); several such
sleeps in a row are one. `sig` stands for any unmasked pending signal.
Assumptions: init (slot 0) is never signalled and never exits, as `etc/init.c` has it;
`iput(p->cwd)`, after the parent was woken up, does not sleep, because a directory keeps its links.

`Lineage` is the abstract view: sets of live and zombie ids and the parent of each. The refinement mapping takes a
used slot to its id.

### FileTable

State: `ofile[][]`, `file[]`, `readers` and `writers` of each pipe, the references to each inode
and whether it still has a name; `Dir` is the directory in which all names are looked up. A process in the kernel keeps the CPU (`busy`). It gives it
up in `namei()` (the pc "open") and in `iput()` of the last reference to
an unlinked inode, which frees it on disk (`put` is that inode and `at` the file
that `file_close()` returns to). `lost` records the files that `open()` leaves referenced when it returns `EMFILE`.
Left out: a descriptor equal to `NFILE`, which `dup()` lets through and which
reads beyond the array; the sleep in the `iput()` of `unlink()` itself, which holds no file.
The failing paths of `sys_pipe()` are their net effect, as nothing in them sleeps.

A failed `open()` puts the directory twice, once in `namei()` and again in `file_close()`, which finds it in
`file->inode` (`file.c:191`); the error path of `O_CREAT` (`file.c:189`) ends there, too. `overput` is a history variable that counts these puts, and
`CountsExact` says that all reference counts are exact, but that the directory is one short for each of them. `MAX_FAILED` bounds their number and `Named` the inodes
that are opened by name. When the directory has no reference left, the model stops: `iput()` panics then, or `iget()` gives the entry to another
inode. It takes as many failures as the directory has references: the root has one of its own and one for each process that works in it, while a directory that nobody works in
has none left after the first.

### BufferCache

State: the fields of `struct buf`, the free list as a sequence, `rdbuf` and `wrbuf` of the drive, the
command it has not answered, and for each process the call it is in, what it sleeps on and the buffers it
holds. The contents of blocks are left out. `MayRead` is the discipline of the callers in
`inode.c`: a process that holds a buffer reads only a bitmap block. `Bwrite` does
not sleep, and gives the drive a command whatever the drive was at work on; `WriteIntr` may therefore be taken while a read is under way,
which is the state `wd_intr()` sees when `DRQ` is not set yet. With NBUF = 64 and 8 processes `getblk()` finds a
free buffer always; the model keeps that proportion, so the panic is not a step.

### Inode

State: `inodes[]` by slot, the inodes on disk, the two bitmaps, the entries of one directory (the root, in slot 0,
where `mount()` put it), and for each process where it is in its call, the local variables of the call, the inode of the one file it
may have open and the inode it sleeps on. A process gives the CPU up in `bread()`, those of the last `iput()` of an unlinked inode included, and
asleep in `iget()`; between two such points its steps have `busy` set. Each function of `inode.c` is a few steps, which
return to the pc in `ret`: `iget()` is `IgetSleep`, `IgetHit` or `IgetMiss` and `Load`; `iput()` is `Iput`, and for an inode without links
`TruncBlock`, `Bfree`, `TruncUpdate`, `TruncReturn`, `Ifree` and `FreeReturn`; `nameicore()` is `Nameicore`, `LockDir`, then
`Found` or `NotFound`, and `PutNext` or `NameiReturn`. `panic()` is a step to a state where nothing happens any more; `Panics` lists the
assertions of these functions. `access()` may refuse whatever it is asked, but asked again for the same it gives the same answer.

`overput` is a history variable. When `namei()` fails it has put the directory and yet leaves it in `file->inode`, so that
`file_close()` puts it again: `overput` counts how often. `RefsCounted` says that the reference counts are exact but for that.

Abstractions: a file has one direct block; sizes, offsets, modes and the contents of blocks are left out; the directory has its block already;
several `bread()` in a row under one lock are one; `creat()` stands for `O_CREAT|O_WRONLY|O_TRUNC` and `open()` for `O_RDONLY`, the
other flags are not modelled; `stat()` and `exec()`, which look an inode up and put it again, go the way of an open and a close; the
wake-up of a sleeper in `iget()` by a signal is left out, since the loop looks again and goes back to sleep.

While `iput()` frees an inode it has put the last reference and sleeps several times, so `iget()` may find the inode, or take its entry for another one; and an
`iget()` that slept may go on with the number of an inode that was freed meanwhile. `raced` is a history variable that becomes true at that step (`GivesFreed`). The step
itself is in the model, as are all interleavings in which `iput()` sleeps and nobody takes what it is freeing. The invariants on the cache, the
links, the blocks and the disk hold until then and have `raced` as their exception, since afterwards they fail: TLC shows it
if the exception is taken out (see "What does not hold"). With the two processes of the run only `LocksOwned`, `LinksCounted` and `BlocksOwned` fail after the race;
`SleepersMarked` and `CleanIsOnDisk` take a third process. `RefsCounted` has no such exception.

Three bounds: after the race the calls under way go on to their ends and no other begins (`User`); `MAX_FAILED` is the number of calls of `open()`
that may fail; and when the directory has no reference left the model stops, as in `FileTable` (`DirReferenced`).

### Memory

State: the bitmap of `vmm.c` and where its search begins, and for each process its page directory, the entries of
the directory and of the page tables, and its break. Addresses are page numbers. A call is one step, since the kernel is not preempted;
`exec()` sleeps while it reads the program, with its new stack in `ustack`, and `exit()` while it closes files, so they are several. `clean` holds the pages
without the data of an earlier owner. `leaked` and `over` are histories: the stack pages that `exec()` and `exit()` unmap and never free,
and processes whose `brk()` ran over their own stack, which the code lets happen. `Ustack` is the arithmetic of
`proc_init_ustack()` on the lengths of the strings. "Out of memory!" is a step to `panic`.

### Terminal, Screen, Keyboard

`Terminal` has one step for each character that `tty_read()` takes from the ring, with what it echoes, and one for each round of the loops of CTRL-w and CTRL-u,
which take a byte from the line and send a backspace to the screen each on its own; `tty_input()` is the interrupt. `shown`
is the row of the screen, from its beginning over the prompt to the cursor, as the echoed characters leave it. A tab is echoed as the columns up to
the next stop and erased by one backspace, so after one (`tabbed`) `EchoIsLine` says only that nothing before the line is erased; after an ESC, which is echoed and
begins an escape sequence, and once the line is longer than the row, `shown` is unknown. `Screen` is `cn_putchar()` as a state machine over classes of characters, with
16-bit positions and 32-bit arguments (`UINT16`, `UINT32`). `Keyboard` has the modifiers, which are toggled by each
scan code, and the rings of `kb.c` and `uart.c`, each with a reader that sleeps.

### Signals

One process. A context is main() or the handler of a signal; `saved` is the one context that `postsig()` saves. Every system
call ends in `Leave`, where a pending signal is posted, and nowhere else: `pit_irq()` returns to a program without looking at its signals. `nested` and `inherited` are histories: a
handler that began in another one overwrites the saved context, and `exec()` keeps the mask; both are what the code does, and `HandlersReturn` excepts them.
`due` counts the ticks that are left of a sleep, apart from `pit_ticks`, which wraps.

### CommandLine, Glob, Shell

A line is a sequence of classes of characters and a word the sequence of its positions in the line, so a
word that is cut, joined or moved is seen. `tokenize()` takes one token per step. `WordsPlaced` compares the result with the grammar, stated
over positions, for well-formed lines: each command has a word, the name of
a file is followed by a space or the end of the line and has no quotes, a command has one input and one output at most, and no separator is quoted. The newline is a position of the
line like any other: `parse_redir()` does not stop at it (`sh.c:272`), so the name of a file at the end of a line has the newline in it, and the grammar says so, as
the file that is opened has that name.
`Glob` compares `explode_pattern()` with the paths a pattern stands for; a file that is not a directory, which the code would read as one (`sh.c:127`), gives no names. `Shell` runs pipelines as they come out of these two: the
shell's main loop, and for each child its steps from `fork()` over `dup2()` and `close()` to `exec()`, its end and CTRL-c at any point. `fork()`, `open()` and `pipe()` may fail. The result of `pipe()` is not looked at (`sh.c:184`): the
shell goes on with elements of `pipes[]` that were never set, which hold any value of `Garbage`, and `broken` records it; `PipesWired` says nothing after that.

### Sessions

init (`at`, `ttys`, `pid`, `t`) and all other processes by slot of `proc[]`, each with the program it runs. `leader` marks the process that
init started on a terminal and what it became by `exec()`. Any process but init may end at any step. A shell may run login once more, without being root. `execl()`
and the first `fork()` are taken to succeed.

### Malloc, Stdio, Environ

`Malloc` has the circular free list of headers as `ptr` and `size` by address, in units of a header; `free()` and `malloc()` are one step
each. `Stdio` takes one step per call of `read()` or `write()` and lets each be short, interrupted or fail; bytes are numbered, so order and repetition show.
`fwrite()` copies up to the size of the buffer whatever is in it already (`stdio.c:135`): the step that goes beyond the end sets `overrun`, after which the contents of the `FILE`
are unknown and nothing more is said. `fclose()` drops what is in the buffer (`stdio.c:79`), and `lost` has the streams to which that happened.
`Environ` has the vector and each string with the memory it is in; one name may begin with another.

### Vi

The buffer is an array of arrays with whatever is left behind the end of a line, as in the code. A key is one step; `CommandKey`, `InsertKey` and `CommandLine`
are the three modes. What is drawn, and the text that is typed on the command line, are left out. Insertion does not look whether a line or the text is full (`insert.c:5`, `insert.c:28`): a key that goes
beyond the arrays sets `full` and ends the behaviour, as what it overwrites is not known. `x` moves the cursor only if there were characters to
delete, so after `:r` (`past`) the cursor may stay behind its line. The files that are read have lines shorter than `MAX_COLS` (`Fit`).

## 3. Runs

| Run | Instance | Shows |
|---|---|---|
| `pipe` | 2 processes, 2 byte values, `PIPE_BUF` 2, positions mod 4, calls of 0 to 2 bytes, one process signalled | FIFO refinement, wakeups, end of file, calls that can go on do |
| `pipe_eof` | the same with one byte value | violation: `ReaderSeesEof` |
| `proc` | 3 slots, 4 ids | live parents, exits noticed and collected, refinement of `Lineage`, deadlock freedom |
| `files` | 2 processes (symmetric) with 2 descriptors each, 3 files, 1 inode besides the directory, 1 pipe, 2 failed opens | the reference counts |
| `cache` | 2 processes, 3 buffers, 4 blocks (one a bitmap, one without a drive), one process signalled | the consistency of the cache, deadlock freedom |
| `inodes` | 2 processes (symmetric), 3 cache entries, 2 inodes besides the root, 1 block, 1 name, 2 failed opens | cache, locks, references, links, blocks, write-back, with `iput()` asleep as it frees |
| `memory` | 2 processes, 12 pages, page tables of 4 entries, breaks up to page 4 | page ownership, address spaces, no stale data, layout of the stack |
| `terminal` | one reader of lines of 3 bytes or two of single bytes, ring of 3, prompt of 2; screen of 10 x 3; one reader per device | echo and line agree, no lost wakeup, the cursor stays on the screen |
| `signals` | 3 signals, 3 sent, clock mod 6, 2 ticks per second | handlers return, sleeps end, SIGKILL ends the process |
| `shell` | all lines of 6 tokens; all patterns of 4 characters; lines of up to 3 commands with 2 children at a time and 7 descriptors, of which a pipeline of three needs all; 2 terminals, 3 processes, 2 users, 4 groups | words, patterns, descriptors, sessions, credentials |
| `libc` | heap of 9 units; 2 streams with 2-byte buffers and 4 bytes; 3 names, 4 values, 4 strings | heap, streams, environment |
| `vi` | files of 0, 1 and 4 lines, window of 2 rows, 7 keys | cursor and text |

Why the bounds are enough: a pipe of two bytes is empty, half full and full, and
positions mod 4 wrap within two rounds of the ring, as 2^32 is a multiple of 1024. Three slots
give init a child and a grandchild to adopt, and four ids are more than the slots, so slots are
reused and ids run out. Three files are the least with which a pipe and an inode are open at once, and descriptors,
files and pipes all run out; two calls of `open()` may fail, in the same process or one in each. Three buffers for four blocks make every buffer be reused. One name is enough for
two processes to create, open and unlink the same file at once; they may create it twice, hence two inodes; one block for both makes
every allocation compete and the disk be full. Twelve pages are enough for two processes that both `exec()`,
and few enough to run out; page tables of four entries put the stack and a large break behind different tables. A ring of three drops
bytes, and a clock of six ticks wraps during a sleep. Nine units of heap hold three blocks with gaps, so that blocks are joined
below, above and on both sides. Three slots hold a session on each of two terminals and an orphan, and make `fork()` fail.
Seven keys reach each command from insert mode and back. Symmetry is
used in `files` and `inodes` only, where there is no liveness property.

`CHECK_DEADLOCK FALSE` is set for `Pipe`, `FileTable` and `Signals`, where every process may have exited, for `Inode` and `Memory`, where
`panic()` ends everything, and for `MCShell` and `MCVi`, where a line, an argument vector or a number of keys
comes to its end.

### Fairness

* Weak fairness of the kernel steps: a process in the kernel is not preempted and runs on.
* Strong fairness of `Preempt`: a tick that comes while interrupts are off stays latched in
  the interrupt controller and is taken when user mode is entered.
* Strong fairness of `Dispatch(p)`: the loop of `sched()` walks the table round.
* Strong fairness of `DiskIntr` (Proc): a drive that was given a command answers, and the interrupt is
  taken at the next moment when interrupts are on.
* Strong fairness of `Wait(InitSlot)` (Proc): init's main loop calls `wait()` again and again.

* Weak fairness of `Tick` and `SleepReturns` (Signals): the clock ticks, and a process that is woken up runs. That a program calls the kernel
  is not assumed, as no scheduler can make it: it is the premise `CallsKernel` of `KillEnds`. A program that loops without a system call does not take SIGKILL.

Nothing else is assumed of programs. `ZombiesCollected` has the premise that
interrupts are enabled again and again, because they may not be (see the second defect below).

### What does not hold

Run `pipe_eof` shows that `pipe_close()` does not call `wakeup()`: a reader that sleeps when the last write end
goes away sleeps for ever.

The following properties are stated in their modules and do not hold; no run has them. To see why, give TLC the
configuration of the run with that property alone, and the change that is named.

| Property | Configuration | What happens |
|---|---|---|
| `DiskSleepEnds` (Proc) | `MCProc` | a signal for a process that sleeps in `wd_read()` keeps `sched()` (`sched.c:24`) from enabling interrupts if nobody else can run |
| `OpenHasInode` (FileTable) | `MCFileTable`, two inodes | `file_close()` (`file.c:53`) writes to a `struct file` it no longer owns after `iput()` slept |
| `LimitReached` (FileTable) | `MCFileTable`, `SelfDup = TRUE` | `readers` is never decremented as `O_RDONLY` is 0 (`pipe.c:74`): pipes are never freed |
| `ReadIsDone` (BufferCache) | `MCBufferCache` | a second `wd_read()` overwrites `rdbuf` (`wd.c:199`); the first returns unfilled data |
| `LocksOwned` (Inode) | `MCInode` | `iget()` (`inode.c:60`) takes the entry, without references but locked, of an inode that `iput()` is freeing |
| `LinksCounted`, `BlocksOwned` (Inode) | `MCInode`, without `raced` in the property | `iget()` (`inode.c:43`) goes on with the number of an inode that was freed while it slept, or finds one that is being freed (`inode.c:346`) |
| `SleepersMarked` (Inode) | `MCInode`, three processes | `iget()` clears `I_WANTED` in an entry that `iput()` is freeing, and a third process sleeps on (`inode.c:60`) |
| `CleanIsOnDisk` (Inode) | `MCInode`, three processes, without `raced` in the property | `iupdate()` of `iput()` (`inode.c:353`) writes the entry that `iget()` has given to another inode |
| `StackFreed` (Memory) | `MCMemory` | `exit()` and `exec()` unmap the stack page and do not free it (`kern_exit.c:28`, `kern_exec.c:63`) |
| `ZeroIsEof` (Terminal) | `MCTerminal`, as `T!ZeroIsEof` | CTRL-l makes `read()` return 0 (`tty.c:83`), though `read.2` says that 0 is the end of file |
| `ExecClearsMask` (Signals) | `MCSignals` | `exec()` leaves a signal masked, though the comment at `kern_exec.c:45` says that it clears the mask |

The properties that hold have exceptions for behaviour of this kind, each named in the comment of the property: `overput` in
`RefsCounted` and `CountsExact`, `raced` in the other properties of `Inode`, `leaked` and `over` in the properties of `Memory`, `nested` and `inherited` in `HandlersReturn`, `Shadowed` in `KillEnds`,
`tabbed` in `EchoIsLine`,
`broken` in `PipesWired`, `OnlyLastMany` in `Globbed`, `lost` and `overrun` in `BytesKept`, `past` and `full` in `CursorInText`.

Other weak places, met while modelling, which no property covers: a writer to a full pipe whose readers are gone never returns (`pipe.c:54`);
`dup2(fd, fd)` (`file.c:294`) and a descriptor equal to `NFILE` (`file.c:276`); `ilock()` panics where it could sleep (`inode.c:253`); more than four arguments of an
escape sequence (`cons.c:138`); `sleep(0)`, which waits for the counter to come round (`proc.c:276`); an `open()` that fails in the shell (`sh.c:203`); a pipeline that begins while processes of the last one still run, after CTRL-c in
`wait_for_children()` (`sh.c:403`); a getty that cannot be
executed, whose child goes on as a second init (`init.c:80`), and a `fork()` that fails there, which leaves the terminal unserved (`init.c:74`); CTRL-c at the
password, which leaves echo off (`login.c:23`); files with lines that exceed the arrays of the editor (`vi.c:218`).

## 4. Proofs

`PipeProofs` proves, for any finite set of processes, any buffer size that divides
the modulus of the positions and any set of bytes:

* `TypeCorrect`, from the type invariant alone.
* `RingNeverOverfull`: with the types, the distance of the positions modulo `SizeMod` is at most `PIPE_BUF`.
  The arithmetic of the wrap-around is in lemmas of its own.
* `WritersAlwaysCounted`: the inductive invariant says that `ref_count` of each end is the number of processes that hold it
  and that `writers` is 1 while it is positive and 0 after. The lemmas are on
  the cardinality of the set of holders.
* `ZeroReadIsEof`, an action property, follows from it and the guard of `ReadReturn`.
* `NoWakeupLost`: the property speaks of quiescent states, so the inductive
  invariant also says, while a process is inside a call on the pipe, that sleepers of the other kind may be unserved
  only if that process has moved a byte or will call `wakeup()`. It needs that `readers` stays 1, so that the pipe is never
  destroyed under a sleeper.
* `PipeIsChannel`: each step of `Pipe` is a `Put`, a `Get`, a `Finish` or a stutter of `PipeChannel` under the mapping `Contents`.

`ProcProofs` proves `TypeCorrect`, `ParentsLive` and `ExitsNoticed` for any size of the table, by one inductive
invariant: the types, init is alive and not exiting, the running process is alive, `ParentAlive` and `NoExitMissed`. Neither
of the last two is inductive alone: that a process without children becomes a zombie needs `ParentAlive`
for those still in `proc_exit()`, and that needs the running process to be alive when it forks.
`Refinement` (`IsLineage`) adds that the ids of used slots differ and are below `nextpid`; then each step of `Proc` is a `Fork`, an `Adopt`, an `Exit`,
a `Collect` or a stutter of `Lineage`.
The same module has the proofs about `Signals`: `HandlersAlwaysReturn` (`HandlersReturn`) for any set of signals, by the types and one lemma on the end of a system
call (`LeaveKeeps`), and `SleepsEnd` (`SleepIsTimed`) for any clock: the invariant is that `ticks + due` is `wchan` modulo `TICKS` while the process sleeps, so the
tick that makes `due` 0 is the one that wakes it up.

`FileTableProofs` proves `Counts` (`CountsExact`) and `Writers` (`WritersCounted`) for any tables, any finite set of processes and any inodes and pipes. The
inductive invariant counts the references of a file as the cardinality of the set of descriptors and calls of `open()` that name it, has at least one reference of
an inode for each file open on it and each process that works in it, less the `overput` of the directory, and says what a call that sleeps in `namei()` or `iput()` has in hand. One lemma per kind of
step says how such a set grows or shrinks. The premise is that no program calls `dup2(fd, fd)` (`~SelfDup`), which closes the file
it then counts.

`BufferCacheProofs` proves `CacheConsistency` (`CacheConsistent`), `Locking` (`BuffersLocked`) and `NoDirtyLost` (`DirtyIsHeld`) for any number of buffers, blocks and
processes, and `ReferencesCounted`, that `ref_count` of a buffer is the number of processes that hold it or wait for the drive to fill it. The inductive invariant has that number, what
a process in `getblk()` or in `wd_read()` holds already (a buffer of another block, when it is about to read a bitmap), and that who sleeps on a buffer
is wanted. Without the count, `brelse()` could put a buffer that is being read on the free list, and `getblk()` give it another block.

`InodeProofs` proves `Soundness` (`CacheSound`), `Sleepers` (`SleepersWanted`) and `ReferenceCounts` (`RefsCounted`, until the race) for any number of slots,
inodes, blocks and names, any finite set of processes and any number of failed opens; there is no premise but `InodeAssumption`. The invariant is that `IndInv` holds
or `raced` does (`RacedInv`), and `IndInv` is

* the types, the local variables of the calls included;
* who has the CPU (`BusyOwned`), what the local variables are at each place of a call (`OpsOk`), and that an inode a process uses has
  been read, is not the root where the call forbids it and is not locked by another (`SlotsOk`);
* one slot per inode, locks that have an owner (`LocksOwned`), sleepers that are wanted, exact reference counts;
* the root stays in slot 0 and has links (`RootKept`).

None of the parts holds alone. `IgetMiss` takes a slot without references for another inode: that nobody is at work on it follows since each owner of a lock and each user
is one of the references that are counted, but for one that is freeing, which is the race. Likewise `IgetHit` finds no inode that is being freed, or the step sets
`raced`. That the root keeps its slot is the guard `DirReferenced` of the model. There
is one lemma for each action; steps that leave the references alone go through the lemmas `QuietStep` and `WorkStep`.

On top of `IndInv` the module proves what the file system holds: `OnDisk` (`CleanIsOnDisk`), `LinkCounts` (`LinksCounted`) and `BlockOwners` (`BlocksOwned`).
The invariant is that `IndInv` and `FsInv` hold or `raced` does (`RacedFs`), and `FsInv` is

* what a process knows of the inode it is at work on (`FsOk`): its number, which block it is about to free, that the inode it is freeing has no links and no
  references and is marked in the bitmap, and that the one it has just allocated is empty;
* an entry that is not marked dirty, and that nobody is reading or truncating, equals what is on disk (`CleanOrWorked`);
* a free inode is empty, and no entry of it is in use (`FreeIsEmpty`);
* links are names and `unlink()` calls under way (`LinksAre`), a block is in the bitmap exactly if an inode has it, and in one only (`BlocksAre`).

The contents of an inode are those of its entry, if it has one that has been read, and else those on disk (lemmas `ContentIs` and `ContentBecomes`). So
`IgetMiss`, which drops an entry, changes no contents because of `CleanOrWorked`, and that in turn holds as each step that writes to an entry has it locked, is freeing it or
marks it in the same step. An inode that is being freed is left alone by all others (`FreesAlone`, `LeavesLocked`), though its entry is not locked any more
when `ifree()` sleeps. `Ialloc` finds an empty inode because of `FreeIsEmpty`, and nobody else writes to it before it has a name: the call
that allocated it has the CPU or the lock until then. Steps that change no contents go through the lemma `QuietFs`, those that change one inode through `ChangeFs`.

`MemoryProofs` proves, for any number of processes, any amount of memory, any page tables and any programs: `EveryPageAccounted` (`PagesAccounted`), `SpacesComplete` (`AddressSpaces`) and
`NothingLeftBehind` (`NothingStale`). Every place that can hold the number of a page - the directory, an entry of the directory or of a page table, the new stack of `exec()` -
is one argument of a function `FramesOf`. The inductive invariant is

* the types (`MemTyped`);
* `Accounted`: no two places, of one process or of two, hold the same page, and the bitmap has the pages in those places, of the kernel and of `leaked`, and no others;
* what the address space of a process is at each point of its life (`SpaceOf`), and which of its pages are clean (`CleanOf`).

`PagesAccounted` counts pages; that the counts follow from `Accounted` is one lemma on the sizes of images of injective functions. A call takes its pages in the order in
which `vmm_alloc_page()` finds them; `FreeEnumerates` says that this order has each free page once, so what a call hands out is apart. The
pages that `exec()` and `exit()` unmap and forget go to `leaked`, which is why the invariant has it. Init needs that its own pages fit (`RoomForInit`).
`StacksWellFormed` (`StackLaidOut`) has the premise `StacksFit`: the arguments and the environment fit in the stack page. `exec()` does not look whether they do, so
without the premise the property is false. The strings are laid out by a recursive function over their number; what it gives is proved by
induction on a set of numbers, as a set without 0's successor would have a least element outside.

`TerminalProofs` proves `LineEchoed` (`EchoIsLine`) and `ReadersAwake` (`InputWakes`) of the three devices together, for any rings, readers, prompts and rows. The second is inductive with
the types: a character is put in the ring and the sleepers are woken up in one interrupt, and a reader looks at the ring and goes to sleep with
interrupts off. The first is not: within the loops of CTRL-w and CTRL-u the row and the line differ by the characters that one has lost and the other not yet, and `RowsKept` says by
how many at each of their steps (`TtyInv`).
`CursorStays` (`CursorOnScreen`) holds for every size of the screen that 16 bits can address. The invariant adds that the arguments of an
escape sequence are natural numbers; the lemmas are on quotient and remainder.

`ProgramProofs` has the proofs about programs:

* Sessions, for any number of slots and terminals. `SessionsKnown` (`OneSession`): the inductive invariant adds that pids
  differ and are below `nextpid`, that the leader of a session stays a child of init, and what init knows in the loop of `multi()`: the
  process it collected is gone for good, and when it had no children the only sessions are on the terminals it has been to. Without the
  last, a second getty could be started on a terminal that has one.
  `UsersIdentified` (`Identified`), for any `/etc/passwd` and `/etc/group` (`FilesRead`: they are finite lists, and `NGROUPS` is at least 2): `CredInv` says what a process has proved of
  its user at each call of login. The list of `getgrouplist()` is the places where the file has the name, in their order; lemmas on finite orders say that the k-th of them exists.
* The shell, for any lines and any limits, as long as no `pipe()` fails. `DescriptorsWired` (`PipesWired`): `ShInv` says where each descriptor of the shell and of a child
  is at each step between `pipe()` and `exec()`; the lemmas are on what the lowest free descriptor is.
* The editor, for every screen and buffer that the files fit in (`Fit`). `CursorKept` (`CursorInText`): `ViInv` has a weaker bound for the cursor in insert mode and after `:r`, and holds up to the key that goes beyond the arrays. `LinesStay` (`OthersKept`), an
  action property, follows from one lemma on the five things a key can do to the text (`TextChanged`).
* Streams, for any number of them and any buffer size. `StreamsKeepBytes` (`BytesKept`): `IoInv` adds until a buffer is overrun that each descriptor has one stream, in one direction, and that
  what was read are the first bytes of the file.
* The environment, for any names, values and vectors given by `exec()` (`Given`: names have no "=", as `setenv()` checks, and `exec()` was given each variable once). `VariablesKept` (`EnvKept`):
  `EnvInv` says that entries and the vector are in different places (`Apart`), which of them are pieces of the heap (`InUse`) and that the strings are those of the variables that are
  set (`Matching`). A string is of one name only, also when one name begins with another.
* The allocator, for every heap and any sequence of calls (`Sizes`). `HeapKept` (`HeapSound`): `HeapInv` says that there is a set of free blocks that `ptr` runs through in the order of addresses
  (`Linked`), none next to another (`Separate`), which with the blocks handed out and the program's own units covers the heap without overlap (`Tiled`). That set is not a function of one
  header, so the walk along the circular list needs an induction: from any block it comes to each block above it (`Climb`), hence to all, and back to `freep` (`WalkAll`). So `free()` finds
  the place it looks for, `malloc()` stops, and finds a block after `morecore()` gave one (`RoomFound`). `free()` is an insertion and two joins; each is a lemma on `Linked` and one on `Tiled`.

The assumptions of the proofs are those named in the modules (`PipeAssumption`, `ProcAssumption`, `FileAssumption`, `CacheAssumption`, `InodeAssumption`, `MemoryAssumption`,
`RoomForInit`; and in the modules of the runs `SignalsAssumption`, `Given`, `RoomForStrings`, `MallocAssumption`, `EnvironAssumption`, `ViAssumption` and that of `Shell`), which TLC evaluates in
each run, and the premises of the theorems: the same facts where a module is instantiated (`Numbers`, `Fit`, `Sizes`, `Given`), sizes that are natural numbers, and `FilesRead`, `StacksFit` and `~SelfDup`, explained above.

Only model-checked: liveness (`CallsProceed`, `ZombiesCollected`, `KillEnds`, `ReaderSeesEof`), which is out of the prover's reach; and `WordsPlaced` and `Globbed`, which compare
what the shell computes from a line or a pattern, by recursion over it, with a grammar: a proof would be by induction over data.

## 5. Plan

Done, in the order of importance: pipes; the process table; open files; the buffer cache and the disk; inodes; memory and exec; terminals; signals and sleep;
the shell; sessions and credentials; the C library; the editor.

Left: directories (`mkdir()`, `chdir()` and paths of several components) and indirect blocks in `Inode`.

## 6. Not modelled

Boot, CPU and interrupt-controller set-up run once or are register-level. Probing of disks and the network driver are device
I/O; no system call reaches the network. The stateless functions of the C library and of libkern, formatting, and the
utilities other than the editor are sequential code on text. The contents of blocks and of files, and of memory but for whose data it
holds, are abstracted throughout.
