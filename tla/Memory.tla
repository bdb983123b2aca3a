------------------------------- MODULE Memory -------------------------------
(***************************************************************************)
(* Physical pages and address spaces: the page allocator of i386/vmm.c,    *)
(* the page directories and tables of i386/pmap.c, and what brk(), fork(), *)
(* exec() and exit() do with them (kern/proc.c, kern_fork.c, kern_exec.c,  *)
(* kern_exit.c).  The kernel runs without interrupts: a call is one step,  *)
(* but for exec(), which sleeps while it reads the program, and exit(),    *)
(* which may sleep while it closes files.                                  *)
(*                                                                         *)
(* Addresses are page numbers.  Page 0 is a page of the kernel; as the     *)
(* value of an entry it means "not present".                               *)
(***************************************************************************)
EXTENDS Integers, FiniteSetsExt, SequencesExt

CONSTANTS
    NPROC,          \* slots of the process table
    PAGES,          \* physical pages of the machine
    BYTE,           \* pages per entry of vmm_bitmap (8)
    KERNEL_END,     \* the last page of the kernel
    TABLE_LEN,      \* pages that one page table maps
    USER_TEXT, USER_USTACK,
    PAGE_SIZE,      \* bytes per page, as far as rounding goes
    STACK_SIZE,     \* bytes per page, as far as the layout of a stack goes
    MAX_BRK,        \* bound: the last page that brk() is asked for
    MAX_TEXT,       \* bound: pages of a program
    Strings         \* bound: lengths of the strings passed to exec()

ASSUME MemoryAssumption ==
    /\ NPROC \in Nat \ {0} /\ BYTE \in Nat \ {0} /\ PAGES \in Nat /\ PAGES % BYTE = 0
    /\ KERNEL_END \in 0 .. PAGES - 1
    /\ TABLE_LEN \in Nat \ {0} /\ PAGE_SIZE \in Nat \ {0} /\ STACK_SIZE \in Nat
    /\ USER_TEXT \in Nat \ {0} /\ MAX_TEXT \in Nat \ {0}
    /\ USER_USTACK \in Nat /\ USER_TEXT + MAX_TEXT < USER_USTACK
    /\ MAX_BRK \in Nat /\ USER_USTACK <= MAX_BRK
    /\ \A s \in Strings : s \in Seq(Nat)

Procs == 0 .. NPROC - 1
Init0 == 0                      \* the slot of init
Pages == 0 .. PAGES - 1
VPages == 0 .. MAX_BRK
PdIndex(v) == v \div TABLE_LEN
PdIndexes == 0 .. PdIndex(MAX_BRK)
W == 4                          \* sizeof(uintptr_t)

VARIABLES
    bitmap, index,  \* vmm_bitmap, as a set, and vmm_bitmap_index
    dir,            \* pmap.pg_dir_paddr
    table,          \* the entries of the page directory
    pte,            \* the entries of the page tables
    brk,            \* p->brk
    st,             \* how far a process is
    ustack,         \* the new stack of a process in exec()
    clean,          \* pages that hold nothing of an earlier owner
    layout,         \* the stack that proc_init_ustack() wrote last, while exec() is not done
    leaked,         \* history: pages that nothing refers to any more
    over,           \* history: the process took its stack into the heap
    panic

space == <<dir, table, pte, brk>>
vars == <<bitmap, index, space, st, ustack, clean, layout, leaked, over, panic>>

-----------------------------------------------------------------------------
(* vmm.c.  The n-th page that vmm_alloc_page() hands out from here on: it   *)
(* goes through the entries of the bitmap from index on, around the end,    *)
(* and takes the lowest free bit of the first that has one.                 *)

Entry(pg) == pg \div BYTE
(* How many bits are looked at before that of pg *)
Distance(ix, pg) == (pg - ix * BYTE) % PAGES
Free(bm, ix) ==
    LET free == Pages \ bm
        rank(pg) == Cardinality({q \in free : Distance(ix, q) <= Distance(ix, pg)})
    IN [n \in 1 .. Cardinality(free) |-> CHOOSE pg \in free : rank(pg) = n]

(* bitmap and index after n pages were handed out *)
Taken(bm, ix, n) == bm \cup {Free(bm, ix)[i] : i \in 1 .. n}
IndexAfter(bm, ix, n) == IF n = 0 THEN ix ELSE Entry(Free(bm, ix)[n])

(* mem_detect(): the last page of a region is left out *)
Available == {pg \in Pages : pg > KERNEL_END /\ pg + 1 < PAGES}

(* There are pages for init: without them the machine does not start *)
ASSUME RoomForInit == Cardinality(Available) >= 5

-----------------------------------------------------------------------------
(* pmap.c.  What pmap_enter() of the pages lo .. hi - 1 allocates, in       *)
(* order: each page, and its page table where none is present               *)

Enters(present, lo, hi) ==
    LET one(v) == IF PdIndex(v) \in present \/ (v > lo /\ PdIndex(v - 1) = PdIndex(v))
                  THEN << <<"page", v>> >>
                  ELSE << <<"page", v>>, <<"table", PdIndex(v)>> >>
    IN FlattenSeq([i \in 1 .. hi - lo |-> one(lo + i - 1)])

(* Mutant: new pages are handed out as they are *)
ZeroedNot(pages) == {}
(* pmap_zero_page() of new pages *)
Zeroed(pages) == pages

(* The page that the request got, or what was there before *)
Got(reqs, pages, what, before) ==
    IF \E i \in DOMAIN reqs : reqs[i] = what
    THEN pages[CHOOSE i \in DOMAIN reqs : reqs[i] = what]
    ELSE before

Present(p) == {d \in PdIndexes : table[p][d] # 0}

NewTable(reqs, pages, before) ==
    [d \in PdIndexes |-> Got(reqs, pages, <<"table", d>>, before[d])]
NewPte(reqs, pages, before) ==
    [v \in VPages |-> Got(reqs, pages, <<"page", v>>, before[v])]

(* The loop in exec() and exit() that takes the stack away: from            *)
(* USER_USTACK down, as long as there is a page                             *)
StackPages(map) ==
    {v \in VPages : v <= USER_USTACK /\ \A u \in v .. USER_USTACK : map[u] # 0}

(* pmap_remove() *)
Removed(map, vs) == [v \in VPages |-> IF v \in vs THEN 0 ELSE map[v]]
At(map, vs) == {map[v] : v \in vs}

-----------------------------------------------------------------------------
(* proc_init_ustack(): where the strings and vectors go, from the lengths   *)
(* of the strings                                                           *)

(* Mutant: a string whose length is a multiple of four has no room for its 0 *)
StackLenTight(len) == ((len + W - 1) \div W) * W
StackLen(len) == ((len + W) \div W) * W
(* esp when n strings are copied *)
Below(from, lens, n) ==
    LET esp[k \in 0 .. Len(lens)] == IF k = 0 THEN from ELSE esp[k - 1] - StackLen(lens[k]) IN esp[n]

Ustack(argv, envp) ==
    LET envpAt == Below(STACK_SIZE, envp, Len(envp)) - W * (Len(envp) + 1)
        argpAt == Below(envpAt, argv, Len(argv)) - W * Len(argv)
    IN [argv |-> argv, envp |-> envp,
        envAt |-> [e \in DOMAIN envp |-> Below(STACK_SIZE, envp, e)],
        envpAt |-> envpAt,
        argAt |-> [a \in DOMAIN argv |-> Below(envpAt, argv, a)],
        argpAt |-> argpAt,
        esp |-> argpAt - 4 * W]     \* environ, argc, argv and envp

(* exec() does not look whether the page is large enough *)
StacksFit == \A argv, envp \in Strings \cup {<<>>} : Ustack(argv, envp).esp >= 0

-----------------------------------------------------------------------------
NoSpace == [v \in VPages |-> 0]
NoLayout == Ustack(<<>>, <<>>)
NoTables == [d \in PdIndexes |-> 0]

(* proc_create() of init, with a program of one page *)
Init ==
    /\ LET bm == Pages \ Available
           free == Free(bm, 0)
           reqs == << <<"dir", 0>>, <<"page", USER_USTACK>>, <<"table", PdIndex(USER_USTACK)>> >>
           all == reqs \o Enters({PdIndex(USER_USTACK)}, USER_TEXT, USER_TEXT + 1)
       IN /\ bitmap = Taken(bm, 0, Len(all))
          /\ index = IndexAfter(bm, 0, Len(all))
          /\ dir = [p \in Procs |-> IF p = Init0 THEN free[1] ELSE 0]
          /\ table = [p \in Procs |-> IF p = Init0 THEN NewTable(all, free, NoTables) ELSE NoTables]
          /\ pte = [p \in Procs |-> IF p = Init0 THEN NewPte(all, free, NoSpace) ELSE NoSpace]
          /\ clean = {free[i] : i \in 1 .. Len(all)}
    /\ brk = [p \in Procs |-> IF p = Init0 THEN USER_TEXT + 1 ELSE USER_TEXT]
    /\ st = [p \in Procs |-> IF p = Init0 THEN "run" ELSE "null"]
    /\ ustack = [p \in Procs |-> 0]
    /\ layout = NoLayout
    /\ leaked = {}
    /\ over = {}
    /\ panic = FALSE

Running(p) == ~panic /\ st[p] = "run"
Enough(bm, n) == Cardinality(Pages \ bm) >= n

(* vmm_alloc_page() finds no page *)
Panic == panic' = TRUE /\ UNCHANGED <<bitmap, index, space, st, ustack, clean, layout, leaked, over>>

-----------------------------------------------------------------------------
(* proc_break(), for an address *)
BrkPage(addr) ==
    IF addr < USER_TEXT * PAGE_SIZE THEN USER_TEXT ELSE (addr + PAGE_SIZE - 1) \div PAGE_SIZE

(* brk() that makes the heap larger: pages that were there, the stack       *)
(* among them, are lost                                                     *)
Grow(p, addr) ==
    LET to == BrkPage(addr)
        reqs == Enters(Present(p), brk[p], to)
        free == Free(bitmap, index)
        got == {free[i] : i \in DOMAIN reqs}
    IN /\ Running(p) /\ to > brk[p]
       /\ IF ~Enough(bitmap, Len(reqs)) THEN Panic ELSE
          /\ bitmap' = Taken(bitmap, index, Len(reqs))
          /\ index' = IndexAfter(bitmap, index, Len(reqs))
          /\ table' = [table EXCEPT ![p] = NewTable(reqs, free, @)]
          /\ pte' = [pte EXCEPT ![p] = NewPte(reqs, free, @)]
          /\ brk' = [brk EXCEPT ![p] = to]
          /\ clean' = clean \cup Zeroed(got)
          /\ leaked' = leaked \cup (At(pte[p], brk[p] .. to - 1) \ {0})
          /\ over' = IF to > USER_USTACK THEN over \cup {p} ELSE over
          /\ UNCHANGED <<dir, st, ustack, layout, panic>>

(* Mutant: the first page that is given up stays mapped *)
DroppedFirst(p, to) == to + 1 .. brk[p] - 1
(* The pages that proc_break() gives up *)
Dropped(p, to) == to .. brk[p] - 1

Shrink(p, addr) ==
    LET to == BrkPage(addr)
        freed == At(pte[p], to .. brk[p] - 1)
    IN /\ Running(p) /\ addr # 0 /\ to < brk[p]
       /\ bitmap' = bitmap \ freed
       /\ pte' = [pte EXCEPT ![p] = Removed(@, Dropped(p, to))]
       /\ brk' = [brk EXCEPT ![p] = to]
       /\ clean' = clean \ freed
       /\ UNCHANGED <<index, dir, table, st, ustack, layout, leaked, over, panic>>

(* fork(): page directory, stack, then the pages up to the parent's break,  *)
(* each a copy of the parent's.  A heap that covers the stack is allocated  *)
(* over the stack.                                                          *)
Fork(p) ==
    LET idle == {c \in Procs : st[c] = "null"}
        c == Min(idle)
        first == << <<"dir", 0>>, <<"stack", USER_USTACK>>, <<"table", PdIndex(USER_USTACK)>> >>
        free == Free(bitmap, index)
        reqs == first \o Enters({PdIndex(USER_USTACK)}, USER_TEXT, brk[p])
        stack == [NoSpace EXCEPT ![USER_USTACK] = free[2]]
        child == NewPte(reqs, free, stack)
        copied == {v \in VPages : child[v] # 0}
    IN /\ Running(p) /\ idle # {}
       /\ IF ~Enough(bitmap, Len(reqs)) THEN Panic ELSE
          /\ bitmap' = Taken(bitmap, index, Len(reqs))
          /\ index' = IndexAfter(bitmap, index, Len(reqs))
          /\ dir' = [dir EXCEPT ![c] = free[1]]
          /\ table' = [table EXCEPT ![c] = NewTable(reqs, free, NoTables)]
          /\ pte' = [pte EXCEPT ![c] = child]
          /\ brk' = [brk EXCEPT ![c] = brk[p]]
          /\ st' = [st EXCEPT ![c] = "run"]
          /\ clean' = clean \cup At(child, {v \in copied : pte[p][v] \in clean})
                            \cup {free[1]} \cup (At(NewTable(reqs, free, NoTables), PdIndexes) \ {0})
          /\ leaked' = leaked \cup ({free[2]} \ At(child, copied))
          /\ over' = IF p \in over THEN over \cup {c} ELSE over \ {c}
          /\ UNCHANGED <<ustack, layout, panic>>

-----------------------------------------------------------------------------
(* exec(), up to where it sleeps in readi(): the new stack, then the old    *)
(* pages are freed and those of the program allocated                       *)
ExecStart(p, size, argv, envp) ==
    LET new == Free(bitmap, index)[1]
        freed == At(pte[p], Dropped(p, USER_TEXT))
        bm == Taken(bitmap, index, 1) \ freed
        ix == IndexAfter(bitmap, index, 1)
        map == Removed(pte[p], Dropped(p, USER_TEXT))
        to == BrkPage(USER_TEXT * PAGE_SIZE + size)
        reqs == Enters(Present(p), USER_TEXT, to)
        free == Free(bm, ix)
    IN /\ Running(p)
       /\ IF ~Enough(bitmap, 1) \/ ~Enough(bm, Len(reqs)) THEN Panic ELSE
          /\ bitmap' = Taken(bm, ix, Len(reqs))
          /\ index' = IndexAfter(bm, ix, Len(reqs))
          /\ table' = [table EXCEPT ![p] = NewTable(reqs, free, @)]
          /\ pte' = [pte EXCEPT ![p] = NewPte(reqs, free, map)]
          /\ brk' = [brk EXCEPT ![p] = to]
          /\ st' = [st EXCEPT ![p] = "exec"]
          /\ ustack' = [ustack EXCEPT ![p] = new]
          /\ clean' = (clean \ freed) \cup Zeroed({new} \cup {free[i] : i \in DOMAIN reqs})
          /\ layout' = Ustack(argv, envp)
          /\ UNCHANGED <<dir, leaked, over, panic>>

(* The pages of the old stack, that nothing refers to from here on *)
OldStack(p) == At(pte[p], StackPages(pte[p]))

(* The program is read: the old stack goes, the new one is mapped *)
ExecFinish(p) ==
    /\ ~panic /\ st[p] = "exec"
    /\ pte' = [pte EXCEPT ![p] = [Removed(@, StackPages(@)) EXCEPT ![USER_USTACK] = ustack[p]]]
    /\ leaked' = leaked \cup OldStack(p)
    /\ ustack' = [ustack EXCEPT ![p] = 0]
    /\ st' = [st EXCEPT ![p] = "run"]
    /\ over' = over \ {p}
    /\ layout' = NoLayout
    /\ UNCHANGED <<bitmap, index, dir, table, brk, clean, panic>>

(* exit(), up to where it closes the files: user pages and stack.  Init     *)
(* does not exit.                                                           *)
ExitUnmap(p) ==
    LET freed == At(pte[p], Dropped(p, USER_TEXT))
        rest == Removed(pte[p], Dropped(p, USER_TEXT))
    IN /\ Running(p) /\ p # Init0
       /\ bitmap' = bitmap \ freed
       /\ clean' = clean \ freed
       /\ pte' = [pte EXCEPT ![p] = Removed(rest, StackPages(rest))]
       /\ leaked' = leaked \cup At(rest, StackPages(rest))
       /\ brk' = [brk EXCEPT ![p] = USER_TEXT]
       /\ st' = [st EXCEPT ![p] = "exit"]
       /\ UNCHANGED <<index, dir, table, ustack, layout, over, panic>>

(* Mutant: only the page directory is freed *)
OwnPagesDirectory(p) == {dir[p]}
(* What pmap_destroy() frees *)
OwnPages(p) == {dir[p]} \cup (At(table[p], PdIndexes) \ {0})

(* exit(), to its end *)
ExitDestroy(p) ==
    /\ ~panic /\ st[p] = "exit"
    /\ bitmap' = bitmap \ OwnPages(p)
    /\ clean' = clean \ OwnPages(p)
    /\ dir' = [dir EXCEPT ![p] = 0]
    /\ table' = [table EXCEPT ![p] = NoTables]
    /\ st' = [st EXCEPT ![p] = "zombie"]
    /\ UNCHANGED <<index, pte, brk, ustack, layout, leaked, over, panic>>

(* wait() frees the slot *)
Reap(p) ==
    /\ ~panic /\ st[p] = "zombie"
    /\ st' = [st EXCEPT ![p] = "null"]
    /\ UNCHANGED <<bitmap, index, space, ustack, clean, layout, leaked, over, panic>>

Next ==
    \E p \in Procs :
        \/ \E addr \in 0 .. (MAX_BRK + 1) * PAGE_SIZE : Grow(p, addr) \/ Shrink(p, addr)
        \/ Fork(p)
        \/ \E size \in 1 .. MAX_TEXT * PAGE_SIZE, argv \in Strings, envp \in Strings :
               ExecStart(p, size, argv, envp)
        \/ ExecFinish(p) \/ ExitUnmap(p) \/ ExitDestroy(p) \/ Reap(p)

Spec == Init /\ [][Next]_vars

-----------------------------------------------------------------------------
(* Page frames by owner *)
Mapped(p) == {v \in VPages : pte[p][v] # 0}
Tables(p) == ({dir[p]} \cup At(table[p], PdIndexes)) \ {0}
Owned(p) == ((At(pte[p], VPages) \cup {ustack[p]}) \ {0}) \cup Tables(p)

(***************************************************************************)
(* No page is in two places: not in two address spaces, not twice in one,  *)
(* not a page table and a user page.  And vmm_bitmap knows exactly of the  *)
(* pages that are in use, of those of the kernel, and of the stacks that   *)
(* exec() and exit() unmapped and did not free.                            *)
(***************************************************************************)
PagesAccounted ==
    /\ bitmap = (Pages \ Available) \cup leaked \cup UNION {Owned(p) : p \in Procs}
    /\ \A p \in Procs :
         /\ Owned(p) \cap ((Pages \ Available) \cup leaked) = {}
         /\ \A q \in Procs \ {p} : Owned(p) \cap Owned(q) = {}
         /\ Cardinality(Owned(p)) = Cardinality(Mapped(p)) + Cardinality(Tables(p))
                                      + Cardinality({ustack[p]} \ {0})

(***************************************************************************)
(* A process in user mode has the pages from USER_TEXT to its break and    *)
(* its stack, no other page, and each behind a page table of its own; it   *)
(* has no stack of its own only after brk() ran over it.                   *)
(***************************************************************************)
AddressSpaces ==
    \A p \in Procs : st[p] = "run" =>
        /\ Mapped(p) \ {USER_USTACK} = (USER_TEXT .. brk[p] - 1) \ {USER_USTACK}
        /\ p \in over \/ USER_USTACK \in Mapped(p)
        /\ dir[p] # 0 /\ \A v \in Mapped(p) : table[p][PdIndex(v)] # 0

(***************************************************************************)
(* What a process finds in its memory is zero, its program, or a copy of   *)
(* its parent's: never what another process left in a page it freed.       *)
(***************************************************************************)
NothingStale ==
    \A p \in Procs : st[p] = "run" /\ p \notin over => At(pte[p], Mapped(p)) \subseteq clean

(* What proc_init_ustack() wrote, from the top of the page down *)
StackPieces ==
    LET piece(at, len) == at .. at + len - 1
        n == Len(layout.envp)  m == Len(layout.argv)
    IN [e \in 1 .. n |-> piece(layout.envAt[e], layout.envp[e] + 1)]
       \o << piece(layout.envpAt, W * (n + 1)) >>
       \o [a \in 1 .. m |-> piece(layout.argAt[a], layout.argv[a] + 1)]
       \o << piece(layout.argpAt, W * m), piece(layout.esp, 4 * W) >>

(***************************************************************************)
(* The stack of a new program: every string with its terminating 0, both   *)
(* vectors and the words for crt0 and main() are within the page, and no   *)
(* two of them overlap.                                                    *)
(***************************************************************************)
StackLaidOut ==
    \A i \in DOMAIN StackPieces :
        /\ StackPieces[i] \subseteq 0 .. STACK_SIZE - 1
        /\ \A j \in DOMAIN StackPieces \ {i} : StackPieces[i] \cap StackPieces[j] = {}

(***************************************************************************)
(* As kern_exit.c says, "Free stack": when a process has exited, none of   *)
(* the pages it had is lost.                                               *)
(***************************************************************************)
StackFreed == leaked = {}
=============================================================================
