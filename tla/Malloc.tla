------------------------------- MODULE Malloc -------------------------------
(***************************************************************************)
(* The storage allocator of lib/libc: malloc(), morecore() and free() of   *)
(* malloc.c over sbrk() of brk.c.  Sizes and addresses are in units of one *)
(* header; a block is its header and what follows.  The list header "base" *)
(* is a variable of the program and lies below the heap.                   *)
(***************************************************************************)
EXTENDS Integers, FiniteSets, FiniteSetsExt

CONSTANTS
    NALLOC,     \* units that morecore() asks for at least
    MAX_HEAP,   \* bound: units that the kernel grants; brk() fails above
    Units,      \* bound: what malloc() is asked for, header included
    FOREIGN     \* bound: units that the program takes with sbrk() itself

Sizes == NALLOC \in Nat /\ MAX_HEAP \in Nat /\ Units \subseteq Nat \ {0}

base == 0
FirstUnit == 2      \* where the heap begins; base is not next to it

VARIABLES
    heap,       \* [ptr, size, freep]: the headers and the start of the list
    curbrk,     \* the first unit after the heap
    blocks,     \* history: units handed out by malloc() and not freed
    foreign     \* history: the units that the program got from sbrk()

vars == <<heap, curbrk, blocks, foreign>>

Addrs == 0 .. FirstUnit + MAX_HEAP

(* malloc() with freep == NULL begins with a list of base alone *)
Init ==
    /\ heap = [ptr |-> [a \in Addrs |-> base], size |-> [a \in Addrs |-> 0], freep |-> base]
    /\ curbrk = FirstUnit
    /\ blocks = << >>
    /\ foreign = {}

-----------------------------------------------------------------------------
(* The list from freep on: the k-th block after it *)
Walk(h) ==
    LET walk[k \in 0 .. FirstUnit + MAX_HEAP + 1] == IF k = 0 THEN h.freep ELSE h.ptr[walk[k - 1]] IN walk

(* Headers that are now inside a block: nothing reads what they held *)
Without(gone, h) ==
    [ptr |-> [a \in Addrs |-> IF a \in gone THEN base ELSE h.ptr[a]],
     size |-> [a \in Addrs |-> IF a \in gone THEN 0 ELSE h.size[a]],
     freep |-> h.freep]

(* Mutant: a block that ends where another begins is not looked for *)
JoinsUpperNever(h, bp, p) == FALSE
(* join to upper nbr: the block after p begins where bp ends *)
JoinsUpper(h, bp, p) == bp + h.size[bp] = h.ptr[p]

(* free(): bp goes after p, and is joined with both its neighbours *)
Between(h, bp, p) ==
    \/ bp > p /\ bp < h.ptr[p]
    \/ p >= h.ptr[p] /\ (bp > p \/ bp < h.ptr[p])

(* The block that bp goes after *)
Place(h, bp) ==
    LET walk == Walk(h) IN walk[Min({k \in DOMAIN walk : Between(h, bp, walk[k])})]

Joined(h, bp, p) ==
    LET up == h.ptr[p]
        upper == JoinsUpper(h, bp, p)
        lower == p + h.size[p] = bp
        len == h.size[bp] + (IF upper THEN h.size[up] ELSE 0)
        next == IF upper THEN h.ptr[up] ELSE up
        gone == (IF upper THEN {up} ELSE {}) \cup (IF lower THEN {bp} ELSE {})
    IN Without(gone, [ptr |-> IF lower THEN [h.ptr EXCEPT ![p] = next] ELSE [h.ptr EXCEPT ![bp] = next, ![p] = bp],
                      size |-> IF lower THEN [h.size EXCEPT ![p] = @ + len] ELSE [h.size EXCEPT ![bp] = len],
                      freep |-> p])

Freed(h, bp) == Joined(h, bp, Place(h, bp))

(* The first block of the list, from the one after freep, that is big       *)
(* enough; the last one looked at is freep itself                           *)
Big(h, n) ==
    LET walk == Walk(h)
        last == Min({k \in DOMAIN walk \ {0} : walk[k] = h.freep})
    IN {k \in 1 .. last : h.size[walk[k]] >= n}

(* allocate tail end of p, or p itself when it is exactly as large *)
Carved(h, n, prevp, p) ==
    LET rest == h.size[p] - n
    IN IF rest = 0
       THEN [at |-> p, heap |-> [h EXCEPT !.ptr = [@ EXCEPT ![prevp] = h.ptr[p], ![p] = base], !.freep = prevp]]
       ELSE [at |-> p + rest, heap |-> [h EXCEPT !.size = [@ EXCEPT ![p] = rest, ![p + rest] = n],
                                                 !.freep = prevp]]

Taken(h, n) == LET k == Min(Big(h, n)) IN Carved(h, n, Walk(h)[k - 1], Walk(h)[k])

(* morecore(): what it asks sbrk() for, and the list with it *)
More(n) == Max({n, NALLOC})
Grants(n) == curbrk + n <= FirstUnit + MAX_HEAP
Grown(n) == Freed([heap EXCEPT !.size[curbrk] = More(n)], curbrk)

Hand(t, n) ==
    /\ heap' = t.heap
    /\ blocks' = [a \in DOMAIN blocks \cup {t.at} |-> IF a = t.at THEN n ELSE blocks[a]]

-----------------------------------------------------------------------------
malloc(n) ==
    /\ Big(heap, n) # {}
    /\ Hand(Taken(heap, n), n)
    /\ UNCHANGED <<curbrk, foreign>>

(* none is big enough, and the kernel grants more *)
mallocMore(n) ==
    /\ Big(heap, n) = {} /\ Grants(More(n))
    /\ Hand(Taken(Grown(n), n), n)
    /\ curbrk' = curbrk + More(n)
    /\ UNCHANGED foreign

(* malloc() returns NULL *)
mallocFails(n) == Big(heap, n) = {} /\ ~Grants(More(n)) /\ UNCHANGED vars

free(b) ==
    /\ heap' = Freed(heap, b)
    /\ blocks' = [a \in DOMAIN blocks \ {b} |-> blocks[a]]
    /\ UNCHANGED <<curbrk, foreign>>

(* The program calls sbrk(): the heap is no longer in one piece *)
sbrk(n) ==
    /\ Cardinality(foreign) + n <= FOREIGN /\ Grants(n)
    /\ curbrk' = curbrk + n
    /\ foreign' = foreign \cup curbrk .. curbrk + n - 1
    /\ UNCHANGED <<heap, blocks>>

Next ==
    \/ \E n \in Units : malloc(n) \/ mallocMore(n) \/ mallocFails(n)
    \/ \E b \in DOMAIN blocks : free(b)
    \/ sbrk(1)

Spec == Init /\ [][Next]_vars

-----------------------------------------------------------------------------
FreeBlocks == {Walk(heap)[k] : k \in DOMAIN Walk(heap)} \ {base}
Cells(a, n) == a .. a + n - 1

(***************************************************************************)
(* malloc(), free(): each unit of the heap is in one block, free or handed *)
(* out with the size that was asked for, or is the program's own; the list *)
(* is in address order, and no two free blocks are next to each other.     *)
(***************************************************************************)
HeapSound ==
    LET owners(u) == {<<"free", f>> : f \in {g \in FreeBlocks : u \in Cells(g, heap.size[g])}}
                     \cup {<<"used", b>> : b \in {c \in DOMAIN blocks : u \in Cells(c, blocks[c])}}
                     \cup {<<"foreign", u>> : v \in {u} \cap foreign}
    IN /\ \A u \in FirstUnit .. curbrk - 1 : \E o \in owners(u) : owners(u) = {o}
       /\ \A b \in DOMAIN blocks : heap.size[b] = blocks[b]
       /\ \A f \in FreeBlocks \cup {base} :
             /\ heap.size[f] > 0 \/ f = base
             /\ heap.ptr[f] = base => \A g \in FreeBlocks : g <= f
             /\ heap.ptr[f] # base => heap.ptr[f] = Min({g \in FreeBlocks : g > f})
             /\ f + heap.size[f] \notin FreeBlocks
=============================================================================
