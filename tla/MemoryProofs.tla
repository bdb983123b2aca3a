---------------------------- MODULE MemoryProofs ----------------------------
(***************************************************************************)
(* Proofs about Memory, for any number of processes and pages and any      *)
(* layout of an address space: no page is in two places and vmm_bitmap     *)
(* knows of exactly the pages that are in use, a process has the pages up  *)
(* to its break and its stack, and nothing that another process left in a  *)
(* page; the arguments and the environment of a new program do not overlap *)
(* on its stack.                                                           *)
(***************************************************************************)
EXTENDS Memory, FiniteSetTheorems, FunctionTheorems, SequenceTheorems, WellFoundedInduction, TLAPS

(* The pages of the kernel.                                                 *)
Kernel == Pages \ Available

(* Where a process may have a page: its page directory, its page tables,    *)
(* its address space, and the stack that exec() prepares.                   *)
DirAt == <<"dir", 0>>
NewAt == <<"ustack", 0>>
TableAt(i) == <<"table", i>>
PageAt(v) == <<"page", v>>
Place == {DirAt, NewAt} \cup {TableAt(i) : i \in PdIndexes} \cup {PageAt(v) : v \in VPages}
FrameAt(d, t, m, u, x) ==
    CASE x[1] = "dir" -> d
      [] x[1] = "ustack" -> u
      [] x[1] = "table" -> t[x[2]]
      [] OTHER -> m[x[2]]
Frames(d, t, m, u) == [x \in Place |-> FrameAt(d, t, m, u, x)]
FramesOf == [p \in Procs |-> Frames(dir[p], table[p], pte[p], ustack[p])]

(* No page is in two places, and those of the kernel, those in some place   *)
(* and those that are lost are the pages that are not free.                 *)
Accounted(F, bm, lost) ==
    /\ F \in [Procs -> [Place -> Pages]] /\ bm \subseteq Pages
    /\ Kernel \cup lost \subseteq bm
    /\ \A p, q \in Procs : \A x, y \in Place :
         F[p][x] # 0 /\ F[p][x] = F[q][y] => p = q /\ x = y
    /\ \A p \in Procs : \A x \in Place :
         F[p][x] # 0 => F[p][x] \in bm /\ F[p][x] \notin Kernel \cup lost
    /\ \A pg \in bm : pg \in Kernel \cup lost \/ \E p \in Procs : \E x \in Place : F[p][x] = pg

-----------------------------------------------------------------------------
(* The inductive invariant.                                                 *)
MemTyped ==
    /\ index \in Nat
    /\ dir \in [Procs -> Pages] /\ ustack \in [Procs -> Pages]
    /\ table \in [Procs -> [PdIndexes -> Pages]]
    /\ pte \in [Procs -> [VPages -> Pages]]
    /\ brk \in [Procs -> USER_TEXT .. MAX_BRK + 1]
    /\ st \in [Procs -> {"null", "run", "exec", "exit", "zombie"}]
    /\ over \subseteq Procs

(* Who has user pages: those up to the break and the stack, each behind a   *)
(* page table.                                                              *)
Maps(p) ==
    /\ \A v \in VPages \ {USER_USTACK} : pte[p][v] # 0 <=> v \in USER_TEXT .. brk[p] - 1
    /\ brk[p] > USER_USTACK => pte[p][USER_USTACK] # 0 /\ p \in over
    /\ p \in over \/ pte[p][USER_USTACK] # 0
    /\ dir[p] # 0 /\ table[p][PdIndex(USER_USTACK)] # 0
    /\ \A v \in VPages : pte[p][v] # 0 => table[p][PdIndex(v)] # 0

(* How far a process is says which places hold a page.                      *)
SpaceOf(p) ==
    /\ st[p] \in {"run", "exec"} => Maps(p)
    /\ st[p] \notin {"run", "exec"} => \A v \in VPages : pte[p][v] = 0
    /\ st[p] = "exec" => ustack[p] # 0 /\ brk[p] <= USER_TEXT + MAX_TEXT
    /\ st[p] # "exec" => ustack[p] = 0
    /\ st[p] = "exit" => dir[p] # 0
    /\ st[p] \in {"null", "zombie"} => dir[p] = 0 /\ \A d \in PdIndexes : table[p][d] = 0

(* Nothing of an earlier owner is in a page that a process can look at.     *)
CleanOf(p) ==
    /\ st[p] = "run" /\ p \notin over => \A v \in VPages : pte[p][v] # 0 => pte[p][v] \in clean
    /\ st[p] = "exec" =>
         /\ ustack[p] \in clean
         /\ \A v \in VPages \ {USER_USTACK} : pte[p][v] # 0 => pte[p][v] \in clean

IndInv ==
    /\ MemTyped /\ Accounted(FramesOf, bitmap, leaked)
    /\ \A p \in Procs : SpaceOf(p) /\ CleanOf(p)

-----------------------------------------------------------------------------
(* A set of naturals that has 0 and with each number the next has them all. *)
LEMMA Induction ==
    ASSUME NEW S, 0 \in S, \A n \in Nat : n \in S => n + 1 \in S
    PROVE  \A n \in Nat : n \in S
<1> SUFFICES ASSUME NEW m \in Nat, m \notin S PROVE FALSE
  OBVIOUS
<1> DEFINE Less == {ss \in Nat \X Nat : ss[1] < ss[2]}
           C == {n \in Nat : n \notin S}
<1>1. IsWellFoundedOn(Less, Nat)
  BY NatLessThanWellFounded DEF OpToRel
<1>2. C \subseteq Nat /\ C # {}
  OBVIOUS
<1>3. PICK x \in C : \A y \in C : ~(<<y, x>> \in Less)
  <2> HIDE DEF Less, C
  <2> QED BY <1>1, <1>2, WFMin
<1>4. x \in Nat /\ x # 0
  OBVIOUS
<1>5. x - 1 \in Nat /\ <<x - 1, x>> \in Less
  BY <1>4
<1>6. x - 1 \in S
  BY <1>3, <1>5
<1>7. x \in S
  BY <1>5, <1>6, (x - 1) + 1 = x
<1> QED BY <1>7

(* Two pages are not looked at as the same one.                             *)
LEMMA Apart ==
    ASSUME NEW P \in Nat \ {0}, NEW a \in Int, NEW x \in 0 .. P - 1, NEW y \in 0 .. P - 1,
           (x - a) % P = (y - a) % P
    PROVE  x = y
<1> DEFINE q == (x - a) \div P
           s == (y - a) \div P
           r == (x - a) % P
<1>1. x - a = q * P + r /\ y - a = s * P + r /\ q \in Int /\ s \in Int /\ r \in Int
  OBVIOUS
<1> HIDE DEF q, s, r
<1>2. x - y = (q - s) * P
  BY <1>1
<1>3. CASE q - s >= 1
  <2>1. PICK k \in Nat : q - s = 1 + k
    BY <1>1, <1>3, q - s - 1 \in Nat
  <2>2. (q - s) * P = P + k * P /\ k * P \in Nat
    BY <2>1
  <2> QED BY <1>2, <2>2
<1>4. CASE s - q >= 1
  <2>1. PICK k \in Nat : s - q = 1 + k
    BY <1>1, <1>4, s - q - 1 \in Nat
  <2>2. (s - q) * P = P + k * P /\ k * P \in Nat /\ (q - s) * P = 0 - (s - q) * P
    BY <1>1, <2>1
  <2> QED BY <1>2, <2>2
<1>5. CASE q = s
  BY <1>1, <1>5
<1> QED BY <1>1, <1>3, <1>4, <1>5

(* vmm_alloc_page() hands out the free pages, each once, until there are    *)
(* none.                                                                    *)
LEMMA FreeEnumerates ==
    ASSUME NEW bm, NEW ix \in Int
    PROVE  /\ Cardinality(Pages \ bm) \in Nat
           /\ Free(bm, ix) \in [1 .. Cardinality(Pages \ bm) -> Pages \ bm]
           /\ \A i, j \in 1 .. Cardinality(Pages \ bm) : Free(bm, ix)[i] = Free(bm, ix)[j] => i = j
<1> DEFINE free == Pages \ bm
           d(pg) == Distance(ix, pg)
           upto(pg) == {q \in free : d(q) <= d(pg)}
           rank == [pg \in free |-> Cardinality(upto(pg))]
           N == Cardinality(free)
<1>1. PAGES \in Nat \ {0} /\ ix * BYTE \in Int
  BY MemoryAssumption
<1>2. IsFiniteSet(free) /\ N \in Nat
  <2>1. IsFiniteSet(Pages)
    BY <1>1, FS_Interval DEF Pages
  <2>2. free \in SUBSET Pages
    OBVIOUS
  <2> HIDE DEF free
  <2> QED BY <2>1, <2>2, FS_Subset, FS_CardinalityType
<1>3. \A pg \in free : d(pg) \in Int
  BY <1>1 DEF Pages, Distance
<1>4. \A x, y \in free : d(x) = d(y) => x = y
  <2> TAKE x, y \in free
  <2> HAVE d(x) = d(y)
  <2>1. x \in 0 .. PAGES - 1 /\ y \in 0 .. PAGES - 1
    BY DEF Pages
  <2>2. (x - ix * BYTE) % PAGES = (y - ix * BYTE) % PAGES
    BY DEF Distance
  <2> QED BY <1>1, <2>1, <2>2, Apart
<1> HIDE DEF free, d
<1>5. \A x \in free : upto(x) \in SUBSET free /\ IsFiniteSet(upto(x)) /\ rank[x] \in 1 .. N
  <2> TAKE x \in free
  <2>1. upto(x) \in SUBSET free /\ x \in upto(x)
    BY <1>3
  <2> HIDE DEF upto
  <2>2. IsFiniteSet(upto(x)) /\ Cardinality(upto(x)) \in Nat /\ Cardinality(upto(x)) <= N /\ Cardinality(upto(x)) # 0
    BY <1>2, <2>1, FS_Subset, FS_CardinalityType, FS_EmptySet
  <2> QED BY <1>2, <2>1, <2>2
<1>6. \A x, y \in free : d(x) < d(y) => rank[x] # rank[y]
  <2> SUFFICES ASSUME NEW x \in free, NEW y \in free, d(x) < d(y), rank[x] = rank[y] PROVE FALSE
    OBVIOUS
  <2>1. upto(x) \in SUBSET upto(y) /\ y \in upto(y) /\ y \notin upto(x)
    BY <1>3
  <2>2. IsFiniteSet(upto(y)) /\ Cardinality(upto(x)) = Cardinality(upto(y))
    BY <1>5
  <2> HIDE DEF upto
  <2>3. upto(y) = upto(x)
    BY <2>1, <2>2, FS_Subset
  <2> QED BY <2>1, <2>3
<1>7. rank \in Injection(free, 1 .. N)
  <2>1. rank \in [free -> 1 .. N]
    BY <1>5
  <2>2. \A x, y \in free : rank[x] = rank[y] => x = y
    <3> HIDE DEF rank
    <3> QED BY <1>3, <1>4, <1>6
  <2> HIDE DEF rank
  <2> QED BY <2>1, <2>2 DEF Injection, IsInjective
<1>8. IsFiniteSet(1 .. N) /\ Cardinality(1 .. N) = N
  BY <1>2, FS_Interval
<1>9. rank \in Surjection(free, 1 .. N)
  <2> HIDE DEF rank
  <2> QED BY <1>7, <1>8, FS_Injection
<1>10. \A n \in 1 .. N : \E pg \in free : rank[pg] = n
  <2> HIDE DEF rank
  <2> QED BY <1>9 DEF Surjection
<1>11. Free(bm, ix) = [n \in 1 .. N |-> CHOOSE pg \in free : rank[pg] = n]
  <2>1. Free(bm, ix) = [n \in 1 .. N |-> CHOOSE pg \in free : Cardinality(upto(pg)) = n]
    BY DEF Free, free, d
  <2>2. \A pg \in free : Cardinality(upto(pg)) = rank[pg]
    OBVIOUS
  <2> QED BY <2>1, <2>2
<1> DEFINE F == Free(bm, ix)
<1>12. \A n \in 1 .. N : F[n] \in free /\ rank[F[n]] = n
  <2> HIDE DEF rank
  <2> QED BY <1>10, <1>11
<1>13. F \in [1 .. N -> free]
  <2> HIDE DEF rank
  <2> QED BY <1>11, <1>12
<1>14. \A i, j \in 1 .. N : F[i] = F[j] => i = j
  <2> HIDE DEF rank, F
  <2> QED BY <1>12
<1> QED BY <1>2, <1>13, <1>14 DEF free

-----------------------------------------------------------------------------
(* A sequence that has each member of a set once.                           *)
Enumerates(s, A) ==
    /\ s \in Seq(A)
    /\ \A i, j \in 1 .. Len(s) : s[i] = s[j] => i = j
    /\ \A a \in A : \E i \in 1 .. Len(s) : s[i] = a

(* One and one more are two more.                                           *)
LEMMA TwoMore ==
    ASSUME NEW X, NEW s \in Seq(X), NEW a, NEW b
    PROVE  (s \o <<a>>) \o <<b>> = s \o <<a, b>>
<1> DEFINE Y == X \cup {a, b}
           t == s \o <<a>>
           u == t \o <<b>>
           w == s \o <<a, b>>
           n == Len(s)
<1>1. s \in Seq(Y) /\ n \in Nat
  <2>1. s \in [1 .. Len(s) -> Y] /\ Len(s) \in Nat
    OBVIOUS
  <2> HIDE DEF Y
  <2> QED BY <2>1
<1>2. a \in Y /\ b \in Y
  OBVIOUS
<1> HIDE DEF Y
<1>3. t \in Seq(Y) /\ Len(t) = n + 1 /\ t[n + 1] = a /\ \A i \in 1 .. n : t[i] = s[i]
  BY <1>1, <1>2
<1> HIDE DEF t
<1>4. u \in Seq(Y) /\ Len(u) = n + 2 /\ u[n + 2] = b /\ \A i \in 1 .. n + 1 : u[i] = t[i]
  BY <1>1, <1>2, <1>3
<1>5. w \in Seq(Y) /\ Len(w) = n + 2 /\ w[n + 1] = a /\ w[n + 2] = b /\ \A i \in 1 .. n : w[i] = s[i]
  BY <1>1, <1>2
<1> HIDE DEF u, w
<1>6. \A i \in 1 .. n + 2 : i \in 1 .. n \/ i = n + 1 \/ i = n + 2
  BY <1>1
<1>7. \A i \in 1 .. n + 2 : u[i] = w[i]
  BY <1>1, <1>3, <1>4, <1>5, <1>6
<1>8. u = w
  BY <1>4, <1>5, <1>7
<1> QED BY <1>8 DEF u, w, t

(* One more.                                                                *)
LEMMA OneMore ==
    ASSUME NEW s, NEW A, NEW a, Enumerates(s, A), a \notin A
    PROVE  Enumerates(s \o <<a>>, A \cup {a})
<1> DEFINE B == A \cup {a}
           t == s \o <<a>>
<1>1. s \in Seq(A) /\ Len(s) \in Nat
  BY DEF Enumerates
<1>2. s \in Seq(B) /\ <<a>> \in Seq(B) /\ Len(<<a>>) = 1 /\ <<a>>[1] = a
  <2>1. \A i \in 1 .. Len(s) : s[i] \in B
    BY <1>1
  <2>2. s \in Seq(B)
    <3>1. s \in [1 .. Len(s) -> B]
      BY <1>1, <2>1
    <3> QED BY <1>1, <3>1
  <2> QED BY <2>2
<1>3. /\ t \in Seq(B) /\ Len(t) = Len(s) + 1
      /\ \A i \in 1 .. Len(s) : t[i] = s[i]
      /\ t[Len(s) + 1] = a
  <2> HIDE DEF B
  <2> QED BY <1>1, <1>2
<1>4. \A i \in 1 .. Len(s) : s[i] \in A
  BY <1>1
<1> HIDE DEF t
<1>5. \A i, j \in 1 .. Len(t) : t[i] = t[j] => i = j
  <2> TAKE i, j \in 1 .. Len(t)
  <2>1. i \in 1 .. Len(s) \/ i = Len(s) + 1
    BY <1>1, <1>3
  <2>2. j \in 1 .. Len(s) \/ j = Len(s) + 1
    BY <1>1, <1>3
  <2> QED BY <1>3, <1>4, <2>1, <2>2 DEF Enumerates
<1>6. \A b \in B : \E i \in 1 .. Len(t) : t[i] = b
  <2> TAKE b \in B
  <2>1. CASE b \in A
    <3>1. PICK i \in 1 .. Len(s) : s[i] = b
      BY <2>1 DEF Enumerates
    <3> QED BY <1>1, <1>3, <3>1
  <2>2. CASE b = a
    BY <1>1, <1>3, <2>2, Len(s) + 1 \in 1 .. Len(t)
  <2> QED BY <2>1, <2>2
<1> QED BY <1>3, <1>5, <1>6 DEF Enumerates, t

(* FlattenSeq() goes from sequence to sequence.                             *)
FlatUpTo(f, seqs, n) ==
    f = [i \in 1 .. n |-> IF i = 1 THEN seqs[i] ELSE f[i - 1] \o seqs[i]]

(* It ends with the last of them.                                           *)
LEMMA FlattenSteps ==
    ASSUME NEW seqs, Len(seqs) \in Nat, Len(seqs) # 0
    PROVE  \E f : FlatUpTo(f, seqs, Len(seqs)) /\ FlattenSeq(seqs) = f[Len(seqs)]
<1> DEFINE N == Len(seqs)
           S == {n \in Nat : \E f : FlatUpTo(f, seqs, n)}
<1>1. 0 \in S
  <2> DEFINE f == [i \in 1 .. 0 |-> 0]
  <2>1. FlatUpTo(f, seqs, 0)
    BY DEF FlatUpTo
  <2> QED BY <2>1
<1>2. \A n \in Nat : n \in S => n + 1 \in S
  <2> TAKE n \in Nat
  <2> HAVE n \in S
  <2>1. PICK f : FlatUpTo(f, seqs, n)
    OBVIOUS
  <2> DEFINE g == [i \in 1 .. n + 1 |-> IF i = 1 THEN seqs[i] ELSE f[i - 1] \o seqs[i]]
  <2>2. \A i \in 1 .. n : g[i] = f[i]
    <3>1. \A i \in 1 .. n : f[i] = IF i = 1 THEN seqs[i] ELSE f[i - 1] \o seqs[i]
      <4> DEFINE h == [i \in 1 .. n |-> IF i = 1 THEN seqs[i] ELSE f[i - 1] \o seqs[i]]
      <4>1. f = h
        BY <2>1 DEF FlatUpTo
      <4>2. \A i \in 1 .. n : h[i] = IF i = 1 THEN seqs[i] ELSE f[i - 1] \o seqs[i]
        OBVIOUS
      <4> HIDE DEF h
      <4> QED BY <4>1, <4>2
    <3>2. \A i \in 1 .. n : i \in 1 .. n + 1
      OBVIOUS
    <3> QED BY <3>1, <3>2
  <2>3. \A i \in 1 .. n + 1 : i # 1 => i - 1 \in 1 .. n
    OBVIOUS
  <2>4. \A i \in 1 .. n + 1 : g[i] = IF i = 1 THEN seqs[i] ELSE g[i - 1] \o seqs[i]
    BY <2>2, <2>3
  <2>5. g = [i \in 1 .. n + 1 |-> g[i]]
    OBVIOUS
  <2> HIDE DEF g
  <2>6. g = [i \in 1 .. n + 1 |-> IF i = 1 THEN seqs[i] ELSE g[i - 1] \o seqs[i]]
    BY <2>4, <2>5
  <2>7. FlatUpTo(g, seqs, n + 1)
    BY <2>6 DEF FlatUpTo
  <2> QED BY <2>7
<1>3. N \in S
  <2> HIDE DEF S
  <2> QED BY <1>1, <1>2, Induction
<1>4. \E f : FlatUpTo(f, seqs, N)
  BY <1>3
<1> DEFINE g == CHOOSE f : FlatUpTo(f, seqs, N)
<1>5. FlatUpTo(g, seqs, N)
  BY <1>4
<1>6. FlattenSeq(seqs) = g[N]
  BY DEF FlattenSeq, FlatUpTo
<1> HIDE DEF g
<1> QED BY <1>5, <1>6

-----------------------------------------------------------------------------
(* What pmap_enter() of the pages lo .. hi - 1 asks vmm_alloc_page() for.   *)
Asked(present, lo, hi) ==
    ({"page"} \X (lo .. hi - 1))
    \cup {<<"table", PdIndex(v)>> : v \in {u \in lo .. hi - 1 : PdIndex(u) \notin present}}

(* Pages that follow each other are behind page tables that do.             *)
LEMMA TablesFollow ==
    ASSUME NEW u \in Nat, NEW v \in Nat, u <= v
    PROVE  PdIndex(u) \in Nat /\ PdIndex(v) \in Nat /\ PdIndex(u) <= PdIndex(v)
<1> DEFINE n == TABLE_LEN
<1>1. n \in Nat \ {0}
  BY MemoryAssumption
<1>2. u \div n \in Nat /\ v \div n \in Nat
  BY <1>1
<1>3. u = (u \div n) * n + (u % n) /\ v = (v \div n) * n + (v % n) /\ u % n \in 0 .. n - 1 /\ v % n \in 0 .. n - 1
  BY <1>1
<1> HIDE DEF n
<1>4. ASSUME u \div n > v \div n PROVE FALSE
  <2>1. PICK k \in Nat : u \div n = v \div n + 1 + k
    BY <1>2, <1>4, (u \div n) - (v \div n) - 1 \in Nat
  <2>2. (u \div n) * n = (v \div n) * n + n + k * n /\ k * n \in Nat
    BY <1>1, <1>2, <2>1
  <2>3. (v \div n) * n \in Nat
    BY <1>1, <1>2
  <2> QED BY <1>1, <1>3, <2>2, <2>3
<1> QED BY <1>2, <1>4 DEF PdIndex, n

(* It asks once for each page and for each page table that is missing.      *)
LEMMA EntersOnce ==
    ASSUME NEW present, NEW lo \in Nat, NEW hi \in Nat, lo <= hi
    PROVE  Enumerates(Enters(present, lo, hi), Asked(present, lo, hi))
<1> DEFINE one(v) == IF PdIndex(v) \in present \/ (v > lo /\ PdIndex(v - 1) = PdIndex(v))
                     THEN << <<"page", v>> >>
                     ELSE << <<"page", v>>, <<"table", PdIndex(v)>> >>
           N == hi - lo
           seqs == [i \in 1 .. N |-> one(lo + i - 1)]
           A(n) == Asked(present, lo, lo + n)
<1>1. Enters(present, lo, hi) = FlattenSeq(seqs)
  BY DEF Enters
<1>2. N \in Nat /\ Len(seqs) = N /\ lo + N = hi
  OBVIOUS
<1>3. ASSUME NEW s, NEW n \in 0 .. N - 1, Enumerates(s, A(n))
      PROVE  Enumerates(s \o one(lo + n), A(n + 1))
  <2> DEFINE v == lo + n
  <2>1. v \in Nat /\ lo .. v = (lo .. v - 1) \cup {v} /\ v \notin lo .. v - 1
        /\ lo + n = v /\ lo + (n + 1) - 1 = v
    BY <1>2
  <2>2. <<"page", v>> \notin A(n)
    BY <2>1 DEF Asked
  <2>3. Enumerates(s \o << <<"page", v>> >>, A(n) \cup {<<"page", v>>})
    <3> HIDE DEF v, A
    <3> QED BY <1>3, <2>2, OneMore
  <2>4. CASE PdIndex(v) \in present \/ (v > lo /\ PdIndex(v - 1) = PdIndex(v))
    <3>1. one(lo + n) = << <<"page", v>> >>
      BY <2>4
    <3>2. A(n + 1) = A(n) \cup {<<"page", v>>}
      <4>1. ASSUME PdIndex(v) \notin present
            PROVE  \E u \in lo .. v - 1 : PdIndex(u) \notin present /\ PdIndex(u) = PdIndex(v)
        BY <2>1, <2>4, <4>1, v - 1 \in lo .. v - 1
      <4> QED BY <2>1, <4>1 DEF Asked
    <3> QED BY <2>3, <3>1, <3>2
  <2>5. CASE ~(PdIndex(v) \in present \/ (v > lo /\ PdIndex(v - 1) = PdIndex(v)))
    <3>1. one(lo + n) = << <<"page", v>>, <<"table", PdIndex(v)>> >>
      BY <2>5
    <3>2. \A u \in lo .. v - 1 : PdIndex(u) # PdIndex(v)
      <4> TAKE u \in lo .. v - 1
      <4>1. v > lo /\ u \in Nat /\ v - 1 \in Nat /\ u <= v - 1 /\ v - 1 <= v
        BY <2>1
      <4>2. /\ PdIndex(u) \in Nat /\ PdIndex(v - 1) \in Nat /\ PdIndex(v) \in Nat
            /\ PdIndex(u) <= PdIndex(v - 1) /\ PdIndex(v - 1) <= PdIndex(v)
        BY <2>1, <4>1, TablesFollow
      <4>3. PdIndex(v - 1) # PdIndex(v)
        BY <2>5, <4>1
      <4> QED BY <4>2, <4>3
    <3>3. <<"table", PdIndex(v)>> \notin A(n) \cup {<<"page", v>>}
      BY <2>1, <3>2 DEF Asked
    <3> DEFINE s1 == s \o << <<"page", v>> >>
               A1 == A(n) \cup {<<"page", v>>}
    <3>4. Enumerates(s1 \o << <<"table", PdIndex(v)>> >>, A1 \cup {<<"table", PdIndex(v)>>})
      <4> HIDE DEF s1, A1, v
      <4>1. Enumerates(s1, A1) /\ <<"table", PdIndex(v)>> \notin A1
        BY <2>3, <3>3 DEF s1, A1
      <4> QED BY <4>1, OneMore
    <3>5. A(n + 1) = A1 \cup {<<"table", PdIndex(v)>>}
      BY <2>1, <2>5 DEF Asked
    <3>6. s1 \o << <<"table", PdIndex(v)>> >> = s \o << <<"page", v>>, <<"table", PdIndex(v)>> >>
      <4>1. s \in Seq(A(n))
        BY <1>3 DEF Enumerates
      <4> QED BY <4>1, TwoMore
    <3> QED BY <3>1, <3>4, <3>5, <3>6
  <2> QED BY <2>4, <2>5
<1>4. CASE N = 0
  <2>1. seqs = <<>> /\ A(0) = {}
    BY <1>4 DEF Asked
  <2>2. FlattenSeq(seqs) = <<>> /\ Asked(present, lo, hi) = {}
    BY <1>2, <1>4, <2>1 DEF FlattenSeq
  <2>3. Enumerates(<<>>, {})
    BY DEF Enumerates
  <2> QED BY <1>1, <2>2, <2>3
<1>5. CASE N # 0
  <2>1. PICK f : FlatUpTo(f, seqs, N) /\ FlattenSeq(seqs) = f[N]
    <3> HIDE DEF seqs, N
    <3> QED BY <1>2, <1>5, FlattenSteps
  <2> DEFINE S == {n \in Nat : n \in 1 .. N => Enumerates(f[n], A(n))}
  <2>2. \A i \in 1 .. N : f[i] = IF i = 1 THEN one(lo + i - 1) ELSE f[i - 1] \o one(lo + i - 1)
    <3>1. f = [i \in 1 .. N |-> IF i = 1 THEN seqs[i] ELSE f[i - 1] \o seqs[i]]
      BY <2>1 DEF FlatUpTo
    <3>2. \A i \in 1 .. N : seqs[i] = one(lo + i - 1)
      OBVIOUS
    <3> HIDE DEF seqs, one, N
    <3> QED BY <3>1, <3>2
  <2>3. 0 \in S
    OBVIOUS
  <2>4. \A n \in Nat : n \in S => n + 1 \in S
    <3> SUFFICES ASSUME NEW n \in Nat, n \in S, n + 1 \in 1 .. N PROVE Enumerates(f[n + 1], A(n + 1))
      OBVIOUS
    <3>1. n \in 0 .. N - 1 /\ lo + (n + 1) - 1 = lo + n
      BY <1>2
    <3>2. CASE n = 0
      <4>1. f[n + 1] = one(lo + n)
        BY <2>2, <3>1, <3>2
      <4>2. Enumerates(<<>>, A(n))
        BY <3>2 DEF Asked, Enumerates
      <4>3. Enumerates(<<>> \o one(lo + n), A(n + 1))
        BY <1>3, <3>1, <4>2
      <4>4. <<>> \o one(lo + n) = one(lo + n)
        <5> DEFINE X == {<<"page", lo + n>>, <<"table", PdIndex(lo + n)>>}
        <5>1. one(lo + n) \in Seq(X)
          <6>1. << <<"page", lo + n>> >> \in Seq(X) /\ << <<"page", lo + n>>, <<"table", PdIndex(lo + n)>> >> \in Seq(X)
            OBVIOUS
          <6> QED BY <6>1
        <5> HIDE DEF one, X
        <5> QED BY <5>1
      <4> QED BY <4>1, <4>3, <4>4
    <3>3. CASE n # 0
      <4>1. f[n + 1] = f[n] \o one(lo + n)
        <5>1. n + 1 # 1 /\ (n + 1) - 1 = n
          BY <3>3
        <5> HIDE DEF one, N
        <5> QED BY <2>2, <3>1, <5>1
      <4>2. Enumerates(f[n], A(n))
        BY <3>1, <3>3
      <4> HIDE DEF one, N, A
      <4> QED BY <1>3, <3>1, <4>1, <4>2
    <3> QED BY <3>2, <3>3
  <2>5. N \in S
    <3> HIDE DEF S, N
    <3> QED BY <1>2, <2>3, <2>4, Induction
  <2>6. Enumerates(f[N], A(N))
    BY <1>2, <1>5, <2>5
  <2> QED BY <1>1, <1>2, <2>1, <2>6
<1> QED BY <1>4, <1>5

-----------------------------------------------------------------------------
(* One request after the other: two enumerations make one.                  *)
LEMMA Joined ==
    ASSUME NEW s, NEW A, NEW t, NEW B, Enumerates(s, A), Enumerates(t, B), A \cap B = {}
    PROVE  Enumerates(s \o t, A \cup B)
<1> DEFINE C == A \cup B
           w == s \o t
<1>1. s \in Seq(A) /\ t \in Seq(B) /\ Len(s) \in Nat /\ Len(t) \in Nat
  BY DEF Enumerates
<1>2. s \in Seq(C) /\ t \in Seq(C)
  <2>1. s \in [1 .. Len(s) -> C] /\ t \in [1 .. Len(t) -> C]
    BY <1>1
  <2> HIDE DEF C
  <2> QED BY <1>1, <2>1
<1>3. /\ w \in Seq(C) /\ Len(w) = Len(s) + Len(t)
      /\ \A i \in 1 .. Len(s) : w[i] = s[i]
      /\ \A i \in 1 .. Len(t) : w[Len(s) + i] = t[i]
  <2> HIDE DEF C
  <2> QED BY <1>1, <1>2
<1>4. (\A i \in 1 .. Len(s) : s[i] \in A) /\ (\A i \in 1 .. Len(t) : t[i] \in B)
  BY <1>1
<1> HIDE DEF w
<1>5. \A i \in 1 .. Len(w) : i \in 1 .. Len(s) \/ \E k \in 1 .. Len(t) : i = Len(s) + k
  <2> TAKE i \in 1 .. Len(w)
  <2>1. CASE i <= Len(s)
    BY <1>1, <2>1
  <2>2. CASE i > Len(s)
    BY <1>1, <1>3, <2>2, i - Len(s) \in 1 .. Len(t), i = Len(s) + (i - Len(s))
  <2> QED BY <1>1, <2>1, <2>2
<1>6. \A i, j \in 1 .. Len(w) : w[i] = w[j] => i = j
  <2> TAKE i, j \in 1 .. Len(w)
  <2> HAVE w[i] = w[j]
  <2>1. CASE i \in 1 .. Len(s) /\ j \in 1 .. Len(s)
    BY <1>3, <2>1 DEF Enumerates
  <2>2. CASE (\E k \in 1 .. Len(t) : i = Len(s) + k) /\ (\E k \in 1 .. Len(t) : j = Len(s) + k)
    BY <1>3, <2>2 DEF Enumerates
  <2>3. ASSUME NEW k \in 1 .. Len(w), NEW l \in 1 .. Len(w), k \in 1 .. Len(s),
               \E e \in 1 .. Len(t) : l = Len(s) + e
        PROVE  w[k] # w[l]
    <3>1. w[k] \in A
      BY <1>3, <1>4, <2>3
    <3>2. w[l] \in B
      BY <1>3, <1>4, <2>3
    <3> QED BY <3>1, <3>2
  <2> QED BY <1>5, <2>1, <2>2, <2>3
<1>7. \A c \in C : \E i \in 1 .. Len(w) : w[i] = c
  <2> TAKE c \in C
  <2>1. CASE c \in A
    <3>1. PICK i \in 1 .. Len(s) : s[i] = c
      BY <2>1 DEF Enumerates
    <3> QED BY <1>1, <1>3, <3>1
  <2>2. CASE c \in B
    <3>1. PICK i \in 1 .. Len(t) : t[i] = c
      BY <2>2 DEF Enumerates
    <3> QED BY <1>1, <1>3, <3>1, Len(s) + i \in 1 .. Len(w)
  <2> QED BY <2>1, <2>2
<1> QED BY <1>3, <1>6, <1>7 DEF Enumerates, w

(* The pages in some places.                                                *)
Held(f, S) == {f[x] : x \in S}

(* Which page each request gets.                                            *)
Hands(g, A, bm) ==
    /\ g \in [A -> Pages \ bm]
    /\ \A x, y \in A : g[x] = g[y] => x = y

HandedTo(g, A, bm, ix, reqs) ==
    /\ Hands(g, A, bm)
    /\ \A i \in 1 .. Len(reqs) : Free(bm, ix)[i] = g[reqs[i]]
    /\ \A what, before : Got(reqs, Free(bm, ix), what, before) = IF what \in A THEN g[what] ELSE before
    /\ DOMAIN reqs = 1 .. Len(reqs)
    /\ {Free(bm, ix)[i] : i \in 1 .. Len(reqs)} = Held(g, A)
    /\ IndexAfter(bm, ix, Len(reqs)) \in Nat

(* The requests of one call get pages that were free, each another one.     *)
LEMMA HandedOut ==
    ASSUME NEW bm, NEW ix \in Nat, NEW reqs, NEW A, Enumerates(reqs, A), Enough(bm, Len(reqs))
    PROVE  \E g : HandedTo(g, A, bm, ix, reqs)
<1> DEFINE F == Free(bm, ix)
           C == Cardinality(Pages \ bm)
           n == Len(reqs)
           at(x) == CHOOSE i \in DOMAIN reqs : reqs[i] = x
           g == [x \in A |-> F[at(x)]]
<1>1. C \in Nat /\ F \in [1 .. C -> Pages \ bm] /\ \A i, j \in 1 .. C : F[i] = F[j] => i = j
  BY FreeEnumerates, ix \in Int
<1>2. n \in Nat /\ n <= C /\ DOMAIN reqs = 1 .. n /\ \A i \in 1 .. n : reqs[i] \in A
  BY <1>1 DEF Enumerates, Enough
<1>3. \A x \in A : at(x) \in 1 .. n /\ reqs[at(x)] = x
  BY <1>2 DEF Enumerates
<1>4. \A i \in 1 .. n : at(reqs[i]) = i
  <2> TAKE i \in 1 .. n
  <2>1. reqs[i] \in A /\ at(reqs[i]) \in 1 .. n /\ reqs[at(reqs[i])] = reqs[i]
    <3> HIDE DEF at
    <3> QED BY <1>2, <1>3
  <2> HIDE DEF at
  <2> QED BY <2>1 DEF Enumerates
<1>5. \A what, before : Got(reqs, F, what, before) = IF what \in A THEN g[what] ELSE before
  <2> TAKE what, before
  <2>1. CASE what \in A
    <3>1. \E i \in DOMAIN reqs : reqs[i] = what
      BY <1>2, <2>1 DEF Enumerates
    <3> HIDE DEF F
    <3> QED BY <2>1, <3>1 DEF Got
  <2>2. CASE what \notin A
    BY <1>2, <2>2 DEF Got
  <2> QED BY <2>1, <2>2
<1> HIDE DEF F, at, C
<1>6. 1 .. n \subseteq 1 .. C
  BY <1>1, <1>2
<1>7. Hands(g, A, bm)
  <2>1. \A x \in A : g[x] = F[at(x)] /\ F[at(x)] \in Pages \ bm
    BY <1>1, <1>3, <1>6
  <2>2. \A x, y \in A : g[x] = g[y] => x = y
    BY <1>1, <1>3, <1>6, <2>1
  <2> QED BY <2>1, <2>2 DEF Hands
<1>8. \A i \in 1 .. n : F[i] = g[reqs[i]]
  BY <1>2, <1>4
<1>9. {F[i] : i \in 1 .. n} = Held(g, A)
  <2> HIDE DEF g
  <2>1. \A x \in A : \E i \in 1 .. n : F[i] = g[x]
    BY <1>3, <1>8
  <2>2. \A i \in 1 .. n : \E x \in A : F[i] = g[x]
    BY <1>2, <1>8
  <2>3. \A pg : pg \in {F[i] : i \in 1 .. n} <=> pg \in {g[x] : x \in A}
    BY <2>1, <2>2
  <2> QED BY <2>3 DEF Held
<1>10. IndexAfter(bm, ix, n) \in Nat
  <2>1. CASE n = 0
    BY <2>1 DEF IndexAfter
  <2>2. CASE n # 0
    <3>1. F[n] \in Nat
      BY <1>1, <1>2, <1>6, <2>2 DEF Pages
    <3> QED BY <2>2, <3>1, MemoryAssumption DEF IndexAfter, Entry, F
  <2> QED BY <2>1, <2>2
<1> HIDE DEF g
<1>11. HandedTo(g, A, bm, ix, reqs)
  BY <1>2, <1>5, <1>7, <1>8, <1>9, <1>10 DEF F, HandedTo
<1> QED BY <1>11

-----------------------------------------------------------------------------
(* Page 0 is one of the kernel.                                             *)
LEMMA KernelPage == 0 \in Kernel /\ Kernel \subseteq Pages
BY MemoryAssumption DEF Kernel, Pages, Available

(* The places A filled, or emptied.                                         *)
Filled(f, A, g) == [x \in Place |-> IF x \in A THEN g[x] ELSE f[x]]
Emptied(f, A) == [x \in Place |-> IF x \in A THEN 0 ELSE f[x]]

(* Free pages are put in places of one process, or are lost; what was in    *)
(* these places is lost.                                                    *)
LEMMA Alloc ==
    ASSUME NEW F, NEW bm, NEW lost, Accounted(F, bm, lost), NEW p \in Procs,
           NEW A, NEW g, Hands(g, A, bm)
    PROVE  Accounted([F EXCEPT ![p] = Filled(F[p], A, g)], bm \cup Held(g, A),
                     lost \cup (Held(F[p], A \cap Place) \ {0}) \cup Held(g, A \ Place))
<1> USE DEF Held
<1> DEFINE H == Filled(F[p], A, g)
           G == [F EXCEPT ![p] = H]
           new == Held(g, A)
           old == Held(F[p], A \cap Place) \ {0}
           extra == Held(g, A \ Place)
           bm2 == bm \cup new
           lost2 == lost \cup old \cup extra
<1>1. \A x \in A : g[x] \in Pages /\ g[x] \notin bm /\ g[x] # 0
  BY KernelPage DEF Hands, Accounted
<1>2. F \in [Procs -> [Place -> Pages]] /\ H \in [Place -> Pages] /\ G \in [Procs -> [Place -> Pages]]
  BY <1>1 DEF Accounted, Filled
<1>3. G[p] = H /\ \A q \in Procs \ {p} : G[q] = F[q]
  BY <1>2
<1>4. \A x \in Place : H[x] = IF x \in A THEN g[x] ELSE F[p][x]
  BY DEF Filled
<1>5. \A q \in Procs : \A x \in Place :
        \/ q = p /\ x \in A /\ G[q][x] = g[x]
        \/ ~(q = p /\ x \in A) /\ G[q][x] = F[q][x]
  BY <1>3, <1>4
<1> HIDE DEF G
<1>6. \A q \in Procs : \A x \in Place : F[q][x] # 0 => F[q][x] \in bm /\ F[q][x] \notin Kernel \cup lost
  BY DEF Accounted
<1>7. bm2 \subseteq Pages /\ Kernel \cup lost2 \subseteq bm2
  BY <1>1, <1>6 DEF Accounted
<1>8. \A q, r \in Procs : \A x, y \in Place : G[q][x] # 0 /\ G[q][x] = G[r][y] => q = r /\ x = y
  BY <1>1, <1>5, <1>6 DEF Hands, Accounted
<1>9. \A q \in Procs : \A x \in Place : G[q][x] # 0 => G[q][x] \in bm2 /\ G[q][x] \notin Kernel \cup lost2
  <2> SUFFICES ASSUME NEW q \in Procs, NEW x \in Place, G[q][x] # 0
               PROVE  G[q][x] \in bm2 /\ G[q][x] \notin Kernel \cup lost2
    OBVIOUS
  <2>1. CASE q = p /\ x \in A /\ G[q][x] = g[x]
    <3>1. g[x] \notin Kernel \cup lost \cup old
      BY <1>1, <1>6, <2>1 DEF Accounted
    <3>2. g[x] \notin extra
      BY <2>1 DEF Hands
    <3> QED BY <2>1, <3>1, <3>2
  <2>2. CASE ~(q = p /\ x \in A) /\ G[q][x] = F[q][x]
    <3>1. F[q][x] \in bm /\ F[q][x] \notin Kernel \cup lost \cup extra
      BY <1>1, <1>6, <2>2
    <3>2. F[q][x] \notin old
      BY <2>2 DEF Accounted
    <3> QED BY <2>2, <3>1, <3>2
  <2> QED BY <1>5, <2>1, <2>2
<1>10. \A pg \in bm2 : pg \in Kernel \cup lost2 \/ \E q \in Procs : \E x \in Place : G[q][x] = pg
  <2> TAKE pg \in bm2
  <2>1. CASE pg \in new
    BY <1>5, <2>1
  <2>2. CASE pg \in bm /\ pg \notin Kernel \cup lost
    <3>1. PICK q \in Procs, x \in Place : F[q][x] = pg
      BY <2>2 DEF Accounted
    <3>2. pg # 0
      BY <2>2, KernelPage
    <3>3. CASE q = p /\ x \in A
      BY <3>1, <3>2, <3>3
    <3>4. CASE ~(q = p /\ x \in A)
      BY <1>5, <3>1, <3>4
    <3> QED BY <3>3, <3>4
  <2> QED BY <2>1, <2>2
<1> QED BY <1>2, <1>7, <1>8, <1>9, <1>10 DEF Accounted, G

(* Places of one process are emptied: those pages are freed, or lost.       *)
LEMMA Drop ==
    ASSUME NEW F, NEW bm, NEW lost, Accounted(F, bm, lost), NEW p \in Procs,
           NEW N \in SUBSET Place, NEW M \in SUBSET Place, N \cap M = {},
           \A x \in N : F[p][x] # 0
    PROVE  Accounted([F EXCEPT ![p] = Emptied(F[p], N \cup M)], bm \ Held(F[p], N), lost \cup (Held(F[p], M) \ {0}))
<1> USE DEF Held
<1> DEFINE H == Emptied(F[p], N \cup M)
           G == [F EXCEPT ![p] = H]
           freed == Held(F[p], N)
           old == Held(F[p], M) \ {0}
           bm2 == bm \ freed
           lost2 == lost \cup old
<1>1. 0 \in Pages
  BY KernelPage
<1>2. F \in [Procs -> [Place -> Pages]] /\ H \in [Place -> Pages] /\ G \in [Procs -> [Place -> Pages]]
  BY <1>1 DEF Accounted, Emptied
<1>3. \A q \in Procs : \A x \in Place :
        \/ q = p /\ x \in N \cup M /\ G[q][x] = 0
        \/ ~(q = p /\ x \in N \cup M) /\ G[q][x] = F[q][x]
  BY <1>2 DEF Emptied
<1> HIDE DEF G
<1>4. \A q \in Procs : \A x \in Place : F[q][x] # 0 => F[q][x] \in bm /\ F[q][x] \notin Kernel \cup lost
  BY DEF Accounted
<1>5. old \cap freed = {} /\ old \subseteq bm
  BY <1>4 DEF Accounted
<1>6. (Kernel \cup lost) \cap freed = {}
  BY <1>4
<1>7. bm2 \subseteq Pages /\ Kernel \cup lost2 \subseteq bm2
  BY <1>5, <1>6 DEF Accounted
<1>8. \A q, r \in Procs : \A x, y \in Place : G[q][x] # 0 /\ G[q][x] = G[r][y] => q = r /\ x = y
  BY <1>3 DEF Accounted
<1>9. \A q \in Procs : \A x \in Place : G[q][x] # 0 => G[q][x] \in bm2 /\ G[q][x] \notin Kernel \cup lost2
  <2> SUFFICES ASSUME NEW q \in Procs, NEW x \in Place, G[q][x] # 0
               PROVE  G[q][x] \in bm2 /\ G[q][x] \notin Kernel \cup lost2
    OBVIOUS
  <2>1. ~(q = p /\ x \in N \cup M) /\ G[q][x] = F[q][x]
    BY <1>3
  <2>2. F[q][x] \notin freed /\ F[q][x] \notin old
    BY <2>1 DEF Accounted
  <2> QED BY <1>4, <2>1, <2>2
<1>10. \A pg \in bm2 : pg \in Kernel \cup lost2 \/ \E q \in Procs : \E x \in Place : G[q][x] = pg
  <2> TAKE pg \in bm2
  <2>1. CASE pg \notin Kernel \cup lost
    <3>1. PICK q \in Procs, x \in Place : F[q][x] = pg
      BY <2>1 DEF Accounted
    <3>2. pg # 0
      BY <2>1, KernelPage
    <3>3. CASE q = p /\ x \in N \cup M
      BY <3>1, <3>2, <3>3
    <3>4. CASE ~(q = p /\ x \in N \cup M)
      BY <1>3, <3>1, <3>4
    <3> QED BY <3>3, <3>4
  <2> QED BY <2>1
<1> QED BY <1>2, <1>7, <1>8, <1>9, <1>10 DEF Accounted, G

-----------------------------------------------------------------------------
(* The members of Place, one by one.                                        *)
LEMMA Places ==
    /\ DirAt \in Place /\ NewAt \in Place /\ DirAt # NewAt
    /\ \A i \in PdIndexes : TableAt(i) \in Place
    /\ \A v \in VPages : PageAt(v) \in Place
    /\ \A i : TableAt(i) # DirAt /\ TableAt(i) # NewAt
    /\ \A v : PageAt(v) # DirAt /\ PageAt(v) # NewAt /\ \A i : PageAt(v) # TableAt(i)
    /\ \A u, v : PageAt(u) = PageAt(v) => u = v
    /\ \A i, j : TableAt(i) = TableAt(j) => i = j
    /\ \A x \in Place : \/ x = DirAt \/ x = NewAt
                        \/ \E i \in PdIndexes : x = TableAt(i)
                        \/ \E v \in VPages : x = PageAt(v)
BY DEF Place, DirAt, NewAt, TableAt, PageAt

(* What is in each place.                                                   *)
Holds(F, d, t, m, u) ==
    /\ F = [x \in Place |-> F[x]]
    /\ F[DirAt] = d /\ F[NewAt] = u
    /\ \A i \in PdIndexes : F[TableAt(i)] = t[i]
    /\ \A v \in VPages : F[PageAt(v)] = m[v]

(* Frames() puts it there.                                                  *)
LEMMA InPlace == \A d, t, m, u : Holds(Frames(d, t, m, u), d, t, m, u)
<1> TAKE d, t, m, u
<1> DEFINE F == Frames(d, t, m, u)
<1>1. F = [x \in Place |-> F[x]] /\ \A x \in Place : F[x] = FrameAt(d, t, m, u, x)
  BY DEF Frames
<1>2. FrameAt(d, t, m, u, DirAt) = d /\ FrameAt(d, t, m, u, NewAt) = u
  BY DEF FrameAt, DirAt, NewAt
<1>3. \A i : FrameAt(d, t, m, u, TableAt(i)) = t[i]
  BY DEF FrameAt, TableAt
<1>4. \A v : FrameAt(d, t, m, u, PageAt(v)) = m[v]
  BY DEF FrameAt, PageAt
<1> HIDE DEF F
<1> QED BY <1>1, <1>2, <1>3, <1>4, Places DEF Holds, F

(* The same pages, the same places.                                         *)
LEMMA SamePlaces ==
    ASSUME NEW F, NEW H, NEW d, NEW t, NEW m, NEW u, Holds(F, d, t, m, u), Holds(H, d, t, m, u)
    PROVE  F = H
<1>1. \A x \in Place : F[x] = H[x]
  BY Places DEF Holds
<1> QED BY <1>1 DEF Holds

(* What a process has.                                                      *)
LEMMA HasFrames == \A p \in Procs : Holds(FramesOf[p], dir[p], table[p], pte[p], ustack[p])
BY InPlace DEF FramesOf

(* A step of one process changes the places of that process.                *)
Becomes(p, d, t, m, u) ==
    /\ dir' = [dir EXCEPT ![p] = d] /\ table' = [table EXCEPT ![p] = t]
    /\ pte' = [pte EXCEPT ![p] = m] /\ ustack' = [ustack EXCEPT ![p] = u]

(* The other processes keep theirs.                                         *)
LEMMA OneSpace ==
    ASSUME MemTyped, NEW p \in Procs, NEW d, NEW t, NEW m, NEW u, Becomes(p, d, t, m, u),
           NEW H, Holds(H, d, t, m, u)
    PROVE  /\ FramesOf' = [FramesOf EXCEPT ![p] = H]
           /\ dir'[p] = d /\ table'[p] = t /\ pte'[p] = m /\ ustack'[p] = u
           /\ \A q \in Procs \ {p} : /\ dir'[q] = dir[q] /\ table'[q] = table[q]
                                     /\ pte'[q] = pte[q] /\ ustack'[q] = ustack[q]
<1>1. /\ dir'[p] = d /\ table'[p] = t /\ pte'[p] = m /\ ustack'[p] = u
      /\ \A q \in Procs \ {p} : dir'[q] = dir[q] /\ table'[q] = table[q] /\ pte'[q] = pte[q] /\ ustack'[q] = ustack[q]
  BY DEF MemTyped, Becomes
<1>2. FramesOf' = [q \in Procs |-> Frames(dir'[q], table'[q], pte'[q], ustack'[q])]
  BY DEF FramesOf
<1>3. Frames(d, t, m, u) = H
  BY InPlace, SamePlaces
<1>4. \A q \in Procs : FramesOf'[q] = IF q = p THEN H ELSE FramesOf[q]
  BY <1>1, <1>2, <1>3 DEF FramesOf
<1> QED BY <1>1, <1>2, <1>4 DEF FramesOf

(* Nothing changes for a process: it has what it had, if its pages are as   *)
(* clean as they were.                                                      *)
LEMMA Bystander ==
    ASSUME NEW q \in Procs, SpaceOf(q), CleanOf(q),
           dir'[q] = dir[q], table'[q] = table[q], pte'[q] = pte[q], ustack'[q] = ustack[q],
           brk'[q] = brk[q], st'[q] = st[q], q \in over' <=> q \in over,
           \A v \in VPages : pte[q][v] # 0 /\ pte[q][v] \in clean => pte[q][v] \in clean',
           ustack[q] # 0 /\ ustack[q] \in clean => ustack[q] \in clean'
    PROVE  SpaceOf(q)' /\ CleanOf(q)'
<1>1. SpaceOf(q)'
  BY DEF SpaceOf, Maps
<1>2. CleanOf(q)'
  BY DEF CleanOf, SpaceOf
<1> QED BY <1>1, <1>2

(* The pages of proc_break(): an address up to page n has its break there.  *)
LEMMA BreakUpTo ==
    ASSUME NEW n \in Nat, USER_TEXT <= n, NEW addr \in 0 .. n * PAGE_SIZE
    PROVE  BrkPage(addr) \in USER_TEXT .. n
<1>1. /\ PAGE_SIZE \in Nat \ {0} /\ USER_TEXT \in Nat /\ addr \in Nat /\ n * PAGE_SIZE \in Nat
  BY MemoryAssumption
<1>2. CASE addr < USER_TEXT * PAGE_SIZE
  BY <1>1, <1>2 DEF BrkPage
<1>3. CASE ~(addr < USER_TEXT * PAGE_SIZE)
  <2> DEFINE a == addr + PAGE_SIZE - 1
             k == a \div PAGE_SIZE
             r == a % PAGE_SIZE
  <2>1. BrkPage(addr) = k
    BY <1>3 DEF BrkPage
  <2>2. k \in Nat /\ r \in 0 .. PAGE_SIZE - 1 /\ a = k * PAGE_SIZE + r /\ a \in Nat
    BY <1>1
  <2> HIDE DEF k, r
  <2>3. ASSUME k < USER_TEXT PROVE FALSE
    <3>1. PICK j \in Nat : USER_TEXT = k + 1 + j
      BY <1>1, <2>2, <2>3, USER_TEXT - k - 1 \in Nat
    <3>2. USER_TEXT * PAGE_SIZE = k * PAGE_SIZE + PAGE_SIZE + j * PAGE_SIZE /\ j * PAGE_SIZE \in Nat /\ k * PAGE_SIZE \in Nat
      BY <1>1, <2>2, <3>1
    <3> QED BY <1>1, <1>3, <2>2, <3>2
  <2>4. ASSUME k > n PROVE FALSE
    <3>1. PICK j \in Nat : k = n + 1 + j
      BY <1>1, <2>2, <2>4, k - n - 1 \in Nat
    <3>2. k * PAGE_SIZE = n * PAGE_SIZE + PAGE_SIZE + j * PAGE_SIZE /\ j * PAGE_SIZE \in Nat
      BY <1>1, <2>2, <3>1
    <3> QED BY <1>1, <2>2, <3>2
  <2> QED BY <1>1, <2>1, <2>2, <2>3, <2>4
<1> QED BY <1>2, <1>3

(* The break that brk() sets.                                               *)
LEMMA BreakPage ==
    ASSUME NEW addr \in 0 .. (MAX_BRK + 1) * PAGE_SIZE
    PROVE  BrkPage(addr) \in USER_TEXT .. MAX_BRK + 1
<1>1. MAX_BRK + 1 \in Nat /\ USER_TEXT <= MAX_BRK + 1
  BY MemoryAssumption
<1> QED BY <1>1, BreakUpTo

(* The break of a program that exec() runs.                                 *)
LEMMA TextPage ==
    ASSUME NEW size \in 1 .. MAX_TEXT * PAGE_SIZE
    PROVE  BrkPage(USER_TEXT * PAGE_SIZE + size) \in USER_TEXT .. USER_TEXT + MAX_TEXT
<1>1. USER_TEXT \in Nat /\ MAX_TEXT \in Nat /\ PAGE_SIZE \in Nat
  BY MemoryAssumption
<1>2. /\ (USER_TEXT + MAX_TEXT) * PAGE_SIZE = USER_TEXT * PAGE_SIZE + MAX_TEXT * PAGE_SIZE
      /\ USER_TEXT * PAGE_SIZE \in Nat /\ MAX_TEXT * PAGE_SIZE \in Nat
  BY <1>1
<1>3. /\ USER_TEXT + MAX_TEXT \in Nat /\ USER_TEXT <= USER_TEXT + MAX_TEXT
      /\ USER_TEXT * PAGE_SIZE + size \in 0 .. (USER_TEXT + MAX_TEXT) * PAGE_SIZE
  BY <1>1, <1>2
<1> QED BY <1>3, BreakUpTo

(* A virtual page has its place in the page directory.                      *)
LEMMA TableOf == ASSUME NEW v \in VPages PROVE PdIndex(v) \in PdIndexes
BY TablesFollow, MemoryAssumption DEF VPages, PdIndexes

-----------------------------------------------------------------------------
(* Nothing that the invariant speaks of changes, as when the kernel panics. *)
LEMMA Unchanged ==
    ASSUME IndInv, UNCHANGED <<bitmap, index, space, st, ustack, clean, leaked, over>>
    PROVE  IndInv'
<1>1. MemTyped' /\ Accounted(FramesOf, bitmap, leaked)'
  BY DEF IndInv, MemTyped, FramesOf, space
<1>2. \A q \in Procs : SpaceOf(q)' /\ CleanOf(q)'
  BY Bystander DEF IndInv, space
<1> QED BY <1>1, <1>2 DEF IndInv

(* pmap_enter() of the pages lo .. hi - 1 into an address space: which of   *)
(* its places are filled, and with what.                                    *)
Fills(A, g, t, lo, hi, bm) ==
    /\ A \in SUBSET Place /\ Hands(g, A, bm)
    /\ \A v \in VPages : PageAt(v) \in A <=> v \in lo .. hi - 1
    /\ \A i \in PdIndexes : TableAt(i) \in A => t[i] = 0
    /\ \A v \in lo .. hi - 1 : t[PdIndex(v)] # 0 \/ TableAt(PdIndex(v)) \in A
    /\ DirAt \notin A /\ NewAt \notin A

NewMaps(A, g, t, m, t2, m2) ==
    /\ m2 = [v \in VPages |-> IF PageAt(v) \in A THEN g[PageAt(v)] ELSE m[v]]
    /\ t2 = [i \in PdIndexes |-> IF TableAt(i) \in A THEN g[TableAt(i)] ELSE t[i]]

(* Which pages it takes for that.                                           *)
Takes(A, g, t, m, lo, hi, bm, ix, present) ==
    LET reqs == Enters(present, lo, hi)
        free == Free(bm, ix)
    IN /\ Fills(A, g, t, lo, hi, bm)
       /\ NewMaps(A, g, t, m, NewTable(reqs, free, t), NewPte(reqs, free, m))
       /\ {free[i] : i \in DOMAIN reqs} = Held(g, A)
       /\ Taken(bm, ix, Len(reqs)) = bm \cup Held(g, A)
       /\ IndexAfter(bm, ix, Len(reqs)) \in Nat

(* They are free pages, and each place gets another one.                    *)
LEMMA Entered ==
    ASSUME NEW t \in [PdIndexes -> Pages], NEW m \in [VPages -> Pages],
           NEW lo \in Nat, NEW hi \in Nat, lo <= hi, hi <= MAX_BRK + 1,
           NEW bm, NEW ix \in Nat, NEW present, present = {i \in PdIndexes : t[i] # 0},
           Enough(bm, Len(Enters(present, lo, hi)))
    PROVE  \E A, g : Takes(A, g, t, m, lo, hi, bm, ix, present)
<1> DEFINE reqs == Enters(present, lo, hi)
           A == Asked(present, lo, hi)
<1>1. lo .. hi - 1 \subseteq VPages
  BY MemoryAssumption DEF VPages
<1>2. \A v \in lo .. hi - 1 : PdIndex(v) \in PdIndexes
  BY <1>1, TableOf
<1>3. A \in SUBSET Place
  BY <1>1, <1>2 DEF Asked, Place, PageAt, TableAt
<1>4. Enumerates(reqs, A)
  BY EntersOnce
<1>5. /\ \A v \in VPages : PageAt(v) \in A <=> v \in lo .. hi - 1
      /\ \A i \in PdIndexes : TableAt(i) \in A => t[i] = 0
      /\ \A v \in lo .. hi - 1 : t[PdIndex(v)] # 0 \/ TableAt(PdIndex(v)) \in A
      /\ DirAt \notin A /\ NewAt \notin A
  BY <1>2 DEF Asked, PageAt, TableAt, DirAt, NewAt
<1> HIDE DEF A, reqs
<1>6. PICK g : HandedTo(g, A, bm, ix, reqs)
  BY <1>4, HandedOut DEF reqs
<1>7. Fills(A, g, t, lo, hi, bm)
  BY <1>3, <1>5, <1>6 DEF Fills, HandedTo
<1>8. NewMaps(A, g, t, m, NewTable(reqs, Free(bm, ix), t), NewPte(reqs, Free(bm, ix), m))
  BY <1>6 DEF NewPte, NewTable, NewMaps, HandedTo, PageAt, TableAt
<1>9. /\ {Free(bm, ix)[i] : i \in DOMAIN reqs} = Held(g, A)
      /\ Taken(bm, ix, Len(reqs)) = bm \cup Held(g, A)
      /\ IndexAfter(bm, ix, Len(reqs)) \in Nat
  BY <1>6 DEF Taken, HandedTo
<1>10. Takes(A, g, t, m, lo, hi, bm, ix, present)
  BY <1>7, <1>8, <1>9 DEF reqs, Takes
<1> QED BY <1>10

(* The address space as it is then: where pages are, and that they are no   *)
(* page 0.                                                                  *)
Extended(A, g, t, m, lo, hi, F, d, u, t2, m2) ==
    /\ t2 \in [PdIndexes -> Pages] /\ m2 \in [VPages -> Pages]
    /\ \A v \in VPages : m2[v] # 0 <=> m[v] # 0 \/ v \in lo .. hi - 1
    /\ \A v \in VPages : v \notin lo .. hi - 1 => m2[v] = m[v]
    /\ \A v \in VPages : v \in lo .. hi - 1 => m2[v] \in Held(g, A)
    /\ \A i \in PdIndexes : t[i] # 0 => t2[i] # 0
    /\ \A v \in lo .. hi - 1 : PdIndex(v) \in PdIndexes => t2[PdIndex(v)] # 0
    /\ Holds(Filled(F, A, g), d, t2, m2, u)
    /\ Held(F, A \cap Place) \ {0} = {m[v] : v \in VPages \cap (lo .. hi - 1)} \ {0}

(* That is what pmap_enter() makes of an address space.                     *)
LEMMA FilledSpace ==
    ASSUME NEW A, NEW g, NEW t \in [PdIndexes -> Pages], NEW m \in [VPages -> Pages], NEW lo, NEW hi,
           NEW bm, Kernel \subseteq bm, Fills(A, g, t, lo, hi, bm),
           NEW t2, NEW m2, NewMaps(A, g, t, m, t2, m2),
           NEW F, NEW d, NEW u, Holds(F, d, t, m, u)
    PROVE  Extended(A, g, t, m, lo, hi, F, d, u, t2, m2)
<1>1. \A x \in A : g[x] \in Pages /\ g[x] # 0
  BY KernelPage DEF Fills, Hands
<1>2. /\ m2 = [v \in VPages |-> m2[v]] /\ t2 = [i \in PdIndexes |-> t2[i]]
      /\ \A v \in VPages : m2[v] = IF PageAt(v) \in A THEN g[PageAt(v)] ELSE m[v]
      /\ \A i \in PdIndexes : t2[i] = IF TableAt(i) \in A THEN g[TableAt(i)] ELSE t[i]
  BY DEF NewMaps
<1>3. \A v \in VPages : m2[v] \in Pages
  BY <1>1, <1>2
<1>4. \A i \in PdIndexes : t2[i] \in Pages
  BY <1>1, <1>2
<1>5. /\ \A v \in VPages : m2[v] # 0 <=> m[v] # 0 \/ v \in lo .. hi - 1
      /\ \A v \in VPages : v \notin lo .. hi - 1 => m2[v] = m[v]
      /\ \A v \in VPages : v \in lo .. hi - 1 => m2[v] \in Held(g, A)
  BY <1>1, <1>2 DEF Fills, Held
<1>6. /\ \A i \in PdIndexes : t[i] # 0 => t2[i] # 0
      /\ \A v \in lo .. hi - 1 : PdIndex(v) \in PdIndexes => t2[PdIndex(v)] # 0
  BY <1>1, <1>2 DEF Fills
<1>7. Holds(Filled(F, A, g), d, t2, m2, u)
  <2> DEFINE H == Filled(F, A, g)
  <2>1. H = [x \in Place |-> H[x]] /\ \A x \in Place : H[x] = IF x \in A THEN g[x] ELSE F[x]
    BY DEF Filled
  <2> HIDE DEF H
  <2>2. H[DirAt] = d /\ H[NewAt] = u
    BY <2>1, Places DEF Holds, Fills
  <2>3. \A i \in PdIndexes : H[TableAt(i)] = t2[i]
    BY <1>2, <2>1, Places DEF Holds
  <2>4. \A v \in VPages : H[PageAt(v)] = m2[v]
    BY <1>2, <2>1, Places DEF Holds
  <2> QED BY <2>1, <2>2, <2>3, <2>4 DEF Holds, H
<1>8. Held(F, A \cap Place) \ {0} = {m[v] : v \in VPages \cap (lo .. hi - 1)} \ {0}
  <2>1. \A x \in A \cap Place : \/ F[x] = 0
                                \/ \E v \in VPages \cap (lo .. hi - 1) : F[x] = m[v]
    <3> TAKE x \in A \cap Place
    <3>1. x # DirAt /\ x # NewAt
      BY DEF Fills
    <3>2. CASE \E i \in PdIndexes : x = TableAt(i)
      BY <3>2 DEF Fills, Holds
    <3>3. CASE \E v \in VPages : x = PageAt(v)
      BY <3>3 DEF Fills, Holds
    <3> QED BY <3>1, <3>2, <3>3, Places
  <2>2. \A v \in VPages \cap (lo .. hi - 1) : PageAt(v) \in A \cap Place /\ F[PageAt(v)] = m[v]
    BY Places DEF Fills, Holds
  <2> QED BY <2>1, <2>2 DEF Held
<1> QED BY <1>2, <1>3, <1>4, <1>5, <1>6, <1>7, <1>8 DEF Extended

(* brk() that makes the heap larger.                                        *)
LEMMA GrowStep ==
    ASSUME IndInv, NEW p \in Procs, NEW addr \in 0 .. (MAX_BRK + 1) * PAGE_SIZE, Grow(p, addr)
    PROVE  IndInv'
<1> DEFINE to == BrkPage(addr)
           reqs == Enters(Present(p), brk[p], to)
           free == Free(bitmap, index)
           got == {free[i] : i \in DOMAIN reqs}
           m == NewPte(reqs, free, pte[p])
           t == NewTable(reqs, free, table[p])
           F == FramesOf[p]
<1>1. CASE ~Enough(bitmap, Len(reqs))
  <2>1. Panic
    BY <1>1 DEF Grow
  <2> QED BY <2>1, Unchanged DEF Panic
<1>2. CASE Enough(bitmap, Len(reqs))
  <2>1. /\ st[p] = "run" /\ to > brk[p]
        /\ bitmap' = Taken(bitmap, index, Len(reqs)) /\ index' = IndexAfter(bitmap, index, Len(reqs))
        /\ table' = [table EXCEPT ![p] = t] /\ pte' = [pte EXCEPT ![p] = m]
        /\ brk' = [brk EXCEPT ![p] = to] /\ clean' = clean \cup got
        /\ leaked' = leaked \cup (At(pte[p], brk[p] .. to - 1) \ {0})
        /\ over' = (IF to > USER_USTACK THEN over \cup {p} ELSE over)
        /\ UNCHANGED <<dir, st, ustack>>
    BY <1>2 DEF Grow, Running, Zeroed
  <2>2. MemTyped /\ Accounted(FramesOf, bitmap, leaked) /\ \A q \in Procs : SpaceOf(q) /\ CleanOf(q)
    BY DEF IndInv
  <2>3. /\ to \in USER_TEXT .. MAX_BRK + 1 /\ brk[p] \in USER_TEXT .. MAX_BRK + 1
        /\ USER_TEXT \in Nat /\ MAX_BRK \in Nat /\ USER_USTACK \in VPages
        /\ table[p] \in [PdIndexes -> Pages] /\ pte[p] \in [VPages -> Pages] /\ index \in Nat
    BY <2>2, BreakPage, MemoryAssumption DEF MemTyped, VPages
  <2> HIDE DEF to
  <2>4. brk[p] \in Nat /\ to \in Nat /\ brk[p] <= to /\ to <= MAX_BRK + 1
    BY <2>1, <2>3
  <2>5. PICK A, g :
          /\ Fills(A, g, table[p], brk[p], to, bitmap)
          /\ NewMaps(A, g, table[p], pte[p], t, m)
          /\ got = Held(g, A)
          /\ Taken(bitmap, index, Len(reqs)) = bitmap \cup Held(g, A)
          /\ IndexAfter(bitmap, index, Len(reqs)) \in Nat
    <3>1. \E A, g : Takes(A, g, table[p], pte[p], brk[p], to, bitmap, index, Present(p))
      <4>1. Present(p) = {i \in PdIndexes : table[p][i] # 0}
        BY DEF Present
      <4> QED BY <1>2, <2>3, <2>4, <4>1, Entered
    <3> QED BY <3>1 DEF Takes
  <2> HIDE DEF m, t, got, free, reqs, F
  <2>6. Kernel \subseteq bitmap /\ Holds(F, dir[p], table[p], pte[p], ustack[p])
    BY <2>2, HasFrames DEF Accounted, F
  <2>7. /\ t \in [PdIndexes -> Pages] /\ m \in [VPages -> Pages]
        /\ \A v \in VPages : m[v] # 0 <=> pte[p][v] # 0 \/ v \in brk[p] .. to - 1
        /\ \A v \in VPages : v \notin brk[p] .. to - 1 => m[v] = pte[p][v]
        /\ \A v \in VPages : v \in brk[p] .. to - 1 => m[v] \in Held(g, A)
        /\ \A i \in PdIndexes : table[p][i] # 0 => t[i] # 0
        /\ \A v \in brk[p] .. to - 1 : PdIndex(v) \in PdIndexes => t[PdIndex(v)] # 0
        /\ Holds(Filled(F, A, g), dir[p], t, m, ustack[p])
        /\ Held(F, A \cap Place) \ {0} = {pte[p][v] : v \in VPages \cap (brk[p] .. to - 1)} \ {0}
    <3>1. Extended(A, g, table[p], pte[p], brk[p], to, F, dir[p], ustack[p], t, m)
      BY <2>3, <2>5, <2>6, FilledSpace
    <3> QED BY <3>1 DEF Extended
  <2>8. Becomes(p, dir[p], t, m, ustack[p])
    BY <2>1, <2>2 DEF MemTyped, Becomes
  <2>9. /\ FramesOf' = [FramesOf EXCEPT ![p] = Filled(F, A, g)]
        /\ dir'[p] = dir[p] /\ table'[p] = t /\ pte'[p] = m /\ ustack'[p] = ustack[p]
        /\ \A q \in Procs \ {p} : /\ dir'[q] = dir[q] /\ table'[q] = table[q]
                                  /\ pte'[q] = pte[q] /\ ustack'[q] = ustack[q]
    BY <2>2, <2>7, <2>8, OneSpace
  <2>10. /\ brk'[p] = to /\ st' = st
         /\ \A q \in Procs \ {p} : brk'[q] = brk[q] /\ (q \in over' <=> q \in over)
    BY <2>1, <2>2 DEF MemTyped
  <2>11. Accounted(FramesOf', bitmap', leaked')
    <3>1. A \ Place = {} /\ Hands(g, A, bitmap)
      BY <2>5 DEF Fills
    <3>2. Accounted([FramesOf EXCEPT ![p] = Filled(FramesOf[p], A, g)], bitmap \cup Held(g, A),
               leaked \cup (Held(FramesOf[p], A \cap Place) \ {0}) \cup Held(g, A \ Place))
      BY <2>2, <3>1, Alloc
    <3>3. VPages \cap (brk[p] .. to - 1) = brk[p] .. to - 1
      BY <2>3, <2>4 DEF VPages
    <3>4. leaked' = leaked \cup (Held(F, A \cap Place) \ {0}) \cup Held(g, A \ Place)
      BY <2>1, <2>7, <3>1, <3>3 DEF At, Held
    <3> QED BY <2>1, <2>5, <2>9, <3>2, <3>4 DEF F
  <2>12. MemTyped'
    BY <2>1, <2>2, <2>3, <2>5, <2>7 DEF MemTyped
  <2>13. ASSUME NEW q \in Procs, q # p PROVE SpaceOf(q)' /\ CleanOf(q)'
    BY <2>1, <2>2, <2>9, <2>10, <2>13, Bystander
  <2>14. SpaceOf(p) /\ CleanOf(p) /\ Maps(p)
    BY <2>1, <2>2 DEF SpaceOf
  <2>15. Maps(p)'
    <3>1. \A v \in VPages \ {USER_USTACK} : m[v] # 0 <=> v \in USER_TEXT .. to - 1
      <4> TAKE v \in VPages \ {USER_USTACK}
      <4>1. v \in USER_TEXT .. to - 1 <=> v \in USER_TEXT .. brk[p] - 1 \/ v \in brk[p] .. to - 1
        BY <2>3, <2>4 DEF VPages
      <4>2. pte[p][v] # 0 <=> v \in USER_TEXT .. brk[p] - 1
        BY <2>14 DEF Maps
      <4> QED BY <2>7, <4>1, <4>2
    <3>2. to > USER_USTACK => m[USER_USTACK] # 0 /\ p \in over'
      <4>1. ASSUME to > USER_USTACK PROVE USER_USTACK \in brk[p] .. to - 1 \/ brk[p] > USER_USTACK
        BY <2>3, <2>4, <4>1 DEF VPages
      <4> QED BY <2>1, <2>3, <2>7, <2>14, <4>1 DEF Maps
    <3>3. p \in over' \/ m[USER_USTACK] # 0
      BY <2>1, <2>3, <2>7, <2>14 DEF Maps
    <3>4. \A v \in VPages : m[v] # 0 => t[PdIndex(v)] # 0
      <4> TAKE v \in VPages
      <4>1. PdIndex(v) \in PdIndexes
        BY TableOf
      <4> QED BY <2>7, <2>14, <4>1 DEF Maps
    <3>5. t[PdIndex(USER_USTACK)] # 0
      BY <2>3, <2>7, <2>14, TableOf DEF Maps
    <3> QED BY <2>9, <2>10, <2>14, <3>1, <3>2, <3>3, <3>4, <3>5 DEF Maps
  <2>16. SpaceOf(p)'
    BY <2>1, <2>9, <2>10, <2>14, <2>15 DEF SpaceOf
  <2>17. CleanOf(p)'
    <3>1. \A v \in VPages : m[v] \in got \/ m[v] = pte[p][v]
      BY <2>5, <2>7
    <3> QED BY <2>1, <2>9, <2>10, <2>14, <3>1 DEF CleanOf
  <2> QED BY <2>11, <2>12, <2>13, <2>16, <2>17 DEF IndInv
<1> QED BY <1>1, <1>2

-----------------------------------------------------------------------------
(* Pages that are taken out of an address space.                            *)
PagesAt(vs) == {PageAt(v) : v \in vs}

Reduced(F, d, t, m, u, vs) ==
    /\ Holds(Emptied(F, PagesAt(vs)), d, t, Removed(m, vs), u)
    /\ Removed(m, vs) \in [VPages -> Pages]
    /\ \A v \in VPages : Removed(m, vs)[v] = IF v \in vs THEN 0 ELSE m[v]

(* What pmap_remove() leaves.                                               *)
LEMMA Unmapped ==
    ASSUME NEW F, NEW d, NEW t, NEW m \in [VPages -> Pages], NEW u, Holds(F, d, t, m, u),
           NEW vs \in SUBSET VPages
    PROVE  Reduced(F, d, t, m, u, vs)
<1> DEFINE E == Emptied(F, PagesAt(vs))
           r == Removed(m, vs)
<1>1. E = [x \in Place |-> E[x]] /\ \A x \in Place : E[x] = IF x \in PagesAt(vs) THEN 0 ELSE F[x]
  BY DEF Emptied
<1>2. \A v \in VPages : r[v] = IF v \in vs THEN 0 ELSE m[v]
  BY DEF Removed
<1>3. r \in [VPages -> Pages]
  BY KernelPage DEF Removed
<1> HIDE DEF E, r
<1>4. E[DirAt] = d /\ E[NewAt] = u
  BY <1>1, Places DEF Holds, PagesAt
<1>5. \A i \in PdIndexes : E[TableAt(i)] = t[i]
  BY <1>1, Places DEF Holds, PagesAt
<1>6. \A v \in VPages : E[PageAt(v)] = r[v]
  BY <1>1, <1>2, Places DEF Holds, PagesAt
<1>7. Holds(E, d, t, r, u)
  BY <1>1, <1>4, <1>5, <1>6 DEF Holds
<1> QED BY <1>2, <1>3, <1>7 DEF E, r, Reduced

(* The pages that were there.                                               *)
There(F, m, vs) ==
    /\ PagesAt(vs) \in SUBSET Place /\ Held(F, PagesAt(vs)) = At(m, vs)
    /\ \A x \in PagesAt(vs) : \E v \in vs : x = PageAt(v) /\ F[x] = m[v]
    /\ \A v \in VPages : PageAt(v) \in PagesAt(vs) <=> v \in vs

(* They are in the places of those pages.                                   *)
LEMMA PagesThere ==
    ASSUME NEW F, NEW d, NEW t, NEW m, NEW u, Holds(F, d, t, m, u), NEW vs \in SUBSET VPages
    PROVE  There(F, m, vs)
BY Places DEF Held, Holds, PagesAt, At, There

(* What one process frees is neither with another nor elsewhere with it.    *)
LEMMA OthersKeep ==
    ASSUME Accounted(FramesOf, bitmap, leaked), NEW p \in Procs, NEW N \in SUBSET Place,
           \A x \in N : FramesOf[p][x] # 0, NEW freed, freed = Held(FramesOf[p], N)
    PROVE  /\ \A q \in Procs \ {p} : ustack[q] \notin freed /\ \A v \in VPages : pte[q][v] \notin freed
           /\ \A v \in VPages : PageAt(v) \notin N => pte[p][v] \notin freed
           /\ NewAt \notin N => ustack[p] \notin freed
<1>1. \A q \in Procs : \A y \in Place : ~(q = p /\ y \in N) => FramesOf[q][y] \notin freed
  BY DEF Held, Accounted
<1>2. \A q \in Procs : FramesOf[q][NewAt] = ustack[q] /\ \A v \in VPages : FramesOf[q][PageAt(v)] = pte[q][v]
  BY HasFrames DEF Holds
<1> QED BY <1>1, <1>2, Places

(* brk() that makes the heap smaller.                                       *)
LEMMA ShrinkStep ==
    ASSUME IndInv, NEW p \in Procs, NEW addr \in 0 .. (MAX_BRK + 1) * PAGE_SIZE, Shrink(p, addr)
    PROVE  IndInv'
<1> DEFINE to == BrkPage(addr)
           vs == to .. brk[p] - 1
           freed == At(pte[p], vs)
           m == Removed(pte[p], vs)
           F == FramesOf[p]
           N == PagesAt(vs)
<1>1. /\ st[p] = "run" /\ to < brk[p]
      /\ bitmap' = bitmap \ freed /\ pte' = [pte EXCEPT ![p] = m]
      /\ brk' = [brk EXCEPT ![p] = to] /\ clean' = clean \ freed
      /\ UNCHANGED <<index, dir, table, st, ustack, leaked, over>>
  BY DEF Shrink, Running, Dropped
<1>2. MemTyped /\ Accounted(FramesOf, bitmap, leaked) /\ \A q \in Procs : SpaceOf(q) /\ CleanOf(q)
  BY DEF IndInv
<1>3. /\ to \in USER_TEXT .. MAX_BRK + 1 /\ brk[p] \in USER_TEXT .. MAX_BRK + 1
      /\ USER_TEXT \in Nat /\ MAX_BRK \in Nat /\ USER_USTACK \in VPages
      /\ table[p] \in [PdIndexes -> Pages] /\ pte[p] \in [VPages -> Pages] /\ index \in Nat
  BY <1>2, BreakPage, MemoryAssumption DEF MemTyped, VPages
<1> HIDE DEF to
<1>4. vs \in SUBSET VPages /\ vs \subseteq USER_TEXT .. brk[p] - 1
  BY <1>3 DEF VPages
<1>5. Maps(p) /\ SpaceOf(p) /\ CleanOf(p) /\ Holds(F, dir[p], table[p], pte[p], ustack[p])
  BY <1>1, <1>2, HasFrames DEF SpaceOf
<1>6. \A v \in vs : pte[p][v] # 0 /\ (v = USER_USTACK => p \in over)
  <2> TAKE v \in vs
  <2>1. CASE v = USER_USTACK
    BY <1>3, <1>5, <2>1 DEF Maps, VPages
  <2>2. CASE v # USER_USTACK
    BY <1>4, <1>5, <2>2 DEF Maps
  <2> QED BY <2>1, <2>2
<1> HIDE DEF vs, m, F, N, freed
<1>7. /\ Holds(Emptied(F, N), dir[p], table[p], m, ustack[p])
      /\ m \in [VPages -> Pages] /\ \A v \in VPages : m[v] = IF v \in vs THEN 0 ELSE pte[p][v]
  <2>1. Reduced(F, dir[p], table[p], pte[p], ustack[p], vs)
    BY <1>3, <1>4, <1>5, Unmapped
  <2> QED BY <2>1 DEF Reduced, m, N
<1>8. /\ N \in SUBSET Place /\ Held(F, N) = freed
      /\ \A x \in N : \E v \in vs : x = PageAt(v) /\ F[x] = pte[p][v]
      /\ \A v \in VPages : PageAt(v) \in N <=> v \in vs
  <2>1. There(F, pte[p], vs)
    BY <1>4, <1>5, PagesThere
  <2> QED BY <2>1 DEF There, freed, N
<1>9. \A x \in N : F[x] # 0
  BY <1>6, <1>8
<1>10. Becomes(p, dir[p], table[p], m, ustack[p])
  BY <1>1, <1>2 DEF MemTyped, Becomes
<1>11. /\ FramesOf' = [FramesOf EXCEPT ![p] = Emptied(F, N)]
       /\ dir'[p] = dir[p] /\ table'[p] = table[p] /\ pte'[p] = m /\ ustack'[p] = ustack[p]
       /\ \A q \in Procs \ {p} : /\ dir'[q] = dir[q] /\ table'[q] = table[q]
                                 /\ pte'[q] = pte[q] /\ ustack'[q] = ustack[q]
  BY <1>2, <1>7, <1>10, OneSpace
<1>12. brk'[p] = to /\ \A q \in Procs \ {p} : brk'[q] = brk[q]
  BY <1>1, <1>2 DEF MemTyped
<1>13. Accounted(FramesOf', bitmap', leaked')
  <2> DEFINE M == {}
  <2>1. M \in SUBSET Place /\ N \cap M = {} /\ N \cup M = N
    OBVIOUS
  <2>2. leaked \cup (Held(FramesOf[p], M) \ {0}) = leaked'
    BY <1>1 DEF Held
  <2> HIDE DEF M
  <2>3. Accounted([FramesOf EXCEPT ![p] = Emptied(FramesOf[p], N \cup M)], bitmap \ Held(FramesOf[p], N),
                  leaked \cup (Held(FramesOf[p], M) \ {0}))
    <3>1. Accounted(FramesOf, bitmap, leaked) /\ N \in SUBSET Place /\ \A x \in N : FramesOf[p][x] # 0
      BY <1>2, <1>8, <1>9 DEF F
    <3> QED BY <2>1, <3>1, Drop
  <2> QED BY <1>1, <1>8, <1>11, <2>1, <2>2, <2>3 DEF F
<1>14. MemTyped'
  BY <1>1, <1>2, <1>3, <1>7 DEF MemTyped
<1>15. /\ \A q \in Procs \ {p} : ustack[q] \notin freed /\ \A v \in VPages : pte[q][v] \notin freed
       /\ \A v \in VPages : v \notin vs => pte[p][v] \notin freed
  <2>1. N \in SUBSET Place /\ (\A x \in N : FramesOf[p][x] # 0) /\ freed = Held(FramesOf[p], N)
    BY <1>8, <1>9 DEF F
  <2> QED BY <1>2, <1>8, <2>1, OthersKeep
<1>16. ASSUME NEW q \in Procs, q # p PROVE SpaceOf(q)' /\ CleanOf(q)'
  BY <1>1, <1>2, <1>11, <1>12, <1>15, <1>16, Bystander
<1>17. Maps(p)'
  <2>1. \A v \in VPages \ {USER_USTACK} : m[v] # 0 <=> v \in USER_TEXT .. to - 1
    <3> TAKE v \in VPages \ {USER_USTACK}
    <3>1. v \in USER_TEXT .. brk[p] - 1 <=> v \in USER_TEXT .. to - 1 \/ v \in vs
      BY <1>1, <1>3 DEF VPages, vs
    <3>2. ~(v \in USER_TEXT .. to - 1 /\ v \in vs)
      BY <1>3 DEF vs
    <3> QED BY <1>5, <1>7, <3>1, <3>2 DEF Maps
  <2>2. ASSUME to > USER_USTACK PROVE m[USER_USTACK] # 0 /\ p \in over
    <3>1. USER_USTACK \notin vs /\ brk[p] > USER_USTACK
      BY <1>1, <1>3, <2>2 DEF vs, VPages
    <3> QED BY <1>3, <1>5, <1>7, <3>1 DEF Maps
  <2>3. p \in over \/ m[USER_USTACK] # 0
    BY <1>3, <1>5, <1>6, <1>7 DEF Maps
  <2>4. \A v \in VPages : m[v] # 0 => table[p][PdIndex(v)] # 0
    BY <1>5, <1>7 DEF Maps
  <2> QED BY <1>1, <1>5, <1>11, <1>12, <2>1, <2>2, <2>3, <2>4 DEF Maps
<1>18. SpaceOf(p)'
  BY <1>1, <1>5, <1>11, <1>17 DEF SpaceOf
<1>19. CleanOf(p)'
  BY <1>1, <1>5, <1>7, <1>11, <1>15 DEF CleanOf
<1> QED BY <1>13, <1>14, <1>16, <1>18, <1>19 DEF IndInv

(* The loop that takes the stack away stops at the page below it.           *)
LEMMA StackLoop ==
    ASSUME NEW m, NEW b \in Nat, b <= USER_TEXT + MAX_TEXT,
           \A v \in VPages \ {USER_USTACK} : m[v] # 0 => v < b
    PROVE  StackPages(m) = {v \in {USER_USTACK} : m[v] # 0}
<1>1. /\ USER_USTACK \in VPages /\ USER_USTACK - 1 \in VPages /\ USER_USTACK \in Nat
      /\ b <= USER_USTACK - 1 /\ USER_USTACK - 1 # USER_USTACK
  BY MemoryAssumption DEF VPages
<1>2. m[USER_USTACK - 1] = 0
  BY <1>1
<1>3. \A v \in VPages : v < USER_USTACK => USER_USTACK - 1 \in v .. USER_USTACK
  BY <1>1 DEF VPages
<1>4. \A v \in VPages : v \in USER_USTACK .. USER_USTACK <=> v = USER_USTACK
  BY <1>1 DEF VPages
<1>5. \A v \in StackPages(m) : v = USER_USTACK /\ m[v] # 0
  <2> TAKE v \in StackPages(m)
  <2>1. v \in VPages /\ v <= USER_USTACK /\ \A u \in v .. USER_USTACK : m[u] # 0
    BY DEF StackPages
  <2>2. v = USER_USTACK
    BY <1>1, <1>2, <1>3, <2>1 DEF VPages
  <2> QED BY <1>1, <2>1, <2>2
<1>6. m[USER_USTACK] # 0 => USER_USTACK \in StackPages(m)
  BY <1>1 DEF StackPages
<1> QED BY <1>5, <1>6

(* exit() up to where it closes the files.                                  *)
LEMMA UnmapStep ==
    ASSUME IndInv, NEW p \in Procs, ExitUnmap(p)
    PROVE  IndInv'
<1> DEFINE vs == Dropped(p, USER_TEXT)
           freed == At(pte[p], vs)
           rest == Removed(pte[p], vs)
           ws == StackPages(rest)
           m == Removed(rest, ws)
           F == FramesOf[p]
           N == PagesAt(vs)
           M == PagesAt(ws)
<1>1. /\ st[p] = "run"
      /\ bitmap' = bitmap \ freed /\ pte' = [pte EXCEPT ![p] = m]
      /\ brk' = [brk EXCEPT ![p] = USER_TEXT] /\ clean' = clean \ freed
      /\ leaked' = leaked \cup At(rest, ws) /\ st' = [st EXCEPT ![p] = "exit"]
      /\ UNCHANGED <<index, dir, table, ustack, over>>
  BY DEF ExitUnmap, Running
<1>2. MemTyped /\ Accounted(FramesOf, bitmap, leaked) /\ \A q \in Procs : SpaceOf(q) /\ CleanOf(q)
  BY DEF IndInv
<1>3. /\ brk[p] \in USER_TEXT .. MAX_BRK + 1
      /\ USER_TEXT \in Nat /\ MAX_BRK \in Nat /\ USER_TEXT <= MAX_BRK + 1 /\ USER_USTACK \in VPages /\ MAX_TEXT \in Nat
      /\ table[p] \in [PdIndexes -> Pages] /\ pte[p] \in [VPages -> Pages] /\ index \in Nat
  BY <1>2, MemoryAssumption DEF MemTyped, VPages
<1>4. vs \in SUBSET VPages /\ vs = USER_TEXT .. brk[p] - 1
  BY <1>3 DEF VPages, Dropped
<1>5. Maps(p) /\ SpaceOf(p) /\ CleanOf(p) /\ Holds(F, dir[p], table[p], pte[p], ustack[p])
  BY <1>1, <1>2, HasFrames DEF SpaceOf
<1>6. \A v \in vs : pte[p][v] # 0
  <2> TAKE v \in vs
  <2>1. CASE v = USER_USTACK
    BY <1>3, <1>4, <1>5, <2>1 DEF Maps, VPages
  <2>2. CASE v # USER_USTACK
    BY <1>4, <1>5, <2>2 DEF Maps
  <2> QED BY <2>1, <2>2
<1> HIDE DEF vs, rest, ws, m, F, N, M, freed
<1>7. rest \in [VPages -> Pages] /\ \A v \in VPages : rest[v] = IF v \in vs THEN 0 ELSE pte[p][v]
  <2>1. Reduced(F, dir[p], table[p], pte[p], ustack[p], vs)
    BY <1>3, <1>4, <1>5, Unmapped
  <2> QED BY <2>1 DEF Reduced, rest
<1>8. \A v \in VPages \ {USER_USTACK} : rest[v] = 0
  BY <1>4, <1>5, <1>7 DEF Maps
<1>9. ws = {v \in {USER_USTACK} : rest[v] # 0}
  <2>1. USER_TEXT <= USER_TEXT + MAX_TEXT
    BY <1>3
  <2> QED BY <1>3, <1>8, <2>1, StackLoop DEF ws
<1>10. ws \in SUBSET VPages /\ ws \cap vs = {} /\ \A v \in ws : rest[v] = pte[p][v] /\ rest[v] # 0
  BY <1>3, <1>7, <1>9
<1>11. m = Removed(pte[p], vs \cup ws)
  <2>1. m = [v \in VPages |-> IF v \in ws THEN 0 ELSE rest[v]]
    BY DEF m, Removed
  <2>2. \A v \in VPages : (IF v \in ws THEN 0 ELSE rest[v]) = IF v \in vs \cup ws THEN 0 ELSE pte[p][v]
    BY <1>7
  <2> QED BY <2>1, <2>2 DEF Removed
<1>12. N \cup M = PagesAt(vs \cup ws)
  BY DEF N, M, PagesAt
<1>13. /\ Holds(Emptied(F, N \cup M), dir[p], table[p], m, ustack[p])
       /\ m \in [VPages -> Pages] /\ \A v \in VPages : m[v] = 0
  <2>1. vs \cup ws \in SUBSET VPages
    BY <1>4, <1>10
  <2>2. Reduced(F, dir[p], table[p], pte[p], ustack[p], vs \cup ws)
    BY <1>3, <1>5, <2>1, Unmapped
  <2>3. \A v \in VPages : v \in vs \cup ws \/ pte[p][v] = 0
    BY <1>7, <1>8, <1>9
  <2> QED BY <1>11, <1>12, <2>2, <2>3 DEF Reduced
<1>14. /\ N \in SUBSET Place /\ Held(F, N) = freed
       /\ \A x \in N : \E v \in vs : x = PageAt(v) /\ F[x] = pte[p][v]
  <2>1. There(F, pte[p], vs)
    BY <1>4, <1>5, PagesThere
  <2> QED BY <2>1 DEF There, freed, N
<1>15. /\ M \in SUBSET Place /\ Held(F, M) = At(pte[p], ws)
       /\ \A x \in M : \E v \in ws : x = PageAt(v) /\ F[x] = pte[p][v]
  <2>1. There(F, pte[p], ws)
    BY <1>5, <1>10, PagesThere
  <2> QED BY <2>1 DEF There, M
<1>16. N \cap M = {} /\ \A x \in N : F[x] # 0
  BY <1>6, <1>10, <1>14, <1>15, Places
<1>17. At(rest, ws) = Held(F, M) \ {0}
  BY <1>10, <1>15 DEF At
<1>18. Becomes(p, dir[p], table[p], m, ustack[p])
  BY <1>1, <1>2 DEF MemTyped, Becomes
<1>19. /\ FramesOf' = [FramesOf EXCEPT ![p] = Emptied(F, N \cup M)]
       /\ dir'[p] = dir[p] /\ table'[p] = table[p] /\ pte'[p] = m /\ ustack'[p] = ustack[p]
       /\ \A q \in Procs \ {p} : /\ dir'[q] = dir[q] /\ table'[q] = table[q]
                                 /\ pte'[q] = pte[q] /\ ustack'[q] = ustack[q]
  BY <1>2, <1>13, <1>18, OneSpace
<1>20. st'[p] = "exit" /\ \A q \in Procs \ {p} : brk'[q] = brk[q] /\ st'[q] = st[q]
  BY <1>1, <1>2 DEF MemTyped
<1>21. Accounted(FramesOf', bitmap', leaked')
  <2>1. Accounted([FramesOf EXCEPT ![p] = Emptied(FramesOf[p], N \cup M)], bitmap \ Held(FramesOf[p], N),
                  leaked \cup (Held(FramesOf[p], M) \ {0}))
    <3>1. Accounted(FramesOf, bitmap, leaked) /\ N \in SUBSET Place /\ \A x \in N : FramesOf[p][x] # 0
      BY <1>2, <1>14, <1>16 DEF F
    <3> QED BY <1>15, <1>16, <3>1, Drop
  <2> QED BY <1>1, <1>14, <1>17, <1>19, <2>1 DEF F
<1>22. MemTyped'
  BY <1>1, <1>2, <1>3, <1>13 DEF MemTyped
<1>23. \A q \in Procs \ {p} : ustack[q] \notin freed /\ \A v \in VPages : pte[q][v] \notin freed
  <2>1. N \in SUBSET Place /\ (\A x \in N : FramesOf[p][x] # 0) /\ freed = Held(FramesOf[p], N)
    BY <1>14, <1>16 DEF F
  <2> QED BY <1>2, <2>1, OthersKeep
<1>24. ASSUME NEW q \in Procs, q # p PROVE SpaceOf(q)' /\ CleanOf(q)'
  BY <1>1, <1>2, <1>19, <1>20, <1>23, <1>24, Bystander
<1>25. SpaceOf(p)' /\ CleanOf(p)'
  BY <1>1, <1>5, <1>13, <1>19, <1>20 DEF SpaceOf, CleanOf, Maps
<1> QED BY <1>21, <1>22, <1>24, <1>25 DEF IndInv

(* exit() to its end.                                                       *)
LEMMA DestroyStep ==
    ASSUME IndInv, NEW p \in Procs, ExitDestroy(p)
    PROVE  IndInv'
<1> DEFINE F == FramesOf[p]
           N == {DirAt} \cup {x \in {TableAt(i) : i \in PdIndexes} : F[x] # 0}
           M == Place \ N
           freed == OwnPages(p)
<1>1. /\ st[p] = "exit"
      /\ bitmap' = bitmap \ freed /\ clean' = clean \ freed
      /\ dir' = [dir EXCEPT ![p] = 0] /\ table' = [table EXCEPT ![p] = NoTables]
      /\ st' = [st EXCEPT ![p] = "zombie"]
      /\ UNCHANGED <<index, pte, brk, ustack, leaked, over>>
  BY DEF ExitDestroy
<1>2. MemTyped /\ Accounted(FramesOf, bitmap, leaked) /\ \A q \in Procs : SpaceOf(q) /\ CleanOf(q)
  BY DEF IndInv
<1>3. /\ SpaceOf(p) /\ Holds(F, dir[p], table[p], pte[p], ustack[p])
      /\ dir[p] # 0 /\ ustack[p] = 0 /\ \A v \in VPages : pte[p][v] = 0
  BY <1>1, <1>2, HasFrames DEF SpaceOf
<1>4. N \in SUBSET Place /\ M \in SUBSET Place /\ N \cap M = {} /\ N \cup M = Place
  BY Places
<1>5. \A x \in N : F[x] # 0
  BY <1>3 DEF Holds
<1>6. \A x \in M : F[x] = 0
  BY <1>3, Places DEF Holds
<1>7. Held(F, N) = freed
  <2>1. \A x \in N : F[x] \in freed
    BY <1>3 DEF Holds, OwnPages, At
  <2>2. \A pg \in freed : \E x \in N : F[x] = pg
    <3> TAKE pg \in freed
    <3>1. CASE pg = dir[p]
      BY <1>3, <3>1 DEF Holds
    <3>2. CASE pg \in At(table[p], PdIndexes) \ {0}
      <4>1. PICK i \in PdIndexes : pg = table[p][i] /\ pg # 0
        BY <3>2 DEF At
      <4>2. F[TableAt(i)] = pg
        BY <1>3, <4>1 DEF Holds
      <4> QED BY <4>1, <4>2
    <3> QED BY <3>1, <3>2 DEF OwnPages
  <2> QED BY <2>1, <2>2 DEF Held
<1>8. Held(F, M) \ {0} = {}
  BY <1>6 DEF Held
<1>9. Holds(Emptied(F, N \cup M), 0, NoTables, pte[p], ustack[p])
  <2>1. Emptied(F, N \cup M) = [x \in Place |-> 0]
    BY <1>4 DEF Emptied
  <2>2. \A i \in PdIndexes : NoTables[i] = 0
    BY DEF NoTables
  <2> DEFINE E == Emptied(F, N \cup M)
  <2>3. E = [x \in Place |-> E[x]] /\ \A x \in Place : E[x] = 0
    BY <2>1
  <2> HIDE DEF E
  <2>4. E[DirAt] = 0 /\ E[NewAt] = ustack[p]
    BY <1>3, <2>3, Places
  <2>5. \A i \in PdIndexes : E[TableAt(i)] = NoTables[i]
    BY <2>2, <2>3, Places
  <2>6. \A v \in VPages : E[PageAt(v)] = pte[p][v]
    BY <1>3, <2>3, Places
  <2> QED BY <2>3, <2>4, <2>5, <2>6 DEF Holds, E
<1> HIDE DEF F, N, M, freed
<1>10. Becomes(p, 0, NoTables, pte[p], ustack[p])
  BY <1>1, <1>2 DEF MemTyped, Becomes
<1>11. /\ FramesOf' = [FramesOf EXCEPT ![p] = Emptied(F, N \cup M)]
       /\ dir'[p] = 0 /\ table'[p] = NoTables /\ pte'[p] = pte[p] /\ ustack'[p] = ustack[p]
       /\ \A q \in Procs \ {p} : /\ dir'[q] = dir[q] /\ table'[q] = table[q]
                                 /\ pte'[q] = pte[q] /\ ustack'[q] = ustack[q]
  BY <1>2, <1>9, <1>10, OneSpace
<1>12. st'[p] = "zombie" /\ \A q \in Procs \ {p} : st'[q] = st[q]
  BY <1>1, <1>2 DEF MemTyped
<1>13. Accounted(FramesOf', bitmap', leaked')
  <2>1. Accounted([FramesOf EXCEPT ![p] = Emptied(FramesOf[p], N \cup M)], bitmap \ Held(FramesOf[p], N),
                  leaked \cup (Held(FramesOf[p], M) \ {0}))
    <3>1. Accounted(FramesOf, bitmap, leaked) /\ \A x \in N : FramesOf[p][x] # 0
      BY <1>2, <1>5 DEF F
    <3> QED BY <1>4, <3>1, Drop
  <2> QED BY <1>1, <1>7, <1>8, <1>11, <2>1 DEF F
<1>14. MemTyped'
  <2>1. NoTables \in [PdIndexes -> Pages] /\ 0 \in Pages
    BY KernelPage DEF NoTables
  <2> QED BY <1>1, <1>2, <2>1 DEF MemTyped
<1>15. \A q \in Procs \ {p} : ustack[q] \notin freed /\ \A v \in VPages : pte[q][v] \notin freed
  <2>1. N \in SUBSET Place /\ (\A x \in N : FramesOf[p][x] # 0) /\ freed = Held(FramesOf[p], N)
    BY <1>4, <1>5, <1>7 DEF F
  <2> QED BY <1>2, <2>1, OthersKeep
<1>16. ASSUME NEW q \in Procs, q # p PROVE SpaceOf(q)' /\ CleanOf(q)'
  BY <1>1, <1>2, <1>11, <1>12, <1>15, <1>16, Bystander
<1>17. SpaceOf(p)' /\ CleanOf(p)'
  BY <1>3, <1>11, <1>12 DEF SpaceOf, CleanOf, NoTables
<1> QED BY <1>13, <1>14, <1>16, <1>17 DEF IndInv

(* wait() frees the slot of a process that has nothing any more.            *)
LEMMA ReapStep ==
    ASSUME IndInv, NEW p \in Procs, Reap(p)
    PROVE  IndInv'
<1>1. /\ st[p] = "zombie" /\ st' = [st EXCEPT ![p] = "null"]
      /\ UNCHANGED <<bitmap, index, dir, table, pte, brk, ustack, clean, leaked, over>>
  BY DEF Reap, space
<1>2. MemTyped' /\ Accounted(FramesOf, bitmap, leaked)'
  BY <1>1 DEF IndInv, MemTyped, FramesOf
<1>3. st'[p] = "null" /\ \A q \in Procs \ {p} : st'[q] = st[q]
  BY <1>1 DEF IndInv, MemTyped
<1>4. ASSUME NEW q \in Procs, q # p PROVE SpaceOf(q)' /\ CleanOf(q)'
  BY <1>1, <1>3, <1>4, Bystander DEF IndInv
<1>5. SpaceOf(p)' /\ CleanOf(p)'
  BY <1>1, <1>3 DEF IndInv, SpaceOf, CleanOf
<1> QED BY <1>2, <1>4, <1>5 DEF IndInv

-----------------------------------------------------------------------------
(* A step in two changes the places of the same process.                    *)
LEMMA Twice ==
    ASSUME NEW F, NEW p \in Procs, NEW G, NEW H, F \in [Procs -> [Place -> Pages]]
    PROVE  [[F EXCEPT ![p] = G] EXCEPT ![p] = H] = [F EXCEPT ![p] = H] /\ [F EXCEPT ![p] = G][p] = G
OBVIOUS

(* exec() to its end: the page of the new stack changes its place.          *)
LEMMA FinishStep ==
    ASSUME IndInv, NEW p \in Procs, ExecFinish(p)
    PROVE  IndInv'
<1> DEFINE F == FramesOf[p]
           us == ustack[p]
           ws == StackPages(pte[p])
           rest == Removed(pte[p], ws)
           m == [rest EXCEPT ![USER_USTACK] = us]
           N == {NewAt}
           M == PagesAt(ws)
           E == Emptied(F, N \cup M)
           A == {PageAt(USER_USTACK)}
           g == [x \in A |-> us]
           H == Filled(E, A, g)
<1>1. /\ st[p] = "exec" /\ pte' = [pte EXCEPT ![p] = m]
      /\ leaked' = leaked \cup At(pte[p], ws) /\ ustack' = [ustack EXCEPT ![p] = 0]
      /\ st' = [st EXCEPT ![p] = "run"] /\ over' = over \ {p}
      /\ UNCHANGED <<bitmap, index, dir, table, brk, clean>>
  BY DEF ExecFinish, OldStack
<1>2. MemTyped /\ Accounted(FramesOf, bitmap, leaked) /\ \A q \in Procs : SpaceOf(q) /\ CleanOf(q)
  BY DEF IndInv
<1>3. /\ brk[p] \in USER_TEXT .. MAX_BRK + 1 /\ brk[p] \in Nat
      /\ USER_TEXT \in Nat /\ MAX_TEXT \in Nat /\ USER_TEXT + MAX_TEXT < USER_USTACK
      /\ USER_USTACK \in VPages /\ USER_USTACK \in Nat
      /\ table[p] \in [PdIndexes -> Pages] /\ pte[p] \in [VPages -> Pages] /\ us \in Pages
  BY <1>2, MemoryAssumption DEF MemTyped, VPages
<1>4. /\ Maps(p) /\ SpaceOf(p) /\ CleanOf(p) /\ Holds(F, dir[p], table[p], pte[p], us)
      /\ us # 0 /\ brk[p] <= USER_TEXT + MAX_TEXT
  BY <1>1, <1>2, HasFrames DEF SpaceOf
<1>5. \A v \in VPages \ {USER_USTACK} : pte[p][v] # 0 <=> v \in USER_TEXT .. brk[p] - 1
  BY <1>4 DEF Maps
<1>6. ws = {v \in {USER_USTACK} : pte[p][v] # 0}
  <2>1. \A v \in VPages \ {USER_USTACK} : pte[p][v] # 0 => v < brk[p]
    BY <1>3, <1>5
  <2> QED BY <1>3, <1>4, <2>1, StackLoop
<1> HIDE DEF ws
<1>7. ws \in SUBSET VPages /\ \A v \in ws : pte[p][v] # 0
  BY <1>3, <1>6
<1>8. \A v \in VPages : rest[v] = IF v = USER_USTACK THEN 0 ELSE pte[p][v]
  BY <1>6 DEF Removed
<1>9. m \in [VPages -> Pages] /\ \A v \in VPages : m[v] = IF v = USER_USTACK THEN us ELSE pte[p][v]
  <2>1. rest = [v \in VPages |-> rest[v]]
    BY DEF Removed
  <2> HIDE DEF rest
  <2> QED BY <1>3, <1>8, <2>1
<1>10. M \in SUBSET Place /\ Held(F, M) = At(pte[p], ws) /\ \A x \in M : \E v \in ws : x = PageAt(v) /\ F[x] = pte[p][v]
  <2>1. There(F, pte[p], ws)
    BY <1>4, <1>7, PagesThere
  <2> QED BY <2>1 DEF There
<1> HIDE DEF M, m, rest
<1>11. Held(F, M) \ {0} = At(pte[p], ws)
  BY <1>7, <1>10 DEF At
<1>12. Held(F, N) = {us} /\ N \in SUBSET Place /\ N \cap M = {} /\ \A x \in N : F[x] # 0
  BY <1>4, <1>10, Places DEF Held, Holds
<1>13. Accounted([FramesOf EXCEPT ![p] = E], bitmap \ {us}, leaked')
  <2>1. Accounted([FramesOf EXCEPT ![p] = Emptied(FramesOf[p], N \cup M)], bitmap \ Held(FramesOf[p], N),
                  leaked \cup (Held(FramesOf[p], M) \ {0}))
    <3> HIDE DEF N
    <3> QED BY <1>2, <1>10, <1>12, Drop
  <2> QED BY <1>1, <1>11, <1>12, <2>1
<1>14. us \in bitmap
  BY <1>2, <1>4, Places DEF Accounted, Holds
<1>15. Hands(g, A, bitmap \ {us}) /\ Held(g, A) = {us} /\ A \ Place = {} /\ A \cap Place = A
  BY <1>3, Places DEF Hands, Held
<1>16. \A x \in Place : E[x] = IF x \in N \cup M THEN 0 ELSE F[x]
  BY DEF Emptied
<1>17. E[PageAt(USER_USTACK)] = 0
  BY <1>3, <1>4, <1>6, <1>16, Places DEF Holds, M, PagesAt
<1>18. Held(E, A) \ {0} = {}
  BY <1>17 DEF Held
<1> HIDE DEF E, g, A
<1>19. FramesOf \in [Procs -> [Place -> Pages]]
  BY <1>2 DEF Accounted
<1>20. Accounted([FramesOf EXCEPT ![p] = H], bitmap, leaked')
  <2> DEFINE FF == [FramesOf EXCEPT ![p] = E]
  <2>1. FF[p] = E /\ [FF EXCEPT ![p] = H] = [FramesOf EXCEPT ![p] = H]
    BY <1>19, Twice
  <2> HIDE DEF FF
  <2>2. Accounted([FF EXCEPT ![p] = Filled(FF[p], A, g)], (bitmap \ {us}) \cup Held(g, A),
                  leaked' \cup (Held(FF[p], A \cap Place) \ {0}) \cup Held(g, A \ Place))
    BY <1>13, <1>15, Alloc DEF FF
  <2>3. Held(g, A \ Place) = {}
    BY <1>15 DEF Held
  <2>4. leaked' \cup (Held(FF[p], A \cap Place) \ {0}) \cup Held(g, A \ Place) = leaked'
    BY <1>15, <1>18, <2>1, <2>3
  <2>5. (bitmap \ {us}) \cup Held(g, A) = bitmap
    BY <1>14, <1>15
  <2> QED BY <2>1, <2>2, <2>4, <2>5
<1>21. Holds(H, dir[p], table[p], m, 0)
  <2>1. H = [x \in Place |-> H[x]] /\ \A x \in Place : H[x] = IF x \in A THEN g[x] ELSE E[x]
    BY DEF Filled
  <2>2. \A v \in ws : v = USER_USTACK
    BY <1>6
  <2> HIDE DEF H
  <2>3. H[DirAt] = dir[p] /\ H[NewAt] = 0
    BY <1>4, <1>16, <2>1, Places DEF Holds, A, M, PagesAt
  <2>4. \A i \in PdIndexes : H[TableAt(i)] = table[p][i]
    BY <1>4, <1>16, <2>1, Places DEF Holds, A, M, PagesAt
  <2>5. \A v \in VPages : H[PageAt(v)] = m[v]
    <3> TAKE v \in VPages
    <3>1. CASE v = USER_USTACK
      BY <1>9, <2>1, <3>1, Places DEF A, g
    <3>2. CASE v # USER_USTACK
      <4>1. PageAt(v) \notin A /\ PageAt(v) \notin N \cup M /\ PageAt(v) \in Place
        BY <2>2, <3>2, Places DEF A, M, PagesAt
      <4> QED BY <1>4, <1>9, <1>16, <2>1, <3>2, <4>1 DEF Holds
    <3> QED BY <3>1, <3>2
  <2> QED BY <2>1, <2>3, <2>4, <2>5 DEF Holds
<1> HIDE DEF H
<1>22. Becomes(p, dir[p], table[p], m, 0)
  BY <1>1, <1>2 DEF MemTyped, Becomes
<1>23. /\ FramesOf' = [FramesOf EXCEPT ![p] = H]
       /\ dir'[p] = dir[p] /\ table'[p] = table[p] /\ pte'[p] = m /\ ustack'[p] = 0
       /\ \A q \in Procs \ {p} : /\ dir'[q] = dir[q] /\ table'[q] = table[q]
                                 /\ pte'[q] = pte[q] /\ ustack'[q] = ustack[q]
  BY <1>2, <1>21, <1>22, OneSpace
<1>24. st'[p] = "run" /\ \A q \in Procs \ {p} : st'[q] = st[q]
  BY <1>1, <1>2 DEF MemTyped
<1>25. MemTyped'
  <2>1. 0 \in Pages
    BY KernelPage
  <2> QED BY <1>1, <1>2, <1>9, <2>1 DEF MemTyped
<1>26. ASSUME NEW q \in Procs, q # p PROVE SpaceOf(q)' /\ CleanOf(q)'
  BY <1>1, <1>2, <1>23, <1>24, <1>26, Bystander
<1>27. Maps(p)'
  <2>1. \A v \in VPages \ {USER_USTACK} : m[v] # 0 <=> v \in USER_TEXT .. brk[p] - 1
    BY <1>5, <1>9
  <2>2. m[USER_USTACK] # 0 /\ ~(brk[p] > USER_USTACK)
    BY <1>3, <1>4, <1>9
  <2>3. \A v \in VPages : m[v] # 0 => table[p][PdIndex(v)] # 0
    BY <1>4, <1>9 DEF Maps
  <2> QED BY <1>1, <1>4, <1>23, <2>1, <2>2, <2>3 DEF Maps
<1>28. SpaceOf(p)'
  BY <1>23, <1>24, <1>27 DEF SpaceOf
<1>29. CleanOf(p)'
  BY <1>1, <1>4, <1>9, <1>23, <1>24 DEF CleanOf
<1> QED BY <1>1, <1>20, <1>23, <1>25, <1>26, <1>28, <1>29 DEF IndInv

(* One page is handed out.                                                  *)
LEMMA OnePage ==
    ASSUME NEW bm, NEW ix \in Nat, Enough(bm, 1)
    PROVE  /\ Free(bm, ix)[1] \in Pages \ bm
           /\ Taken(bm, ix, 1) = bm \cup {Free(bm, ix)[1]}
           /\ IndexAfter(bm, ix, 1) \in Nat
<1> DEFINE C == Cardinality(Pages \ bm)
<1>1. C \in Nat /\ Free(bm, ix) \in [1 .. C -> Pages \ bm] /\ C >= 1
  BY FreeEnumerates, ix \in Int DEF Enough
<1> HIDE DEF C
<1>2. Free(bm, ix)[1] \in Pages \ bm
  BY <1>1
<1>3. Taken(bm, ix, 1) = bm \cup {Free(bm, ix)[1]}
  <2>1. \A i : i \in 1 .. 1 <=> i = 1
    OBVIOUS
  <2> QED BY <2>1 DEF Taken
<1>4. IndexAfter(bm, ix, 1) \in Nat
  <2> DEFINE f == Free(bm, ix)[1]
  <2>1. IndexAfter(bm, ix, 1) = f \div BYTE
    BY DEF IndexAfter, Entry
  <2>2. f \in Nat /\ BYTE \in Nat \ {0}
    BY <1>2, MemoryAssumption DEF Pages
  <2> HIDE DEF f
  <2> QED BY <2>1, <2>2
<1> QED BY <1>2, <1>3, <1>4

(* What exec() has when the pages of the old program are gone: the page for *)
(* the new stack, and the old stack unless brk() ran over it.               *)
Swept(p, F, new, freed, map) ==
    /\ Accounted([FramesOf EXCEPT ![p] = F], (bitmap \cup {new}) \ freed, leaked)
    /\ Holds(F, dir[p], table[p], map, new)
    /\ map \in [VPages -> Pages]
    /\ \A v \in VPages : map[v] = 0 \/ map[v] = pte[p][v]
    /\ \A v \in VPages \ {USER_USTACK} : map[v] = 0
    /\ p \in over \/ map[USER_USTACK] # 0
    /\ \A q \in Procs \ {p} : ustack[q] \notin freed /\ \A v \in VPages : pte[q][v] \notin freed

(* The new page is taken before the old ones are freed.                     *)
LEMMA Sweeps ==
    ASSUME IndInv, NEW p \in Procs, st[p] = "run", NEW new \in Pages \ bitmap
    PROVE  \E F : Swept(p, F, new, At(pte[p], Dropped(p, USER_TEXT)), Removed(pte[p], Dropped(p, USER_TEXT)))
<1> DEFINE vs == Dropped(p, USER_TEXT)
           freed == At(pte[p], vs)
           map == Removed(pte[p], vs)
           F == FramesOf[p]
           A == {NewAt}
           g == [x \in A |-> new]
           F1 == Filled(F, A, g)
           N == PagesAt(vs)
           F2 == Emptied(F1, N)
<1>1. MemTyped /\ Accounted(FramesOf, bitmap, leaked) /\ \A q \in Procs : SpaceOf(q) /\ CleanOf(q)
  BY DEF IndInv
<1>2. /\ brk[p] \in USER_TEXT .. MAX_BRK + 1 /\ USER_TEXT \in Nat /\ MAX_BRK \in Nat
      /\ USER_USTACK \in VPages /\ pte[p] \in [VPages -> Pages]
  BY <1>1, MemoryAssumption DEF MemTyped, VPages
<1>3. vs \in SUBSET VPages /\ vs = USER_TEXT .. brk[p] - 1
  BY <1>2 DEF VPages, Dropped
<1>4. Maps(p) /\ ustack[p] = 0 /\ Holds(F, dir[p], table[p], pte[p], ustack[p])
  BY <1>1, HasFrames DEF SpaceOf
<1>5. \A v \in vs : pte[p][v] # 0 /\ (v = USER_USTACK => p \in over)
  <2> TAKE v \in vs
  <2>1. CASE v = USER_USTACK
    BY <1>2, <1>3, <1>4, <2>1 DEF Maps, VPages
  <2>2. CASE v # USER_USTACK
    BY <1>3, <1>4, <2>2 DEF Maps
  <2> QED BY <2>1, <2>2
<1> HIDE DEF vs, freed, map
<1>6. Hands(g, A, bitmap) /\ Held(g, A) = {new} /\ A \ Place = {} /\ A \cap Place = A
  BY Places DEF Hands, Held
<1>7. Held(F, A) \ {0} = {}
  BY <1>4 DEF Held, Holds
<1>8. F1 = [x \in Place |-> F1[x]] /\ \A x \in Place : F1[x] = IF x = NewAt THEN new ELSE F[x]
  BY DEF Filled
<1>9. FramesOf \in [Procs -> [Place -> Pages]] /\ F = FramesOf[p]
  BY <1>1 DEF Accounted
<1> HIDE DEF g, A, F
<1>10. Accounted([FramesOf EXCEPT ![p] = F1], bitmap \cup {new}, leaked)
  <2>1. Accounted([FramesOf EXCEPT ![p] = Filled(FramesOf[p], A, g)], bitmap \cup Held(g, A),
                  leaked \cup (Held(FramesOf[p], A \cap Place) \ {0}) \cup Held(g, A \ Place))
    BY <1>1, <1>6, Alloc
  <2>2. Held(g, A \ Place) = {}
    BY <1>6 DEF Held
  <2> QED BY <1>6, <1>7, <1>9, <2>1, <2>2
<1> HIDE DEF F1
<1>11. Holds(F1, dir[p], table[p], pte[p], new)
  BY <1>4, <1>8, Places DEF Holds
<1>12. Reduced(F1, dir[p], table[p], pte[p], new, vs)
  BY <1>2, <1>3, <1>11, Unmapped
<1>13. There(F1, pte[p], vs)
  BY <1>3, <1>11, PagesThere
<1>14. There(F, pte[p], vs)
  BY <1>3, <1>4, PagesThere
<1>15. N \in SUBSET Place /\ Held(F1, N) = freed /\ Held(F, N) = freed
       /\ (\A x \in N : F1[x] # 0) /\ \A x \in N : F[x] # 0
  BY <1>5, <1>13, <1>14 DEF There, freed
<1> HIDE DEF N
<1>16. Accounted([FramesOf EXCEPT ![p] = F2], (bitmap \cup {new}) \ freed, leaked)
  <2> DEFINE FF == [FramesOf EXCEPT ![p] = F1]
             M == {}
  <2>1. FF[p] = F1 /\ [FF EXCEPT ![p] = F2] = [FramesOf EXCEPT ![p] = F2]
    BY <1>9, Twice
  <2>2. M \in SUBSET Place /\ N \cap M = {} /\ N \cup M = N /\ Held(F1, M) = {}
    BY DEF Held
  <2> HIDE DEF M, FF
  <2>3. Accounted([FF EXCEPT ![p] = Emptied(FF[p], N \cup M)], (bitmap \cup {new}) \ Held(FF[p], N),
                  leaked \cup (Held(FF[p], M) \ {0}))
    <3>1. Accounted(FF, bitmap \cup {new}, leaked) /\ \A x \in N : FF[p][x] # 0
      BY <1>10, <1>15, <2>1 DEF FF
    <3> QED BY <1>15, <2>2, <3>1, Drop
  <2> QED BY <1>15, <2>1, <2>2, <2>3
<1>17. /\ Holds(F2, dir[p], table[p], map, new) /\ map \in [VPages -> Pages]
       /\ \A v \in VPages : map[v] = IF v \in vs THEN 0 ELSE pte[p][v]
  BY <1>12 DEF Reduced, map, N
<1>18. \A v \in VPages \ {USER_USTACK} : map[v] = 0
  BY <1>3, <1>4, <1>17 DEF Maps
<1>19. p \in over \/ map[USER_USTACK] # 0
  BY <1>2, <1>4, <1>5, <1>17 DEF Maps
<1>20. \A q \in Procs \ {p} : ustack[q] \notin freed /\ \A v \in VPages : pte[q][v] \notin freed
  <2>1. N \in SUBSET Place /\ (\A x \in N : FramesOf[p][x] # 0) /\ freed = Held(FramesOf[p], N)
    BY <1>9, <1>15
  <2> QED BY <1>1, <2>1, OthersKeep
<1> HIDE DEF F2
<1>21. Swept(p, F2, new, freed, map)
  BY <1>16, <1>17, <1>18, <1>19, <1>20 DEF Swept
<1> QED BY <1>21 DEF freed, map, vs

(* exec() up to where it reads the program.                                 *)
LEMMA ExecStep ==
    ASSUME IndInv, NEW p \in Procs, NEW size \in 1 .. MAX_TEXT * PAGE_SIZE, NEW argv, NEW envp,
           ExecStart(p, size, argv, envp)
    PROVE  IndInv'
<1> DEFINE new == Free(bitmap, index)[1]
           freed == At(pte[p], Dropped(p, USER_TEXT))
           bm == Taken(bitmap, index, 1) \ freed
           ix == IndexAfter(bitmap, index, 1)
           map == Removed(pte[p], Dropped(p, USER_TEXT))
           to == BrkPage(USER_TEXT * PAGE_SIZE + size)
           reqs == Enters(Present(p), USER_TEXT, to)
           free == Free(bm, ix)
           got == {free[i] : i \in DOMAIN reqs}
           m == NewPte(reqs, free, map)
           t == NewTable(reqs, free, table[p])
<1>1. CASE ~Enough(bitmap, 1) \/ ~Enough(bm, Len(reqs))
  <2>1. Panic
    BY <1>1 DEF ExecStart
  <2> QED BY <2>1, Unchanged DEF Panic
<1>2. CASE Enough(bitmap, 1) /\ Enough(bm, Len(reqs))
  <2>1. /\ st[p] = "run"
        /\ bitmap' = Taken(bm, ix, Len(reqs)) /\ index' = IndexAfter(bm, ix, Len(reqs))
        /\ table' = [table EXCEPT ![p] = t] /\ pte' = [pte EXCEPT ![p] = m]
        /\ brk' = [brk EXCEPT ![p] = to] /\ st' = [st EXCEPT ![p] = "exec"]
        /\ ustack' = [ustack EXCEPT ![p] = new] /\ clean' = (clean \ freed) \cup ({new} \cup got)
        /\ UNCHANGED <<dir, leaked, over>>
    BY <1>2 DEF ExecStart, Running, Zeroed
  <2>2. MemTyped /\ Accounted(FramesOf, bitmap, leaked) /\ \A q \in Procs : SpaceOf(q) /\ CleanOf(q)
    BY DEF IndInv
  <2>3. /\ to \in USER_TEXT .. USER_TEXT + MAX_TEXT /\ USER_TEXT \in Nat /\ MAX_TEXT \in Nat
        /\ USER_TEXT + MAX_TEXT < USER_USTACK /\ USER_USTACK <= MAX_BRK /\ MAX_BRK \in Nat
        /\ USER_USTACK \in VPages /\ USER_USTACK \in Nat
        /\ table[p] \in [PdIndexes -> Pages] /\ pte[p] \in [VPages -> Pages] /\ index \in Nat
    <3>1. to \in USER_TEXT .. USER_TEXT + MAX_TEXT
      BY TextPage
    <3> HIDE DEF to
    <3> QED BY <2>2, <3>1, MemoryAssumption DEF MemTyped, VPages
  <2>4. new \in Pages \ bitmap /\ bm = (bitmap \cup {new}) \ freed /\ ix \in Nat
    BY <1>2, <2>3, OnePage
  <2> HIDE DEF to, new, ix
  <2>5. PICK F : Swept(p, F, new, freed, map)
    BY <2>1, <2>4, Sweeps
  <2>6. to \in Nat /\ USER_TEXT <= to /\ to <= MAX_BRK + 1 /\ to < USER_USTACK
    BY <2>3
  <2>7. PICK A, g :
          /\ Fills(A, g, table[p], USER_TEXT, to, bm)
          /\ NewMaps(A, g, table[p], map, t, m)
          /\ got = Held(g, A)
          /\ Taken(bm, ix, Len(reqs)) = bm \cup Held(g, A)
          /\ IndexAfter(bm, ix, Len(reqs)) \in Nat
    <3>1. map \in [VPages -> Pages]
      BY <2>5 DEF Swept
    <3> HIDE DEF map, bm
    <3>2. Present(p) = {i \in PdIndexes : table[p][i] # 0}
      BY DEF Present
    <3>3. \E A, g : Takes(A, g, table[p], map, USER_TEXT, to, bm, ix, Present(p))
      BY <1>2, <2>3, <2>4, <2>6, <3>1, <3>2, Entered
    <3> QED BY <3>3 DEF Takes
  <2> HIDE DEF m, t, got, free, reqs, bm, map, freed
  <2> DEFINE FF == [FramesOf EXCEPT ![p] = F]
             H == Filled(F, A, g)
  <2>8. FramesOf \in [Procs -> [Place -> Pages]]
    BY <2>2 DEF Accounted
  <2>9. FF[p] = F /\ [FF EXCEPT ![p] = H] = [FramesOf EXCEPT ![p] = H]
    BY <2>8, Twice
  <2> HIDE DEF FF, H
  <2>10. Accounted(FF, bm, leaked) /\ Kernel \subseteq bm
    BY <2>4, <2>5 DEF Swept, FF, Accounted
  <2>11. /\ t \in [PdIndexes -> Pages] /\ m \in [VPages -> Pages]
         /\ \A v \in VPages : m[v] # 0 <=> map[v] # 0 \/ v \in USER_TEXT .. to - 1
         /\ \A v \in VPages : v \notin USER_TEXT .. to - 1 => m[v] = map[v]
         /\ \A v \in VPages : v \in USER_TEXT .. to - 1 => m[v] \in Held(g, A)
         /\ \A i \in PdIndexes : table[p][i] # 0 => t[i] # 0
         /\ \A v \in USER_TEXT .. to - 1 : PdIndex(v) \in PdIndexes => t[PdIndex(v)] # 0
         /\ Holds(H, dir[p], t, m, new)
         /\ Held(F, A \cap Place) \ {0} = {map[v] : v \in VPages \cap (USER_TEXT .. to - 1)} \ {0}
    <3>1. Extended(A, g, table[p], map, USER_TEXT, to, F, dir[p], new, t, m)
      BY <2>3, <2>5, <2>7, <2>10, FilledSpace DEF Swept
    <3> QED BY <3>1 DEF Extended, H
  <2>12. Becomes(p, dir[p], t, m, new)
    BY <2>1, <2>2 DEF MemTyped, Becomes
  <2>13. /\ FramesOf' = [FramesOf EXCEPT ![p] = H]
         /\ dir'[p] = dir[p] /\ table'[p] = t /\ pte'[p] = m /\ ustack'[p] = new
         /\ \A q \in Procs \ {p} : /\ dir'[q] = dir[q] /\ table'[q] = table[q]
                                   /\ pte'[q] = pte[q] /\ ustack'[q] = ustack[q]
    BY <2>2, <2>11, <2>12, OneSpace
  <2>14. /\ brk'[p] = to /\ st'[p] = "exec"
         /\ \A q \in Procs \ {p} : brk'[q] = brk[q] /\ st'[q] = st[q]
    BY <2>1, <2>2 DEF MemTyped
  <2>15. \A v \in VPages : v \in USER_TEXT .. to - 1 => v # USER_USTACK /\ map[v] = 0
    BY <2>3, <2>5, <2>6 DEF Swept
  <2>16. Accounted(FramesOf', bitmap', leaked')
    <3>1. A \ Place = {} /\ Hands(g, A, bm)
      BY <2>7 DEF Fills
    <3>2. Accounted([FF EXCEPT ![p] = Filled(FF[p], A, g)], bm \cup Held(g, A),
               leaked \cup (Held(FF[p], A \cap Place) \ {0}) \cup Held(g, A \ Place))
      BY <2>10, <3>1, Alloc
    <3>3. Held(F, A \cap Place) \ {0} = {}
      BY <2>11, <2>15
    <3>4. Held(g, A \ Place) = {}
      BY <3>1 DEF Held
    <3> QED BY <2>1, <2>7, <2>9, <2>13, <3>2, <3>3, <3>4 DEF H
  <2>17. MemTyped'
    <3>1. to \in USER_TEXT .. MAX_BRK + 1 /\ new \in Pages
      BY <2>3, <2>4, <2>6
    <3> QED BY <2>1, <2>2, <2>7, <2>11, <3>1 DEF MemTyped
  <2>18. \A q \in Procs \ {p} : ustack[q] \notin freed /\ \A v \in VPages : pte[q][v] \notin freed
    BY <2>5 DEF Swept
  <2>19. ASSUME NEW q \in Procs, q # p PROVE SpaceOf(q)' /\ CleanOf(q)'
    BY <2>1, <2>2, <2>13, <2>14, <2>18, <2>19, Bystander
  <2>20. Maps(p)
    BY <2>1, <2>2 DEF SpaceOf
  <2>21. Maps(p)'
    <3>1. \A v \in VPages \ {USER_USTACK} : m[v] # 0 <=> v \in USER_TEXT .. to - 1
      BY <2>5, <2>11 DEF Swept
    <3>2. ~(to > USER_USTACK)
      BY <2>3, <2>6
    <3>3. p \in over \/ m[USER_USTACK] # 0
      BY <2>3, <2>5, <2>11 DEF Swept
    <3>4. \A v \in VPages : m[v] # 0 => t[PdIndex(v)] # 0
      <4> TAKE v \in VPages
      <4>1. PdIndex(v) \in PdIndexes
        BY TableOf
      <4> QED BY <2>5, <2>11, <2>20, <4>1 DEF Maps, Swept
    <3>5. t[PdIndex(USER_USTACK)] # 0
      BY <2>3, <2>11, <2>20, TableOf DEF Maps
    <3> QED BY <2>1, <2>13, <2>14, <2>20, <3>1, <3>2, <3>3, <3>4, <3>5 DEF Maps
  <2>22. SpaceOf(p)'
    <3>1. new # 0 /\ to <= USER_TEXT + MAX_TEXT
      BY <2>2, <2>3, <2>4, KernelPage DEF Accounted
    <3> QED BY <2>13, <2>14, <2>21, <3>1 DEF SpaceOf
  <2>23. CleanOf(p)'
    <3>1. \A v \in VPages \ {USER_USTACK} : m[v] # 0 => m[v] \in got
      BY <2>5, <2>7, <2>11 DEF Swept
    <3> QED BY <2>1, <2>13, <2>14, <3>1 DEF CleanOf
  <2> QED BY <2>16, <2>17, <2>19, <2>22, <2>23 DEF IndInv
<1> QED BY <1>1, <1>2

-----------------------------------------------------------------------------
(* What the first requests for a new address space are for: the page        *)
(* directory, the stack and its page table, then the pages up to hi.  The   *)
(* page of the stack is requested for the place S: fork() gets one before   *)
(* it maps it.                                                              *)
StackAt == <<"stack", USER_USTACK>>
Table0 == PdIndex(USER_USTACK)
AskedBy(S, hi) == {DirAt, S, TableAt(Table0)} \cup Asked({Table0}, USER_TEXT, hi)
RequestsOf(S, hi) == <<DirAt, S, TableAt(Table0)>> \o Enters({Table0}, USER_TEXT, hi)
StackPlace(S, hi) ==
    /\ S \in {StackAt, PageAt(USER_USTACK)}
    /\ S = PageAt(USER_USTACK) => hi <= USER_USTACK
    /\ hi \in USER_TEXT .. MAX_BRK + 1

(* It is requested once.                                                    *)
LEMMA AskedOnce ==
    ASSUME NEW S, NEW hi, StackPlace(S, hi)
    PROVE  Enumerates(RequestsOf(S, hi), AskedBy(S, hi))
<1> DEFINE first == <<DirAt, S, TableAt(Table0)>>
           A == {DirAt, S, TableAt(Table0)}
           B == Asked({Table0}, USER_TEXT, hi)
<1>1. /\ USER_TEXT \in Nat /\ hi \in Nat /\ USER_TEXT <= hi
      /\ USER_USTACK \in Nat
  BY MemoryAssumption DEF StackPlace
<1>2. Enumerates(Enters({Table0}, USER_TEXT, hi), B)
  BY <1>1, EntersOnce
<1>3. S # DirAt /\ S # TableAt(Table0) /\ DirAt # TableAt(Table0)
  BY DEF StackPlace, StackAt, PageAt, DirAt, TableAt
<1>4. Enumerates(first, A)
  <2>1. first \in Seq(A) /\ Len(first) = 3 /\ first[1] = DirAt /\ first[2] = S /\ first[3] = TableAt(Table0)
    OBVIOUS
  <2>2. \A i : i \in 1 .. 3 <=> i = 1 \/ i = 2 \/ i = 3
    OBVIOUS
  <2> HIDE DEF first
  <2> QED BY <1>3, <2>1, <2>2 DEF Enumerates
<1>5. A \cap B = {}
  <2>1. DirAt \notin B /\ TableAt(Table0) \notin B
    BY DEF Asked, DirAt, TableAt
  <2>2. S \notin B
    <3>1. CASE S = StackAt
      BY <3>1 DEF Asked, StackAt
    <3>2. CASE S = PageAt(USER_USTACK)
      BY <1>1, <3>2 DEF StackPlace, Asked, PageAt
    <3> QED BY <3>1, <3>2 DEF StackPlace
  <2> QED BY <2>1, <2>2
<1> HIDE DEF first, A, B
<1>6. Enumerates(first \o Enters({Table0}, USER_TEXT, hi), A \cup B)
  BY <1>2, <1>4, <1>5, Joined
<1> QED BY <1>6 DEF first, A, B, RequestsOf, AskedBy

(* The address space that is made of the pages: directory, tables, pages.   *)
Made(g, A, S, d, t, m) ==
    /\ d = g[DirAt]
    /\ t = [i \in PdIndexes |-> IF TableAt(i) \in A THEN g[TableAt(i)] ELSE 0]
    /\ m = [v \in VPages |-> IF PageAt(v) \in A THEN g[PageAt(v)]
                             ELSE IF v = USER_USTACK THEN g[S] ELSE 0]

Complete(d, t, m, hi) ==
    /\ d \in Pages /\ d # 0 /\ t \in [PdIndexes -> Pages] /\ m \in [VPages -> Pages]
    /\ \A v \in VPages \ {USER_USTACK} : m[v] # 0 <=> v \in USER_TEXT .. hi - 1
    /\ m[USER_USTACK] # 0 /\ t[Table0] # 0
    /\ \A v \in VPages : m[v] # 0 => t[PdIndex(v)] # 0

(* It has all that a process needs.                                         *)
LEMMA MadeComplete ==
    ASSUME NEW S, NEW hi, StackPlace(S, hi), NEW bm, Kernel \subseteq bm,
           NEW A, A = AskedBy(S, hi), NEW g, Hands(g, A, bm), NEW d, NEW t, NEW m, Made(g, A, S, d, t, m)
    PROVE  Complete(d, t, m, hi) /\ \A v \in VPages : m[v] # 0 => m[v] \in Held(g, A)
<1>1. \A x \in A : g[x] \in Pages /\ g[x] # 0 /\ g[x] \in Held(g, A)
  BY KernelPage DEF Hands, Held
<1>2. DirAt \in A /\ S \in A /\ TableAt(Table0) \in A
  BY DEF AskedBy
<1>3. /\ USER_TEXT \in Nat /\ hi \in Nat /\ hi <= MAX_BRK + 1 /\ MAX_BRK \in Nat
      /\ USER_USTACK \in VPages
  BY MemoryAssumption DEF StackPlace, VPages
<1>4. /\ \A v \in VPages \ {USER_USTACK} : PageAt(v) \in A <=> v \in USER_TEXT .. hi - 1
      /\ \A v \in VPages : v \in USER_TEXT .. hi - 1 => PdIndex(v) = Table0 \/ TableAt(PdIndex(v)) \in A
  BY DEF AskedBy, Asked, StackPlace, StackAt, PageAt, TableAt, DirAt
<1>5. 0 \in Pages
  BY KernelPage
<1>6. /\ t = [i \in PdIndexes |-> t[i]] /\ m = [v \in VPages |-> m[v]]
      /\ \A i \in PdIndexes : t[i] = IF TableAt(i) \in A THEN g[TableAt(i)] ELSE 0
      /\ \A v \in VPages : m[v] = IF PageAt(v) \in A THEN g[PageAt(v)] ELSE IF v = USER_USTACK THEN g[S] ELSE 0
  BY DEF Made
<1>7. /\ \A i \in PdIndexes : t[i] \in Pages
      /\ \A v \in VPages : m[v] \in Pages /\ (m[v] # 0 => m[v] \in Held(g, A))
  BY <1>1, <1>2, <1>5, <1>6
<1>8. \A v \in VPages \ {USER_USTACK} : m[v] # 0 <=> v \in USER_TEXT .. hi - 1
  BY <1>1, <1>4, <1>6
<1>9. m[USER_USTACK] # 0
  BY <1>1, <1>2, <1>3, <1>6
<1>10. Table0 \in PdIndexes /\ t[Table0] # 0
  BY <1>1, <1>2, <1>3, <1>6, TableOf DEF Table0
<1>11. \A v \in VPages : m[v] # 0 => t[PdIndex(v)] # 0
  <2> TAKE v \in VPages
  <2> HAVE m[v] # 0
  <2>1. PdIndex(v) \in PdIndexes
    BY TableOf
  <2>2. CASE v = USER_USTACK
    BY <1>10, <2>2 DEF Table0
  <2>3. CASE v # USER_USTACK
    BY <1>1, <1>4, <1>6, <1>8, <1>10, <2>1, <2>3
  <2> QED BY <2>2, <2>3
<1>12. d \in Pages /\ d # 0
  BY <1>1, <1>2 DEF Made
<1>13. t \in [PdIndexes -> Pages] /\ m \in [VPages -> Pages]
  BY <1>6, <1>7
<1> QED BY <1>7, <1>8, <1>9, <1>10, <1>11, <1>12, <1>13 DEF Complete

(* A slot without any page gets the address space: the page for the stack   *)
(* is lost if the heap covers the stack.                                    *)
LEMMA NewSpace ==
    ASSUME NEW F, NEW bm, NEW lost, Accounted(F, bm, lost), NEW c \in Procs,
           \A x \in Place : F[c][x] = 0,
           NEW S, NEW hi, StackPlace(S, hi), NEW A, A = AskedBy(S, hi), NEW g, Hands(g, A, bm),
           NEW d, NEW t, NEW m, Made(g, A, S, d, t, m)
    PROVE  \E H : /\ Accounted([F EXCEPT ![c] = H], bm \cup Held(g, A),
                               lost \cup ({g[S]} \ At(m, {v \in VPages : m[v] # 0})))
                  /\ Holds(H, d, t, m, 0)
<1> DEFINE P == PageAt(USER_USTACK)
           as == IF P \in A THEN S ELSE P
           B == (A \ {S}) \cup {as}
           h == [x \in B |-> IF x = as THEN g[S] ELSE g[x]]
           H == Filled(F[c], B, h)
           extra == {g[S]} \ At(m, {v \in VPages : m[v] # 0})
<1>1. DirAt \in A /\ S \in A /\ USER_USTACK \in VPages
  BY MemoryAssumption DEF AskedBy, VPages
<1>2. \A x \in A : g[x] \in Pages /\ g[x] # 0
  BY KernelPage DEF Hands, Accounted
<1>3. \A v \in VPages : v \in USER_TEXT .. hi - 1 => PdIndex(v) \in PdIndexes
  BY TableOf
<1>4. A \ {S} \subseteq Place /\ NewAt \notin A
  <2>1. USER_TEXT .. hi - 1 \subseteq VPages
    <3>1. USER_TEXT \in Nat /\ MAX_BRK \in Nat /\ hi \in USER_TEXT .. MAX_BRK + 1
      BY MemoryAssumption DEF StackPlace
    <3> QED BY <3>1 DEF VPages
  <2>2. Table0 \in PdIndexes
    BY <1>1, TableOf DEF Table0
  <2>3. Asked({Table0}, USER_TEXT, hi) \subseteq Place
    BY <1>3, <2>1 DEF Asked, Place, PageAt, TableAt
  <2>4. TableAt(Table0) \in Place
    BY <2>2, Places
  <2>5. NewAt \notin A
    BY DEF AskedBy, Asked, StackPlace, StackAt, PageAt, TableAt, DirAt, NewAt
  <2> QED BY <2>3, <2>4, <2>5, Places DEF AskedBy
<1>5. S = StackAt \/ S = P
  BY DEF StackPlace
<1>6. StackAt \notin Place /\ P \in Place
  BY <1>1, Places DEF StackAt, Place, DirAt, NewAt, TableAt, PageAt
<1>7. /\ (P \in A /\ S = P /\ as = P) \/ (P \in A /\ S = StackAt /\ as = StackAt) \/ (P \notin A /\ S = StackAt /\ as = P)
      /\ as \in B /\ \A x \in B : x = as \/ (x \in A /\ x # S)
      /\ \A x \in A : x # S => x \in B /\ x # as
  BY <1>1, <1>5, <1>6
<1>8. as = P => B \ Place = {}
  BY <1>4, <1>6
<1>9. as = StackAt => B \ Place = {as}
  BY <1>4, <1>6
<1>10. NewAt \notin B /\ DirAt \in B /\ DirAt # as
  BY <1>1, <1>4, <1>5, <1>6, <1>7, Places DEF StackPlace, StackAt, DirAt, NewAt, PageAt
<1>12. \A x \in Place : x # P => (x \in A <=> x \in B)
  BY <1>5, <1>6, <1>7
<1> HIDE DEF as, B, P
<1>13. \A x \in B : h[x] = IF x = as THEN g[S] ELSE g[x]
  OBVIOUS
<1>14. h = [x \in B |-> h[x]]
  OBVIOUS
<1> HIDE DEF h
<1>15. \A x \in B : h[x] \in Pages \ bm
  BY <1>1, <1>7, <1>13 DEF Hands
<1>16. \A x, y \in B : h[x] = h[y] => x = y
  BY <1>1, <1>7, <1>13 DEF Hands
<1>17. Hands(h, B, bm)
  BY <1>14, <1>15, <1>16 DEF Hands
<1>18. Held(h, B) = Held(g, A)
  <2>1. \A x \in B : \E y \in A : h[x] = g[y]
    BY <1>1, <1>7, <1>13
  <2>2. \A y \in A : \E x \in B : h[x] = g[y]
    BY <1>1, <1>7, <1>13
  <2> QED BY <2>1, <2>2 DEF Held
<1>19. Accounted([F EXCEPT ![c] = H], bm \cup Held(h, B),
                 lost \cup (Held(F[c], B \cap Place) \ {0}) \cup Held(h, B \ Place))
  BY <1>17, Alloc
<1>20. Held(F[c], B \cap Place) \ {0} = {}
  BY DEF Held
<1>21. \A v \in VPages : m[v] = IF PageAt(v) \in A THEN g[PageAt(v)] ELSE IF v = USER_USTACK THEN g[S] ELSE 0
  BY DEF Made
<1>22. Held(h, B \ Place) = extra
  <2>1. CASE as = P
    <3>1. m[USER_USTACK] = g[S] /\ g[S] # 0
      BY <1>1, <1>2, <1>5, <1>7, <1>21, <2>1 DEF P
    <3>2. extra = {}
      BY <1>1, <3>1 DEF At
    <3> QED BY <1>8, <2>1, <3>2 DEF Held
  <2>2. CASE as = StackAt
    <3>1. P \in A /\ S = StackAt
      BY <1>6, <1>7, <2>2
    <3>2. \A v \in VPages : m[v] # g[S]
      <4> TAKE v \in VPages
      <4>1. CASE PageAt(v) \in A
        <5>1. PageAt(v) # S
          BY <3>1 DEF PageAt, StackAt
        <5> QED BY <1>1, <1>21, <4>1, <5>1 DEF Hands
      <4>2. CASE PageAt(v) \notin A
        BY <1>1, <1>2, <1>21, <3>1, <4>2 DEF P
      <4> QED BY <4>1, <4>2
    <3>3. extra = {g[S]}
      BY <3>2 DEF At
    <3>4. h[as] = g[S]
      BY <1>7, <1>13
    <3> QED BY <1>9, <2>2, <3>3, <3>4 DEF Held
  <2> QED BY <1>7, <2>1, <2>2
<1>23. H = [x \in Place |-> H[x]] /\ \A x \in Place : H[x] = IF x \in B THEN h[x] ELSE 0
  BY DEF Filled
<1> HIDE DEF H, extra
<1>24. H[DirAt] = d /\ H[NewAt] = 0
  BY <1>10, <1>13, <1>23, Places DEF Made
<1>25. \A x \in Place : x # P => H[x] = IF x \in A THEN g[x] ELSE 0
  <2> TAKE x \in Place
  <2> HAVE x # P
  <2>1. x # as
    BY <1>6, <1>7
  <2> QED BY <1>12, <1>13, <1>23, <2>1
<1>26. \A i \in PdIndexes : H[TableAt(i)] = t[i]
  BY <1>25, Places DEF Made, P
<1>27. H[P] = m[USER_USTACK]
  <2>1. P \in B /\ h[P] = IF P \in A THEN g[P] ELSE g[S]
    BY <1>5, <1>6, <1>7, <1>13
  <2> QED BY <1>1, <1>6, <1>21, <1>23, <2>1 DEF P
<1>28. \A v \in VPages : H[PageAt(v)] = m[v]
  <2> TAKE v \in VPages
  <2>1. CASE v = USER_USTACK
    BY <1>27, <2>1 DEF P
  <2>2. CASE v # USER_USTACK
    BY <1>21, <1>25, <2>2, Places DEF P
  <2> QED BY <2>1, <2>2
<1>29. Holds(H, d, t, m, 0)
  BY <1>23, <1>24, <1>26, <1>28 DEF Holds
<1> QED BY <1>18, <1>19, <1>20, <1>22, <1>29 DEF extra

(* The lowest of some numbers is one of them.                               *)
LEMMA Lowest == ASSUME NEW S \in SUBSET Nat, S # {} PROVE Min(S) \in S
<1> DEFINE Less == {ss \in Nat \X Nat : ss[1] < ss[2]}
<1>1. IsWellFoundedOn(Less, Nat)
  BY NatLessThanWellFounded DEF OpToRel
<1>2. PICK x \in S : \A y \in S : ~(<<y, x>> \in Less)
  <2> HIDE DEF Less
  <2> QED BY <1>1, WFMin
<1>3. ASSUME NEW y \in S PROVE x <= y
  <2>1. x \in Nat /\ y \in Nat
    OBVIOUS
  <2>2. ~(y < x)
    BY <1>2, <2>1
  <2> QED BY <2>1, <2>2
<1> QED BY <1>3 DEF Min

(* The first members of a sequence.                                         *)
LEMMA FirstThree ==
    ASSUME NEW a, NEW b, NEW e, NEW B, NEW s \in Seq(B)
    PROVE  /\ (<<a, b, e>> \o s)[1] = a /\ (<<a, b, e>> \o s)[2] = b
           /\ Len(<<a, b, e>> \o s) = 3 + Len(s) /\ Len(s) \in Nat
           /\ 1 \in 1 .. Len(<<a, b, e>> \o s) /\ 2 \in 1 .. Len(<<a, b, e>> \o s)
<1> DEFINE Y == {a, b, e} \cup B
           f == <<a, b, e>>
<1>1. f \in Seq(Y) /\ Len(f) = 3 /\ f[1] = a /\ f[2] = b
  OBVIOUS
<1>2. s \in Seq(Y) /\ Len(s) \in Nat
  <2>1. s \in [1 .. Len(s) -> Y] /\ Len(s) \in Nat
    OBVIOUS
  <2> HIDE DEF Y
  <2> QED BY <2>1
<1> HIDE DEF f, Y
<1>3. (f \o s)[1] = f[1] /\ (f \o s)[2] = f[2] /\ Len(f \o s) = 3 + Len(s)
  <2>1. Len(f \o s) = Len(f) + Len(s) /\ \A i \in 1 .. Len(f) : (f \o s)[i] = f[i]
    <3> SUFFICES ASSUME NEW X, f \in Seq(X), s \in Seq(X)
                 PROVE  Len(f \o s) = Len(f) + Len(s) /\ \A i \in 1 .. Len(f) : (f \o s)[i] = f[i]
      BY <1>1, <1>2
    <3> QED OBVIOUS
  <2>2. 1 \in 1 .. Len(f) /\ 2 \in 1 .. Len(f)
    BY <1>1
  <2> QED BY <1>1, <2>1, <2>2
<1>4. 1 \in 1 .. 3 + Len(s) /\ 2 \in 1 .. 3 + Len(s)
  BY <1>2
<1> QED BY <1>1, <1>2, <1>3, <1>4 DEF f

(* fork() copies an address space into a slot that is not used.             *)
LEMMA ForkStep ==
    ASSUME IndInv, NEW p \in Procs, Fork(p)
    PROVE  IndInv'
<1> DEFINE idle == {q \in Procs : st[q] = "null"}
           slot == Min(idle)
           free == Free(bitmap, index)
           reqs == RequestsOf(StackAt, brk[p])
           stack == [NoSpace EXCEPT ![USER_USTACK] = free[2]]
           child == NewPte(reqs, free, stack)
           t == NewTable(reqs, free, NoTables)
           copied == {v \in VPages : child[v] # 0}
           A == AskedBy(StackAt, brk[p])
<1>1. Running(p) /\ idle # {} /\ IF ~Enough(bitmap, Len(reqs)) THEN Panic ELSE
          /\ bitmap' = Taken(bitmap, index, Len(reqs))
          /\ index' = IndexAfter(bitmap, index, Len(reqs))
          /\ dir' = [dir EXCEPT ![slot] = free[1]]
          /\ table' = [table EXCEPT ![slot] = t]
          /\ pte' = [pte EXCEPT ![slot] = child]
          /\ brk' = [brk EXCEPT ![slot] = brk[p]]
          /\ st' = [st EXCEPT ![slot] = "run"]
          /\ clean' = clean \cup At(child, {v \in copied : pte[p][v] \in clean})
                            \cup {free[1]} \cup (At(t, PdIndexes) \ {0})
          /\ leaked' = leaked \cup ({free[2]} \ At(child, copied))
          /\ over' = IF p \in over THEN over \cup {slot} ELSE over \ {slot}
          /\ UNCHANGED <<ustack, layout, panic>>
  BY DEF Fork, RequestsOf, StackAt, DirAt, TableAt, Table0
<1>2. CASE ~Enough(bitmap, Len(reqs))
  <2>1. Panic
    BY <1>1, <1>2
  <2> QED BY <2>1, Unchanged DEF Panic
<1>3. CASE Enough(bitmap, Len(reqs))
  <2>a. /\ st[p] = "run"
        /\ bitmap' = Taken(bitmap, index, Len(reqs)) /\ index' = IndexAfter(bitmap, index, Len(reqs))
        /\ dir' = [dir EXCEPT ![slot] = free[1]] /\ table' = [table EXCEPT ![slot] = t]
        /\ pte' = [pte EXCEPT ![slot] = child] /\ brk' = [brk EXCEPT ![slot] = brk[p]]
        /\ st' = [st EXCEPT ![slot] = "run"] /\ ustack' = ustack
        /\ clean' = clean \cup At(child, {v \in copied : pte[p][v] \in clean})
                          \cup {free[1]} \cup (At(t, PdIndexes) \ {0})
        /\ leaked' = leaked \cup ({free[2]} \ At(child, copied))
        /\ over' = IF p \in over THEN over \cup {slot} ELSE over \ {slot}
    BY <1>1, <1>3 DEF Running
  <2>2. MemTyped /\ Accounted(FramesOf, bitmap, leaked) /\ \A q \in Procs : SpaceOf(q) /\ CleanOf(q)
    BY DEF IndInv
  <2>3. PICK c \in Procs : st[c] = "null" /\ c # p /\ c = slot
    <3>1. idle \in SUBSET Nat
      BY DEF Procs
    <3>2. slot \in idle
      <4> HIDE DEF idle
      <4> QED BY <1>1, <3>1, Lowest
    <3> QED BY <2>a, <3>2
  <2>1. /\ st[p] = "run"
        /\ bitmap' = Taken(bitmap, index, Len(reqs)) /\ index' = IndexAfter(bitmap, index, Len(reqs))
        /\ dir' = [dir EXCEPT ![c] = free[1]] /\ table' = [table EXCEPT ![c] = t]
        /\ pte' = [pte EXCEPT ![c] = child] /\ brk' = [brk EXCEPT ![c] = brk[p]]
        /\ st' = [st EXCEPT ![c] = "run"] /\ ustack' = ustack
        /\ clean' = clean \cup At(child, {v \in copied : pte[p][v] \in clean})
                          \cup {free[1]} \cup (At(t, PdIndexes) \ {0})
        /\ leaked' = leaked \cup ({free[2]} \ At(child, copied))
        /\ over' = IF p \in over THEN over \cup {c} ELSE over \ {c}
    <3> HIDE DEF slot, reqs, free, child, t, copied
    <3> QED BY <2>a, <2>3
  <2>4. /\ brk[p] \in USER_TEXT .. MAX_BRK + 1 /\ index \in Nat /\ USER_USTACK \in VPages
    BY <2>2, MemoryAssumption DEF MemTyped, VPages
  <2>5. StackPlace(StackAt, brk[p])
    BY <2>4 DEF StackPlace, StackAt, PageAt
  <2>6. Enumerates(reqs, A)
    BY <2>5, AskedOnce
  <2> HIDE DEF A, idle, slot
  <2>7. PICK g : HandedTo(g, A, bitmap, index, reqs)
    <3> HIDE DEF reqs
    <3> QED BY <1>3, <2>4, <2>6, HandedOut
  <2>8. reqs[1] = DirAt /\ reqs[2] = StackAt /\ 1 \in 1 .. Len(reqs) /\ 2 \in 1 .. Len(reqs)
    <3>1. Enumerates(Enters({Table0}, USER_TEXT, brk[p]), Asked({Table0}, USER_TEXT, brk[p]))
      <4>1. USER_TEXT \in Nat /\ brk[p] \in Nat /\ USER_TEXT <= brk[p]
        BY <2>4, MemoryAssumption
      <4> QED BY <4>1, EntersOnce
    <3>2. Enters({Table0}, USER_TEXT, brk[p]) \in Seq(Asked({Table0}, USER_TEXT, brk[p]))
      BY <3>1 DEF Enumerates
    <3> QED BY <3>2, FirstThree DEF RequestsOf
  <2> HIDE DEF reqs, free
  <2>9. free[1] = g[DirAt] /\ free[2] = g[StackAt]
    BY <2>7, <2>8 DEF HandedTo, free
  <2>10. \A what, before : Got(reqs, free, what, before) = IF what \in A THEN g[what] ELSE before
    BY <2>7 DEF HandedTo, free
  <2>11. Made(g, A, StackAt, free[1], t, child)
    <3>1. t = [i \in PdIndexes |-> IF TableAt(i) \in A THEN g[TableAt(i)] ELSE 0]
      BY <2>10 DEF NewTable, NoTables, TableAt
    <3>2. \A v \in VPages : stack[v] = IF v = USER_USTACK THEN free[2] ELSE 0
      BY <2>4 DEF NoSpace
    <3>3. child = [v \in VPages |-> IF PageAt(v) \in A THEN g[PageAt(v)]
                                    ELSE IF v = USER_USTACK THEN g[StackAt] ELSE 0]
      <4> HIDE DEF stack
      <4>1. \A v \in VPages : Got(reqs, free, <<"page", v>>, stack[v]) =
               IF PageAt(v) \in A THEN g[PageAt(v)] ELSE IF v = USER_USTACK THEN g[StackAt] ELSE 0
        BY <2>9, <2>10, <3>2 DEF PageAt
      <4> QED BY <4>1 DEF NewPte
    <3> QED BY <2>9, <3>1, <3>3 DEF Made
  <2> HIDE DEF t, child
  <2>12. Hands(g, A, bitmap) /\ Kernel \subseteq bitmap
    BY <2>2, <2>7 DEF HandedTo, Accounted
  <2>13. Complete(free[1], t, child, brk[p]) /\ \A v \in VPages : child[v] # 0 => child[v] \in Held(g, A)
    BY <2>5, <2>11, <2>12, MadeComplete DEF A
  <2>14. \A x \in Place : FramesOf[c][x] = 0
    <3>1. Holds(FramesOf[c], dir[c], table[c], pte[c], ustack[c])
      BY <2>3, HasFrames
    <3>2. /\ dir[c] = 0 /\ ustack[c] = 0 /\ (\A i \in PdIndexes : table[c][i] = 0)
          /\ \A v \in VPages : pte[c][v] = 0
      BY <2>2, <2>3 DEF SpaceOf
    <3> QED BY <3>1, <3>2, Places DEF Holds
  <2>15. PICK H : /\ Accounted([FramesOf EXCEPT ![c] = H], bitmap \cup Held(g, A),
                               leaked \cup ({g[StackAt]} \ At(child, {v \in VPages : child[v] # 0})))
                  /\ Holds(H, free[1], t, child, 0)
    <3>1. A = AskedBy(StackAt, brk[p]) /\ c \in Procs
      BY DEF A
    <3> QED BY <2>2, <2>5, <2>11, <2>12, <2>14, <3>1, NewSpace
  <2>16. ustack[c] = 0
    BY <2>2, <2>3 DEF SpaceOf
  <2>17. Becomes(c, free[1], t, child, 0)
    BY <2>1, <2>2, <2>3, <2>16 DEF MemTyped, Becomes
  <2>18. /\ FramesOf' = [FramesOf EXCEPT ![c] = H]
         /\ dir'[c] = free[1] /\ table'[c] = t /\ pte'[c] = child /\ ustack'[c] = 0
         /\ \A q \in Procs \ {c} : /\ dir'[q] = dir[q] /\ table'[q] = table[q]
                                   /\ pte'[q] = pte[q] /\ ustack'[q] = ustack[q]
    BY <2>2, <2>3, <2>15, <2>17, OneSpace
  <2>19. /\ brk'[c] = brk[p] /\ st'[c] = "run" /\ (c \in over' <=> p \in over)
         /\ \A q \in Procs \ {c} : brk'[q] = brk[q] /\ st'[q] = st[q] /\ (q \in over' <=> q \in over)
    BY <2>1, <2>2, <2>3 DEF MemTyped
  <2>20. bitmap' = bitmap \cup Held(g, A) /\ index' \in Nat
    BY <2>1, <2>7 DEF HandedTo, Taken, free
  <2>21. Accounted(FramesOf', bitmap', leaked')
    BY <2>1, <2>9, <2>15, <2>18, <2>20
  <2>22. MemTyped'
    <3>1. over' \subseteq Procs
      BY <2>1, <2>2, <2>3 DEF MemTyped
    <3>2. dir' \in [Procs -> Pages] /\ table' \in [Procs -> [PdIndexes -> Pages]] /\ pte' \in [Procs -> [VPages -> Pages]]
      BY <2>1, <2>2, <2>13 DEF MemTyped, Complete
    <3>3. brk' \in [Procs -> USER_TEXT .. MAX_BRK + 1]
      BY <2>1, <2>2 DEF MemTyped
    <3>4. st' \in [Procs -> {"null", "run", "exec", "exit", "zombie"}]
      BY <2>1, <2>2 DEF MemTyped
    <3> QED BY <2>1, <2>2, <2>20, <3>1, <3>2, <3>3, <3>4 DEF MemTyped
  <2>23. ASSUME NEW q \in Procs, q # c PROVE SpaceOf(q)' /\ CleanOf(q)'
    BY <2>1, <2>2, <2>18, <2>19, <2>23, Bystander
  <2>24. Maps(p) /\ CleanOf(p)
    BY <2>1, <2>2 DEF SpaceOf
  <2>25. Maps(c)'
    BY <2>13, <2>18, <2>19, <2>24 DEF Maps, Complete, Table0
  <2>26. SpaceOf(c)'
    BY <2>18, <2>19, <2>25 DEF SpaceOf
  <2>27. CleanOf(c)'
    <3>1. ASSUME p \notin over, NEW v \in VPages, child[v] # 0 PROVE child[v] \in clean'
      <4>1. pte[p][v] # 0
        BY <2>13, <2>24, <3>1 DEF Maps, Complete
      <4>2. pte[p][v] \in clean
        BY <2>1, <2>24, <3>1, <4>1 DEF CleanOf
      <4> QED BY <2>1, <3>1, <4>2 DEF At
    <3> QED BY <2>18, <2>19, <3>1 DEF CleanOf
  <2> QED BY <2>21, <2>22, <2>23, <2>26, <2>27 DEF IndInv
<1> QED BY <1>2, <1>3

-----------------------------------------------------------------------------
(* There is room for init.                                                  *)
LEMMA InitRoom == Enough(Kernel, Len(RequestsOf(PageAt(USER_USTACK), USER_TEXT + 1)))
<1> DEFINE v == USER_TEXT
           one(u) == IF PdIndex(u) \in {Table0} \/ (u > v /\ PdIndex(u - 1) = PdIndex(u))
                     THEN << <<"page", u>> >>
                     ELSE << <<"page", u>>, <<"table", PdIndex(u)>> >>
           seqs == [i \in 1 .. (v + 1) - v |-> one(v + i - 1)]
           X == {<<"page", v>>, <<"table", PdIndex(v)>>}
           more == Enters({Table0}, v, v + 1)
<1>1. v \in Nat /\ (v + 1) - v = 1 /\ v + 1 - 1 = v
  BY MemoryAssumption
<1>2. more = FlattenSeq(seqs)
  BY DEF Enters
<1>3. Len(seqs) = 1 /\ seqs[1] = one(v)
  BY <1>1
<1>4. one(v) \in Seq(X) /\ Len(one(v)) <= 2
  <2> DEFINE s1 == << <<"page", v>> >>
             s2 == << <<"page", v>>, <<"table", PdIndex(v)>> >>
  <2>1. s1 \in Seq(X) /\ s2 \in Seq(X) /\ Len(s1) = 1 /\ Len(s2) = 2
    OBVIOUS
  <2>2. one(v) = s1 \/ one(v) = s2
    OBVIOUS
  <2> HIDE DEF s1, s2, one, X
  <2>3. one(v) \in Seq(X) /\ (Len(one(v)) = 1 \/ Len(one(v)) = 2)
    BY <2>1, <2>2, Zenon
  <2>4. ASSUME NEW n, n = 1 \/ n = 2 PROVE n <= 2
    BY <2>4
  <2> QED BY <2>3, <2>4, Zenon
<1> HIDE DEF seqs, one, X, more
<1>5. FlattenSeq(seqs) = one(v)
  <2>1. PICK f : FlatUpTo(f, seqs, 1) /\ FlattenSeq(seqs) = f[1]
    <3>1. Len(seqs) \in Nat /\ Len(seqs) # 0
      BY <1>3
    <3>2. \E f : FlatUpTo(f, seqs, Len(seqs)) /\ FlattenSeq(seqs) = f[Len(seqs)]
      BY <3>1, FlattenSteps
    <3> QED BY <1>3, <3>2
  <2>2. f[1] = seqs[1]
    <3>1. f = [i \in 1 .. 1 |-> IF i = 1 THEN seqs[i] ELSE f[i - 1] \o seqs[i]] /\ 1 \in 1 .. 1
      BY <2>1 DEF FlatUpTo
    <3> QED BY <3>1
  <2> QED BY <1>3, <2>1, <2>2
<1>6. more \in Seq(X) /\ Len(more) <= 2
  BY <1>2, <1>4, <1>5
<1>7. Len(RequestsOf(PageAt(USER_USTACK), v + 1)) = 3 + Len(more) /\ Len(more) \in Nat
  BY <1>6, FirstThree DEF RequestsOf, more
<1>8. Pages \ Kernel = Available
  BY DEF Kernel, Available
<1>9. Cardinality(Available) \in Nat
  <2>1. Available \in SUBSET Pages /\ IsFiniteSet(Pages)
    BY MemoryAssumption, FS_Interval DEF Available, Pages
  <2> QED BY <2>1, FS_Subset, FS_CardinalityType
<1>10. Cardinality(Pages \ Kernel) >= 3 + Len(more)
  <2>1. Cardinality(Pages \ Kernel) = Cardinality(Available) /\ Cardinality(Available) >= 5
    BY <1>8, RoomForInit
  <2> QED BY <1>6, <1>7, <1>9, <2>1
<1> QED BY <1>7, <1>10 DEF Enough

(* proc_create() of init.                                                   *)
LEMMA InitHolds == Init => IndInv
<1> SUFFICES ASSUME Init PROVE IndInv
  OBVIOUS
<1> DEFINE S == PageAt(USER_USTACK)
           hi == USER_TEXT + 1
           all == RequestsOf(S, hi)
           free == Free(Kernel, 0)
           A == AskedBy(S, hi)
           c == Init0
           t == NewTable(all, free, NoTables)
           m == NewPte(all, free, NoSpace)
           Z == [x \in Place |-> 0]
           F == [p \in Procs |-> Z]
<1>1. /\ bitmap = Taken(Kernel, 0, Len(all)) /\ index = IndexAfter(Kernel, 0, Len(all))
      /\ dir = [p \in Procs |-> IF p = c THEN free[1] ELSE 0]
      /\ table = [p \in Procs |-> IF p = c THEN t ELSE NoTables]
      /\ pte = [p \in Procs |-> IF p = c THEN m ELSE NoSpace]
      /\ clean = {free[i] : i \in 1 .. Len(all)}
  BY DEF Init, Kernel, RequestsOf, PageAt, DirAt, TableAt, Table0
<1>2. /\ brk = [p \in Procs |-> IF p = c THEN hi ELSE USER_TEXT]
      /\ st = [p \in Procs |-> IF p = c THEN "run" ELSE "null"]
      /\ ustack = [p \in Procs |-> 0] /\ leaked = {} /\ over = {}
  BY DEF Init
<1>3. /\ c \in Procs /\ hi \in USER_TEXT .. MAX_BRK + 1 /\ hi <= USER_USTACK
      /\ USER_TEXT \in USER_TEXT .. MAX_BRK + 1 /\ USER_USTACK \in VPages /\ USER_USTACK \in Nat
  BY MemoryAssumption DEF Procs, Init0, VPages
<1>4. StackPlace(S, hi)
  BY <1>3 DEF StackPlace
<1>5. Enumerates(all, A)
  BY <1>4, AskedOnce
<1>6. Enough(Kernel, Len(all))
  BY InitRoom
<1>7. all[1] = DirAt /\ 1 \in 1 .. Len(all)
  <2>1. Enumerates(Enters({Table0}, USER_TEXT, hi), Asked({Table0}, USER_TEXT, hi))
    <3>1. USER_TEXT \in Nat /\ hi \in Nat /\ USER_TEXT <= hi
      BY MemoryAssumption
    <3> QED BY <3>1, EntersOnce
  <2>2. Enters({Table0}, USER_TEXT, hi) \in Seq(Asked({Table0}, USER_TEXT, hi))
    BY <2>1 DEF Enumerates
  <2> QED BY <2>2, FirstThree DEF RequestsOf
<1> HIDE DEF all, A, hi, c
<1>8. PICK g : HandedTo(g, A, Kernel, 0, all)
  BY <1>5, <1>6, HandedOut
<1>9. free[1] = g[DirAt]
  BY <1>7, <1>8 DEF HandedTo
<1> HIDE DEF free
<1>10. \A what, before : Got(all, free, what, before) = IF what \in A THEN g[what] ELSE before
  BY <1>8 DEF HandedTo, free
<1>11. S \in A
  BY DEF A, AskedBy
<1>12. Made(g, A, S, free[1], t, m)
  <2>1. t = [i \in PdIndexes |-> IF TableAt(i) \in A THEN g[TableAt(i)] ELSE 0]
    BY <1>10 DEF NewTable, NoTables, TableAt
  <2>2. \A v \in VPages : Got(all, free, <<"page", v>>, NoSpace[v]) =
           IF PageAt(v) \in A THEN g[PageAt(v)] ELSE IF v = USER_USTACK THEN g[S] ELSE 0
    BY <1>10, <1>11 DEF PageAt, NoSpace
  <2> QED BY <1>9, <2>1, <2>2 DEF Made, NewPte
<1> HIDE DEF t, m
<1>13. Hands(g, A, Kernel)
  BY <1>8 DEF HandedTo
<1>14. Complete(free[1], t, m, hi) /\ \A v \in VPages : m[v] # 0 => m[v] \in Held(g, A)
  <2>1. A = AskedBy(S, hi)
    BY DEF A
  <2> HIDE DEF S
  <2> QED BY <1>4, <1>12, <1>13, <2>1, MadeComplete
<1>15. Accounted(F, Kernel, {}) /\ (\A x \in Place : F[c][x] = 0) /\ F[c] = Z
  BY <1>3, KernelPage DEF Accounted
<1>16. PICK H : /\ Accounted([F EXCEPT ![c] = H], Kernel \cup Held(g, A),
                             {} \cup ({g[S]} \ At(m, {v \in VPages : m[v] # 0})))
                /\ Holds(H, free[1], t, m, 0)
  <2>1. A = AskedBy(S, hi)
    BY DEF A
  <2> HIDE DEF S, F, Z
  <2> QED BY <1>3, <1>4, <1>12, <1>13, <1>15, <2>1, NewSpace
<1>17. m[USER_USTACK] = g[S] /\ m[USER_USTACK] # 0
  BY <1>3, <1>11, <1>12, <1>14 DEF Made, Complete
<1>18. {} \cup ({g[S]} \ At(m, {v \in VPages : m[v] # 0})) = {}
  BY <1>3, <1>17 DEF At
<1>19. bitmap = Kernel \cup Held(g, A) /\ index \in Nat /\ clean = Held(g, A)
  BY <1>1, <1>8 DEF HandedTo, Taken, free
<1>20. Holds(Z, 0, NoTables, NoSpace, 0)
  BY Places DEF Holds, NoTables, NoSpace
<1>21. FramesOf = [F EXCEPT ![c] = H]
  <2>1. \A p \in Procs : FramesOf[p] = IF p = c THEN H ELSE Z
    <3> TAKE p \in Procs
    <3>1. Holds(FramesOf[p], dir[p], table[p], pte[p], ustack[p])
      BY HasFrames
    <3>2. CASE p = c
      <4>1. dir[p] = free[1] /\ table[p] = t /\ pte[p] = m /\ ustack[p] = 0
        BY <1>1, <1>2, <3>2
      <4> QED BY <1>16, <3>1, <3>2, <4>1, SamePlaces
    <3>3. CASE p # c
      <4>1. dir[p] = 0 /\ table[p] = NoTables /\ pte[p] = NoSpace /\ ustack[p] = 0
        BY <1>1, <1>2, <3>3
      <4> HIDE DEF Z
      <4> QED BY <1>20, <3>1, <3>3, <4>1, SamePlaces
    <3> QED BY <3>2, <3>3
  <2>2. FramesOf = [p \in Procs |-> FramesOf[p]]
    BY DEF FramesOf
  <2> HIDE DEF Z
  <2> QED BY <1>3, <2>1, <2>2
<1>22. Accounted(FramesOf, bitmap, leaked)
  BY <1>2, <1>16, <1>18, <1>19, <1>21
<1>23. MemTyped
  <2>1. NoTables \in [PdIndexes -> Pages] /\ NoSpace \in [VPages -> Pages] /\ 0 \in Pages
    BY KernelPage DEF NoTables, NoSpace
  <2>2. dir \in [Procs -> Pages] /\ table \in [Procs -> [PdIndexes -> Pages]] /\ pte \in [Procs -> [VPages -> Pages]]
    BY <1>1, <1>14, <2>1 DEF Complete
  <2>3. brk \in [Procs -> USER_TEXT .. MAX_BRK + 1]
    BY <1>2, <1>3
  <2>4. st \in [Procs -> {"null", "run", "exec", "exit", "zombie"}]
    BY <1>2
  <2> QED BY <1>2, <1>19, <2>1, <2>2, <2>3, <2>4 DEF MemTyped
<1>24. ASSUME NEW p \in Procs PROVE SpaceOf(p) /\ CleanOf(p)
  <2>1. CASE p = c
    <3>1. /\ dir[p] = free[1] /\ table[p] = t /\ pte[p] = m /\ ustack[p] = 0 /\ brk[p] = hi
          /\ st[p] = "run" /\ ~(hi > USER_USTACK)
      BY <1>1, <1>2, <1>3, <2>1
    <3>2. Maps(p)
      BY <1>14, <3>1 DEF Maps, Complete, Table0
    <3> QED BY <1>14, <1>19, <3>1, <3>2 DEF SpaceOf, CleanOf
  <2>2. CASE p # c
    <3>1. dir[p] = 0 /\ table[p] = NoTables /\ pte[p] = NoSpace /\ ustack[p] = 0 /\ st[p] = "null"
      BY <1>1, <1>2, <2>2
    <3> QED BY <3>1 DEF SpaceOf, CleanOf, NoTables, NoSpace
  <2> QED BY <2>1, <2>2
<1> QED BY <1>22, <1>23, <1>24 DEF IndInv

(* The invariant is kept by every step.                                     *)
LEMMA StepKeeps == IndInv /\ [Next]_vars => IndInv'
<1> SUFFICES ASSUME IndInv, [Next]_vars PROVE IndInv'
  OBVIOUS
<1>1. CASE UNCHANGED vars
  BY <1>1, Unchanged DEF vars
<1>2. CASE Next
  <2>1. PICK p \in Procs :
        \/ \E addr \in 0 .. (MAX_BRK + 1) * PAGE_SIZE : Grow(p, addr) \/ Shrink(p, addr)
        \/ Fork(p)
        \/ \E size \in 1 .. MAX_TEXT * PAGE_SIZE, argv \in Strings, envp \in Strings :
               ExecStart(p, size, argv, envp)
        \/ ExecFinish(p) \/ ExitUnmap(p) \/ ExitDestroy(p) \/ Reap(p)
    BY <1>2 DEF Next
  <2> QED BY <2>1, GrowStep, ShrinkStep, ForkStep, ExecStep, FinishStep, UnmapStep, DestroyStep, ReapStep
<1> QED BY <1>1, <1>2

(* It holds of every state that is reached.                                 *)
LEMMA Invariant == Spec => []IndInv
BY InitHolds, StepKeeps, PTL DEF Spec

-----------------------------------------------------------------------------
(* What a process owns is what its places hold.                             *)
LEMMA OwnsFrames ==
    ASSUME NEW p \in Procs
    PROVE  \A pg : pg \in Owned(p) <=> pg # 0 /\ \E x \in Place : FramesOf[p][x] = pg
<1> TAKE pg
<1>1. Holds(FramesOf[p], dir[p], table[p], pte[p], ustack[p])
  BY HasFrames
<1>2. ASSUME pg \in Owned(p) PROVE pg # 0 /\ \E x \in Place : FramesOf[p][x] = pg
  <2>1. pg # 0 /\ \/ pg = dir[p] \/ pg = ustack[p]
                  \/ \E i \in PdIndexes : pg = table[p][i]
                  \/ \E v \in VPages : pg = pte[p][v]
    BY <1>2 DEF Owned, Tables, At
  <2> QED BY <1>1, <2>1, Places DEF Holds
<1>3. ASSUME pg # 0, NEW x \in Place, FramesOf[p][x] = pg PROVE pg \in Owned(p)
  <2>1. \/ pg = dir[p] \/ pg = ustack[p]
        \/ \E i \in PdIndexes : pg = table[p][i]
        \/ \E v \in VPages : pg = pte[p][v]
    BY <1>1, <1>3, Places DEF Holds
  <2> QED BY <1>3, <2>1 DEF Owned, Tables, At
<1> QED BY <1>2, <1>3

(* Sets without a common member.                                            *)
LEMMA DisjointUnion ==
    ASSUME NEW S, NEW T, IsFiniteSet(S), IsFiniteSet(T), S \cap T = {}
    PROVE  IsFiniteSet(S \cup T) /\ Cardinality(S \cup T) = Cardinality(S) + Cardinality(T)
<1>1. /\ Cardinality(S) \in Nat /\ Cardinality(T) \in Nat /\ Cardinality({}) = 0
  BY FS_CardinalityType, FS_EmptySet
<1>2. IsFiniteSet(S \cup T) /\ Cardinality(S \cup T) = Cardinality(S) + Cardinality(T) - Cardinality(S \cap T)
  BY FS_Union
<1>3. Cardinality(S \cap T) = 0
  BY <1>1
<1> QED BY <1>1, <1>2, <1>3

(* It owns as many pages as it has places for them in use.                  *)
LEMMA OwnsAsMany ==
    ASSUME IndInv, NEW p \in Procs
    PROVE  Cardinality(Owned(p)) = Cardinality(Mapped(p)) + Cardinality(Tables(p)) + Cardinality({ustack[p]} \ {0})
<1> DEFINE M == Mapped(p)
           T == Tables(p)
           U == {ustack[p]} \ {0}
           P == At(pte[p], M)
           f == [v \in M |-> pte[p][v]]
<1>1. MemTyped /\ Accounted(FramesOf, bitmap, leaked) /\ Holds(FramesOf[p], dir[p], table[p], pte[p], ustack[p])
  BY HasFrames DEF IndInv
<1>2. IsFiniteSet(Pages) /\ IsFiniteSet(M)
  <2>1. IsFiniteSet(Pages) /\ IsFiniteSet(VPages) /\ M \in SUBSET VPages
    BY MemoryAssumption, FS_Interval DEF Pages, VPages, Mapped
  <2> QED BY <2>1, FS_Subset
<1>3. /\ \A v \in M : v \in VPages /\ pte[p][v] # 0 /\ pte[p][v] = FramesOf[p][PageAt(v)] /\ PageAt(v) \in Place
      /\ \A pg \in P : pg # 0 /\ \E v \in M : pg = FramesOf[p][PageAt(v)]
  <2>1. \A v \in M : v \in VPages /\ pte[p][v] # 0
    BY DEF Mapped
  <2>2. \A v \in M : pte[p][v] = FramesOf[p][PageAt(v)] /\ PageAt(v) \in Place
    BY <1>1, <2>1, Places DEF Holds
  <2>3. \A pg \in P : \E v \in M : pg = pte[p][v]
    BY DEF At
  <2> HIDE DEF M, P
  <2> QED BY <2>1, <2>2, <2>3
<1>4. \A pg \in T : pg # 0 /\ \E x \in Place : pg = FramesOf[p][x] /\ x # NewAt /\ \A v : x # PageAt(v)
  BY <1>1, Places DEF Tables, Holds, At
<1>5. \A pg \in U : pg # 0 /\ pg = FramesOf[p][NewAt]
  BY <1>1 DEF Holds
<1>6. \A x, y \in Place : FramesOf[p][x] # 0 /\ FramesOf[p][x] = FramesOf[p][y] => x = y
  BY <1>1 DEF Accounted
<1>7. P \cap T = {} /\ P \cap U = {} /\ T \cap U = {}
  <2>1. P \cap T = {}
    BY <1>3, <1>4, <1>6
  <2>2. P \cap U = {}
    BY <1>3, <1>5, <1>6, Places
  <2>3. T \cap U = {}
    BY <1>4, <1>5, <1>6, Places
  <2> QED BY <2>1, <2>2, <2>3
<1>8. Owned(p) = (P \cup T) \cup U
  BY DEF Owned, Mapped, At
<1>9. P \in SUBSET Pages /\ T \in SUBSET Pages /\ U \in SUBSET Pages
  BY <1>1 DEF MemTyped, Mapped, Tables, At
<1>10. IsFiniteSet(P) /\ IsFiniteSet(T) /\ IsFiniteSet(U)
  <2> HIDE DEF P, T, U
  <2> QED BY <1>2, <1>9, FS_Subset
<1>11. Cardinality(P) = Cardinality(M)
  <2>1. f \in [M -> P] /\ (\A pg \in P : \E v \in M : f[v] = pg) /\ \A v \in M : f[v] = pte[p][v]
    BY DEF At
  <2>2. \A u, v \in M : f[u] = f[v] => u = v
    <3> HIDE DEF f
    <3> QED BY <1>3, <1>6, <2>1, Places
  <2> HIDE DEF f, M, P
  <2>3. f \in Surjection(M, P) /\ f \in Injection(M, P)
    BY <2>1, <2>2 DEF Surjection, Injection, IsInjective
  <2> QED BY <1>2, <2>3, FS_Surjection
<1> HIDE DEF P, T, U, M
<1>12. Cardinality(P \cup T) = Cardinality(P) + Cardinality(T) /\ IsFiniteSet(P \cup T)
  BY <1>7, <1>10, DisjointUnion
<1>13. Cardinality((P \cup T) \cup U) = Cardinality(P \cup T) + Cardinality(U)
  <2>1. (P \cup T) \cap U = {}
    BY <1>7
  <2> QED BY <1>10, <1>12, <2>1, DisjointUnion
<1> QED BY <1>8, <1>11, <1>12, <1>13 DEF T, M, U

(* The page allocator: vmm_bitmap has exactly the pages of the kernel, of   *)
(* the processes and those that exec(), exit() and brk() lost, and no page  *)
(* is in two places, whatever brk(), fork(), exec() and exit() do.          *)
THEOREM EveryPageAccounted == Spec => []PagesAccounted
<1>1. IndInv => PagesAccounted
  <2> SUFFICES ASSUME IndInv PROVE PagesAccounted
    OBVIOUS
  <2>1. Accounted(FramesOf, bitmap, leaked)
    BY DEF IndInv
  <2>2. bitmap = Kernel \cup leaked \cup UNION {Owned(p) : p \in Procs}
    <3>1. ASSUME NEW pg \in bitmap PROVE pg \in Kernel \cup leaked \cup UNION {Owned(p) : p \in Procs}
      BY <2>1, OwnsFrames, KernelPage DEF Accounted
    <3>2. Kernel \cup leaked \subseteq bitmap
      BY <2>1 DEF Accounted
    <3>3. ASSUME NEW p \in Procs, NEW pg \in Owned(p) PROVE pg \in bitmap
      BY <2>1, OwnsFrames DEF Accounted
    <3> QED BY <3>1, <3>2, <3>3
  <2>3. ASSUME NEW p \in Procs PROVE Owned(p) \cap (Kernel \cup leaked) = {}
    BY <2>1, OwnsFrames DEF Accounted
  <2>4. ASSUME NEW p \in Procs, NEW q \in Procs \ {p} PROVE Owned(p) \cap Owned(q) = {}
    <3>1. ASSUME NEW pg \in Owned(p), pg \in Owned(q) PROVE FALSE
      <4>1. PICK x \in Place : FramesOf[p][x] = pg /\ pg # 0
        BY OwnsFrames
      <4>2. PICK y \in Place : FramesOf[q][y] = pg
        BY <3>1, OwnsFrames
      <4> QED BY <2>1, <4>1, <4>2 DEF Accounted
    <3> QED BY <3>1
  <2> QED BY <2>2, <2>3, <2>4, OwnsAsMany DEF PagesAccounted, Kernel
<1> QED BY <1>1, Invariant, PTL

(* Address spaces: a process in user mode has the pages from USER_TEXT to   *)
(* its break and a stack, no other, and each behind a page table.           *)
THEOREM SpacesComplete == Spec => []AddressSpaces
<1>1. IndInv => AddressSpaces
  <2> SUFFICES ASSUME IndInv, NEW p \in Procs, st[p] = "run"
               PROVE  /\ Mapped(p) \ {USER_USTACK} = (USER_TEXT .. brk[p] - 1) \ {USER_USTACK}
                      /\ p \in over \/ USER_USTACK \in Mapped(p)
                      /\ dir[p] # 0 /\ \A v \in Mapped(p) : table[p][PdIndex(v)] # 0
    BY DEF AddressSpaces
  <2>1. Maps(p) /\ brk[p] \in USER_TEXT .. MAX_BRK + 1
    BY DEF IndInv, SpaceOf, MemTyped
  <2>2. USER_USTACK \in VPages /\ USER_TEXT .. brk[p] - 1 \subseteq VPages
    BY <2>1, MemoryAssumption DEF VPages
  <2> QED BY <2>1, <2>2 DEF Maps, Mapped
<1> QED BY <1>1, Invariant, PTL

(* Freed pages: what a process finds in its memory is zero, its program or  *)
(* a copy of its parent's, never what another process left there.           *)
THEOREM NothingLeftBehind == Spec => []NothingStale
<1>1. IndInv => NothingStale
  BY DEF IndInv, CleanOf, NothingStale, Mapped, At
<1> QED BY <1>1, Invariant, PTL

-----------------------------------------------------------------------------
(* The stack of a new program.                                              *)

(* The loop of proc_init_ustack() over the strings ends.                    *)
LEMMA LoopRuns ==
    ASSUME NEW from \in Int, NEW lens \in Seq(Nat)
    PROVE  \E f \in [0 .. Len(lens) -> Int] :
             f = [k \in 0 .. Len(lens) |-> IF k = 0 THEN from ELSE f[k - 1] - StackLen(lens[k])]
<1> DEFINE N == Len(lens)
           S == {n \in Nat : n <= N => \E f \in [0 .. n -> Int] :
                   f[0] = from /\ \A k \in 1 .. n : f[k] = f[k - 1] - StackLen(lens[k])}
<1>1. N \in Nat /\ \A k \in 1 .. N : StackLen(lens[k]) \in Int
  BY DEF StackLen, W
<1>2. 0 \in S
  <2> DEFINE f == [k \in 0 .. 0 |-> from]
  <2>1. f \in [0 .. 0 -> Int] /\ f[0] = from /\ \A k \in 1 .. 0 : f[k] = f[k - 1] - StackLen(lens[k])
    OBVIOUS
  <2> QED BY <2>1
<1>3. ASSUME NEW n \in Nat, n \in S PROVE n + 1 \in S
  <2> SUFFICES ASSUME n + 1 <= N
               PROVE  \E f \in [0 .. n + 1 -> Int] :
                        f[0] = from /\ \A k \in 1 .. n + 1 : f[k] = f[k - 1] - StackLen(lens[k])
    OBVIOUS
  <2>1. PICK f \in [0 .. n -> Int] : f[0] = from /\ \A k \in 1 .. n : f[k] = f[k - 1] - StackLen(lens[k])
    BY <1>1, <1>3, SMTT(30)
  <2> DEFINE g == [k \in 0 .. n + 1 |-> IF k = n + 1 THEN f[n] - StackLen(lens[k]) ELSE f[k]]
  <2>2. g \in [0 .. n + 1 -> Int]
    BY <1>1
  <2>3. g[0] = from /\ g[n + 1] = f[n] - StackLen(lens[n + 1]) /\ \A k \in 0 .. n : g[k] = f[k]
    BY <2>1
  <2> HIDE DEF g
  <2>4. ASSUME NEW k \in 1 .. n + 1 PROVE g[k] = g[k - 1] - StackLen(lens[k])
    <3>1. CASE k = n + 1
      BY <3>1, <2>3
    <3>2. CASE k # n + 1
      <4>1. k \in 1 .. n /\ k \in 0 .. n /\ k - 1 \in 0 .. n
        BY <3>2
      <4> QED BY <4>1, <2>1, <2>3
    <3> QED BY <3>1, <3>2
  <2> QED BY <2>2, <2>3, <2>4
<1> HIDE DEF S
<1>4. N \in S
  BY <1>1, <1>2, <1>3, Induction
<1>5. PICK f \in [0 .. N -> Int] : f[0] = from /\ \A k \in 1 .. N : f[k] = f[k - 1] - StackLen(lens[k])
  BY <1>1, <1>4 DEF S
<1>6. f = [k \in 0 .. N |-> IF k = 0 THEN from ELSE f[k - 1] - StackLen(lens[k])]
  <2>1. \A k \in 0 .. N : f[k] = IF k = 0 THEN from ELSE f[k - 1] - StackLen(lens[k])
    BY <1>1, <1>5
  <2> QED BY <2>1
<1> QED BY <1>6

(* Each string is below the one before it, with room for its 0.             *)
LEMMA StringRoom ==
    ASSUME NEW from \in Int, NEW lens \in Seq(Nat)
    PROVE  /\ Below(from, lens, 0) = from
           /\ \A k \in 0 .. Len(lens) : Below(from, lens, k) \in Int
           /\ \A k \in 1 .. Len(lens) : Below(from, lens, k) + lens[k] + 1 <= Below(from, lens, k - 1)
<1> DEFINE N == Len(lens)
           f == CHOOSE g : g = [k \in 0 .. N |-> IF k = 0 THEN from ELSE g[k - 1] - StackLen(lens[k])]
<1>1. f = [k \in 0 .. N |-> IF k = 0 THEN from ELSE f[k - 1] - StackLen(lens[k])]
  <2>1. \E g : g = [k \in 0 .. N |-> IF k = 0 THEN from ELSE g[k - 1] - StackLen(lens[k])]
    BY LoopRuns
  <2> QED BY <2>1, Zenon
<1>2. \A k : Below(from, lens, k) = f[k]
  BY DEF Below
<1> HIDE DEF f
<1>3. N \in Nat /\ \A k \in 1 .. N : lens[k] \in Nat
  OBVIOUS
<1>4. f[0] = from /\ \A k \in 1 .. N : f[k] = f[k - 1] - StackLen(lens[k])
  <2>1. \A k \in 0 .. N : f[k] = IF k = 0 THEN from ELSE f[k - 1] - StackLen(lens[k])
    BY <1>1
  <2> QED BY <2>1, <1>3
<1>5. \A k \in 1 .. N : StackLen(lens[k]) \in Int /\ StackLen(lens[k]) >= lens[k] + 1
  BY <1>3 DEF StackLen, W
<1> DEFINE S == {n \in Nat : n <= N => f[n] \in Int}
<1>6. 0 \in S
  BY <1>4
<1>7. ASSUME NEW n \in Nat, n \in S PROVE n + 1 \in S
  <2> SUFFICES ASSUME n + 1 <= N PROVE f[n + 1] \in Int
    OBVIOUS
  <2>1. n + 1 \in 1 .. N /\ (n + 1) - 1 = n /\ f[n] \in Int
    BY <1>3, <1>7
  <2> QED BY <2>1, <1>4, <1>5
<1> HIDE DEF S
<1>8. \A n \in Nat : n \in S
  BY <1>6, <1>7, Induction
<1>9. \A k \in 0 .. N : f[k] \in Int
  BY <1>3, <1>8 DEF S
<1>10. ASSUME NEW k \in 1 .. N PROVE f[k] + lens[k] + 1 <= f[k - 1]
  <2>1. k - 1 \in 0 .. N /\ k \in 0 .. N
    BY <1>3
  <2>2. f[k] \in Int /\ f[k - 1] \in Int /\ lens[k] \in Nat
    BY <2>1, <1>3, <1>9
  <2>3. PICK len \in Int : len = StackLen(lens[k])
    BY <1>5
  <2>4. len >= lens[k] + 1 /\ f[k] = f[k - 1] - len
    BY <2>3, <1>4, <1>5
  <2> HIDE DEF f
  <2> QED BY <2>2, <2>4, SMTT(30)
<1> QED BY <1>2, <1>4, <1>9, <1>10

(* A sequence of some, one, more and two others.                            *)
Parts(S, a, x, b, y, z, s) ==
    a \in Seq(S) /\ x \in S /\ b \in Seq(S) /\ y \in S /\ z \in S /\ s = a \o <<x>> \o b \o <<y, z>>

PartsAt(a, x, b, y, z, s) ==
    /\ DOMAIN s = 1 .. Len(a) + Len(b) + 3
    /\ \A k \in 1 .. Len(a) : s[k] = a[k]
    /\ s[Len(a) + 1] = x
    /\ \A k \in 1 .. Len(b) : s[Len(a) + 1 + k] = b[k]
    /\ s[Len(a) + Len(b) + 2] = y /\ s[Len(a) + Len(b) + 3] = z

(* What is at which place of a sequence that is put together of two.        *)
Cat(a, b) == a \o b
LEMMA CatIs ==
    ASSUME NEW S, NEW a \in Seq(S), NEW b \in Seq(S)
    PROVE  /\ Cat(a, b) \in Seq(S) /\ Len(Cat(a, b)) = Len(a) + Len(b)
           /\ \A k \in 1 .. Len(a) + Len(b) : Cat(a, b)[k] = IF k <= Len(a) THEN a[k] ELSE b[k - Len(a)]
BY ConcatProperties DEF Cat

(* What is at which place of a sequence of some, one, more and two others.  *)
LEMMA Placed ==
    ASSUME NEW S, NEW a, NEW x, NEW b, NEW y, NEW z, NEW s, Parts(S, a, x, b, y, z, s)
    PROVE  PartsAt(a, x, b, y, z, s)
<1> DEFINE c == Cat(a, <<x>>)
           d == Cat(c, b)
           e == <<y, z>>
<1>0. a \in Seq(S) /\ x \in S /\ b \in Seq(S) /\ y \in S /\ z \in S /\ s = Cat(d, e)
  BY DEF Parts, Cat
<1>1. Len(a) \in Nat /\ Len(b) \in Nat /\ <<x>> \in Seq(S) /\ Len(<<x>>) = 1 /\ <<x>>[1] = x
  BY <1>0
<1>2. e \in Seq(S) /\ Len(e) = 2 /\ e[1] = y /\ e[2] = z
  BY <1>0
<1>3. /\ c \in Seq(S) /\ Len(c) = Len(a) + 1
      /\ \A k \in 1 .. Len(a) + 1 : c[k] = IF k <= Len(a) THEN a[k] ELSE <<x>>[k - Len(a)]
  <2>1. PICK one : one = <<x>>
    OBVIOUS
  <2>2. one \in Seq(S) /\ Len(one) = 1
    BY <2>1, <1>1
  <2>3. /\ Cat(a, one) \in Seq(S) /\ Len(Cat(a, one)) = Len(a) + Len(one)
        /\ \A k \in 1 .. Len(a) + Len(one) : Cat(a, one)[k] = IF k <= Len(a) THEN a[k] ELSE one[k - Len(a)]
    BY <1>0, <2>2, CatIs
  <2> QED BY <2>1, <2>2, <2>3
<1>4. (\A k \in 1 .. Len(a) : c[k] = a[k]) /\ c[Len(a) + 1] = x
  <2>1. (Len(a) + 1) - Len(a) = 1 /\ ~(Len(a) + 1 <= Len(a)) /\ Len(a) + 1 \in 1 .. Len(a) + 1
    BY <1>1
  <2>2. \A k \in 1 .. Len(a) : k \in 1 .. Len(a) + 1 /\ k <= Len(a)
    BY <1>1
  <2> QED BY <2>1, <2>2, <1>1, <1>3
<1> HIDE DEF c, e
<1>5. /\ d \in Seq(S) /\ Len(d) = Len(c) + Len(b)
      /\ \A k \in 1 .. Len(c) + Len(b) : d[k] = IF k <= Len(c) THEN c[k] ELSE b[k - Len(c)]
  <2>1. c \in Seq(S) /\ b \in Seq(S)
    BY <1>0, <1>3
  <2> QED BY <2>1, CatIs
<1> HIDE DEF d
<1>6. /\ s \in Seq(S) /\ Len(s) = Len(d) + Len(e)
      /\ \A k \in 1 .. Len(d) + Len(e) : s[k] = IF k <= Len(d) THEN d[k] ELSE e[k - Len(d)]
  <2>1. /\ Cat(d, e) \in Seq(S) /\ Len(Cat(d, e)) = Len(d) + Len(e)
        /\ \A k \in 1 .. Len(d) + Len(e) : Cat(d, e)[k] = IF k <= Len(d) THEN d[k] ELSE e[k - Len(d)]
    <3>1. d \in Seq(S) /\ e \in Seq(S)
      BY <1>2, <1>5
    <3> QED BY <3>1, CatIs
  <2> QED BY <1>0, <2>1
<1>7. PICK na \in Nat : na = Len(a)
  BY <1>1
<1>8. PICK nb \in Nat : nb = Len(b)
  BY <1>1
<1>9. Len(c) = na + 1 /\ Len(d) = na + nb + 1 /\ Len(s) = na + nb + 3
  BY <1>2, <1>3, <1>5, <1>6, <1>7, <1>8
<1>10. \A k \in 1 .. na + 1 : s[k] = c[k]
  <2>1. ASSUME NEW k \in 1 .. na + 1 PROVE s[k] = d[k] /\ d[k] = c[k]
    BY <1>2, <1>5, <1>6, <1>8, <1>9
  <2> QED BY <2>1
<1>11. ASSUME NEW k \in 1 .. nb PROVE s[na + 1 + k] = b[k]
  <2>1. s[na + 1 + k] = d[na + 1 + k]
    BY <1>2, <1>6, <1>9
  <2>2. d[na + 1 + k] = b[(na + 1 + k) - (na + 1)] /\ (na + 1 + k) - (na + 1) = k
    BY <1>5, <1>8, <1>9
  <2> QED BY <2>1, <2>2
<1>12. s[na + nb + 2] = y /\ s[na + nb + 3] = z
  <2>1. s[na + nb + 2] = e[1]
    <3>1. PICK q \in Int : q = na + nb + 2
      OBVIOUS
    <3>2. q \in 1 .. Len(d) + Len(e) /\ ~(q <= Len(d)) /\ q - Len(d) = 1
      BY <3>1, <1>2, <1>9
    <3>3. s[q] = e[q - Len(d)]
      BY <3>2, <1>6
    <3> QED BY <3>1, <3>2, <3>3
  <2>2. s[na + nb + 3] = e[2]
    <3>1. PICK q \in Int : q = na + nb + 3
      OBVIOUS
    <3>2. q \in 1 .. Len(d) + Len(e) /\ ~(q <= Len(d)) /\ q - Len(d) = 2
      BY <3>1, <1>2, <1>9
    <3>3. s[q] = e[q - Len(d)]
      BY <3>2, <1>6
    <3> QED BY <3>1, <3>2, <3>3
  <2> QED BY <2>1, <2>2, <1>2
<1>13. DOMAIN s = 1 .. na + nb + 3
  BY <1>6, <1>9
<1>14. (\A k \in 1 .. na : s[k] = a[k]) /\ s[na + 1] = x
  <2>1. na + 1 \in 1 .. na + 1 /\ \A k \in 1 .. na : k \in 1 .. na + 1
    OBVIOUS
  <2> QED BY <2>1, <1>4, <1>7, <1>10
<1> QED BY <1>7, <1>8, <1>11, <1>12, <1>13, <1>14 DEF PartsAt

(* Pieces between floors, one below the other, do not overlap.              *)
LEMMA OneBelow ==
    ASSUME NEW N \in Nat, NEW F \in [0 .. N -> Int], NEW pieces, DOMAIN pieces = 1 .. N,
           F[0] = STACK_SIZE, F[N] >= 0,
           \A i \in 1 .. N : F[i] <= F[i - 1] /\ pieces[i] \subseteq F[i] .. F[i - 1] - 1
    PROVE  \A i \in DOMAIN pieces :
             /\ pieces[i] \subseteq 0 .. STACK_SIZE - 1
             /\ \A j \in DOMAIN pieces \ {i} : pieces[i] \cap pieces[j] = {}
<1>1. \A k \in 0 .. N : F[k] \in Int
  OBVIOUS
<1>2. ASSUME NEW j \in 0 .. N, NEW k \in j .. N PROVE F[k] <= F[j]
  <2> DEFINE S == {n \in Nat : j + n <= N => F[j + n] <= F[j]}
  <2>1. 0 \in S
    BY <1>1
  <2>2. ASSUME NEW n \in Nat, n \in S PROVE n + 1 \in S
    <3> SUFFICES ASSUME j + (n + 1) <= N PROVE F[j + (n + 1)] <= F[j]
      OBVIOUS
    <3>1. PICK i \in 1 .. N : i = j + (n + 1) /\ i - 1 = j + n /\ i \in 0 .. N /\ i - 1 \in 0 .. N
      OBVIOUS
    <3>2. F[i] <= F[i - 1] /\ F[i - 1] <= F[j]
      BY <2>2, <3>1
    <3>3. F[i] \in Int /\ F[i - 1] \in Int /\ F[j] \in Int
      BY <1>1, <3>1
    <3>4. F[i] <= F[j]
      BY <3>2, <3>3
    <3> QED BY <3>1, <3>4
  <2>3. k - j \in Nat /\ j + (k - j) = k /\ k <= N
    OBVIOUS
  <2> HIDE DEF S
  <2>4. k - j \in S
    BY <2>1, <2>2, <2>3, Induction
  <2> QED BY <2>3, <2>4 DEF S
<1>3. ASSUME NEW i \in 1 .. N, NEW x \in pieces[i]
      PROVE  x \in Int /\ F[i] <= x /\ x < F[i - 1] /\ F[i] \in Int /\ F[i - 1] \in Int
  <2>1. x \in F[i] .. F[i - 1] - 1
    OBVIOUS
  <2>2. i \in 0 .. N /\ i - 1 \in 0 .. N
    OBVIOUS
  <2>3. F[i] \in Int /\ F[i - 1] \in Int
    BY <1>1, <2>2
  <2> QED BY <2>1, <2>3
<1>4. ASSUME NEW i \in 1 .. N, NEW x \in pieces[i] PROVE x \in 0 .. STACK_SIZE - 1
  <2>1. F[N] <= F[i] /\ F[i - 1] <= F[0]
    <3>1. i \in 0 .. N /\ N \in i .. N /\ 0 \in 0 .. N /\ i - 1 \in 0 .. N
      OBVIOUS
    <3> QED BY <1>2, <3>1
  <2>2. F[N] \in Int /\ F[0] \in Int
    BY <1>1
  <2>3. F[0] = STACK_SIZE /\ F[N] >= 0
    OBVIOUS
  <2> QED BY <2>1, <2>2, <2>3, <1>3
<1>5. ASSUME NEW i \in 1 .. N, NEW j \in 1 .. N, i < j, NEW x \in pieces[i], x \in pieces[j] PROVE FALSE
  <2>1. F[i] <= x /\ x < F[j - 1] /\ x \in Int /\ F[i] \in Int /\ F[j - 1] \in Int
    BY <1>3, <1>5
  <2>2. i \in 0 .. N /\ j - 1 \in i .. N
    BY <1>5
  <2>3. F[j - 1] <= F[i]
    BY <1>2, <2>2
  <2> QED BY <2>1, <2>3
<1>6. ASSUME NEW i \in 1 .. N, NEW j \in 1 .. N, i # j PROVE pieces[i] \cap pieces[j] = {}
  <2>1. i < j \/ j < i
    BY <1>6
  <2> QED BY <2>1, <1>5
<1> QED BY <1>4, <1>6

(* Strings, a vector, strings, a vector and four words, one below the       *)
(* other: the floors between them.                                          *)
Floors(n, m, E, A, ap, sp) ==
    [k \in 0 .. n + m + 3 |->
       IF k <= n THEN E[k] ELSE IF k <= n + m + 1 THEN A[k - (n + 1)] ELSE IF k = n + m + 2 THEN ap ELSE sp]

(* The floors of a stack, and the pieces between them.                      *)
Laid(n, m, E, A, env, arg, ap, sp) ==
    /\ n \in Nat /\ m \in Nat /\ E \in [0 .. n -> Int] /\ A \in [0 .. m -> Int]
    /\ env \in [1 .. n -> Nat] /\ arg \in [1 .. m -> Nat] /\ ap \in Int /\ sp \in Int
    /\ E[0] = STACK_SIZE /\ \A k \in 1 .. n : E[k] + env[k] + 1 <= E[k - 1]
    /\ A[0] + 4 * (n + 1) = E[n] /\ \A k \in 1 .. m : A[k] + arg[k] + 1 <= A[k - 1]
    /\ ap + 4 * m = A[m] /\ sp + 16 = ap /\ 0 <= sp
Cuts(n, m, E, A, env, arg, ap, sp, pieces) ==
    /\ DOMAIN pieces = 1 .. n + m + 3
    /\ \A k \in 1 .. n : pieces[k] = E[k] .. E[k] + (env[k] + 1) - 1
    /\ pieces[n + 1] = A[0] .. A[0] + 4 * (n + 1) - 1
    /\ \A k \in 1 .. m : pieces[n + 1 + k] = A[k] .. A[k] + (arg[k] + 1) - 1
    /\ pieces[n + m + 2] = ap .. ap + 4 * m - 1
    /\ pieces[n + m + 3] = sp .. sp + 16 - 1

(* Where the floors are.                                                    *)
LEMMA FloorAt ==
    ASSUME NEW n, NEW m, NEW E, NEW A, NEW env, NEW arg, NEW ap, NEW sp, Laid(n, m, E, A, env, arg, ap, sp),
           NEW F, F = Floors(n, m, E, A, ap, sp)
    PROVE  /\ F \in [0 .. n + m + 3 -> Int]
           /\ \A k \in 0 .. n : F[k] = E[k]
           /\ \A k \in 0 .. m : F[n + 1 + k] = A[k]
           /\ F[n + m + 2] = ap /\ F[n + m + 3] = sp
<1>0. n \in Nat /\ m \in Nat /\ E \in [0 .. n -> Int] /\ A \in [0 .. m -> Int] /\ ap \in Int /\ sp \in Int
  BY DEF Laid
<1>1. \A k \in 0 .. n + m + 3 : F[k] = IF k <= n THEN E[k] ELSE IF k <= n + m + 1 THEN A[k - (n + 1)]
                                         ELSE IF k = n + m + 2 THEN ap ELSE sp
  BY DEF Floors
<1>2. F = [k \in 0 .. n + m + 3 |-> F[k]]
  BY DEF Floors
<1>3. ASSUME NEW k \in 0 .. n PROVE F[k] = E[k]
  BY <1>0, <1>1
<1>4. ASSUME NEW k \in 0 .. m PROVE F[n + 1 + k] = A[k]
  <2>1. PICK q \in 0 .. n + m + 3 : q = n + 1 + k /\ ~(q <= n) /\ q <= n + m + 1 /\ q - (n + 1) = k
    BY <1>0
  <2> QED BY <1>0, <1>1, <2>1
<1>5. F[n + m + 2] = ap /\ F[n + m + 3] = sp
  <2>1. PICK q \in 0 .. n + m + 3 : q = n + m + 2 /\ ~(q <= n) /\ ~(q <= n + m + 1)
    BY <1>0
  <2>2. PICK r \in 0 .. n + m + 3 : r = n + m + 3 /\ ~(r <= n) /\ ~(r <= n + m + 1) /\ r # n + m + 2
    BY <1>0
  <2> QED BY <1>0, <1>1, <2>1, <2>2
<1>6. ASSUME NEW k \in 0 .. n + m + 3 PROVE F[k] \in Int
  <2>1. k <= n => k \in 0 .. n
    BY <1>0
  <2>2. ~(k <= n) /\ k <= n + m + 1 => k - (n + 1) \in 0 .. m
    BY <1>0
  <2> QED BY <1>0, <1>1, <2>1, <2>2
<1> QED BY <1>2, <1>3, <1>4, <1>5, <1>6

(* Each piece is between two floors.                                        *)
LEMMA PiecesFit ==
    ASSUME NEW n, NEW m, NEW E, NEW A, NEW env, NEW arg, NEW ap, NEW sp, NEW pieces,
           Laid(n, m, E, A, env, arg, ap, sp), Cuts(n, m, E, A, env, arg, ap, sp, pieces)
    PROVE  \A i \in DOMAIN pieces :
             /\ pieces[i] \subseteq 0 .. STACK_SIZE - 1
             /\ \A j \in DOMAIN pieces \ {i} : pieces[i] \cap pieces[j] = {}
<1>0. n \in Nat /\ m \in Nat /\ E \in [0 .. n -> Int] /\ A \in [0 .. m -> Int] /\ ap \in Int /\ sp \in Int
  BY DEF Laid
<1>1. PICK F : F = Floors(n, m, E, A, ap, sp)
  OBVIOUS
<1>2. /\ F \in [0 .. n + m + 3 -> Int]
      /\ \A k \in 0 .. n : F[k] = E[k]
      /\ \A k \in 0 .. m : F[n + 1 + k] = A[k]
      /\ F[n + m + 2] = ap /\ F[n + m + 3] = sp
  BY <1>1, FloorAt
<1>3. \A k \in 0 .. n : F[k] = E[k]
  BY <1>2
<1>4. \A k \in 0 .. m : F[n + 1 + k] = A[k]
  BY <1>2
<1>5. F[n + m + 2] = ap /\ F[n + m + 3] = sp
  BY <1>2
<1> DEFINE Lies(i) == F[i] <= F[i - 1] /\ pieces[i] \subseteq F[i] .. F[i - 1] - 1
<1>6. ASSUME NEW k \in 1 .. n PROVE Lies(k)
  <2>1. k \in 0 .. n /\ k - 1 \in 0 .. n /\ E[k] \in Int /\ E[k - 1] \in Int /\ env[k] \in Nat
    <3>1. k \in 0 .. n /\ k - 1 \in 0 .. n
      BY <1>0
    <3> QED BY <3>1 DEF Laid
  <2>2. F[k] = E[k] /\ F[k - 1] = E[k - 1]
    BY <2>1, <1>3
  <2>3. E[k] + env[k] + 1 <= E[k - 1] /\ pieces[k] = E[k] .. E[k] + (env[k] + 1) - 1
    BY DEF Laid, Cuts
  <2>4. ASSUME NEW a \in Int, NEW c \in Nat, NEW d \in Int, a + c + 1 <= d
        PROVE  a <= d /\ a .. a + (c + 1) - 1 \subseteq a .. d - 1
    BY <2>4
  <2>5. E[k] <= E[k - 1] /\ E[k] .. E[k] + (env[k] + 1) - 1 \subseteq E[k] .. E[k - 1] - 1
    BY <2>1, <2>3, <2>4
  <2> QED BY <2>2, <2>3, <2>5
<1>7. Lies(n + 1)
  <2>1. n \in 0 .. n /\ 0 \in 0 .. m /\ E[n] \in Int /\ A[0] \in Int /\ (n + 1) - 1 = n /\ n + 1 + 0 = n + 1
    BY <1>0
  <2>2. F[n + 1] = A[0] /\ F[(n + 1) - 1] = E[n]
    BY <2>1, <1>3, <1>4
  <2>3. A[0] + 4 * (n + 1) = E[n] /\ pieces[n + 1] = A[0] .. A[0] + 4 * (n + 1) - 1
    BY DEF Laid, Cuts
  <2> QED BY <2>1, <2>2, <2>3, <1>0
<1>8. ASSUME NEW k \in 1 .. m PROVE Lies(n + 1 + k)
  <2>1. k \in 0 .. m /\ k - 1 \in 0 .. m /\ A[k] \in Int /\ A[k - 1] \in Int /\ arg[k] \in Nat
    <3>1. k \in 0 .. m /\ k - 1 \in 0 .. m
      BY <1>0
    <3> QED BY <3>1 DEF Laid
  <2>2. (n + 1 + k) - 1 = n + 1 + (k - 1)
    BY <1>0
  <2>3. F[n + 1 + k] = A[k] /\ F[(n + 1 + k) - 1] = A[k - 1]
    BY <2>1, <2>2, <1>4
  <2>4. A[k] + arg[k] + 1 <= A[k - 1] /\ pieces[n + 1 + k] = A[k] .. A[k] + (arg[k] + 1) - 1
    BY DEF Laid, Cuts
  <2> QED BY <2>1, <2>3, <2>4
<1>9. Lies(n + m + 2)
  <2>1. m \in 0 .. m /\ A[m] \in Int /\ (n + m + 2) - 1 = n + 1 + m
    BY <1>0
  <2>2. F[(n + m + 2) - 1] = A[m]
    BY <2>1, <1>4
  <2>3. ap + 4 * m = A[m] /\ pieces[n + m + 2] = ap .. ap + 4 * m - 1
    BY DEF Laid, Cuts
  <2> QED BY <2>1, <2>2, <2>3, <1>0, <1>5, SMTT(30)
<1>10. Lies(n + m + 3)
  <2>1. (n + m + 3) - 1 = n + m + 2
    BY <1>0
  <2>2. sp + 16 = ap /\ pieces[n + m + 3] = sp .. sp + 16 - 1
    BY DEF Laid, Cuts
  <2> QED BY <2>1, <2>2, <1>0, <1>5
<1>11. ASSUME NEW i \in 1 .. n + m + 3 PROVE Lies(i)
  <2>1. n + 1 < i /\ i < n + m + 2 => i - (n + 1) \in 1 .. m /\ i = n + 1 + (i - (n + 1))
    BY <1>0
  <2>2. i \in 1 .. n \/ i = n + 1 \/ (n + 1 < i /\ i < n + m + 2) \/ i = n + m + 2 \/ i = n + m + 3
    BY <1>0
  <2> HIDE DEF Lies
  <2>3. CASE n + 1 < i /\ i < n + m + 2
    <3>1. PICK k \in 1 .. m : i = n + 1 + k
      BY <2>1, <2>3
    <3> QED BY <3>1, <1>8
  <2> QED BY <2>2, <2>3, <1>6, <1>7, <1>9, <1>10
<1>12. F[0] = STACK_SIZE /\ F[n + m + 3] >= 0
  <2>1. 0 \in 0 .. n
    BY <1>0
  <2> QED BY <2>1, <1>3, <1>5 DEF Laid
<1>13. PICK N \in Nat : N = n + m + 3
  BY <1>0
<1>14. /\ F \in [0 .. N -> Int] /\ DOMAIN pieces = 1 .. N /\ F[0] = STACK_SIZE /\ F[N] >= 0
       /\ \A i \in 1 .. N : F[i] <= F[i - 1] /\ pieces[i] \subseteq F[i] .. F[i - 1] - 1
  BY <1>2, <1>11, <1>12, <1>13 DEF Cuts
<1> QED BY <1>14, OneBelow

(* The stack of strings of any length that fit in it.                       *)
LEMMA StackOf ==
    ASSUME NEW argv \in Seq(Nat), NEW envp \in Seq(Nat), layout = Ustack(argv, envp), layout.esp >= 0
    PROVE  StackLaidOut
<1> DEFINE n == Len(envp)
           m == Len(argv)
           E == [k \in 0 .. n |-> Below(STACK_SIZE, envp, k)]
           at == layout.envpAt
           A == [k \in 0 .. m |-> Below(at, argv, k)]
           ap == layout.argpAt
           sp == layout.esp
<1>1. n \in Nat /\ m \in Nat /\ STACK_SIZE \in Int /\ envp \in [1 .. n -> Nat] /\ argv \in [1 .. m -> Nat]
  BY MemoryAssumption
<1>2. /\ layout.argv = argv /\ layout.envp = envp
      /\ layout.envAt = [e \in DOMAIN envp |-> Below(STACK_SIZE, envp, e)]
      /\ at = Below(STACK_SIZE, envp, n) - W * (n + 1)
      /\ layout.argAt = [a \in DOMAIN argv |-> Below(at, argv, a)] /\ ap = Below(at, argv, m) - W * m
      /\ sp = ap - 4 * W
  BY DEF Ustack
<1>3. E \in [0 .. n -> Int] /\ E[0] = STACK_SIZE /\ E[n] = Below(STACK_SIZE, envp, n)
  <2>1. Below(STACK_SIZE, envp, 0) = STACK_SIZE /\ \A k \in 0 .. n : Below(STACK_SIZE, envp, k) \in Int
    BY <1>1, StringRoom
  <2> QED BY <2>1, <1>1
<1>4. ASSUME NEW k \in 1 .. n PROVE E[k] + envp[k] + 1 <= E[k - 1] /\ layout.envAt[k] = E[k]
  <2>1. k \in 0 .. n /\ k - 1 \in 0 .. n /\ k \in DOMAIN envp
    BY <1>1
  <2>2. Below(STACK_SIZE, envp, k) + envp[k] + 1 <= Below(STACK_SIZE, envp, k - 1)
    BY <1>1, StringRoom
  <2> QED BY <2>1, <2>2, <1>2
<1>5. at \in Int /\ at + 4 * (n + 1) = E[n]
  <2>1. E[n] \in Int /\ at = E[n] - W * (n + 1)
    <3>1. n \in 0 .. n
      BY <1>1
    <3> HIDE DEF E
    <3> QED BY <3>1, <1>2, <1>3
  <2> HIDE DEF E, at
  <2> QED BY <2>1, <1>1 DEF W
<1>6. A \in [0 .. m -> Int] /\ A[0] = at /\ A[m] = Below(at, argv, m)
  <2> HIDE DEF at
  <2>1. Below(at, argv, 0) = at /\ \A k \in 0 .. m : Below(at, argv, k) \in Int
    BY <1>5, StringRoom
  <2> QED BY <2>1, <1>1
<1>7. ASSUME NEW k \in 1 .. m PROVE A[k] + argv[k] + 1 <= A[k - 1] /\ layout.argAt[k] = A[k]
  <2>1. k \in 0 .. m /\ k - 1 \in 0 .. m /\ k \in DOMAIN argv
    BY <1>1
  <2> HIDE DEF at
  <2>2. Below(at, argv, k) + argv[k] + 1 <= Below(at, argv, k - 1)
    BY <1>5, StringRoom
  <2> QED BY <2>1, <2>2, <1>2
<1>8. ap \in Int /\ ap + 4 * m = A[m] /\ sp \in Int /\ sp + 16 = ap /\ 0 <= sp
  <2>1. A[m] \in Int /\ ap = A[m] - 4 * m /\ sp = ap - 16 /\ sp >= 0
    <3>1. m \in 0 .. m
      BY <1>1
    <3>2. ap = Below(at, argv, m) - 4 * m /\ sp = ap - 4 * 4
      BY <1>2 DEF W
    <3> HIDE DEF A, ap
    <3>3. A[m] \in Int /\ ap = A[m] - 4 * m
      BY <3>1, <3>2, <1>6
    <3>4. ap \in Int
      BY <3>3, <1>1
    <3> QED BY <3>2, <3>3, <3>4
  <2> HIDE DEF A, ap, sp, m
  <2> QED BY <2>1, <1>1, SMTT(30)
<1> HIDE DEF n, m, E, A, at, ap, sp
<1> DEFINE P1 == [k \in 1 .. n |-> E[k] .. E[k] + (envp[k] + 1) - 1]
           X == at .. at + 4 * (n + 1) - 1
           P2 == [k \in 1 .. m |-> A[k] .. A[k] + (argv[k] + 1) - 1]
           Y == ap .. ap + 4 * m - 1
           Z == sp .. sp + 16 - 1
<1>9. P1 \in [1 .. n -> SUBSET Int] /\ P2 \in [1 .. m -> SUBSET Int]
      /\ X \in SUBSET Int /\ Y \in SUBSET Int /\ Z \in SUBSET Int
  OBVIOUS
<1>10. /\ \A k \in 1 .. n : P1[k] = E[k] .. E[k] + (envp[k] + 1) - 1
       /\ \A k \in 1 .. m : P2[k] = A[k] .. A[k] + (argv[k] + 1) - 1
  OBVIOUS
<1> DEFINE s == P1 \o <<X>> \o P2 \o <<Y, Z>>
<1>11. StackPieces = s
  <2>1. P1 = [k \in 1 .. n |-> layout.envAt[k] .. layout.envAt[k] + (layout.envp[k] + 1) - 1]
    BY <1>2, <1>4
  <2>2. P2 = [k \in 1 .. m |-> layout.argAt[k] .. layout.argAt[k] + (layout.argv[k] + 1) - 1]
    BY <1>2, <1>7
  <2>3. X = layout.envpAt .. layout.envpAt + W * (Len(layout.envp) + 1) - 1 /\ n = Len(layout.envp)
    BY <1>2 DEF at, n, W
  <2>4. Y = layout.argpAt .. layout.argpAt + W * Len(layout.argv) - 1 /\ m = Len(layout.argv)
    BY <1>2 DEF ap, m, W
  <2>5. Z = layout.esp .. layout.esp + 4 * W - 1
    BY DEF sp, W
  <2> HIDE DEF P1, P2, X, Y, Z
  <2> QED BY <2>1, <2>2, <2>3, <2>4, <2>5, Zenon DEF StackPieces
<1>12. P1 \in Seq(SUBSET Int) /\ Len(P1) = n /\ P2 \in Seq(SUBSET Int) /\ Len(P2) = m
  <2> HIDE DEF P1, P2
  <2> QED BY <1>1, <1>9
<1> HIDE DEF P1, P2, X, Y, Z
<1>13. /\ DOMAIN s = 1 .. n + m + 3
       /\ \A k \in 1 .. n : s[k] = P1[k]
       /\ s[n + 1] = X
       /\ \A k \in 1 .. m : s[n + 1 + k] = P2[k]
       /\ s[n + m + 2] = Y /\ s[n + m + 3] = Z
  <2>1. PICK pieces : pieces = P1 \o <<X>> \o P2 \o <<Y, Z>>
    OBVIOUS
  <2>2. Parts(SUBSET Int, P1, X, P2, Y, Z, pieces)
    BY <1>9, <1>12, <2>1 DEF Parts
  <2>3. PartsAt(P1, X, P2, Y, Z, pieces)
    BY <2>2, Placed
  <2> QED BY <2>1, <2>3, <1>12 DEF PartsAt
<1> HIDE DEF s
<1>14. /\ \A k \in 1 .. n : s[k] = E[k] .. E[k] + (envp[k] + 1) - 1
       /\ s[n + 1] = A[0] .. A[0] + 4 * (n + 1) - 1
       /\ \A k \in 1 .. m : s[n + 1 + k] = A[k] .. A[k] + (argv[k] + 1) - 1
       /\ s[n + m + 2] = ap .. ap + 4 * m - 1
       /\ s[n + m + 3] = sp .. sp + 16 - 1
  BY <1>6, <1>10, <1>13 DEF X, Y, Z
<1>15. /\ \A k \in 1 .. n : E[k] + envp[k] + 1 <= E[k - 1]
       /\ \A k \in 1 .. m : A[k] + argv[k] + 1 <= A[k - 1]
       /\ A[0] + 4 * (n + 1) = E[n]
  BY <1>4, <1>5, <1>6, <1>7
<1>16. \A i \in DOMAIN s :
         /\ s[i] \subseteq 0 .. STACK_SIZE - 1
         /\ \A j \in DOMAIN s \ {i} : s[i] \cap s[j] = {}
  <2>1. Laid(n, m, E, A, envp, argv, ap, sp)
    BY <1>1, <1>3, <1>6, <1>8, <1>15 DEF Laid
  <2>2. Cuts(n, m, E, A, envp, argv, ap, sp, s)
    BY <1>13, <1>14 DEF Cuts
  <2> QED BY <2>1, <2>2, PiecesFit
<1> QED BY <1>11, <1>16 DEF StackLaidOut

(* exec(): the strings and vectors on the stack of a new program are in its *)
(* page and do not overlap, for strings of any number and length that fit   *)
(* in it; exec() does not look whether they do.                             *)
THEOREM StacksWellFormed == ASSUME StacksFit PROVE Spec => []StackLaidOut
<1> DEFINE Given == Strings \cup {<<>>}
           LaidInv == \E argv, envp \in Given : layout = Ustack(argv, envp)
<1>1. NoLayout = Ustack(<<>>, <<>>) /\ <<>> \in Given
  BY DEF NoLayout
<1>2. Init => LaidInv
  BY <1>1 DEF Init
<1>3. LaidInv /\ [Next]_vars => LaidInv'
  <2> SUFFICES ASSUME LaidInv, [Next]_vars PROVE LaidInv'
    OBVIOUS
  <2>1. layout' = layout \/ layout' = NoLayout \/ \E argv, envp \in Strings : layout' = Ustack(argv, envp)
    <3>1. CASE UNCHANGED vars
      BY <3>1 DEF vars
    <3>2. ASSUME NEW p \in Procs, NEW addr, Grow(p, addr) \/ Shrink(p, addr) PROVE layout' = layout
      BY <3>2 DEF Grow, Shrink, Panic
    <3>3. ASSUME NEW p \in Procs, Fork(p) \/ ExitUnmap(p) \/ ExitDestroy(p) \/ Reap(p) PROVE layout' = layout
      BY <3>3 DEF Fork, ExitUnmap, ExitDestroy, Reap, Panic
    <3>4. ASSUME NEW p \in Procs, NEW size, NEW argv \in Strings, NEW envp \in Strings, ExecStart(p, size, argv, envp)
          PROVE  layout' = layout \/ layout' = Ustack(argv, envp)
      BY <3>4 DEF ExecStart, Panic
    <3>5. ASSUME NEW p \in Procs, ExecFinish(p) PROVE layout' = NoLayout
      BY <3>5 DEF ExecFinish
    <3> QED BY <3>1, <3>2, <3>3, <3>4, <3>5, ZenonT(30) DEF Next
  <2>2. \E argv, envp \in Given : layout' = Ustack(argv, envp)
    BY <1>1, <2>1
  <2> QED BY <2>2
<1>4. LaidInv => StackLaidOut
  <2> SUFFICES ASSUME NEW argv \in Given, NEW envp \in Given, layout = Ustack(argv, envp) PROVE StackLaidOut
    OBVIOUS
  <2>1. argv \in Seq(Nat) /\ envp \in Seq(Nat)
    <3>1. <<>> \in Seq(Nat)
      OBVIOUS
    <3>2. \A s \in Strings : s \in Seq(Nat)
      BY MemoryAssumption
    <3> QED BY <3>1, <3>2
  <2>2. layout.esp >= 0
    BY DEF StacksFit
  <2> QED BY <2>1, <2>2, StackOf
<1> QED BY <1>2, <1>3, <1>4, PTL DEF Spec
=============================================================================
