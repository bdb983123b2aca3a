-------------------------- MODULE BufferCacheProofs --------------------------
(***************************************************************************)
(* Proof that the buffer cache never has a block in two buffers, keeps     *)
(* its free list, loses no sleeper and no dirty buffer: for any number of  *)
(* buffers, blocks and processes, and for signals sent to any of them.     *)
(***************************************************************************)
EXTENDS BufferCache, SequenceTheorems, FiniteSetTheorems, TLAPS

(* The processes that a reference to f was counted for: those that bread()  *)
(* gave it to, and the one that waits in wd_read() for it to be filled.     *)
Users(f) == {p \in Procs : f \in holds[p] \/ (pc[p] = "read" /\ reads[p] = f)}

RefsCounted ==
    \A f \in Bufs : IsFiniteSet(Users(f)) /\ ref_count[f] = Cardinality(Users(f))

(* What bmap() and itrunc() hold when they read a bitmap: one buffer, of a  *)
(* block that is not a bitmap.                                              *)
HoldsOther(p, b) ==
    \/ holds[p] = {}
    \/ b \in Maps /\ \E f \in Bufs : holds[p] = {f} /\ block_no[f] \notin Maps

(* A process that sleeps in getblk() sleeps on a buffer and holds none of   *)
(* the block that it wants; one in wd_read() holds the buffer only when it  *)
(* returns.                                                                 *)
Waiters ==
    \A p \in Procs :
        /\ pc[p] = "getblk" => wchan[p] # Disk /\ want[p] \in Blocks /\ HoldsOther(p, want[p])
        /\ pc[p] = "read" => reads[p] \in Bufs /\ reads[p] \notin holds[p]

IndInv ==
    /\ TypeOK /\ OneBufferPerBlock /\ FreeIffUnreferenced
    /\ BusyIsExclusive /\ SleepersWanted /\ DirtyIsHeld
    /\ RefsCounted /\ Waiters

-----------------------------------------------------------------------------
(* Unlinking a buffer from the free list takes away that buffer only.       *)
LEMMA UnlistedLemma ==
    ASSUME freelist \in Seq(Bufs), IsInjective(freelist), NEW f \in Bufs, Contains(freelist, f)
    PROVE  /\ Unlisted(f) \in Seq(Bufs) /\ IsInjective(Unlisted(f))
           /\ \A g \in Bufs : Contains(Unlisted(f), g) <=> Contains(freelist, g) /\ g # f
<1> DEFINE n == Len(freelist)
           i == CHOOSE j \in DOMAIN freelist : freelist[j] = f
           u == [j \in 1 .. n - 1 |-> IF j < i THEN freelist[j] ELSE freelist[j + 1]]
<1>1. n \in Nat /\ DOMAIN freelist = 1 .. n
  OBVIOUS
<1>2. i \in 1 .. n /\ freelist[i] = f
  BY <1>1 DEF Contains
<1>3. n - 1 \in Nat /\ n >= 1
  BY <1>1, <1>2
<1>4. Unlisted(f) = u
  BY DEF Unlisted
<1> HIDE DEF i
<1>5. \A j \in 1 .. n - 1 : u[j] \in Bufs
  BY <1>1, <1>2, <1>3
<1>6. u \in Seq(Bufs) /\ Len(u) = n - 1 /\ DOMAIN u = 1 .. n - 1
  BY <1>3, <1>5
<1>7. \A j, k \in 1 .. n : freelist[j] = freelist[k] => j = k
  BY <1>1 DEF IsInjective
<1>8. IsInjective(u)
  <2> SUFFICES ASSUME NEW j \in 1 .. n - 1, NEW k \in 1 .. n - 1, u[j] = u[k] PROVE j = k
    BY <1>6 DEF IsInjective
  <2> QED BY <1>2, <1>3, <1>7
<1>9. ASSUME NEW g \in Bufs PROVE Contains(u, g) <=> Contains(freelist, g) /\ g # f
  <2>1. ASSUME Contains(u, g) PROVE Contains(freelist, g) /\ g # f
    <3>1. PICK j \in 1 .. n - 1 : u[j] = g
      BY <1>6, <2>1 DEF Contains
    <3>2. CASE j < i
      BY <1>1, <1>2, <1>7, <3>1, <3>2 DEF Contains
    <3>3. CASE ~(j < i)
      BY <1>1, <1>2, <1>7, <3>1, <3>3 DEF Contains
    <3> QED BY <3>2, <3>3
  <2>2. ASSUME Contains(freelist, g), g # f PROVE Contains(u, g)
    <3>1. PICK j \in 1 .. n : freelist[j] = g
      BY <1>1, <2>2 DEF Contains
    <3>2. j # i
      BY <1>2, <2>2, <3>1
    <3>3. CASE j < i
      <4>1. j \in 1 .. n - 1 /\ u[j] = g
        BY <1>2, <1>3, <3>1, <3>3
      <4> QED BY <1>6, <4>1 DEF Contains
    <3>4. CASE j > i
      <4>1. j - 1 \in 1 .. n - 1 /\ u[j - 1] = g
        BY <1>2, <1>3, <3>1, <3>4
      <4> QED BY <1>6, <4>1 DEF Contains
    <3> QED BY <1>2, <3>1, <3>2, <3>3, <3>4
  <2> QED BY <2>1, <2>2
<1> QED BY <1>4, <1>6, <1>8, <1>9

(* Taking the first buffer of the free list takes away that buffer only.    *)
LEMMA TailLemma ==
    ASSUME NEW s \in Seq(Bufs), IsInjective(s), s # <<>>
    PROVE  /\ Head(s) \in Bufs /\ Contains(s, Head(s))
           /\ Tail(s) \in Seq(Bufs) /\ IsInjective(Tail(s))
           /\ \A g \in Bufs : Contains(Tail(s), g) <=> Contains(s, g) /\ g # Head(s)
<1> DEFINE n == Len(s)
<1>1. n \in Nat /\ n >= 1 /\ DOMAIN s = 1 .. n
  BY EmptySeq
<1>2. Head(s) = s[1] /\ s[1] \in Bufs
  BY <1>1
<1>3. Tail(s) \in Seq(Bufs) /\ Len(Tail(s)) = n - 1 /\ \A j \in 1 .. n - 1 : Tail(s)[j] = s[j + 1]
  BY <1>1, HeadTailProperties
<1>4. DOMAIN Tail(s) = 1 .. n - 1
  BY <1>1, <1>3
<1>5. \A j, k \in 1 .. n : s[j] = s[k] => j = k
  BY <1>1 DEF IsInjective
<1>6. IsInjective(Tail(s))
  <2> SUFFICES ASSUME NEW j \in 1 .. n - 1, NEW k \in 1 .. n - 1, Tail(s)[j] = Tail(s)[k] PROVE j = k
    BY <1>4 DEF IsInjective
  <2>1. s[j + 1] = s[k + 1] /\ j + 1 \in 1 .. n /\ k + 1 \in 1 .. n
    BY <1>1, <1>3
  <2> QED BY <1>1, <1>5, <2>1
<1>7. ASSUME NEW g \in Bufs PROVE Contains(Tail(s), g) <=> Contains(s, g) /\ g # Head(s)
  <2>1. ASSUME Contains(Tail(s), g) PROVE Contains(s, g) /\ g # Head(s)
    <3>1. PICK j \in 1 .. n - 1 : s[j + 1] = g
      BY <1>3, <2>1 DEF Contains
    <3>2. j + 1 \in 1 .. n /\ j + 1 # 1
      BY <1>1
    <3> QED BY <1>1, <1>2, <1>5, <3>1, <3>2 DEF Contains
  <2>2. ASSUME Contains(s, g), g # Head(s) PROVE Contains(Tail(s), g)
    <3>1. PICK j \in 1 .. n : s[j] = g
      BY <2>2 DEF Contains
    <3>2. j # 1
      BY <1>2, <2>2, <3>1
    <3>3. j - 1 \in 1 .. n - 1 /\ Tail(s)[j - 1] = g
      BY <1>1, <1>3, <3>1, <3>2
    <3> QED BY <1>3, <3>3 DEF Contains
  <2> QED BY <2>1, <2>2
<1>8. Contains(s, Head(s))
  BY <1>1, <1>2 DEF Contains
<1> QED BY <1>2, <1>3, <1>6, <1>7, <1>8

(* brelse() of a buffer that is not on the free list adds that buffer only. *)
LEMMA AppendLemma ==
    ASSUME NEW s \in Seq(Bufs), IsInjective(s), NEW f \in Bufs, ~Contains(s, f)
    PROVE  /\ Append(s, f) \in Seq(Bufs) /\ IsInjective(Append(s, f))
           /\ \A g \in Bufs : Contains(Append(s, f), g) <=> Contains(s, g) \/ g = f
<1> DEFINE n == Len(s)
           a == Append(s, f)
<1>1. n \in Nat /\ DOMAIN s = 1 .. n
  OBVIOUS
<1>2. a \in Seq(Bufs) /\ Len(a) = n + 1 /\ a[n + 1] = f /\ \A j \in 1 .. n : a[j] = s[j]
  BY AppendProperties
<1>3. DOMAIN a = 1 .. n + 1
  BY <1>1, <1>2
<1>4. \A j \in 1 .. n : s[j] # f
  BY DEF Contains
<1>5. \A j, k \in 1 .. n : s[j] = s[k] => j = k
  BY <1>1 DEF IsInjective
<1>6. \A j \in 1 .. n + 1 : j \in 1 .. n \/ j = n + 1
  BY <1>1
<1> HIDE DEF a
<1>7. IsInjective(a)
  BY <1>2, <1>3, <1>4, <1>5, <1>6 DEF IsInjective
<1>8. ASSUME NEW g \in Bufs PROVE Contains(a, g) <=> Contains(s, g) \/ g = f
  <2>1. n + 1 \in 1 .. n + 1 /\ \A j \in 1 .. n : j \in 1 .. n + 1
    BY <1>1
  <2> HIDE DEF n
  <2> QED BY <1>2, <1>6, <2>1 DEF Contains, n
<1> QED BY <1>2, <1>7, <1>8 DEF a

-----------------------------------------------------------------------------
(* Counting: one more user.                                                 *)
LEMMA CountAdd ==
    ASSUME NEW S, IsFiniteSet(S), NEW p, p \notin S
    PROVE  IsFiniteSet(S \cup {p}) /\ Cardinality(S \cup {p}) = Cardinality(S) + 1
BY FS_AddElement

(* Counting: one user less.                                                 *)
LEMMA CountRemove ==
    ASSUME NEW S, IsFiniteSet(S), NEW p \in S
    PROVE  IsFiniteSet(S \ {p}) /\ Cardinality(S \ {p}) = Cardinality(S) - 1
BY FS_RemoveElement

(* A buffer has a positive count exactly when some process uses it.         *)
LEMMA UsedIsCounted ==
    ASSUME RefsCounted, NEW f \in Bufs
    PROVE  /\ ref_count[f] \in Nat
           /\ ref_count[f] = 0 <=> Users(f) = {}
<1>1. IsFiniteSet(Users(f)) /\ ref_count[f] = Cardinality(Users(f))
  BY DEF RefsCounted
<1> QED BY <1>1, FS_CardinalityType, FS_EmptySet

(* The users are those that bread() and brelse() make of the processes.     *)
LEMMA SameUsers ==
    ASSUME UNCHANGED <<pc, reads, holds>>
    PROVE  \A f : Users(f)' = Users(f)
BY DEF Users

(* Nothing changes the count of a buffer but bread() and brelse().          *)
LEMMA SameRefs ==
    ASSUME RefsCounted, UNCHANGED <<ref_count, pc, reads, holds>>
    PROVE  RefsCounted'
<1>1. \A f : Users(f)' = Users(f)
  BY SameUsers
<1> QED BY <1>1 DEF RefsCounted

(* What bread() does with f: p is given f, or reads f in.                   *)
Takes(p, f) ==
    \/ BreadReturn(p, f)
    \/ /\ pc' = [pc EXCEPT ![p] = "read"]
       /\ reads' = [reads EXCEPT ![p] = f]
       /\ UNCHANGED holds

(* The process that is given f, or that reads f in, is one more user of it. *)
LEMMA TakesUser ==
    ASSUME TypeOK, NEW p \in Procs, NEW f \in Bufs, Takes(p, f), pc[p] # "read"
    PROVE  /\ Users(f)' = Users(f) \cup {p}
           /\ \A g \in Bufs : g # f => Users(g)' = Users(g)
<1>1. pc'[p] # "read" => f \in holds'[p]
  BY DEF TypeOK, Takes, BreadReturn
<1>2. pc'[p] = "read" => reads'[p] = f
  BY DEF TypeOK, Takes, BreadReturn
<1>3. \A g \in Bufs : g # f => (g \in holds'[p] <=> g \in holds[p])
  BY DEF TypeOK, Takes, BreadReturn
<1>4. \A q \in Procs : q # p => pc'[q] = pc[q] /\ reads'[q] = reads[q] /\ holds'[q] = holds[q]
  BY DEF TypeOK, Takes, BreadReturn
<1> QED BY <1>1, <1>2, <1>3, <1>4 DEF Users

(* getblk() counts the process that did not use the buffer before.          *)
LEMMA TakesCounted ==
    ASSUME TypeOK, RefsCounted, NEW p \in Procs, NEW f \in Bufs, Takes(p, f), pc[p] # "read",
           f \notin holds[p], ref_count' = [ref_count EXCEPT ![f] = @ + 1]
    PROVE  RefsCounted'
<1>1. p \notin Users(f)
  BY DEF Users
<1>2. IsFiniteSet(Users(f)) /\ ref_count[f] = Cardinality(Users(f))
  BY DEF RefsCounted
<1>3. IsFiniteSet(Users(f)') /\ Cardinality(Users(f)') = ref_count[f] + 1
  BY <1>1, <1>2, CountAdd, TakesUser
<1>4. ref_count'[f] = ref_count[f] + 1 /\ \A g \in Bufs : g # f => ref_count'[g] = ref_count[g]
  BY DEF TypeOK
<1>5. ASSUME NEW g \in Bufs
      PROVE  IsFiniteSet(Users(g)') /\ ref_count'[g] = Cardinality(Users(g)')
  <2>1. CASE g = f
    BY <1>3, <1>4, <2>1
  <2>2. CASE g # f
    <3>1. Users(g)' = Users(g)
      BY <2>2, TakesUser
    <3> QED BY <1>4, <2>2, <3>1 DEF RefsCounted
  <2> QED BY <2>1, <2>2
<1> QED BY <1>5 DEF RefsCounted

(* A process that may read a block holds no buffer of it, and does not wait *)
(* for the disk.                                                            *)
LEMMA MayReadLemma ==
    ASSUME TypeOK, Waiters, NEW p \in Procs, NEW b \in Blocks, MayRead(p, b)
    PROVE  /\ pc[p] # "read" /\ HoldsOther(p, b)
           /\ \A f \in Bufs : block_no[f] = b => f \notin holds[p]
<1>1. pc[p] # "read" /\ HoldsOther(p, b)
  BY DEF MayRead, Waiters, HoldsOther
<1>2. \A f \in Bufs : block_no[f] = b => f \notin holds[p]
  BY <1>1 DEF HoldsOther
<1> QED BY <1>1, <1>2

(* The channel of the disk is no buffer, and neither is the null pointer.   *)
LEMMA Channels == Disk \notin Bufs /\ Null \notin Bufs /\ Disk # Null
BY CacheAssumption DEF Disk, Bufs

-----------------------------------------------------------------------------
(* The invariant holds at the start: all buffers are free.                  *)
LEMMA InitInv == Init => IndInv
<1> SUFFICES ASSUME Init PROVE IndInv
  OBVIOUS
<1>1. NBUF \in Nat /\ NBUF >= 1
  BY CacheAssumption
<1>2. freelist \in Seq(Bufs) /\ Len(freelist) = NBUF /\ \A i \in 1 .. NBUF : freelist[i] = i - 1
  BY <1>1 DEF Init, Bufs
<1>3. TypeOK
  BY <1>1, <1>2 DEF Init, TypeOK
<1>4. OneBufferPerBlock
  BY DEF Init, OneBufferPerBlock
<1>5. FreeIffUnreferenced
  <2>1. IsInjective(freelist)
    BY <1>1, <1>2 DEF Init, IsInjective
  <2>2. ASSUME NEW f \in Bufs PROVE Contains(freelist, f)
    <3>1. f + 1 \in 1 .. NBUF /\ freelist[f + 1] = f
      BY <1>1, <1>2 DEF Bufs
    <3> QED BY <1>2, <3>1 DEF Contains
  <2> QED BY <2>1, <2>2 DEF Init, FreeIffUnreferenced
<1>6. BusyIsExclusive /\ SleepersWanted /\ DirtyIsHeld /\ Waiters
  BY DEF Init, BusyIsExclusive, SleepersWanted, DirtyIsHeld, Waiters
<1>7. RefsCounted
  <2>1. \A f \in Bufs : Users(f) = {}
    BY DEF Init, Users
  <2> QED BY <2>1, FS_EmptySet DEF Init, RefsCounted
<1> QED BY <1>3, <1>4, <1>5, <1>6, <1>7 DEF IndInv

(* getblk() that goes to sleep marks the busy buffer as wanted.             *)
LEMMA GetblkSleepInv ==
    ASSUME IndInv, NEW p \in Procs, NEW b \in Blocks, GetblkSleep(p, b)
    PROVE  IndInv'
<1>1. PICK f \in Bufs : /\ block_no[f] = b /\ "B_BUSY" \in flags[f]
                        /\ flags' = [flags EXCEPT ![f] = @ \cup {"B_WANTED"}]
                        /\ wchan' = [wchan EXCEPT ![p] = f]
  BY DEF GetblkSleep, Cached
<1>2. /\ pc' = [pc EXCEPT ![p] = "getblk"] /\ want' = [want EXCEPT ![p] = b] /\ MayRead(p, b)
      /\ UNCHANGED <<block_no, ref_count, freelist, rdbuf, wrbuf, cmd, reads, holds>>
  BY DEF GetblkSleep, drive
<1>3. pc[p] # "read" /\ HoldsOther(p, b)
  BY <1>2, MayReadLemma DEF IndInv
<1> USE DEF IndInv
<1>4. TypeOK'
  BY <1>1, <1>2 DEF TypeOK
<1>5. OneBufferPerBlock' /\ FreeIffUnreferenced'
  BY <1>2 DEF OneBufferPerBlock, FreeIffUnreferenced
<1>6. \A g \in Bufs : flags'[g] = flags[g] \/ flags'[g] = flags[g] \cup {"B_WANTED"}
  BY <1>1 DEF TypeOK
<1>7. BusyIsExclusive' /\ DirtyIsHeld'
  BY <1>2, <1>6 DEF BusyIsExclusive, DirtyIsHeld
<1>8. SleepersWanted'
  <2> SUFFICES ASSUME NEW q \in Procs, pc'[q] = "getblk", wchan'[q] # Null
               PROVE  {"B_BUSY", "B_WANTED"} \subseteq flags'[wchan'[q]]
    BY DEF SleepersWanted
  <2>1. CASE q = p
    BY <1>1, <2>1 DEF TypeOK
  <2>2. CASE q # p
    <3>1. pc[q] = "getblk" /\ wchan'[q] = wchan[q]
      BY <1>1, <1>2, <2>2 DEF TypeOK
    <3>2. wchan[q] \in Bufs /\ {"B_BUSY", "B_WANTED"} \subseteq flags[wchan[q]]
      BY <3>1 DEF TypeOK, Waiters, SleepersWanted
    <3> QED BY <1>6, <3>1, <3>2
  <2> QED BY <2>1, <2>2
<1>9. \A g \in Bufs : Users(g)' = Users(g)
  BY <1>2, <1>3 DEF Users, TypeOK
<1>10. RefsCounted'
  BY <1>2, <1>9 DEF RefsCounted
<1>11. Waiters'
  <2> SUFFICES ASSUME NEW q \in Procs
               PROVE  /\ pc'[q] = "getblk" => wchan'[q] # Disk /\ want'[q] \in Blocks /\ HoldsOther(q, want[q])'
                      /\ pc'[q] = "read" => reads'[q] \in Bufs /\ reads'[q] \notin holds'[q]
    BY DEF Waiters
  <2>1. HoldsOther(q, want[q])' <=> HoldsOther(q, want'[q])
    BY <1>2 DEF HoldsOther
  <2>2. CASE q = p
    BY <1>1, <1>2, <1>3, <2>1, <2>2, Channels DEF TypeOK
  <2>3. CASE q # p
    BY <1>1, <1>2, <2>1, <2>3 DEF TypeOK, Waiters
  <2> QED BY <2>2, <2>3
<1> QED BY <1>4, <1>5, <1>7, <1>8, <1>10, <1>11

(* What reads, writes and interrupts do to the flags keeps the invariant:   *)
(* a sleeper is woken, or its buffer stays busy and wanted.                 *)
LEMMA FlagsInv ==
    ASSUME IndInv, TypeOK', UNCHANGED <<block_no, ref_count, freelist, pc, want, reads, holds>>,
           \A g \in Bufs : /\ "B_BUSY" \in flags'[g] => "B_BUSY" \in flags[g]
                           /\ "B_DIRTY" \in flags'[g] => "B_DIRTY" \in flags[g] \/ ref_count[g] > 0,
           \A q \in Procs : pc[q] = "getblk" =>
               \/ wchan'[q] = Null
               \/ /\ wchan'[q] = wchan[q]
                  /\ wchan[q] \in Bufs /\ {"B_BUSY", "B_WANTED"} \subseteq flags[wchan[q]] =>
                        {"B_BUSY", "B_WANTED"} \subseteq flags'[wchan[q]]
    PROVE  IndInv'
<1>1. OneBufferPerBlock' /\ FreeIffUnreferenced'
  BY DEF IndInv, OneBufferPerBlock, FreeIffUnreferenced
<1>2. BusyIsExclusive' /\ DirtyIsHeld'
  BY DEF IndInv, BusyIsExclusive, DirtyIsHeld
<1>3. SleepersWanted'
  <2> SUFFICES ASSUME NEW q \in Procs, pc[q] = "getblk", wchan'[q] # Null
               PROVE  {"B_BUSY", "B_WANTED"} \subseteq flags'[wchan'[q]]
    BY DEF SleepersWanted
  <2>1. wchan'[q] = wchan[q]
    OBVIOUS
  <2>2. wchan[q] \in Bufs /\ {"B_BUSY", "B_WANTED"} \subseteq flags[wchan[q]]
    BY <2>1 DEF IndInv, TypeOK, Waiters, SleepersWanted
  <2> QED BY <2>1, <2>2
<1>4. RefsCounted'
  BY SameRefs DEF IndInv
<1>5. Waiters'
  <2>1. \A q \in Procs : HoldsOther(q, want[q])' <=> HoldsOther(q, want[q])
    BY DEF HoldsOther
  <2>2. \A q \in Procs : pc[q] = "getblk" => wchan'[q] # Disk
    BY Channels DEF IndInv, Waiters
  <2> QED BY <2>1, <2>2 DEF IndInv, Waiters
<1> QED BY <1>1, <1>2, <1>3, <1>4, <1>5 DEF IndInv

(* iodone() wakes up the sleepers before it forgets that the buffer was     *)
(* wanted.                                                                  *)
LEMMA IodoneInv ==
    ASSUME IndInv, TypeOK', NEW f \in Bufs, NEW F \in SUBSET flags[f],
           UNCHANGED <<block_no, ref_count, freelist, pc, want, reads, holds>>,
           flags' = [flags EXCEPT ![f] = IodoneFlags(F)],
           \A q \in Procs : wchan'[q] \in {Null, IodoneWoken(f)[q]}
    PROVE  IndInv'
<1>1. \A g \in Bufs : g # f => flags'[g] = flags[g]
  BY DEF IndInv, TypeOK
<1>2. flags'[f] = (F \cup {"B_DONE"}) \ {"B_WANTED"}
  BY DEF IndInv, TypeOK, IodoneFlags
<1>3. \A g \in Bufs : /\ "B_BUSY" \in flags'[g] => "B_BUSY" \in flags[g]
                      /\ "B_DIRTY" \in flags'[g] => "B_DIRTY" \in flags[g]
  BY <1>1, <1>2
<1>4. ASSUME NEW q \in Procs, pc[q] = "getblk", wchan'[q] # Null
      PROVE  /\ wchan'[q] = wchan[q]
             /\ wchan[q] \in Bufs /\ {"B_BUSY", "B_WANTED"} \subseteq flags[wchan[q]] =>
                   {"B_BUSY", "B_WANTED"} \subseteq flags'[wchan[q]]
  <2>1. wchan'[q] = IodoneWoken(f)[q]
    BY <1>4
  <2>2. CASE "B_WANTED" \in flags[f]
    <3>1. wchan[q] # f /\ wchan'[q] = wchan[q]
      BY <1>4, <2>1, <2>2 DEF IodoneWoken, Woken
    <3> QED BY <1>1, <3>1
  <2>3. CASE "B_WANTED" \notin flags[f]
    <3>1. wchan'[q] = wchan[q]
      BY <2>1, <2>3 DEF IodoneWoken
    <3> QED BY <1>1, <2>3, <3>1
  <2> QED BY <2>2, <2>3
<1> QED BY <1>3, <1>4, FlagsInv

(* A wake-up leaves every process asleep on a buffer or on the disk.        *)
LEMMA WokenType ==
    ASSUME TypeOK, NEW f \in Bufs
    PROVE  IodoneWoken(f) \in [Procs -> Bufs \cup {Disk, Null}]
BY DEF TypeOK, IodoneWoken, Woken

(* iodone() sets flags that are flags.                                      *)
LEMMA IodoneType ==
    ASSUME NEW F \in SUBSET {"B_BUSY", "B_WANTED", "B_DONE", "B_DIRTY"}
    PROVE  IodoneFlags(F) \in SUBSET {"B_BUSY", "B_WANTED", "B_DONE", "B_DIRTY"}
BY DEF IodoneFlags

(* wd_read() that goes on sleeping.                                         *)
LEMMA ReadSleepInv ==
    ASSUME IndInv, NEW p \in Procs, ReadSleep(p)
    PROVE  IndInv'
<1>1. /\ pc[p] = "read" /\ wchan' = [wchan EXCEPT ![p] = Disk]
      /\ UNCHANGED <<block_no, flags, ref_count, freelist, rdbuf, wrbuf, cmd, pc, want, reads, holds>>
  BY DEF ReadSleep, bufs, drive
<1>2. TypeOK'
  BY <1>1 DEF IndInv, TypeOK
<1>3. \A q \in Procs : pc[q] = "getblk" => wchan'[q] = wchan[q]
  BY <1>1 DEF IndInv, TypeOK
<1> QED BY <1>1, <1>2, <1>3, FlagsInv

(* wd_intr() that ends a read.                                              *)
LEMMA ReadIntrInv ==
    ASSUME IndInv, ReadIntr
    PROVE  IndInv'
<1>1. /\ rdbuf \in Bufs /\ flags' = [flags EXCEPT ![rdbuf] = IodoneFlags(@)]
      /\ wchan' = [q \in Procs |-> IF wchan[q] = Disk THEN Null ELSE IodoneWoken(rdbuf)[q]]
      /\ rdbuf' = Null /\ cmd' = "none"
      /\ UNCHANGED <<block_no, ref_count, freelist, wrbuf, pc, want, reads, holds>>
  BY DEF ReadIntr, IndInv, TypeOK
<1>2. IodoneWoken(rdbuf) \in [Procs -> Bufs \cup {Disk, Null}]
  BY <1>1, WokenType DEF IndInv
<1>3. flags[rdbuf] \in SUBSET {"B_BUSY", "B_WANTED", "B_DONE", "B_DIRTY"}
  BY <1>1 DEF IndInv, TypeOK
<1>4. TypeOK'
  BY <1>1, <1>2, <1>3, IodoneType DEF IndInv, TypeOK
<1>5. flags' = [flags EXCEPT ![rdbuf] = IodoneFlags(flags[rdbuf])]
  BY <1>1
<1>6. \A q \in Procs : wchan'[q] \in {Null, IodoneWoken(rdbuf)[q]}
  BY <1>1
<1> QED BY <1>1, <1>4, <1>5, <1>6, IodoneInv

(* wd_intr() that ends a write.                                             *)
LEMMA WriteIntrInv ==
    ASSUME IndInv, WriteIntr
    PROVE  IndInv'
<1>1. /\ wrbuf \in Bufs /\ flags' = [flags EXCEPT ![wrbuf] = IodoneFlags(@)]
      /\ wchan' = IodoneWoken(wrbuf) /\ wrbuf' = Null
      /\ cmd' \in {"none", cmd}
      /\ UNCHANGED <<block_no, ref_count, freelist, rdbuf, pc, want, reads, holds>>
  BY DEF WriteIntr, IndInv, TypeOK
<1>2. IodoneWoken(wrbuf) \in [Procs -> Bufs \cup {Disk, Null}]
  BY <1>1, WokenType DEF IndInv
<1>3. flags[wrbuf] \in SUBSET {"B_BUSY", "B_WANTED", "B_DONE", "B_DIRTY"}
  BY <1>1 DEF IndInv, TypeOK
<1>4. TypeOK'
  BY <1>1, <1>2, <1>3, IodoneType DEF IndInv, TypeOK
<1>5. flags' = [flags EXCEPT ![wrbuf] = IodoneFlags(flags[wrbuf])]
  BY <1>1
<1> QED BY <1>1, <1>4, <1>5, IodoneInv

(* bwrite(), with or without a drive.                                       *)
LEMMA BwriteInv ==
    ASSUME IndInv, NEW p \in Procs, NEW f \in Bufs, Bwrite(p, f)
    PROVE  IndInv'
<1>1. UNCHANGED <<block_no, ref_count, freelist, rdbuf, pc, want, reads, holds>>
  BY DEF Bwrite
<1>2. flags[f] \in SUBSET {"B_BUSY", "B_WANTED", "B_DONE", "B_DIRTY"}
  BY DEF IndInv, TypeOK
<1>3. CASE block_no[f] \in NoDrive
  <2> DEFINE F == flags[f] \ {"B_DIRTY"}
  <2>1. flags' = [flags EXCEPT ![f] = IodoneFlags(F)] /\ wchan' = IodoneWoken(f)
    BY <1>3 DEF Bwrite
  <2>2. UNCHANGED <<wrbuf, cmd>>
    BY <1>3 DEF Bwrite
  <2>3. IodoneWoken(f) \in [Procs -> Bufs \cup {Disk, Null}]
    BY WokenType DEF IndInv
  <2>4. TypeOK'
    <3>1. IodoneFlags(F) \in SUBSET {"B_BUSY", "B_WANTED", "B_DONE", "B_DIRTY"}
      BY <1>2, IodoneType
    <3> HIDE DEF F
    <3> QED BY <1>1, <2>1, <2>2, <2>3, <3>1 DEF IndInv, TypeOK
  <2> QED BY <1>1, <2>1, <2>4, IodoneInv
<1>4. CASE block_no[f] \notin NoDrive
  <2>1. /\ flags' = [flags EXCEPT ![f] = @ \ {"B_DIRTY", "B_DONE"}]
        /\ wrbuf' = f /\ cmd' = "write" /\ UNCHANGED wchan
    BY <1>4 DEF Bwrite
  <2>2. TypeOK'
    BY <1>1, <1>2, <2>1 DEF IndInv, TypeOK
  <2>3. \A g \in Bufs : flags'[g] \subseteq flags[g] /\ flags[g] \cap {"B_BUSY", "B_WANTED"} \subseteq flags'[g]
    BY <1>2, <2>1 DEF IndInv, TypeOK
  <2> QED BY <1>1, <2>1, <2>2, <2>3, FlagsInv
<1> QED BY <1>3, <1>4

(* Whoever holds a buffer is counted.                                       *)
LEMMA HeldIsCounted ==
    ASSUME IndInv, NEW p \in Procs, NEW f \in Bufs, f \in holds[p]
    PROVE  ref_count[f] > 0
<1>1. Users(f) # {}
  BY DEF Users
<1> QED BY <1>1, UsedIsCounted DEF IndInv

(* ialloc() that marks a bitmap that it holds.                              *)
LEMMA MarkDirtyInv ==
    ASSUME IndInv, NEW p \in Procs, NEW f \in Bufs, MarkDirty(p, f)
    PROVE  IndInv'
<1>1. /\ flags' = [flags EXCEPT ![f] = @ \cup {"B_DIRTY"}] /\ f \in holds[p]
      /\ UNCHANGED <<block_no, ref_count, freelist, rdbuf, wrbuf, cmd, pc, wchan, want, reads, holds>>
  BY DEF MarkDirty, drive, procs
<1>2. ref_count[f] > 0
  BY <1>1, HeldIsCounted
<1>3. TypeOK'
  BY <1>1 DEF IndInv, TypeOK
<1>4. \A g \in Bufs : flags[g] \subseteq flags'[g] /\ flags'[g] \subseteq flags[g] \cup {"B_DIRTY"}
  BY <1>1 DEF IndInv, TypeOK
<1>5. \A g \in Bufs : g # f => flags'[g] = flags[g]
  BY <1>1 DEF IndInv, TypeOK
<1> QED BY <1>1, <1>2, <1>3, <1>4, <1>5, FlagsInv

(* wd_read() that returns: who waited for the buffer now holds it.          *)
LEMMA ReadReturnInv ==
    ASSUME IndInv, NEW p \in Procs, ReadReturn(p)
    PROVE  IndInv'
<1> DEFINE f == reads[p]
<1>1. /\ pc[p] = "read" /\ f \in Bufs /\ BreadReturn(p, f)
      /\ UNCHANGED <<block_no, flags, ref_count, freelist, rdbuf, wrbuf, cmd>>
  BY DEF ReadReturn, bufs, drive, IndInv, Waiters
<1>2. TypeOK'
  BY <1>1 DEF IndInv, TypeOK, BreadReturn
<1>3. OneBufferPerBlock' /\ FreeIffUnreferenced' /\ BusyIsExclusive' /\ DirtyIsHeld'
  BY <1>1 DEF IndInv, OneBufferPerBlock, FreeIffUnreferenced, BusyIsExclusive, DirtyIsHeld
<1>4. /\ pc'[p] = "run" /\ holds'[p] = holds[p] \cup {f}
      /\ \A q \in Procs : q # p => /\ pc'[q] = pc[q] /\ wchan'[q] = wchan[q] /\ want'[q] = want[q]
                                   /\ reads'[q] = reads[q] /\ holds'[q] = holds[q]
  BY <1>1 DEF BreadReturn, IndInv, TypeOK
<1>5. SleepersWanted'
  BY <1>1, <1>4 DEF IndInv, SleepersWanted
<1>6. \A g \in Bufs : Users(g)' = Users(g)
  BY <1>1, <1>4 DEF Users
<1>7. RefsCounted'
  BY <1>1, <1>6 DEF IndInv, RefsCounted
<1>8. Waiters'
  <2>1. \A q \in Procs : q # p => (HoldsOther(q, want[q])' <=> HoldsOther(q, want[q]))
    BY <1>1, <1>4 DEF HoldsOther
  <2> QED BY <1>4, <2>1 DEF IndInv, Waiters
<1> QED BY <1>2, <1>3, <1>5, <1>7, <1>8 DEF IndInv

(* getblk() that finds a buffer which is not busy keeps the invariant: if   *)
(* it gives the buffer another block or makes it busy, nobody used it.      *)
LEMMA GetInv ==
    ASSUME IndInv, TypeOK', OneBufferPerBlock', FreeIffUnreferenced',
           NEW p \in Procs, NEW f \in Bufs, pc[p] # "read", f \notin holds[p], Takes(p, f),
           "B_BUSY" \notin flags[f],
           "B_BUSY" \in flags'[f] => ref_count[f] = 0,
           block_no'[f] # block_no[f] => ref_count[f] = 0,
           \A g \in Bufs : g # f => flags'[g] = flags[g] /\ block_no'[g] = block_no[g],
           ref_count' = [ref_count EXCEPT ![f] = @ + 1],
           \A q \in Procs : q # p => wchan'[q] = wchan[q] /\ want'[q] = want[q]
    PROVE  IndInv'
<1>1. /\ pc'[p] \in {"run", "read"} /\ (pc'[p] = "read" => reads'[p] = f /\ holds'[p] = holds[p])
      /\ \A q \in Procs : q # p => pc'[q] = pc[q] /\ reads'[q] = reads[q] /\ holds'[q] = holds[q]
  BY DEF IndInv, TypeOK, Takes, BreadReturn
<1>2. /\ ref_count'[f] = ref_count[f] + 1 /\ ref_count[f] \in Nat
      /\ \A g \in Bufs : g # f => ref_count'[g] = ref_count[g]
  BY DEF IndInv, TypeOK
<1>3. BusyIsExclusive'
  BY <1>2 DEF IndInv, BusyIsExclusive
<1>4. DirtyIsHeld'
  BY <1>2 DEF IndInv, DirtyIsHeld
<1>5. SleepersWanted'
  <2> SUFFICES ASSUME NEW q \in Procs, pc'[q] = "getblk", wchan'[q] # Null
               PROVE  {"B_BUSY", "B_WANTED"} \subseteq flags'[wchan'[q]]
    BY DEF SleepersWanted
  <2>1. q # p /\ pc[q] = "getblk" /\ wchan'[q] = wchan[q]
    BY <1>1
  <2>2. wchan[q] \in Bufs /\ {"B_BUSY", "B_WANTED"} \subseteq flags[wchan[q]]
    BY <2>1 DEF IndInv, TypeOK, Waiters, SleepersWanted
  <2> QED BY <2>1, <2>2
<1>6. RefsCounted'
  BY TakesCounted DEF IndInv
<1>7. Waiters'
  <2>1. ASSUME NEW q \in Procs, q # p, pc[q] = "getblk" PROVE HoldsOther(q, want[q])'
    <3>1. HoldsOther(q, want[q])
      BY <2>1 DEF IndInv, Waiters
    <3>2. \A g \in Bufs : g \in holds[q] => block_no'[g] = block_no[g]
      BY HeldIsCounted
    <3> QED BY <1>1, <2>1, <3>1, <3>2 DEF HoldsOther
  <2> QED BY <1>1, <2>1 DEF IndInv, Waiters
<1> QED BY <1>3, <1>4, <1>5, <1>6, <1>7 DEF IndInv

(* wd_read() of a buffer makes p a user of it, and touches no other.        *)
LEMMA WdReadLemma ==
    ASSUME IndInv, NEW p \in Procs, NEW b \in Blocks, NEW f \in Bufs,
           NEW F \in SUBSET {"B_BUSY", "B_WANTED", "B_DONE", "B_DIRTY"}, WdRead(p, b, f, F)
    PROVE  /\ Takes(p, f)
           /\ rdbuf' \in Bufs \cup {Null} /\ cmd' \in {"none", "read", "write"}
           /\ flags' \in [Bufs -> SUBSET {"B_BUSY", "B_WANTED", "B_DONE", "B_DIRTY"}]
           /\ flags'[f] \subseteq F \cup {"B_DONE"}
           /\ \A g \in Bufs : g # f => flags'[g] = flags[g]
           /\ pc' \in [Procs -> {"run", "getblk", "read"}]
           /\ wchan' \in [Procs -> Bufs \cup {Disk, Null}]
           /\ want' \in [Procs -> Blocks \cup {Null}]
           /\ reads' \in [Procs -> Bufs \cup {Null}]
           /\ holds' \in [Procs -> SUBSET Bufs]
           /\ \A q \in Procs : q # p => wchan'[q] = wchan[q] /\ want'[q] = want[q]
<1>1. CASE b \in NoDrive
  <2>1. flags' = [flags EXCEPT ![f] = IodoneFlags(F)] /\ BreadReturn(p, f) /\ UNCHANGED <<rdbuf, cmd>>
    BY <1>1 DEF WdRead
  <2>2. IodoneFlags(F) \in SUBSET {"B_BUSY", "B_WANTED", "B_DONE", "B_DIRTY"} /\ IodoneFlags(F) \subseteq F \cup {"B_DONE"}
    BY DEF IodoneFlags
  <2>3. Takes(p, f)
    BY <2>1 DEF Takes
  <2> QED BY <2>1, <2>2, <2>3 DEF IndInv, TypeOK, BreadReturn
<1>2. CASE b \notin NoDrive
  <2>1. Takes(p, f)
    BY <1>2 DEF WdRead, Takes
  <2>2. /\ flags' = [flags EXCEPT ![f] = F] /\ rdbuf' = f /\ cmd' = "read"
        /\ pc' = [pc EXCEPT ![p] = "read"] /\ wchan' = [wchan EXCEPT ![p] = Disk]
        /\ want' = [want EXCEPT ![p] = b] /\ reads' = [reads EXCEPT ![p] = f] /\ UNCHANGED holds
    BY <1>2 DEF WdRead
  <2>3. /\ flags' \in [Bufs -> SUBSET {"B_BUSY", "B_WANTED", "B_DONE", "B_DIRTY"}]
        /\ flags'[f] = F /\ \A g \in Bufs : g # f => flags'[g] = flags[g]
    BY <2>2 DEF IndInv, TypeOK
  <2>4. /\ pc' \in [Procs -> {"run", "getblk", "read"}] /\ wchan' \in [Procs -> Bufs \cup {Disk, Null}]
        /\ want' \in [Procs -> Blocks \cup {Null}] /\ reads' \in [Procs -> Bufs \cup {Null}]
        /\ holds' \in [Procs -> SUBSET Bufs]
    BY <2>2 DEF IndInv, TypeOK
  <2>5. \A q \in Procs : q # p => wchan'[q] = wchan[q] /\ want'[q] = want[q]
    BY <2>2 DEF IndInv, TypeOK
  <2> QED BY <2>1, <2>2, <2>3, <2>4, <2>5
<1> QED BY <1>1, <1>2

(* getblk() that finds the block: the buffer leaves the free list if it was *)
(* on it.                                                                   *)
LEMMA GetblkHitInv ==
    ASSUME IndInv, NEW p \in Procs, NEW b \in Blocks, NEW f \in Bufs, GetblkHit(p, b, f)
    PROVE  IndInv'
<1>1. /\ MayRead(p, b) /\ block_no[f] = b /\ "B_BUSY" \notin flags[f]
      /\ freelist' = IF ref_count[f] = 0 THEN Unlisted(f) ELSE freelist
      /\ ref_count' = [ref_count EXCEPT ![f] = @ + 1]
      /\ UNCHANGED <<block_no, wrbuf>>
  BY DEF GetblkHit, Hit
<1>2. pc[p] # "read" /\ f \notin holds[p]
  BY <1>1, MayReadLemma DEF IndInv
<1>3. /\ Takes(p, f)
      /\ rdbuf' \in Bufs \cup {Null} /\ cmd' \in {"none", "read", "write"}
      /\ flags' \in [Bufs -> SUBSET {"B_BUSY", "B_WANTED", "B_DONE", "B_DIRTY"}]
      /\ "B_BUSY" \notin flags'[f]
      /\ \A g \in Bufs : g # f => flags'[g] = flags[g]
      /\ pc' \in [Procs -> {"run", "getblk", "read"}]
      /\ wchan' \in [Procs -> Bufs \cup {Disk, Null}]
      /\ want' \in [Procs -> Blocks \cup {Null}]
      /\ reads' \in [Procs -> Bufs \cup {Null}]
      /\ holds' \in [Procs -> SUBSET Bufs]
      /\ \A q \in Procs : q # p => wchan'[q] = wchan[q] /\ want'[q] = want[q]
  <2>1. flags[f] \in SUBSET {"B_BUSY", "B_WANTED", "B_DONE", "B_DIRTY"}
    BY DEF IndInv, TypeOK
  <2>2. CASE "B_DONE" \in flags[f]
    <3>1. BreadReturn(p, f) /\ UNCHANGED <<flags, rdbuf, cmd>>
      BY <2>2 DEF GetblkHit
    <3>2. Takes(p, f)
      BY <3>1 DEF Takes
    <3> QED BY <1>1, <3>1, <3>2 DEF IndInv, TypeOK, BreadReturn
  <2>3. CASE "B_DONE" \notin flags[f]
    <3>1. WdRead(p, b, f, flags[f])
      BY <2>3 DEF GetblkHit
    <3> HIDE DEF IndInv
    <3> QED BY <1>1, <2>1, <3>1, WdReadLemma
  <2> QED BY <2>2, <2>3
<1>4. freelist \in Seq(Bufs) /\ IsInjective(freelist) /\ (ref_count[f] = 0 => Contains(freelist, f))
  BY DEF IndInv, TypeOK, FreeIffUnreferenced
<1>5. /\ freelist' \in Seq(Bufs) /\ IsInjective(freelist')
      /\ \A g \in Bufs : Contains(freelist', g) <=> Contains(freelist, g) /\ g # f
  <2>1. CASE ref_count[f] = 0
    BY <1>1, <1>4, <2>1, UnlistedLemma
  <2>2. CASE ref_count[f] # 0
    <3>1. ~Contains(freelist, f)
      BY <2>2 DEF IndInv, FreeIffUnreferenced
    <3> QED BY <1>1, <1>4, <2>2, <3>1
  <2> QED BY <2>1, <2>2
<1>6. TypeOK'
  <2>1. ref_count' \in [Bufs -> Nat]
    BY <1>1 DEF IndInv, TypeOK
  <2> QED BY <1>1, <1>3, <1>5, <2>1 DEF IndInv, TypeOK
<1>7. OneBufferPerBlock'
  BY <1>1 DEF IndInv, OneBufferPerBlock
<1>8. FreeIffUnreferenced'
  <2>1. ref_count'[f] # 0 /\ \A g \in Bufs : g # f => ref_count'[g] = ref_count[g]
    BY <1>1 DEF IndInv, TypeOK
  <2> QED BY <1>5, <2>1 DEF IndInv, FreeIffUnreferenced
<1> QED BY <1>1, <1>2, <1>3, <1>6, <1>7, <1>8, GetInv

(* getblk() that does not find the block: the first buffer of the free list *)
(* is given it, which nobody uses and which holds no other block's data     *)
(* that was not written.                                                    *)
LEMMA GetblkMissInv ==
    ASSUME IndInv, NEW p \in Procs, NEW b \in Blocks, GetblkMiss(p, b)
    PROVE  IndInv'
<1> DEFINE f == Head(freelist)
<1>1. /\ MayRead(p, b) /\ Cached(b) = {} /\ freelist # <<>>
      /\ wrbuf' \in {f, wrbuf}
      /\ block_no' = [block_no EXCEPT ![f] = b]
      /\ ref_count' = [ref_count EXCEPT ![f] = 1]
      /\ freelist' = Tail(freelist)
      /\ WdRead(p, b, f, {"B_BUSY"})
  BY DEF GetblkMiss, Miss
<1>2. freelist \in Seq(Bufs) /\ IsInjective(freelist)
  BY DEF IndInv, TypeOK, FreeIffUnreferenced
<1>3. /\ f \in Bufs /\ Contains(freelist, f)
      /\ freelist' \in Seq(Bufs) /\ IsInjective(freelist')
      /\ \A g \in Bufs : Contains(freelist', g) <=> Contains(freelist, g) /\ g # f
  BY <1>1, <1>2, TailLemma
<1> HIDE DEF f
<1>4. ref_count[f] = 0 /\ Users(f) = {}
  BY <1>3, UsedIsCounted DEF IndInv, FreeIffUnreferenced
<1>5. "B_BUSY" \notin flags[f]
  BY <1>3, <1>4 DEF IndInv, BusyIsExclusive
<1>6. pc[p] # "read" /\ f \notin holds[p]
  BY <1>1, <1>4, MayReadLemma DEF IndInv, Users
<1>7. /\ Takes(p, f)
      /\ rdbuf' \in Bufs \cup {Null} /\ cmd' \in {"none", "read", "write"}
      /\ flags' \in [Bufs -> SUBSET {"B_BUSY", "B_WANTED", "B_DONE", "B_DIRTY"}]
      /\ \A g \in Bufs : g # f => flags'[g] = flags[g]
      /\ pc' \in [Procs -> {"run", "getblk", "read"}]
      /\ wchan' \in [Procs -> Bufs \cup {Disk, Null}]
      /\ want' \in [Procs -> Blocks \cup {Null}]
      /\ reads' \in [Procs -> Bufs \cup {Null}]
      /\ holds' \in [Procs -> SUBSET Bufs]
      /\ \A q \in Procs : q # p => wchan'[q] = wchan[q] /\ want'[q] = want[q]
  BY <1>1, <1>3, WdReadLemma
<1>8. ref_count' = [ref_count EXCEPT ![f] = @ + 1]
  BY <1>1, <1>4
<1>9. /\ block_no' \in [Bufs -> Blocks \cup {Null}] /\ block_no'[f] = b
      /\ \A g \in Bufs : g # f => block_no'[g] = block_no[g]
  BY <1>1, <1>3 DEF IndInv, TypeOK
<1>10. TypeOK'
  <2>1. ref_count' \in [Bufs -> Nat] /\ wrbuf' \in Bufs \cup {Null}
    BY <1>1, <1>3 DEF IndInv, TypeOK
  <2> QED BY <1>3, <1>7, <1>9, <2>1 DEF TypeOK
<1>11. OneBufferPerBlock'
  <2>1. \A g \in Bufs : block_no[g] # b
    BY <1>1 DEF Cached
  <2> QED BY <1>9, <2>1 DEF IndInv, OneBufferPerBlock
<1>12. FreeIffUnreferenced'
  <2>1. ref_count'[f] # 0 /\ \A g \in Bufs : g # f => ref_count'[g] = ref_count[g]
    BY <1>1, <1>3 DEF IndInv, TypeOK
  <2> QED BY <1>3, <2>1 DEF IndInv, FreeIffUnreferenced
<1> QED BY <1>3, <1>4, <1>5, <1>6, <1>7, <1>8, <1>9, <1>10, <1>11, <1>12, GetInv, ZenonT(40)

(* brelse() by a process that holds the buffer: all that slept on it are    *)
(* awake, and the last one to release it leaves it clean and on the list.   *)
LEMMA BrelseInv ==
    ASSUME IndInv, NEW p \in Procs, NEW f \in Bufs, Brelse(p, f)
    PROVE  IndInv'
<1>1. /\ pc[p] = "run" /\ f \in holds[p]
      /\ wchan' = IF "B_WANTED" \in flags[f] THEN Woken(f) ELSE wchan
      /\ wrbuf' \in {f, wrbuf} /\ cmd' \in {"write", cmd}
      /\ ref_count' = [ref_count EXCEPT ![f] = @ - 1]
      /\ freelist' = IF ref_count[f] = 1 THEN Append(freelist, f) ELSE freelist
      /\ holds' = [holds EXCEPT ![p] = @ \ {f}]
      /\ UNCHANGED <<block_no, rdbuf, pc, want, reads>>
  BY DEF Brelse, BrelseWoken, LastRelse
<1>2. /\ flags' \in [Bufs -> SUBSET {"B_BUSY", "B_WANTED", "B_DONE", "B_DIRTY"}]
      /\ \A g \in Bufs : g # f => flags'[g] = flags[g]
      /\ flags'[f] \subseteq flags[f] \ {"B_WANTED", "B_BUSY"}
      /\ ref_count[f] = 1 => "B_DIRTY" \notin flags'[f]
  BY DEF Brelse, WritesBack, LastRelse, IndInv, TypeOK
<1>3. ref_count[f] \in Nat /\ ref_count[f] > 0
  BY <1>1, HeldIsCounted DEF IndInv, TypeOK
<1>4. ref_count' \in [Bufs -> Nat] /\ ref_count'[f] = ref_count[f] - 1 /\ \A g \in Bufs : g # f => ref_count'[g] = ref_count[g]
  BY <1>1, <1>3 DEF IndInv, TypeOK
<1>5. freelist \in Seq(Bufs) /\ IsInjective(freelist) /\ ~Contains(freelist, f)
  BY <1>3 DEF IndInv, TypeOK, FreeIffUnreferenced
<1>6. /\ freelist' \in Seq(Bufs) /\ IsInjective(freelist')
      /\ \A g \in Bufs : Contains(freelist', g) <=> Contains(freelist, g) \/ (g = f /\ ref_count[f] = 1)
  <2>1. CASE ref_count[f] = 1
    BY <1>1, <1>5, <2>1, AppendLemma
  <2>2. CASE ref_count[f] # 1
    BY <1>1, <1>5, <2>2
  <2> QED BY <2>1, <2>2
<1>7. /\ wchan' \in [Procs -> Bufs \cup {Disk, Null}]
      /\ \A q \in Procs : wchan'[q] = Null \/ wchan'[q] = wchan[q]
      /\ "B_WANTED" \in flags[f] => \A q \in Procs : wchan'[q] # f
  BY <1>1, Channels DEF IndInv, TypeOK, Woken
<1>8. /\ holds' \in [Procs -> SUBSET Bufs] /\ holds'[p] = holds[p] \ {f}
      /\ \A q \in Procs : q # p => holds'[q] = holds[q]
  BY <1>1 DEF IndInv, TypeOK
<1>9. TypeOK'
  BY <1>1, <1>2, <1>4, <1>6, <1>7, <1>8 DEF IndInv, TypeOK
<1>10. OneBufferPerBlock'
  BY <1>1 DEF IndInv, OneBufferPerBlock
<1>11. FreeIffUnreferenced'
  BY <1>3, <1>4, <1>5, <1>6, SMTT(30) DEF IndInv, FreeIffUnreferenced
<1>12. BusyIsExclusive'
  BY <1>2, <1>4 DEF IndInv, BusyIsExclusive
<1>13. DirtyIsHeld'
  BY <1>2, <1>3, <1>4 DEF IndInv, DirtyIsHeld
<1>14. SleepersWanted'
  <2> SUFFICES ASSUME NEW q \in Procs, pc[q] = "getblk", wchan'[q] # Null
               PROVE  {"B_BUSY", "B_WANTED"} \subseteq flags'[wchan'[q]]
    BY <1>1 DEF SleepersWanted
  <2>1. wchan'[q] = wchan[q]
    BY <1>7
  <2>2. wchan[q] \in Bufs /\ {"B_BUSY", "B_WANTED"} \subseteq flags[wchan[q]]
    BY <2>1 DEF IndInv, TypeOK, Waiters, SleepersWanted
  <2>3. wchan[q] # f
    BY <1>7, <2>1, <2>2
  <2> QED BY <1>2, <2>1, <2>2, <2>3
<1>15. RefsCounted'
  <2>1. p \in Users(f) /\ Users(f)' = Users(f) \ {p} /\ \A g \in Bufs : g # f => Users(g)' = Users(g)
    BY <1>1, <1>8 DEF Users
  <2>2. IsFiniteSet(Users(f)) /\ ref_count[f] = Cardinality(Users(f))
    BY DEF IndInv, RefsCounted
  <2>3. IsFiniteSet(Users(f)') /\ Cardinality(Users(f)') = ref_count[f] - 1
    BY <2>1, <2>2, CountRemove
  <2>4. ASSUME NEW g \in Bufs PROVE IsFiniteSet(Users(g)') /\ ref_count'[g] = Cardinality(Users(g)')
    <3>1. CASE g = f
      BY <1>4, <2>3, <3>1
    <3>2. CASE g # f
      BY <1>4, <2>1, <3>2 DEF IndInv, RefsCounted
    <3> QED BY <3>1, <3>2
  <2> QED BY <2>4 DEF RefsCounted
<1>16. Waiters'
  <2>1. \A q \in Procs : q # p => (HoldsOther(q, want[q])' <=> HoldsOther(q, want[q]))
    BY <1>1, <1>8 DEF HoldsOther
  <2> QED BY <1>1, <1>7, <1>8, <2>1, Channels DEF IndInv, Waiters
<1> QED BY <1>9, <1>10, <1>11, <1>12, <1>13, <1>14, <1>15, <1>16 DEF IndInv

-----------------------------------------------------------------------------
(* No step leaves the invariant.                                            *)
LEMMA NextInv == IndInv /\ [Next]_vars => IndInv'
<1> SUFFICES ASSUME IndInv, [Next]_vars PROVE IndInv'
  OBVIOUS
<1>1. ASSUME NEW p \in Procs, NEW b \in Blocks, GetblkSleep(p, b) PROVE IndInv'
  BY <1>1, GetblkSleepInv
<1>2. ASSUME NEW p \in Procs, NEW b \in Blocks, GetblkMiss(p, b) PROVE IndInv'
  BY <1>2, GetblkMissInv
<1>3. ASSUME NEW p \in Procs, NEW b \in Blocks, NEW f \in Bufs, GetblkHit(p, b, f) PROVE IndInv'
  BY <1>3, GetblkHitInv
<1>4. ASSUME NEW p \in Procs, ReadSleep(p) PROVE IndInv'
  BY <1>4, ReadSleepInv
<1>5. ASSUME NEW p \in Procs, ReadReturn(p) PROVE IndInv'
  BY <1>5, ReadReturnInv
<1>6. ASSUME NEW p \in Procs, NEW f \in Bufs, Bwrite(p, f) PROVE IndInv'
  BY <1>6, BwriteInv
<1>7. ASSUME NEW p \in Procs, NEW f \in Bufs, MarkDirty(p, f) PROVE IndInv'
  BY <1>7, MarkDirtyInv
<1>8. ASSUME NEW p \in Procs, NEW f \in Bufs, Brelse(p, f) PROVE IndInv'
  BY <1>8, BrelseInv
<1>9. CASE ReadIntr
  BY <1>9, ReadIntrInv
<1>10. CASE WriteIntr
  BY <1>10, WriteIntrInv
<1>11. CASE UNCHANGED vars
  <2>1. UNCHANGED <<block_no, flags, ref_count, freelist, rdbuf, wrbuf, cmd, pc, wchan, want, reads, holds>>
    BY <1>11 DEF vars, bufs, drive, procs
  <2>2. TypeOK'
    BY <2>1 DEF IndInv, TypeOK
  <2> QED BY <2>1, <2>2, FlagsInv
<1> QED BY <1>1, <1>2, <1>3, <1>4, <1>5, <1>6, <1>7, <1>8, <1>9, <1>10, <1>11 DEF Next

(* The inductive invariant is one.                                          *)
THEOREM Invariance == Spec => []IndInv
BY InitInv, NextInv, PTL DEF Spec

(* getblk() never puts a block into two buffers, and the free list holds    *)
(* exactly the buffers without references, each once.                       *)
THEOREM CacheConsistency == Spec => []CacheConsistent
<1>1. IndInv => CacheConsistent
  BY DEF IndInv, CacheConsistent
<1> QED BY <1>1, Invariance, PTL

(* A busy buffer has one user, and whoever sleeps in getblk() sleeps on a   *)
(* buffer that is busy and marked as wanted, so that it is woken up.        *)
THEOREM Locking == Spec => []BuffersLocked
<1>1. IndInv => BuffersLocked
  BY DEF IndInv, BuffersLocked
<1> QED BY <1>1, Invariance, PTL

(* brelse() leaves no dirty buffer without a holder: none is reused.        *)
THEOREM NoDirtyLost == Spec => []DirtyIsHeld
<1>1. IndInv => DirtyIsHeld
  BY DEF IndInv
<1> QED BY <1>1, Invariance, PTL

(* ref_count is the number of processes that hold the buffer or wait for it *)
(* to be filled: brelse() never panics with "bad ref_count".                *)
THEOREM ReferencesCounted == Spec => []RefsCounted
<1>1. IndInv => RefsCounted
  BY DEF IndInv
<1> QED BY <1>1, Invariance, PTL
=============================================================================
