----------------------------- MODULE InodeProofs -----------------------------
(***************************************************************************)
(* Proof that the inode cache is sound: an inode is in one entry, a lock   *)
(* has one owner, a sleeper will be woken up, and i_refcount is exact but  *)
(* for the directory that each failed open() puts once too often; and that *)
(* the file system is: an entry that is not marked is on disk, i_nlinks    *)
(* counts the names, and a block has one owner.  For any number of         *)
(* processes, entries, inodes, blocks and names, with iput() asleep as it  *)
(* frees an inode, until iget() gives out an inode that is being freed or  *)
(* has been (raced), and while the directory has a reference.              *)
(***************************************************************************)
EXTENDS Inode, FiniteSetTheorems, FunctionTheorems, WellFoundedInduction, TLAPS

(* What Next says of a step, besides what the process does                  *)
Steady == DirReferenced /\ raced' \in BOOLEAN

InodeRec ==
    [ino : Inos \cup {0}, ref : Nat, flags : SUBSET {"I_LOCK", "I_WANTED", "I_DIRTY"},
     links : Nat, blk : Blocks \cup {0}]

Rets == {"user", "lockdir", "found", "putnext", "parent", "newinode", "unlinked"}
CallRec ==
    [op : {"none", "open", "creat", "file_creat", "unlink", "close"}, name : Names \cup {NoName},
     n : Inos \cup {0}, s : Slots \cup {NoSlot}, ret : Rets, b : Blocks \cup {0}, free : BOOLEAN]

CallsTyped == pc \in [Procs -> BusyPcs \cup SleepPcs] /\ call \in [Procs -> CallRec]

Freeing(p) == pc[p] \in {"trunc", "bfree", "upd_trunc", "ifree", "upd_free"} /\ call[p].free

(* Who is not in bread() or asleep has the CPU.                             *)
BusyOwned == \A p \in Procs : pc[p] \in BusyPcs => busy = p

(* The local variables of p, by where it is.                                *)
OpsOk(p) ==
    /\ pc[p] \in {"user", "rd", "wr", "io", "balloc"} => call[p] = NoCall
    /\ pc[p] \in {"rd", "wr", "io", "balloc"} => ofile[p] # NoSlot
    /\ call[p].op \in Opens => ofile[p] = NoSlot
    /\ call[p].op \in Opens \cup {"unlink"} => call[p].name \in Names
    /\ pc[p] \in {"lockdir", "readdir"} => call[p].op \in Opens \cup {"unlink"} /\ call[p].ret = "lockdir"
    /\ pc[p] \in {"iget", "load"} =>
         /\ call[p].ret = "lockdir" =>
              pc[p] = "iget" /\ call[p].op \in Opens \cup {"unlink"} /\ call[p].n = ROOT_INODE
         /\ call[p].ret = "found" => call[p].op \in {"open", "creat"}
         /\ call[p].ret = "putnext" => call[p].op \in {"unlink", "file_creat"}
         /\ call[p].ret = "newinode" => call[p].op = "file_creat"
         /\ call[p].ret = "unlinked" => call[p].op = "unlink"
         /\ call[p].ret \notin {"user", "parent"}
         /\ call[p].n \in Inos
         /\ call[p].ret # "lockdir" => call[p].n # ROOT_INODE
    /\ pc[p] = "file_creat" => call[p].op = "creat" /\ call[p].ret = "lockdir"
    /\ pc[p] = "found" => call[p].op \in {"open", "creat"} /\ call[p].ret = "found"
    /\ pc[p] = "putnext" => call[p].op \in {"unlink", "file_creat"} /\ call[p].ret = "putnext"
    /\ pc[p] = "parent" => call[p].op \in {"unlink", "file_creat"} /\ call[p].ret \in {"parent", "lockdir"}
    /\ pc[p] = "ialloc" => call[p].op = "file_creat" /\ call[p].ret \in {"parent", "lockdir"}
    /\ pc[p] \in {"newinode", "wdir"} => call[p].op = "file_creat" /\ call[p].ret = "newinode"
    /\ pc[p] \in {"unlink", "scan"} => call[p].op = "unlink" /\ call[p].ret \in {"parent", "lockdir"}
    /\ pc[p] \in {"unlinked", "upd_unlink"} => call[p].op = "unlink" /\ call[p].ret = "unlinked"
    /\ pc[p] = "access" => call[p].op \in Opens /\ call[p].ret \in {"found", "newinode"}
    /\ pc[p] \in {"iput", "ifree", "upd_free"} \/ Freeing(p) =>
         /\ call[p].ret \in {"user", "parent"}
         /\ call[p].ret = "parent" => call[p].op \in {"unlink", "file_creat"}
    /\ pc[p] \in {"trunc", "bfree", "upd_trunc"} /\ ~call[p].free =>
         call[p].op \in Opens /\ call[p].ret \in {"found", "newinode"}
    /\ call[p].free <=> Freeing(p)
    /\ pc[p] \in {"ifree", "upd_free"} => call[p].free

(* The inode it is at work on: one that was read, not the root, and not     *)
(* locked unless by p.  One that it frees has no reference, and nobody      *)
(* else frees it.                                                           *)
SlotsOk(p) ==
    /\ HoldsInode(p) \/ Freeing(p) =>
         /\ call[p].s \in Slots /\ inode[call[p].s].ino # 0
         /\ pc[p] # "iput" => call[p].s # RootSlot
    /\ Freeing(p) =>
         /\ inode[call[p].s].ref = 0
         /\ \A q \in Procs : q # p /\ Freeing(q) => call[q].s # call[p].s
    /\ pc[p] \in {"found", "putnext", "newinode", "unlinked", "access"} => ~Is(call[p].s, "I_LOCK")
    /\ pc[p] \in {"wdir", "upd_trunc", "upd_unlink", "ifree", "upd_free"} => call[p].n \in Inos
    /\ pc[p] \in {"newinode", "wdir", "ifree"} => call[p].n \in Inos \ {ROOT_INODE}
    /\ ofile[p] # RootSlot /\ (ofile[p] \in Slots => inode[ofile[p]].ino # 0)

(* The root directory stays where mount() put it.                           *)
RootKept ==
    /\ inode[RootSlot].ino = ROOT_INODE /\ inode[RootSlot].links > 0 /\ ROOT_INODE \in imap
    /\ \A e \in dir : e[2] # ROOT_INODE

IndInv ==
    /\ TypeOK /\ CallsTyped /\ BusyOwned
    /\ \A p \in Procs : OpsOk(p) /\ SlotsOk(p)
    /\ OneSlotPerInode /\ LocksOwned /\ SleepersMarked /\ RootKept
    /\ RefsCounted

-----------------------------------------------------------------------------
(* The lowest number in a set: what iget(), ialloc() and balloc() take.     *)
LEMMA Lowest == ASSUME NEW S \in SUBSET Nat, S # {} PROVE Min(S) \in S
<1> DEFINE Less == {ss \in Nat \X Nat : ss[1] < ss[2]}
<1>1. IsWellFoundedOn(Less, Nat)
  BY NatLessThanWellFounded DEF OpToRel
<1>2. \E x \in S : \A y \in S : ~(<<y, x>> \in Less)
  <2> HIDE DEF Less
  <2> QED BY <1>1, WFMin
<1>3. PICK x \in S : \A y \in S : ~(<<y, x>> \in Less)
  BY <1>2
<1>4. ASSUME NEW y \in S PROVE x =< y
  <2>1. x \in Nat /\ y \in Nat
    OBVIOUS
  <2>2. ~(y < x)
    BY <1>3, <2>1
  <2> QED BY <2>1, <2>2
<1> QED BY <1>4 DEF Min

(* Two sets of processes that differ by one at most.                        *)
LEMMA OneDiffers ==
    ASSUME NEW A \in SUBSET Procs, NEW B \in SUBSET Procs, NEW p \in Procs,
           \A q \in Procs : q # p => (q \in A <=> q \in B)
    PROVE  /\ Cardinality(A) \in Nat /\ Cardinality(B) \in Nat
           /\ Cardinality(B) = Cardinality(A) + (IF p \in B THEN 1 ELSE 0) - (IF p \in A THEN 1 ELSE 0)
<1>1. IsFiniteSet(A) /\ IsFiniteSet(B)
  BY FS_Subset, InodeAssumption
<1>2. Cardinality(A) \in Nat /\ Cardinality(B) \in Nat
  BY <1>1, FS_CardinalityType
<1>3. CASE p \in A <=> p \in B
  <2>1. A = B
    BY <1>3
  <2> QED BY <1>2, <2>1
<1>4. CASE p \in A /\ p \notin B
  <2>1. B = A \ {p}
    BY <1>4
  <2>2. Cardinality(A \ {p}) = Cardinality(A) - 1
    BY <1>1, <1>4, FS_RemoveElement
  <2> QED BY <1>2, <1>4, <2>1, <2>2
<1>5. CASE p \notin A /\ p \in B
  <2>1. B = A \cup {p}
    BY <1>5
  <2>2. Cardinality(A \cup {p}) = Cardinality(A) + 1
    BY <1>1, <1>5, FS_AddElement
  <2> QED BY <1>2, <1>5, <2>1, <2>2
<1> QED BY <1>3, <1>4, <1>5

(* The references of p to the inode in t: as the directory of a call, as    *)
(* the inode of a call, as an open file.                                    *)
DirRef(p, t) == IF t = RootSlot /\ HoldsDir(p) THEN 1 ELSE 0
CallRef(p, t) == IF HoldsInode(p) /\ call[p].s = t THEN 1 ELSE 0
FileRef(p, t) == IF ofile[p] = t THEN 1 ELSE 0

DirSet == {p \in Procs : HoldsDir(p)}
CallSet(t) == {p \in Procs : HoldsInode(p) /\ call[p].s = t}
FileSet(t) == {p \in Procs : ofile[p] = t}

(* References() is a sum of three cardinalities.                            *)
LEMMA ReferencesAre ==
    /\ \A t : References(t) = (IF t = RootSlot THEN 1 + Cardinality(Procs) + Cardinality(DirSet) ELSE 0)
                                + Cardinality(CallSet(t)) + Cardinality(FileSet(t))
    /\ Cardinality(Procs) \in Nat /\ Cardinality(DirSet) \in Nat
    /\ \A t : Cardinality(CallSet(t)) \in Nat /\ Cardinality(FileSet(t)) \in Nat
    /\ \A t : References(t) \in Nat
<1>1. \A t : References(t) = (IF t = RootSlot THEN 1 + Cardinality(Procs) + Cardinality(DirSet) ELSE 0)
                                + Cardinality(CallSet(t)) + Cardinality(FileSet(t))
  BY DEF References, DirSet, CallSet, FileSet
<1>2. /\ IsFiniteSet(Procs) /\ IsFiniteSet(DirSet)
      /\ \A t : IsFiniteSet(CallSet(t)) /\ IsFiniteSet(FileSet(t))
  BY InodeAssumption, FS_Subset DEF DirSet, CallSet, FileSet
<1>3. /\ Cardinality(Procs) \in Nat /\ Cardinality(DirSet) \in Nat
      /\ \A t : Cardinality(CallSet(t)) \in Nat /\ Cardinality(FileSet(t)) \in Nat
  BY <1>2, FS_CardinalityType
<1> QED BY <1>1, <1>3

(* A step of p changes the references of p only.                            *)
OthersCalls(p) ==
    \A q \in Procs : q # p => pc'[q] = pc[q] /\ call'[q] = call[q] /\ ofile'[q] = ofile[q]

(* What a step of p does to the sum.                                        *)
LEMMA ReferencesStep ==
    ASSUME NEW p \in Procs, OthersCalls(p), NEW t \in Slots
    PROVE  References(t)' = References(t) + DirRef(p, t)' - DirRef(p, t) + CallRef(p, t)' - CallRef(p, t)
                                          + FileRef(p, t)' - FileRef(p, t)
<1> DEFINE A == DirSet  A1 == DirSet'
           B == CallSet(t)  B1 == CallSet(t)'
           C == FileSet(t)  C1 == FileSet(t)'
<1>1. /\ A \in SUBSET Procs /\ A1 \in SUBSET Procs /\ B \in SUBSET Procs /\ B1 \in SUBSET Procs
      /\ C \in SUBSET Procs /\ C1 \in SUBSET Procs
  BY DEF DirSet, CallSet, FileSet
<1>2. \A q \in Procs : q # p => (q \in A <=> q \in A1)
  BY DEF OthersCalls, DirSet, HoldsDir, InIget
<1>3. \A q \in Procs : q # p => (q \in B <=> q \in B1)
  BY DEF OthersCalls, CallSet, HoldsInode
<1>4. \A q \in Procs : q # p => (q \in C <=> q \in C1)
  BY DEF OthersCalls, FileSet
<1>5. /\ p \in A <=> HoldsDir(p)
      /\ p \in A1 <=> HoldsDir(p)'
      /\ p \in B <=> HoldsInode(p) /\ call[p].s = t
      /\ p \in B1 <=> HoldsInode(p)' /\ call'[p].s = t
      /\ p \in C <=> ofile[p] = t
      /\ p \in C1 <=> ofile'[p] = t
  BY DEF DirSet, CallSet, FileSet
<1>6. References(t) = (IF t = RootSlot THEN 1 + Cardinality(Procs) + Cardinality(A) ELSE 0)
                        + Cardinality(B) + Cardinality(C)
  BY ReferencesAre
<1>7. References(t)' = (IF t = RootSlot THEN 1 + Cardinality(Procs) + Cardinality(A1) ELSE 0)
                        + Cardinality(B1) + Cardinality(C1)
  BY DEF References, DirSet, CallSet, FileSet
<1>8. Cardinality(Procs) \in Nat
  BY ReferencesAre
<1> HIDE DEF A, A1, B, B1, C, C1
<1>9. /\ Cardinality(A) \in Nat /\ Cardinality(A1) \in Nat
      /\ Cardinality(A1) = Cardinality(A) + (IF p \in A1 THEN 1 ELSE 0) - (IF p \in A THEN 1 ELSE 0)
  BY <1>1, <1>2, OneDiffers
<1>10. /\ Cardinality(B) \in Nat /\ Cardinality(B1) \in Nat
       /\ Cardinality(B1) = Cardinality(B) + (IF p \in B1 THEN 1 ELSE 0) - (IF p \in B THEN 1 ELSE 0)
  BY <1>1, <1>3, OneDiffers
<1>11. /\ Cardinality(C) \in Nat /\ Cardinality(C1) \in Nat
       /\ Cardinality(C1) = Cardinality(C) + (IF p \in C1 THEN 1 ELSE 0) - (IF p \in C THEN 1 ELSE 0)
  BY <1>1, <1>4, OneDiffers
<1>12. /\ DirRef(p, t) = IF t = RootSlot /\ p \in A THEN 1 ELSE 0
       /\ DirRef(p, t)' = IF t = RootSlot /\ p \in A1 THEN 1 ELSE 0
       /\ CallRef(p, t) = IF p \in B THEN 1 ELSE 0
       /\ CallRef(p, t)' = IF p \in B1 THEN 1 ELSE 0
       /\ FileRef(p, t) = IF p \in C THEN 1 ELSE 0
       /\ FileRef(p, t)' = IF p \in C1 THEN 1 ELSE 0
  BY <1>5 DEF DirRef, CallRef, FileRef
<1> QED BY <1>6, <1>7, <1>8, <1>9, <1>10, <1>11, <1>12

(* i_refcount after a step of p.                                            *)
LEMMA RefsStep ==
    ASSUME TypeOK, RefsCounted, NEW p \in Procs, OthersCalls(p), overput' \in Nat,
           \A t \in Slots :
              inode'[t].ref = inode[t].ref + DirRef(p, t)' - DirRef(p, t) + CallRef(p, t)' - CallRef(p, t)
                                + FileRef(p, t)' - FileRef(p, t)
                                - (IF t = RootSlot THEN overput' - overput ELSE 0)
    PROVE  RefsCounted'
<1>1. ASSUME NEW t \in Slots
      PROVE  inode'[t].ref = References(t)' - (IF t = RootSlot THEN overput' ELSE 0)
  <2>1. References(t) \in Nat /\ overput \in Nat
    BY ReferencesAre DEF TypeOK
  <2>2. inode[t].ref = References(t) - (IF t = RootSlot THEN overput ELSE 0)
    BY DEF RefsCounted
  <2>3. /\ DirRef(p, t) \in Int /\ DirRef(p, t)' \in Int /\ CallRef(p, t) \in Int /\ CallRef(p, t)' \in Int
        /\ FileRef(p, t) \in Int /\ FileRef(p, t)' \in Int
    BY DEF DirRef, CallRef, FileRef
  <2> QED BY <2>1, <2>2, <2>3, ReferencesStep
<1> QED BY <1>1 DEF RefsCounted

(* The directory has a reference.                                           *)
LEMMA RootReferenced == ASSUME Steady PROVE inode[RootSlot].ref > 0
BY DEF Steady, DirReferenced

(* So has an inode that a call or an open file uses.                        *)
LEMMA InUse ==
    ASSUME IndInv, NEW p \in Procs, NEW t \in Slots, t # RootSlot,
           (HoldsInode(p) /\ call[p].s = t) \/ ofile[p] = t
    PROVE  inode[t].ref > 0
<1>1. inode[t].ref = References(t)
  <2>1. inode[t].ref = References(t) - 0
    BY DEF IndInv, RefsCounted
  <2> QED BY <2>1, ReferencesAre
<1>2. References(t) = Cardinality(CallSet(t)) + Cardinality(FileSet(t))
  BY ReferencesAre
<1>3. IsFiniteSet(CallSet(t)) /\ IsFiniteSet(FileSet(t))
  BY InodeAssumption, FS_Subset DEF CallSet, FileSet
<1>4. p \in CallSet(t) \/ p \in FileSet(t)
  BY DEF CallSet, FileSet
<1>5. Cardinality(CallSet(t)) \in Nat /\ Cardinality(FileSet(t)) \in Nat
  BY ReferencesAre
<1>6. Cardinality(CallSet(t)) > 0 \/ Cardinality(FileSet(t)) > 0
  BY <1>3, <1>4, <1>5, FS_EmptySet
<1> QED BY <1>1, <1>2, <1>5, <1>6

-----------------------------------------------------------------------------
(* Entries of the cache.                                                    *)
LEMMA Typed == TypeOK => inode \in [Slots -> InodeRec] /\ \A s \in Slots : inode[s] \in InodeRec
BY DEF TypeOK, InodeRec

(* Writing to one entry leaves the others alone.                            *)
LEMMA SlotUpdated ==
    ASSUME TypeOK, NEW s \in Slots, NEW r \in InodeRec, inode' = [inode EXCEPT ![s] = r]
    PROVE  inode' \in [Slots -> InodeRec] /\ inode'[s] = r /\ \A t \in Slots : t # s => inode'[t] = inode[t]
<1>1. inode \in [Slots -> InodeRec]
  BY Typed
<1> QED BY <1>1

(* What the functions on an entry do to its fields.                         *)
LEMMA Fields ==
    ASSUME NEW r \in InodeRec
    PROVE  /\ Lock(r) \in InodeRec /\ Lock(r).ino = r.ino /\ Lock(r).ref = r.ref /\ Lock(r).links = r.links
           /\ Lock(r).flags = r.flags \cup {"I_LOCK"}
           /\ Unlock(r) \in InodeRec /\ Unlock(r).ino = r.ino /\ Unlock(r).ref = r.ref /\ Unlock(r).links = r.links
           /\ Unlock(r).flags = r.flags \ {"I_LOCK", "I_WANTED"}
           /\ Dirty(r) \in InodeRec /\ Dirty(r).ino = r.ino /\ Dirty(r).ref = r.ref /\ Dirty(r).links = r.links
           /\ Dirty(r).flags = r.flags \cup {"I_DIRTY"}
           /\ Clean(r) \in InodeRec /\ Clean(r).ino = r.ino /\ Clean(r).ref = r.ref /\ Clean(r).links = r.links
           /\ Clean(r).flags = r.flags \ {"I_DIRTY"}
           /\ Freed(r) \in InodeRec /\ Freed(r).ino = r.ino /\ Freed(r).ref = r.ref /\ Freed(r).links = r.links
           /\ Freed(r).flags = r.flags
           /\ r.ref > 0 => /\ Put(r) \in InodeRec /\ Put(r).ino = r.ino /\ Put(r).ref = r.ref - 1
                           /\ Put(r).links = r.links /\ Put(r).flags = r.flags
BY DEF InodeRec, Lock, Unlock, Dirty, Clean, Freed, Put

-----------------------------------------------------------------------------
(* The parts of the invariant that are about processes other than p, which  *)
(* is the one that runs.                                                    *)

(* None of the others is where only the process with the CPU can be.        *)
LEMMA OthersSleep ==
    ASSUME IndInv, NEW p \in Procs, Runs(p), NEW q \in Procs, q # p
    PROVE  pc[q] \in SleepPcs /\ ~(pc[q] \in BusyPcs)
<1>1. busy # q
  BY InodeAssumption DEF Runs
<1>2. pc[q] \notin BusyPcs
  BY <1>1 DEF IndInv, BusyOwned
<1>3. pc[q] \in BusyPcs \cup SleepPcs
  BY DEF IndInv, CallsTyped
<1> QED BY <1>2, <1>3

(* An entry that another process frees stays without references.            *)
FreedUnused(p) == \A q \in Procs : q # p /\ Freeing(q) => inode'[call[q].s].ref = 0

(* Their local variables are as before, and they need no more than that an  *)
(* entry which had an inode has one, and one that they free no reference.   *)
LEMMA OthersOk ==
    ASSUME IndInv, NEW p \in Procs, Runs(p), OthersCalls(p), FreedUnused(p), SlotsOk(p)',
           \A t \in Slots : inode[t].ino # 0 => inode'[t].ino # 0,
           NEW q \in Procs, q # p
    PROVE  OpsOk(q)' /\ SlotsOk(q)' /\ ~(pc'[q] \in BusyPcs)
<1>1. pc[q] \in SleepPcs /\ ~(pc[q] \in BusyPcs)
  BY OthersSleep
<1>2. pc'[q] = pc[q] /\ call'[q] = call[q] /\ ofile'[q] = ofile[q]
  BY DEF OthersCalls
<1>3. OpsOk(q) /\ SlotsOk(q)
  BY DEF IndInv
<1>4. OpsOk(q)'
  BY <1>2, <1>3 DEF OpsOk, Freeing
<1>5. (HoldsInode(q)' <=> HoldsInode(q)) /\ \A x \in Procs : x # p => (Freeing(x)' <=> Freeing(x))
  BY <1>2 DEF HoldsInode, Freeing, OthersCalls
<1>6. pc'[q] \notin {"found", "putnext", "newinode", "unlinked", "access"} /\ ~(pc'[q] \in BusyPcs)
  BY <1>1, <1>2 DEF SleepPcs, BusyPcs
<1>7. Freeing(q)' => /\ inode'[call'[q].s].ref = 0
                     /\ \A x \in Procs : x # q /\ Freeing(x)' => call'[x].s # call'[q].s
  <2> SUFFICES ASSUME Freeing(q)' PROVE /\ inode'[call'[q].s].ref = 0
                                        /\ \A x \in Procs : x # q /\ Freeing(x)' => call'[x].s # call'[q].s
    OBVIOUS
  <2>1. Freeing(q) /\ inode'[call'[q].s].ref = 0
    BY <1>2, <1>5 DEF FreedUnused
  <2>2. ASSUME NEW x \in Procs, x # q, Freeing(x)' PROVE call'[x].s # call'[q].s
    <3>1. CASE x = p
      BY <2>2, <3>1 DEF SlotsOk
    <3>2. CASE x # p
      <4>1. Freeing(x) /\ call'[x] = call[x]
        BY <1>5, <2>2, <3>2 DEF OthersCalls
      <4> QED BY <1>2, <1>3, <2>1, <2>2, <4>1 DEF SlotsOk
    <3> QED BY <3>1, <3>2
  <2> QED BY <2>1, <2>2
<1>8. SlotsOk(q)'
  <2>1. (HoldsInode(q)' \/ Freeing(q)') =>
          /\ call'[q].s \in Slots /\ inode'[call'[q].s].ino # 0
          /\ pc'[q] # "iput" => call'[q].s # RootSlot
    BY <1>2, <1>3, <1>5 DEF SlotsOk
  <2>2. ofile'[q] # RootSlot /\ (ofile'[q] \in Slots => inode'[ofile'[q]].ino # 0)
    BY <1>2, <1>3 DEF SlotsOk
  <2> QED BY <1>2, <1>3, <1>6, <1>7, <2>1, <2>2 DEF SlotsOk
<1> QED BY <1>4, <1>6, <1>8

(* Locks: p takes only what is free, gives up only what it has.             *)
LEMMA LocksStep ==
    ASSUME LocksOwned, NEW p \in Procs, OthersCalls(p),
           \A t \in Slots : Is(t, "I_LOCK")' <=> t \in Locks(p)' \/ (t \notin Locks(p) /\ Is(t, "I_LOCK")),
           \A t \in Locks(p)' : t \in Slots /\ (t \in Locks(p) \/ ~Is(t, "I_LOCK"))
    PROVE  LocksOwned'
<1>1. \A q \in Procs : q # p => Locks(q)' = Locks(q)
  BY DEF OthersCalls, Locks, InIget
<1>2. /\ \A q, r \in Procs : q # r => Locks(q) \cap Locks(r) = {}
      /\ {s \in Slots : Is(s, "I_LOCK")} = UNION {Locks(q) : q \in Procs}
  BY DEF LocksOwned
<1>3. \A t : t \in Slots /\ Is(t, "I_LOCK") <=> \E q \in Procs : t \in Locks(q)
  BY <1>2
<1>4. ASSUME NEW q \in Procs, NEW r \in Procs, q # r PROVE Locks(q)' \cap Locks(r)' = {}
  <2>1. ASSUME NEW x \in Procs, x # p, NEW t \in Locks(p)' PROVE t \notin Locks(x)
    BY <1>2, <1>3, <2>1
  <2>2. CASE q = p
    BY <1>1, <1>4, <2>1, <2>2
  <2>3. CASE r = p
    BY <1>1, <1>4, <2>1, <2>3
  <2>4. CASE q # p /\ r # p
    BY <1>1, <1>2, <1>4, <2>4
  <2> QED BY <2>2, <2>3, <2>4
<1>5. ASSUME NEW t PROVE t \in Slots /\ Is(t, "I_LOCK")' <=> \E q \in Procs : t \in Locks(q)'
  <2>1. CASE t \in Locks(p)'
    BY <2>1
  <2>2. CASE t \notin Locks(p)'
    <3>1. (\E q \in Procs : t \in Locks(q)') <=> (\E q \in Procs : q # p /\ t \in Locks(q))
      BY <1>1, <2>2
    <3>2. (\E q \in Procs : q # p /\ t \in Locks(q)) <=> t \notin Locks(p) /\ (\E q \in Procs : t \in Locks(q))
      BY <1>2
    <3> QED BY <1>3, <2>2, <3>1, <3>2
  <2> QED BY <2>1, <2>2
<1>6. {s \in Slots : Is(s, "I_LOCK")}' = UNION {Locks(q)' : q \in Procs}
  BY <1>5
<1> QED BY <1>4, <1>6 DEF LocksOwned

(* Sleepers: nobody's lock is taken away ...                                *)
LEMMA SleepersStay ==
    ASSUME SleepersMarked, UNCHANGED wchan, wchan \in [Procs -> Slots \cup {NoSlot}],
           \A t \in Slots : \A g \in {"I_LOCK", "I_WANTED"} : g \in inode[t].flags => g \in inode'[t].flags
    PROVE  SleepersMarked' /\ wchan' \in [Procs -> Slots \cup {NoSlot}]
BY DEF SleepersMarked

(* ... or whoever sleeps on the inode is woken up.                          *)
LEMMA SleepersWoken ==
    ASSUME SleepersMarked, wchan \in [Procs -> Slots \cup {NoSlot}],
           NEW s \in Slots, wchan' = Woken(s),
           \A t \in Slots : t # s =>
             \A g \in {"I_LOCK", "I_WANTED"} : g \in inode[t].flags => g \in inode'[t].flags
    PROVE  SleepersMarked' /\ wchan' \in [Procs -> Slots \cup {NoSlot}]
<1>1. /\ wchan' \in [Procs -> Slots \cup {NoSlot}]
      /\ \A q \in Procs : wchan'[q] # NoSlot => wchan'[q] = wchan[q] /\ wchan[q] # s
  <2>1. CASE Is(s, "I_WANTED")
    <3>1. wchan' = [q \in Procs |-> IF wchan[q] = s THEN NoSlot ELSE wchan[q]]
      BY <2>1 DEF Woken
    <3> QED BY <3>1
  <2>2. CASE ~Is(s, "I_WANTED")
    <3>1. wchan' = wchan
      BY <2>2 DEF Woken
    <3>2. s # NoSlot /\ \A q \in Procs : wchan[q] # s
      BY <2>2, InodeAssumption DEF SleepersMarked, Is, NoSlot, Slots
    <3> QED BY <3>1, <3>2
  <2> QED BY <2>1, <2>2
<1> QED BY <1>1 DEF SleepersMarked

-----------------------------------------------------------------------------
(* What a step of p leaves to be shown.                                     *)

(* The local variables of p after the step, and nobody else's.              *)
Moves(p, w, c, o) ==
    /\ w \in BusyPcs \cup SleepPcs /\ c \in CallRec /\ o \in Slots \cup {NoSlot}
    /\ pc' = [pc EXCEPT ![p] = w] /\ call' = [call EXCEPT ![p] = c] /\ ofile' = [ofile EXCEPT ![p] = o]

(* Then they are these.                                                     *)
LEMMA Moved ==
    ASSUME IndInv, NEW p \in Procs, NEW w, NEW c, NEW o, Moves(p, w, c, o)
    PROVE  /\ OthersCalls(p) /\ CallsTyped' /\ ofile' \in [Procs -> Slots \cup {NoSlot}]
           /\ pc'[p] = w /\ call'[p] = c /\ ofile'[p] = o
<1>1. pc \in [Procs -> BusyPcs \cup SleepPcs] /\ call \in [Procs -> CallRec] /\ ofile \in [Procs -> Slots \cup {NoSlot}]
  BY DEF IndInv, CallsTyped, TypeOK
<1> QED BY <1>1 DEF Moves, CallsTyped, OthersCalls

(* What is on disk.                                                         *)
DiskTyped ==
    /\ dinode \in [Inos -> [links : Nat, blk : Blocks \cup {0}]]
    /\ imap \subseteq Inos /\ zmap \subseteq Blocks /\ dir \subseteq Names \X Inos

(* Who has the CPU after the step.                                          *)
Yields(p) == busy' \in {p, NoProc} /\ (pc'[p] \in BusyPcs => busy' = p)

(* What p may do to the cache without moving an inode.                      *)
Stays ==
    /\ inode' \in [Slots -> InodeRec]
    /\ \A t \in Slots : inode'[t].ino = inode[t].ino
    /\ inode'[RootSlot].links = inode[RootSlot].links

(* The sums of RefsStep, for p, which gets no reference to an entry that    *)
(* another process frees.                                                   *)
RefSums(p) ==
    \A t \in Slots :
        inode'[t].ref = inode[t].ref + DirRef(p, t)' - DirRef(p, t) + CallRef(p, t)' - CallRef(p, t)
                          + FileRef(p, t)' - FileRef(p, t) - (IF t = RootSlot THEN overput' - overput ELSE 0)
RefsMoved(p) == RefSums(p) /\ FreedUnused(p)

(* The locks of LocksStep, for p.                                           *)
LocksMoved(p) ==
    /\ \A t \in Slots : Is(t, "I_LOCK")' <=> t \in Locks(p)' \/ (t \notin Locks(p) /\ Is(t, "I_LOCK"))
    /\ \A t \in Locks(p)' : t \in Slots /\ (t \in Locks(p) \/ ~Is(t, "I_LOCK"))

(* The invariant after a step of p.                                         *)
LEMMA StepInv ==
    ASSUME IndInv, Steady, NEW p \in Procs, Runs(p), NEW w, NEW c, NEW o, Moves(p, w, c, o), Yields(p),
           inode' \in [Slots -> InodeRec], \A t \in Slots : inode[t].ino # 0 => inode'[t].ino # 0,
           DiskTyped', wchan' \in [Procs -> Slots \cup {NoSlot}], SleepersMarked', UNCHANGED panic,
           OpsOk(p)', SlotsOk(p)', OneSlotPerInode', RootKept',
           RefsMoved(p), LocksMoved(p), overput' \in Nat
    PROVE  IndInv'
<1>1. OthersCalls(p) /\ CallsTyped' /\ ofile' \in [Procs -> Slots \cup {NoSlot}]
  BY Moved
<1>2. pc' \in [Procs -> BusyPcs \cup SleepPcs]
  BY <1>1 DEF CallsTyped
<1>3. TypeOK'
  BY <1>1, <1>2 DEF TypeOK, IndInv, DiskTyped, InodeRec, Yields, Steady
<1>4. ASSUME NEW q \in Procs, q # p PROVE OpsOk(q)' /\ SlotsOk(q)' /\ ~(pc'[q] \in BusyPcs)
  BY <1>1, <1>4, OthersOk DEF RefsMoved
<1>5. BusyOwned'
  BY <1>4 DEF BusyOwned, Yields
<1>6. \A q \in Procs : OpsOk(q)' /\ SlotsOk(q)'
  BY <1>4
<1>7. LocksOwned'
  <2>1. /\ \A t \in Slots : Is(t, "I_LOCK")' <=> t \in Locks(p)' \/ (t \notin Locks(p) /\ Is(t, "I_LOCK"))
        /\ \A t \in Locks(p)' : t \in Slots /\ (t \in Locks(p) \/ ~Is(t, "I_LOCK"))
    BY DEF LocksMoved
  <2>2. LocksOwned
    BY DEF IndInv
  <2> QED BY <1>1, <2>1, <2>2, LocksStep
<1>8. RefsCounted'
  <2>1. /\ TypeOK /\ RefsCounted /\ overput' \in Nat
        /\ \A t \in Slots :
              inode'[t].ref = inode[t].ref + DirRef(p, t)' - DirRef(p, t) + CallRef(p, t)' - CallRef(p, t)
                                + FileRef(p, t)' - FileRef(p, t)
                                - (IF t = RootSlot THEN overput' - overput ELSE 0)
    BY DEF RefsMoved, RefSums, IndInv
  <2> QED BY <1>1, <2>1, RefsStep
<1> QED BY <1>1, <1>3, <1>5, <1>6, <1>7, <1>8 DEF IndInv

(* The invariant after a step of p that moves no inode.                     *)
LEMMA QuietStep ==
    ASSUME IndInv, Steady, NEW p \in Procs, Runs(p), NEW w, NEW c, NEW o, Moves(p, w, c, o), Yields(p), Stays,
           DiskTyped', ROOT_INODE \in imap', \A e \in dir' : e[2] # ROOT_INODE,
           wchan' \in [Procs -> Slots \cup {NoSlot}], SleepersMarked', UNCHANGED panic,
           OpsOk(p)', SlotsOk(p)', RefsMoved(p), LocksMoved(p), overput' \in Nat
    PROVE  IndInv'
<1>1. inode' \in [Slots -> InodeRec] /\ \A t \in Slots : inode[t].ino # 0 => inode'[t].ino # 0
  BY DEF Stays
<1>2. OneSlotPerInode'
  BY DEF Stays, IndInv, OneSlotPerInode
<1>3. RootKept'
  <2>1. RootSlot \in Slots
    BY InodeAssumption DEF RootSlot, Slots
  <2> QED BY <2>1 DEF Stays, IndInv, RootKept
<1> QED BY <1>1, <1>2, <1>3, StepInv

(* Writing to one entry moves no inode.                                     *)
LEMMA SlotStays ==
    ASSUME TypeOK, NEW s \in Slots, NEW r \in InodeRec, inode' = [inode EXCEPT ![s] = r],
           r.ino = inode[s].ino, s = RootSlot => r.links = inode[s].links
    PROVE  Stays
<1>1. inode' \in [Slots -> InodeRec] /\ inode'[s] = r /\ \A t \in Slots : t # s => inode'[t] = inode[t]
  BY SlotUpdated
<1>2. RootSlot \in Slots
  BY InodeAssumption DEF RootSlot, Slots
<1> QED BY <1>1, <1>2 DEF Stays

(* The invariant as it is used for a step of p.                             *)
LEMMA Given ==
    ASSUME IndInv, NEW p \in Procs
    PROVE  /\ TypeOK /\ OpsOk(p) /\ SlotsOk(p) /\ SleepersMarked /\ DiskTyped /\ overput \in Nat /\ LocksOwned /\ RootKept
           /\ call[p] \in CallRec /\ ofile[p] \in Slots \cup {NoSlot} /\ wchan \in [Procs -> Slots \cup {NoSlot}]
           /\ pc[p] \in BusyPcs \cup SleepPcs
           /\ inode \in [Slots -> InodeRec] /\ \A s \in Slots : inode[s] \in InodeRec
           /\ RootSlot \in Slots /\ NoSlot \notin Slots /\ p # NoProc
           /\ call = [call EXCEPT ![p] = call[p]] /\ ofile = [ofile EXCEPT ![p] = ofile[p]]
           /\ \A t \in Locks(p) : t \in Slots /\ Is(t, "I_LOCK")
<1>1. TypeOK /\ OpsOk(p) /\ SlotsOk(p) /\ SleepersMarked /\ LocksOwned /\ CallsTyped /\ RootKept
  BY DEF IndInv
<1>2. RootSlot \in Slots /\ NoSlot \notin Slots /\ p # NoProc
  BY InodeAssumption DEF RootSlot, NoSlot, Slots
<1>3. \A t \in Locks(p) : t \in Slots /\ Is(t, "I_LOCK")
  BY <1>1 DEF LocksOwned
<1> QED BY <1>1, <1>2, <1>3, Typed DEF TypeOK, CallsTyped, DiskTyped

(* What iput() frees.                                                       *)
LEMMA FreedSlots ==
    ASSUME IndInv, NEW q \in Procs, Freeing(q)
    PROVE  call[q].s \in Slots /\ call[q].s # RootSlot /\ inode[call[q].s].ref = 0
<1>1. SlotsOk(q) /\ pc[q] # "iput"
  BY DEF IndInv, Freeing
<1> QED BY <1>1 DEF SlotsOk

(* Nobody else frees what p had, or freed.                                  *)
LEMMA FreesAlone ==
    ASSUME IndInv, NEW p \in Procs, OthersCalls(p), NEW t, inode[t].ref # 0 \/ (Freeing(p) /\ call[p].s = t)
    PROVE  \A q \in Procs : q # p /\ Freeing(q)' => call'[q].s # t
<1> SUFFICES ASSUME NEW q \in Procs, q # p, Freeing(q)', call'[q].s = t PROVE FALSE
  OBVIOUS
<1>1. Freeing(q) /\ call[q].s = t
  BY DEF OthersCalls, Freeing
<1>2. inode[t].ref = 0
  BY <1>1, FreedSlots
<1> QED BY <1>1, <1>2 DEF IndInv, SlotsOk

(* References that a step of p does not change.                             *)
LEMMA RefsSame ==
    ASSUME IndInv, NEW p \in Procs, overput' = overput,
           \A t \in Slots : inode'[t].ref = inode[t].ref, ofile'[p] = ofile[p],
           HoldsDir(p)' <=> HoldsDir(p), HoldsInode(p)' <=> HoldsInode(p), HoldsInode(p) => call'[p].s = call[p].s
    PROVE  RefsMoved(p)
<1>1. overput \in Nat /\ \A t \in Slots : inode[t].ref \in Nat
  BY Typed DEF IndInv, TypeOK, InodeRec
<1>2. \A t : DirRef(p, t)' = DirRef(p, t) /\ CallRef(p, t)' = CallRef(p, t) /\ FileRef(p, t)' = FileRef(p, t)
  BY DEF DirRef, CallRef, FileRef
<1>3. \A t : DirRef(p, t) \in Nat /\ CallRef(p, t) \in Nat /\ FileRef(p, t) \in Nat
  BY DEF DirRef, CallRef, FileRef
<1>4. FreedUnused(p)
  BY FreedSlots DEF FreedUnused
<1> QED BY <1>1, <1>2, <1>3, <1>4 DEF RefsMoved, RefSums

(* p puts the directory, ...                                                *)
LEMMA RefsPutRoot ==
    ASSUME IndInv, NEW p \in Procs, overput' = overput, \A t \in Slots : inode'[t].ref = IF t = RootSlot THEN inode[t].ref - 1 ELSE inode[t].ref,
           ofile'[p] = ofile[p], HoldsDir(p), ~HoldsDir(p)', HoldsInode(p)' <=> HoldsInode(p), HoldsInode(p) => call'[p].s = call[p].s
    PROVE  RefsMoved(p)
<1>1. overput \in Nat /\ \A t \in Slots : inode[t].ref \in Nat
  BY Typed DEF IndInv, TypeOK, InodeRec
<1>2. ASSUME NEW t \in Slots
      PROVE  inode'[t].ref = inode[t].ref + DirRef(p, t)' - DirRef(p, t) + CallRef(p, t)' - CallRef(p, t)
                          + FileRef(p, t)' - FileRef(p, t) - (IF t = RootSlot THEN overput' - overput ELSE 0)
  <2>1. DirRef(p, t)' = 0 /\ DirRef(p, t) = (IF t = RootSlot THEN 1 ELSE 0)
    BY DEF DirRef
  <2>2. CallRef(p, t)' = CallRef(p, t) /\ CallRef(p, t) \in Nat
    BY DEF CallRef
  <2>3. FileRef(p, t)' = FileRef(p, t) /\ FileRef(p, t) \in Nat
    BY DEF FileRef
  <2>4. inode'[t].ref = (IF t = RootSlot THEN inode[t].ref - 1 ELSE inode[t].ref) /\ overput' = overput
    OBVIOUS
  <2> QED BY <1>1, <2>1, <2>2, <2>3, <2>4
<1>4. FreedUnused(p)
  BY FreedSlots DEF FreedUnused
<1> QED BY <1>2, <1>4 DEF RefsMoved, RefSums

(* ... and is about to put it again, ...                                    *)
LEMMA RefsOverput ==
    ASSUME IndInv, NEW p \in Procs, overput' = overput + 1, \A t \in Slots : inode'[t].ref = IF t = RootSlot THEN inode[t].ref - 1 ELSE inode[t].ref,
           ofile'[p] = ofile[p], HoldsDir(p), ~HoldsDir(p)', ~HoldsInode(p), HoldsInode(p)', call'[p].s = RootSlot
    PROVE  RefsMoved(p)
<1>1. overput \in Nat /\ \A t \in Slots : inode[t].ref \in Nat
  BY Typed DEF IndInv, TypeOK, InodeRec
<1>2. ASSUME NEW t \in Slots
      PROVE  inode'[t].ref = inode[t].ref + DirRef(p, t)' - DirRef(p, t) + CallRef(p, t)' - CallRef(p, t)
                          + FileRef(p, t)' - FileRef(p, t) - (IF t = RootSlot THEN overput' - overput ELSE 0)
  <2>1. DirRef(p, t)' = 0 /\ DirRef(p, t) = (IF t = RootSlot THEN 1 ELSE 0)
    BY DEF DirRef
  <2>2. CallRef(p, t)' = (IF t = RootSlot THEN 1 ELSE 0) /\ CallRef(p, t) = 0
    BY DEF CallRef
  <2>3. FileRef(p, t)' = FileRef(p, t) /\ FileRef(p, t) \in Nat
    BY DEF FileRef
  <2>4. inode'[t].ref = (IF t = RootSlot THEN inode[t].ref - 1 ELSE inode[t].ref) /\ overput' = overput + 1
    OBVIOUS
  <2> QED BY <1>1, <2>1, <2>2, <2>3, <2>4
<1>4. FreedUnused(p)
  BY FreedSlots DEF FreedUnused
<1> QED BY <1>2, <1>4 DEF RefsMoved, RefSums

(* ... or gets it, ...                                                      *)
LEMMA RefsGetRoot ==
    ASSUME IndInv, NEW p \in Procs, overput' = overput, \A t \in Slots : inode'[t].ref = IF t = RootSlot THEN inode[t].ref + 1 ELSE inode[t].ref,
           ofile'[p] = ofile[p], ~HoldsDir(p), HoldsDir(p)', HoldsInode(p)' <=> HoldsInode(p), HoldsInode(p) => call'[p].s = call[p].s
    PROVE  RefsMoved(p)
<1>1. overput \in Nat /\ \A t \in Slots : inode[t].ref \in Nat
  BY Typed DEF IndInv, TypeOK, InodeRec
<1>2. ASSUME NEW t \in Slots
      PROVE  inode'[t].ref = inode[t].ref + DirRef(p, t)' - DirRef(p, t) + CallRef(p, t)' - CallRef(p, t)
                          + FileRef(p, t)' - FileRef(p, t) - (IF t = RootSlot THEN overput' - overput ELSE 0)
  <2>1. DirRef(p, t)' = (IF t = RootSlot THEN 1 ELSE 0) /\ DirRef(p, t) = 0
    BY DEF DirRef
  <2>2. CallRef(p, t)' = CallRef(p, t) /\ CallRef(p, t) \in Nat
    BY DEF CallRef
  <2>3. FileRef(p, t)' = FileRef(p, t) /\ FileRef(p, t) \in Nat
    BY DEF FileRef
  <2>4. inode'[t].ref = (IF t = RootSlot THEN inode[t].ref + 1 ELSE inode[t].ref) /\ overput' = overput
    OBVIOUS
  <2> QED BY <1>1, <2>1, <2>2, <2>3, <2>4
<1>4. FreedUnused(p)
  BY FreedSlots DEF FreedUnused
<1> QED BY <1>2, <1>4 DEF RefsMoved, RefSums

(* ... puts the inode of its call, ...                                      *)
LEMMA RefsPutInode ==
    ASSUME IndInv, NEW p \in Procs, overput' = overput, NEW s, \A t \in Slots : inode'[t].ref = IF t = s THEN inode[t].ref - 1 ELSE inode[t].ref,
           ofile'[p] = ofile[p], HoldsDir(p)' <=> HoldsDir(p), HoldsInode(p), ~HoldsInode(p)', call[p].s = s
    PROVE  RefsMoved(p)
<1>1. overput \in Nat /\ \A t \in Slots : inode[t].ref \in Nat
  BY Typed DEF IndInv, TypeOK, InodeRec
<1>2. ASSUME NEW t \in Slots
      PROVE  inode'[t].ref = inode[t].ref + DirRef(p, t)' - DirRef(p, t) + CallRef(p, t)' - CallRef(p, t)
                          + FileRef(p, t)' - FileRef(p, t) - (IF t = RootSlot THEN overput' - overput ELSE 0)
  <2>1. DirRef(p, t)' = DirRef(p, t) /\ DirRef(p, t) \in Nat
    BY DEF DirRef
  <2>2. CallRef(p, t)' = 0 /\ CallRef(p, t) = (IF t = s THEN 1 ELSE 0)
    BY DEF CallRef
  <2>3. FileRef(p, t)' = FileRef(p, t) /\ FileRef(p, t) \in Nat
    BY DEF FileRef
  <2>4. inode'[t].ref = (IF t = s THEN inode[t].ref - 1 ELSE inode[t].ref) /\ overput' = overput
    OBVIOUS
  <2> QED BY <1>1, <2>1, <2>2, <2>3, <2>4
<1>4. FreedUnused(p)
  <2>1. ASSUME NEW q \in Procs, q # p, Freeing(q) PROVE call[q].s # s
    <3>1. CASE s \in Slots /\ s # RootSlot
      BY <2>1, <3>1, InUse, FreedSlots
    <3> QED BY <2>1, <3>1, FreedSlots
  <2> QED BY <2>1, FreedSlots DEF FreedUnused
<1> QED BY <1>2, <1>4 DEF RefsMoved, RefSums

(* ... gets it, ...                                                         *)
LEMMA RefsGetInode ==
    ASSUME IndInv, NEW p \in Procs, overput' = overput, NEW s, \A t \in Slots : inode'[t].ref = IF t = s THEN inode[t].ref + 1 ELSE inode[t].ref,
           ofile'[p] = ofile[p], HoldsDir(p)' <=> HoldsDir(p), ~HoldsInode(p), HoldsInode(p)', call'[p].s = s,
           \A q \in Procs : Freeing(q) => call[q].s # s
    PROVE  RefsMoved(p)
<1>1. overput \in Nat /\ \A t \in Slots : inode[t].ref \in Nat
  BY Typed DEF IndInv, TypeOK, InodeRec
<1>2. ASSUME NEW t \in Slots
      PROVE  inode'[t].ref = inode[t].ref + DirRef(p, t)' - DirRef(p, t) + CallRef(p, t)' - CallRef(p, t)
                          + FileRef(p, t)' - FileRef(p, t) - (IF t = RootSlot THEN overput' - overput ELSE 0)
  <2>1. DirRef(p, t)' = DirRef(p, t) /\ DirRef(p, t) \in Nat
    BY DEF DirRef
  <2>2. CallRef(p, t)' = (IF t = s THEN 1 ELSE 0) /\ CallRef(p, t) = 0
    BY DEF CallRef
  <2>3. FileRef(p, t)' = FileRef(p, t) /\ FileRef(p, t) \in Nat
    BY DEF FileRef
  <2>4. inode'[t].ref = (IF t = s THEN inode[t].ref + 1 ELSE inode[t].ref) /\ overput' = overput
    OBVIOUS
  <2> QED BY <1>1, <2>1, <2>2, <2>3, <2>4
<1>4. FreedUnused(p)
  BY FreedSlots DEF FreedUnused
<1> QED BY <1>2, <1>4 DEF RefsMoved, RefSums

(* ... keeps it as an open file, ...                                        *)
LEMMA RefsToFile ==
    ASSUME IndInv, NEW p \in Procs, overput' = overput, \A t \in Slots : inode'[t].ref = inode[t].ref, NEW s,
           ofile[p] = NoSlot, ofile'[p] = s, HoldsDir(p)' <=> HoldsDir(p), HoldsInode(p), ~HoldsInode(p)', call[p].s = s
    PROVE  RefsMoved(p)
<1>1. overput \in Nat /\ \A t \in Slots : inode[t].ref \in Nat
  BY Typed DEF IndInv, TypeOK, InodeRec
<1>2. ASSUME NEW t \in Slots
      PROVE  inode'[t].ref = inode[t].ref + DirRef(p, t)' - DirRef(p, t) + CallRef(p, t)' - CallRef(p, t)
                          + FileRef(p, t)' - FileRef(p, t) - (IF t = RootSlot THEN overput' - overput ELSE 0)
  <2>1. DirRef(p, t)' = DirRef(p, t) /\ DirRef(p, t) \in Nat
    BY DEF DirRef
  <2>2. CallRef(p, t)' = 0 /\ CallRef(p, t) = (IF t = s THEN 1 ELSE 0)
    BY DEF CallRef
  <2>3. FileRef(p, t)' = (IF t = s THEN 1 ELSE 0) /\ FileRef(p, t) = 0
    BY InodeAssumption DEF FileRef, NoSlot, Slots
  <2>4. inode'[t].ref = inode[t].ref /\ overput' = overput
    OBVIOUS
  <2> QED BY <1>1, <2>1, <2>2, <2>3, <2>4
<1>4. FreedUnused(p)
  BY FreedSlots DEF FreedUnused
<1> QED BY <1>2, <1>4 DEF RefsMoved, RefSums

(* ... or closes that.                                                      *)
LEMMA RefsFromFile ==
    ASSUME IndInv, NEW p \in Procs, overput' = overput, \A t \in Slots : inode'[t].ref = inode[t].ref, NEW s,
           ofile[p] = s, ofile'[p] = NoSlot, HoldsDir(p)' <=> HoldsDir(p), ~HoldsInode(p), HoldsInode(p)', call'[p].s = s
    PROVE  RefsMoved(p)
<1>1. overput \in Nat /\ \A t \in Slots : inode[t].ref \in Nat
  BY Typed DEF IndInv, TypeOK, InodeRec
<1>2. ASSUME NEW t \in Slots
      PROVE  inode'[t].ref = inode[t].ref + DirRef(p, t)' - DirRef(p, t) + CallRef(p, t)' - CallRef(p, t)
                          + FileRef(p, t)' - FileRef(p, t) - (IF t = RootSlot THEN overput' - overput ELSE 0)
  <2>1. DirRef(p, t)' = DirRef(p, t) /\ DirRef(p, t) \in Nat
    BY DEF DirRef
  <2>2. CallRef(p, t)' = (IF t = s THEN 1 ELSE 0) /\ CallRef(p, t) = 0
    BY DEF CallRef
  <2>3. FileRef(p, t)' = 0 /\ FileRef(p, t) = (IF t = s THEN 1 ELSE 0)
    BY InodeAssumption DEF FileRef, NoSlot, Slots
  <2>4. inode'[t].ref = inode[t].ref /\ overput' = overput
    OBVIOUS
  <2> QED BY <1>1, <2>1, <2>2, <2>3, <2>4
<1>4. FreedUnused(p)
  BY FreedSlots DEF FreedUnused
<1> QED BY <1>2, <1>4 DEF RefsMoved, RefSums

(* The invariant after a step of p on the inode in s, to which it neither   *)
(* gets nor gives up a reference.                                           *)
LEMMA WorkStep ==
    ASSUME IndInv, Steady, NEW p \in Procs, Runs(p), NEW w, NEW c, Moves(p, w, c, ofile[p]), Yields(p),
           NEW s \in Slots, NEW r \in InodeRec, inode' = [inode EXCEPT ![s] = r],
           r.ino = inode[s].ino, r.ref = inode[s].ref, s = RootSlot => r.links = inode[s].links,
           DiskTyped', ROOT_INODE \in imap', dir' \subseteq dir,
           wchan' \in [Procs -> Slots \cup {NoSlot}], SleepersMarked', UNCHANGED <<overput, panic>>,
           OpsOk(p)', SlotsOk(p)', LocksMoved(p),
           HoldsDir(p)' <=> HoldsDir(p), HoldsInode(p)' <=> HoldsInode(p), HoldsInode(p) => c.s = call[p].s
    PROVE  IndInv'
<1>1. OthersCalls(p) /\ call'[p] = c /\ ofile'[p] = ofile[p]
  BY Moved
<1>2. TypeOK /\ RootKept
  BY DEF IndInv
<1>3. \A t \in Slots : inode'[t].ref = inode[t].ref
  BY <1>2, SlotUpdated
<1>4. RefsMoved(p)
  BY <1>1, <1>2, <1>3, RefsSame
<1>5. overput' \in Nat
  BY <1>2 DEF TypeOK
<1>6. Stays
  BY <1>2, SlotStays
<1>7. \A e \in dir' : e[2] # ROOT_INODE
  BY <1>2 DEF RootKept
<1> QED BY <1>4, <1>5, <1>6, <1>7, QuietStep

(* What may be written to the local variables.                              *)
LEMMA CallFields ==
    ASSUME NEW d \in CallRec
    PROVE  /\ \A n \in Inos \cup {0} : [d EXCEPT !.n = n] \in CallRec
           /\ \A e \in Rets : [d EXCEPT !.ret = e] \in CallRec
           /\ \A t \in Slots \cup {NoSlot} : [d EXCEPT !.s = t] \in CallRec
           /\ \A b \in Blocks \cup {0} : [d EXCEPT !.b = b] \in CallRec
           /\ \A f \in BOOLEAN : [d EXCEPT !.free = f] \in CallRec
           /\ \A n \in Inos \cup {0}, e \in Rets : [d EXCEPT !.n = n, !.ret = e] \in CallRec
           /\ \A t \in Slots \cup {NoSlot}, e \in Rets : [d EXCEPT !.s = t, !.ret = e] \in CallRec
           /\ \A n \in Inos \cup {0}, t \in Slots \cup {NoSlot}, e \in Rets :
                [d EXCEPT !.n = n, !.s = t, !.ret = e] \in CallRec
           /\ [d EXCEPT !.op = "file_creat"] \in CallRec
BY DEF CallRec

(* Writing to the contents of an entry leaves its number, its references    *)
(* and its flags alone: the number of its block, ...                        *)
LEMMA BlockContents ==
    ASSUME NEW r \in InodeRec, NEW b \in Blocks \cup {0}, NEW x, x = [r EXCEPT !.blk = b]
    PROVE  x \in InodeRec /\ x.ino = r.ino /\ x.ref = r.ref /\ x.flags = r.flags /\ x.links = r.links
BY DEF InodeRec

(* ... and the number of its links.                                         *)
LEMMA LinksContents ==
    ASSUME NEW r \in InodeRec, NEW l \in Nat, NEW x, x = [r EXCEPT !.links = l]
    PROVE  x \in InodeRec /\ x.ino = r.ino /\ x.ref = r.ref /\ x.flags = r.flags /\ x.links = l
BY DEF InodeRec

-----------------------------------------------------------------------------
(* Steps that change no reference.                                          *)

(* namei() locks the directory and reads it.                                *)
LEMMA LockDirInv == ASSUME IndInv, Steady, NEW p \in Procs, LockDir(p) PROVE IndInv'
<1> USE Given
<1> DEFINE s == RootSlot  w == "readdir"  c == call[p]
           r == Lock(inode[s])
<1>1. Runs(p) /\ pc[p] = "lockdir" /\ ~Is(RootSlot, "I_LOCK")
  BY DEF LockDir, At, Panics
<1>2. s \in Slots /\ c \in CallRec
  BY <1>1 DEF OpsOk, SlotsOk, HoldsInode, Freeing, CallRec, Opens
<1>3. /\ Moves(p, w, c, ofile[p]) /\ busy' = NoProc /\ UNCHANGED <<disk, wchan, overput, panic>>
      /\ inode' = [inode EXCEPT ![s] = r]
  BY <1>1, <1>2 DEF LockDir, Bread, Moves, BusyPcs, SleepPcs, OpsOk, Freeing, disk
<1>4. /\ r \in InodeRec /\ r.ino = inode[s].ino /\ r.ref = inode[s].ref /\ (s = RootSlot => r.links = inode[s].links)
      /\ r.flags = inode[s].flags \cup {"I_LOCK"}
  BY <1>1, <1>2, Fields
<1> HIDE DEF s, w, c, r
<1>5. OthersCalls(p) /\ pc'[p] = w /\ call'[p] = c /\ ofile'[p] = ofile[p]
  BY <1>3, Moved
<1>6. inode'[s] = r /\ \A t \in Slots : t # s => inode'[t] = inode[t]
  BY <1>2, <1>3, <1>4, SlotUpdated
<1>7. OpsOk(p)' /\ Yields(p)
  BY <1>1, <1>3, <1>5 DEF OpsOk, Opens, Freeing, Yields, BusyPcs, w, c
<1>8. SlotsOk(p)'
  BY <1>1, <1>2, <1>4, <1>5, <1>6 DEF SlotsOk, HoldsInode, Freeing, OpsOk, Is, w, c, s
<1>9. LocksMoved(p)
  <2>1. Locks(p) = {} /\ Locks(p)' = {s}
    BY <1>1, <1>5 DEF Locks, InIget, OpsOk, w, c, s
  <2> QED BY <1>1, <1>2, <1>4, <1>6, <2>1 DEF LocksMoved, Is, s
<1>10. /\ HoldsDir(p)' <=> HoldsDir(p)
       /\ HoldsInode(p)' <=> HoldsInode(p)
       /\ HoldsInode(p) => c.s = call[p].s
  BY <1>1, <1>5 DEF HoldsDir, HoldsInode, InIget, OpsOk, Freeing, w, c, Opens
<1>11. SleepersMarked' /\ wchan' \in [Procs -> Slots \cup {NoSlot}]
  BY <1>2, <1>3, <1>4, <1>6, SleepersStay
<1>12. DiskTyped' /\ ROOT_INODE \in imap' /\ dir' \subseteq dir
  BY <1>3 DEF DiskTyped, RootKept, disk
<1> QED BY <1>1, <1>2, <1>3, <1>4, <1>7, <1>8, <1>9, <1>10, <1>11, <1>12, WorkStep


(* sys_unlink() locks the directory and reads it.                           *)
LEMMA UnlinkLockInv == ASSUME IndInv, Steady, NEW p \in Procs, UnlinkLock(p) PROVE IndInv'
<1> USE Given
<1> DEFINE s == RootSlot  w == "scan"  c == call[p]
           r == Lock(inode[s])
<1>1. Runs(p) /\ pc[p] = "unlink" /\ ~Is(RootSlot, "I_LOCK")
  BY DEF UnlinkLock, At, Panics
<1>2. s \in Slots /\ c \in CallRec
  BY <1>1 DEF OpsOk, SlotsOk, HoldsInode, Freeing, CallRec, Opens
<1>3. /\ Moves(p, w, c, ofile[p]) /\ busy' = NoProc /\ UNCHANGED <<disk, wchan, overput, panic>>
      /\ inode' = [inode EXCEPT ![s] = r]
  BY <1>1, <1>2 DEF UnlinkLock, Bread, Moves, BusyPcs, SleepPcs, OpsOk, Freeing, disk
<1>4. /\ r \in InodeRec /\ r.ino = inode[s].ino /\ r.ref = inode[s].ref /\ (s = RootSlot => r.links = inode[s].links)
      /\ r.flags = inode[s].flags \cup {"I_LOCK"}
  BY <1>1, <1>2, Fields
<1> HIDE DEF s, w, c, r
<1>5. OthersCalls(p) /\ pc'[p] = w /\ call'[p] = c /\ ofile'[p] = ofile[p]
  BY <1>3, Moved
<1>6. inode'[s] = r /\ \A t \in Slots : t # s => inode'[t] = inode[t]
  BY <1>2, <1>3, <1>4, SlotUpdated
<1>7. OpsOk(p)' /\ Yields(p)
  BY <1>1, <1>3, <1>5 DEF OpsOk, Opens, Freeing, Yields, BusyPcs, w, c
<1>8. SlotsOk(p)'
  BY <1>1, <1>2, <1>4, <1>5, <1>6 DEF SlotsOk, HoldsInode, Freeing, OpsOk, Is, w, c, s
<1>9. LocksMoved(p)
  <2>1. Locks(p) = {} /\ Locks(p)' = {s}
    BY <1>1, <1>5 DEF Locks, InIget, OpsOk, w, c, s
  <2> QED BY <1>1, <1>2, <1>4, <1>6, <2>1 DEF LocksMoved, Is, s
<1>10. /\ HoldsDir(p)' <=> HoldsDir(p)
       /\ HoldsInode(p)' <=> HoldsInode(p)
       /\ HoldsInode(p) => c.s = call[p].s
  BY <1>1, <1>5 DEF HoldsDir, HoldsInode, InIget, OpsOk, Freeing, w, c, Opens
<1>11. SleepersMarked' /\ wchan' \in [Procs -> Slots \cup {NoSlot}]
  BY <1>2, <1>3, <1>4, <1>6, SleepersStay
<1>12. DiskTyped' /\ ROOT_INODE \in imap' /\ dir' \subseteq dir
  BY <1>3 DEF DiskTyped, RootKept, disk
<1> QED BY <1>1, <1>2, <1>3, <1>4, <1>7, <1>8, <1>9, <1>10, <1>11, <1>12, WorkStep


(* file_read() locks the inode and reads a block.                           *)
LEMMA LockReadInv == ASSUME IndInv, Steady, NEW p \in Procs, LockRead(p) PROVE IndInv'
<1> USE Given
<1> DEFINE s == ofile[p]  w == "io"  c == call[p]
           r == Lock(inode[s])
<1>1. Runs(p) /\ pc[p] = "rd" /\ ~Is(ofile[p], "I_LOCK")
  BY DEF LockRead, At, Panics
<1>2. s \in Slots /\ c \in CallRec
  BY <1>1 DEF OpsOk, SlotsOk, HoldsInode, Freeing, CallRec, Opens
<1>3. /\ Moves(p, w, c, ofile[p]) /\ busy' = NoProc /\ UNCHANGED <<disk, wchan, overput, panic>>
      /\ inode' = [inode EXCEPT ![s] = r]
  BY <1>1, <1>2 DEF LockRead, Bread, Moves, BusyPcs, SleepPcs, OpsOk, Freeing, disk
<1>4. /\ r \in InodeRec /\ r.ino = inode[s].ino /\ r.ref = inode[s].ref /\ (s = RootSlot => r.links = inode[s].links)
      /\ r.flags = inode[s].flags \cup {"I_LOCK"}
  BY <1>1, <1>2, Fields
<1> HIDE DEF s, w, c, r
<1>5. OthersCalls(p) /\ pc'[p] = w /\ call'[p] = c /\ ofile'[p] = ofile[p]
  BY <1>3, Moved
<1>6. inode'[s] = r /\ \A t \in Slots : t # s => inode'[t] = inode[t]
  BY <1>2, <1>3, <1>4, SlotUpdated
<1>7. OpsOk(p)' /\ Yields(p)
  BY <1>1, <1>3, <1>5 DEF OpsOk, Opens, Freeing, Yields, BusyPcs, w, c
<1>8. SlotsOk(p)'
  BY <1>1, <1>2, <1>4, <1>5, <1>6 DEF SlotsOk, HoldsInode, Freeing, OpsOk, Is, w, c, s
<1>9. LocksMoved(p)
  <2>1. Locks(p) = {} /\ Locks(p)' = {s}
    BY <1>1, <1>5 DEF Locks, InIget, OpsOk, w, c, s
  <2> QED BY <1>1, <1>2, <1>4, <1>6, <2>1 DEF LocksMoved, Is, s
<1>10. /\ HoldsDir(p)' <=> HoldsDir(p)
       /\ HoldsInode(p)' <=> HoldsInode(p)
       /\ HoldsInode(p) => c.s = call[p].s
  BY <1>1, <1>5 DEF HoldsDir, HoldsInode, InIget, OpsOk, Freeing, w, c, Opens
<1>11. SleepersMarked' /\ wchan' \in [Procs -> Slots \cup {NoSlot}]
  BY <1>2, <1>3, <1>4, <1>6, SleepersStay
<1>12. DiskTyped' /\ ROOT_INODE \in imap' /\ dir' \subseteq dir
  BY <1>3 DEF DiskTyped, RootKept, disk
<1> QED BY <1>1, <1>2, <1>3, <1>4, <1>7, <1>8, <1>9, <1>10, <1>11, <1>12, WorkStep


(* file_write() locks the inode and reads a block, or the bitmap.           *)
LEMMA LockWriteInv == ASSUME IndInv, Steady, NEW p \in Procs, LockWrite(p) PROVE IndInv'
<1> USE Given
<1> DEFINE s == ofile[p]  w == IF inode[ofile[p]].blk = 0 THEN "balloc" ELSE "io"  c == call[p]
           r == Lock(inode[s])
<1>1. Runs(p) /\ pc[p] = "wr" /\ ~Is(ofile[p], "I_LOCK")
  BY DEF LockWrite, At, Panics
<1>2. s \in Slots /\ c \in CallRec
  BY <1>1 DEF OpsOk, SlotsOk, HoldsInode, Freeing, CallRec, Opens
<1>3. /\ Moves(p, w, c, ofile[p]) /\ busy' = NoProc /\ UNCHANGED <<disk, wchan, overput, panic>>
      /\ inode' = [inode EXCEPT ![s] = r]
  BY <1>1, <1>2 DEF LockWrite, Bread, Moves, BusyPcs, SleepPcs, OpsOk, Freeing, disk
<1>4. /\ r \in InodeRec /\ r.ino = inode[s].ino /\ r.ref = inode[s].ref /\ (s = RootSlot => r.links = inode[s].links)
      /\ r.flags = inode[s].flags \cup {"I_LOCK"}
  BY <1>1, <1>2, Fields
<1> HIDE DEF s, w, c, r
<1>5. OthersCalls(p) /\ pc'[p] = w /\ call'[p] = c /\ ofile'[p] = ofile[p]
  BY <1>3, Moved
<1>6. inode'[s] = r /\ \A t \in Slots : t # s => inode'[t] = inode[t]
  BY <1>2, <1>3, <1>4, SlotUpdated
<1>7. OpsOk(p)' /\ Yields(p)
  BY <1>1, <1>3, <1>5 DEF OpsOk, Opens, Freeing, Yields, BusyPcs, w, c
<1>8. SlotsOk(p)'
  BY <1>1, <1>2, <1>4, <1>5, <1>6 DEF SlotsOk, HoldsInode, Freeing, OpsOk, Is, w, c, s
<1>9. LocksMoved(p)
  <2>1. Locks(p) = {} /\ Locks(p)' = {s}
    BY <1>1, <1>5 DEF Locks, InIget, OpsOk, w, c, s
  <2> QED BY <1>1, <1>2, <1>4, <1>6, <2>1 DEF LocksMoved, Is, s
<1>10. /\ HoldsDir(p)' <=> HoldsDir(p)
       /\ HoldsInode(p)' <=> HoldsInode(p)
       /\ HoldsInode(p) => c.s = call[p].s
  BY <1>1, <1>5 DEF HoldsDir, HoldsInode, InIget, OpsOk, Freeing, w, c, Opens
<1>11. SleepersMarked' /\ wchan' \in [Procs -> Slots \cup {NoSlot}]
  BY <1>2, <1>3, <1>4, <1>6, SleepersStay
<1>12. DiskTyped' /\ ROOT_INODE \in imap' /\ dir' \subseteq dir
  BY <1>3 DEF DiskTyped, RootKept, disk
<1> QED BY <1>1, <1>2, <1>3, <1>4, <1>7, <1>8, <1>9, <1>10, <1>11, <1>12, WorkStep


(* bfree() clears the bit of the block.                                     *)
LEMMA BfreeInv == ASSUME IndInv, Steady, NEW p \in Procs, Bfree(p) PROVE IndInv'
<1> USE Given
<1> DEFINE s == call[p].s  w == "trunc"  c == [call[p] EXCEPT !.b = 0]
           r == Freed(inode[s])
<1>1. Runs(p) /\ pc[p] = "bfree"
  BY DEF Bfree, At
<1>2. s \in Slots /\ c \in CallRec
  <2>1. s \in Slots
    BY <1>1 DEF SlotsOk, HoldsInode, Freeing
  <2>2. c \in CallRec
    BY CallFields
  <2> QED BY <2>1, <2>2
<1>3. /\ Moves(p, w, c, ofile[p]) /\ busy' = p /\ UNCHANGED <<dinode, imap, dir, wchan, overput, panic>>
      /\ inode' = [inode EXCEPT ![s] = r]
  BY <1>1, <1>2 DEF Bfree, Go, Moves, BusyPcs, SleepPcs, OpsOk, Freeing, disk
<1>4. /\ r \in InodeRec /\ r.ino = inode[s].ino /\ r.ref = inode[s].ref /\ (s = RootSlot => r.links = inode[s].links)
      /\ r.flags = inode[s].flags
  BY <1>1, <1>2, Fields
<1> HIDE DEF s, w, c, r
<1>5. OthersCalls(p) /\ pc'[p] = w /\ call'[p] = c /\ ofile'[p] = ofile[p]
  BY <1>3, Moved
<1>6. inode'[s] = r /\ \A t \in Slots : t # s => inode'[t] = inode[t]
  BY <1>2, <1>3, <1>4, SlotUpdated
<1>7. OpsOk(p)' /\ Yields(p)
  BY <1>1, <1>3, <1>5 DEF OpsOk, Opens, Freeing, Yields, BusyPcs, w, c
<1>8. SlotsOk(p)'
  <2>1. call'[p].s = s /\ (Freeing(p)' => Freeing(p)) /\ inode'[s].ref = inode[s].ref
    BY <1>1, <1>2, <1>4, <1>5, <1>6 DEF Freeing, OpsOk, CallRec, w, c, s
  <2>2. Freeing(p)' => inode'[s].ref = 0 /\ \A q \in Procs : q # p /\ Freeing(q)' => call'[q].s # s
    BY <1>5, <2>1, FreedSlots, FreesAlone DEF s
  <2>3. /\ s # RootSlot /\ inode'[s].ino # 0
        /\ ofile'[p] # RootSlot /\ (ofile'[p] \in Slots => inode'[ofile'[p]].ino # 0)
    BY <1>1, <1>2, <1>4, <1>5, <1>6 DEF SlotsOk, HoldsInode, Freeing, OpsOk, s
  <2> QED BY <1>1, <1>2, <1>5, <2>1, <2>2, <2>3 DEF SlotsOk, HoldsInode, w, c
<1>9. LocksMoved(p)
  <2>1. Locks(p) = {s} /\ Locks(p)' = {s}
    BY <1>1, <1>5 DEF Locks, InIget, OpsOk, w, c, s
  <2> QED BY <1>1, <1>2, <1>4, <1>6, <2>1 DEF LocksMoved, Is
<1>10. /\ HoldsDir(p)' <=> HoldsDir(p)
       /\ HoldsInode(p)' <=> HoldsInode(p)
       /\ HoldsInode(p) => c.s = call[p].s
  BY <1>1, <1>5 DEF HoldsDir, HoldsInode, InIget, OpsOk, Freeing, w, c, Opens
<1>11. SleepersMarked' /\ wchan' \in [Procs -> Slots \cup {NoSlot}]
  BY <1>2, <1>3, <1>4, <1>6, SleepersStay
<1>12. DiskTyped' /\ ROOT_INODE \in imap' /\ dir' \subseteq dir
  BY <1>3 DEF DiskTyped, RootKept, Bfree
<1> QED BY <1>1, <1>2, <1>3, <1>4, <1>7, <1>8, <1>9, <1>10, <1>11, <1>12, WorkStep


(* itrunc() has freed the block, and updates the inode.                     *)
LEMMA TruncUpdateInv == ASSUME IndInv, Steady, NEW p \in Procs, TruncUpdate(p) PROVE IndInv'
<1> USE Given
<1>a. call[p].s \in Slots /\ \E m \in Inos : m = inode[call[p].s].ino
  BY DEF TruncUpdate, At, SlotsOk, OpsOk, HoldsInode, Freeing, InodeRec
<1>b. PICK m \in Inos : m = inode[call[p].s].ino
  BY <1>a
<1> DEFINE s == call[p].s  w == "upd_trunc"  c == [call[p] EXCEPT !.n = m]
           r == Dirty(inode[s])
<1>1. Runs(p) /\ pc[p] = "trunc"
  BY DEF TruncUpdate, At
<1>2. s \in Slots /\ c \in CallRec
  BY <1>a, CallFields
<1>3. /\ Moves(p, w, c, ofile[p]) /\ busy' = NoProc /\ UNCHANGED <<disk, wchan, overput, panic>>
      /\ inode' = [inode EXCEPT ![s] = r]
  BY <1>1, <1>2, <1>a, <1>b DEF TruncUpdate, Bread, Moves, BusyPcs, SleepPcs, OpsOk, Freeing, disk
<1>4. /\ r \in InodeRec /\ r.ino = inode[s].ino /\ r.ref = inode[s].ref /\ (s = RootSlot => r.links = inode[s].links)
      /\ r.flags = inode[s].flags \cup {"I_DIRTY"}
  BY <1>1, <1>2, Fields
<1> HIDE DEF s, w, c, r
<1>5. OthersCalls(p) /\ pc'[p] = w /\ call'[p] = c /\ ofile'[p] = ofile[p]
  BY <1>3, Moved
<1>6. inode'[s] = r /\ \A t \in Slots : t # s => inode'[t] = inode[t]
  BY <1>2, <1>3, <1>4, SlotUpdated
<1>7. OpsOk(p)' /\ Yields(p)
  BY <1>1, <1>3, <1>5, <1>a, <1>b DEF OpsOk, Opens, Freeing, Yields, BusyPcs, w, c
<1>8. SlotsOk(p)'
  <2>1. call'[p].s = s /\ (Freeing(p)' => Freeing(p)) /\ inode'[s].ref = inode[s].ref
    BY <1>1, <1>2, <1>4, <1>5, <1>6, <1>a, <1>b DEF Freeing, OpsOk, CallRec, w, c, s
  <2>2. Freeing(p)' => inode'[s].ref = 0 /\ \A q \in Procs : q # p /\ Freeing(q)' => call'[q].s # s
    BY <1>5, <2>1, FreedSlots, FreesAlone DEF s
  <2>3. /\ s # RootSlot /\ inode'[s].ino # 0
        /\ ofile'[p] # RootSlot /\ (ofile'[p] \in Slots => inode'[ofile'[p]].ino # 0)
    BY <1>1, <1>2, <1>4, <1>5, <1>6, <1>a, <1>b DEF SlotsOk, HoldsInode, Freeing, OpsOk, s
  <2> QED BY <1>1, <1>2, <1>5, <1>a, <1>b, <2>1, <2>2, <2>3 DEF SlotsOk, HoldsInode, w, c
<1>9. LocksMoved(p)
  <2>1. Locks(p) = {s} /\ Locks(p)' = {s}
    BY <1>1, <1>5, <1>a, <1>b DEF Locks, InIget, OpsOk, w, c, s
  <2> QED BY <1>1, <1>2, <1>4, <1>6, <2>1 DEF LocksMoved, Is
<1>10. /\ HoldsDir(p)' <=> HoldsDir(p)
       /\ HoldsInode(p)' <=> HoldsInode(p)
       /\ HoldsInode(p) => c.s = call[p].s
  BY <1>1, <1>5, <1>a, <1>b DEF HoldsDir, HoldsInode, InIget, OpsOk, Freeing, w, c, Opens
<1>11. SleepersMarked' /\ wchan' \in [Procs -> Slots \cup {NoSlot}]
  BY <1>2, <1>3, <1>4, <1>6, SleepersStay
<1>12. DiskTyped' /\ ROOT_INODE \in imap' /\ dir' \subseteq dir
  BY <1>3 DEF DiskTyped, RootKept, disk
<1> QED BY <1>1, <1>2, <1>3, <1>4, <1>7, <1>8, <1>9, <1>10, <1>11, <1>12, WorkStep


(* namei() has found the name, and gets its inode.                          *)
LEMMA FoundInv == ASSUME IndInv, Steady, NEW p \in Procs, NEW n \in Inos, Found(p, n) PROVE IndInv'
<1> USE Given
<1>a. PICK e \in Rets : e = IF WantsParent(p) THEN "putnext" ELSE "found"
  BY DEF Rets
<1> DEFINE s == RootSlot  w == "iget"  c == [call[p] EXCEPT !.n = n, !.ret = e]
           r == Unlock(inode[s])
<1>1. Runs(p) /\ pc[p] = "readdir" /\ <<call[p].name, n>> \in dir
  BY DEF Found, At
<1>2. s \in Slots /\ c \in CallRec
  BY <1>a, CallFields
<1>3. /\ Moves(p, w, c, ofile[p]) /\ busy' = p /\ UNCHANGED <<disk, overput, panic>>
      /\ inode' = [inode EXCEPT ![s] = r] /\ wchan' = Woken(s)
  <2>1. call' = [call EXCEPT ![p] = c]
    <3>1. call' = [call EXCEPT ![p].n = n, ![p].ret = e]
      BY <1>a DEF Found
    <3> QED BY <3>1
  <2> QED BY <1>2, <2>1 DEF Found, Go, Moves, SleepPcs
<1>4. /\ r \in InodeRec /\ r.ino = inode[s].ino /\ r.ref = inode[s].ref /\ (s = RootSlot => r.links = inode[s].links)
      /\ r.flags = inode[s].flags \ {"I_LOCK", "I_WANTED"}
  BY <1>1, <1>2, Fields
<1> HIDE DEF s, w, c, r
<1>5. OthersCalls(p) /\ pc'[p] = w /\ call'[p] = c /\ ofile'[p] = ofile[p]
  BY <1>3, Moved
<1>6. inode'[s] = r /\ \A t \in Slots : t # s => inode'[t] = inode[t]
  BY <1>2, <1>3, <1>4, SlotUpdated
<1>7. OpsOk(p)' /\ Yields(p)
  BY <1>1, <1>3, <1>5, <1>a DEF OpsOk, Opens, Freeing, Yields, BusyPcs, w, c, RootKept, WantsParent
<1>8. SlotsOk(p)'
  BY <1>1, <1>2, <1>4, <1>5, <1>6, <1>a DEF SlotsOk, HoldsInode, Freeing, OpsOk, Is, w, c, s, WantsParent
<1>9. LocksMoved(p)
  <2>1. Locks(p) = {s} /\ Locks(p)' = {}
    BY <1>1, <1>5, <1>a DEF Locks, InIget, OpsOk, w, c, s, WantsParent
  <2> QED BY <1>1, <1>2, <1>4, <1>6, <2>1 DEF LocksMoved, Is, s
<1>10. /\ HoldsDir(p)' <=> HoldsDir(p)
       /\ HoldsInode(p)' <=> HoldsInode(p)
       /\ HoldsInode(p) => c.s = call[p].s
  BY <1>1, <1>5, <1>a DEF HoldsDir, HoldsInode, InIget, OpsOk, Freeing, w, c, Opens, WantsParent
<1>11. SleepersMarked' /\ wchan' \in [Procs -> Slots \cup {NoSlot}]
  BY <1>2, <1>3, <1>4, <1>6, SleepersWoken
<1>12. DiskTyped' /\ ROOT_INODE \in imap' /\ dir' \subseteq dir
  BY <1>3 DEF DiskTyped, RootKept, disk
<1> QED BY <1>1, <1>2, <1>3, <1>4, <1>7, <1>8, <1>9, <1>10, <1>11, <1>12, WorkStep


(* file_read() or file_write() unlocks the inode and returns.               *)
LEMMA IoReturnInv == ASSUME IndInv, Steady, NEW p \in Procs, IoReturn(p) PROVE IndInv'
<1> USE Given
<1> DEFINE s == ofile[p]  w == "user"  c == NoCall
           r == Unlock(inode[s])
<1>1. Runs(p) /\ pc[p] = "io"
  BY DEF IoReturn, At
<1>2. s \in Slots /\ c \in CallRec
  BY <1>1 DEF OpsOk, SlotsOk, HoldsInode, Freeing, CallRec, Opens
<1>3. /\ Moves(p, w, c, ofile[p]) /\ busy' = NoProc /\ UNCHANGED <<disk, overput, panic>>
      /\ inode' = [inode EXCEPT ![s] = r] /\ wchan' = Woken(s)
  BY <1>1, <1>2 DEF IoReturn, Return, Bread, Moves, BusyPcs, SleepPcs, OpsOk, Freeing, disk
<1>4. /\ r \in InodeRec /\ r.ino = inode[s].ino /\ r.ref = inode[s].ref /\ (s = RootSlot => r.links = inode[s].links)
      /\ r.flags = inode[s].flags \ {"I_LOCK", "I_WANTED"}
  BY <1>1, <1>2, Fields
<1> HIDE DEF s, w, c, r
<1>5. OthersCalls(p) /\ pc'[p] = w /\ call'[p] = c /\ ofile'[p] = ofile[p]
  BY <1>3, Moved
<1>6. inode'[s] = r /\ \A t \in Slots : t # s => inode'[t] = inode[t]
  BY <1>2, <1>3, <1>4, SlotUpdated
<1>7. OpsOk(p)' /\ Yields(p)
  BY <1>1, <1>3, <1>5 DEF OpsOk, Opens, Freeing, Yields, BusyPcs, w, c
<1>8. SlotsOk(p)'
  BY <1>1, <1>2, <1>4, <1>5, <1>6 DEF SlotsOk, HoldsInode, Freeing, OpsOk, Is, w, c, s
<1>9. LocksMoved(p)
  <2>1. Locks(p) = {s} /\ Locks(p)' = {}
    BY <1>1, <1>5 DEF Locks, InIget, OpsOk, w, c, s
  <2> QED BY <1>1, <1>2, <1>4, <1>6, <2>1 DEF LocksMoved, Is
<1>10. /\ HoldsDir(p)' <=> HoldsDir(p)
       /\ HoldsInode(p)' <=> HoldsInode(p)
       /\ HoldsInode(p) => c.s = call[p].s
  BY <1>1, <1>5 DEF HoldsDir, HoldsInode, InIget, OpsOk, Freeing, w, c, Opens
<1>11. SleepersMarked' /\ wchan' \in [Procs -> Slots \cup {NoSlot}]
  BY <1>2, <1>3, <1>4, <1>6, SleepersWoken
<1>12. DiskTyped' /\ ROOT_INODE \in imap' /\ dir' \subseteq dir
  BY <1>3 DEF DiskTyped, RootKept, disk
<1> QED BY <1>1, <1>2, <1>3, <1>4, <1>7, <1>8, <1>9, <1>10, <1>11, <1>12, WorkStep


(* sys_unlink() has updated the inode, and puts it.                         *)
LEMMA UnlinkReturnInv == ASSUME IndInv, Steady, NEW p \in Procs, UnlinkReturn(p) PROVE IndInv'
<1> USE Given
<1> DEFINE s == call[p].s  w == "iput"  c == [call[p] EXCEPT !.ret = "user"]
           r == Unlock(Clean(inode[s]))
<1>1. Runs(p) /\ pc[p] = "upd_unlink"
  BY DEF UnlinkReturn, At
<1>2. s \in Slots /\ c \in CallRec
  BY <1>1, CallFields DEF OpsOk, SlotsOk, HoldsInode, Rets
<1>3. /\ Moves(p, w, c, ofile[p]) /\ busy' = p /\ UNCHANGED <<imap, zmap, dir, overput, panic>>
      /\ inode' = [inode EXCEPT ![s] = r] /\ wchan' = Woken(s)
  BY <1>1, <1>2 DEF UnlinkReturn, Go, Moves, BusyPcs, SleepPcs, OpsOk, Freeing, disk
<1>4. /\ r \in InodeRec /\ r.ino = inode[s].ino /\ r.ref = inode[s].ref /\ (s = RootSlot => r.links = inode[s].links)
      /\ r.flags = inode[s].flags \ {"I_LOCK", "I_WANTED", "I_DIRTY"}
  BY <1>1, <1>2, Fields
<1> HIDE DEF s, w, c, r
<1>5. OthersCalls(p) /\ pc'[p] = w /\ call'[p] = c /\ ofile'[p] = ofile[p]
  BY <1>3, Moved
<1>6. inode'[s] = r /\ \A t \in Slots : t # s => inode'[t] = inode[t]
  BY <1>2, <1>3, <1>4, SlotUpdated
<1>7. OpsOk(p)' /\ Yields(p)
  BY <1>1, <1>3, <1>5 DEF OpsOk, Opens, Freeing, Yields, BusyPcs, w, c
<1>8. SlotsOk(p)'
  BY <1>1, <1>2, <1>4, <1>5, <1>6 DEF SlotsOk, HoldsInode, Freeing, OpsOk, Is, w, c, s
<1>9. LocksMoved(p)
  <2>1. Locks(p) = {s} /\ Locks(p)' = {}
    BY <1>1, <1>5 DEF Locks, InIget, OpsOk, w, c, s
  <2> QED BY <1>1, <1>2, <1>4, <1>6, <2>1 DEF LocksMoved, Is
<1>10. /\ HoldsDir(p)' <=> HoldsDir(p)
       /\ HoldsInode(p)' <=> HoldsInode(p)
       /\ HoldsInode(p) => c.s = call[p].s
  BY <1>1, <1>5 DEF HoldsDir, HoldsInode, InIget, OpsOk, Freeing, w, c, Opens
<1>11. SleepersMarked' /\ wchan' \in [Procs -> Slots \cup {NoSlot}]
  BY <1>2, <1>3, <1>4, <1>6, SleepersWoken
<1>12. DiskTyped' /\ ROOT_INODE \in imap' /\ dir' \subseteq dir
  BY <1>2, <1>3 DEF DiskTyped, RootKept, UnlinkReturn, Written, InodeRec, s
<1> QED BY <1>1, <1>2, <1>3, <1>4, <1>7, <1>8, <1>9, <1>10, <1>11, <1>12, WorkStep


(* parenti() puts the inode it found.                                       *)
LEMMA PutNextInv == ASSUME IndInv, Steady, NEW p \in Procs, PutNext(p) PROVE IndInv'
<1> USE Given
<1> DEFINE s == RootSlot  w == "iput"  c == [call[p] EXCEPT !.ret = "parent"]
           r == inode[s]
<1>1. Runs(p) /\ pc[p] = "putnext"
  BY DEF PutNext, At
<1>2. s \in Slots /\ c \in CallRec
  BY CallFields DEF Rets
<1>3. /\ Moves(p, w, c, ofile[p]) /\ busy' = p /\ UNCHANGED <<disk, wchan, overput, panic>>
      /\ inode' = [inode EXCEPT ![s] = r]
  BY <1>1, <1>2 DEF PutNext, Go, Moves, BusyPcs, SleepPcs, OpsOk, Freeing, disk
<1>4. /\ r \in InodeRec /\ r.ino = inode[s].ino /\ r.ref = inode[s].ref /\ (s = RootSlot => r.links = inode[s].links)
      /\ r.flags = inode[s].flags
  BY <1>1, <1>2, Typed
<1> HIDE DEF s, w, c, r
<1>5. OthersCalls(p) /\ pc'[p] = w /\ call'[p] = c /\ ofile'[p] = ofile[p]
  BY <1>3, Moved
<1>6. inode'[s] = r /\ \A t \in Slots : t # s => inode'[t] = inode[t]
  BY <1>2, <1>3, <1>4, SlotUpdated
<1>7. OpsOk(p)' /\ Yields(p)
  BY <1>1, <1>3, <1>5 DEF OpsOk, Opens, Freeing, Yields, BusyPcs, w, c
<1>8. SlotsOk(p)'
  BY <1>1, <1>2, <1>4, <1>5, <1>6 DEF SlotsOk, HoldsInode, Freeing, OpsOk, Is, w, c, s
<1>9. LocksMoved(p)
  <2>1. Locks(p) = {} /\ Locks(p)' = {}
    BY <1>1, <1>5 DEF Locks, InIget, OpsOk, w, c, s
  <2> QED BY <1>1, <1>2, <1>4, <1>6, <2>1 DEF LocksMoved, Is, s
<1>10. /\ HoldsDir(p)' <=> HoldsDir(p)
       /\ HoldsInode(p)' <=> HoldsInode(p)
       /\ HoldsInode(p) => c.s = call[p].s
  BY <1>1, <1>5 DEF HoldsDir, HoldsInode, InIget, OpsOk, Freeing, w, c, Opens
<1>11. SleepersMarked' /\ wchan' \in [Procs -> Slots \cup {NoSlot}]
  BY <1>2, <1>3, <1>4, <1>6, SleepersStay
<1>12. DiskTyped' /\ ROOT_INODE \in imap' /\ dir' \subseteq dir
  BY <1>3 DEF DiskTyped, RootKept, disk
<1> QED BY <1>1, <1>2, <1>3, <1>4, <1>7, <1>8, <1>9, <1>10, <1>11, <1>12, WorkStep


(* open() is denied access to the inode, and puts it.                       *)
LEMMA OpenDeniedInv == ASSUME IndInv, Steady, NEW p \in Procs, OpenDenied(p) PROVE IndInv'
<1> USE Given
<1> DEFINE s == RootSlot  w == "iput"  c == [call[p] EXCEPT !.ret = "user"]
           r == inode[s]
<1>1. Runs(p) /\ pc[p] = "access"
  BY DEF OpenDenied, At
<1>2. s \in Slots /\ c \in CallRec
  BY CallFields DEF Rets
<1>3. /\ Moves(p, w, c, ofile[p]) /\ busy' = p /\ UNCHANGED <<disk, wchan, overput, panic>>
      /\ inode' = [inode EXCEPT ![s] = r]
  BY <1>1, <1>2 DEF OpenDenied, Go, Moves, BusyPcs, SleepPcs, OpsOk, Freeing, disk
<1>4. /\ r \in InodeRec /\ r.ino = inode[s].ino /\ r.ref = inode[s].ref /\ (s = RootSlot => r.links = inode[s].links)
      /\ r.flags = inode[s].flags
  BY <1>1, <1>2, Typed
<1> HIDE DEF s, w, c, r
<1>5. OthersCalls(p) /\ pc'[p] = w /\ call'[p] = c /\ ofile'[p] = ofile[p]
  BY <1>3, Moved
<1>6. inode'[s] = r /\ \A t \in Slots : t # s => inode'[t] = inode[t]
  BY <1>2, <1>3, <1>4, SlotUpdated
<1>7. OpsOk(p)' /\ Yields(p)
  BY <1>1, <1>3, <1>5 DEF OpsOk, Opens, Freeing, Yields, BusyPcs, w, c
<1>8. SlotsOk(p)'
  BY <1>1, <1>2, <1>4, <1>5, <1>6 DEF SlotsOk, HoldsInode, Freeing, OpsOk, Is, w, c, s
<1>9. LocksMoved(p)
  <2>1. Locks(p) = {} /\ Locks(p)' = {}
    BY <1>1, <1>5 DEF Locks, InIget, OpsOk, w, c, s
  <2> QED BY <1>1, <1>2, <1>4, <1>6, <2>1 DEF LocksMoved, Is, s
<1>10. /\ HoldsDir(p)' <=> HoldsDir(p)
       /\ HoldsInode(p)' <=> HoldsInode(p)
       /\ HoldsInode(p) => c.s = call[p].s
  BY <1>1, <1>5 DEF HoldsDir, HoldsInode, InIget, OpsOk, Freeing, w, c, Opens
<1>11. SleepersMarked' /\ wchan' \in [Procs -> Slots \cup {NoSlot}]
  BY <1>2, <1>3, <1>4, <1>6, SleepersStay
<1>12. DiskTyped' /\ ROOT_INODE \in imap' /\ dir' \subseteq dir
  BY <1>3 DEF DiskTyped, RootKept, disk
<1> QED BY <1>1, <1>2, <1>3, <1>4, <1>7, <1>8, <1>9, <1>10, <1>11, <1>12, WorkStep


(* sys_unlink() and file_creat() have access to the directory.              *)
LEMMA ParentGrantedInv == ASSUME IndInv, Steady, NEW p \in Procs, ParentGranted(p) PROVE IndInv'
<1> USE Given
<1> DEFINE s == RootSlot  w == IF call[p].op = "unlink" THEN "unlink" ELSE "ialloc"  c == call[p]
           r == inode[s]
<1>1. Runs(p) /\ pc[p] = "parent"
  BY DEF ParentGranted, At
<1>2. s \in Slots /\ c \in CallRec
  BY <1>1 DEF OpsOk, SlotsOk, HoldsInode, Freeing, CallRec, Opens
<1>3. /\ Moves(p, w, c, ofile[p]) /\ busy' = (IF call[p].op = "unlink" THEN p ELSE NoProc) /\ UNCHANGED <<disk, wchan, overput, panic>>
      /\ inode' = [inode EXCEPT ![s] = r]
  BY <1>1, <1>2 DEF ParentGranted, Go, Bread, Moves, BusyPcs, SleepPcs, OpsOk, Freeing, disk
<1>4. /\ r \in InodeRec /\ r.ino = inode[s].ino /\ r.ref = inode[s].ref /\ (s = RootSlot => r.links = inode[s].links)
      /\ r.flags = inode[s].flags
  BY <1>1, <1>2, Typed
<1> HIDE DEF s, w, c, r
<1>5. OthersCalls(p) /\ pc'[p] = w /\ call'[p] = c /\ ofile'[p] = ofile[p]
  BY <1>3, Moved
<1>6. inode'[s] = r /\ \A t \in Slots : t # s => inode'[t] = inode[t]
  BY <1>2, <1>3, <1>4, SlotUpdated
<1>7. OpsOk(p)' /\ Yields(p)
  BY <1>1, <1>3, <1>5 DEF OpsOk, Opens, Freeing, Yields, BusyPcs, w, c
<1>8. SlotsOk(p)'
  BY <1>1, <1>2, <1>4, <1>5, <1>6 DEF SlotsOk, HoldsInode, Freeing, OpsOk, Is, w, c, s
<1>9. LocksMoved(p)
  <2>1. Locks(p) = {} /\ Locks(p)' = {}
    BY <1>1, <1>5 DEF Locks, InIget, OpsOk, w, c, s
  <2> QED BY <1>1, <1>2, <1>4, <1>6, <2>1 DEF LocksMoved, Is, s
<1>10. /\ HoldsDir(p)' <=> HoldsDir(p)
       /\ HoldsInode(p)' <=> HoldsInode(p)
       /\ HoldsInode(p) => c.s = call[p].s
  BY <1>1, <1>5 DEF HoldsDir, HoldsInode, InIget, OpsOk, Freeing, w, c, Opens
<1>11. SleepersMarked' /\ wchan' \in [Procs -> Slots \cup {NoSlot}]
  BY <1>2, <1>3, <1>4, <1>6, SleepersStay
<1>12. DiskTyped' /\ ROOT_INODE \in imap' /\ dir' \subseteq dir
  BY <1>3 DEF DiskTyped, RootKept, disk
<1> QED BY <1>1, <1>2, <1>3, <1>4, <1>7, <1>8, <1>9, <1>10, <1>11, <1>12, WorkStep


(* ialloc() takes the first inode that is free.                             *)
LEMMA IallocInv == ASSUME IndInv, Steady, NEW p \in Procs, Ialloc(p) PROVE IndInv'
<1> USE Given
<1>a. PICK n : n = Min(Inos \ imap)
  OBVIOUS
<1> DEFINE s == RootSlot  w == "iget"  c == [call[p] EXCEPT !.n = n, !.ret = "newinode"]
           r == inode[s]
<1>1. Runs(p) /\ pc[p] = "ialloc" /\ n \in Inos \ {ROOT_INODE}
  <2>1. Runs(p) /\ pc[p] = "ialloc" /\ ~(Inos \subseteq imap)
    BY DEF Ialloc, At, Panics
  <2>2. Inos \ imap \in SUBSET Nat /\ Inos \ imap # {}
    BY <2>1, InodeAssumption
  <2>3. Min(Inos \ imap) \in Inos \ imap
    BY <2>2, Lowest
  <2> QED BY <1>a, <2>1, <2>3 DEF RootKept
<1>2. s \in Slots /\ c \in CallRec
  BY <1>1, CallFields DEF Rets
<1>3. /\ Moves(p, w, c, ofile[p]) /\ busy' = p /\ UNCHANGED <<dinode, zmap, dir, wchan, overput, panic>>
      /\ inode' = [inode EXCEPT ![s] = r]
  <2>1. call' = [call EXCEPT ![p] = c]
    <3>1. call' = [call EXCEPT ![p].n = n, ![p].ret = "newinode"]
      BY <1>a DEF Ialloc
    <3> QED BY <3>1
  <2> QED BY <1>2, <2>1 DEF Ialloc, Go, Moves, SleepPcs
<1>4. /\ r \in InodeRec /\ r.ino = inode[s].ino /\ r.ref = inode[s].ref /\ (s = RootSlot => r.links = inode[s].links)
      /\ r.flags = inode[s].flags
  BY <1>1, <1>2, Typed
<1> HIDE DEF s, w, c, r
<1>5. OthersCalls(p) /\ pc'[p] = w /\ call'[p] = c /\ ofile'[p] = ofile[p]
  BY <1>3, Moved
<1>6. inode'[s] = r /\ \A t \in Slots : t # s => inode'[t] = inode[t]
  BY <1>2, <1>3, <1>4, SlotUpdated
<1>7. OpsOk(p)' /\ Yields(p)
  BY <1>1, <1>3, <1>5, <1>a DEF OpsOk, Opens, Freeing, Yields, BusyPcs, w, c
<1>8. SlotsOk(p)'
  BY <1>1, <1>2, <1>4, <1>5, <1>6, <1>a DEF SlotsOk, HoldsInode, Freeing, OpsOk, Is, w, c, s
<1>9. LocksMoved(p)
  <2>1. Locks(p) = {} /\ Locks(p)' = {}
    BY <1>1, <1>5, <1>a DEF Locks, InIget, OpsOk, w, c, s
  <2> QED BY <1>1, <1>2, <1>4, <1>6, <2>1 DEF LocksMoved, Is, s
<1>10. /\ HoldsDir(p)' <=> HoldsDir(p)
       /\ HoldsInode(p)' <=> HoldsInode(p)
       /\ HoldsInode(p) => c.s = call[p].s
  BY <1>1, <1>5, <1>a DEF HoldsDir, HoldsInode, InIget, OpsOk, Freeing, w, c, Opens
<1>11. SleepersMarked' /\ wchan' \in [Procs -> Slots \cup {NoSlot}]
  BY <1>2, <1>3, <1>4, <1>6, SleepersStay
<1>12. DiskTyped' /\ ROOT_INODE \in imap' /\ dir' \subseteq dir
  BY <1>1, <1>3, <1>a DEF DiskTyped, RootKept, Ialloc
<1> QED BY <1>1, <1>2, <1>3, <1>4, <1>7, <1>8, <1>9, <1>10, <1>11, <1>12, WorkStep


(* sys_unlink() clears the entry, and gets its inode.                       *)
LEMMA UnlinkEntryInv == ASSUME IndInv, Steady, NEW p \in Procs, NEW n \in Inos, UnlinkEntry(p, n) PROVE IndInv'
<1> USE Given
<1> DEFINE s == RootSlot  w == "iget"  c == [call[p] EXCEPT !.n = n, !.ret = "unlinked"]
           r == inode[s]
<1>1. Runs(p) /\ pc[p] = "scan" /\ n # ROOT_INODE
  BY DEF UnlinkEntry, At, RootKept
<1>2. s \in Slots /\ c \in CallRec
  BY <1>1, CallFields DEF Rets
<1>3. /\ Moves(p, w, c, ofile[p]) /\ busy' = p /\ UNCHANGED <<dinode, imap, zmap, wchan, overput, panic>>
      /\ inode' = [inode EXCEPT ![s] = r]
  <2>1. inode' = [inode EXCEPT ![s] = r] /\ UNCHANGED <<dinode, imap, zmap, wchan, overput, panic>> /\ busy' = p
    BY <1>2 DEF UnlinkEntry, Go
  <2>2. call' = [call EXCEPT ![p] = c]
    BY DEF UnlinkEntry
  <2>3. pc' = [pc EXCEPT ![p] = w] /\ ofile' = [ofile EXCEPT ![p] = ofile[p]]
    BY DEF UnlinkEntry, Go
  <2>4. w \in BusyPcs \cup SleepPcs
    BY DEF SleepPcs
  <2> HIDE DEF s, w, c, r
  <2> QED BY <1>2, <2>1, <2>2, <2>3, <2>4 DEF Moves
<1>4. /\ r \in InodeRec /\ r.ino = inode[s].ino /\ r.ref = inode[s].ref /\ (s = RootSlot => r.links = inode[s].links)
      /\ r.flags = inode[s].flags
  BY <1>1, <1>2, Typed
<1> HIDE DEF s, w, c, r
<1>5. OthersCalls(p) /\ pc'[p] = w /\ call'[p] = c /\ ofile'[p] = ofile[p]
  BY <1>3, Moved
<1>6. inode'[s] = r /\ \A t \in Slots : t # s => inode'[t] = inode[t]
  BY <1>2, <1>3, <1>4, SlotUpdated
<1>7. OpsOk(p)' /\ Yields(p)
  BY <1>1, <1>3, <1>5 DEF OpsOk, Opens, Freeing, Yields, BusyPcs, w, c
<1>8. SlotsOk(p)'
  BY <1>1, <1>2, <1>4, <1>5, <1>6 DEF SlotsOk, HoldsInode, Freeing, OpsOk, Is, w, c, s
<1>9. LocksMoved(p)
  <2>1. Locks(p) = {s} /\ Locks(p)' = {s}
    BY <1>1, <1>5 DEF Locks, InIget, OpsOk, w, c, s
  <2> QED BY <1>1, <1>2, <1>4, <1>6, <2>1 DEF LocksMoved, Is, s
<1>10. /\ HoldsDir(p)' <=> HoldsDir(p)
       /\ HoldsInode(p)' <=> HoldsInode(p)
       /\ HoldsInode(p) => c.s = call[p].s
  BY <1>1, <1>5 DEF HoldsDir, HoldsInode, InIget, OpsOk, Freeing, w, c, Opens
<1>11. SleepersMarked' /\ wchan' \in [Procs -> Slots \cup {NoSlot}]
  BY <1>2, <1>3, <1>4, <1>6, SleepersStay
<1>12. DiskTyped' /\ ROOT_INODE \in imap' /\ dir' \subseteq dir
  BY <1>3 DEF DiskTyped, RootKept, UnlinkEntry
<1> QED BY <1>1, <1>2, <1>3, <1>4, <1>7, <1>8, <1>9, <1>10, <1>11, <1>12, WorkStep


(* file_read() or file_write() of the open file.                            *)
LEMMA BeginIoInv == ASSUME IndInv, Steady, NEW p \in Procs, NEW v \in {"rd", "wr"}, BeginFile(p, v) PROVE IndInv'
<1> USE Given
<1> DEFINE s == RootSlot  w == v  c == call[p]
           r == inode[s]
<1>1. Runs(p) /\ pc[p] = "user" /\ ofile[p] # NoSlot
  BY DEF BeginFile, At
<1>2. s \in Slots /\ c \in CallRec
  BY <1>1 DEF OpsOk, SlotsOk, HoldsInode, Freeing, CallRec, Opens
<1>3. /\ Moves(p, w, c, ofile[p]) /\ busy' = p /\ UNCHANGED <<disk, wchan, overput, panic>>
      /\ inode' = [inode EXCEPT ![s] = r]
  BY <1>1, <1>2 DEF BeginFile, Go, Moves, BusyPcs, SleepPcs, OpsOk, Freeing, disk
<1>4. /\ r \in InodeRec /\ r.ino = inode[s].ino /\ r.ref = inode[s].ref /\ (s = RootSlot => r.links = inode[s].links)
      /\ r.flags = inode[s].flags
  BY <1>1, <1>2, Typed
<1> HIDE DEF s, w, c, r
<1>5. OthersCalls(p) /\ pc'[p] = w /\ call'[p] = c /\ ofile'[p] = ofile[p]
  BY <1>3, Moved
<1>6. inode'[s] = r /\ \A t \in Slots : t # s => inode'[t] = inode[t]
  BY <1>2, <1>3, <1>4, SlotUpdated
<1>7. OpsOk(p)' /\ Yields(p)
  BY <1>1, <1>3, <1>5 DEF OpsOk, Opens, Freeing, Yields, BusyPcs, w, c
<1>8. SlotsOk(p)'
  BY <1>1, <1>2, <1>4, <1>5, <1>6 DEF SlotsOk, HoldsInode, Freeing, OpsOk, Is, w, c, s
<1>9. LocksMoved(p)
  <2>1. Locks(p) = {} /\ Locks(p)' = {}
    BY <1>1, <1>5 DEF Locks, InIget, OpsOk, w, c, s
  <2> QED BY <1>1, <1>2, <1>4, <1>6, <2>1 DEF LocksMoved, Is, s
<1>10. /\ HoldsDir(p)' <=> HoldsDir(p)
       /\ HoldsInode(p)' <=> HoldsInode(p)
       /\ HoldsInode(p) => c.s = call[p].s
  BY <1>1, <1>5 DEF HoldsDir, HoldsInode, InIget, OpsOk, Freeing, w, c, Opens
<1>11. SleepersMarked' /\ wchan' \in [Procs -> Slots \cup {NoSlot}]
  BY <1>2, <1>3, <1>4, <1>6, SleepersStay
<1>12. DiskTyped' /\ ROOT_INODE \in imap' /\ dir' \subseteq dir
  BY <1>3 DEF DiskTyped, RootKept, disk
<1> QED
  <2> HIDE Given
  <2> QED BY <1>1, <1>2, <1>3, <1>4, <1>7, <1>8, <1>9, <1>10, <1>11, <1>12, WorkStep


(* file_creat() gets the root directory.                                    *)
LEMMA FileCreatIgetInv == ASSUME IndInv, Steady, NEW p \in Procs, pc'[p] = "iget", FileCreat(p) PROVE IndInv'
<1> USE Given
<1>a. PICK d \in CallRec : /\ d = [call[p] EXCEPT !.op = "file_creat"]
                            /\ d.op = "file_creat" /\ d.name = call[p].name /\ d.free = call[p].free
  <2>1. [call[p] EXCEPT !.op = "file_creat"] \in CallRec
    BY CallFields
  <2>2. /\ [call[p] EXCEPT !.op = "file_creat"].op = "file_creat"
        /\ [call[p] EXCEPT !.op = "file_creat"].name = call[p].name
        /\ [call[p] EXCEPT !.op = "file_creat"].free = call[p].free
    BY DEF CallRec
  <2> QED BY <2>1, <2>2
<1> DEFINE s == RootSlot  w == "iget"  c == [d EXCEPT !.n = ROOT_INODE, !.s = RootSlot, !.ret = "lockdir"]
           r == inode[s]
<1>1. Runs(p) /\ pc[p] = "file_creat"
  BY DEF FileCreat, At
<1>2. s \in Slots /\ c \in CallRec
  BY <1>a, CallFields, InodeAssumption DEF Rets
<1>3. /\ Moves(p, w, c, ofile[p]) /\ busy' = p /\ UNCHANGED <<disk, wchan, overput, panic>>
      /\ inode' = [inode EXCEPT ![s] = r]
  <2>1. inode' = inode /\ Go(p, "iget")
    BY DEF FileCreat, Nameicore, Go, TypeOK
  <2>2. call' = [call EXCEPT ![p] = c]
    BY <1>a DEF FileCreat, Nameicore
  <2> QED BY <1>2, <2>1, <2>2 DEF FileCreat, Nameicore, Go, Moves, SleepPcs
<1>4. /\ r \in InodeRec /\ r.ino = inode[s].ino /\ r.ref = inode[s].ref /\ (s = RootSlot => r.links = inode[s].links)
      /\ r.flags = inode[s].flags
  BY <1>1, <1>2, Typed
<1> HIDE DEF s, w, c, r
<1>5. OthersCalls(p) /\ pc'[p] = w /\ call'[p] = c /\ ofile'[p] = ofile[p]
  BY <1>3, Moved
<1>6. inode'[s] = r /\ \A t \in Slots : t # s => inode'[t] = inode[t]
  BY <1>2, <1>3, <1>4, SlotUpdated
<1>7. OpsOk(p)' /\ Yields(p)
  BY <1>1, <1>3, <1>5, <1>a, InodeAssumption DEF OpsOk, Opens, Freeing, Yields, BusyPcs, w, c
<1>8. SlotsOk(p)'
  BY <1>1, <1>2, <1>4, <1>5, <1>6, <1>a, InodeAssumption DEF SlotsOk, HoldsInode, Freeing, OpsOk, Is, w, c, s
<1>9. LocksMoved(p)
  <2>1. Locks(p) = {} /\ Locks(p)' = {}
    BY <1>1, <1>5, <1>a, InodeAssumption DEF Locks, InIget, OpsOk, w, c, s
  <2> QED BY <1>1, <1>2, <1>4, <1>6, <2>1 DEF LocksMoved, Is, s
<1>10. /\ HoldsDir(p)' <=> HoldsDir(p)
       /\ HoldsInode(p)' <=> HoldsInode(p)
       /\ HoldsInode(p) => c.s = call[p].s
  BY <1>1, <1>5, <1>a, InodeAssumption DEF HoldsDir, HoldsInode, InIget, OpsOk, Freeing, w, c, Opens
<1>11. SleepersMarked' /\ wchan' \in [Procs -> Slots \cup {NoSlot}]
  BY <1>2, <1>3, <1>4, <1>6, SleepersStay
<1>12. DiskTyped' /\ ROOT_INODE \in imap' /\ dir' \subseteq dir
  BY <1>3 DEF DiskTyped, RootKept, disk
<1> QED BY <1>1, <1>2, <1>3, <1>4, <1>7, <1>8, <1>9, <1>10, <1>11, <1>12, WorkStep


(* itrunc() frees the block.                                                *)
LEMMA TruncBlockInv == ASSUME IndInv, Steady, NEW p \in Procs, TruncBlock(p) PROVE IndInv'
<1> USE Given
<1>a. call[p].s \in Slots /\ \E m \in Blocks \cup {0} : m = inode[call[p].s].blk
  BY DEF TruncBlock, At, SlotsOk, OpsOk, HoldsInode, Freeing, InodeRec
<1>b. PICK m \in Blocks \cup {0} : m = inode[call[p].s].blk
  BY <1>a
<1> DEFINE s == call[p].s  w == "bfree"  c == [call[p] EXCEPT !.b = m]
           r == inode[s]
<1>1. Runs(p) /\ pc[p] = "trunc"
  BY DEF TruncBlock, At
<1>2. s \in Slots /\ c \in CallRec
  BY <1>a, CallFields
<1>3. /\ Moves(p, w, c, ofile[p]) /\ busy' = NoProc /\ UNCHANGED <<disk, wchan, overput, panic>>
      /\ inode' = [inode EXCEPT ![s] = r]
  BY <1>1, <1>2, <1>a, <1>b DEF TruncBlock, Bread, Moves, BusyPcs, SleepPcs, OpsOk, Freeing, disk
<1>4. /\ r \in InodeRec /\ r.ino = inode[s].ino /\ r.ref = inode[s].ref /\ (s = RootSlot => r.links = inode[s].links)
      /\ r.flags = inode[s].flags
  BY <1>1, <1>2, Typed
<1> HIDE DEF s, w, c, r
<1>5. OthersCalls(p) /\ pc'[p] = w /\ call'[p] = c /\ ofile'[p] = ofile[p]
  BY <1>3, Moved
<1>6. inode'[s] = r /\ \A t \in Slots : t # s => inode'[t] = inode[t]
  BY <1>2, <1>3, <1>4, SlotUpdated
<1>7. OpsOk(p)' /\ Yields(p)
  BY <1>1, <1>3, <1>5, <1>a, <1>b DEF OpsOk, Opens, Freeing, Yields, BusyPcs, w, c
<1>8. SlotsOk(p)'
  <2>1. call'[p].s = s /\ (Freeing(p)' => Freeing(p)) /\ inode'[s].ref = inode[s].ref
    BY <1>1, <1>2, <1>4, <1>5, <1>6, <1>a, <1>b DEF Freeing, OpsOk, CallRec, w, c, s
  <2>2. Freeing(p)' => inode'[s].ref = 0 /\ \A q \in Procs : q # p /\ Freeing(q)' => call'[q].s # s
    BY <1>5, <2>1, FreedSlots, FreesAlone DEF s
  <2>3. /\ s # RootSlot /\ inode'[s].ino # 0
        /\ ofile'[p] # RootSlot /\ (ofile'[p] \in Slots => inode'[ofile'[p]].ino # 0)
    BY <1>1, <1>2, <1>4, <1>5, <1>6, <1>a, <1>b DEF SlotsOk, HoldsInode, Freeing, OpsOk, s
  <2> QED BY <1>1, <1>2, <1>5, <1>a, <1>b, <2>1, <2>2, <2>3 DEF SlotsOk, HoldsInode, w, c
<1>9. LocksMoved(p)
  <2>1. Locks(p) = {s} /\ Locks(p)' = {s}
    BY <1>1, <1>5, <1>a, <1>b DEF Locks, InIget, OpsOk, w, c, s
  <2> QED BY <1>1, <1>2, <1>4, <1>6, <2>1 DEF LocksMoved, Is
<1>10. /\ HoldsDir(p)' <=> HoldsDir(p)
       /\ HoldsInode(p)' <=> HoldsInode(p)
       /\ HoldsInode(p) => c.s = call[p].s
  BY <1>1, <1>5, <1>a, <1>b DEF HoldsDir, HoldsInode, InIget, OpsOk, Freeing, w, c, Opens
<1>11. SleepersMarked' /\ wchan' \in [Procs -> Slots \cup {NoSlot}]
  BY <1>2, <1>3, <1>4, <1>6, SleepersStay
<1>12. DiskTyped' /\ ROOT_INODE \in imap' /\ dir' \subseteq dir
  BY <1>3 DEF DiskTyped, RootKept, disk
<1> QED BY <1>1, <1>2, <1>3, <1>4, <1>7, <1>8, <1>9, <1>10, <1>11, <1>12, WorkStep


(* iput() has truncated the inode, and goes on to ifree().                  *)
LEMMA TruncFreeInv == ASSUME IndInv, Steady, NEW p \in Procs, call[p].free, TruncReturn(p) PROVE IndInv'
<1> USE Given
<1>a. call[p].s \in Slots /\ \E m \in Inos \ {ROOT_INODE} : m = inode[call[p].s].ino
  BY DEF TruncReturn, At, SlotsOk, OpsOk, HoldsInode, Freeing, InodeRec, IndInv, OneSlotPerInode, RootKept
<1>b. PICK m \in Inos \ {ROOT_INODE} : m = inode[call[p].s].ino
  BY <1>a
<1> DEFINE s == call[p].s  w == "ifree"  c == [call[p] EXCEPT !.n = m]
           r == Unlock(Clean(inode[s]))
<1>1. Runs(p) /\ pc[p] = "upd_trunc"
  BY DEF TruncReturn, At
<1>2. s \in Slots /\ c \in CallRec
  BY <1>a, CallFields
<1>3. /\ Moves(p, w, c, ofile[p]) /\ busy' = NoProc /\ UNCHANGED <<imap, zmap, dir, overput, panic>>
      /\ inode' = [inode EXCEPT ![s] = r] /\ wchan' = Woken(s)
  BY <1>1, <1>2, <1>a, <1>b DEF TruncReturn, Bread, Moves, BusyPcs, SleepPcs, OpsOk, Freeing, disk
<1>4. /\ r \in InodeRec /\ r.ino = inode[s].ino /\ r.ref = inode[s].ref /\ (s = RootSlot => r.links = inode[s].links)
      /\ r.flags = inode[s].flags \ {"I_LOCK", "I_WANTED", "I_DIRTY"}
  BY <1>1, <1>2, Fields
<1> HIDE DEF s, w, c, r
<1>5. OthersCalls(p) /\ pc'[p] = w /\ call'[p] = c /\ ofile'[p] = ofile[p]
  BY <1>3, Moved
<1>6. inode'[s] = r /\ \A t \in Slots : t # s => inode'[t] = inode[t]
  BY <1>2, <1>3, <1>4, SlotUpdated
<1>7. OpsOk(p)' /\ Yields(p)
  BY <1>1, <1>3, <1>5, <1>a, <1>b DEF OpsOk, Opens, Freeing, Yields, BusyPcs, w, c
<1>8. SlotsOk(p)'
  <2>1. call'[p].s = s /\ (Freeing(p)' => Freeing(p)) /\ inode'[s].ref = inode[s].ref
    BY <1>1, <1>2, <1>4, <1>5, <1>6, <1>a, <1>b DEF Freeing, OpsOk, CallRec, w, c, s
  <2>2. Freeing(p)' => inode'[s].ref = 0 /\ \A q \in Procs : q # p /\ Freeing(q)' => call'[q].s # s
    BY <1>5, <2>1, FreedSlots, FreesAlone DEF s
  <2>3. /\ s # RootSlot /\ inode'[s].ino # 0
        /\ ofile'[p] # RootSlot /\ (ofile'[p] \in Slots => inode'[ofile'[p]].ino # 0)
    BY <1>1, <1>2, <1>4, <1>5, <1>6, <1>a, <1>b DEF SlotsOk, HoldsInode, Freeing, OpsOk, s
  <2> QED BY <1>1, <1>2, <1>5, <1>a, <1>b, <2>1, <2>2, <2>3 DEF SlotsOk, HoldsInode, w, c
<1>9. LocksMoved(p)
  <2>1. Locks(p) = {s} /\ Locks(p)' = {}
    BY <1>1, <1>5, <1>a, <1>b DEF Locks, InIget, OpsOk, w, c, s
  <2> QED BY <1>1, <1>2, <1>4, <1>6, <2>1 DEF LocksMoved, Is
<1>10. /\ HoldsDir(p)' <=> HoldsDir(p)
       /\ HoldsInode(p)' <=> HoldsInode(p)
       /\ HoldsInode(p) => c.s = call[p].s
  BY <1>1, <1>5, <1>a, <1>b DEF HoldsDir, HoldsInode, InIget, OpsOk, Freeing, w, c, Opens
<1>11. SleepersMarked' /\ wchan' \in [Procs -> Slots \cup {NoSlot}]
  BY <1>2, <1>3, <1>4, <1>6, SleepersWoken
<1>12. DiskTyped' /\ ROOT_INODE \in imap' /\ dir' \subseteq dir
  BY <1>2, <1>3 DEF DiskTyped, RootKept, TruncReturn, Written, InodeRec, s
<1> QED BY <1>1, <1>2, <1>3, <1>4, <1>7, <1>8, <1>9, <1>10, <1>11, <1>12, WorkStep


(* ifree() clears the bit of the inode.                                     *)
LEMMA IfreeInv == ASSUME IndInv, Steady, NEW p \in Procs, Ifree(p) PROVE IndInv'
<1> USE Given
<1>a. call[p].s \in Slots /\ \E m \in Inos \ {ROOT_INODE} : m = inode[call[p].s].ino
  BY DEF Ifree, At, SlotsOk, OpsOk, HoldsInode, Freeing, InodeRec, IndInv, OneSlotPerInode, RootKept
<1>b. PICK m \in Inos \ {ROOT_INODE} : m = inode[call[p].s].ino
  BY <1>a
<1> DEFINE s == call[p].s  w == "upd_free"  c == [call[p] EXCEPT !.n = m]
           r == Dirty(inode[s])
<1>1. Runs(p) /\ pc[p] = "ifree"
  BY DEF Ifree, At
<1>2. s \in Slots /\ c \in CallRec
  BY <1>a, CallFields
<1>3. /\ Moves(p, w, c, ofile[p]) /\ busy' = NoProc /\ UNCHANGED <<dinode, zmap, dir, wchan, overput, panic>>
      /\ inode' = [inode EXCEPT ![s] = r]
  BY <1>1, <1>2, <1>a, <1>b DEF Ifree, Bread, Moves, BusyPcs, SleepPcs, OpsOk, Freeing, disk
<1>4. /\ r \in InodeRec /\ r.ino = inode[s].ino /\ r.ref = inode[s].ref /\ (s = RootSlot => r.links = inode[s].links)
      /\ r.flags = inode[s].flags \cup {"I_DIRTY"}
  BY <1>1, <1>2, Fields
<1> HIDE DEF s, w, c, r
<1>5. OthersCalls(p) /\ pc'[p] = w /\ call'[p] = c /\ ofile'[p] = ofile[p]
  BY <1>3, Moved
<1>6. inode'[s] = r /\ \A t \in Slots : t # s => inode'[t] = inode[t]
  BY <1>2, <1>3, <1>4, SlotUpdated
<1>7. OpsOk(p)' /\ Yields(p)
  BY <1>1, <1>3, <1>5, <1>a, <1>b DEF OpsOk, Opens, Freeing, Yields, BusyPcs, w, c
<1>8. SlotsOk(p)'
  <2>1. call'[p].s = s /\ (Freeing(p)' => Freeing(p)) /\ inode'[s].ref = inode[s].ref
    BY <1>1, <1>2, <1>4, <1>5, <1>6, <1>a, <1>b DEF Freeing, OpsOk, CallRec, w, c, s
  <2>2. Freeing(p)' => inode'[s].ref = 0 /\ \A q \in Procs : q # p /\ Freeing(q)' => call'[q].s # s
    BY <1>5, <2>1, FreedSlots, FreesAlone DEF s
  <2>3. /\ s # RootSlot /\ inode'[s].ino # 0
        /\ ofile'[p] # RootSlot /\ (ofile'[p] \in Slots => inode'[ofile'[p]].ino # 0)
    BY <1>1, <1>2, <1>4, <1>5, <1>6, <1>a, <1>b DEF SlotsOk, HoldsInode, Freeing, OpsOk, s
  <2> QED BY <1>1, <1>2, <1>5, <1>a, <1>b, <2>1, <2>2, <2>3 DEF SlotsOk, HoldsInode, w, c
<1>9. LocksMoved(p)
  <2>1. Locks(p) = {} /\ Locks(p)' = {}
    BY <1>1, <1>5, <1>a, <1>b DEF Locks, InIget, OpsOk, w, c, s
  <2> QED BY <1>1, <1>2, <1>4, <1>6, <2>1 DEF LocksMoved, Is
<1>10. /\ HoldsDir(p)' <=> HoldsDir(p)
       /\ HoldsInode(p)' <=> HoldsInode(p)
       /\ HoldsInode(p) => c.s = call[p].s
  BY <1>1, <1>5, <1>a, <1>b DEF HoldsDir, HoldsInode, InIget, OpsOk, Freeing, w, c, Opens
<1>11. SleepersMarked' /\ wchan' \in [Procs -> Slots \cup {NoSlot}]
  BY <1>2, <1>3, <1>4, <1>6, SleepersStay
<1>12. DiskTyped' /\ ROOT_INODE \in imap' /\ dir' \subseteq dir
  BY <1>1, <1>3 DEF DiskTyped, RootKept, Ifree, SlotsOk
<1> QED BY <1>1, <1>2, <1>3, <1>4, <1>7, <1>8, <1>9, <1>10, <1>11, <1>12, WorkStep


(* iput() has freed the inode, and the call returns ...                     *)
LEMMA FreedReturnInv == ASSUME IndInv, Steady, NEW p \in Procs, call[p].ret = "user", FreeReturn(p) PROVE IndInv'
<1> USE Given
<1> DEFINE s == call[p].s  w == "user"  c == NoCall
           r == Clean(inode[s])
<1>1. Runs(p) /\ pc[p] = "upd_free"
  BY DEF FreeReturn, At
<1>2. s \in Slots /\ c \in CallRec
  BY <1>1, InodeAssumption DEF OpsOk, SlotsOk, Freeing, NoCall, CallRec, Rets
<1>3. /\ Moves(p, w, c, ofile[p]) /\ busy' = NoProc /\ UNCHANGED <<imap, zmap, dir, wchan, overput, panic>>
      /\ inode' = [inode EXCEPT ![s] = r]
  BY <1>1, <1>2 DEF FreeReturn, Return, Bread, Moves, BusyPcs, SleepPcs, OpsOk, Freeing, disk
<1>4. /\ r \in InodeRec /\ r.ino = inode[s].ino /\ r.ref = inode[s].ref /\ (s = RootSlot => r.links = inode[s].links)
      /\ r.flags = inode[s].flags \ {"I_DIRTY"}
  BY <1>1, <1>2, Fields
<1> HIDE DEF s, w, c, r
<1>5. OthersCalls(p) /\ pc'[p] = w /\ call'[p] = c /\ ofile'[p] = ofile[p]
  BY <1>3, Moved
<1>6. inode'[s] = r /\ \A t \in Slots : t # s => inode'[t] = inode[t]
  BY <1>2, <1>3, <1>4, SlotUpdated
<1>7. OpsOk(p)' /\ Yields(p)
  BY <1>1, <1>3, <1>5 DEF OpsOk, Opens, Freeing, Yields, BusyPcs, w, c, NoCall
<1>8. SlotsOk(p)'
  BY <1>1, <1>2, <1>4, <1>5, <1>6 DEF SlotsOk, HoldsInode, Freeing, OpsOk, Is, w, c, s, NoCall
<1>9. LocksMoved(p)
  <2>1. Locks(p) = {} /\ Locks(p)' = {}
    BY <1>1, <1>5 DEF Locks, InIget, OpsOk, w, c, s
  <2> QED BY <1>1, <1>2, <1>4, <1>6, <2>1 DEF LocksMoved, Is
<1>10. /\ HoldsDir(p)' <=> HoldsDir(p)
       /\ HoldsInode(p)' <=> HoldsInode(p)
       /\ HoldsInode(p) => c.s = call[p].s
  BY <1>1, <1>5 DEF HoldsDir, HoldsInode, InIget, OpsOk, Freeing, w, c, Opens, NoCall
<1>11. SleepersMarked' /\ wchan' \in [Procs -> Slots \cup {NoSlot}]
  BY <1>2, <1>3, <1>4, <1>6, SleepersStay
<1>12. DiskTyped' /\ ROOT_INODE \in imap' /\ dir' \subseteq dir
  BY <1>2, <1>3 DEF DiskTyped, RootKept, FreeReturn, Written, InodeRec, s
<1> QED BY <1>1, <1>2, <1>3, <1>4, <1>7, <1>8, <1>9, <1>10, <1>11, <1>12, WorkStep


(* ... or parenti() does.                                                   *)
LEMMA FreedParentInv == ASSUME IndInv, Steady, NEW p \in Procs, call[p].ret # "user", FreeReturn(p) PROVE IndInv'
<1> USE Given
<1> DEFINE s == call[p].s  w == "parent"  c == [call[p] EXCEPT !.free = FALSE]
           r == Clean(inode[s])
<1>1. Runs(p) /\ pc[p] = "upd_free" /\ call[p].ret = "parent"
  BY DEF FreeReturn, At, OpsOk
<1>2. s \in Slots /\ c \in CallRec
  BY <1>1, CallFields DEF OpsOk, SlotsOk, Freeing
<1>3. /\ Moves(p, w, c, ofile[p]) /\ busy' = p /\ UNCHANGED <<imap, zmap, dir, wchan, overput, panic>>
      /\ inode' = [inode EXCEPT ![s] = r]
  BY <1>1, <1>2 DEF FreeReturn, Go, Moves, BusyPcs, SleepPcs, OpsOk, Freeing, disk
<1>4. /\ r \in InodeRec /\ r.ino = inode[s].ino /\ r.ref = inode[s].ref /\ (s = RootSlot => r.links = inode[s].links)
      /\ r.flags = inode[s].flags \ {"I_DIRTY"}
  BY <1>1, <1>2, Fields
<1> HIDE DEF s, w, c, r
<1>5. OthersCalls(p) /\ pc'[p] = w /\ call'[p] = c /\ ofile'[p] = ofile[p]
  BY <1>3, Moved
<1>6. inode'[s] = r /\ \A t \in Slots : t # s => inode'[t] = inode[t]
  BY <1>2, <1>3, <1>4, SlotUpdated
<1>7. OpsOk(p)' /\ Yields(p)
  BY <1>1, <1>3, <1>5 DEF OpsOk, Opens, Freeing, Yields, BusyPcs, w, c
<1>8. SlotsOk(p)'
  BY <1>1, <1>2, <1>4, <1>5, <1>6 DEF SlotsOk, HoldsInode, Freeing, OpsOk, Is, w, c, s
<1>9. LocksMoved(p)
  <2>1. Locks(p) = {} /\ Locks(p)' = {}
    BY <1>1, <1>5 DEF Locks, InIget, OpsOk, w, c, s
  <2> QED BY <1>1, <1>2, <1>4, <1>6, <2>1 DEF LocksMoved, Is
<1>10. /\ HoldsDir(p)' <=> HoldsDir(p)
       /\ HoldsInode(p)' <=> HoldsInode(p)
       /\ HoldsInode(p) => c.s = call[p].s
  BY <1>1, <1>5 DEF HoldsDir, HoldsInode, InIget, OpsOk, Freeing, w, c, Opens
<1>11. SleepersMarked' /\ wchan' \in [Procs -> Slots \cup {NoSlot}]
  BY <1>2, <1>3, <1>4, <1>6, SleepersStay
<1>12. DiskTyped' /\ ROOT_INODE \in imap' /\ dir' \subseteq dir
  BY <1>2, <1>3 DEF DiskTyped, RootKept, FreeReturn, Written, InodeRec, s
<1> QED BY <1>1, <1>2, <1>3, <1>4, <1>7, <1>8, <1>9, <1>10, <1>11, <1>12, WorkStep


(* creat() locks the inode and truncates it.                                *)
LEMMA CreatTruncInv == ASSUME IndInv, Steady, NEW p \in Procs, call[p].op # "open", OpenGranted(p) PROVE IndInv'
<1> USE Given
<1> DEFINE s == call[p].s  w == "trunc"  c == call[p]
           r == Lock(inode[s])
<1>1. Runs(p) /\ pc[p] = "access" /\ ~Is(call[p].s, "I_LOCK")
  BY DEF OpenGranted, At, SlotsOk
<1>2. s \in Slots /\ c \in CallRec
  BY <1>1 DEF OpsOk, SlotsOk, HoldsInode, Freeing, CallRec, Opens
<1>3. /\ Moves(p, w, c, ofile[p]) /\ busy' = p /\ UNCHANGED <<disk, wchan, overput, panic>>
      /\ inode' = [inode EXCEPT ![s] = r]
  BY <1>1, <1>2 DEF OpenGranted, Go, Moves, BusyPcs, SleepPcs, OpsOk, Freeing, disk
<1>4. /\ r \in InodeRec /\ r.ino = inode[s].ino /\ r.ref = inode[s].ref /\ (s = RootSlot => r.links = inode[s].links)
      /\ r.flags = inode[s].flags \cup {"I_LOCK"}
  BY <1>1, <1>2, Fields
<1> HIDE DEF s, w, c, r
<1>5. OthersCalls(p) /\ pc'[p] = w /\ call'[p] = c /\ ofile'[p] = ofile[p]
  BY <1>3, Moved
<1>6. inode'[s] = r /\ \A t \in Slots : t # s => inode'[t] = inode[t]
  BY <1>2, <1>3, <1>4, SlotUpdated
<1>7. OpsOk(p)' /\ Yields(p)
  BY <1>1, <1>3, <1>5 DEF OpsOk, Opens, Freeing, Yields, BusyPcs, w, c
<1>8. SlotsOk(p)'
  BY <1>1, <1>2, <1>4, <1>5, <1>6 DEF SlotsOk, HoldsInode, Freeing, OpsOk, Is, w, c, s
<1>9. LocksMoved(p)
  <2>1. Locks(p) = {} /\ Locks(p)' = {s}
    BY <1>1, <1>5 DEF Locks, InIget, OpsOk, w, c, s
  <2> QED BY <1>1, <1>2, <1>4, <1>6, <2>1 DEF LocksMoved, Is, s
<1>10. /\ HoldsDir(p)' <=> HoldsDir(p)
       /\ HoldsInode(p)' <=> HoldsInode(p)
       /\ HoldsInode(p) => c.s = call[p].s
  BY <1>1, <1>5 DEF HoldsDir, HoldsInode, InIget, OpsOk, Freeing, w, c, Opens
<1>11. SleepersMarked' /\ wchan' \in [Procs -> Slots \cup {NoSlot}]
  BY <1>2, <1>3, <1>4, <1>6, SleepersStay
<1>12. DiskTyped' /\ ROOT_INODE \in imap' /\ dir' \subseteq dir
  BY <1>3 DEF DiskTyped, RootKept, disk
<1> QED BY <1>1, <1>2, <1>3, <1>4, <1>7, <1>8, <1>9, <1>10, <1>11, <1>12, WorkStep


(* iget() has read the inode, and unlocks it.                               *)
LEMMA LoadInv == ASSUME IndInv, Steady, NEW p \in Procs, Load(p) PROVE IndInv'
<1> USE Given
<1>a. call[p].s \in Slots /\ call[p].n \in Inos \ {ROOT_INODE}
  BY DEF Load, At, SlotsOk, OpsOk, HoldsInode
<1>b. PICK d \in [links : Nat, blk : Blocks \cup {0}] : d = dinode[call[p].n]
  BY <1>a DEF DiskTyped
<1>c. PICK x \in InodeRec : /\ x = [inode[call[p].s] EXCEPT !.links = d.links, !.blk = d.blk]
                            /\ x.ino = inode[call[p].s].ino /\ x.ref = inode[call[p].s].ref
                            /\ x.flags = inode[call[p].s].flags
  <2>1. inode[call[p].s] \in InodeRec /\ d.links \in Nat /\ d.blk \in Blocks \cup {0}
    BY <1>a
  <2>2. PICK r \in InodeRec : r = inode[call[p].s]
    BY <2>1
  <2>3. PICK k \in Nat, b \in Blocks \cup {0} : k = d.links /\ b = d.blk
    BY <2>1
  <2>4. PICK y : y = [r EXCEPT !.links = k, !.blk = b]
    OBVIOUS
  <2>5. y \in InodeRec /\ y.ino = r.ino /\ y.ref = r.ref /\ y.flags = r.flags
    BY <2>4 DEF InodeRec
  <2> QED BY <2>2, <2>3, <2>4, <2>5
<1>d. PICK v \in {"found", "putnext", "newinode", "unlinked"} :
        /\ v = call[p].ret
        /\ v = "found" => call[p].op \in {"open", "creat"}
        /\ v = "putnext" => call[p].op \in {"unlink", "file_creat"}
        /\ v = "newinode" => call[p].op = "file_creat"
        /\ v = "unlinked" => call[p].op = "unlink"
  BY DEF Load, At, OpsOk, CallRec, Rets
<1>e. PICK l : l = IF v = "unlinked" THEN {RootSlot} ELSE {}
  OBVIOUS
<1> DEFINE s == call[p].s  w == v  c == call[p]
           r == Unlock(x)
<1>1. Runs(p) /\ pc[p] = "load" /\ call[p].s # RootSlot /\ ~call[p].free
  BY DEF Load, At, SlotsOk, HoldsInode, OpsOk, Freeing
<1>2. s \in Slots /\ c \in CallRec
  BY <1>1 DEF OpsOk, SlotsOk, HoldsInode, Freeing, CallRec, Opens
<1>3. /\ Moves(p, w, c, ofile[p]) /\ busy' = p /\ UNCHANGED <<disk, overput, panic>>
      /\ inode' = [inode EXCEPT ![s] = r] /\ wchan' = Woken(s)
  <2>1. inode' = [inode EXCEPT ![s] = Unlock([@ EXCEPT !.links = d.links, !.blk = d.blk])]
    BY <1>b DEF Load
  <2>2. inode' = [inode EXCEPT ![s] = r]
    BY <1>a, <1>c, <2>1
  <2> QED BY <1>2, <1>d, <2>2 DEF Load, Go, Moves, BusyPcs
<1>4. /\ r \in InodeRec /\ r.ino = inode[s].ino /\ r.ref = inode[s].ref /\ (s = RootSlot => r.links = inode[s].links)
      /\ r.flags = inode[s].flags \ {"I_LOCK", "I_WANTED"}
  BY <1>1, <1>2, <1>a, <1>c, Fields
<1> HIDE DEF s, w, c, r
<1>5. OthersCalls(p) /\ pc'[p] = w /\ call'[p] = c /\ ofile'[p] = ofile[p]
  BY <1>3, Moved
<1>6. inode'[s] = r /\ \A t \in Slots : t # s => inode'[t] = inode[t]
  BY <1>2, <1>3, <1>4, SlotUpdated
<1>7. OpsOk(p)' /\ Yields(p)
  BY <1>1, <1>3, <1>5, <1>a, <1>c, <1>d DEF OpsOk, Opens, Freeing, Yields, BusyPcs, w, c
<1>8. SlotsOk(p)'
  BY <1>1, <1>2, <1>4, <1>5, <1>6, <1>a, <1>c, <1>d DEF SlotsOk, HoldsInode, Freeing, OpsOk, Is, w, c, s
<1>9. LocksMoved(p)
  <2>1. Locks(p) = {s} \cup l /\ Locks(p)' = l
    <3>1. CASE v = "unlinked"
      BY <1>1, <1>5, <1>d, <1>e, <3>1 DEF Locks, InIget, w, c, s
    <3>2. CASE v # "unlinked"
      BY <1>1, <1>5, <1>d, <1>e, <3>2 DEF Locks, InIget, w, c, s
    <3> QED BY <3>1, <3>2
  <2>2. s \notin l
    BY <1>1, <1>e DEF s
  <2>3. s \in Slots /\ (\A t \in l : Is(t, "I_LOCK") /\ t \in Slots) /\ Is(s, "I_LOCK")
    BY <1>2, <2>1
  <2> QED BY <1>4, <1>6, <2>1, <2>2, <2>3 DEF LocksMoved, Is
<1>10. /\ HoldsDir(p)' <=> HoldsDir(p)
       /\ HoldsInode(p)' <=> HoldsInode(p)
       /\ HoldsInode(p) => c.s = call[p].s
  BY <1>1, <1>5, <1>a, <1>c, <1>d DEF HoldsDir, HoldsInode, InIget, OpsOk, Freeing, w, c, Opens
<1>11. SleepersMarked' /\ wchan' \in [Procs -> Slots \cup {NoSlot}]
  BY <1>2, <1>3, <1>4, <1>6, SleepersWoken
<1>12. DiskTyped' /\ ROOT_INODE \in imap' /\ dir' \subseteq dir
  BY <1>3 DEF DiskTyped, RootKept, disk
<1> QED
  <2> HIDE Given
  <2> QED BY <1>1, <1>2, <1>3, <1>4, <1>7, <1>8, <1>9, <1>10, <1>11, <1>12, WorkStep


(* balloc() takes the first block that is free, if there is one.            *)
LEMMA BallocInv == ASSUME IndInv, Steady, NEW p \in Procs, Balloc(p) PROVE IndInv'
<1> USE Given
<1>a. NextBlock \in Blocks \cup {0}
  <2>1. CASE Blocks \subseteq zmap
    BY <2>1 DEF NextBlock
  <2>2. CASE ~(Blocks \subseteq zmap)
    <3>1. Blocks \ zmap \in SUBSET Nat /\ Blocks \ zmap # {}
      BY <2>2, InodeAssumption
    <3>2. Min(Blocks \ zmap) \in Blocks \ zmap
      BY <3>1, Lowest
    <3> QED BY <2>2, <3>2 DEF NextBlock
  <2> QED BY <2>1, <2>2
<1>b. PICK x \in InodeRec : /\ x = [inode[ofile[p]] EXCEPT !.blk = NextBlock]
                            /\ x.ino = inode[ofile[p]].ino /\ x.ref = inode[ofile[p]].ref
                            /\ x.flags = inode[ofile[p]].flags /\ x.links = inode[ofile[p]].links
  <2>1. ofile[p] \in Slots
    <3>1. pc[p] = "balloc"
      BY DEF Balloc, At
    <3> QED BY <3>1 DEF OpsOk
  <2>2. PICK r \in InodeRec : r = inode[ofile[p]]
    BY <2>1
  <2>3. PICK y : y = [r EXCEPT !.blk = NextBlock]
    OBVIOUS
  <2>4. y \in InodeRec /\ y.ino = r.ino /\ y.ref = r.ref /\ y.flags = r.flags /\ y.links = r.links
    BY <1>a, <2>3, BlockContents
  <2> QED BY <2>2, <2>3, <2>4
<1> DEFINE s == ofile[p]  w == "io"  c == call[p]
           r == Dirty(x)
<1>1. Runs(p) /\ pc[p] = "balloc"
  BY DEF Balloc, At
<1>2. s \in Slots /\ c \in CallRec
  BY <1>1 DEF OpsOk, SlotsOk, HoldsInode, Freeing, CallRec, Opens
<1>3. /\ Moves(p, w, c, ofile[p]) /\ busy' = NoProc /\ UNCHANGED <<dinode, imap, dir, wchan, overput, panic>>
      /\ inode' = [inode EXCEPT ![s] = r]
  BY <1>1, <1>2, <1>b DEF Balloc, Bread, GotBlock, Moves, BusyPcs, SleepPcs, OpsOk, Freeing, disk
<1>4. /\ r \in InodeRec /\ r.ino = inode[s].ino /\ r.ref = inode[s].ref /\ (s = RootSlot => r.links = inode[s].links)
      /\ r.flags = inode[s].flags \cup {"I_DIRTY"}
  BY <1>1, <1>2, <1>b, Fields
<1> HIDE DEF s, w, c, r
<1>5. OthersCalls(p) /\ pc'[p] = w /\ call'[p] = c /\ ofile'[p] = ofile[p]
  BY <1>3, Moved
<1>6. inode'[s] = r /\ \A t \in Slots : t # s => inode'[t] = inode[t]
  BY <1>2, <1>3, <1>4, SlotUpdated
<1>7. OpsOk(p)' /\ Yields(p)
  BY <1>1, <1>3, <1>5, <1>b DEF OpsOk, Opens, Freeing, Yields, BusyPcs, w, c
<1>8. SlotsOk(p)'
  BY <1>1, <1>2, <1>4, <1>5, <1>6, <1>b DEF SlotsOk, HoldsInode, Freeing, OpsOk, Is, w, c, s
<1>9. LocksMoved(p)
  <2>1. Locks(p) = {s} /\ Locks(p)' = {s}
    BY <1>1, <1>5, <1>b DEF Locks, InIget, OpsOk, w, c, s
  <2> QED BY <1>1, <1>2, <1>4, <1>6, <2>1 DEF LocksMoved, Is
<1>10. /\ HoldsDir(p)' <=> HoldsDir(p)
       /\ HoldsInode(p)' <=> HoldsInode(p)
       /\ HoldsInode(p) => c.s = call[p].s
  BY <1>1, <1>5, <1>b DEF HoldsDir, HoldsInode, InIget, OpsOk, Freeing, w, c, Opens
<1>11. SleepersMarked' /\ wchan' \in [Procs -> Slots \cup {NoSlot}]
  BY <1>2, <1>3, <1>4, <1>6, SleepersStay
<1>12. DiskTyped' /\ ROOT_INODE \in imap' /\ dir' \subseteq dir
  BY <1>3, <1>a DEF DiskTyped, RootKept, Balloc
<1> QED BY <1>1, <1>2, <1>3, <1>4, <1>7, <1>8, <1>9, <1>10, <1>11, <1>12, WorkStep

(* Writing to i_refcount leaves the rest of the entry alone.                *)
LEMMA RefContents ==
    ASSUME NEW r \in InodeRec, NEW k \in Nat, NEW x, x = [r EXCEPT !.ref = k]
    PROVE  x \in InodeRec /\ x.ino = r.ino /\ x.ref = k /\ x.flags = r.flags /\ x.links = r.links
BY DEF InodeRec

(* The local variables of a call that begins.                               *)
Started(op, x) == [NoCall EXCEPT !.op = op, !.name = x]

(* They have their types.                                                   *)
LEMMA Begun ==
    ASSUME NEW op \in {"open", "creat", "unlink"}, NEW x \in Names
    PROVE  /\ Started(op, x) \in CallRec
           /\ Started(op, x).op = op /\ Started(op, x).name = x /\ ~Started(op, x).free
<1>1. Started(op, x) \in CallRec
  <2>1. NoCall \in CallRec
    BY DEF NoCall, CallRec, Rets
  <2> QED BY <2>1 DEF CallRec, Started
<1>2. Started(op, x).op = op /\ Started(op, x).name = x /\ ~Started(op, x).free
  BY DEF NoCall, Started
<1> QED BY <1>1, <1>2

-----------------------------------------------------------------------------
(* Steps that take or give up a reference.                                  *)

(* namei() puts the directory.                                              *)
LEMMA NameiReturnInv == ASSUME IndInv, Steady, NEW p \in Procs, NameiReturn(p) PROVE IndInv'
<1> USE Given
<1> DEFINE s == RootSlot  w == "access"  c == call[p]  o == ofile[p]
           r == Put(inode[s])
<1>1. Runs(p) /\ pc[p] = "found" /\ inode[RootSlot].ref > 0
  BY RootReferenced DEF NameiReturn, At
<1>2. s \in Slots /\ c \in CallRec /\ o \in Slots \cup {NoSlot}
  BY DEF CallRec
<1>3. /\ Moves(p, w, c, o) /\ busy' = p /\ UNCHANGED <<disk, wchan, panic>> /\ overput' = overput
      /\ inode' = [inode EXCEPT ![s] = r]
  BY <1>2 DEF NameiReturn, Go, Moves, BusyPcs
<1>4. /\ r \in InodeRec /\ r.ino = inode[s].ino /\ (s = RootSlot => r.links = inode[s].links)
      /\ r.ref = inode[s].ref - 1 /\ r.flags = inode[s].flags
  BY <1>1, <1>2, Fields
<1> HIDE DEF s, w, c, o, r
<1>5. OthersCalls(p) /\ pc'[p] = w /\ call'[p] = c /\ ofile'[p] = o
  BY <1>3, Moved
<1>6. inode'[s] = r /\ \A t \in Slots : t # s => inode'[t] = inode[t]
  BY <1>2, <1>3, <1>4, SlotUpdated
<1>7. OpsOk(p)' /\ Yields(p)
  BY <1>1, <1>3, <1>5 DEF OpsOk, Opens, Freeing, Yields, BusyPcs, w, c, o
<1>8. SlotsOk(p)'
  BY <1>1, <1>2, <1>4, <1>5, <1>6 DEF SlotsOk, HoldsInode, Freeing, OpsOk, Is, RootKept, ROOT_INODE, w, c, o, s
<1>9. LocksMoved(p)
  <2>1. Locks(p) = {} /\ Locks(p)' = {}
    BY <1>1, <1>5 DEF Locks, InIget, OpsOk, w, c, o, s
  <2> QED BY <1>1, <1>2, <1>4, <1>6, <2>1 DEF LocksMoved, Is, s
<1>10. RefsMoved(p)
  <2>1. HoldsDir(p) /\ ~HoldsDir(p)' /\ HoldsInode(p) /\ HoldsInode(p)' /\ call'[p].s = call[p].s /\ ofile'[p] = ofile[p]
    BY <1>1, <1>5 DEF HoldsDir, HoldsInode, InIget, OpsOk, Freeing, w, c, o
  <2>2. \A t \in Slots : inode'[t].ref = IF t = RootSlot THEN inode[t].ref - 1 ELSE inode[t].ref
    BY <1>2, <1>4, <1>6 DEF s
  <2> QED BY <1>3, <2>1, <2>2, RefsPutRoot
<1>11. SleepersMarked' /\ wchan' \in [Procs -> Slots \cup {NoSlot}]
  BY <1>2, <1>3, <1>4, <1>6, SleepersStay
<1>12. DiskTyped' /\ ROOT_INODE \in imap' /\ (\A e \in dir' : e[2] # ROOT_INODE) /\ Stays
  <2>1. Stays
    BY <1>2, <1>3, <1>4, SlotStays
  <2> QED BY <2>1, <1>3 DEF DiskTyped, RootKept, disk
<1>13. overput' \in Nat
  BY <1>3
<1> QED BY <1>1, <1>2, <1>3, <1>7, <1>8, <1>9, <1>10, <1>11, <1>12, <1>13, QuietStep


(* namei() is denied access to the directory, and puts it.                  *)
LEMMA LookupReturnInv == ASSUME IndInv, Steady, NEW p \in Procs, call[p].op \notin Opens, LookupDenied(p) PROVE IndInv'
<1> USE Given
<1> DEFINE s == RootSlot  w == "user"  c == NoCall  o == ofile[p]
           r == Put(inode[s])
<1>1. Runs(p) /\ pc[p] = "lockdir" /\ inode[RootSlot].ref > 0
  BY RootReferenced DEF LookupDenied, At
<1>2. s \in Slots /\ c \in CallRec /\ o \in Slots \cup {NoSlot}
  BY InodeAssumption DEF NoCall, CallRec, Rets
<1>3. /\ Moves(p, w, c, o) /\ busy' = NoProc /\ UNCHANGED <<disk, wchan, panic>> /\ overput' = overput
      /\ inode' = [inode EXCEPT ![s] = r]
  BY <1>2 DEF LookupDenied, Fail, Return, Bread, Moves, SleepPcs
<1>4. /\ r \in InodeRec /\ r.ino = inode[s].ino /\ (s = RootSlot => r.links = inode[s].links)
      /\ r.ref = inode[s].ref - 1 /\ r.flags = inode[s].flags
  BY <1>1, <1>2, Fields
<1> HIDE DEF s, w, c, o, r
<1>5. OthersCalls(p) /\ pc'[p] = w /\ call'[p] = c /\ ofile'[p] = o
  BY <1>3, Moved
<1>6. inode'[s] = r /\ \A t \in Slots : t # s => inode'[t] = inode[t]
  BY <1>2, <1>3, <1>4, SlotUpdated
<1>7. OpsOk(p)' /\ Yields(p)
  BY <1>1, <1>3, <1>5 DEF OpsOk, Opens, Freeing, Yields, BusyPcs, w, c, o, NoCall
<1>8. SlotsOk(p)'
  BY <1>1, <1>2, <1>4, <1>5, <1>6 DEF SlotsOk, HoldsInode, Freeing, OpsOk, Is, RootKept, ROOT_INODE, w, c, o, s, NoCall
<1>9. LocksMoved(p)
  <2>1. Locks(p) = {} /\ Locks(p)' = {}
    BY <1>1, <1>5 DEF Locks, InIget, OpsOk, w, c, o, s
  <2> QED BY <1>1, <1>2, <1>4, <1>6, <2>1 DEF LocksMoved, Is, s
<1>10. RefsMoved(p)
  <2>1. HoldsDir(p) /\ ~HoldsDir(p)' /\ ~HoldsInode(p) /\ ~HoldsInode(p)' /\ ofile'[p] = ofile[p]
    BY <1>1, <1>5 DEF HoldsDir, HoldsInode, InIget, OpsOk, Freeing, w, c, o
  <2>2. \A t \in Slots : inode'[t].ref = IF t = RootSlot THEN inode[t].ref - 1 ELSE inode[t].ref
    BY <1>2, <1>4, <1>6 DEF s
  <2> QED BY <1>3, <2>1, <2>2, RefsPutRoot
<1>11. SleepersMarked' /\ wchan' \in [Procs -> Slots \cup {NoSlot}]
  BY <1>2, <1>3, <1>4, <1>6, SleepersStay
<1>12. DiskTyped' /\ ROOT_INODE \in imap' /\ (\A e \in dir' : e[2] # ROOT_INODE) /\ Stays
  <2>1. Stays
    BY <1>2, <1>3, <1>4, SlotStays
  <2> QED BY <2>1, <1>3 DEF DiskTyped, RootKept, disk
<1>13. overput' \in Nat
  BY <1>3
<1> QED BY <1>1, <1>2, <1>3, <1>7, <1>8, <1>9, <1>10, <1>11, <1>12, <1>13, QuietStep


(* open() is, and puts it once more.                                        *)
LEMMA LookupOverputInv == ASSUME IndInv, Steady, NEW p \in Procs, call[p].op \in Opens, LookupDenied(p) PROVE IndInv'
<1> USE Given
<1> DEFINE s == RootSlot  w == "iput"  c == [call[p] EXCEPT !.s = RootSlot, !.ret = "user"]  o == ofile[p]
           r == Put(inode[s])
<1>1. Runs(p) /\ pc[p] = "lockdir" /\ inode[RootSlot].ref > 0
  BY RootReferenced DEF LookupDenied, At
<1>2. s \in Slots /\ c \in CallRec /\ o \in Slots \cup {NoSlot}
  BY CallFields DEF Rets
<1>3. /\ Moves(p, w, c, o) /\ busy' = p /\ UNCHANGED <<disk, wchan, panic>> /\ overput' = overput + 1
      /\ inode' = [inode EXCEPT ![s] = r]
  BY <1>2, ZenonT(40) DEF LookupDenied, Fail, Overput, Moves, BusyPcs
<1>4. /\ r \in InodeRec /\ r.ino = inode[s].ino /\ (s = RootSlot => r.links = inode[s].links)
      /\ r.ref = inode[s].ref - 1 /\ r.flags = inode[s].flags
  BY <1>1, <1>2, Fields
<1> HIDE DEF s, w, c, o, r
<1>5. OthersCalls(p) /\ pc'[p] = w /\ call'[p] = c /\ ofile'[p] = o
  BY <1>3, Moved
<1>6. inode'[s] = r /\ \A t \in Slots : t # s => inode'[t] = inode[t]
  BY <1>2, <1>3, <1>4, SlotUpdated
<1>7. OpsOk(p)' /\ Yields(p)
  BY <1>1, <1>3, <1>5 DEF OpsOk, Opens, Freeing, Yields, BusyPcs, w, c, o
<1>8. SlotsOk(p)'
  BY <1>1, <1>2, <1>4, <1>5, <1>6 DEF SlotsOk, HoldsInode, Freeing, OpsOk, Is, RootKept, ROOT_INODE, w, c, o, s
<1>9. LocksMoved(p)
  <2>1. Locks(p) = {} /\ Locks(p)' = {}
    BY <1>1, <1>5 DEF Locks, InIget, OpsOk, w, c, o, s
  <2> QED BY <1>1, <1>2, <1>4, <1>6, <2>1 DEF LocksMoved, Is, s
<1>10. RefsMoved(p)
  <2>1. HoldsDir(p) /\ ~HoldsDir(p)' /\ ~HoldsInode(p) /\ HoldsInode(p)' /\ ofile'[p] = ofile[p] /\ call'[p].s = RootSlot
    BY <1>1, <1>5 DEF HoldsDir, HoldsInode, InIget, OpsOk, Freeing, w, c, o
  <2>2. \A t \in Slots : inode'[t].ref = IF t = RootSlot THEN inode[t].ref - 1 ELSE inode[t].ref
    BY <1>2, <1>4, <1>6 DEF s
  <2> QED BY <1>3, <2>1, <2>2, RefsOverput
<1>11. SleepersMarked' /\ wchan' \in [Procs -> Slots \cup {NoSlot}]
  BY <1>2, <1>3, <1>4, <1>6, SleepersStay
<1>12. DiskTyped' /\ ROOT_INODE \in imap' /\ (\A e \in dir' : e[2] # ROOT_INODE) /\ Stays
  <2>1. Stays
    BY <1>2, <1>3, <1>4, SlotStays
  <2> QED BY <2>1, <1>3 DEF DiskTyped, RootKept, disk
<1>13. overput' \in Nat
  BY <1>3
<1> QED BY <1>1, <1>2, <1>3, <1>7, <1>8, <1>9, <1>10, <1>11, <1>12, <1>13, QuietStep


(* sys_unlink() is denied access to the directory, and puts it.             *)
LEMMA ParentReturnInv == ASSUME IndInv, Steady, NEW p \in Procs, call[p].op \notin Opens, ParentDenied(p) PROVE IndInv'
<1> USE Given
<1> DEFINE s == RootSlot  w == "user"  c == NoCall  o == ofile[p]
           r == Put(inode[s])
<1>1. Runs(p) /\ pc[p] = "parent" /\ inode[RootSlot].ref > 0
  BY RootReferenced DEF ParentDenied, At
<1>2. s \in Slots /\ c \in CallRec /\ o \in Slots \cup {NoSlot}
  BY InodeAssumption DEF NoCall, CallRec, Rets
<1>3. /\ Moves(p, w, c, o) /\ busy' = NoProc /\ UNCHANGED <<disk, wchan, panic>> /\ overput' = overput
      /\ inode' = [inode EXCEPT ![s] = r]
  BY <1>2 DEF ParentDenied, Fail, Return, Bread, Moves, SleepPcs
<1>4. /\ r \in InodeRec /\ r.ino = inode[s].ino /\ (s = RootSlot => r.links = inode[s].links)
      /\ r.ref = inode[s].ref - 1 /\ r.flags = inode[s].flags
  BY <1>1, <1>2, Fields
<1> HIDE DEF s, w, c, o, r
<1>5. OthersCalls(p) /\ pc'[p] = w /\ call'[p] = c /\ ofile'[p] = o
  BY <1>3, Moved
<1>6. inode'[s] = r /\ \A t \in Slots : t # s => inode'[t] = inode[t]
  BY <1>2, <1>3, <1>4, SlotUpdated
<1>7. OpsOk(p)' /\ Yields(p)
  BY <1>1, <1>3, <1>5 DEF OpsOk, Opens, Freeing, Yields, BusyPcs, w, c, o, NoCall
<1>8. SlotsOk(p)'
  BY <1>1, <1>2, <1>4, <1>5, <1>6 DEF SlotsOk, HoldsInode, Freeing, OpsOk, Is, RootKept, ROOT_INODE, w, c, o, s, NoCall
<1>9. LocksMoved(p)
  <2>1. Locks(p) = {} /\ Locks(p)' = {}
    BY <1>1, <1>5 DEF Locks, InIget, OpsOk, w, c, o, s
  <2> QED BY <1>1, <1>2, <1>4, <1>6, <2>1 DEF LocksMoved, Is, s
<1>10. RefsMoved(p)
  <2>1. HoldsDir(p) /\ ~HoldsDir(p)' /\ ~HoldsInode(p) /\ ~HoldsInode(p)' /\ ofile'[p] = ofile[p]
    BY <1>1, <1>5 DEF HoldsDir, HoldsInode, InIget, OpsOk, Freeing, w, c, o
  <2>2. \A t \in Slots : inode'[t].ref = IF t = RootSlot THEN inode[t].ref - 1 ELSE inode[t].ref
    BY <1>2, <1>4, <1>6 DEF s
  <2> QED BY <1>3, <2>1, <2>2, RefsPutRoot
<1>11. SleepersMarked' /\ wchan' \in [Procs -> Slots \cup {NoSlot}]
  BY <1>2, <1>3, <1>4, <1>6, SleepersStay
<1>12. DiskTyped' /\ ROOT_INODE \in imap' /\ (\A e \in dir' : e[2] # ROOT_INODE) /\ Stays
  <2>1. Stays
    BY <1>2, <1>3, <1>4, SlotStays
  <2> QED BY <2>1, <1>3 DEF DiskTyped, RootKept, disk
<1>13. overput' \in Nat
  BY <1>3
<1> QED BY <1>1, <1>2, <1>3, <1>7, <1>8, <1>9, <1>10, <1>11, <1>12, <1>13, QuietStep


(* open() is, and puts it once more.                                        *)
LEMMA ParentOverputInv == ASSUME IndInv, Steady, NEW p \in Procs, call[p].op \in Opens, ParentDenied(p) PROVE IndInv'
<1> USE Given
<1> DEFINE s == RootSlot  w == "iput"  c == [call[p] EXCEPT !.s = RootSlot, !.ret = "user"]  o == ofile[p]
           r == Put(inode[s])
<1>1. Runs(p) /\ pc[p] = "parent" /\ inode[RootSlot].ref > 0
  BY RootReferenced DEF ParentDenied, At
<1>2. s \in Slots /\ c \in CallRec /\ o \in Slots \cup {NoSlot}
  BY CallFields DEF Rets
<1>3. /\ Moves(p, w, c, o) /\ busy' = p /\ UNCHANGED <<disk, wchan, panic>> /\ overput' = overput + 1
      /\ inode' = [inode EXCEPT ![s] = r]
  <2>1. inode' = [inode EXCEPT ![s] = r] /\ UNCHANGED <<disk, wchan, panic>> /\ overput' = overput + 1 /\ busy' = p
    BY DEF ParentDenied, Fail, Overput
  <2>2. call' = [call EXCEPT ![p] = c]
    BY DEF ParentDenied, Fail, Overput
  <2>3. pc' = [pc EXCEPT ![p] = w] /\ ofile' = [ofile EXCEPT ![p] = o] /\ w \in BusyPcs \cup SleepPcs
    BY DEF ParentDenied, Fail, Overput, BusyPcs
  <2> HIDE DEF s, w, c, o, r
  <2> QED BY <1>2, <2>1, <2>2, <2>3 DEF Moves
<1>4. /\ r \in InodeRec /\ r.ino = inode[s].ino /\ (s = RootSlot => r.links = inode[s].links)
      /\ r.ref = inode[s].ref - 1 /\ r.flags = inode[s].flags
  BY <1>1, <1>2, Fields
<1> HIDE DEF s, w, c, o, r
<1>5. OthersCalls(p) /\ pc'[p] = w /\ call'[p] = c /\ ofile'[p] = o
  BY <1>3, Moved
<1>6. inode'[s] = r /\ \A t \in Slots : t # s => inode'[t] = inode[t]
  BY <1>2, <1>3, <1>4, SlotUpdated
<1>7. OpsOk(p)' /\ Yields(p)
  BY <1>1, <1>3, <1>5 DEF OpsOk, Opens, Freeing, Yields, BusyPcs, w, c, o
<1>8. SlotsOk(p)'
  BY <1>1, <1>2, <1>4, <1>5, <1>6 DEF SlotsOk, HoldsInode, Freeing, OpsOk, Is, RootKept, ROOT_INODE, w, c, o, s
<1>9. LocksMoved(p)
  <2>1. Locks(p) = {} /\ Locks(p)' = {}
    BY <1>1, <1>5 DEF Locks, InIget, OpsOk, w, c, o, s
  <2> QED BY <1>1, <1>2, <1>4, <1>6, <2>1 DEF LocksMoved, Is, s
<1>10. RefsMoved(p)
  <2>1. HoldsDir(p) /\ ~HoldsDir(p)' /\ ~HoldsInode(p) /\ HoldsInode(p)' /\ ofile'[p] = ofile[p] /\ call'[p].s = RootSlot
    BY <1>1, <1>5 DEF HoldsDir, HoldsInode, InIget, OpsOk, Freeing, w, c, o
  <2>2. \A t \in Slots : inode'[t].ref = IF t = RootSlot THEN inode[t].ref - 1 ELSE inode[t].ref
    BY <1>2, <1>4, <1>6 DEF s
  <2> QED BY <1>3, <2>1, <2>2, RefsOverput
<1>11. SleepersMarked' /\ wchan' \in [Procs -> Slots \cup {NoSlot}]
  BY <1>2, <1>3, <1>4, <1>6, SleepersStay
<1>12. DiskTyped' /\ ROOT_INODE \in imap' /\ (\A e \in dir' : e[2] # ROOT_INODE) /\ Stays
  <2>1. Stays
    BY <1>2, <1>3, <1>4, SlotStays
  <2> QED BY <2>1, <1>3 DEF DiskTyped, RootKept, disk
<1>13. overput' \in Nat
  BY <1>3
<1> QED BY <1>1, <1>2, <1>3, <1>7, <1>8, <1>9, <1>10, <1>11, <1>12, <1>13, QuietStep


(* sys_unlink() finds no entry.                                             *)
LEMMA UnlinkNoEntryInv == ASSUME IndInv, Steady, NEW p \in Procs, UnlinkNoEntry(p) PROVE IndInv'
<1> USE Given
<1> DEFINE s == RootSlot  w == "user"  c == NoCall  o == ofile[p]
           r == Put(Unlock(inode[s]))
<1>1. Runs(p) /\ pc[p] = "scan" /\ inode[RootSlot].ref > 0
  BY RootReferenced DEF UnlinkNoEntry, At
<1>2. s \in Slots /\ c \in CallRec /\ o \in Slots \cup {NoSlot}
  BY InodeAssumption DEF NoCall, CallRec, Rets
<1>3. /\ Moves(p, w, c, o) /\ busy' = NoProc /\ UNCHANGED <<disk, panic>> /\ overput' = overput
      /\ inode' = [inode EXCEPT ![s] = r] /\ wchan' = Woken(s)
  BY <1>2 DEF UnlinkNoEntry, Return, Bread, Moves, SleepPcs
<1>4. /\ r \in InodeRec /\ r.ino = inode[s].ino /\ (s = RootSlot => r.links = inode[s].links)
      /\ r.ref = inode[s].ref - 1 /\ r.flags = inode[s].flags \ {"I_LOCK", "I_WANTED"}
  BY <1>1, <1>2, Fields
<1> HIDE DEF s, w, c, o, r
<1>5. OthersCalls(p) /\ pc'[p] = w /\ call'[p] = c /\ ofile'[p] = o
  BY <1>3, Moved
<1>6. inode'[s] = r /\ \A t \in Slots : t # s => inode'[t] = inode[t]
  BY <1>2, <1>3, <1>4, SlotUpdated
<1>7. OpsOk(p)' /\ Yields(p)
  BY <1>1, <1>3, <1>5 DEF OpsOk, Opens, Freeing, Yields, BusyPcs, w, c, o, NoCall
<1>8. SlotsOk(p)'
  BY <1>1, <1>2, <1>4, <1>5, <1>6 DEF SlotsOk, HoldsInode, Freeing, OpsOk, Is, RootKept, ROOT_INODE, w, c, o, s, NoCall
<1>9. LocksMoved(p)
  <2>1. Locks(p) = {s} /\ Locks(p)' = {}
    BY <1>1, <1>5 DEF Locks, InIget, OpsOk, w, c, o, s
  <2> QED BY <1>1, <1>2, <1>4, <1>6, <2>1 DEF LocksMoved, Is, s
<1>10. RefsMoved(p)
  <2>1. HoldsDir(p) /\ ~HoldsDir(p)' /\ ~HoldsInode(p) /\ ~HoldsInode(p)' /\ ofile'[p] = ofile[p]
    BY <1>1, <1>5 DEF HoldsDir, HoldsInode, InIget, OpsOk, Freeing, w, c, o
  <2>2. \A t \in Slots : inode'[t].ref = IF t = RootSlot THEN inode[t].ref - 1 ELSE inode[t].ref
    BY <1>2, <1>4, <1>6 DEF s
  <2> QED BY <1>3, <2>1, <2>2, RefsPutRoot
<1>11. SleepersMarked' /\ wchan' \in [Procs -> Slots \cup {NoSlot}]
  BY <1>2, <1>3, <1>4, <1>6, SleepersWoken
<1>12. DiskTyped' /\ ROOT_INODE \in imap' /\ (\A e \in dir' : e[2] # ROOT_INODE) /\ Stays
  <2>1. Stays
    BY <1>2, <1>3, <1>4, SlotStays
  <2> QED BY <2>1, <1>3 DEF DiskTyped, RootKept, disk
<1>13. overput' \in Nat
  BY <1>3
<1> QED BY <1>1, <1>2, <1>3, <1>7, <1>8, <1>9, <1>10, <1>11, <1>12, <1>13, QuietStep


(* parenti() has the directory, where the name is not ...                   *)
LEMMA NotFoundParentInv == ASSUME IndInv, Steady, NEW p \in Procs, WantsParent(p), NotFound(p) PROVE IndInv'
<1> USE Given
<1> DEFINE s == RootSlot  w == "parent"  c == call[p]  o == ofile[p]
           r == Unlock(inode[s])
<1>1. Runs(p) /\ pc[p] = "readdir"
  BY DEF NotFound, At
<1>2. s \in Slots /\ c \in CallRec /\ o \in Slots \cup {NoSlot}
  BY DEF CallRec
<1>3. /\ Moves(p, w, c, o) /\ busy' = p /\ UNCHANGED <<disk, panic>> /\ overput' = overput
      /\ inode' = [inode EXCEPT ![s] = r] /\ wchan' = Woken(s)
  BY <1>2 DEF NotFound, Go, Moves, BusyPcs
<1>4. /\ r \in InodeRec /\ r.ino = inode[s].ino /\ (s = RootSlot => r.links = inode[s].links)
      /\ r.ref = inode[s].ref /\ r.flags = inode[s].flags \ {"I_LOCK", "I_WANTED"}
  BY <1>1, <1>2, Fields
<1> HIDE DEF s, w, c, o, r
<1>5. OthersCalls(p) /\ pc'[p] = w /\ call'[p] = c /\ ofile'[p] = o
  BY <1>3, Moved
<1>6. inode'[s] = r /\ \A t \in Slots : t # s => inode'[t] = inode[t]
  BY <1>2, <1>3, <1>4, SlotUpdated
<1>7. OpsOk(p)' /\ Yields(p)
  BY <1>1, <1>3, <1>5 DEF OpsOk, Opens, Freeing, Yields, BusyPcs, w, c, o, WantsParent
<1>8. SlotsOk(p)'
  BY <1>1, <1>2, <1>4, <1>5, <1>6 DEF SlotsOk, HoldsInode, Freeing, OpsOk, Is, RootKept, ROOT_INODE, w, c, o, s
<1>9. LocksMoved(p)
  <2>1. Locks(p) = {s} /\ Locks(p)' = {}
    BY <1>1, <1>5 DEF Locks, InIget, OpsOk, w, c, o, s
  <2> QED BY <1>1, <1>2, <1>4, <1>6, <2>1 DEF LocksMoved, Is, s
<1>10. RefsMoved(p)
  <2>1. HoldsDir(p) /\ HoldsDir(p)' /\ ~HoldsInode(p) /\ ~HoldsInode(p)' /\ ofile'[p] = ofile[p]
    BY <1>1, <1>5 DEF HoldsDir, HoldsInode, InIget, OpsOk, Freeing, w, c, o
  <2>2. \A t \in Slots : inode'[t].ref = inode[t].ref
    BY <1>2, <1>4, <1>6
  <2> QED BY <1>3, <2>1, <2>2, RefsSame
<1>11. SleepersMarked' /\ wchan' \in [Procs -> Slots \cup {NoSlot}]
  BY <1>2, <1>3, <1>4, <1>6, SleepersWoken
<1>12. DiskTyped' /\ ROOT_INODE \in imap' /\ (\A e \in dir' : e[2] # ROOT_INODE) /\ Stays
  <2>1. Stays
    BY <1>2, <1>3, <1>4, SlotStays
  <2> QED BY <2>1, <1>3 DEF DiskTyped, RootKept, disk
<1>13. overput' \in Nat
  BY <1>3
<1> QED BY <1>1, <1>2, <1>3, <1>7, <1>8, <1>9, <1>10, <1>11, <1>12, <1>13, QuietStep


(* ... and creat() goes on to file_creat(), ...                             *)
LEMMA NotFoundCreatInv == ASSUME IndInv, Steady, NEW p \in Procs, call[p].op = "creat", NotFound(p) PROVE IndInv'
<1> USE Given
<1> DEFINE s == RootSlot  w == "file_creat"  c == call[p]  o == ofile[p]
           r == Put(Unlock(inode[s]))
<1>1. Runs(p) /\ pc[p] = "readdir" /\ inode[RootSlot].ref > 0
  BY RootReferenced DEF NotFound, At
<1>2. s \in Slots /\ c \in CallRec /\ o \in Slots \cup {NoSlot}
  BY DEF CallRec
<1>3. /\ Moves(p, w, c, o) /\ busy' = p /\ UNCHANGED <<disk, panic>> /\ overput' = overput
      /\ inode' = [inode EXCEPT ![s] = r] /\ wchan' = Woken(s)
  BY <1>2 DEF NotFound, WantsParent, Go, Moves, BusyPcs
<1>4. /\ r \in InodeRec /\ r.ino = inode[s].ino /\ (s = RootSlot => r.links = inode[s].links)
      /\ r.ref = inode[s].ref - 1 /\ r.flags = inode[s].flags \ {"I_LOCK", "I_WANTED"}
  BY <1>1, <1>2, Fields
<1> HIDE DEF s, w, c, o, r
<1>5. OthersCalls(p) /\ pc'[p] = w /\ call'[p] = c /\ ofile'[p] = o
  BY <1>3, Moved
<1>6. inode'[s] = r /\ \A t \in Slots : t # s => inode'[t] = inode[t]
  BY <1>2, <1>3, <1>4, SlotUpdated
<1>7. OpsOk(p)' /\ Yields(p)
  BY <1>1, <1>3, <1>5 DEF OpsOk, Opens, Freeing, Yields, BusyPcs, w, c, o
<1>8. SlotsOk(p)'
  BY <1>1, <1>2, <1>4, <1>5, <1>6 DEF SlotsOk, HoldsInode, Freeing, OpsOk, Is, RootKept, ROOT_INODE, w, c, o, s
<1>9. LocksMoved(p)
  <2>1. Locks(p) = {s} /\ Locks(p)' = {}
    BY <1>1, <1>5 DEF Locks, InIget, OpsOk, w, c, o, s
  <2> QED BY <1>1, <1>2, <1>4, <1>6, <2>1 DEF LocksMoved, Is, s
<1>10. RefsMoved(p)
  <2>1. HoldsDir(p) /\ ~HoldsDir(p)' /\ ~HoldsInode(p) /\ ~HoldsInode(p)' /\ ofile'[p] = ofile[p]
    BY <1>1, <1>5 DEF HoldsDir, HoldsInode, InIget, OpsOk, Freeing, w, c, o
  <2>2. \A t \in Slots : inode'[t].ref = IF t = RootSlot THEN inode[t].ref - 1 ELSE inode[t].ref
    BY <1>2, <1>4, <1>6 DEF s
  <2> QED BY <1>3, <2>1, <2>2, RefsPutRoot
<1>11. SleepersMarked' /\ wchan' \in [Procs -> Slots \cup {NoSlot}]
  BY <1>2, <1>3, <1>4, <1>6, SleepersWoken
<1>12. DiskTyped' /\ ROOT_INODE \in imap' /\ (\A e \in dir' : e[2] # ROOT_INODE) /\ Stays
  <2>1. Stays
    BY <1>2, <1>3, <1>4, SlotStays
  <2> QED BY <2>1, <1>3 DEF DiskTyped, RootKept, disk
<1>13. overput' \in Nat
  BY <1>3
<1> QED BY <1>1, <1>2, <1>3, <1>7, <1>8, <1>9, <1>10, <1>11, <1>12, <1>13, QuietStep


(* ... and open() fails, and puts the directory once more.                  *)
LEMMA NotFoundOverputInv == ASSUME IndInv, Steady, NEW p \in Procs, call[p].op = "open", NotFound(p) PROVE IndInv'
<1> USE Given
<1> DEFINE s == RootSlot  w == "iput"  c == [call[p] EXCEPT !.s = RootSlot, !.ret = "user"]  o == ofile[p]
           r == Put(Unlock(inode[s]))
<1>1. Runs(p) /\ pc[p] = "readdir" /\ inode[RootSlot].ref > 0
  BY RootReferenced DEF NotFound, At
<1>2. s \in Slots /\ c \in CallRec /\ o \in Slots \cup {NoSlot}
  BY CallFields DEF Rets
<1>3. /\ Moves(p, w, c, o) /\ busy' = p /\ UNCHANGED <<disk, panic>> /\ overput' = overput + 1
      /\ inode' = [inode EXCEPT ![s] = r] /\ wchan' = Woken(s)
  BY <1>2 DEF NotFound, WantsParent, Fail, Opens, Overput, Moves, BusyPcs
<1>4. /\ r \in InodeRec /\ r.ino = inode[s].ino /\ (s = RootSlot => r.links = inode[s].links)
      /\ r.ref = inode[s].ref - 1 /\ r.flags = inode[s].flags \ {"I_LOCK", "I_WANTED"}
  BY <1>1, <1>2, Fields
<1> HIDE DEF s, w, c, o, r
<1>5. OthersCalls(p) /\ pc'[p] = w /\ call'[p] = c /\ ofile'[p] = o
  BY <1>3, Moved
<1>6. inode'[s] = r /\ \A t \in Slots : t # s => inode'[t] = inode[t]
  BY <1>2, <1>3, <1>4, SlotUpdated
<1>7. OpsOk(p)' /\ Yields(p)
  BY <1>1, <1>3, <1>5 DEF OpsOk, Opens, Freeing, Yields, BusyPcs, w, c, o
<1>8. SlotsOk(p)'
  BY <1>1, <1>2, <1>4, <1>5, <1>6 DEF SlotsOk, HoldsInode, Freeing, OpsOk, Is, RootKept, ROOT_INODE, w, c, o, s
<1>9. LocksMoved(p)
  <2>1. Locks(p) = {s} /\ Locks(p)' = {}
    BY <1>1, <1>5 DEF Locks, InIget, OpsOk, w, c, o, s
  <2> QED BY <1>1, <1>2, <1>4, <1>6, <2>1 DEF LocksMoved, Is, s
<1>10. RefsMoved(p)
  <2>1. HoldsDir(p) /\ ~HoldsDir(p)' /\ ~HoldsInode(p) /\ HoldsInode(p)' /\ ofile'[p] = ofile[p] /\ call'[p].s = RootSlot
    BY <1>1, <1>5 DEF HoldsDir, HoldsInode, InIget, OpsOk, Freeing, w, c, o
  <2>2. \A t \in Slots : inode'[t].ref = IF t = RootSlot THEN inode[t].ref - 1 ELSE inode[t].ref
    BY <1>2, <1>4, <1>6 DEF s
  <2> QED BY <1>3, <2>1, <2>2, RefsOverput
<1>11. SleepersMarked' /\ wchan' \in [Procs -> Slots \cup {NoSlot}]
  BY <1>2, <1>3, <1>4, <1>6, SleepersWoken
<1>12. DiskTyped' /\ ROOT_INODE \in imap' /\ (\A e \in dir' : e[2] # ROOT_INODE) /\ Stays
  <2>1. Stays
    BY <1>2, <1>3, <1>4, SlotStays
  <2> QED BY <2>1, <1>3 DEF DiskTyped, RootKept, disk
<1>13. overput' \in Nat
  BY <1>3
<1> QED BY <1>1, <1>2, <1>3, <1>7, <1>8, <1>9, <1>10, <1>11, <1>12, <1>13, QuietStep


(* iput() gives up a reference, and the call returns ...                    *)
LEMMA IputReturnInv == ASSUME IndInv, Steady, NEW p \in Procs, ~Frees(call[p].s), call[p].ret = "user", Iput(p) PROVE IndInv'
<1> USE Given
<1> DEFINE s == call[p].s  w == "user"  c == NoCall  o == ofile[p]
           r == Put(inode[s])
<1>1. Runs(p) /\ pc[p] = "iput" /\ inode[call[p].s].ref > 0 /\ ~Is(call[p].s, "I_LOCK") /\ call[p].s \in Slots
  <2>1. Runs(p) /\ pc[p] = "iput" /\ ~Panics(p)
    BY DEF Iput, At
  <2>2. call[p].s \in Slots
    BY <2>1 DEF SlotsOk, HoldsInode
  <2>3. inode[call[p].s].ref \in Nat
    BY <2>2 DEF InodeRec
  <2> QED BY <2>1, <2>2, <2>3 DEF Panics
<1>2. s \in Slots /\ c \in CallRec /\ o \in Slots \cup {NoSlot}
  BY <1>1, InodeAssumption DEF NoCall, CallRec, Rets
<1>3. /\ Moves(p, w, c, o) /\ busy' = NoProc /\ UNCHANGED <<disk, wchan, panic>> /\ overput' = overput
      /\ inode' = [inode EXCEPT ![s] = r]
  BY <1>2 DEF Iput, Return, Bread, Moves, SleepPcs
<1>4. /\ r \in InodeRec /\ r.ino = inode[s].ino /\ (s = RootSlot => r.links = inode[s].links)
      /\ r.ref = inode[s].ref - 1 /\ r.flags = inode[s].flags
  BY <1>1, <1>2, Fields
<1> HIDE DEF s, w, c, o, r
<1>5. OthersCalls(p) /\ pc'[p] = w /\ call'[p] = c /\ ofile'[p] = o
  BY <1>3, Moved
<1>6. inode'[s] = r /\ \A t \in Slots : t # s => inode'[t] = inode[t]
  BY <1>2, <1>3, <1>4, SlotUpdated
<1>7. OpsOk(p)' /\ Yields(p)
  BY <1>1, <1>3, <1>5 DEF OpsOk, Opens, Freeing, Yields, BusyPcs, w, c, o, NoCall
<1>8. SlotsOk(p)'
  BY <1>1, <1>2, <1>4, <1>5, <1>6 DEF SlotsOk, HoldsInode, Freeing, OpsOk, Is, RootKept, ROOT_INODE, w, c, o, s, NoCall
<1>9. LocksMoved(p)
  <2>1. Locks(p) = {} /\ Locks(p)' = {}
    BY <1>1, <1>5 DEF Locks, InIget, OpsOk, w, c, o, s
  <2> QED BY <1>1, <1>2, <1>4, <1>6, <2>1 DEF LocksMoved, Is, s
<1>10. RefsMoved(p)
  <2>1. ~HoldsDir(p) /\ ~HoldsDir(p)' /\ HoldsInode(p) /\ ~HoldsInode(p)' /\ ofile'[p] = ofile[p] /\ call[p].s = s
    BY <1>1, <1>5 DEF HoldsDir, HoldsInode, InIget, OpsOk, Freeing, w, c, o, s
  <2>2. \A t \in Slots : inode'[t].ref = IF t = s THEN inode[t].ref - 1 ELSE inode[t].ref
    BY <1>2, <1>4, <1>6
  <2> QED BY <1>3, <2>1, <2>2, RefsPutInode
<1>11. SleepersMarked' /\ wchan' \in [Procs -> Slots \cup {NoSlot}]
  BY <1>2, <1>3, <1>4, <1>6, SleepersStay
<1>12. DiskTyped' /\ ROOT_INODE \in imap' /\ (\A e \in dir' : e[2] # ROOT_INODE) /\ Stays
  <2>1. Stays
    BY <1>2, <1>3, <1>4, SlotStays
  <2> QED BY <2>1, <1>3 DEF DiskTyped, RootKept, disk
<1>13. overput' \in Nat
  BY <1>3
<1> QED BY <1>1, <1>2, <1>3, <1>7, <1>8, <1>9, <1>10, <1>11, <1>12, <1>13, QuietStep


(* ... or parenti() does.                                                   *)
LEMMA IputParentInv == ASSUME IndInv, Steady, NEW p \in Procs, ~Frees(call[p].s), call[p].ret # "user", Iput(p) PROVE IndInv'
<1> USE Given
<1> DEFINE s == call[p].s  w == "parent"  c == call[p]  o == ofile[p]
           r == Put(inode[s])
<1>1. Runs(p) /\ pc[p] = "iput" /\ inode[call[p].s].ref > 0 /\ ~Is(call[p].s, "I_LOCK") /\ call[p].s \in Slots /\ call[p].ret = "parent"
  <2>1. Runs(p) /\ pc[p] = "iput" /\ ~Panics(p)
    BY DEF Iput, At
  <2>2. call[p].s \in Slots
    BY <2>1 DEF SlotsOk, HoldsInode
  <2>3. inode[call[p].s].ref \in Nat
    BY <2>2 DEF InodeRec
  <2> QED BY <2>1, <2>2, <2>3 DEF Panics, OpsOk
<1>2. s \in Slots /\ c \in CallRec /\ o \in Slots \cup {NoSlot}
  BY <1>1 DEF CallRec
<1>3. /\ Moves(p, w, c, o) /\ busy' = p /\ UNCHANGED <<disk, wchan, panic>> /\ overput' = overput
      /\ inode' = [inode EXCEPT ![s] = r]
  BY <1>1, <1>2 DEF Iput, Go, Moves, BusyPcs
<1>4. /\ r \in InodeRec /\ r.ino = inode[s].ino /\ (s = RootSlot => r.links = inode[s].links)
      /\ r.ref = inode[s].ref - 1 /\ r.flags = inode[s].flags
  BY <1>1, <1>2, Fields
<1> HIDE DEF s, w, c, o, r
<1>5. OthersCalls(p) /\ pc'[p] = w /\ call'[p] = c /\ ofile'[p] = o
  BY <1>3, Moved
<1>6. inode'[s] = r /\ \A t \in Slots : t # s => inode'[t] = inode[t]
  BY <1>2, <1>3, <1>4, SlotUpdated
<1>7. OpsOk(p)' /\ Yields(p)
  BY <1>1, <1>3, <1>5 DEF OpsOk, Opens, Freeing, Yields, BusyPcs, w, c, o
<1>8. SlotsOk(p)'
  BY <1>1, <1>2, <1>4, <1>5, <1>6 DEF SlotsOk, HoldsInode, Freeing, OpsOk, Is, RootKept, ROOT_INODE, w, c, o, s
<1>9. LocksMoved(p)
  <2>1. Locks(p) = {} /\ Locks(p)' = {}
    BY <1>1, <1>5 DEF Locks, InIget, OpsOk, w, c, o, s
  <2> QED BY <1>1, <1>2, <1>4, <1>6, <2>1 DEF LocksMoved, Is, s
<1>10. RefsMoved(p)
  <2>1. HoldsDir(p) /\ HoldsDir(p)' /\ HoldsInode(p) /\ ~HoldsInode(p)' /\ ofile'[p] = ofile[p] /\ call[p].s = s
    BY <1>1, <1>5 DEF HoldsDir, HoldsInode, InIget, OpsOk, Freeing, w, c, o, s
  <2>2. \A t \in Slots : inode'[t].ref = IF t = s THEN inode[t].ref - 1 ELSE inode[t].ref
    BY <1>2, <1>4, <1>6
  <2> QED BY <1>3, <2>1, <2>2, RefsPutInode
<1>11. SleepersMarked' /\ wchan' \in [Procs -> Slots \cup {NoSlot}]
  BY <1>2, <1>3, <1>4, <1>6, SleepersStay
<1>12. DiskTyped' /\ ROOT_INODE \in imap' /\ (\A e \in dir' : e[2] # ROOT_INODE) /\ Stays
  <2>1. Stays
    BY <1>2, <1>3, <1>4, SlotStays
  <2> QED BY <2>1, <1>3 DEF DiskTyped, RootKept, disk
<1>13. overput' \in Nat
  BY <1>3
<1> QED BY <1>1, <1>2, <1>3, <1>7, <1>8, <1>9, <1>10, <1>11, <1>12, <1>13, QuietStep


(* iput() gives up the last reference to an inode with no name, and frees it. *)
LEMMA IputFreesInv == ASSUME IndInv, Steady, NEW p \in Procs, Frees(call[p].s), Iput(p) PROVE IndInv'
<1> USE Given
<1> DEFINE s == call[p].s  w == "trunc"  c == [call[p] EXCEPT !.free = TRUE]  o == ofile[p]
           r == Lock(Put(inode[s]))
<1>1. Runs(p) /\ pc[p] = "iput" /\ inode[call[p].s].ref > 0 /\ ~Is(call[p].s, "I_LOCK") /\ call[p].s \in Slots /\ call[p].s # RootSlot
  <2>1. Runs(p) /\ pc[p] = "iput" /\ ~Panics(p)
    BY DEF Iput, At
  <2>2. call[p].s \in Slots
    BY <2>1 DEF SlotsOk, HoldsInode
  <2>3. inode[call[p].s].ref \in Nat
    BY <2>2 DEF InodeRec
  <2> QED BY <2>1, <2>2, <2>3 DEF Panics, Frees, RootKept
<1>2. s \in Slots /\ c \in CallRec /\ o \in Slots \cup {NoSlot}
  BY <1>1, CallFields
<1>3. /\ Moves(p, w, c, o) /\ busy' = p /\ UNCHANGED <<disk, wchan, panic>> /\ overput' = overput
      /\ inode' = [inode EXCEPT ![s] = r]
  BY <1>1, <1>2 DEF Iput, Go, Moves, BusyPcs
<1>4. /\ r \in InodeRec /\ r.ino = inode[s].ino /\ (s = RootSlot => r.links = inode[s].links)
      /\ r.ref = inode[s].ref - 1 /\ r.flags = inode[s].flags \cup {"I_LOCK"}
  BY <1>1, <1>2, Fields
<1> HIDE DEF s, w, c, o, r
<1>5. OthersCalls(p) /\ pc'[p] = w /\ call'[p] = c /\ ofile'[p] = o
  BY <1>3, Moved
<1>6. inode'[s] = r /\ \A t \in Slots : t # s => inode'[t] = inode[t]
  BY <1>2, <1>3, <1>4, SlotUpdated
<1>7. OpsOk(p)' /\ Yields(p)
  BY <1>1, <1>3, <1>5 DEF OpsOk, Opens, Freeing, Yields, BusyPcs, w, c, o
<1>8. SlotsOk(p)'
  <2>1. call'[p].s = s /\ inode[s].ref = 1 /\ inode'[s].ref = 0
    BY <1>1, <1>2, <1>4, <1>5, <1>6 DEF Frees, CallRec, c, s
  <2>2. \A q \in Procs : q # p /\ Freeing(q)' => call'[q].s # s
    BY <1>5, <2>1, FreesAlone
  <2>3. /\ s # RootSlot /\ inode'[s].ino # 0
        /\ ofile'[p] # RootSlot /\ (ofile'[p] \in Slots => inode'[ofile'[p]].ino # 0)
    BY <1>1, <1>2, <1>4, <1>5, <1>6 DEF SlotsOk, HoldsInode, RootKept, ROOT_INODE, o, s
  <2> QED BY <1>2, <1>5, <2>1, <2>2, <2>3 DEF SlotsOk, HoldsInode, w
<1>9. LocksMoved(p)
  <2>1. Locks(p) = {} /\ Locks(p)' = {s}
    BY <1>1, <1>5 DEF Locks, InIget, OpsOk, w, c, o, s
  <2> QED BY <1>1, <1>2, <1>4, <1>6, <2>1 DEF LocksMoved, Is, s
<1>10. RefsMoved(p)
  <2>1. (HoldsDir(p)' <=> HoldsDir(p)) /\ HoldsInode(p) /\ ~HoldsInode(p)' /\ ofile'[p] = ofile[p] /\ call[p].s = s
    BY <1>1, <1>5 DEF HoldsDir, HoldsInode, InIget, OpsOk, Freeing, w, c, o, s
  <2>2. \A t \in Slots : inode'[t].ref = IF t = s THEN inode[t].ref - 1 ELSE inode[t].ref
    BY <1>2, <1>4, <1>6
  <2> QED BY <1>3, <2>1, <2>2, RefsPutInode
<1>11. SleepersMarked' /\ wchan' \in [Procs -> Slots \cup {NoSlot}]
  BY <1>2, <1>3, <1>4, <1>6, SleepersStay
<1>12. DiskTyped' /\ ROOT_INODE \in imap' /\ (\A e \in dir' : e[2] # ROOT_INODE) /\ Stays
  <2>1. Stays
    BY <1>2, <1>3, <1>4, SlotStays
  <2> QED BY <2>1, <1>3 DEF DiskTyped, RootKept, disk
<1>13. overput' \in Nat
  BY <1>3
<1> QED BY <1>1, <1>2, <1>3, <1>7, <1>8, <1>9, <1>10, <1>11, <1>12, <1>13, QuietStep


(* open() returns, with the inode of the open file, ...                     *)
LEMMA OpenReturnInv == ASSUME IndInv, Steady, NEW p \in Procs, call[p].op = "open", OpenGranted(p) PROVE IndInv'
<1> USE Given
<1> DEFINE s == call[p].s  w == "user"  c == NoCall  o == call[p].s
           r == inode[s]
<1>1. Runs(p) /\ pc[p] = "access" /\ call[p].op \in Opens
  BY DEF OpenGranted, At, OpsOk
<1>2. s \in Slots /\ c \in CallRec /\ o \in Slots \cup {NoSlot}
  BY <1>1, InodeAssumption DEF SlotsOk, HoldsInode, NoCall, CallRec, Rets
<1>3. /\ Moves(p, w, c, o) /\ busy' = NoProc /\ UNCHANGED <<disk, wchan, panic>> /\ overput' = overput
      /\ inode' = [inode EXCEPT ![s] = r]
  BY <1>2 DEF OpenGranted, Return, Bread, Moves, SleepPcs
<1>4. /\ r \in InodeRec /\ r.ino = inode[s].ino /\ (s = RootSlot => r.links = inode[s].links)
      /\ r.ref = inode[s].ref /\ r.flags = inode[s].flags
  BY <1>2
<1> HIDE DEF s, w, c, o, r
<1>5. OthersCalls(p) /\ pc'[p] = w /\ call'[p] = c /\ ofile'[p] = o
  BY <1>3, Moved
<1>6. inode'[s] = r /\ \A t \in Slots : t # s => inode'[t] = inode[t]
  BY <1>2, <1>3, <1>4, SlotUpdated
<1>7. OpsOk(p)' /\ Yields(p)
  BY <1>1, <1>3, <1>5 DEF OpsOk, Opens, Freeing, Yields, BusyPcs, w, c, o, NoCall
<1>8. SlotsOk(p)'
  BY <1>1, <1>2, <1>4, <1>5, <1>6 DEF SlotsOk, HoldsInode, Freeing, OpsOk, Is, RootKept, ROOT_INODE, w, c, o, s, NoCall
<1>9. LocksMoved(p)
  <2>1. Locks(p) = {} /\ Locks(p)' = {}
    BY <1>1, <1>5 DEF Locks, InIget, OpsOk, w, c, o, s
  <2> QED BY <1>1, <1>2, <1>4, <1>6, <2>1 DEF LocksMoved, Is, s
<1>10. RefsMoved(p)
  <2>1. ~HoldsDir(p) /\ ~HoldsDir(p)' /\ HoldsInode(p) /\ ~HoldsInode(p)' /\ ofile'[p] = s /\ ofile[p] = NoSlot /\ call[p].s = s
    BY <1>1, <1>5 DEF HoldsDir, HoldsInode, InIget, OpsOk, Freeing, w, c, o, s
  <2>2. \A t \in Slots : inode'[t].ref = inode[t].ref
    BY <1>2, <1>4, <1>6
  <2> QED BY <1>3, <2>1, <2>2, RefsToFile
<1>11. SleepersMarked' /\ wchan' \in [Procs -> Slots \cup {NoSlot}]
  BY <1>2, <1>3, <1>4, <1>6, SleepersStay
<1>12. DiskTyped' /\ ROOT_INODE \in imap' /\ (\A e \in dir' : e[2] # ROOT_INODE) /\ Stays
  <2>1. Stays
    BY <1>2, <1>3, <1>4, SlotStays
  <2> QED BY <2>1, <1>3 DEF DiskTyped, RootKept, disk
<1>13. overput' \in Nat
  BY <1>3
<1> QED BY <1>1, <1>2, <1>3, <1>7, <1>8, <1>9, <1>10, <1>11, <1>12, <1>13, QuietStep


(* ... and so does creat().                                                 *)
LEMMA TruncOpenInv == ASSUME IndInv, Steady, NEW p \in Procs, ~call[p].free, TruncReturn(p) PROVE IndInv'
<1> USE Given
<1> DEFINE s == call[p].s  w == "user"  c == NoCall  o == call[p].s
           r == Unlock(Clean(inode[s]))
<1>1. Runs(p) /\ pc[p] = "upd_trunc" /\ call[p].op \in Opens
  BY DEF TruncReturn, At, OpsOk
<1>2. s \in Slots /\ c \in CallRec /\ o \in Slots \cup {NoSlot}
  BY <1>1, InodeAssumption DEF SlotsOk, HoldsInode, NoCall, CallRec, Rets
<1>3. /\ Moves(p, w, c, o) /\ busy' = NoProc /\ UNCHANGED <<imap, zmap, dir, panic>> /\ overput' = overput
      /\ inode' = [inode EXCEPT ![s] = r] /\ wchan' = Woken(s)
  BY <1>2 DEF TruncReturn, Return, Bread, Moves, SleepPcs
<1>4. /\ r \in InodeRec /\ r.ino = inode[s].ino /\ (s = RootSlot => r.links = inode[s].links)
      /\ r.ref = inode[s].ref /\ r.flags = inode[s].flags \ {"I_LOCK", "I_WANTED", "I_DIRTY"}
  BY <1>1, <1>2, Fields
<1> HIDE DEF s, w, c, o, r
<1>5. OthersCalls(p) /\ pc'[p] = w /\ call'[p] = c /\ ofile'[p] = o
  BY <1>3, Moved
<1>6. inode'[s] = r /\ \A t \in Slots : t # s => inode'[t] = inode[t]
  BY <1>2, <1>3, <1>4, SlotUpdated
<1>7. OpsOk(p)' /\ Yields(p)
  BY <1>1, <1>3, <1>5 DEF OpsOk, Opens, Freeing, Yields, BusyPcs, w, c, o, NoCall
<1>8. SlotsOk(p)'
  BY <1>1, <1>2, <1>4, <1>5, <1>6 DEF SlotsOk, HoldsInode, Freeing, OpsOk, Is, RootKept, ROOT_INODE, w, c, o, s, NoCall
<1>9. LocksMoved(p)
  <2>1. Locks(p) = {s} /\ Locks(p)' = {}
    BY <1>1, <1>5 DEF Locks, InIget, OpsOk, w, c, o, s
  <2> QED BY <1>1, <1>2, <1>4, <1>6, <2>1 DEF LocksMoved, Is, s
<1>10. RefsMoved(p)
  <2>1. ~HoldsDir(p) /\ ~HoldsDir(p)' /\ HoldsInode(p) /\ ~HoldsInode(p)' /\ ofile'[p] = s /\ ofile[p] = NoSlot /\ call[p].s = s
    BY <1>1, <1>5 DEF HoldsDir, HoldsInode, InIget, OpsOk, Freeing, w, c, o, s
  <2>2. \A t \in Slots : inode'[t].ref = inode[t].ref
    BY <1>2, <1>4, <1>6
  <2> QED BY <1>3, <2>1, <2>2, RefsToFile
<1>11. SleepersMarked' /\ wchan' \in [Procs -> Slots \cup {NoSlot}]
  BY <1>2, <1>3, <1>4, <1>6, SleepersWoken
<1>12. DiskTyped' /\ ROOT_INODE \in imap' /\ (\A e \in dir' : e[2] # ROOT_INODE) /\ Stays
  <2>1. Stays
    BY <1>2, <1>3, <1>4, SlotStays
  <2> QED BY <2>1, <1>2, <1>3 DEF DiskTyped, RootKept, TruncReturn, Written, InodeRec, s
<1>13. overput' \in Nat
  BY <1>3
<1> QED BY <1>1, <1>2, <1>3, <1>7, <1>8, <1>9, <1>10, <1>11, <1>12, <1>13, QuietStep


(* file_close() puts the inode of the open file.                            *)
LEMMA BeginCloseInv == ASSUME IndInv, Steady, NEW p \in Procs, BeginFile(p, "iput") PROVE IndInv'
<1> USE Given
<1> DEFINE s == ofile[p]  w == "iput"  c == [NoCall EXCEPT !.op = "close", !.s = ofile[p]]  o == NoSlot
           r == inode[s]
<1>1. Runs(p) /\ pc[p] = "user" /\ ofile[p] # NoSlot /\ call[p] = NoCall
  BY DEF BeginFile, At, OpsOk
<1>2. s \in Slots /\ c \in CallRec /\ o \in Slots \cup {NoSlot}
  BY <1>1, InodeAssumption DEF NoCall, CallRec, Rets
<1>3. /\ Moves(p, w, c, o) /\ busy' = p /\ UNCHANGED <<disk, wchan, panic>> /\ overput' = overput
      /\ inode' = [inode EXCEPT ![s] = r]
  <2>1. inode' = [inode EXCEPT ![s] = r] /\ UNCHANGED <<disk, wchan, panic>> /\ overput' = overput /\ busy' = p
    BY <1>2 DEF BeginFile, Go
  <2>2. call' = [call EXCEPT ![p] = c]
    <3>1. call' = [call EXCEPT ![p] = [call[p] EXCEPT !.op = "close", !.s = ofile[p]]]
      BY DEF BeginFile
    <3> QED BY <1>1, <3>1
  <2>3. pc' = [pc EXCEPT ![p] = w] /\ ofile' = [ofile EXCEPT ![p] = o] /\ w \in BusyPcs \cup SleepPcs
    BY DEF BeginFile, Go, BusyPcs
  <2> HIDE DEF s, w, c, o, r
  <2> QED BY <1>2, <2>1, <2>2, <2>3 DEF Moves
<1>4. /\ r \in InodeRec /\ r.ino = inode[s].ino /\ (s = RootSlot => r.links = inode[s].links)
      /\ r.ref = inode[s].ref /\ r.flags = inode[s].flags
  BY <1>2
<1> HIDE DEF s, w, c, o, r
<1>5. OthersCalls(p) /\ pc'[p] = w /\ call'[p] = c /\ ofile'[p] = o
  BY <1>3, Moved
<1>6. inode'[s] = r /\ \A t \in Slots : t # s => inode'[t] = inode[t]
  BY <1>2, <1>3, <1>4, SlotUpdated
<1>7. OpsOk(p)' /\ Yields(p)
  BY <1>1, <1>3, <1>5 DEF OpsOk, Opens, Freeing, Yields, BusyPcs, w, c, o, NoCall
<1>8. SlotsOk(p)'
  BY <1>1, <1>2, <1>4, <1>5, <1>6 DEF SlotsOk, HoldsInode, Freeing, OpsOk, Is, RootKept, ROOT_INODE, w, c, o, s, NoCall
<1>9. LocksMoved(p)
  <2>1. Locks(p) = {} /\ Locks(p)' = {}
    BY <1>1, <1>5 DEF Locks, InIget, OpsOk, w, c, o, s
  <2> QED BY <1>1, <1>2, <1>4, <1>6, <2>1 DEF LocksMoved, Is, s
<1>10. RefsMoved(p)
  <2>1. ~HoldsDir(p) /\ ~HoldsDir(p)' /\ ~HoldsInode(p) /\ HoldsInode(p)' /\ ofile'[p] = NoSlot /\ ofile[p] = s /\ call'[p].s = s
    BY <1>1, <1>5 DEF HoldsDir, HoldsInode, InIget, OpsOk, Freeing, w, c, o, s, NoCall
  <2>2. \A t \in Slots : inode'[t].ref = inode[t].ref
    BY <1>2, <1>4, <1>6
  <2> QED BY <1>3, <2>1, <2>2, RefsFromFile
<1>11. SleepersMarked' /\ wchan' \in [Procs -> Slots \cup {NoSlot}]
  BY <1>2, <1>3, <1>4, <1>6, SleepersStay
<1>12. DiskTyped' /\ ROOT_INODE \in imap' /\ (\A e \in dir' : e[2] # ROOT_INODE) /\ Stays
  <2>1. Stays
    BY <1>2, <1>3, <1>4, SlotStays
  <2> QED BY <2>1, <1>3 DEF DiskTyped, RootKept, disk
<1>13. overput' \in Nat
  BY <1>3
<1> QED BY <1>1, <1>2, <1>3, <1>7, <1>8, <1>9, <1>10, <1>11, <1>12, <1>13, QuietStep


(* file_creat() takes a reference to the working directory.                 *)
LEMMA FileCreatIdupInv == ASSUME IndInv, Steady, NEW p \in Procs, pc'[p] = "lockdir", FileCreat(p) PROVE IndInv'
<1> USE Given
<1>a. PICK d \in CallRec : /\ d = [call[p] EXCEPT !.op = "file_creat"]
                            /\ d.op = "file_creat" /\ d.name = call[p].name /\ d.free = call[p].free
  <2>1. [call[p] EXCEPT !.op = "file_creat"] \in CallRec
    BY CallFields
  <2>2. /\ [call[p] EXCEPT !.op = "file_creat"].op = "file_creat"
        /\ [call[p] EXCEPT !.op = "file_creat"].name = call[p].name
        /\ [call[p] EXCEPT !.op = "file_creat"].free = call[p].free
    BY DEF CallRec
  <2> QED BY <2>1, <2>2
<1> DEFINE s == RootSlot  w == "lockdir"  c == [d EXCEPT !.n = ROOT_INODE, !.s = RootSlot, !.ret = "lockdir"]  o == ofile[p]
           r == [inode[s] EXCEPT !.ref = @ + 1]
<1>1. Runs(p) /\ pc[p] = "file_creat"
  BY DEF FileCreat, At
<1>2. s \in Slots /\ c \in CallRec /\ o \in Slots \cup {NoSlot}
  BY <1>a, CallFields, InodeAssumption DEF Rets
<1>3. /\ Moves(p, w, c, o) /\ busy' = p /\ UNCHANGED <<disk, wchan, panic>> /\ overput' = overput
      /\ inode' = [inode EXCEPT ![s] = r]
  <2>1. inode' = [inode EXCEPT ![RootSlot].ref = @ + 1] /\ Go(p, "lockdir")
    BY DEF FileCreat, Nameicore, Go, TypeOK
  <2>2. call' = [call EXCEPT ![p] = c]
    BY <1>a DEF FileCreat, Nameicore
  <2> QED BY <1>2, <2>1, <2>2 DEF FileCreat, Nameicore, Go, Moves, SleepPcs, BusyPcs
<1>4. /\ r \in InodeRec /\ r.ino = inode[s].ino /\ (s = RootSlot => r.links = inode[s].links)
      /\ r.ref = inode[s].ref + 1 /\ r.flags = inode[s].flags
  <2>1. inode[s].ref + 1 \in Nat /\ inode[s] \in InodeRec
    BY <1>2 DEF InodeRec
  <2>2. r = [inode[s] EXCEPT !.ref = inode[s].ref + 1]
    OBVIOUS
  <2> QED BY <2>1, <2>2, RefContents
<1> HIDE DEF s, w, c, o, r
<1>5. OthersCalls(p) /\ pc'[p] = w /\ call'[p] = c /\ ofile'[p] = o
  BY <1>3, Moved
<1>6. inode'[s] = r /\ \A t \in Slots : t # s => inode'[t] = inode[t]
  BY <1>2, <1>3, <1>4, SlotUpdated
<1>7. OpsOk(p)' /\ Yields(p)
  BY <1>1, <1>3, <1>5, <1>a, InodeAssumption DEF OpsOk, Opens, Freeing, Yields, BusyPcs, w, c, o
<1>8. SlotsOk(p)'
  BY <1>1, <1>2, <1>4, <1>5, <1>6, <1>a, InodeAssumption DEF SlotsOk, HoldsInode, Freeing, OpsOk, Is, RootKept, ROOT_INODE, w, c, o, s
<1>9. LocksMoved(p)
  <2>1. Locks(p) = {} /\ Locks(p)' = {}
    BY <1>1, <1>5, <1>a, InodeAssumption DEF Locks, InIget, OpsOk, w, c, o, s
  <2> QED BY <1>1, <1>2, <1>4, <1>6, <2>1 DEF LocksMoved, Is, s
<1>10. RefsMoved(p)
  <2>1. ~HoldsDir(p) /\ HoldsDir(p)' /\ ~HoldsInode(p) /\ ~HoldsInode(p)' /\ ofile'[p] = ofile[p]
    BY <1>1, <1>5 DEF HoldsDir, HoldsInode, InIget, OpsOk, Freeing, w, c, o
  <2>2. \A t \in Slots : inode'[t].ref = IF t = RootSlot THEN inode[t].ref + 1 ELSE inode[t].ref
    BY <1>2, <1>4, <1>6 DEF s
  <2> QED BY <1>3, <2>1, <2>2, RefsGetRoot
<1>11. SleepersMarked' /\ wchan' \in [Procs -> Slots \cup {NoSlot}]
  BY <1>2, <1>3, <1>4, <1>6, SleepersStay
<1>12. DiskTyped' /\ ROOT_INODE \in imap' /\ (\A e \in dir' : e[2] # ROOT_INODE) /\ Stays
  <2>1. Stays
    BY <1>2, <1>3, <1>4, SlotStays
  <2> QED BY <2>1, <1>3 DEF DiskTyped, RootKept, disk
<1>13. overput' \in Nat
  BY <1>3
<1> QED BY <1>1, <1>2, <1>3, <1>7, <1>8, <1>9, <1>10, <1>11, <1>12, <1>13, QuietStep


(* So do open(), creat() and unlink(), ...                                  *)
LEMMA BeginIdupInv == ASSUME IndInv, Steady, NEW p \in Procs, NEW op \in {"open", "creat", "unlink"}, NEW x \in Names, pc'[p] = "lockdir", Begin(p, op, x) PROVE IndInv'
<1> USE Given
<1>a. PICK d \in CallRec : d = Started(op, x) /\ d.op = op /\ d.name = x /\ ~d.free
  BY Begun
<1> DEFINE s == RootSlot  w == "lockdir"  c == [d EXCEPT !.n = ROOT_INODE, !.s = RootSlot, !.ret = "lockdir"]  o == ofile[p]
           r == [inode[s] EXCEPT !.ref = @ + 1]
<1>1. Runs(p) /\ pc[p] = "user" /\ call[p] = NoCall /\ (op \in Opens => ofile[p] = NoSlot)
  BY DEF Begin, At, OpsOk
<1>2. s \in Slots /\ c \in CallRec /\ o \in Slots \cup {NoSlot}
  BY <1>a, CallFields, InodeAssumption DEF Rets
<1>3. /\ Moves(p, w, c, o) /\ busy' = p /\ UNCHANGED <<disk, wchan, panic>> /\ overput' = overput
      /\ inode' = [inode EXCEPT ![s] = r]
  <2>1. inode' = [inode EXCEPT ![RootSlot].ref = @ + 1] /\ Go(p, "lockdir")
    BY DEF Begin, Nameicore, Go, TypeOK
  <2>2. call' = [call EXCEPT ![p] = c]
    BY <1>a DEF Begin, Nameicore, Started
  <2> QED BY <1>2, <2>1, <2>2 DEF Begin, Nameicore, Go, Moves, SleepPcs, BusyPcs
<1>4. /\ r \in InodeRec /\ r.ino = inode[s].ino /\ (s = RootSlot => r.links = inode[s].links)
      /\ r.ref = inode[s].ref + 1 /\ r.flags = inode[s].flags
  <2>1. inode[s].ref + 1 \in Nat /\ inode[s] \in InodeRec
    BY <1>2 DEF InodeRec
  <2>2. r = [inode[s] EXCEPT !.ref = inode[s].ref + 1]
    OBVIOUS
  <2> QED BY <2>1, <2>2, RefContents
<1> HIDE DEF s, w, c, o, r
<1>5. OthersCalls(p) /\ pc'[p] = w /\ call'[p] = c /\ ofile'[p] = o
  BY <1>3, Moved
<1>6. inode'[s] = r /\ \A t \in Slots : t # s => inode'[t] = inode[t]
  BY <1>2, <1>3, <1>4, SlotUpdated
<1>7. OpsOk(p)' /\ Yields(p)
  BY <1>1, <1>3, <1>5, <1>a, InodeAssumption DEF OpsOk, Opens, Freeing, Yields, BusyPcs, w, c, o
<1>8. SlotsOk(p)'
  BY <1>1, <1>2, <1>4, <1>5, <1>6, <1>a, InodeAssumption DEF SlotsOk, HoldsInode, Freeing, OpsOk, Is, RootKept, ROOT_INODE, w, c, o, s
<1>9. LocksMoved(p)
  <2>1. Locks(p) = {} /\ Locks(p)' = {}
    BY <1>1, <1>5, <1>a, InodeAssumption DEF Locks, InIget, OpsOk, w, c, o, s
  <2> QED BY <1>1, <1>2, <1>4, <1>6, <2>1 DEF LocksMoved, Is, s
<1>10. RefsMoved(p)
  <2>1. ~HoldsDir(p) /\ HoldsDir(p)' /\ ~HoldsInode(p) /\ ~HoldsInode(p)' /\ ofile'[p] = ofile[p]
    BY <1>1, <1>5 DEF HoldsDir, HoldsInode, InIget, OpsOk, Freeing, w, c, o
  <2>2. \A t \in Slots : inode'[t].ref = IF t = RootSlot THEN inode[t].ref + 1 ELSE inode[t].ref
    BY <1>2, <1>4, <1>6 DEF s
  <2> QED BY <1>3, <2>1, <2>2, RefsGetRoot
<1>11. SleepersMarked' /\ wchan' \in [Procs -> Slots \cup {NoSlot}]
  BY <1>2, <1>3, <1>4, <1>6, SleepersStay
<1>12. DiskTyped' /\ ROOT_INODE \in imap' /\ (\A e \in dir' : e[2] # ROOT_INODE) /\ Stays
  <2>1. Stays
    BY <1>2, <1>3, <1>4, SlotStays
  <2> QED BY <2>1, <1>3 DEF DiskTyped, RootKept, disk
<1>13. overput' \in Nat
  BY <1>3
<1> QED BY <1>1, <1>2, <1>3, <1>7, <1>8, <1>9, <1>10, <1>11, <1>12, <1>13, QuietStep


(* ... unless the path begins at the root.                                  *)
LEMMA BeginIgetInv == ASSUME IndInv, Steady, NEW p \in Procs, NEW op \in {"open", "creat", "unlink"}, NEW x \in Names, pc'[p] = "iget", Begin(p, op, x) PROVE IndInv'
<1> USE Given
<1>a. PICK d \in CallRec : d = Started(op, x) /\ d.op = op /\ d.name = x /\ ~d.free
  BY Begun
<1> DEFINE s == RootSlot  w == "iget"  c == [d EXCEPT !.n = ROOT_INODE, !.s = RootSlot, !.ret = "lockdir"]  o == ofile[p]
           r == inode[s]
<1>1. Runs(p) /\ pc[p] = "user" /\ call[p] = NoCall /\ (op \in Opens => ofile[p] = NoSlot)
  BY DEF Begin, At, OpsOk
<1>2. s \in Slots /\ c \in CallRec /\ o \in Slots \cup {NoSlot}
  BY <1>a, CallFields, InodeAssumption DEF Rets
<1>3. /\ Moves(p, w, c, o) /\ busy' = p /\ UNCHANGED <<disk, wchan, panic>> /\ overput' = overput
      /\ inode' = [inode EXCEPT ![s] = r]
  <2>1. inode' = inode /\ Go(p, "iget")
    BY DEF Begin, Nameicore, Go, TypeOK
  <2>2. call' = [call EXCEPT ![p] = c]
    BY <1>a DEF Begin, Nameicore, Started
  <2> QED BY <1>2, <2>1, <2>2 DEF Begin, Nameicore, Go, Moves, SleepPcs, BusyPcs
<1>4. /\ r \in InodeRec /\ r.ino = inode[s].ino /\ (s = RootSlot => r.links = inode[s].links)
      /\ r.ref = inode[s].ref /\ r.flags = inode[s].flags
  BY <1>2
<1> HIDE DEF s, w, c, o, r
<1>5. OthersCalls(p) /\ pc'[p] = w /\ call'[p] = c /\ ofile'[p] = o
  BY <1>3, Moved
<1>6. inode'[s] = r /\ \A t \in Slots : t # s => inode'[t] = inode[t]
  BY <1>2, <1>3, <1>4, SlotUpdated
<1>7. OpsOk(p)' /\ Yields(p)
  BY <1>1, <1>3, <1>5, <1>a, InodeAssumption DEF OpsOk, Opens, Freeing, Yields, BusyPcs, w, c, o
<1>8. SlotsOk(p)'
  BY <1>1, <1>2, <1>4, <1>5, <1>6, <1>a, InodeAssumption DEF SlotsOk, HoldsInode, Freeing, OpsOk, Is, RootKept, ROOT_INODE, w, c, o, s
<1>9. LocksMoved(p)
  <2>1. Locks(p) = {} /\ Locks(p)' = {}
    BY <1>1, <1>5, <1>a, InodeAssumption DEF Locks, InIget, OpsOk, w, c, o, s
  <2> QED BY <1>1, <1>2, <1>4, <1>6, <2>1 DEF LocksMoved, Is, s
<1>10. RefsMoved(p)
  <2>1. ~HoldsDir(p) /\ ~HoldsDir(p)' /\ ~HoldsInode(p) /\ ~HoldsInode(p)' /\ ofile'[p] = ofile[p]
    BY <1>1, <1>5 DEF HoldsDir, HoldsInode, InIget, OpsOk, Freeing, w, c, o
  <2>2. \A t \in Slots : inode'[t].ref = inode[t].ref
    BY <1>2, <1>4, <1>6
  <2> QED BY <1>3, <2>1, <2>2, RefsSame
<1>11. SleepersMarked' /\ wchan' \in [Procs -> Slots \cup {NoSlot}]
  BY <1>2, <1>3, <1>4, <1>6, SleepersStay
<1>12. DiskTyped' /\ ROOT_INODE \in imap' /\ (\A e \in dir' : e[2] # ROOT_INODE) /\ Stays
  <2>1. Stays
    BY <1>2, <1>3, <1>4, SlotStays
  <2> QED BY <2>1, <1>3 DEF DiskTyped, RootKept, disk
<1>13. overput' \in Nat
  BY <1>3
<1> QED BY <1>1, <1>2, <1>3, <1>7, <1>8, <1>9, <1>10, <1>11, <1>12, <1>13, QuietStep


(* iget() gives out no entry that iput() is freeing, and no free inode.     *)
LEMMA NotGiven ==
    ASSUME IndInv, NEW p \in Procs, pc[p] = "iget", pc'[p] # "iget", ~GivesFreed(p)
    PROVE  call[p].n \in imap /\ \A q \in Procs : Freeing(q) => call[q].s # call'[p].s
<1>1. \A q \in Procs : Freeing(q) => call[q].free
  BY DEF Freeing
<1> QED BY <1>1 DEF GivesFreed

(* iget() finds the root directory ...                                      *)
LEMMA IgetHitRootInv == ASSUME IndInv, Steady, NEW p \in Procs, call[p].ret = "lockdir", IgetHit(p), ~GivesFreed(p) PROVE IndInv'
<1> USE Given
<1>a. PICK k \in Slots : /\ inode[k].ino = call[p].n /\ ~Is(k, "I_LOCK")
                         /\ inode' = [inode EXCEPT ![k].ref = @ + 1] /\ call' = [call EXCEPT ![p].s = k]
  BY DEF IgetHit, Cached
<1>b. k = RootSlot
  <2>1. pc[p] = "iget"
    BY DEF IgetHit, AtIget, At
  <2>2. inode[k].ino = ROOT_INODE
    BY <1>a, <2>1 DEF OpsOk
  <2> QED BY <1>a, <2>2 DEF IndInv, OneSlotPerInode, RootKept, ROOT_INODE
<1> DEFINE s == RootSlot  w == "lockdir"  c == [call[p] EXCEPT !.s = k]  o == ofile[p]
           r == [inode[s] EXCEPT !.ref = @ + 1]
<1>1. Runs(p) /\ pc[p] = "iget"
  BY DEF IgetHit, AtIget, At
<1>2. s \in Slots /\ c \in CallRec /\ o \in Slots \cup {NoSlot}
  BY <1>a, CallFields
<1>3. /\ Moves(p, w, c, o) /\ busy' = p /\ UNCHANGED <<disk, wchan, panic>> /\ overput' = overput
      /\ inode' = [inode EXCEPT ![s] = r]
  BY <1>2, <1>a, <1>b DEF IgetHit, Go, Moves, BusyPcs
<1>4. /\ r \in InodeRec /\ r.ino = inode[s].ino /\ (s = RootSlot => r.links = inode[s].links)
      /\ r.ref = inode[s].ref + 1 /\ r.flags = inode[s].flags
  <2>1. inode[s].ref + 1 \in Nat /\ inode[s] \in InodeRec
    BY <1>2 DEF InodeRec
  <2>2. r = [inode[s] EXCEPT !.ref = inode[s].ref + 1]
    OBVIOUS
  <2> QED BY <2>1, <2>2, RefContents
<1> HIDE DEF s, w, c, o, r
<1>5. OthersCalls(p) /\ pc'[p] = w /\ call'[p] = c /\ ofile'[p] = o
  BY <1>3, Moved
<1>6. inode'[s] = r /\ \A t \in Slots : t # s => inode'[t] = inode[t]
  BY <1>2, <1>3, <1>4, SlotUpdated
<1>7. OpsOk(p)' /\ Yields(p)
  BY <1>1, <1>3, <1>5 DEF OpsOk, Opens, Freeing, Yields, BusyPcs, w, c, o
<1>8. SlotsOk(p)'
  BY <1>1, <1>2, <1>4, <1>5, <1>6 DEF SlotsOk, HoldsInode, Freeing, OpsOk, Is, RootKept, ROOT_INODE, w, c, o, s
<1>9. LocksMoved(p)
  <2>1. Locks(p) = {} /\ Locks(p)' = {}
    BY <1>1, <1>5 DEF Locks, InIget, OpsOk, w, c, o, s
  <2> QED BY <1>1, <1>2, <1>4, <1>6, <2>1 DEF LocksMoved, Is, s
<1>10. RefsMoved(p)
  <2>1. ~HoldsDir(p) /\ HoldsDir(p)' /\ ~HoldsInode(p) /\ ~HoldsInode(p)' /\ ofile'[p] = ofile[p]
    BY <1>1, <1>5 DEF HoldsDir, HoldsInode, InIget, OpsOk, Freeing, w, c, o
  <2>2. \A t \in Slots : inode'[t].ref = IF t = RootSlot THEN inode[t].ref + 1 ELSE inode[t].ref
    BY <1>2, <1>4, <1>6 DEF s
  <2> QED BY <1>3, <2>1, <2>2, RefsGetRoot
<1>11. SleepersMarked' /\ wchan' \in [Procs -> Slots \cup {NoSlot}]
  BY <1>2, <1>3, <1>4, <1>6, SleepersStay
<1>12. DiskTyped' /\ ROOT_INODE \in imap' /\ (\A e \in dir' : e[2] # ROOT_INODE) /\ Stays
  <2>1. Stays
    BY <1>2, <1>3, <1>4, SlotStays
  <2> QED BY <2>1, <1>3 DEF DiskTyped, RootKept, disk
<1>13. overput' \in Nat
  BY <1>3
<1> QED BY <1>1, <1>2, <1>3, <1>7, <1>8, <1>9, <1>10, <1>11, <1>12, <1>13, QuietStep


(* ... or an inode that is in the cache.                                    *)
LEMMA IgetHitInodeInv == ASSUME IndInv, Steady, NEW p \in Procs, call[p].ret # "lockdir", IgetHit(p), ~GivesFreed(p) PROVE IndInv'
<1> USE Given
<1>a. PICK k \in Slots : /\ inode[k].ino = call[p].n /\ ~Is(k, "I_LOCK")
                         /\ inode' = [inode EXCEPT ![k].ref = @ + 1] /\ call' = [call EXCEPT ![p].s = k]
  BY DEF IgetHit, Cached
<1>b. pc[p] = "iget" /\ call[p].n \in Inos \ {ROOT_INODE} /\ ~call[p].free
  BY DEF IgetHit, AtIget, At, OpsOk, Freeing
<1>c. k # RootSlot /\ inode[k].ino # 0
  BY <1>a, <1>b, InodeAssumption DEF RootKept
<1>d. PICK v \in {"found", "putnext", "newinode", "unlinked"} :
        /\ v = call[p].ret
        /\ v = "found" => call[p].op \in {"open", "creat"}
        /\ v = "putnext" => call[p].op \in {"unlink", "file_creat"}
        /\ v = "newinode" => call[p].op = "file_creat"
        /\ v = "unlinked" => call[p].op = "unlink"
  BY <1>b DEF OpsOk, CallRec, Rets
<1>e. PICK l : l = IF v = "unlinked" THEN {RootSlot} ELSE {}
  OBVIOUS
<1> DEFINE s == k  w == v  c == [call[p] EXCEPT !.s = k]  o == ofile[p]
           r == [inode[s] EXCEPT !.ref = @ + 1]
<1>1. Runs(p) /\ pc[p] = "iget"
  BY DEF IgetHit, AtIget, At
<1>2. s \in Slots /\ c \in CallRec /\ o \in Slots \cup {NoSlot}
  BY <1>a, CallFields
<1>3. /\ Moves(p, w, c, o) /\ busy' = p /\ UNCHANGED <<disk, wchan, panic>> /\ overput' = overput
      /\ inode' = [inode EXCEPT ![s] = r]
  BY <1>2, <1>a, <1>d DEF IgetHit, Go, Moves, BusyPcs
<1>4. /\ r \in InodeRec /\ r.ino = inode[s].ino /\ (s = RootSlot => r.links = inode[s].links)
      /\ r.ref = inode[s].ref + 1 /\ r.flags = inode[s].flags
  <2>0. s # RootSlot
    BY <1>c
  <2>1. inode[s].ref + 1 \in Nat /\ inode[s] \in InodeRec
    BY <1>2 DEF InodeRec
  <2>2. r = [inode[s] EXCEPT !.ref = inode[s].ref + 1]
    OBVIOUS
  <2> QED BY <2>0, <2>1, <2>2, RefContents
<1> HIDE DEF s, w, c, o, r
<1>5. OthersCalls(p) /\ pc'[p] = w /\ call'[p] = c /\ ofile'[p] = o
  BY <1>3, Moved
<1>6. inode'[s] = r /\ \A t \in Slots : t # s => inode'[t] = inode[t]
  BY <1>2, <1>3, <1>4, SlotUpdated
<1>7. OpsOk(p)' /\ Yields(p)
  BY <1>1, <1>3, <1>5, <1>a, <1>b, <1>c, <1>d DEF OpsOk, Opens, Freeing, Yields, BusyPcs, w, c, o
<1>8. SlotsOk(p)'
  BY <1>1, <1>2, <1>4, <1>5, <1>6, <1>a, <1>b, <1>c, <1>d DEF SlotsOk, HoldsInode, Freeing, OpsOk, Is, RootKept, ROOT_INODE, w, c, o, s
<1>9. LocksMoved(p)
  <2>1. Locks(p) = l /\ Locks(p)' = l
    <3>1. CASE v = "unlinked"
      BY <1>b, <1>5, <1>d, <1>e, <3>1 DEF Locks, InIget, w, c, s
    <3>2. CASE v # "unlinked"
      BY <1>b, <1>5, <1>d, <1>e, <3>2 DEF Locks, InIget, w, c, s
    <3> QED BY <3>1, <3>2
  <2>2. \A t \in l : Is(t, "I_LOCK") /\ t \in Slots
    BY <2>1
  <2> QED BY <1>4, <1>6, <2>1, <2>2 DEF LocksMoved, Is
<1>10. RefsMoved(p)
  <2>1. HoldsDir(p) /\ HoldsDir(p)' /\ ~HoldsInode(p) /\ HoldsInode(p)' /\ ofile'[p] = ofile[p] /\ call'[p].s = s
    BY <1>1, <1>5, <1>d DEF HoldsDir, HoldsInode, InIget, OpsOk, Freeing, w, c, o, s
  <2>2. \A t \in Slots : inode'[t].ref = IF t = s THEN inode[t].ref + 1 ELSE inode[t].ref
    BY <1>2, <1>4, <1>6
  <2>3. \A q \in Procs : Freeing(q) => call[q].s # s
    BY <1>1, <1>5, <1>d, <2>1, NotGiven DEF w
  <2> QED BY <1>3, <2>1, <2>2, <2>3, RefsGetInode
<1>11. SleepersMarked' /\ wchan' \in [Procs -> Slots \cup {NoSlot}]
  BY <1>2, <1>3, <1>4, <1>6, SleepersStay
<1>12. DiskTyped' /\ ROOT_INODE \in imap' /\ (\A e \in dir' : e[2] # ROOT_INODE) /\ Stays
  <2>1. Stays
    BY <1>2, <1>3, <1>4, SlotStays
  <2> QED BY <2>1, <1>3 DEF DiskTyped, RootKept, disk
<1>13. overput' \in Nat
  BY <1>3
<1> QED BY <1>1, <1>2, <1>3, <1>7, <1>8, <1>9, <1>10, <1>11, <1>12, <1>13, QuietStep


(* iget() sleeps on an inode that is locked.                                *)
LEMMA IgetSleepInv == ASSUME IndInv, Steady, NEW p \in Procs, IgetSleep(p) PROVE IndInv'
<1> USE Given
<1>a. PICK k \in Slots : /\ Is(k, "I_LOCK") /\ inode' = [inode EXCEPT ![k].flags = @ \cup {"I_WANTED"}]
                         /\ wchan' = [wchan EXCEPT ![p] = k]
  BY DEF IgetSleep, Cached
<1>b. PICK l : l = Locks(p)
  OBVIOUS
<1> DEFINE s == k  w == "iget"  c == call[p]  o == ofile[p]
           r == [inode[s] EXCEPT !.flags = @ \cup {"I_WANTED"}]
<1>1. Runs(p) /\ pc[p] = "iget"
  BY DEF IgetSleep, AtIget, At
<1>2. s \in Slots /\ c \in CallRec /\ o \in Slots \cup {NoSlot}
  BY DEF CallRec
<1>3. /\ Moves(p, w, c, o) /\ busy' = NoProc /\ UNCHANGED <<disk, panic>> /\ overput' = overput
      /\ inode' = [inode EXCEPT ![s] = r]
  <2>1. inode' = [inode EXCEPT ![s] = r] /\ UNCHANGED <<disk, panic>> /\ overput' = overput /\ busy' = NoProc
    BY <1>a DEF IgetSleep
  <2>2. call' = [call EXCEPT ![p] = c] /\ ofile' = [ofile EXCEPT ![p] = o]
    BY DEF IgetSleep
  <2>3. pc \in [Procs -> BusyPcs \cup SleepPcs]
    BY DEF IndInv, CallsTyped
  <2>4. pc' = [pc EXCEPT ![p] = w] /\ w \in BusyPcs \cup SleepPcs
    BY <1>1, <2>3 DEF IgetSleep, SleepPcs
  <2> HIDE DEF s, w, c, o, r
  <2> QED BY <1>2, <2>1, <2>2, <2>4 DEF Moves
<1>4. /\ r \in InodeRec /\ r.ino = inode[s].ino /\ (s = RootSlot => r.links = inode[s].links)
      /\ r.ref = inode[s].ref /\ r.flags = inode[s].flags \cup {"I_WANTED"}
  BY <1>2 DEF InodeRec
<1> HIDE DEF s, w, c, o, r
<1>5. OthersCalls(p) /\ pc'[p] = w /\ call'[p] = c /\ ofile'[p] = o
  BY <1>3, Moved
<1>6. inode'[s] = r /\ \A t \in Slots : t # s => inode'[t] = inode[t]
  BY <1>2, <1>3, <1>4, SlotUpdated
<1>7. OpsOk(p)' /\ Yields(p)
  BY <1>1, <1>3, <1>5 DEF OpsOk, Opens, Freeing, Yields, BusyPcs, w, c, o
<1>8. SlotsOk(p)'
  BY <1>1, <1>2, <1>4, <1>5, <1>6 DEF SlotsOk, HoldsInode, Freeing, OpsOk, Is, RootKept, ROOT_INODE, w, c, o, s
<1>9. LocksMoved(p)
  <2>1. Locks(p) = l /\ Locks(p)' = l
    BY <1>1, <1>5, <1>b DEF Locks, InIget, w, c, o
  <2> QED BY <1>2, <1>4, <1>6, <2>1 DEF LocksMoved, Is
<1>10. RefsMoved(p)
  <2>1. (HoldsDir(p)' <=> HoldsDir(p)) /\ ~HoldsInode(p) /\ ~HoldsInode(p)' /\ ofile'[p] = ofile[p]
    BY <1>1, <1>5 DEF HoldsDir, HoldsInode, InIget, OpsOk, Freeing, w, c, o
  <2>2. \A t \in Slots : inode'[t].ref = inode[t].ref
    BY <1>2, <1>4, <1>6
  <2> QED BY <1>3, <2>1, <2>2, RefsSame
<1>11. SleepersMarked' /\ wchan' \in [Procs -> Slots \cup {NoSlot}]
  <2>1. \A t \in Slots : inode[t].flags \subseteq inode'[t].flags
    BY <1>2, <1>4, <1>6
  <2>2. {"I_LOCK", "I_WANTED"} \subseteq inode'[k].flags
    BY <1>2, <1>4, <1>6, <1>a DEF Is, s
  <2> QED BY <1>a, <2>1, <2>2 DEF SleepersMarked
<1>12. DiskTyped' /\ ROOT_INODE \in imap' /\ (\A e \in dir' : e[2] # ROOT_INODE) /\ Stays
  <2>1. Stays
    BY <1>2, <1>3, <1>4, SlotStays
  <2> QED BY <2>1, <1>3 DEF DiskTyped, RootKept, disk
<1>13. overput' \in Nat
  BY <1>3
<1> QED BY <1>1, <1>2, <1>3, <1>7, <1>8, <1>9, <1>10, <1>11, <1>12, <1>13, QuietStep

-----------------------------------------------------------------------------
(* Steps that write to the inode and to the directory.                      *)

(* Writing to two entries moves no inode.                                   *)
LEMMA TwoUpdated ==
    ASSUME TypeOK, NEW s \in Slots, s # RootSlot, NEW r \in InodeRec, NEW q \in InodeRec,
           inode' = [inode EXCEPT ![s] = r, ![RootSlot] = q], r.ino = inode[s].ino,
           q.ino = inode[RootSlot].ino, q.links = inode[RootSlot].links
    PROVE  /\ inode'[s] = r /\ inode'[RootSlot] = q /\ \A t \in Slots : t # s /\ t # RootSlot => inode'[t] = inode[t]
           /\ Stays
<1>1. inode \in [Slots -> InodeRec] /\ RootSlot \in Slots
  BY Typed, InodeAssumption DEF RootSlot, Slots
<1>2. /\ inode' \in [Slots -> InodeRec] /\ inode'[s] = r /\ inode'[RootSlot] = q
      /\ \A t \in Slots : t # s /\ t # RootSlot => inode'[t] = inode[t]
  BY <1>1
<1>3. \A t \in Slots : inode'[t].ino = inode[t].ino
  BY <1>2
<1> QED BY <1>1, <1>2, <1>3 DEF Stays

(* file_creat() clears the inode and locks it and the directory.            *)
LEMMA NewInodeInv == ASSUME IndInv, Steady, NEW p \in Procs, NewInode(p) PROVE IndInv'
<1> USE Given
<1> DEFINE s == call[p].s  w == "wdir"  c == call[p]  o == ofile[p]
           x == [inode[s] EXCEPT !.links = 0, !.blk = 0]  r == Dirty(Lock(x))  q == Lock(inode[RootSlot])
<1>1. /\ Runs(p) /\ pc[p] = "newinode" /\ ~Is(RootSlot, "I_LOCK") /\ ~Is(call[p].s, "I_LOCK") /\ call[p].s # RootSlot
      /\ call[p].n \in Inos \ {ROOT_INODE}
  BY DEF NewInode, At, Panics, SlotsOk, HoldsInode
<1>2. s \in Slots /\ c \in CallRec /\ inode[s] \in InodeRec
  BY <1>1 DEF SlotsOk, HoldsInode
<1>3. /\ Moves(p, w, c, o) /\ busy' = NoProc /\ UNCHANGED <<disk, wchan, overput, panic>>
      /\ inode' = [inode EXCEPT ![s] = r, ![RootSlot] = q]
  <2>1. inode' = [inode EXCEPT ![s] = r, ![RootSlot] = q]
    BY <1>1, <1>2 DEF NewInode
  <2> QED BY <1>2, <2>1 DEF NewInode, Bread, Moves, SleepPcs
<1>4. /\ x \in InodeRec /\ x.ino = inode[s].ino /\ x.ref = inode[s].ref /\ x.flags = inode[s].flags
  BY <1>2 DEF InodeRec
<1> HIDE DEF x
<1>5. /\ r \in InodeRec /\ r.ino = inode[s].ino /\ r.ref = inode[s].ref
      /\ r.flags = inode[s].flags \cup {"I_LOCK", "I_DIRTY"}
  BY <1>4, Fields
<1>6. /\ q \in InodeRec /\ q.ino = inode[RootSlot].ino /\ q.ref = inode[RootSlot].ref /\ q.links = inode[RootSlot].links
      /\ q.flags = inode[RootSlot].flags \cup {"I_LOCK"}
  BY Fields
<1> HIDE DEF s, w, c, o, r, q
<1>7. OthersCalls(p) /\ pc'[p] = w /\ call'[p] = c /\ ofile'[p] = o
  BY <1>3, Moved
<1>8. /\ inode'[s] = r /\ inode'[RootSlot] = q /\ \A t \in Slots : t # s /\ t # RootSlot => inode'[t] = inode[t]
      /\ Stays
  BY <1>1, <1>2, <1>3, <1>5, <1>6, TwoUpdated DEF s
<1>9. OpsOk(p)' /\ Yields(p)
  BY <1>1, <1>3, <1>7 DEF OpsOk, Opens, Freeing, Yields, BusyPcs, w, c, o
<1>10. SlotsOk(p)'
  BY <1>1, <1>2, <1>5, <1>7, <1>8 DEF SlotsOk, HoldsInode, Freeing, OpsOk, Is, Stays, w, c, o, s
<1>11. LocksMoved(p)
  <2>1. Locks(p) = {} /\ Locks(p)' = {RootSlot, s}
    BY <1>1, <1>7 DEF Locks, InIget, OpsOk, w, c, o, s
  <2> QED BY <1>1, <1>2, <1>5, <1>6, <1>8, <2>1 DEF LocksMoved, Is, s
<1>12. RefsMoved(p)
  <2>1. /\ HoldsDir(p) /\ HoldsDir(p)' /\ HoldsInode(p) /\ HoldsInode(p)' /\ ofile'[p] = ofile[p]
        /\ call'[p].s = call[p].s
    BY <1>1, <1>7 DEF HoldsDir, HoldsInode, w, c, o
  <2>2. \A t \in Slots : inode'[t].ref = inode[t].ref
    BY <1>5, <1>6, <1>8
  <2> QED BY <1>3, <2>1, <2>2, RefsSame
<1>13. SleepersMarked' /\ wchan' \in [Procs -> Slots \cup {NoSlot}]
  BY <1>3, <1>5, <1>6, <1>8, SleepersStay
<1>14. DiskTyped' /\ ROOT_INODE \in imap' /\ \A e \in dir' : e[2] # ROOT_INODE
  BY <1>3 DEF DiskTyped, RootKept, disk
<1>15. overput' \in Nat
  BY <1>3
<1> QED BY <1>1, <1>3, <1>8, <1>9, <1>10, <1>11, <1>12, <1>13, <1>14, <1>15, QuietStep

(* wdir() has written the entry; both are unlocked, and the directory put.  *)
LEMMA WdirInv == ASSUME IndInv, Steady, NEW p \in Procs, Wdir(p) PROVE IndInv'
<1> USE Given
<1> DEFINE s == call[p].s  w == "access"  c == call[p]  o == ofile[p]
           x == Link(inode[s])  r == Unlock(Dirty(x))  q == Put(Unlock(inode[RootSlot]))
<1>1. /\ Runs(p) /\ pc[p] = "wdir" /\ call[p].s # RootSlot /\ call[p].n \in Inos \ {ROOT_INODE}
      /\ inode[RootSlot].ref > 0 /\ call[p].name \in Names
  <2>1. Runs(p) /\ pc[p] = "wdir" /\ call[p].s # RootSlot /\ call[p].n \in Inos \ {ROOT_INODE}
    BY DEF Wdir, At, SlotsOk, HoldsInode
  <2> QED BY <2>1, RootReferenced DEF OpsOk, Opens
<1>2. s \in Slots /\ c \in CallRec /\ inode[s] \in InodeRec
  BY <1>1 DEF SlotsOk, HoldsInode
<1>3. /\ Moves(p, w, c, o) /\ busy' = p /\ UNCHANGED <<dinode, imap, zmap, overput, panic>>
      /\ inode' = [inode EXCEPT ![s] = r, ![RootSlot] = q] /\ dir' = dir \cup {<<call[p].name, call[p].n>>}
  <2>1. inode' = [inode EXCEPT ![s] = r, ![RootSlot] = q]
    BY <1>1, <1>2 DEF Wdir
  <2> QED BY <1>2, <2>1 DEF Wdir, Go, Moves, BusyPcs
<1>4. /\ x \in InodeRec /\ x.ino = inode[s].ino /\ x.ref = inode[s].ref /\ x.flags = inode[s].flags
  BY <1>2 DEF InodeRec, Link
<1> HIDE DEF x
<1>5. /\ r \in InodeRec /\ r.ino = inode[s].ino /\ r.ref = inode[s].ref
      /\ r.flags = (inode[s].flags \cup {"I_DIRTY"}) \ {"I_LOCK", "I_WANTED"}
  BY <1>4, Fields
<1>6. /\ q \in InodeRec /\ q.ino = inode[RootSlot].ino /\ q.ref = inode[RootSlot].ref - 1 /\ q.links = inode[RootSlot].links
      /\ q.flags = inode[RootSlot].flags \ {"I_LOCK", "I_WANTED"}
  BY <1>1, Fields
<1> HIDE DEF s, w, c, o, r, q
<1>7. OthersCalls(p) /\ pc'[p] = w /\ call'[p] = c /\ ofile'[p] = o
  BY <1>3, Moved
<1>8. /\ inode'[s] = r /\ inode'[RootSlot] = q /\ \A t \in Slots : t # s /\ t # RootSlot => inode'[t] = inode[t]
      /\ Stays
  BY <1>1, <1>2, <1>3, <1>5, <1>6, TwoUpdated DEF s
<1>9. OpsOk(p)' /\ Yields(p)
  BY <1>1, <1>3, <1>7 DEF OpsOk, Opens, Freeing, Yields, BusyPcs, w, c, o
<1>10. SlotsOk(p)'
  BY <1>1, <1>2, <1>5, <1>7, <1>8 DEF SlotsOk, HoldsInode, Freeing, OpsOk, Is, Stays, w, c, o, s
<1>11. LocksMoved(p)
  <2>1. Locks(p) = {RootSlot, s} /\ Locks(p)' = {}
    BY <1>1, <1>7 DEF Locks, InIget, OpsOk, w, c, o, s
  <2> QED BY <1>1, <1>2, <1>5, <1>6, <1>8, <2>1 DEF LocksMoved, Is, s
<1>12. RefsMoved(p)
  <2>1. /\ HoldsDir(p) /\ ~HoldsDir(p)' /\ HoldsInode(p) /\ HoldsInode(p)' /\ ofile'[p] = ofile[p]
        /\ call'[p].s = call[p].s
    BY <1>1, <1>7 DEF HoldsDir, HoldsInode, InIget, w, c, o
  <2>2. \A t \in Slots : inode'[t].ref = IF t = RootSlot THEN inode[t].ref - 1 ELSE inode[t].ref
    BY <1>5, <1>6, <1>8
  <2> QED BY <1>3, <2>1, <2>2, RefsPutRoot
<1>13. SleepersMarked' /\ wchan' \in [Procs -> Slots \cup {NoSlot}]
  <2>1. wchan' = [z \in Procs |-> IF Woken(s)[z] = NoSlot THEN NoSlot ELSE Woken(RootSlot)[z]]
    BY DEF Wdir, s
  <2>2. ASSUME NEW t \in Slots, NEW z \in Procs PROVE Woken(t)[z] = IF wchan[z] = t THEN NoSlot ELSE wchan[z]
    <3>1. CASE Is(t, "I_WANTED")
      BY <3>1 DEF Woken
    <3>2. CASE ~Is(t, "I_WANTED")
      BY <3>2 DEF Woken, SleepersMarked, Is
    <3> QED BY <3>1, <3>2
  <2>3. ASSUME NEW z \in Procs
        PROVE  /\ wchan'[z] \in Slots \cup {NoSlot}
               /\ wchan'[z] # NoSlot => wchan'[z] = wchan[z] /\ wchan[z] # s /\ wchan[z] # RootSlot
    <3>1. /\ Woken(s)[z] = IF wchan[z] = s THEN NoSlot ELSE wchan[z]
          /\ Woken(RootSlot)[z] = IF wchan[z] = RootSlot THEN NoSlot ELSE wchan[z]
      BY <1>2, <2>2
    <3> QED BY <2>1, <3>1
  <2> QED BY <1>8, <2>1, <2>3 DEF SleepersMarked
<1>14. DiskTyped' /\ ROOT_INODE \in imap' /\ \A e \in dir' : e[2] # ROOT_INODE
  BY <1>1, <1>3 DEF DiskTyped, RootKept
<1>15. overput' \in Nat
  BY <1>3
<1> QED BY <1>1, <1>3, <1>8, <1>9, <1>10, <1>11, <1>12, <1>13, <1>14, <1>15, QuietStep

(* sys_unlink() takes a link from the inode, and locks it; the directory is *)
(* unlocked and put.                                                        *)
LEMMA UnlinkedInv == ASSUME IndInv, Steady, NEW p \in Procs, Unlinked(p) PROVE IndInv'
<1> USE Given
<1>a. /\ Runs(p) /\ pc[p] = "unlinked" /\ call[p].s \in Slots /\ call[p].s # RootSlot /\ ~Is(call[p].s, "I_LOCK")
      /\ inode[RootSlot].ref > 0 /\ inode[call[p].s].links > 0 /\ inode[call[p].s].ino \in Inos
  <2>1. Runs(p) /\ pc[p] = "unlinked" /\ ~Panics(p)
    BY DEF Unlinked, At
  <2>2. /\ call[p].s \in Slots /\ call[p].s # RootSlot /\ ~Is(call[p].s, "I_LOCK")
        /\ inode[call[p].s].ino # 0 /\ inode[call[p].s] \in InodeRec
    BY <2>1 DEF SlotsOk, HoldsInode
  <2>3. inode[call[p].s].links > 0
    BY <2>1, <2>2 DEF Panics, InodeRec
  <2> QED BY <2>1, <2>2, <2>3, RootReferenced DEF InodeRec
<1>b. PICK m \in Inos : m = inode[call[p].s].ino
  BY <1>a
<1> DEFINE s == call[p].s  w == "upd_unlink"  c == [call[p] EXCEPT !.n = m]  o == ofile[p]
           x == Unlink(inode[s])  r == Dirty(Lock(x))  q == Put(Unlock(inode[RootSlot]))
<1>2. s \in Slots /\ c \in CallRec /\ inode[s] \in InodeRec
  BY <1>a, CallFields
<1>3. /\ Moves(p, w, c, o) /\ busy' = NoProc /\ UNCHANGED <<disk, overput, panic>> /\ wchan' = Woken(RootSlot)
      /\ inode' = [inode EXCEPT ![s] = r, ![RootSlot] = q]
  <2>1. inode' = [inode EXCEPT ![s] = r, ![RootSlot] = q]
    BY <1>a, <1>2 DEF Unlinked, ParentPut
  <2>2. call' = [call EXCEPT ![p] = c]
    BY <1>b DEF Unlinked
  <2> QED BY <1>2, <2>1, <2>2 DEF Unlinked, Bread, Moves, SleepPcs
<1>4. /\ x \in InodeRec /\ x.ino = inode[s].ino /\ x.ref = inode[s].ref /\ x.flags = inode[s].flags
  BY <1>a, <1>2 DEF InodeRec, Unlink
<1> HIDE DEF x
<1>5. /\ r \in InodeRec /\ r.ino = inode[s].ino /\ r.ref = inode[s].ref
      /\ r.flags = inode[s].flags \cup {"I_LOCK", "I_DIRTY"}
  BY <1>4, Fields
<1>6. /\ q \in InodeRec /\ q.ino = inode[RootSlot].ino /\ q.ref = inode[RootSlot].ref - 1 /\ q.links = inode[RootSlot].links
      /\ q.flags = inode[RootSlot].flags \ {"I_LOCK", "I_WANTED"}
  BY <1>a, Fields
<1> HIDE DEF s, w, c, o, r, q
<1>7. OthersCalls(p) /\ pc'[p] = w /\ call'[p] = c /\ ofile'[p] = o
  BY <1>3, Moved
<1>8. /\ inode'[s] = r /\ inode'[RootSlot] = q /\ \A t \in Slots : t # s /\ t # RootSlot => inode'[t] = inode[t]
      /\ Stays
  BY <1>a, <1>2, <1>3, <1>5, <1>6, TwoUpdated DEF s
<1>9. OpsOk(p)' /\ Yields(p)
  BY <1>a, <1>3, <1>7 DEF OpsOk, Opens, Freeing, Yields, BusyPcs, w, c, o
<1>10. SlotsOk(p)'
  BY <1>a, <1>2, <1>5, <1>7, <1>8 DEF SlotsOk, HoldsInode, Freeing, OpsOk, Is, Stays, w, c, o, s
<1>11. LocksMoved(p)
  <2>1. Locks(p) = {RootSlot} /\ Locks(p)' = {s}
    BY <1>a, <1>7 DEF Locks, InIget, OpsOk, w, c, o, s
  <2> QED BY <1>a, <1>2, <1>5, <1>6, <1>8, <2>1 DEF LocksMoved, Is, s
<1>12. RefsMoved(p)
  <2>1. /\ HoldsDir(p) /\ ~HoldsDir(p)' /\ HoldsInode(p) /\ HoldsInode(p)' /\ ofile'[p] = ofile[p]
        /\ call'[p].s = call[p].s
    BY <1>a, <1>7 DEF HoldsDir, HoldsInode, InIget, w, c, o
  <2>2. \A t \in Slots : inode'[t].ref = IF t = RootSlot THEN inode[t].ref - 1 ELSE inode[t].ref
    BY <1>5, <1>6, <1>8
  <2> QED BY <1>3, <2>1, <2>2, RefsPutRoot
<1>13. SleepersMarked' /\ wchan' \in [Procs -> Slots \cup {NoSlot}]
  BY <1>3, <1>5, <1>8, SleepersWoken
<1>14. DiskTyped' /\ ROOT_INODE \in imap' /\ \A e \in dir' : e[2] # ROOT_INODE
  BY <1>3 DEF DiskTyped, RootKept, disk
<1>15. overput' \in Nat
  BY <1>3
<1> QED BY <1>a, <1>3, <1>8, <1>9, <1>10, <1>11, <1>12, <1>13, <1>14, <1>15, QuietStep

-----------------------------------------------------------------------------
(* An entry that nobody refers to is not locked, and nobody sleeps on it,   *)
(* while no inode is being freed.                                           *)
LEMMA UnusedFree ==
    ASSUME IndInv, Steady, NEW p \in Procs, Runs(p), pc[p] = "iget", NEW s \in Slots, inode[s].ref = 0,
           \A q \in Procs : Freeing(q) => call[q].s # s
    PROVE  s # RootSlot /\ ~Is(s, "I_LOCK") /\ \A q \in Procs : wchan[q] # s
<1> USE Given
<1>1. s # RootSlot
  BY RootReferenced
<1>2. ~Is(s, "I_LOCK")
  <2> SUFFICES ASSUME Is(s, "I_LOCK") PROVE FALSE
    OBVIOUS
  <2>1. PICK q \in Procs : s \in Locks(q)
    BY DEF IndInv, LocksOwned
  <2>2. \/ pc[q] \in {"load", "wdir", "trunc", "bfree", "upd_trunc", "upd_unlink"} /\ call[q].s = s
        \/ ofile[q] = s
    BY <1>1, <2>1 DEF Locks
  <2>3. OpsOk(q)
    BY DEF IndInv
  <2>4. (HoldsInode(q) /\ call[q].s = s) \/ ofile[q] = s
    BY <2>2, <2>3 DEF HoldsInode, OpsOk
  <2> QED BY <1>1, <2>4, InUse
<1> QED BY <1>1, <1>2 DEF SleepersMarked, Is

(* iget() reserves and locks an entry that is unused, and reads the inode.  *)
LEMMA IgetMissInv == ASSUME IndInv, Steady, NEW p \in Procs, IgetMiss(p), ~GivesFreed(p) PROVE IndInv'
<1> USE Given
<1>a. /\ Runs(p) /\ pc[p] = "iget" /\ Cached(call[p].n) = {} /\ ~call[p].free
      /\ call[p].n \in Inos \ {ROOT_INODE} /\ call[p].n # 0 /\ call[p].ret # "lockdir"
  <2>1. Runs(p) /\ pc[p] = "iget" /\ Cached(call[p].n) = {}
    BY DEF IgetMiss, AtIget, At
  <2>2. call[p].n # ROOT_INODE
    BY <2>1 DEF Cached, RootKept
  <2> QED BY <2>1, <2>2, InodeAssumption DEF OpsOk, Freeing
<1>b. PICK k \in Slots : k = Min(Unused) /\ inode[k].ref = 0
  <2>1. Unused # {}
    BY <1>a DEF IgetMiss, AtIget, At, Panics
  <2>2. Unused \in SUBSET Nat
    BY InodeAssumption DEF Unused, Slots
  <2> QED BY <2>1, <2>2, Lowest DEF Unused
<1>e. \A q \in Procs : Freeing(q) => call[q].s # k
  <2>1. call'[p].s = k /\ pc'[p] = "load"
    BY <1>b DEF IgetMiss, Bread, IndInv, CallsTyped, CallRec
  <2> QED BY <1>a, <2>1, NotGiven
<1>c. k # RootSlot /\ ~Is(k, "I_LOCK") /\ \A q \in Procs : wchan[q] # k
  BY <1>a, <1>b, <1>e, UnusedFree
<1>d. PICK l : l = IF call[p].ret = "unlinked" THEN {RootSlot} ELSE {}
  OBVIOUS
<1> DEFINE s == k  w == "load"  c == [call[p] EXCEPT !.s = k]  o == ofile[p]
           r == [inode[k] EXCEPT !.ino = call[p].n, !.ref = 1, !.flags = Reserved]
<1>2. s \in Slots /\ c \in CallRec
  BY <1>b, CallFields
<1>3. /\ Moves(p, w, c, o) /\ busy' = NoProc /\ UNCHANGED <<disk, wchan, overput, panic>>
      /\ inode' = [inode EXCEPT ![s] = r]
  <2>1. /\ inode' = [inode EXCEPT ![k].ino = call[p].n, ![k].ref = 1, ![k].flags = Reserved]
        /\ call' = [call EXCEPT ![p].s = k]
    BY <1>b DEF IgetMiss
  <2>2. inode' = [inode EXCEPT ![s] = r]
    BY <1>b, <2>1
  <2>3. call' = [call EXCEPT ![p] = c]
    BY <2>1
  <2> QED BY <1>2, <2>2, <2>3 DEF IgetMiss, Bread, Moves, SleepPcs
<1>4. r \in InodeRec /\ r.ino = call[p].n /\ r.ref = 1 /\ r.flags = {"I_LOCK"}
  <2>1. PICK y \in InodeRec : y = inode[k]
    BY <1>b
  <2>2. PICK n \in Inos : n = call[p].n
    BY <1>a
  <2>3. PICK z : z = [y EXCEPT !.ino = n, !.ref = 1, !.flags = {"I_LOCK"}]
    OBVIOUS
  <2>4. z \in InodeRec /\ z.ino = n /\ z.ref = 1 /\ z.flags = {"I_LOCK"}
    BY <2>3 DEF InodeRec
  <2>5. r = z
    BY <2>1, <2>2, <2>3 DEF Reserved
  <2> QED BY <2>2, <2>4, <2>5
<1> HIDE DEF s, w, c, o, r
<1>5. OthersCalls(p) /\ pc'[p] = w /\ call'[p] = c /\ ofile'[p] = o
  BY <1>3, Moved
<1>6. inode' \in [Slots -> InodeRec] /\ inode'[s] = r /\ \A t \in Slots : t # s => inode'[t] = inode[t]
  BY <1>2, <1>3, <1>4, SlotUpdated
<1>7. OpsOk(p)' /\ Yields(p)
  BY <1>a, <1>3, <1>5 DEF OpsOk, Opens, Freeing, Yields, BusyPcs, w, c, o
<1>8. SlotsOk(p)'
  BY <1>a, <1>c, <1>2, <1>4, <1>5, <1>6 DEF SlotsOk, HoldsInode, Freeing, OpsOk, Is, w, c, o, s
<1>9. LocksMoved(p)
  <2>1. Locks(p) = l /\ Locks(p)' = l \cup {s}
    BY <1>a, <1>5, <1>d DEF Locks, InIget, w, c, o, s
  <2>2. s \notin l /\ \A t \in l : t \in Slots /\ Is(t, "I_LOCK")
    BY <1>c, <1>d, <2>1 DEF s
  <2> QED BY <1>c, <1>2, <1>4, <1>6, <2>1, <2>2 DEF LocksMoved, Is, s
<1>10. RefsMoved(p)
  <2>1. /\ HoldsDir(p)' <=> HoldsDir(p)
        /\ ~HoldsInode(p) /\ HoldsInode(p)' /\ ofile'[p] = ofile[p] /\ call'[p].s = s
    BY <1>a, <1>5 DEF HoldsDir, HoldsInode, InIget, w, c, o, s
  <2>2. \A t \in Slots : inode'[t].ref = IF t = s THEN inode[t].ref + 1 ELSE inode[t].ref
    BY <1>b, <1>4, <1>6 DEF s
  <2> QED BY <1>e, <1>3, <2>1, <2>2, RefsGetInode DEF s
<1>11. SleepersMarked' /\ wchan' \in [Procs -> Slots \cup {NoSlot}]
  BY <1>c, <1>3, <1>6 DEF SleepersMarked, s
<1>12. DiskTyped'
  BY <1>3 DEF DiskTyped, disk
<1>13. overput' \in Nat
  BY <1>3
<1>14. \A t \in Slots : inode[t].ino # 0 => inode'[t].ino # 0
  BY <1>a, <1>4, <1>6
<1>15. OneSlotPerInode'
  <2>1. \A t \in Slots : inode[t].ino # call[p].n
    BY <1>a DEF Cached
  <2> QED BY <1>4, <1>6, <2>1 DEF OneSlotPerInode, IndInv
<1>16. RootKept'
  BY <1>c, <1>3, <1>6 DEF RootKept, disk, s
<1> QED BY <1>a, <1>3, <1>6, <1>7, <1>8, <1>9, <1>10, <1>11, <1>12, <1>13, <1>14, <1>15, <1>16, StepInv

-----------------------------------------------------------------------------
(* panic(), or no step at all, leaves everything as it is.                  *)
LEMMA UnchangedInv ==
    ASSUME IndInv, UNCHANGED <<inode, disk, pc, call, ofile, wchan, busy, overput>>,
           panic' \in BOOLEAN, raced' \in BOOLEAN
    PROVE  IndInv'
<1>1. TypeOK' /\ CallsTyped'
  BY DEF IndInv, TypeOK, CallsTyped, disk
<1>2. BusyOwned'
  BY DEF IndInv, BusyOwned, Freeing
<1>3. ASSUME NEW p \in Procs PROVE OpsOk(p)' /\ SlotsOk(p)'
  BY DEF IndInv, OpsOk, SlotsOk, Freeing, HoldsInode, Is
<1>4. OneSlotPerInode' /\ SleepersMarked' /\ RootKept'
  BY DEF IndInv, OneSlotPerInode, SleepersMarked, RootKept, disk
<1>5. LocksOwned'
  <2>1. \A p \in Procs : Locks(p)' = Locks(p)
    BY DEF Locks, InIget
  <2>2. \A t \in Slots : Is(t, "I_LOCK")' <=> Is(t, "I_LOCK")
    BY DEF Is
  <2>3. /\ \A p, q \in Procs : p # q => Locks(p) \cap Locks(q) = {}
        /\ {t \in Slots : Is(t, "I_LOCK")} = UNION {Locks(p) : p \in Procs}
    BY DEF IndInv, LocksOwned
  <2>4. \A p, q \in Procs : p # q => Locks(p)' \cap Locks(q)' = {}
    BY <2>1, <2>3
  <2>5. {t \in Slots : Is(t, "I_LOCK")'} = UNION {Locks(p)' : p \in Procs}
    BY <2>1, <2>2, <2>3
  <2> QED BY <2>4, <2>5 DEF LocksOwned
<1>6. RefsCounted'
  <2>1. /\ DirSet' = DirSet
        /\ \A t : CallSet(t)' = CallSet(t) /\ FileSet(t)' = FileSet(t)
    BY DEF DirSet, CallSet, FileSet, HoldsDir, HoldsInode, InIget
  <2>2. \A t : References(t)' = References(t)
    BY <2>1 DEF References, DirSet, CallSet, FileSet
  <2> QED BY <2>2 DEF IndInv, RefsCounted
<1> QED BY <1>1, <1>2, <1>3, <1>4, <1>5, <1>6 DEF IndInv

-----------------------------------------------------------------------------
(* The invariant at the start: nobody is in the kernel.                     *)
LEMMA InitInv == Init => IndInv
<1> SUFFICES ASSUME Init PROVE IndInv
  OBVIOUS
<1>1. RootSlot \in Slots /\ NoSlot \notin Slots /\ Cardinality(Procs) \in Nat
  BY InodeAssumption, FS_CardinalityType DEF RootSlot, NoSlot, Slots
<1>2. NoCall \in CallRec
  BY DEF NoCall, CallRec, Rets
<1>3. \A p \in Procs : pc[p] = "user" /\ call[p] = NoCall /\ ofile[p] = NoSlot /\ wchan[p] = NoSlot
  BY DEF Init
<1>4. CallsTyped
  BY <1>2 DEF Init, CallsTyped, SleepPcs
<1>5. TypeOK
  <2>1. inode \in [Slots -> InodeRec]
    BY <1>1, InodeAssumption DEF Init, InodeRec
  <2>2. dinode \in [Inos -> [links : Nat, blk : Blocks \cup {0}]]
    BY DEF Init
  <2> QED BY <2>1, <2>2, <1>1, InodeAssumption DEF Init, TypeOK, InodeRec, SleepPcs
<1>6. BusyOwned /\ \A p \in Procs : OpsOk(p) /\ SlotsOk(p)
  <2>1. BusyOwned
    BY <1>3 DEF BusyOwned, BusyPcs, Freeing
  <2>2. ASSUME NEW p \in Procs PROVE OpsOk(p)
    <3>1. NoCall.op = "none" /\ ~NoCall.free
      BY DEF NoCall
    <3> QED BY <1>3, <3>1 DEF OpsOk, Freeing, Opens
  <2>3. ASSUME NEW p \in Procs PROVE SlotsOk(p)
    BY <1>1, <1>3 DEF SlotsOk, Freeing, HoldsInode
  <2> QED BY <2>1, <2>2, <2>3
<1>7. OneSlotPerInode
  BY DEF Init, OneSlotPerInode
<1>8. LocksOwned
  <2>1. \A p \in Procs : Locks(p) = {}
    BY <1>3 DEF Locks, InIget
  <2>2. \A t \in Slots : ~Is(t, "I_LOCK")
    BY DEF Init, Is
  <2> QED BY <2>1, <2>2 DEF LocksOwned
<1>9. SleepersMarked /\ RootKept
  BY <1>1, <1>3 DEF Init, SleepersMarked, RootKept
<1>10. RefsCounted
  <2>1. DirSet = {} /\ \A t \in Slots : CallSet(t) = {} /\ FileSet(t) = {}
    BY <1>1, <1>3 DEF DirSet, CallSet, FileSet, HoldsDir, HoldsInode, InIget
  <2>2. \A t \in Slots : References(t) = (IF t = RootSlot THEN 1 + Cardinality(Procs) ELSE 0)
    BY <1>1, <2>1, ReferencesAre, FS_EmptySet
  <2>3. overput = 0 /\ \A t \in Slots : inode[t].ref = (IF t = RootSlot THEN 1 + Cardinality(Procs) ELSE 0)
    BY DEF Init
  <2> QED BY <1>1, <2>2, <2>3 DEF RefsCounted
<1> QED BY <1>4, <1>5, <1>6, <1>7, <1>8, <1>9, <1>10 DEF IndInv

(* Where nameicore() goes on.                                               *)
LEMMA NameicoreGoes ==
    ASSUME IndInv, NEW p \in Procs, NEW c, Nameicore(p, c)
    PROVE  pc'[p] = "lockdir" \/ pc'[p] = "iget"
BY DEF IndInv, TypeOK, Nameicore, Go

(* Every step of the kernel keeps the invariant: first the ones with        *)
(* several outcomes.                                                        *)
LEMMA BranchInv ==
    ASSUME IndInv, Steady, NEW p \in Procs, ~GivesFreed(p)
    PROVE  /\ IgetHit(p) => IndInv'
           /\ Iput(p) => IndInv'
           /\ TruncReturn(p) => IndInv'
           /\ FreeReturn(p) => IndInv'
           /\ FileCreat(p) => IndInv'
           /\ LookupDenied(p) => IndInv'
           /\ NotFound(p) => IndInv'
           /\ OpenGranted(p) => IndInv'
           /\ ParentDenied(p) => IndInv'
<1>1. ASSUME IgetHit(p) PROVE IndInv'
  BY <1>1, IgetHitRootInv, IgetHitInodeInv
<1>2. ASSUME Iput(p) PROVE IndInv'
  BY <1>2, IputReturnInv, IputParentInv, IputFreesInv
<1>3. ASSUME TruncReturn(p) PROVE IndInv'
  BY <1>3, TruncFreeInv, TruncOpenInv
<1>4. ASSUME FreeReturn(p) PROVE IndInv'
  BY <1>4, FreedReturnInv, FreedParentInv
<1>5. ASSUME FileCreat(p) PROVE IndInv'
  <2>1. pc'[p] = "lockdir" \/ pc'[p] = "iget"
    BY <1>5, NameicoreGoes DEF FileCreat
  <2> QED BY <1>5, <2>1, FileCreatIgetInv, FileCreatIdupInv
<1>6. ASSUME LookupDenied(p) PROVE IndInv'
  BY <1>6, LookupReturnInv, LookupOverputInv
<1>7. ASSUME NotFound(p) PROVE IndInv'
  <2>1. call[p].op \in {"open", "creat"} \/ WantsParent(p)
    BY <1>7 DEF NotFound, At, IndInv, OpsOk, Opens, WantsParent
  <2> QED BY <1>7, <2>1, NotFoundParentInv, NotFoundCreatInv, NotFoundOverputInv
<1>8. ASSUME OpenGranted(p) PROVE IndInv'
  BY <1>8, OpenReturnInv, CreatTruncInv
<1>9. ASSUME ParentDenied(p) PROVE IndInv'
  BY <1>9, ParentReturnInv, ParentOverputInv
<1> QED BY <1>1, <1>2, <1>3, <1>4, <1>5, <1>6, <1>7, <1>8, <1>9

(* Then all of them.                                                        *)
LEMMA KernelInv == ASSUME IndInv, Steady, NEW p \in Procs, ~GivesFreed(p), Kernel(p) PROVE IndInv'
<1>1. CASE IgetSleep(p) \/ IgetHit(p) \/ IgetMiss(p) \/ Load(p)
  BY <1>1, BranchInv, IgetSleepInv, IgetMissInv, LoadInv
<1>2. CASE Iput(p) \/ TruncBlock(p) \/ Bfree(p) \/ TruncUpdate(p) \/ TruncReturn(p) \/ Ifree(p) \/ FreeReturn(p)
  BY <1>2, BranchInv, TruncBlockInv, BfreeInv, TruncUpdateInv, IfreeInv
<1>3. CASE FileCreat(p) \/ LockDir(p) \/ LookupDenied(p) \/ NotFound(p)
  BY <1>3, BranchInv, LockDirInv
<1>4. CASE \E n \in Inos : Found(p, n) \/ UnlinkEntry(p, n)
  BY <1>4, FoundInv, UnlinkEntryInv
<1>5. CASE PutNext(p) \/ NameiReturn(p) \/ OpenDenied(p) \/ OpenGranted(p) \/ ParentDenied(p) \/ ParentGranted(p)
  BY <1>5, BranchInv, PutNextInv, NameiReturnInv, OpenDeniedInv, ParentGrantedInv
<1>6. CASE Ialloc(p) \/ NewInode(p) \/ Wdir(p) \/ UnlinkLock(p) \/ UnlinkNoEntry(p) \/ Unlinked(p) \/ UnlinkReturn(p)
  BY <1>6, IallocInv, NewInodeInv, WdirInv, UnlinkLockInv, UnlinkNoEntryInv, UnlinkedInv, UnlinkReturnInv
<1>7. CASE LockRead(p) \/ LockWrite(p) \/ Balloc(p) \/ IoReturn(p)
  BY <1>7, LockReadInv, LockWriteInv, BallocInv, IoReturnInv
<1> QED BY <1>1, <1>2, <1>3, <1>4, <1>5, <1>6, <1>7 DEF Kernel

(* What a step of Next does, but for a race.                                *)
LEMMA Stepped ==
    ASSUME Next, raced \in BOOLEAN
    PROVE  /\ Steady
           /\ raced => raced'
           /\ ~raced' => \E p \in Procs : (Kernel(p) \/ User(p) \/ Panic(p)) /\ ~GivesFreed(p)
<1>1. PICK p \in Procs : (Kernel(p) \/ User(p) \/ Panic(p)) /\ raced' = (raced \/ GivesFreed(p))
  BY DEF Next
<1>2. raced' \in BOOLEAN /\ (raced => raced') /\ (~raced' => ~GivesFreed(p))
  BY <1>1, Zenon
<1> QED BY <1>1, <1>2 DEF Steady, Next

(* Every step but a race keeps the invariant.                               *)
LEMMA NextInv == ASSUME IndInv, ~raced', [Next]_vars PROVE IndInv'
<1>0. raced \in BOOLEAN
  BY DEF IndInv, TypeOK
<1>1. CASE Next
  <2>0. Steady
    BY <1>0, <1>1, Stepped
  <2>1. PICK p \in Procs : (Kernel(p) \/ User(p) \/ Panic(p)) /\ ~GivesFreed(p)
    BY <1>0, <1>1, Stepped
  <2>2. CASE Kernel(p)
    BY <2>0, <2>1, <2>2, KernelInv
  <2>3. ASSUME NEW op \in {"open", "creat", "unlink"}, NEW x \in Names, Begin(p, op, x) PROVE IndInv'
    <3>1. pc'[p] = "lockdir" \/ pc'[p] = "iget"
      BY <2>3, NameicoreGoes DEF Begin
    <3> QED BY <2>0, <2>3, <3>1, BeginIdupInv, BeginIgetInv
  <2>4. ASSUME NEW v \in {"rd", "wr", "iput"}, BeginFile(p, v) PROVE IndInv'
    <3>1. CASE v = "iput"
      BY <2>0, <2>4, <3>1, BeginCloseInv
    <3>2. CASE v \in {"rd", "wr"}
      BY <2>0, <2>4, <3>2, BeginIoInv
    <3> QED BY <3>1, <3>2
  <2>5. CASE Panic(p)
    BY <2>0, <2>5, UnchangedInv DEF Panic, Steady
  <2> QED BY <2>1, <2>2, <2>3, <2>4, <2>5 DEF User
<1>2. CASE UNCHANGED vars
  <2>1. panic' \in BOOLEAN /\ raced' \in BOOLEAN
    BY <1>2 DEF vars, IndInv, TypeOK
  <2> QED BY <1>2, <2>1, UnchangedInv DEF vars
<1> QED BY <1>1, <1>2

-----------------------------------------------------------------------------
(* The invariant holds until the race, which is not undone.                 *)
RacedInv == raced \in BOOLEAN /\ (~raced => IndInv)

(* It does in every state.                                                  *)
THEOREM Invariance == Spec => []RacedInv
<1>1. Init => RacedInv
  BY InitInv DEF RacedInv, IndInv, TypeOK
<1>2. RacedInv /\ [Next]_vars => RacedInv'
  <2> SUFFICES ASSUME RacedInv, [Next]_vars PROVE RacedInv'
    OBVIOUS
  <2>1. raced' \in BOOLEAN /\ (raced => raced')
    <3>1. raced \in BOOLEAN
      BY DEF RacedInv
    <3>2. CASE Next
      BY <3>1, <3>2, Stepped DEF Steady
    <3>3. CASE UNCHANGED vars
      BY <3>1, <3>3 DEF vars
    <3> QED BY <3>2, <3>3
  <2>2. ASSUME ~raced' PROVE IndInv'
    <3>1. IndInv
      BY <2>1, <2>2 DEF RacedInv
    <3> QED BY <2>2, <3>1, NextInv
  <2> QED BY <2>1, <2>2 DEF RacedInv
<1> QED BY <1>1, <1>2, PTL DEF Spec

(* The inode cache: until iget() gives out an inode that iput() is freeing, *)
(* or has freed, an inode is never in two entries of inodes[], though       *)
(* iget() sleeps while it reads one, and an entry that is locked was locked *)
(* by one process, which is still at work on it.                            *)
THEOREM Soundness == Spec => []CacheSound
<1>1. RacedInv => CacheSound
  BY DEF RacedInv, IndInv, CacheSound
<1> QED BY <1>1, Invariance, PTL

(* Until then, who sleeps in iget() on an inode sleeps on one that is       *)
(* locked and marked I_WANTED, so that the iunlock() to come wakes it up.   *)
THEOREM Sleepers == Spec => []SleepersWanted
<1>1. RacedInv => SleepersWanted
  BY DEF RacedInv, IndInv, SleepersWanted
<1> QED BY <1>1, Invariance, PTL

(* Until then, i_refcount counts the users of an inode, but for the         *)
(* directory that each failed open() puts once too often.                   *)
THEOREM ReferenceCounts == Spec => [](raced \/ RefsCounted)
<1>1. RacedInv => raced \/ RefsCounted
  BY DEF RacedInv, IndInv
<1> QED BY <1>1, Invariance, PTL

-----------------------------------------------------------------------------
(* What the inodes hold: links, blocks and the bitmaps.                     *)

Zero == [links |-> 0, blk |-> 0]

(* The entry that iget() still reads into, and those that itrunc() works on *)
(* as well: what is there has not been written to disk.                     *)
Loading(t) == \E p \in Procs : pc[p] = "load" /\ call[p].s = t
Worked(t) == \E p \in Procs : pc[p] \in {"load", "trunc", "bfree"} /\ call[p].s = t

(* What p knows of the inode it is at work on: its number, its block, that  *)
(* it has no link when it is freed, and that a new one is empty.            *)
FsOk(p) ==
    LET s == call[p].s IN
    /\ pc[p] \in {"load", "newinode", "wdir", "unlinked", "upd_unlink", "upd_trunc", "ifree", "upd_free"} =>
         inode[s].ino = call[p].n
    /\ pc[p] = "bfree" => call[p].b = inode[s].blk /\ call[p].b # 0
    /\ pc[p] \in {"upd_trunc", "ifree", "upd_free"} => inode[s].blk = 0
    /\ pc[p] = "balloc" => inode[ofile[p]].blk = 0
    /\ Freeing(p) => inode[s].links = 0
    /\ Freeing(p) /\ pc[p] # "upd_free" => inode[s].ino \in imap
    /\ pc[p] \in {"newinode", "wdir"} => Written(s) = Zero
    /\ pc[p] = "load" /\ call[p].ret = "newinode" => dinode[call[p].n] = Zero
    /\ pc[p] = "iget" /\ call[p].ret = "newinode" =>
         /\ busy = p /\ Content(call[p].n) = Zero
         /\ \A t \in Slots : inode[t].ino = call[p].n => ~Is(t, "I_LOCK")

(* An entry that is not marked has what is on disk.                         *)
CleanOrWorked ==
    \A t \in Slots : inode[t].ino # 0 /\ ~Is(t, "I_DIRTY") /\ ~Worked(t) => dinode[inode[t].ino] = Written(t)

(* A free inode is empty, and nobody uses it.                               *)
FreeIsEmpty ==
    \A n \in Inos \ imap :
        Content(n) = Zero /\ \A t \in Slots : inode[t].ino = n => inode[t].ref = 0

Entries(n) == {e \in dir : e[2] = n}
LinksAre ==
    /\ IsFiniteSet(dir)
    /\ \A n \in Inos \ {ROOT_INODE} : Content(n).links = Cardinality(Entries(n)) + Cardinality(Unlinking(n))

BlocksAre ==
    /\ IsFiniteSet(zmap)
    /\ \A b \in Blocks : b \in zmap <=> \E n \in Inos : Content(n).blk = b
    /\ \A n, m \in Inos : Content(n).blk = Content(m).blk /\ Content(n).blk # 0 => n = m

FsInv == (\A p \in Procs : FsOk(p)) /\ CleanOrWorked /\ FreeIsEmpty /\ LinksAre /\ BlocksAre

-----------------------------------------------------------------------------
(* Another process is at work on entries it has locked, or is freeing: a    *)
(* step of p leaves these alone, in memory and on disk.                     *)
SameContents(t) ==
    inode'[t].ino = inode[t].ino /\ inode'[t].links = inode[t].links /\ inode'[t].blk = inode[t].blk

FreedByOther(p, t) == \E q \in Procs : q # p /\ Freeing(q) /\ call[q].s = t

LeavesLocked(p) ==
    \A t \in Slots : (Is(t, "I_LOCK") /\ t \notin Locks(p)) \/ FreedByOther(p, t) =>
        /\ SameContents(t)
        /\ inode[t].ino # 0 =>
             /\ dinode'[inode[t].ino] = dinode[inode[t].ino]
             /\ inode[t].ino \in imap => inode[t].ino \in imap'

(* Nobody else frees what p uses or frees.                                  *)
LEMMA OwnEntry ==
    ASSUME IndInv, NEW p \in Procs, NEW t \in Slots, inode[t].ref > 0 \/ (Freeing(p) /\ call[p].s = t)
    PROVE  ~FreedByOther(p, t)
<1> SUFFICES ASSUME NEW q \in Procs, q # p, Freeing(q), call[q].s = t PROVE FALSE
  BY DEF FreedByOther
<1>1. inode[t].ref = 0
  BY FreedSlots
<1>2. Freeing(p) => call[p].s # t
  BY DEF IndInv, SlotsOk
<1> QED BY <1>1, <1>2

(* What a process that sleeps knows of its inode holds when it wakes up.    *)
LEMMA OthersFs ==
    ASSUME IndInv, NEW p \in Procs, Runs(p), OthersCalls(p), LeavesLocked(p),
           NEW q \in Procs, q # p, FsOk(q)
    PROVE  FsOk(q)'
<1>1. pc[q] \in SleepPcs /\ ~(pc[q] \in BusyPcs) /\ busy # q
  BY OthersSleep, InodeAssumption DEF Runs
<1>2. pc'[q] = pc[q] /\ call'[q] = call[q] /\ ofile'[q] = ofile[q]
  BY DEF OthersCalls
<1>3. \A t \in Locks(q) : t \in Slots /\ Is(t, "I_LOCK") /\ t \notin Locks(p)
  BY DEF IndInv, LocksOwned
<1>4. \A t \in Locks(q) : SameContents(t) /\ (inode[t].ino # 0 => dinode'[inode[t].ino] = dinode[inode[t].ino])
  BY <1>3 DEF LeavesLocked
<1>5. Freeing(q) => /\ SameContents(call[q].s)
                    /\ inode[call[q].s].ino \in imap => inode[call[q].s].ino \in imap'
  <2> SUFFICES ASSUME Freeing(q)
               PROVE  /\ SameContents(call[q].s)
                      /\ inode[call[q].s].ino \in imap => inode[call[q].s].ino \in imap'
    OBVIOUS
  <2>1. call[q].s \in Slots /\ inode[call[q].s].ino # 0
    BY DEF IndInv, SlotsOk
  <2>2. FreedByOther(p, call[q].s)
    BY DEF FreedByOther
  <2> QED BY <2>1, <2>2 DEF LeavesLocked
<1>6. Freeing(q)' <=> Freeing(q)
  BY <1>2 DEF Freeing
<1>7. /\ pc[q] \in {"load", "wdir", "upd_unlink", "upd_trunc", "bfree"} => call[q].s \in Locks(q)
      /\ pc[q] = "balloc" => ofile[q] \in Locks(q)
      /\ pc[q] \in {"ifree", "upd_free"} => Freeing(q)
  BY DEF Locks, IndInv, OpsOk
<1>8. pc[q] \notin {"newinode", "unlinked"}
  BY <1>1 DEF BusyPcs
<1>9. ~(pc[q] = "iget" /\ call[q].ret = "newinode")
  BY <1>1 DEF FsOk
<1>10. pc[q] = "load" => inode[call[q].s].ino # 0
  BY DEF IndInv, SlotsOk, HoldsInode
<1>11. pc[q] = "wdir" => Written(call[q].s)' = Written(call[q].s)
  BY <1>4, <1>7, <1>2 DEF Written, SameContents
<1>12. pc[q] = "load" => inode[call[q].s].ino = call[q].n /\ dinode'[call[q].n] = dinode[call[q].n]
  BY <1>4, <1>7, <1>10 DEF FsOk
<1>13. pc[q] \in {"load", "wdir", "upd_unlink", "upd_trunc", "bfree", "ifree", "upd_free"} =>
         SameContents(call[q].s)
  BY <1>4, <1>5, <1>7
<1>14. pc[q] = "balloc" => SameContents(ofile[q])
  BY <1>4, <1>7
<1> QED BY <1>2, <1>5, <1>6, <1>8, <1>9, <1>11, <1>12, <1>13, <1>14 DEF FsOk, SameContents

(* Content() is what is in the cache, and else what is on disk: before ...  *)
LEMMA ContentIs ==
    ASSUME IndInv, NEW n \in Inos
    PROVE  /\ \A t \in Slots : inode[t].ino = n /\ ~Loading(t) => Content(n) = Written(t)
           /\ (\A t \in Slots : inode[t].ino = n => Loading(t)) => Content(n) = dinode[n]
<1>1. n # 0 /\ OneSlotPerInode
  BY InodeAssumption DEF IndInv
<1>2. Valid(n) = {t \in Slots : inode[t].ino = n /\ ~Loading(t)}
  BY DEF Valid, Cached, Loading
<1>3. \A t, u \in Valid(n) : t = u
  BY <1>1, <1>2 DEF OneSlotPerInode
<1>4. ASSUME NEW t \in Slots, inode[t].ino = n, ~Loading(t) PROVE Content(n) = Written(t)
  <2>1. t \in Valid(n)
    BY <1>2, <1>4
  <2>2. (CHOOSE u \in Valid(n) : TRUE) = t
    BY <1>3, <2>1
  <2> QED BY <2>1, <2>2 DEF Content
<1>5. ASSUME \A t \in Slots : inode[t].ino = n => Loading(t) PROVE Content(n) = dinode[n]
  <2>1. Valid(n) = {}
    BY <1>2, <1>5
  <2> QED BY <2>1 DEF Content
<1> QED BY <1>4, <1>5

(* ... and after a step.                                                    *)
LEMMA ContentBecomes ==
    ASSUME IndInv', NEW n \in Inos
    PROVE  /\ \A t \in Slots : inode'[t].ino = n /\ ~Loading(t)' => Content(n)' = Written(t)'
           /\ (\A t \in Slots : inode'[t].ino = n => Loading(t)') => Content(n)' = dinode'[n]
<1>1. n # 0 /\ OneSlotPerInode'
  BY InodeAssumption DEF IndInv
<1>2. Valid(n)' = {t \in Slots : inode'[t].ino = n /\ ~Loading(t)'}
  BY DEF Valid, Cached, Loading
<1>3. \A t, u \in Valid(n)' : t = u
  BY <1>1, <1>2 DEF OneSlotPerInode
<1>4. ASSUME NEW t \in Slots, inode'[t].ino = n, ~Loading(t)' PROVE Content(n)' = Written(t)'
  <2>1. t \in Valid(n)'
    BY <1>2, <1>4
  <2>2. (CHOOSE u \in Valid(n)' : TRUE) = t
    BY <1>3, <2>1
  <2> QED BY <2>1, <2>2 DEF Content
<1>5. ASSUME \A t \in Slots : inode'[t].ino = n => Loading(t)' PROVE Content(n)' = dinode'[n]
  <2>1. Valid(n)' = {}
    BY <1>2, <1>5
  <2> QED BY <2>1 DEF Content
<1> QED BY <1>4, <1>5

(* An inode that a step does not move or write keeps its contents.          *)
LEMMA ContentKept ==
    ASSUME IndInv, IndInv', NEW n \in Inos,
           \A t \in Slots : inode'[t].ino = n <=> inode[t].ino = n,
           \A t \in Slots : inode[t].ino = n =>
               (Loading(t)' <=> Loading(t)) /\ (~Loading(t) => Written(t)' = Written(t)),
           (\A t \in Slots : inode[t].ino = n => Loading(t)) => dinode'[n] = dinode[n]
    PROVE  Content(n)' = Content(n)
<1>1. CASE \E t \in Slots : inode[t].ino = n /\ ~Loading(t)
  <2>1. PICK t \in Slots : inode[t].ino = n /\ ~Loading(t)
    BY <1>1
  <2>2. inode'[t].ino = n /\ ~Loading(t)' /\ Written(t)' = Written(t)
    BY <2>1
  <2> QED BY <2>1, <2>2, ContentIs, ContentBecomes
<1>2. CASE \A t \in Slots : inode[t].ino = n => Loading(t)
  <2>1. \A t \in Slots : inode'[t].ino = n => Loading(t)'
    BY <1>2
  <2> QED BY <1>2, <2>1, ContentIs, ContentBecomes
<1> QED BY <1>1, <1>2

(* Who is reading an entry, or at work on it, is the one who has locked it. *)
LEMMA WorkedLocked ==
    ASSUME IndInv, NEW t \in Slots, Worked(t)
    PROVE  /\ Is(t, "I_LOCK")
           /\ \A p \in Procs : t \in Locks(p) =>
                pc[p] \in {"load", "trunc", "bfree"} /\ call[p].s = t
<1>1. PICK q \in Procs : pc[q] \in {"load", "trunc", "bfree"} /\ call[q].s = t
  BY DEF Worked
<1>2. t \in Locks(q)
  BY <1>1 DEF Locks
<1> QED BY <1>1, <1>2 DEF IndInv, LocksOwned

-----------------------------------------------------------------------------
(* p is about to take a link of the inode n away.                           *)
TakesLink(p) == pc[p] = "unlinked" \/ (InIget(p) /\ call[p].ret = "unlinked")

(* A step of p that does not change what p is unlinking.                    *)
SameUnlink(p) == (TakesLink(p)' <=> TakesLink(p)) /\ (TakesLink(p) => call'[p].n = call[p].n)

(* After it, the same links are to be taken away.                           *)
LEMMA UnlinkingSame ==
    ASSUME NEW p \in Procs, OthersCalls(p), SameUnlink(p), NEW n
    PROVE  Unlinking(n)' = Unlinking(n)
BY DEF OthersCalls, SameUnlink, TakesLink, Unlinking, InIget

(* What is counted and owned stays so when the contents do.                 *)
LEMMA ContentsSame ==
    ASSUME FsInv, NEW p \in Procs, OthersCalls(p), SameUnlink(p), \A n \in Inos : Content(n)' = Content(n)
    PROVE  /\ UNCHANGED dir => LinksAre'
           /\ UNCHANGED zmap => BlocksAre'
<1>1. ASSUME UNCHANGED dir PROVE LinksAre'
  <2>1. \A n : Unlinking(n)' = Unlinking(n) /\ Entries(n)' = Entries(n)
    BY <1>1, UnlinkingSame DEF Entries
  <2> QED BY <1>1, <2>1 DEF LinksAre, FsInv
<1>2. ASSUME UNCHANGED zmap PROVE BlocksAre'
  BY <1>2 DEF BlocksAre, FsInv
<1> QED BY <1>1, <1>2

(* The invariant after a step of p.                                         *)
LEMMA FsStep ==
    ASSUME IndInv, FsInv, NEW p \in Procs, Runs(p), OthersCalls(p), LeavesLocked(p),
           FsOk(p)', CleanOrWorked', FreeIsEmpty', LinksAre', BlocksAre'
    PROVE  FsInv'
<1>1. ASSUME NEW q \in Procs PROVE FsOk(q)'
  <2>1. FsOk(q)
    BY DEF FsInv
  <2> QED BY <2>1, OthersFs
<1> QED BY <1>1 DEF FsInv

(* An entry keeps its contents, its mark, and is not used if it was free.   *)
Kept ==
    \A t \in Slots :
        /\ SameContents(t)
        /\ Is(t, "I_DIRTY") => Is(t, "I_DIRTY")'
        /\ inode[t].ref = 0 /\ inode[t].ino \notin imap => inode'[t].ref = 0

(* The invariant after a step of p that changes no contents: what remains   *)
(* to be shown is what p knows then.                                        *)
LEMMA QuietFs ==
    ASSUME IndInv, IndInv', FsInv, NEW p \in Procs, Runs(p), OthersCalls(p), UNCHANGED disk, Kept,
           pc[p] # "load", pc'[p] # "load", SameUnlink(p),
           pc[p] \in {"trunc", "bfree"} =>
               "I_DIRTY" \in inode'[call[p].s].flags \/ (pc'[p] \in {"trunc", "bfree"} /\ call'[p].s = call[p].s),
           FsOk(p)'
    PROVE  FsInv'
<1>1. dinode' = dinode /\ imap' = imap /\ zmap' = zmap /\ dir' = dir
  BY DEF disk
<1>2. \A t : Loading(t)' <=> Loading(t)
  BY DEF OthersCalls, Loading
<1>3. \A t \in Slots : inode'[t].ino = inode[t].ino /\ Written(t)' = Written(t)
  BY DEF Kept, SameContents, Written
<1>4. ASSUME NEW n \in Inos PROVE Content(n)' = Content(n)
  BY <1>1, <1>2, <1>3, ContentKept
<1>5. LeavesLocked(p)
  BY <1>1 DEF LeavesLocked, Kept
<1>6. CleanOrWorked'
  <2> SUFFICES ASSUME NEW t \in Slots, inode'[t].ino # 0, ~Is(t, "I_DIRTY")', ~Worked(t)'
               PROVE  dinode'[inode'[t].ino] = Written(t)'
    BY DEF CleanOrWorked
  <2>1. ~Worked(t)
    <3> SUFFICES ASSUME NEW q \in Procs, pc[q] \in {"load", "trunc", "bfree"}, call[q].s = t PROVE FALSE
      BY DEF Worked
    <3>1. CASE q # p
      BY <3>1 DEF Worked, OthersCalls
    <3>2. CASE q = p
      BY <3>2 DEF Worked, Is
    <3> QED BY <3>1, <3>2
  <2>2. ~Is(t, "I_DIRTY")
    BY DEF Kept
  <2> QED BY <1>1, <1>3, <2>1, <2>2 DEF CleanOrWorked, FsInv
<1>7. FreeIsEmpty'
  <2> SUFFICES ASSUME NEW n \in Inos, n \notin imap
               PROVE  Content(n)' = Zero /\ \A t \in Slots : inode'[t].ino = n => inode'[t].ref = 0
    BY <1>1 DEF FreeIsEmpty, Zero
  <2>1. Content(n) = Zero /\ \A t \in Slots : inode[t].ino = n => inode[t].ref = 0
    BY DEF FsInv, FreeIsEmpty
  <2> QED BY <1>3, <1>4, <2>1 DEF Kept
<1>8. LinksAre' /\ BlocksAre'
  BY <1>1, <1>4, ContentsSame
<1> QED BY <1>5, <1>6, <1>7, <1>8, FsStep

(* Where p knows nothing of the kind.                                       *)
Resting == {"user", "lockdir", "readdir", "file_creat", "found", "putnext", "parent", "ialloc", "unlink", "scan",
            "access", "iput", "rd", "wr", "io"}

(* There is nothing to show of a process that gets there.                   *)
LEMMA Rests == ASSUME NEW p, pc'[p] \in Resting PROVE FsOk(p)'
BY DEF FsOk, Resting, Freeing

(* What the functions on an entry do to its contents.                       *)
LEMMA Contents ==
    ASSUME NEW r \in InodeRec
    PROVE  /\ Lock(r).blk = r.blk /\ Unlock(r).blk = r.blk /\ Dirty(r).blk = r.blk /\ Clean(r).blk = r.blk
           /\ Freed(r).blk = 0 /\ (r.ref > 0 => Put(r).blk = r.blk)
BY DEF InodeRec, Lock, Unlock, Dirty, Clean, Freed, Put

(* Writing to an entry without changing its contents.                       *)
LEMMA EntryKept ==
    ASSUME IndInv, NEW s \in Slots, NEW r \in InodeRec, inode' = [inode EXCEPT ![s] = r],
           r.ino = inode[s].ino, r.links = inode[s].links, r.blk = inode[s].blk,
           "I_DIRTY" \in inode[s].flags => "I_DIRTY" \in r.flags,
           inode[s].ref > 0 \/ r.ref = inode[s].ref \/ inode[s].ino \in imap
    PROVE  Kept
<1>1. inode'[s] = r /\ \A t \in Slots : t # s => inode'[t] = inode[t]
  BY SlotUpdated DEF IndInv
<1> QED BY <1>1 DEF Kept, SameContents, Is

(* Writing to no entry.                                                     *)
LEMMA NothingKept == ASSUME UNCHANGED inode PROVE Kept
BY DEF Kept, SameContents, Is

-----------------------------------------------------------------------------
(* Steps that change no contents.                                           *)

(* What is done to the directory: it is locked, unlocked, put or got.       *)
LEMMA RootWritten ==
    ASSUME IndInv, Steady, NEW p \in Procs,
           \/ inode' = [inode EXCEPT ![RootSlot] = Lock(@)]
           \/ inode' = [inode EXCEPT ![RootSlot] = Unlock(@)]
           \/ inode' = [inode EXCEPT ![RootSlot] = Put(@)]
           \/ inode' = [inode EXCEPT ![RootSlot] = Put(Unlock(@))]
           \/ inode' = [inode EXCEPT ![RootSlot].ref = @ + 1]
    PROVE  Kept
<1> USE Given
<1>1. inode[RootSlot].ref > 0 /\ inode[RootSlot].ino \in imap
  BY RootReferenced DEF RootKept
<1>2. PICK x \in InodeRec : x = inode[RootSlot]
  OBVIOUS
<1>3. PICK r : /\ \/ r = Lock(x) \/ r = Unlock(x) \/ r = Put(x) \/ r = Put(Unlock(x))
                  \/ r = [x EXCEPT !.ref = @ + 1]
               /\ inode' = [inode EXCEPT ![RootSlot] = r]
  BY <1>2
<1>4. /\ r \in InodeRec /\ r.ino = x.ino /\ r.links = x.links /\ r.blk = x.blk
      /\ "I_DIRTY" \in x.flags => "I_DIRTY" \in r.flags
  <2>1. CASE r = Lock(x) \/ r = Unlock(x) \/ r = Put(x)
    <3>1. x.ref > 0
      BY <1>1, <1>2
    <3>2. /\ Lock(x) \in InodeRec /\ Unlock(x) \in InodeRec /\ Put(x) \in InodeRec
          /\ Lock(x).ino = x.ino /\ Unlock(x).ino = x.ino /\ Put(x).ino = x.ino
          /\ Lock(x).links = x.links /\ Unlock(x).links = x.links /\ Put(x).links = x.links
          /\ Lock(x).flags = x.flags \cup {"I_LOCK"} /\ Unlock(x).flags = x.flags \ {"I_LOCK", "I_WANTED"}
          /\ Put(x).flags = x.flags
      BY <3>1, Fields
    <3>3. Lock(x).blk = x.blk /\ Unlock(x).blk = x.blk /\ Put(x).blk = x.blk
      BY <3>1, Contents
    <3> QED BY <2>1, <3>2, <3>3
  <2>2. CASE r = Put(Unlock(x))
    <3>1. PICK y : y = Unlock(x)
      OBVIOUS
    <3>2. /\ y \in InodeRec /\ y.ref > 0 /\ y.ino = x.ino /\ y.links = x.links
          /\ y.flags = x.flags \ {"I_LOCK", "I_WANTED"} /\ y.blk = x.blk
      BY <1>1, <1>2, <3>1, Fields, Contents
    <3>3. /\ Put(y) \in InodeRec /\ Put(y).ino = y.ino /\ Put(y).links = y.links /\ Put(y).flags = y.flags
          /\ Put(y).blk = y.blk
      BY <3>2, Fields, Contents
    <3> QED BY <2>2, <3>1, <3>2, <3>3
  <2>3. CASE r = [x EXCEPT !.ref = @ + 1]
    <3>1. x.ref \in Nat /\ x.ref + 1 \in Nat
      BY DEF InodeRec
    <3> HIDE Given
    <3>2. r.blk = x.blk
      BY <2>3 DEF InodeRec
    <3> QED BY <2>3, <3>1, <3>2, RefContents
  <2> QED BY <1>3, <2>1, <2>2, <2>3
<1> QED BY <1>1, <1>2, <1>3, <1>4, EntryKept

(* What is done to another entry.                                           *)
LEMMA EntryWritten ==
    ASSUME IndInv, NEW s \in Slots,
           \/ inode' = [inode EXCEPT ![s] = Lock(@)]
           \/ inode' = [inode EXCEPT ![s] = Unlock(@)]
           \/ inode' = [inode EXCEPT ![s] = Dirty(@)]
           \/ inode[s].ref > 0 /\ inode' = [inode EXCEPT ![s] = Put(@)]
           \/ inode[s].ref > 0 /\ inode' = [inode EXCEPT ![s] = Lock(Put(@))]
           \/ inode[s].ino \in imap /\ inode' = [inode EXCEPT ![s].ref = @ + 1]
           \/ inode' = [inode EXCEPT ![s].flags = @ \cup {"I_WANTED"}]
    PROVE  Kept
<1>1. PICK x \in InodeRec : x = inode[s]
  BY Typed DEF IndInv
<1>2. PICK r : /\ \/ r = Lock(x) \/ r = Unlock(x) \/ r = Dirty(x) \/ r = [x EXCEPT !.flags = @ \cup {"I_WANTED"}]
                  \/ x.ref > 0 /\ (r = Put(x) \/ r = Lock(Put(x)))
                  \/ x.ino \in imap /\ r = [x EXCEPT !.ref = @ + 1]
               /\ inode' = [inode EXCEPT ![s] = r]
  BY <1>1
<1>3. /\ r \in InodeRec /\ r.ino = x.ino /\ r.links = x.links /\ r.blk = x.blk
      /\ "I_DIRTY" \in x.flags => "I_DIRTY" \in r.flags
      /\ x.ref > 0 \/ r.ref = x.ref \/ x.ino \in imap
  <2>1. CASE r = Lock(x) \/ r = Unlock(x) \/ r = Dirty(x)
    <3>1. /\ Lock(x) \in InodeRec /\ Unlock(x) \in InodeRec /\ Dirty(x) \in InodeRec
          /\ Lock(x).ino = x.ino /\ Unlock(x).ino = x.ino /\ Dirty(x).ino = x.ino
          /\ Lock(x).links = x.links /\ Unlock(x).links = x.links /\ Dirty(x).links = x.links
          /\ Lock(x).ref = x.ref /\ Unlock(x).ref = x.ref /\ Dirty(x).ref = x.ref
          /\ Lock(x).flags = x.flags \cup {"I_LOCK"} /\ Unlock(x).flags = x.flags \ {"I_LOCK", "I_WANTED"}
          /\ Dirty(x).flags = x.flags \cup {"I_DIRTY"}
      BY Fields
    <3>2. Lock(x).blk = x.blk /\ Unlock(x).blk = x.blk /\ Dirty(x).blk = x.blk
      BY Contents
    <3> QED BY <2>1, <3>1, <3>2
  <2>2. CASE x.ref > 0 /\ (r = Put(x) \/ r = Lock(Put(x)))
    <3>1. PICK y : y = Put(x)
      OBVIOUS
    <3>2. y \in InodeRec /\ y.ino = x.ino /\ y.links = x.links /\ y.flags = x.flags /\ y.blk = x.blk
      BY <2>2, <3>1, Fields, Contents
    <3>3. /\ Lock(y) \in InodeRec /\ Lock(y).ino = y.ino /\ Lock(y).links = y.links
          /\ Lock(y).flags = y.flags \cup {"I_LOCK"} /\ Lock(y).blk = y.blk
      BY <3>2, Fields, Contents
    <3> QED BY <2>2, <3>1, <3>2, <3>3
  <2>3. CASE x.ino \in imap /\ r = [x EXCEPT !.ref = @ + 1]
    BY <2>3 DEF InodeRec
  <2>4. CASE r = [x EXCEPT !.flags = @ \cup {"I_WANTED"}]
    BY <2>4 DEF InodeRec
  <2> QED BY <1>2, <2>1, <2>2, <2>3, <2>4
<1> QED BY <1>1, <1>2, <1>3, EntryKept

(* p is where it knows nothing of contents, and goes on to such a place.    *)
LEMMA RestingFs ==
    ASSUME IndInv, IndInv', FsInv, NEW p \in Procs, Runs(p), OthersCalls(p), UNCHANGED disk, Kept,
           pc[p] \in Resting, pc'[p] \in Resting
    PROVE  FsInv'
<1>1. FsOk(p)'
  BY Rests
<1>2. SameUnlink(p)
  BY DEF SameUnlink, TakesLink, InIget, Resting
<1> QED BY <1>1, <1>2, QuietFs DEF Resting

(* Or it goes on to iget().                                                 *)
LEMMA ToIgetFs ==
    ASSUME IndInv, IndInv', FsInv, NEW p \in Procs, Runs(p), OthersCalls(p), UNCHANGED disk, Kept,
           pc[p] \in Resting, pc'[p] = "iget", call'[p].ret \notin {"newinode", "unlinked"}
    PROVE  FsInv'
<1>1. FsOk(p)'
  BY DEF FsOk, Freeing
<1>2. SameUnlink(p)
  BY DEF SameUnlink, TakesLink, InIget, Resting
<1> QED BY <1>1, <1>2, QuietFs DEF Resting

(* namei() locks the directory.                                             *)
LEMMA LockDirFs == ASSUME IndInv, IndInv', FsInv, Steady, NEW p \in Procs, LockDir(p) PROVE FsInv'
<1> USE Given
<1>1. Runs(p) /\ pc[p] = "lockdir"
  BY DEF LockDir, At
<1>2. pc \in [Procs -> BusyPcs \cup SleepPcs] /\ call \in [Procs -> CallRec] /\ ofile \in [Procs -> Slots \cup {NoSlot}]
  BY DEF CallsTyped, IndInv, TypeOK
<1>3. OthersCalls(p) /\ UNCHANGED disk /\ pc'[p] \in {"readdir"}
  BY <1>1, <1>2 DEF LockDir, Bread, OthersCalls, disk
<1>4. Kept
  BY RootWritten DEF LockDir
<1> QED BY <1>1, <1>3, <1>4, RestingFs DEF Resting

(* namei() is denied the directory.                                         *)
LEMMA LookupDeniedFs == ASSUME IndInv, IndInv', FsInv, Steady, NEW p \in Procs, LookupDenied(p) PROVE FsInv'
<1> USE Given
<1>1. Runs(p) /\ pc[p] = "lockdir"
  BY DEF LookupDenied, At
<1>2. pc \in [Procs -> BusyPcs \cup SleepPcs] /\ call \in [Procs -> CallRec] /\ ofile \in [Procs -> Slots \cup {NoSlot}]
  BY DEF CallsTyped, IndInv, TypeOK
<1>3. OthersCalls(p) /\ UNCHANGED disk /\ pc'[p] \in {"iput", "user"}
  BY <1>1, <1>2 DEF LookupDenied, Fail, Overput, Return, Bread, OthersCalls, disk
<1>4. Kept
  BY RootWritten DEF LookupDenied
<1> QED BY <1>1, <1>3, <1>4, RestingFs DEF Resting

(* namei() finds the name.                                                  *)
LEMMA FoundFs == ASSUME IndInv, IndInv', FsInv, Steady, NEW p \in Procs, NEW n \in Inos, Found(p, n) PROVE FsInv'
<1> USE Given
<1>1. Runs(p) /\ pc[p] = "readdir"
  BY DEF Found, At
<1>2. pc \in [Procs -> BusyPcs \cup SleepPcs] /\ call \in [Procs -> CallRec] /\ ofile \in [Procs -> Slots \cup {NoSlot}]
  BY DEF CallsTyped, IndInv, TypeOK
<1>3. OthersCalls(p) /\ UNCHANGED disk /\ pc'[p] \in {"iget"} /\ call'[p].ret \in {"putnext", "found"}
  BY <1>1, <1>2 DEF Found, Go, OthersCalls, disk
<1>4. Kept
  BY RootWritten DEF Found
<1> QED BY <1>1, <1>3, <1>4, ToIgetFs DEF Resting

(* namei() does not find it.                                                *)
LEMMA NotFoundFs == ASSUME IndInv, IndInv', FsInv, Steady, NEW p \in Procs, NotFound(p) PROVE FsInv'
<1> USE Given
<1>1. Runs(p) /\ pc[p] = "readdir"
  BY DEF NotFound, At
<1>2. pc \in [Procs -> BusyPcs \cup SleepPcs] /\ call \in [Procs -> CallRec] /\ ofile \in [Procs -> Slots \cup {NoSlot}]
  BY DEF CallsTyped, IndInv, TypeOK
<1>3. OthersCalls(p) /\ UNCHANGED disk /\ pc'[p] \in {"parent", "file_creat", "iput", "user"}
  BY <1>1, <1>2 DEF NotFound, Go, Fail, Overput, Return, Bread, OthersCalls, disk
<1>4. Kept
  BY RootWritten DEF NotFound
<1> QED BY <1>1, <1>3, <1>4, RestingFs DEF Resting

(* parenti() puts the inode.                                                *)
LEMMA PutNextFs == ASSUME IndInv, IndInv', FsInv, Steady, NEW p \in Procs, PutNext(p) PROVE FsInv'
<1> USE Given
<1>1. Runs(p) /\ pc[p] = "putnext"
  BY DEF PutNext, At
<1>2. pc \in [Procs -> BusyPcs \cup SleepPcs] /\ call \in [Procs -> CallRec] /\ ofile \in [Procs -> Slots \cup {NoSlot}]
  BY DEF CallsTyped, IndInv, TypeOK
<1>3. OthersCalls(p) /\ UNCHANGED disk /\ pc'[p] \in {"iput"}
  BY <1>1, <1>2 DEF PutNext, Go, OthersCalls, disk
<1>4. Kept
  BY NothingKept DEF PutNext
<1> QED BY <1>1, <1>3, <1>4, RestingFs DEF Resting

(* namei() puts the directory.                                              *)
LEMMA NameiReturnFs == ASSUME IndInv, IndInv', FsInv, Steady, NEW p \in Procs, NameiReturn(p) PROVE FsInv'
<1> USE Given
<1>1. Runs(p) /\ pc[p] = "found"
  BY DEF NameiReturn, At
<1>2. pc \in [Procs -> BusyPcs \cup SleepPcs] /\ call \in [Procs -> CallRec] /\ ofile \in [Procs -> Slots \cup {NoSlot}]
  BY DEF CallsTyped, IndInv, TypeOK
<1>3. OthersCalls(p) /\ UNCHANGED disk /\ pc'[p] \in {"access"}
  BY <1>1, <1>2 DEF NameiReturn, Go, OthersCalls, disk
<1>4. Kept
  BY RootWritten DEF NameiReturn
<1> QED BY <1>1, <1>3, <1>4, RestingFs DEF Resting

(* open() is denied the inode.                                              *)
LEMMA OpenDeniedFs == ASSUME IndInv, IndInv', FsInv, Steady, NEW p \in Procs, OpenDenied(p) PROVE FsInv'
<1> USE Given
<1>1. Runs(p) /\ pc[p] = "access"
  BY DEF OpenDenied, At
<1>2. pc \in [Procs -> BusyPcs \cup SleepPcs] /\ call \in [Procs -> CallRec] /\ ofile \in [Procs -> Slots \cup {NoSlot}]
  BY DEF CallsTyped, IndInv, TypeOK
<1>3. OthersCalls(p) /\ UNCHANGED disk /\ pc'[p] \in {"iput"}
  BY <1>1, <1>2 DEF OpenDenied, Go, OthersCalls, disk
<1>4. Kept
  BY NothingKept DEF OpenDenied
<1> QED BY <1>1, <1>3, <1>4, RestingFs DEF Resting

(* open() or unlink() is denied the directory.                              *)
LEMMA ParentDeniedFs == ASSUME IndInv, IndInv', FsInv, Steady, NEW p \in Procs, ParentDenied(p) PROVE FsInv'
<1> USE Given
<1>1. Runs(p) /\ pc[p] = "parent"
  BY DEF ParentDenied, At
<1>2. pc \in [Procs -> BusyPcs \cup SleepPcs] /\ call \in [Procs -> CallRec] /\ ofile \in [Procs -> Slots \cup {NoSlot}]
  BY DEF CallsTyped, IndInv, TypeOK
<1>3. OthersCalls(p) /\ UNCHANGED disk /\ pc'[p] \in {"iput", "user"}
  BY <1>1, <1>2 DEF ParentDenied, Fail, Overput, Return, Bread, OthersCalls, disk
<1>4. Kept
  BY RootWritten DEF ParentDenied
<1> QED BY <1>1, <1>3, <1>4, RestingFs DEF Resting

(* It is not denied.                                                        *)
LEMMA ParentGrantedFs == ASSUME IndInv, IndInv', FsInv, Steady, NEW p \in Procs, ParentGranted(p) PROVE FsInv'
<1> USE Given
<1>1. Runs(p) /\ pc[p] = "parent"
  BY DEF ParentGranted, At
<1>2. pc \in [Procs -> BusyPcs \cup SleepPcs] /\ call \in [Procs -> CallRec] /\ ofile \in [Procs -> Slots \cup {NoSlot}]
  BY DEF CallsTyped, IndInv, TypeOK
<1>3. OthersCalls(p) /\ UNCHANGED disk /\ pc'[p] \in {"unlink", "ialloc"}
  BY <1>1, <1>2 DEF ParentGranted, Go, Bread, OthersCalls, disk
<1>4. Kept
  BY NothingKept DEF ParentGranted
<1> QED BY <1>1, <1>3, <1>4, RestingFs DEF Resting

(* unlink() locks the directory.                                            *)
LEMMA UnlinkLockFs == ASSUME IndInv, IndInv', FsInv, Steady, NEW p \in Procs, UnlinkLock(p) PROVE FsInv'
<1> USE Given
<1>1. Runs(p) /\ pc[p] = "unlink"
  BY DEF UnlinkLock, At
<1>2. pc \in [Procs -> BusyPcs \cup SleepPcs] /\ call \in [Procs -> CallRec] /\ ofile \in [Procs -> Slots \cup {NoSlot}]
  BY DEF CallsTyped, IndInv, TypeOK
<1>3. OthersCalls(p) /\ UNCHANGED disk /\ pc'[p] \in {"scan"}
  BY <1>1, <1>2 DEF UnlinkLock, Bread, OthersCalls, disk
<1>4. Kept
  BY RootWritten DEF UnlinkLock
<1> QED BY <1>1, <1>3, <1>4, RestingFs DEF Resting

(* unlink() does not find the name.                                         *)
LEMMA UnlinkNoEntryFs == ASSUME IndInv, IndInv', FsInv, Steady, NEW p \in Procs, UnlinkNoEntry(p) PROVE FsInv'
<1> USE Given
<1>1. Runs(p) /\ pc[p] = "scan"
  BY DEF UnlinkNoEntry, At
<1>2. pc \in [Procs -> BusyPcs \cup SleepPcs] /\ call \in [Procs -> CallRec] /\ ofile \in [Procs -> Slots \cup {NoSlot}]
  BY DEF CallsTyped, IndInv, TypeOK
<1>3. OthersCalls(p) /\ UNCHANGED disk /\ pc'[p] \in {"user"}
  BY <1>1, <1>2 DEF UnlinkNoEntry, Return, Bread, OthersCalls, disk
<1>4. Kept
  BY RootWritten DEF UnlinkNoEntry
<1> QED BY <1>1, <1>3, <1>4, RestingFs DEF Resting

(* read(), write() or close() of the open file.                             *)
LEMMA BeginFileFs == ASSUME IndInv, IndInv', FsInv, Steady, NEW p \in Procs, NEW v \in {"rd", "wr", "iput"}, BeginFile(p, v) PROVE FsInv'
<1> USE Given
<1>1. Runs(p) /\ pc[p] = "user"
  BY DEF BeginFile, At
<1>2. pc \in [Procs -> BusyPcs \cup SleepPcs] /\ call \in [Procs -> CallRec] /\ ofile \in [Procs -> Slots \cup {NoSlot}]
  BY DEF CallsTyped, IndInv, TypeOK
<1>3. OthersCalls(p) /\ UNCHANGED disk /\ pc'[p] \in {"rd", "wr", "iput"}
  BY <1>1, <1>2 DEF BeginFile, Go, OthersCalls, disk
<1>4. Kept
  BY NothingKept DEF BeginFile
<1> QED BY <1>1, <1>3, <1>4, RestingFs DEF Resting

(* readi() locks the inode.                                                 *)
LEMMA LockReadFs == ASSUME IndInv, IndInv', FsInv, Steady, NEW p \in Procs, LockRead(p) PROVE FsInv'
<1> USE Given
<1>1. Runs(p) /\ pc[p] = "rd"
  BY DEF LockRead, At
<1>2. pc \in [Procs -> BusyPcs \cup SleepPcs] /\ call \in [Procs -> CallRec] /\ ofile \in [Procs -> Slots \cup {NoSlot}]
  BY DEF CallsTyped, IndInv, TypeOK
<1>3. OthersCalls(p) /\ UNCHANGED disk /\ pc'[p] \in {"io"}
  BY <1>1, <1>2 DEF LockRead, Bread, OthersCalls, disk
<1>4. Kept
  <2>1. ofile[p] \in Slots
    BY <1>1 DEF OpsOk
  <2> QED BY <2>1, EntryWritten DEF LockRead
<1> QED BY <1>1, <1>3, <1>4, RestingFs DEF Resting

(* readi() or writei() unlocks it.                                          *)
LEMMA IoReturnFs == ASSUME IndInv, IndInv', FsInv, Steady, NEW p \in Procs, IoReturn(p) PROVE FsInv'
<1> USE Given
<1>1. Runs(p) /\ pc[p] = "io"
  BY DEF IoReturn, At
<1>2. pc \in [Procs -> BusyPcs \cup SleepPcs] /\ call \in [Procs -> CallRec] /\ ofile \in [Procs -> Slots \cup {NoSlot}]
  BY DEF CallsTyped, IndInv, TypeOK
<1>3. OthersCalls(p) /\ UNCHANGED disk /\ pc'[p] \in {"user"}
  BY <1>1, <1>2 DEF IoReturn, Return, Bread, OthersCalls, disk
<1>4. Kept
  <2>1. ofile[p] \in Slots
    BY <1>1 DEF OpsOk
  <2> QED BY <2>1, EntryWritten DEF IoReturn
<1> QED BY <1>1, <1>3, <1>4, RestingFs DEF Resting

(* A call begins.                                                           *)
LEMMA BeginFs == ASSUME IndInv, IndInv', FsInv, Steady, NEW p \in Procs, NEW op \in {"open", "creat", "unlink"}, NEW x \in Names, Begin(p, op, x) PROVE FsInv'
<1> USE Given
<1>1. Runs(p) /\ pc[p] = "user"
  BY DEF Begin, At
<1>2. pc \in [Procs -> BusyPcs \cup SleepPcs] /\ call \in [Procs -> CallRec] /\ ofile \in [Procs -> Slots \cup {NoSlot}]
  BY DEF CallsTyped, IndInv, TypeOK
<1>3. OthersCalls(p) /\ UNCHANGED disk /\ pc'[p] \in {"lockdir", "iget"} /\ call'[p].ret = "lockdir"
  BY <1>1, <1>2 DEF Begin, Nameicore, Go, NoCall, OthersCalls, disk
<1>4. Kept
  BY RootWritten, NothingKept DEF Begin, Nameicore
<1> QED BY <1>1, <1>3, <1>4, RestingFs, ToIgetFs DEF Resting

(* file_creat() looks the name up again.                                    *)
LEMMA FileCreatFs == ASSUME IndInv, IndInv', FsInv, Steady, NEW p \in Procs, FileCreat(p) PROVE FsInv'
<1> USE Given
<1>1. Runs(p) /\ pc[p] = "file_creat"
  BY DEF FileCreat, At
<1>2. pc \in [Procs -> BusyPcs \cup SleepPcs] /\ call \in [Procs -> CallRec] /\ ofile \in [Procs -> Slots \cup {NoSlot}]
  BY DEF CallsTyped, IndInv, TypeOK
<1>3. OthersCalls(p) /\ UNCHANGED disk /\ pc'[p] \in {"lockdir", "iget"} /\ call'[p].ret = "lockdir"
  BY <1>1, <1>2 DEF FileCreat, Nameicore, Go, OthersCalls, disk
<1>4. Kept
  BY RootWritten, NothingKept DEF FileCreat, Nameicore
<1> QED BY <1>1, <1>3, <1>4, RestingFs, ToIgetFs DEF Resting

(* The types of the variables of all processes.                             *)
LEMMA CallsAre ==
    ASSUME IndInv
    PROVE  /\ pc \in [Procs -> BusyPcs \cup SleepPcs] /\ call \in [Procs -> CallRec]
           /\ ofile \in [Procs -> Slots \cup {NoSlot}]
BY DEF CallsTyped, IndInv, TypeOK

(* open() returns, or creat() goes on to itrunc().                          *)
LEMMA OpenGrantedFs == ASSUME IndInv, IndInv', FsInv, Steady, NEW p \in Procs, OpenGranted(p) PROVE FsInv'
<1> USE Given
<1>1. Runs(p) /\ pc[p] = "access" /\ ~call[p].free /\ call[p].s \in Slots
  BY DEF OpenGranted, At, OpsOk, SlotsOk, HoldsInode, Freeing
<1>2. CASE call[p].op = "open"
  <2>1. OthersCalls(p) /\ UNCHANGED <<inode, disk>> /\ pc'[p] = "user"
    BY <1>1, <1>2, CallsAre DEF OpenGranted, Return, Bread, OthersCalls, disk
  <2> QED BY <1>1, <2>1, NothingKept, RestingFs DEF Resting
<1>3. CASE call[p].op # "open"
  <2>1. OthersCalls(p) /\ UNCHANGED disk /\ pc'[p] = "trunc" /\ call'[p] = call[p]
    BY <1>1, <1>3, CallsAre DEF OpenGranted, Go, OthersCalls, disk
  <2>2. Kept
    BY <1>1, <1>3, EntryWritten DEF OpenGranted
  <2>3. FsOk(p)' /\ SameUnlink(p)
    BY <1>1, <2>1 DEF FsOk, Freeing, SameUnlink, TakesLink, InIget
  <2> QED BY <1>1, <2>1, <2>2, <2>3, QuietFs
<1> QED BY <1>2, <1>3

(* writei() locks the inode, which may have no block yet.                   *)
LEMMA LockWriteFs == ASSUME IndInv, IndInv', FsInv, Steady, NEW p \in Procs, LockWrite(p) PROVE FsInv'
<1> USE Given
<1>1. Runs(p) /\ pc[p] = "wr" /\ ofile[p] \in Slots
  BY DEF LockWrite, At, OpsOk
<1>2. /\ OthersCalls(p) /\ UNCHANGED disk /\ ofile'[p] = ofile[p]
      /\ pc'[p] = IF inode[ofile[p]].blk = 0 THEN "balloc" ELSE "io"
  BY <1>1, CallsAre DEF LockWrite, Bread, OthersCalls, disk
<1>3. Kept
  BY <1>1, EntryWritten DEF LockWrite
<1>4. FsOk(p)' /\ SameUnlink(p)
  BY <1>1, <1>2, <1>3 DEF FsOk, Freeing, SameUnlink, TakesLink, InIget, Kept, SameContents
<1> QED BY <1>1, <1>2, <1>3, <1>4, QuietFs

(* iget() sleeps on an inode that is locked, which a new one is not.        *)
LEMMA IgetSleepFs == ASSUME IndInv, IndInv', FsInv, Steady, NEW p \in Procs, IgetSleep(p) PROVE FsInv'
<1> USE Given
<1>1. Runs(p) /\ pc[p] = "iget"
  BY DEF IgetSleep, AtIget, At
<1>2. PICK k \in Slots : /\ inode[k].ino = call[p].n /\ Is(k, "I_LOCK")
                         /\ inode' = [inode EXCEPT ![k].flags = @ \cup {"I_WANTED"}]
  BY DEF IgetSleep, Cached
<1>3. OthersCalls(p) /\ UNCHANGED disk /\ pc'[p] = pc[p] /\ call'[p] = call[p]
  BY <1>1 DEF IgetSleep, OthersCalls, disk
<1>4. Kept
  BY <1>2, EntryWritten
<1>5. call[p].ret # "newinode"
  BY <1>1, <1>2 DEF FsInv, FsOk
<1>6. FsOk(p)' /\ SameUnlink(p)
  BY <1>1, <1>3, <1>5 DEF FsOk, Freeing, SameUnlink, TakesLink, InIget
<1> QED BY <1>1, <1>3, <1>4, <1>6, QuietFs

(* iget() finds the inode in the cache.                                     *)
LEMMA IgetHitFs == ASSUME IndInv, IndInv', FsInv, Steady, NEW p \in Procs, IgetHit(p), ~GivesFreed(p) PROVE FsInv'
<1> USE Given
<1>1. /\ Runs(p) /\ pc[p] = "iget" /\ call[p].n \in imap /\ call[p].n \in Inos
      /\ call[p].ret \in {"lockdir", "found", "putnext", "newinode", "unlinked"}
  <2>1. Runs(p) /\ pc[p] = "iget" /\ pc'[p] = call[p].ret
    BY CallsAre DEF IgetHit, AtIget, At, Go
  <2>2. call[p].ret \in Rets
    BY DEF CallRec
  <2>3. call[p].n \in imap
    <3>1. pc'[p] # "iget"
      BY <2>1, <2>2 DEF Rets
    <3> QED BY <2>1, <3>1, NotGiven
  <2> QED BY <2>1, <2>2, <2>3 DEF OpsOk, Rets
<1>2. PICK k \in Slots : /\ inode[k].ino = call[p].n /\ ~Is(k, "I_LOCK")
                         /\ inode' = [inode EXCEPT ![k].ref = @ + 1]
                         /\ call' = [call EXCEPT ![p].s = k]
  BY DEF IgetHit, Cached
<1>3. /\ OthersCalls(p) /\ UNCHANGED disk /\ pc'[p] = call[p].ret
      /\ call'[p].s = k /\ call'[p].n = call[p].n /\ call'[p].ret = call[p].ret
  BY <1>1, <1>2, CallsAre DEF IgetHit, Go, OthersCalls, disk, CallRec
<1>4. Kept
  BY <1>1, <1>2, EntryWritten
<1>5. SameUnlink(p)
  BY <1>1, <1>3 DEF SameUnlink, TakesLink, InIget
<1>6. FsOk(p)'
  <2>1. inode'[k].ino = call[p].n /\ Written(k)' = Written(k)
    BY <1>2, <1>4 DEF Kept, SameContents, Written
  <2>2. CASE call[p].ret = "newinode"
    <3>1. Content(call[p].n) = Zero
      BY <1>1, <2>2 DEF FsInv, FsOk
    <3>2. ~Loading(k)
      BY <1>2, WorkedLocked DEF Loading, Worked
    <3>3. Written(k) = Zero
      BY <1>1, <1>2, <3>1, <3>2, ContentIs
    <3>4. Written(call[p].s)' = Written(k)'
      BY <1>3 DEF Written
    <3> QED BY <1>3, <2>1, <2>2, <3>3, <3>4 DEF FsOk, Freeing, Zero
  <2>3. CASE call[p].ret = "unlinked"
    BY <1>3, <2>1, <2>3 DEF FsOk, Freeing
  <2>4. CASE call[p].ret \in {"lockdir", "found", "putnext"}
    BY <1>3, <2>4, Rests DEF Resting
  <2> QED BY <1>1, <2>2, <2>3, <2>4
<1> QED BY <1>1, <1>3, <1>4, <1>5, <1>6, QuietFs

(* iput() gives up a reference, and begins to free an inode without links.  *)
LEMMA IputFs == ASSUME IndInv, IndInv', FsInv, Steady, NEW p \in Procs, Iput(p) PROVE FsInv'
<1> USE Given
<1>1. /\ Runs(p) /\ pc[p] = "iput" /\ ~call[p].free /\ call[p].s \in Slots /\ call[p].ret \in {"user", "parent"}
      /\ inode[call[p].s].ref > 0 /\ inode[call[p].s].ino \in Inos
  <2>1. /\ Runs(p) /\ pc[p] = "iput" /\ ~call[p].free /\ call[p].s \in Slots /\ call[p].ret \in {"user", "parent"}
        /\ inode[call[p].s].ref # 0 /\ inode[call[p].s].ino # 0
    BY DEF Iput, At, Panics, OpsOk, SlotsOk, HoldsInode, Freeing
  <2>2. inode[call[p].s] \in InodeRec
    BY <2>1
  <2> QED BY <2>1, <2>2 DEF InodeRec
<1>2. CASE ~Frees(call[p].s)
  <2>1. OthersCalls(p) /\ UNCHANGED disk /\ pc'[p] \in {"user", "parent"}
    BY <1>1, <1>2, CallsAre DEF Iput, Return, Bread, Go, OthersCalls, disk
  <2>2. Kept
    BY <1>1, <1>2, EntryWritten DEF Iput
  <2> QED BY <1>1, <2>1, <2>2, RestingFs DEF Resting
<1>3. CASE Frees(call[p].s)
  <2>1. /\ OthersCalls(p) /\ UNCHANGED disk /\ pc'[p] = "trunc"
        /\ call'[p].s = call[p].s /\ inode' = [inode EXCEPT ![call[p].s] = Lock(Put(@))]
    BY <1>1, <1>3, CallsAre DEF Iput, Go, OthersCalls, disk, CallRec
  <2>2. Kept
    BY <1>1, <2>1, EntryWritten
  <2>3. inode'[call[p].s].links = 0 /\ inode'[call[p].s].ino = inode[call[p].s].ino
    BY <1>1, <1>3, <2>2 DEF Kept, SameContents, Frees
  <2>4. inode[call[p].s].ino \in imap'
    BY <1>1, <2>1 DEF FsInv, FreeIsEmpty, disk
  <2>5. FsOk(p)' /\ SameUnlink(p)
    BY <1>1, <2>1, <2>3, <2>4 DEF FsOk, Freeing, SameUnlink, TakesLink, InIget
  <2> QED BY <1>1, <2>1, <2>2, <2>5, QuietFs
<1> QED BY <1>2, <1>3

(* itrunc() reads the bitmap to free the block.                             *)
LEMMA TruncBlockFs == ASSUME IndInv, IndInv', FsInv, Steady, NEW p \in Procs, TruncBlock(p) PROVE FsInv'
<1> USE Given
<1>1. Runs(p) /\ pc[p] = "trunc" /\ inode[call[p].s].blk # 0
  BY DEF TruncBlock, At
<1>2. /\ OthersCalls(p) /\ UNCHANGED <<inode, disk>> /\ pc'[p] = "bfree" /\ call'[p].b = inode[call[p].s].blk
      /\ call'[p].s = call[p].s /\ call'[p].free = call[p].free
  BY <1>1, CallsAre DEF TruncBlock, Bread, OthersCalls, disk, CallRec
<1>3. Kept
  BY <1>2, NothingKept
<1>4. FsOk(p)
  BY DEF FsInv
<1>5. FsOk(p)' /\ SameUnlink(p)
  BY <1>1, <1>2, <1>4 DEF FsOk, Freeing, SameUnlink, TakesLink, InIget, disk
<1> QED BY <1>1, <1>2, <1>3, <1>5, QuietFs

(* itrunc() marks the inode, which has no block any more, and updates it.   *)
LEMMA TruncUpdateFs == ASSUME IndInv, IndInv', FsInv, Steady, NEW p \in Procs, TruncUpdate(p) PROVE FsInv'
<1> USE Given
<1>1. Runs(p) /\ pc[p] = "trunc" /\ inode[call[p].s].blk = 0 /\ call[p].s \in Slots
  BY DEF TruncUpdate, At, SlotsOk, HoldsInode, Freeing
<1>2. /\ OthersCalls(p) /\ UNCHANGED disk /\ pc'[p] = "upd_trunc" /\ call'[p].n = inode[call[p].s].ino
      /\ call'[p].s = call[p].s /\ call'[p].free = call[p].free /\ inode' = [inode EXCEPT ![call[p].s] = Dirty(@)]
  BY <1>1, CallsAre DEF TruncUpdate, Bread, OthersCalls, disk, CallRec
<1>3. Kept
  BY <1>1, <1>2, EntryWritten
<1>4. FsOk(p)
  BY DEF FsInv
<1>5. "I_DIRTY" \in inode'[call[p].s].flags
  <2>1. PICK x \in InodeRec : x = inode[call[p].s]
    BY <1>1
  <2>2. "I_DIRTY" \in Dirty(x).flags
    BY Fields
  <2> QED BY <1>1, <1>2, <2>1, <2>2
<1>6. FsOk(p)' /\ SameUnlink(p)
  <2>1. SameContents(call[p].s)
    BY <1>1, <1>3 DEF Kept
  <2> QED BY <1>1, <1>2, <1>4, <2>1 DEF FsOk, Freeing, SameUnlink, TakesLink, InIget, SameContents, disk
<1> QED BY <1>1, <1>2, <1>3, <1>5, <1>6, QuietFs

-----------------------------------------------------------------------------
(* Steps that move an inode into the cache, write it to disk or change it.  *)

(* Nobody reads into an entry that p has locked or that is not locked, ...  *)
LEMMA NotLoading ==
    ASSUME IndInv, NEW p \in Procs, pc[p] # "load", NEW t \in Slots, t \in Locks(p) \/ ~Is(t, "I_LOCK")
    PROVE  ~Loading(t)
<1> SUFFICES ASSUME NEW q \in Procs, pc[q] = "load", call[q].s = t PROVE FALSE
  BY DEF Loading
<1>1. t \in Locks(q)
  BY DEF Locks
<1> QED BY <1>1 DEF IndInv, LocksOwned

(* ... and nobody works on one that p frees.                                *)
LEMMA NotWorked ==
    ASSUME IndInv, NEW p \in Procs, pc[p] \notin {"load", "trunc", "bfree"},
           NEW t \in Slots, Freeing(p), call[p].s = t
    PROVE  ~Worked(t)
<1> SUFFICES ASSUME NEW q \in Procs, pc[q] \in {"load", "trunc", "bfree"}, call[q].s = t PROVE FALSE
  BY DEF Worked
<1>1. q # p /\ ~FreedByOther(p, t)
  BY OwnEntry
<1>2. ~Freeing(q)
  BY <1>1 DEF FreedByOther
<1>3. HoldsInode(q)
  BY <1>2 DEF HoldsInode, Freeing, IndInv, OpsOk
<1> QED BY <1>3, InUse, FreedSlots

(* What iput() frees is not locked any more when itrunc() has returned.     *)
LEMMA FreedUnlocked ==
    ASSUME IndInv, NEW p \in Procs, Freeing(p), call[p].s \notin Locks(p)
    PROVE  ~Is(call[p].s, "I_LOCK")
<1> SUFFICES ASSUME Is(call[p].s, "I_LOCK") PROVE FALSE
  OBVIOUS
<1>1. PICK s \in Slots : s = call[p].s /\ s # RootSlot /\ inode[s].ref = 0 /\ ~FreedByOther(p, s)
  BY FreedSlots, OwnEntry
<1>2. PICK q \in Procs : s \in Locks(q)
  BY <1>1 DEF IndInv, LocksOwned
<1>3. q # p /\ ~(Freeing(q) /\ call[q].s = s)
  BY <1>1, <1>2 DEF FreedByOther
<1>4. (HoldsInode(q) /\ call[q].s = s) \/ ofile[q] = s
  BY <1>1, <1>2, <1>3 DEF Locks, HoldsInode, Freeing
<1> QED BY <1>1, <1>4, InUse

(* iupdate() writes the inode in s to disk.                                 *)
LEMMA UpdateFs ==
    ASSUME IndInv, IndInv', FsInv, NEW p \in Procs, Runs(p), OthersCalls(p),
           pc[p] \in {"upd_trunc", "upd_unlink", "upd_free"}, NEW s \in Slots, call[p].s = s,
           dinode' = [dinode EXCEPT ![call[p].n] = Written(s)], UNCHANGED <<imap, zmap, dir>>,
           \A t \in Slots : SameContents(t) /\ inode'[t].ref = inode[t].ref,
           \A t \in Slots : t # s => inode'[t] = inode[t], ~Loading(s),
           pc'[p] \in {"ifree", "user", "parent", "iput"}, FsOk(p)'
    PROVE  FsInv'
<1>1. inode[s].ino = call[p].n /\ call[p].n \in Inos
  BY DEF FsInv, FsOk, IndInv, SlotsOk
<1>2. dinode'[call[p].n] = Written(s) /\ \A n \in Inos : n # call[p].n => dinode'[n] = dinode[n]
  BY <1>1 DEF IndInv, TypeOK
<1>3. \A t \in Slots : inode[t].ino = call[p].n => t = s
  BY <1>1, InodeAssumption DEF IndInv, OneSlotPerInode
<1>4. \A t \in Slots : inode[t].ino \in Inos \cup {0}
  BY DEF IndInv, TypeOK
<1>5. \A t : (Loading(t)' <=> Loading(t)) /\ (Worked(t)' <=> Worked(t))
  BY DEF Loading, Worked, OthersCalls
<1>6. \A t \in Slots : Written(t)' = Written(t) /\ inode'[t].ino = inode[t].ino
  BY DEF Written, SameContents
<1>7. ASSUME NEW n \in Inos PROVE Content(n)' = Content(n)
  <2>1. (\A t \in Slots : inode[t].ino = n => Loading(t)) => dinode'[n] = dinode[n]
    BY <1>1, <1>2
  <2> QED BY <1>5, <1>6, <2>1, ContentKept
<1>8. LeavesLocked(p)
  <2>1. s \notin Locks(p) => Freeing(p)
    BY DEF Locks, IndInv, OpsOk
  <2>2. inode[s].ref > 0 \/ Freeing(p)
    <3>1. ~Freeing(p) => HoldsInode(p) /\ s # RootSlot
      BY DEF HoldsInode, Freeing, IndInv, OpsOk, SlotsOk
    <3> QED BY <3>1, InUse
  <2>3. ~FreedByOther(p, s)
    BY <2>2, OwnEntry
  <2>4. Is(s, "I_LOCK") => s \in Locks(p)
    BY <2>1, FreedUnlocked
  <2>5. \A t \in Slots : t # s /\ inode[t].ino # 0 => dinode'[inode[t].ino] = dinode[inode[t].ino]
    BY <1>2, <1>3, <1>4
  <2> QED BY <2>3, <2>4, <2>5 DEF LeavesLocked
<1>9. CleanOrWorked'
  <2> SUFFICES ASSUME NEW t \in Slots, inode'[t].ino # 0, ~Is(t, "I_DIRTY")', ~Worked(t)'
               PROVE  dinode'[inode'[t].ino] = Written(t)'
    BY DEF CleanOrWorked
  <2>1. CASE t = s
    BY <1>1, <1>2, <1>6, <2>1
  <2>2. CASE t # s
    <3>1. ~Is(t, "I_DIRTY") /\ ~Worked(t) /\ inode[t].ino # 0
      BY <1>5, <2>2 DEF Is
    <3>2. dinode[inode[t].ino] = Written(t)
      BY <3>1 DEF FsInv, CleanOrWorked
    <3> QED BY <1>2, <1>3, <1>4, <1>6, <2>2, <3>1, <3>2
  <2> QED BY <2>1, <2>2
<1>10. FreeIsEmpty'
  BY <1>6, <1>7 DEF FsInv, FreeIsEmpty, Zero
<1>11. SameUnlink(p)
  BY DEF SameUnlink, TakesLink, InIget
<1>12. LinksAre' /\ BlocksAre'
  BY <1>7, <1>11, ContentsSame
<1> QED BY <1>8, <1>9, <1>10, <1>12, FsStep

(* Writing to one entry without changing its contents or its references.    *)
LEMMA EntrySame ==
    ASSUME IndInv, NEW s \in Slots, inode' = [inode EXCEPT ![s] = Unlock(Clean(@))] \/ inode' = [inode EXCEPT ![s] = Clean(@)]
    PROVE  /\ \A t \in Slots : SameContents(t) /\ inode'[t].ref = inode[t].ref
           /\ \A t \in Slots : t # s => inode'[t] = inode[t]
<1>1. PICK x \in InodeRec : x = inode[s]
  BY Typed DEF IndInv
<1>2. PICK y : y = Clean(x)
  OBVIOUS
<1>3. y \in InodeRec /\ y.ino = x.ino /\ y.links = x.links /\ y.ref = x.ref /\ y.blk = x.blk
  BY <1>2, Fields, Contents
<1>4. Unlock(y) \in InodeRec /\ Unlock(y).ino = y.ino /\ Unlock(y).links = y.links /\ Unlock(y).ref = y.ref /\ Unlock(y).blk = y.blk
  BY <1>3, Fields, Contents
<1>5. PICK r \in InodeRec : /\ inode' = [inode EXCEPT ![s] = r]
                            /\ r.ino = x.ino /\ r.links = x.links /\ r.ref = x.ref /\ r.blk = x.blk
  BY <1>1, <1>2, <1>3, <1>4
<1>6. inode'[s] = r /\ \A t \in Slots : t # s => inode'[t] = inode[t]
  BY <1>5, SlotUpdated DEF IndInv
<1> QED BY <1>1, <1>5, <1>6 DEF SameContents

(* itrunc() has updated the inode: open() returns, iput() goes on.          *)
LEMMA TruncReturnFs == ASSUME IndInv, IndInv', FsInv, Steady, NEW p \in Procs, TruncReturn(p) PROVE FsInv'
<1> USE Given
<1>1. Runs(p) /\ pc[p] = "upd_trunc" /\ call[p].s \in Slots
  BY DEF TruncReturn, At, SlotsOk, HoldsInode, Freeing
<1>2. PICK s \in Slots : s = call[p].s
  BY <1>1
<1>3. ~Loading(s)
  <2>1. s \in Locks(p)
    BY <1>1, <1>2 DEF Locks
  <2> QED BY <1>1, <2>1, NotLoading
<1>4. /\ \A t \in Slots : SameContents(t) /\ inode'[t].ref = inode[t].ref
      /\ \A t \in Slots : t # s => inode'[t] = inode[t]
  BY <1>2, EntrySame DEF TruncReturn
<1>5. dinode' = [dinode EXCEPT ![call[p].n] = Written(s)] /\ UNCHANGED <<imap, zmap, dir>>
  BY <1>2 DEF TruncReturn
<1>6. CASE call[p].free
  <2>1. /\ OthersCalls(p) /\ pc'[p] = "ifree" /\ call'[p].n = inode[s].ino /\ call'[p].s = s
        /\ call'[p].free
    BY <1>1, <1>2, <1>6, CallsAre DEF TruncReturn, Bread, OthersCalls, CallRec
  <2>2. FsOk(p) /\ Freeing(p)
    BY <1>1, <1>6 DEF FsInv, Freeing
  <2>3. inode[s].blk = 0 /\ inode[s].links = 0 /\ inode[s].ino \in imap
    BY <1>1, <1>2, <2>2 DEF FsOk
  <2>4. FsOk(p)'
    BY <1>4, <1>5, <2>1, <2>3 DEF FsOk, SameContents, Freeing
  <2> QED BY <1>1, <1>2, <1>3, <1>4, <1>5, <2>1, <2>4, UpdateFs
<1>7. CASE ~call[p].free
  <2>1. OthersCalls(p) /\ pc'[p] = "user"
    BY <1>1, <1>7, CallsAre DEF TruncReturn, Return, Bread, OthersCalls
  <2>2. FsOk(p)'
    BY <2>1, Rests DEF Resting
  <2> QED BY <1>1, <1>2, <1>3, <1>4, <1>5, <2>1, <2>2, UpdateFs
<1> QED BY <1>6, <1>7

(* So has unlink(), ...                                                     *)
LEMMA UnlinkReturnFs == ASSUME IndInv, IndInv', FsInv, Steady, NEW p \in Procs, UnlinkReturn(p) PROVE FsInv'
<1> USE Given
<1>1. Runs(p) /\ pc[p] = "upd_unlink" /\ call[p].s \in Slots
  BY DEF UnlinkReturn, At, SlotsOk, HoldsInode
<1>2. PICK s \in Slots : s = call[p].s
  BY <1>1
<1>3. ~Loading(s)
  <2>1. s \in Locks(p)
    BY <1>1, <1>2 DEF Locks
  <2> QED BY <1>1, <2>1, NotLoading
<1>4. /\ \A t \in Slots : SameContents(t) /\ inode'[t].ref = inode[t].ref
      /\ \A t \in Slots : t # s => inode'[t] = inode[t]
  BY <1>2, EntrySame DEF UnlinkReturn
<1>5. dinode' = [dinode EXCEPT ![call[p].n] = Written(s)] /\ UNCHANGED <<imap, zmap, dir>>
  BY <1>2 DEF UnlinkReturn
<1>6. OthersCalls(p) /\ pc'[p] = "iput"
  BY <1>1, CallsAre DEF UnlinkReturn, Go, OthersCalls
<1>7. FsOk(p)'
  BY <1>6, Rests DEF Resting
<1> QED BY <1>1, <1>2, <1>3, <1>4, <1>5, <1>6, <1>7, UpdateFs

(* ... and iput() when the inode is free.                                   *)
LEMMA FreeReturnFs == ASSUME IndInv, IndInv', FsInv, Steady, NEW p \in Procs, FreeReturn(p) PROVE FsInv'
<1> USE Given
<1>1. /\ Runs(p) /\ pc[p] = "upd_free" /\ Freeing(p) /\ call[p].s \in Slots /\ call[p].s # RootSlot
      /\ call[p].ret \in {"user", "parent"}
  BY DEF FreeReturn, At, SlotsOk, OpsOk, Freeing
<1>2. PICK s \in Slots : s = call[p].s
  BY <1>1
<1>3. ~Loading(s)
  <2>1. ~Worked(s)
    BY <1>1, <1>2, NotWorked
  <2> QED BY <2>1 DEF Loading, Worked
<1>4. /\ \A t \in Slots : SameContents(t) /\ inode'[t].ref = inode[t].ref
      /\ \A t \in Slots : t # s => inode'[t] = inode[t]
  BY <1>2, EntrySame DEF FreeReturn
<1>5. dinode' = [dinode EXCEPT ![call[p].n] = Written(s)] /\ UNCHANGED <<imap, zmap, dir>>
  BY <1>2 DEF FreeReturn
<1>6. OthersCalls(p) /\ pc'[p] \in {"user", "parent"}
  BY <1>1, CallsAre DEF FreeReturn, Go, Return, Bread, OthersCalls
<1>7. FsOk(p)'
  BY <1>6, Rests DEF Resting
<1> QED BY <1>1, <1>2, <1>3, <1>4, <1>5, <1>6, <1>7, UpdateFs

(* The contents of all inodes after a step that writes none and reads none. *)
LEMMA ContentsKept ==
    ASSUME IndInv, IndInv', NEW p \in Procs, OthersCalls(p), pc[p] # "load", pc'[p] # "load",
           UNCHANGED dinode, \A t \in Slots : SameContents(t)
    PROVE  \A n \in Inos : Content(n)' = Content(n)
<1>1. \A t : Loading(t)' <=> Loading(t)
  BY DEF OthersCalls, Loading
<1>2. \A t \in Slots : inode'[t].ino = inode[t].ino /\ Written(t)' = Written(t)
  BY DEF SameContents, Written
<1> QED BY <1>1, <1>2, ContentKept

(* ifree() takes the inode out of the bitmap: it is empty.                  *)
LEMMA IfreeFs == ASSUME IndInv, IndInv', FsInv, Steady, NEW p \in Procs, Ifree(p) PROVE FsInv'
<1> USE Given
<1>1. Runs(p) /\ pc[p] = "ifree" /\ Freeing(p) /\ call[p].s \in Slots /\ call[p].s # RootSlot
  BY DEF Ifree, At, SlotsOk, OpsOk, Freeing
<1>2. PICK s \in Slots : s = call[p].s /\ s # RootSlot
  BY <1>1
<1>3. /\ OthersCalls(p) /\ pc'[p] = "upd_free" /\ call'[p].s = s /\ call'[p].n = inode[s].ino
      /\ imap' = imap \ {call[p].n} /\ inode' = [inode EXCEPT ![s] = Dirty(@)] /\ UNCHANGED <<dinode, zmap, dir>>
  BY <1>1, <1>2, CallsAre DEF Ifree, Bread, OthersCalls, CallRec
<1>4. /\ inode[s].ino = call[p].n /\ inode[s].blk = 0 /\ inode[s].links = 0 /\ inode[s].ref = 0
      /\ call[p].n \in Inos
  BY <1>1, <1>2, FreedSlots DEF FsInv, FsOk, SlotsOk
<1>5. Kept
  BY <1>2, <1>3, EntryWritten
<1>6. inode'[s].ref = 0
  <2>1. PICK x \in InodeRec : x = inode[s]
    BY <1>2
  <2>2. Dirty(x).ref = x.ref
    BY Fields
  <2> QED BY <1>2, <1>3, <1>4, <2>1, <2>2
<1>7. \A n \in Inos : Content(n)' = Content(n)
  BY <1>1, <1>3, <1>5, ContentsKept DEF Kept
<1>8. ~Worked(s)
  BY <1>1, <1>2, NotWorked
<1>9. Content(call[p].n) = Zero
  <2>1. ~Loading(s)
    BY <1>8 DEF Loading, Worked
  <2>2. Written(s) = Zero
    BY <1>4 DEF Written, Zero
  <2> QED BY <1>2, <1>4, <2>1, <2>2, ContentIs
<1>10. SameContents(s)
  BY <1>2, <1>5 DEF Kept
<1>11. FsOk(p)' /\ SameUnlink(p)
  BY <1>1, <1>3, <1>4, <1>10 DEF FsOk, Freeing, SameUnlink, TakesLink, InIget, SameContents
<1>12. LeavesLocked(p)
  <2>1. ~FreedByOther(p, s)
    BY <1>1, <1>2, OwnEntry
  <2>2. ~Is(s, "I_LOCK")
    <3>1. s \notin Locks(p)
      BY <1>1, <1>2 DEF Locks
    <3> QED BY <1>1, <1>2, <3>1, FreedUnlocked
  <2>3. \A t \in Slots : t # s /\ inode[t].ino # 0 => inode[t].ino # call[p].n
    BY <1>2, <1>4 DEF IndInv, OneSlotPerInode
  <2>4. \A t \in Slots : SameContents(t)
    BY <1>5 DEF Kept
  <2> QED BY <1>3, <2>1, <2>2, <2>3, <2>4 DEF LeavesLocked
<1>13. CleanOrWorked'
  <2> SUFFICES ASSUME NEW t \in Slots, inode'[t].ino # 0, ~Is(t, "I_DIRTY")', ~Worked(t)'
               PROVE  dinode'[inode'[t].ino] = Written(t)'
    BY DEF CleanOrWorked
  <2>1. ~Worked(t)
    BY <1>1, <1>3 DEF Worked, OthersCalls
  <2>2. ~Is(t, "I_DIRTY") /\ inode'[t].ino = inode[t].ino /\ Written(t)' = Written(t)
    BY <1>5 DEF Kept, SameContents, Written
  <2> QED BY <1>3, <2>1, <2>2 DEF CleanOrWorked, FsInv
<1>14. FreeIsEmpty'
  <2> SUFFICES ASSUME NEW n \in Inos, n \notin imap'
               PROVE  Content(n)' = Zero /\ \A t \in Slots : inode'[t].ino = n => inode'[t].ref = 0
    BY DEF FreeIsEmpty, Zero
  <2>1. CASE n = call[p].n
    <3>1. \A t \in Slots : inode'[t].ino = n => t = s
      BY <1>2, <1>4, <1>5, <2>1, InodeAssumption DEF Kept, SameContents, IndInv, OneSlotPerInode
    <3> QED BY <1>6, <1>7, <1>9, <2>1, <3>1
  <2>2. CASE n # call[p].n
    <3>1. n \notin imap
      BY <1>3, <2>2
    <3>2. Content(n) = Zero /\ \A t \in Slots : inode[t].ino = n => inode[t].ref = 0
      BY <3>1 DEF FsInv, FreeIsEmpty
    <3> QED BY <1>5, <1>7, <3>1, <3>2 DEF Kept, SameContents
  <2> QED BY <2>1, <2>2
<1>15. LinksAre' /\ BlocksAre'
  BY <1>3, <1>7, <1>11, ContentsSame
<1> QED BY <1>1, <1>3, <1>11, <1>12, <1>13, <1>14, <1>15, FsStep

(* ialloc() takes an inode that is free.                                    *)
LEMMA IallocFs == ASSUME IndInv, IndInv', FsInv, Steady, NEW p \in Procs, Ialloc(p) PROVE FsInv'
<1> USE Given
<1>1. Runs(p) /\ pc[p] = "ialloc" /\ Inos \ imap # {}
  BY DEF Ialloc, At, Panics
<1>2. PICK n \in Inos \ imap : n = Min(Inos \ imap)
  <2>1. Inos \ imap \in SUBSET Nat
    BY InodeAssumption
  <2> QED BY <1>1, <2>1, Lowest
<1>3. /\ OthersCalls(p) /\ pc'[p] = "iget" /\ busy' = p /\ call'[p].n = n /\ call'[p].ret = "newinode"
      /\ imap' = imap \cup {n} /\ UNCHANGED <<inode, dinode, zmap, dir>>
  BY <1>1, <1>2, CallsAre DEF Ialloc, Go, OthersCalls, CallRec
<1>4. Kept /\ \A t \in Slots : SameContents(t)
  BY <1>3, NothingKept DEF Kept
<1>5. \A m \in Inos : Content(m)' = Content(m)
  BY <1>1, <1>3, <1>4, ContentsKept
<1>6. Content(n) = Zero /\ \A t \in Slots : inode[t].ino = n => ~Is(t, "I_LOCK")
  <2>1. Content(n) = Zero /\ \A t \in Slots : inode[t].ino = n => inode[t].ref = 0
    BY DEF FsInv, FreeIsEmpty
  <2>2. ASSUME NEW t \in Slots, inode[t].ino = n, Is(t, "I_LOCK") PROVE FALSE
    <3>1. inode[t].ref = 0 /\ t # RootSlot
      BY <2>1, <2>2 DEF RootKept
    <3>2. PICK q \in Procs : t \in Locks(q)
      BY <2>2 DEF IndInv, LocksOwned
    <3>3. ~((HoldsInode(q) /\ call[q].s = t) \/ ofile[q] = t)
      BY <3>1, InUse
    <3>4. call[q].s = t /\ pc[q] \in {"trunc", "bfree", "upd_trunc"} /\ call[q].free
      BY <3>1, <3>2, <3>3 DEF Locks, HoldsInode
    <3>5. inode[t].ino \in imap
      BY <3>4 DEF FsInv, FsOk, Freeing
    <3> QED BY <2>2, <3>5
  <2> QED BY <2>1, <2>2
<1>7. FsOk(p)'
  <2>1. Content(call[p].n)' = Content(n)'
    BY <1>3 DEF Content, Valid, Cached
  <2> QED BY <1>3, <1>5, <1>6, <2>1 DEF FsOk, Freeing, Zero, Is
<1>8. SameUnlink(p)
  BY <1>1, <1>3 DEF SameUnlink, TakesLink, InIget
<1>9. LeavesLocked(p)
  BY <1>3, <1>4 DEF LeavesLocked
<1>10. CleanOrWorked'
  <2>1. \A t : Worked(t)' <=> Worked(t)
    BY <1>1, <1>3 DEF Worked, OthersCalls
  <2> QED BY <1>3, <2>1 DEF CleanOrWorked, FsInv, Is, Written
<1>11. FreeIsEmpty'
  BY <1>3, <1>5 DEF FreeIsEmpty, FsInv, Zero
<1>12. LinksAre' /\ BlocksAre'
  BY <1>3, <1>5, <1>8, ContentsSame
<1> QED BY <1>1, <1>3, <1>7, <1>9, <1>10, <1>11, <1>12, FsStep

(* The new inode is cleared: it was empty.                                  *)
LEMMA NewInodeFs == ASSUME IndInv, IndInv', FsInv, Steady, NEW p \in Procs, NewInode(p) PROVE FsInv'
<1> USE Given
<1>1. Runs(p) /\ pc[p] = "newinode" /\ call[p].s \in Slots /\ call[p].s # RootSlot
  BY DEF NewInode, At, SlotsOk, HoldsInode
<1>2. PICK s \in Slots : s = call[p].s /\ s # RootSlot
  BY <1>1
<1>3. inode[s].ino = call[p].n /\ inode[s].links = 0 /\ inode[s].blk = 0
  <2>1. Written(s) = Zero /\ inode[s].ino = call[p].n
    BY <1>1, <1>2 DEF FsInv, FsOk
  <2> QED BY <2>1 DEF Written, Zero
<1>4. OthersCalls(p) /\ UNCHANGED disk /\ pc'[p] = "wdir" /\ call'[p] = call[p]
  BY <1>1, CallsAre DEF NewInode, Bread, OthersCalls, disk
<1>5. PICK x \in InodeRec, y \in InodeRec : x = inode[s] /\ y = inode[RootSlot]
  BY <1>2
<1>6. PICK z : z = [x EXCEPT !.links = 0, !.blk = 0]
  OBVIOUS
<1>7. z \in InodeRec /\ z.ino = x.ino /\ z.links = 0 /\ z.blk = 0 /\ z.ref = x.ref /\ z.flags = x.flags
  <2> HIDE Given
  <2> QED BY <1>6 DEF InodeRec
<1>8. PICK r : r = Dirty(Lock(z))
  OBVIOUS
<1>9. r \in InodeRec /\ r.ino = x.ino /\ r.links = 0 /\ r.blk = 0 /\ r.ref = x.ref /\ "I_DIRTY" \in r.flags
  <2>1. PICK u : u = Lock(z)
    OBVIOUS
  <2>2. u \in InodeRec /\ u.ino = z.ino /\ u.links = z.links /\ u.blk = z.blk /\ u.ref = z.ref
    BY <1>7, <2>1, Fields, Contents
  <2>3. /\ Dirty(u) \in InodeRec /\ Dirty(u).ino = u.ino /\ Dirty(u).links = u.links /\ Dirty(u).blk = u.blk
        /\ Dirty(u).ref = u.ref /\ "I_DIRTY" \in Dirty(u).flags
    <3> HIDE Given
    <3>1. Dirty(u).blk = u.blk
      BY <2>2, Contents
    <3>2. /\ Dirty(u) \in InodeRec /\ Dirty(u).ino = u.ino /\ Dirty(u).links = u.links
          /\ Dirty(u).ref = u.ref /\ Dirty(u).flags = u.flags \cup {"I_DIRTY"}
      BY <2>2, Fields
    <3> QED BY <3>1, <3>2
  <2> QED BY <1>7, <1>8, <2>1, <2>2, <2>3
<1>10. /\ Lock(y) \in InodeRec /\ Lock(y).ino = y.ino /\ Lock(y).links = y.links /\ Lock(y).blk = y.blk /\ Lock(y).ref = y.ref
       /\ "I_DIRTY" \in y.flags => "I_DIRTY" \in Lock(y).flags
  <2> HIDE Given
  <2>1. Lock(y) \in InodeRec /\ Lock(y).ino = y.ino /\ Lock(y).links = y.links /\ Lock(y).ref = y.ref
    BY Fields
  <2>2. Lock(y).flags = y.flags \cup {"I_LOCK"}
    BY Fields
  <2>3. Lock(y).blk = y.blk
    BY Contents
  <2> QED BY <2>1, <2>2, <2>3
<1>11. inode' = [inode EXCEPT ![s] = r, ![RootSlot] = Lock(y)]
  BY <1>2, <1>5, <1>6, <1>8 DEF NewInode
<1>12. inode'[s] = r /\ inode'[RootSlot] = Lock(y) /\ \A t \in Slots : t # s /\ t # RootSlot => inode'[t] = inode[t]
  BY <1>2, <1>11
<1>13. Kept
  <2>1. ASSUME NEW t \in Slots
        PROVE  /\ SameContents(t)
               /\ "I_DIRTY" \in inode[t].flags => "I_DIRTY" \in inode'[t].flags
               /\ inode'[t].ref = inode[t].ref
    <3>1. CASE t = s
      BY <1>3, <1>5, <1>9, <1>12, <3>1 DEF SameContents
    <3>2. CASE t = RootSlot
      BY <1>5, <1>10, <1>12, <3>2 DEF SameContents
    <3>3. CASE t # s /\ t # RootSlot
      BY <1>12, <3>3 DEF SameContents
    <3> QED BY <3>1, <3>2, <3>3
  <2> QED BY <2>1 DEF Kept, Is
<1>14. FsOk(p)'
  <2>1. inode'[s].ino = call[p].n /\ Written(s)' = Zero
    BY <1>3, <1>5, <1>9, <1>12 DEF Written, Zero
  <2>2. Written(call[p].s)' = Written(s)'
    BY <1>2, <1>4 DEF Written
  <2> QED BY <1>2, <1>4, <2>1, <2>2 DEF FsOk, Freeing, Zero
<1>15. SameUnlink(p)
  BY <1>1, <1>4 DEF SameUnlink, TakesLink, InIget
<1> QED BY <1>1, <1>4, <1>13, <1>14, <1>15, QuietFs

(* unlink() clears the entry, and p has a link to take away.                *)
LEMMA UnlinkEntryFs == ASSUME IndInv, IndInv', FsInv, Steady, NEW p \in Procs, NEW n \in Inos, UnlinkEntry(p, n) PROVE FsInv'
<1> USE Given
<1>1. Runs(p) /\ pc[p] = "scan" /\ <<call[p].name, n>> \in dir
  BY DEF UnlinkEntry, At
<1>2. /\ OthersCalls(p) /\ pc'[p] = "iget" /\ call'[p].n = n /\ call'[p].ret = "unlinked"
      /\ dir' = dir \ {<<call[p].name, n>>} /\ UNCHANGED <<inode, dinode, imap, zmap>>
  BY <1>1, CallsAre DEF UnlinkEntry, Go, OthersCalls, CallRec
<1>3. Kept /\ \A t \in Slots : SameContents(t)
  BY <1>2, NothingKept DEF Kept
<1>4. \A m \in Inos : Content(m)' = Content(m)
  BY <1>1, <1>2, <1>3, ContentsKept
<1>5. FsOk(p)'
  BY <1>2 DEF FsOk, Freeing
<1>6. LeavesLocked(p)
  BY <1>2, <1>3 DEF LeavesLocked
<1>7. CleanOrWorked'
  <2>1. \A t : Worked(t)' <=> Worked(t)
    BY <1>1, <1>2 DEF Worked, OthersCalls
  <2> QED BY <1>2, <2>1 DEF CleanOrWorked, FsInv, Is, Written
<1>8. FreeIsEmpty'
  BY <1>2, <1>4 DEF FreeIsEmpty, FsInv, Zero
<1>9. BlocksAre'
  BY <1>2, <1>4 DEF BlocksAre, FsInv
<1>10. LinksAre'
  <2>1. IsFiniteSet(dir) /\ IsFiniteSet(dir')
    BY <1>2, FS_Subset DEF FsInv, LinksAre
  <2>2. ASSUME NEW m \in Inos \ {ROOT_INODE}
        PROVE  Content(m)'.links = Cardinality(Entries(m)') + Cardinality(Unlinking(m)')
    <3>1. Content(m).links = Cardinality(Entries(m)) + Cardinality(Unlinking(m))
      BY DEF FsInv, LinksAre
    <3>2. \A q \in Procs : q # p => (q \in Unlinking(m)' <=> q \in Unlinking(m))
      BY <1>2 DEF OthersCalls, Unlinking, InIget
    <3>3. p \notin Unlinking(m) /\ (p \in Unlinking(m)' <=> m = n)
      BY <1>1, <1>2 DEF Unlinking, InIget
    <3>4. /\ Cardinality(Unlinking(m)) \in Nat
          /\ Cardinality(Unlinking(m)') = Cardinality(Unlinking(m)) + IF m = n THEN 1 ELSE 0
      <4>1. Unlinking(m) \in SUBSET Procs /\ Unlinking(m)' \in SUBSET Procs
        BY DEF Unlinking
      <4>2. PICK A \in SUBSET Procs, B \in SUBSET Procs : A = Unlinking(m) /\ B = Unlinking(m)'
        BY <4>1
      <4>3. /\ Cardinality(A) \in Nat
            /\ Cardinality(B) = Cardinality(A) + (IF p \in B THEN 1 ELSE 0) - (IF p \in A THEN 1 ELSE 0)
        BY <3>2, <4>2, OneDiffers
      <4> QED BY <3>3, <4>2, <4>3
    <3>5. /\ Cardinality(Entries(m)) \in Nat
          /\ Cardinality(Entries(m)') = Cardinality(Entries(m)) - IF m = n THEN 1 ELSE 0
      <4>1. IsFiniteSet(Entries(m))
        BY <2>1, FS_Subset DEF Entries
      <4>2. Cardinality(Entries(m)) \in Nat
        BY <4>1, FS_CardinalityType
      <4>3. CASE m = n
        <5>1. PICK e : e = <<call[p].name, n>>
          OBVIOUS
        <5>2. e \in Entries(m) /\ Entries(m)' = Entries(m) \ {e}
          BY <1>1, <1>2, <4>3, <5>1 DEF Entries
        <5>3. PICK E : E = Entries(m)
          OBVIOUS
        <5>4. Cardinality(E \ {e}) = Cardinality(E) - 1
          BY <4>1, <5>2, <5>3, FS_RemoveElement
        <5> QED BY <4>2, <4>3, <5>2, <5>3, <5>4
      <4>4. CASE m # n
        <5>1. Entries(m)' = Entries(m)
          BY <1>2, <4>4 DEF Entries
        <5> QED BY <4>2, <4>4, <5>1
      <4> QED BY <4>3, <4>4
    <3> QED BY <1>4, <3>1, <3>4, <3>5
  <2> QED BY <2>1, <2>2 DEF LinksAre
<1> QED BY <1>1, <1>2, <1>5, <1>6, <1>7, <1>8, <1>9, <1>10, FsStep

(* iget() takes an entry that nobody uses, and whose inode is on disk.      *)
LEMMA IgetMissFs == ASSUME IndInv, IndInv', FsInv, Steady, NEW p \in Procs, IgetMiss(p), ~GivesFreed(p) PROVE FsInv'
<1> USE Given
<1>1. /\ Runs(p) /\ pc[p] = "iget" /\ call[p].n \in imap /\ call[p].n \in Inos
      /\ \A t \in Slots : inode[t].ino # call[p].n
      /\ \A q \in Procs : Freeing(q) => call[q].s # call'[p].s
  <2>1. Runs(p) /\ pc[p] = "iget" /\ \A t \in Slots : inode[t].ino # call[p].n
    BY DEF IgetMiss, AtIget, At, Cached
  <2>2. pc'[p] = "load"
    BY CallsAre DEF IgetMiss, Bread
  <2> QED BY <2>1, <2>2, NotGiven DEF OpsOk
<1>2. PICK s \in Slots : s = Min(Unused) /\ inode[s].ref = 0 /\ ~Is(s, "I_DIRTY")
  <2>1. Unused # {}
    BY <1>1 DEF IgetMiss, AtIget, At, Panics
  <2>2. Unused \in SUBSET Nat
    BY InodeAssumption DEF Unused, Slots
  <2> QED BY <2>1, <2>2, Lowest DEF Unused
<1>3. s # RootSlot /\ ~Is(s, "I_LOCK") /\ \A q \in Procs : Freeing(q) => call[q].s # s
  <2>1. call'[p].s = s
    BY <1>2, CallsAre DEF IgetMiss, CallRec
  <2> QED BY <1>1, <1>2, <2>1, UnusedFree
<1>4. /\ OthersCalls(p) /\ UNCHANGED disk /\ pc'[p] = "load" /\ call'[p].s = s
      /\ call'[p].n = call[p].n /\ call'[p].ret = call[p].ret
  BY <1>1, <1>2, CallsAre DEF IgetMiss, Bread, OthersCalls, disk, CallRec
<1>5. inode'[s].ino = call[p].n /\ \A t \in Slots : t # s => inode'[t] = inode[t]
  <2>1. inode' = [inode EXCEPT ![s].ino = call[p].n, ![s].ref = 1, ![s].flags = Reserved]
    BY <1>2 DEF IgetMiss
  <2>2. PICK x \in InodeRec : x = inode[s]
    BY <1>2
  <2>3. PICK z : z = [x EXCEPT !.ino = call[p].n, !.ref = 1, !.flags = Reserved]
    OBVIOUS
  <2>4. inode' = [inode EXCEPT ![s] = z]
    BY <2>1, <2>2, <2>3
  <2>5. z.ino = call[p].n
    BY <2>3 DEF InodeRec
  <2> QED BY <2>4, <2>5
<1>6. dinode' = dinode /\ imap' = imap /\ zmap' = zmap /\ dir' = dir
  BY <1>4 DEF disk
<1>7. ~Worked(s)
  BY <1>3, WorkedLocked
<1>8. ~Loading(s) /\ Loading(s)' /\ Worked(s)'
  BY <1>4, <1>7 DEF Loading, Worked
<1>9. \A t \in Slots : t # s => (Loading(t)' <=> Loading(t)) /\ (Worked(t)' <=> Worked(t)) /\ Written(t)' = Written(t)
  BY <1>1, <1>4, <1>5 DEF Loading, Worked, OthersCalls, Written
<1>10. ASSUME NEW n \in Inos PROVE Content(n)' = Content(n)
  <2>1. CASE n = call[p].n
    <3>1. Content(n) = dinode[n]
      BY <1>1, <2>1, ContentIs
    <3>2. \A t \in Slots : inode'[t].ino = n => Loading(t)'
      BY <1>1, <1>5, <1>8, <2>1
    <3> QED BY <1>6, <3>1, <3>2, ContentBecomes
  <2>2. CASE n # call[p].n /\ inode[s].ino = n
    <3>1. Content(n) = Written(s)
      BY <1>8, <2>2, ContentIs
    <3>2. n # 0
      BY InodeAssumption
    <3>3. dinode[n] = Written(s)
      BY <1>2, <1>7, <2>2, <3>2 DEF FsInv, CleanOrWorked
    <3>4. \A t \in Slots : inode'[t].ino # n
      BY <1>5, <2>2, <3>2 DEF IndInv, OneSlotPerInode
    <3>5. Content(n)' = dinode'[n]
      BY <3>4, ContentBecomes
    <3> QED BY <1>6, <3>1, <3>3, <3>5
  <2>3. CASE n # call[p].n /\ inode[s].ino # n
    <3>1. \A t \in Slots : inode'[t].ino = n <=> inode[t].ino = n
      BY <1>5, <2>3
    <3>2. \A t \in Slots : inode[t].ino = n =>
             (Loading(t)' <=> Loading(t)) /\ (~Loading(t) => Written(t)' = Written(t))
      BY <1>9, <2>3
    <3> QED BY <1>6, <3>1, <3>2, ContentKept
  <2> QED BY <2>1, <2>2, <2>3
<1>11. LeavesLocked(p)
  BY <1>3, <1>5, <1>6 DEF LeavesLocked, SameContents, FreedByOther
<1>12. CleanOrWorked'
  <2> SUFFICES ASSUME NEW t \in Slots, inode'[t].ino # 0, ~Is(t, "I_DIRTY")', ~Worked(t)'
               PROVE  dinode'[inode'[t].ino] = Written(t)'
    BY DEF CleanOrWorked
  <2>1. t # s
    BY <1>8
  <2> QED BY <1>5, <1>6, <1>9, <2>1 DEF FsInv, CleanOrWorked, Is
<1>13. FreeIsEmpty'
  <2> SUFFICES ASSUME NEW n \in Inos, n \notin imap
               PROVE  Content(n)' = Zero /\ \A t \in Slots : inode'[t].ino = n => inode'[t].ref = 0
    BY <1>6 DEF FreeIsEmpty, Zero
  <2>1. Content(n) = Zero /\ \A t \in Slots : inode[t].ino = n => inode[t].ref = 0
    BY DEF FsInv, FreeIsEmpty
  <2> QED BY <1>1, <1>5, <1>10, <2>1
<1>14. FsOk(p)'
  <2>1. call[p].ret = "newinode" => Content(call[p].n) = Zero
    BY <1>1 DEF FsInv, FsOk
  <2>2. Content(call[p].n) = dinode[call[p].n]
    BY <1>1, ContentIs
  <2> QED BY <1>4, <1>5, <1>6, <2>1, <2>2 DEF FsOk, Freeing, Zero
<1>15. SameUnlink(p)
  BY <1>1, <1>4 DEF SameUnlink, TakesLink, InIget
<1>16. LinksAre' /\ BlocksAre'
  BY <1>4, <1>6, <1>10, <1>15, ContentsSame
<1> QED BY <1>1, <1>4, <1>11, <1>12, <1>13, <1>14, <1>16, FsStep

(* iget() has read the inode.                                               *)
LEMMA LoadFs == ASSUME IndInv, IndInv', FsInv, Steady, NEW p \in Procs, Load(p) PROVE FsInv'
<1> USE Given
<1>1. /\ Runs(p) /\ pc[p] = "load" /\ call[p].n \in Inos /\ call[p].s \in Slots
      /\ call[p].ret \in {"found", "putnext", "newinode", "unlinked"}
  <2>1. Runs(p) /\ pc[p] = "load"
    BY DEF Load, At
  <2>2. call[p].ret \in Rets
    BY DEF CallRec
  <2> QED BY <2>1, <2>2 DEF OpsOk, Rets, SlotsOk, HoldsInode
<1>2. PICK s \in Slots : s = call[p].s
  BY <1>1
<1>3. PICK n \in Inos : n = call[p].n
  BY <1>1
<1>4. inode[s].ino = n /\ s \in Locks(p)
  BY <1>1, <1>2, <1>3 DEF FsInv, FsOk, Locks
<1>5. PICK k \in Nat, b \in Blocks \cup {0} : dinode[n] = [links |-> k, blk |-> b]
  BY DEF DiskTyped
<1>6. /\ OthersCalls(p) /\ UNCHANGED disk /\ pc'[p] = call[p].ret /\ call' = call
      /\ inode' = [inode EXCEPT ![s] = Unlock([@ EXCEPT !.links = k, !.blk = b])]
  BY <1>1, <1>2, <1>3, <1>5, CallsAre DEF Load, Go, OthersCalls, disk
<1>7. /\ inode'[s].ino = n /\ inode'[s].links = k /\ inode'[s].blk = b /\ inode'[s].ref = inode[s].ref
      /\ \A t \in Slots : t # s => inode'[t] = inode[t]
  <2>1. PICK x \in InodeRec : x = inode[s]
    BY <1>2
  <2>2. PICK z : z = [x EXCEPT !.links = k, !.blk = b]
    OBVIOUS
  <2>3. z \in InodeRec /\ z.ino = x.ino /\ z.links = k /\ z.blk = b /\ z.ref = x.ref
    <3> HIDE Given
    <3> QED BY <2>2 DEF InodeRec
  <2>4. inode' = [inode EXCEPT ![s] = Unlock(z)]
    BY <1>6, <2>1, <2>2
  <2>5. Unlock(z).ino = z.ino /\ Unlock(z).links = z.links /\ Unlock(z).blk = z.blk /\ Unlock(z).ref = z.ref
    BY <2>3, Fields, Contents
  <2> QED BY <1>4, <2>1, <2>3, <2>4, <2>5
<1>8. dinode' = dinode /\ imap' = imap /\ zmap' = zmap /\ dir' = dir
  BY <1>6 DEF disk
<1>9. Written(s)' = dinode[n]
  BY <1>5, <1>7 DEF Written
<1>10. Loading(s) /\ ~Loading(s)'
  <2>1. \A q \in Procs : q # p => ~(pc[q] = "load" /\ call[q].s = s)
    BY <1>4 DEF LocksOwned, Locks
  <2> QED BY <1>1, <1>2, <1>6, <2>1 DEF Loading, OthersCalls
<1>11. \A t \in Slots : t # s => (Loading(t)' <=> Loading(t)) /\ (Worked(t)' <=> Worked(t)) /\ Written(t)' = Written(t)
  BY <1>1, <1>2, <1>6, <1>7 DEF Loading, Worked, OthersCalls, Written
<1>12. \A t \in Slots : inode[t].ino = n => t = s
  BY <1>4, InodeAssumption DEF IndInv, OneSlotPerInode
<1>13. ASSUME NEW m \in Inos PROVE Content(m)' = Content(m)
  <2>1. CASE m = n
    <3>1. Content(m) = dinode[n]
      BY <1>10, <1>12, <2>1, ContentIs
    <3>2. Content(m)' = Written(s)'
      BY <1>7, <1>10, <2>1, ContentBecomes
    <3> QED BY <1>9, <3>1, <3>2
  <2>2. CASE m # n
    <3>1. \A t \in Slots : inode'[t].ino = m <=> inode[t].ino = m
      BY <1>4, <1>7, <2>2
    <3>2. \A t \in Slots : inode[t].ino = m =>
             (Loading(t)' <=> Loading(t)) /\ (~Loading(t) => Written(t)' = Written(t))
      BY <1>4, <1>11, <2>2
    <3> QED BY <1>8, <3>1, <3>2, ContentKept
  <2> QED BY <2>1, <2>2
<1>14. LeavesLocked(p)
  <2>1. HoldsInode(p) /\ s # RootSlot
    BY <1>1, <1>2 DEF HoldsInode, SlotsOk
  <2>2. ~FreedByOther(p, s)
    BY <1>2, <2>1, InUse, OwnEntry
  <2> QED BY <1>4, <1>7, <1>8, <2>2 DEF LeavesLocked, SameContents
<1>15. CleanOrWorked'
  <2> SUFFICES ASSUME NEW t \in Slots, inode'[t].ino # 0, ~Is(t, "I_DIRTY")', ~Worked(t)'
               PROVE  dinode'[inode'[t].ino] = Written(t)'
    BY DEF CleanOrWorked
  <2>1. CASE t = s
    BY <1>7, <1>8, <1>9, <2>1
  <2>2. CASE t # s
    BY <1>7, <1>8, <1>11, <2>2 DEF FsInv, CleanOrWorked, Is
  <2> QED BY <2>1, <2>2
<1>16. FreeIsEmpty'
  <2> SUFFICES ASSUME NEW m \in Inos, m \notin imap
               PROVE  Content(m)' = Zero /\ \A t \in Slots : inode'[t].ino = m => inode'[t].ref = 0
    BY <1>8 DEF FreeIsEmpty, Zero
  <2>1. Content(m) = Zero /\ \A t \in Slots : inode[t].ino = m => inode[t].ref = 0
    BY DEF FsInv, FreeIsEmpty
  <2> QED BY <1>4, <1>7, <1>13, <2>1
<1>17. FsOk(p)'
  <2>1. inode'[call'[p].s].ino = call'[p].n /\ Written(call[p].s)' = dinode[n]
    BY <1>2, <1>3, <1>6, <1>7, <1>9 DEF Written
  <2>2. call[p].ret = "newinode" => dinode[n] = Zero
    BY <1>1, <1>3 DEF FsInv, FsOk
  <2>3. CASE call[p].ret \in {"newinode", "unlinked"}
    BY <1>6, <2>1, <2>2, <2>3 DEF FsOk, Freeing, Zero
  <2>4. CASE call[p].ret \in {"found", "putnext"}
    BY <1>6, <2>4, Rests DEF Resting
  <2> QED BY <1>1, <2>3, <2>4
<1>18. SameUnlink(p)
  BY <1>1, <1>6 DEF SameUnlink, TakesLink, InIget
<1>19. LinksAre' /\ BlocksAre'
  BY <1>6, <1>8, <1>13, <1>18, ContentsSame
<1> QED BY <1>1, <1>6, <1>14, <1>15, <1>16, <1>17, <1>19, FsStep

(* One inode changes, in memory: what else is as before.                    *)
Changes(p, s) ==
    /\ Runs(p) /\ OthersCalls(p) /\ pc[p] # "load" /\ pc'[p] # "load"
    /\ s \in Slots /\ inode[s].ino # 0 /\ (s \in Locks(p) \/ ~Is(s, "I_LOCK")) /\ ~FreedByOther(p, s)
    /\ inode'[s].ino = inode[s].ino /\ UNCHANGED <<dinode, imap>>
    /\ \A t \in Slots : t # s => SameContents(t)

(* The contents before and after: those of one inode are in its entry.      *)
LEMMA ContentChanged ==
    ASSUME IndInv, IndInv', NEW p \in Procs, NEW s, Changes(p, s)
    PROVE  /\ Content(inode[s].ino) = Written(s) /\ Content(inode[s].ino)' = Written(s)'
           /\ \A n \in Inos : n # inode[s].ino => Content(n)' = Content(n)
           /\ ~Loading(s) /\ inode[s].ino \in Inos
<1>1. s \in Slots /\ inode[s].ino \in Inos
  BY DEF Changes, IndInv, TypeOK
<1>2. \A t : Loading(t)' <=> Loading(t)
  BY DEF Changes, OthersCalls, Loading
<1>3. ~Loading(s)
  BY <1>1, NotLoading DEF Changes
<1>4. PICK m \in Inos : m = inode[s].ino
  BY <1>1
<1>5. Content(m) = Written(s)
  BY <1>1, <1>3, <1>4, ContentIs
<1>6. Content(m)' = Written(s)'
  BY <1>1, <1>2, <1>3, <1>4, ContentBecomes DEF Changes
<1>7. Content(inode[s].ino)' = Content(m)'
  <2>1. inode'[s].ino = m
    BY <1>4 DEF Changes
  <2> QED BY <2>1 DEF Content, Valid, Cached
<1>8. ASSUME NEW n \in Inos, n # m PROVE Content(n)' = Content(n)
  <2>1. \A t \in Slots : inode'[t].ino = inode[t].ino
    BY DEF Changes, SameContents
  <2>2. \A t \in Slots : inode[t].ino = n => Written(t)' = Written(t)
    BY <1>4, <1>8 DEF Changes, SameContents, Written
  <2>3. dinode'[n] = dinode[n]
    BY DEF Changes
  <2> QED BY <1>2, <2>1, <2>2, <2>3, ContentKept
<1> QED BY <1>1, <1>3, <1>4, <1>5, <1>6, <1>7, <1>8

(* The invariant after such a step: the inode is not free, and is marked,   *)
(* unless itrunc() is still at work on it.                                  *)
LEMMA ChangeFs ==
    ASSUME IndInv, IndInv', FsInv, NEW p \in Procs, NEW s, Changes(p, s), inode[s].ino \in imap,
           \A t \in Slots : t # s =>
               /\ "I_DIRTY" \in inode[t].flags => "I_DIRTY" \in inode'[t].flags
               /\ t = RootSlot \/ inode'[t].ref = inode[t].ref,
           pc[p] \in {"trunc", "bfree"} => call[p].s = s,
           "I_DIRTY" \in inode'[s].flags \/ (pc'[p] \in {"trunc", "bfree"} /\ call'[p].s = s),
           FsOk(p)', LinksAre', BlocksAre'
    PROVE  FsInv'
<1>1. /\ Runs(p) /\ OthersCalls(p) /\ s \in Slots /\ dinode' = dinode /\ imap' = imap
      /\ \A t \in Slots : inode'[t].ino = inode[t].ino
      /\ \A t \in Slots : t # s => Written(t)' = Written(t)
  BY DEF Changes, SameContents, Written
<1>2. LeavesLocked(p)
  BY DEF Changes, LeavesLocked
<1>3. CleanOrWorked'
  <2> SUFFICES ASSUME NEW t \in Slots, inode'[t].ino # 0, ~Is(t, "I_DIRTY")', ~Worked(t)'
               PROVE  dinode'[inode'[t].ino] = Written(t)'
    BY DEF CleanOrWorked
  <2>1. t # s
    BY DEF Is, Worked
  <2>2. ~Is(t, "I_DIRTY")
    BY <2>1 DEF Is
  <2>3. ~Worked(t)
    <3> SUFFICES ASSUME NEW q \in Procs, pc[q] \in {"load", "trunc", "bfree"}, call[q].s = t PROVE FALSE
      BY DEF Worked
    <3>1. q # p
      BY <2>1 DEF Changes
    <3> QED BY <1>1, <3>1 DEF Worked, OthersCalls
  <2> QED BY <1>1, <2>1, <2>2, <2>3 DEF FsInv, CleanOrWorked
<1>4. FreeIsEmpty'
  <2> SUFFICES ASSUME NEW n \in Inos, n \notin imap
               PROVE  Content(n)' = Zero /\ \A t \in Slots : inode'[t].ino = n => inode'[t].ref = 0
    BY <1>1 DEF FreeIsEmpty, Zero
  <2>1. Content(n) = Zero /\ \A t \in Slots : inode[t].ino = n => inode[t].ref = 0
    BY DEF FsInv, FreeIsEmpty
  <2>2. Content(n)' = Content(n)
    BY ContentChanged
  <2>3. \A t \in Slots : inode'[t].ino = n => t # s /\ t # RootSlot
    BY <1>1 DEF IndInv, RootKept
  <2> QED BY <1>1, <2>1, <2>2, <2>3
<1> QED BY <1>1, <1>2, <1>3, <1>4, FsStep

(* No block changes its owner.                                              *)
LEMMA BlocksSame ==
    ASSUME FsInv, UNCHANGED zmap, \A n \in Inos : Content(n)'.blk = Content(n).blk
    PROVE  BlocksAre'
BY DEF BlocksAre, FsInv

(* No link comes or goes.                                                   *)
LEMMA LinksSame ==
    ASSUME FsInv, NEW p \in Procs, OthersCalls(p), SameUnlink(p), UNCHANGED dir,
           \A n \in Inos : Content(n)'.links = Content(n).links
    PROVE  LinksAre'
<1>1. \A n : Unlinking(n)' = Unlinking(n) /\ Entries(n)' = Entries(n)
  BY UnlinkingSame DEF Entries
<1> QED BY <1>1 DEF LinksAre, FsInv

(* bfree() takes the block out of the bitmap: it was of this inode only.    *)
LEMMA BfreeFs == ASSUME IndInv, IndInv', FsInv, Steady, NEW p \in Procs, Bfree(p) PROVE FsInv'
<1> USE Given
<1>1. Runs(p) /\ pc[p] = "bfree" /\ call[p].s \in Slots /\ inode[call[p].s].ino # 0
  BY DEF Bfree, At, SlotsOk, HoldsInode, Freeing
<1>2. PICK s \in Slots : s = call[p].s
  BY <1>1
<1>3. PICK b \in Blocks : b = call[p].b /\ b # 0 /\ inode[s].blk = b
  <2>1. call[p].b = inode[s].blk /\ call[p].b # 0
    BY <1>1, <1>2 DEF FsInv, FsOk
  <2>2. inode[s].blk \in Blocks \cup {0}
    BY DEF InodeRec
  <2> QED BY <2>1, <2>2
<1>4. /\ OthersCalls(p) /\ pc'[p] = "trunc" /\ call'[p].s = s /\ call'[p].free = call[p].free
      /\ zmap' = zmap \ {b} /\ inode' = [inode EXCEPT ![s] = Freed(@)] /\ UNCHANGED <<dinode, imap, dir>>
  BY <1>1, <1>2, <1>3, CallsAre DEF Bfree, Go, OthersCalls, CallRec
<1>5. /\ inode'[s].ino = inode[s].ino /\ inode'[s].links = inode[s].links /\ inode'[s].blk = 0
      /\ inode'[s].ref = inode[s].ref
      /\ \A t \in Slots : t # s => inode'[t] = inode[t]
  <2>1. PICK x \in InodeRec : x = inode[s]
    BY <1>2
  <2>2. Freed(x).ino = x.ino /\ Freed(x).links = x.links /\ Freed(x).blk = 0 /\ Freed(x).ref = x.ref
    BY Fields, Contents
  <2> QED BY <1>4, <2>1, <2>2
<1>6. Changes(p, s)
  <2>1. s \in Locks(p)
    BY <1>1, <1>2 DEF Locks
  <2>2. ~Freeing(p) => HoldsInode(p) /\ s # RootSlot
    BY <1>1, <1>2 DEF HoldsInode, Freeing, SlotsOk
  <2>3. ~FreedByOther(p, s)
    BY <1>2, <2>2, InUse, OwnEntry
  <2> QED BY <1>1, <1>2, <1>4, <1>5, <2>1, <2>3 DEF Changes, SameContents
<1>7. PICK m \in Inos : m = inode[s].ino
  BY <1>6, ContentChanged
<1>8. /\ Content(m).blk = b /\ Content(m)'.blk = 0 /\ Content(m)'.links = Content(m).links
      /\ \A n \in Inos : n # m => Content(n)' = Content(n)
  <2>1. Content(m) = Written(s) /\ \A n \in Inos : n # m => Content(n)' = Content(n)
    BY <1>6, <1>7, ContentChanged
  <2>2. Content(m)' = Written(s)'
    <3>1. ~Loading(s)
      BY <1>6, ContentChanged
    <3>2. ~Loading(s)' /\ inode'[s].ino = m
      BY <1>4, <1>5, <1>7, <3>1 DEF Loading, OthersCalls
    <3> QED BY <3>2, ContentBecomes
  <2> QED BY <1>3, <1>5, <2>1, <2>2 DEF Written
<1>9. inode[s].ino \in imap
  <2>1. m \notin imap => Content(m).blk = 0
    BY DEF FsInv, FreeIsEmpty, Zero
  <2> QED BY <1>3, <1>7, <1>8, <2>1
<1>10. SameUnlink(p)
  BY <1>1, <1>4 DEF SameUnlink, TakesLink, InIget
<1>11. LinksAre'
  <2>1. \A n \in Inos : Content(n)'.links = Content(n).links
    BY <1>8
  <2> QED BY <1>4, <1>10, <2>1, LinksSame
<1>12. BlocksAre'
  <2>1. BlocksAre
    BY DEF FsInv
  <2>2. IsFiniteSet(zmap')
    BY <1>4, <2>1, FS_Subset DEF BlocksAre
  <2>3. \A n \in Inos : Content(n).blk = b => n = m
    BY <1>3, <1>8, <2>1 DEF BlocksAre
  <2>4. ASSUME NEW c \in Blocks PROVE c \in zmap' <=> \E n \in Inos : Content(n)'.blk = c
    <3>1. c # 0
      BY InodeAssumption
    <3>2. c \in zmap <=> \E n \in Inos : Content(n).blk = c
      BY <2>1 DEF BlocksAre
    <3> QED BY <1>4, <1>8, <2>3, <3>1, <3>2
  <2>5. \A n, k \in Inos : Content(n)'.blk = Content(k)'.blk /\ Content(n)'.blk # 0 => n = k
    BY <1>8, <2>1 DEF BlocksAre
  <2> QED BY <2>2, <2>4, <2>5 DEF BlocksAre
<1>13. FsOk(p)'
  <2>1. Freeing(p) => inode[s].links = 0
    BY <1>1, <1>2 DEF FsInv, FsOk
  <2> QED BY <1>1, <1>4, <1>5, <1>9, <2>1 DEF FsOk, Freeing
<1> QED BY <1>1, <1>2, <1>4, <1>5, <1>6, <1>9, <1>11, <1>12, <1>13, ChangeFs

(* bmap() has a new block, which no inode has.                              *)
LEMMA BallocFs == ASSUME IndInv, IndInv', FsInv, Steady, NEW p \in Procs, Balloc(p) PROVE FsInv'
<1> USE Given
<1>1. Runs(p) /\ pc[p] = "balloc" /\ ofile[p] \in Slots /\ ofile[p] # RootSlot /\ inode[ofile[p]].ino # 0
  BY DEF Balloc, At, OpsOk, SlotsOk
<1>2. PICK s \in Slots : s = ofile[p] /\ s # RootSlot /\ inode[s].ino # 0 /\ inode[s].blk = 0
  BY <1>1 DEF FsInv, FsOk
<1>3. PICK b \in Blocks \cup {0} : b = NextBlock /\ b \notin zmap
  <2>1. Blocks \ zmap \in SUBSET Nat /\ 0 \notin zmap
    BY InodeAssumption DEF DiskTyped
  <2>2. Blocks \ zmap # {} => Min(Blocks \ zmap) \in Blocks \ zmap
    BY <2>1, Lowest
  <2>3. NextBlock \in Blocks \cup {0} /\ NextBlock \notin zmap
    BY <2>1, <2>2 DEF NextBlock
  <2> QED BY <2>3
<1>4. /\ OthersCalls(p) /\ pc'[p] = "io"
      /\ zmap' = zmap \cup ({b} \ {0}) /\ inode' = [inode EXCEPT ![s] = GotBlock(@)] /\ UNCHANGED <<dinode, imap, dir>>
  BY <1>1, <1>2, <1>3, CallsAre DEF Balloc, Bread, OthersCalls
<1>5. /\ inode'[s].ino = inode[s].ino /\ inode'[s].links = inode[s].links /\ inode'[s].blk = b
      /\ "I_DIRTY" \in inode'[s].flags
      /\ \A t \in Slots : t # s => inode'[t] = inode[t]
  <2>1. PICK x \in InodeRec : x = inode[s]
    BY <1>2
  <2>2. PICK y : y = [x EXCEPT !.blk = b]
    OBVIOUS
  <2>3. y \in InodeRec /\ y.ino = x.ino /\ y.links = x.links /\ y.blk = b
    <3> HIDE Given
    <3> QED BY <1>3, <2>2 DEF InodeRec
  <2>4. Dirty(y).ino = y.ino /\ Dirty(y).links = y.links /\ Dirty(y).blk = y.blk /\ "I_DIRTY" \in Dirty(y).flags
    <3> HIDE Given
    <3>1. Dirty(y).blk = y.blk
      BY <2>3, Contents
    <3>2. Dirty(y).ino = y.ino /\ Dirty(y).links = y.links /\ Dirty(y).flags = y.flags \cup {"I_DIRTY"}
      BY <2>3, Fields
    <3> QED BY <3>1, <3>2
  <2>5. inode' = [inode EXCEPT ![s] = Dirty(y)]
    BY <1>3, <1>4, <2>1, <2>2 DEF GotBlock
  <2> QED BY <2>1, <2>3, <2>4, <2>5
<1>6. Changes(p, s)
  <2>1. s \in Locks(p)
    BY <1>1, <1>2 DEF Locks
  <2>2. ~FreedByOther(p, s)
    BY <1>2, InUse, OwnEntry
  <2> QED BY <1>1, <1>2, <1>4, <1>5, <2>1, <2>2 DEF Changes, SameContents
<1>7. PICK m \in Inos : m = inode[s].ino
  BY <1>6, ContentChanged
<1>8. /\ Content(m).blk = 0 /\ Content(m)'.blk = b /\ Content(m)'.links = Content(m).links
      /\ \A n \in Inos : n # m => Content(n)' = Content(n)
  <2>1. Content(m) = Written(s) /\ \A n \in Inos : n # m => Content(n)' = Content(n)
    BY <1>6, <1>7, ContentChanged
  <2>2. Content(m)' = Written(s)'
    <3>1. ~Loading(s)
      BY <1>6, ContentChanged
    <3>2. ~Loading(s)' /\ inode'[s].ino = m
      BY <1>4, <1>5, <1>7, <3>1 DEF Loading, OthersCalls
    <3> QED BY <3>2, ContentBecomes
  <2> QED BY <1>2, <1>5, <2>1, <2>2 DEF Written
<1>9. inode[s].ino \in imap
  <2>1. inode[s].ref > 0
    BY <1>2, InUse
  <2>2. m \notin imap => inode[s].ref = 0
    BY <1>2, <1>7 DEF FsInv, FreeIsEmpty
  <2> QED BY <1>7, <2>1, <2>2
<1>10. SameUnlink(p)
  BY <1>1, <1>4 DEF SameUnlink, TakesLink, InIget
<1>11. LinksAre'
  <2>1. \A n \in Inos : Content(n)'.links = Content(n).links
    BY <1>8
  <2> QED BY <1>4, <1>10, <2>1, LinksSame
<1>12. BlocksAre'
  <2>1. BlocksAre
    BY DEF FsInv
  <2>2. IsFiniteSet(zmap')
    <3>1. IsFiniteSet(zmap \cup {b})
      BY <2>1, FS_AddElement DEF BlocksAre
    <3> QED BY <1>4, <3>1, FS_Subset
  <2>3. \A n \in Inos : Content(n).blk = b => b = 0
    BY <1>3, <2>1 DEF BlocksAre
  <2>4. ASSUME NEW c \in Blocks PROVE c \in zmap' <=> \E n \in Inos : Content(n)'.blk = c
    <3>1. c # 0
      BY InodeAssumption
    <3>2. c \in zmap <=> \E n \in Inos : Content(n).blk = c
      BY <2>1 DEF BlocksAre
    <3> QED BY <1>4, <1>8, <2>3, <3>1, <3>2
  <2>5. \A n, k \in Inos : Content(n)'.blk = Content(k)'.blk /\ Content(n)'.blk # 0 => n = k
    BY <1>8, <2>1, <2>3 DEF BlocksAre
  <2> QED BY <2>2, <2>4, <2>5 DEF BlocksAre
<1>13. FsOk(p)'
  BY <1>4, Rests DEF Resting
<1> QED BY <1>1, <1>2, <1>4, <1>5, <1>6, <1>9, <1>11, <1>12, <1>13, ChangeFs

(* The directory, unlocked and put, has the same contents.                  *)
LEMMA DirPut ==
    ASSUME NEW y \in InodeRec, y.ref > 0
    PROVE  /\ Put(Unlock(y)) \in InodeRec /\ Put(Unlock(y)).ino = y.ino /\ Put(Unlock(y)).links = y.links
           /\ Put(Unlock(y)).blk = y.blk /\ ("I_DIRTY" \in y.flags => "I_DIRTY" \in Put(Unlock(y)).flags)
<1>1. PICK u : u = Unlock(y)
  OBVIOUS
<1>2. /\ u \in InodeRec /\ u.ref > 0 /\ u.ino = y.ino /\ u.links = y.links
      /\ u.flags = y.flags \ {"I_LOCK", "I_WANTED"}
  BY <1>1, Fields
<1>3. u.blk = y.blk
  BY <1>1, Contents
<1>4. Put(u) \in InodeRec /\ Put(u).ino = u.ino /\ Put(u).links = u.links /\ Put(u).flags = u.flags
  BY <1>2, Fields
<1>5. Put(u).blk = u.blk
  BY <1>2, Contents
<1> QED BY <1>1, <1>2, <1>3, <1>4, <1>5

(* The inode s gets or loses a link, is marked, and the directory is put.   *)
Relinks(p, s, z) ==
    /\ s # RootSlot /\ z.ino = inode[s].ino /\ z.blk = inode[s].blk
    /\ \E r : /\ r = Unlock(Dirty(z)) \/ r = Dirty(Lock(z))
              /\ inode' = [inode EXCEPT ![s] = r, ![RootSlot] = Put(Unlock(inode[RootSlot]))]
    /\ inode[RootSlot].ref > 0
    /\ Runs(p) /\ OthersCalls(p) /\ pc[p] # "load" /\ pc'[p] # "load" /\ UNCHANGED <<dinode, imap>>
    /\ inode[s].ino # 0 /\ (s \in Locks(p) \/ ~Is(s, "I_LOCK")) /\ ~FreedByOther(p, s)

(* The other entries keep their marks and references, but for the directory *)
OthersKept(s) ==
    \A t \in Slots : t # s =>
        /\ "I_DIRTY" \in inode[t].flags => "I_DIRTY" \in inode'[t].flags
        /\ t = RootSlot \/ inode'[t].ref = inode[t].ref

(* That changes the inode s, and nothing of the others.                     *)
LEMMA LinkChanged ==
    ASSUME IndInv, IndInv', NEW p \in Procs, NEW s \in Slots, NEW z \in InodeRec, Relinks(p, s, z)
    PROVE  /\ Changes(p, s) /\ inode'[s].links = z.links /\ inode'[s].blk = inode[s].blk
           /\ inode'[s].ino = inode[s].ino /\ "I_DIRTY" \in inode'[s].flags /\ OthersKept(s)
<1>a. PICK r : /\ r = Unlock(Dirty(z)) \/ r = Dirty(Lock(z))
               /\ inode' = [inode EXCEPT ![s] = r, ![RootSlot] = Put(Unlock(inode[RootSlot]))]
  BY DEF Relinks
<1>b. s # RootSlot /\ z.ino = inode[s].ino /\ z.blk = inode[s].blk /\ inode[RootSlot].ref > 0
  BY DEF Relinks
<1>1. PICK y \in InodeRec : y = inode[RootSlot] /\ RootSlot \in Slots
  BY Given
<1>2. PICK q : q = Put(Unlock(y))
  OBVIOUS
<1>3. /\ q \in InodeRec /\ q.ino = y.ino /\ q.links = y.links /\ q.blk = y.blk
      /\ "I_DIRTY" \in y.flags => "I_DIRTY" \in q.flags
  BY <1>b, <1>1, <1>2, DirPut
<1>4. r \in InodeRec /\ r.ino = z.ino /\ r.links = z.links /\ r.blk = z.blk /\ "I_DIRTY" \in r.flags
  <2>1. CASE r = Unlock(Dirty(z))
    <3>1. PICK u : u = Dirty(z)
      OBVIOUS
    <3>2. u \in InodeRec /\ u.ino = z.ino /\ u.links = z.links /\ u.flags = z.flags \cup {"I_DIRTY"}
      BY <3>1, Fields
    <3>3. u.blk = z.blk
      BY <3>1, Contents
    <3>4. /\ Unlock(u) \in InodeRec /\ Unlock(u).ino = u.ino /\ Unlock(u).links = u.links
          /\ Unlock(u).flags = u.flags \ {"I_LOCK", "I_WANTED"}
      BY <3>2, Fields
    <3>5. Unlock(u).blk = u.blk
      BY <3>2, Contents
    <3> QED BY <2>1, <3>1, <3>2, <3>3, <3>4, <3>5
  <2>2. CASE r = Dirty(Lock(z))
    <3>1. PICK u : u = Lock(z)
      OBVIOUS
    <3>2. u \in InodeRec /\ u.ino = z.ino /\ u.links = z.links
      BY <3>1, Fields
    <3>3. u.blk = z.blk
      BY <3>1, Contents
    <3>4. /\ Dirty(u) \in InodeRec /\ Dirty(u).ino = u.ino /\ Dirty(u).links = u.links
          /\ Dirty(u).flags = u.flags \cup {"I_DIRTY"}
      BY <3>2, Fields
    <3>5. Dirty(u).blk = u.blk
      BY <3>2, Contents
    <3> QED BY <2>2, <3>1, <3>2, <3>3, <3>4, <3>5
  <2> QED BY <1>a, <2>1, <2>2
<1>5. inode'[s] = r /\ inode'[RootSlot] = q /\ \A t \in Slots : t # s /\ t # RootSlot => inode'[t] = inode[t]
  <2>1. inode' = [inode EXCEPT ![s] = r, ![RootSlot] = q]
    BY <1>a, <1>1, <1>2
  <2>2. TypeOK /\ inode \in [Slots -> InodeRec]
    BY Typed DEF IndInv
  <2> QED BY <1>b, <1>1, <2>1, <2>2
<1>6. ASSUME NEW t \in Slots, t # s
      PROVE  /\ SameContents(t) /\ ("I_DIRTY" \in inode[t].flags => "I_DIRTY" \in inode'[t].flags)
             /\ t = RootSlot \/ inode'[t].ref = inode[t].ref
  <2>1. CASE t = RootSlot
    BY <1>1, <1>3, <1>5, <2>1 DEF SameContents
  <2>2. CASE t # RootSlot
    BY <1>5, <1>6, <2>2 DEF SameContents
  <2> QED BY <2>1, <2>2
<1>7. Changes(p, s)
  BY <1>b, <1>4, <1>5, <1>6 DEF Changes, Relinks
<1> QED BY <1>b, <1>4, <1>5, <1>6, <1>7 DEF OthersKept

(* What becomes of the contents: one inode has more links or fewer.         *)
LEMMA LinkContents ==
    ASSUME IndInv, IndInv', NEW p \in Procs, NEW s \in Slots, Changes(p, s), inode'[s].blk = inode[s].blk,
           NEW m \in Inos, m = inode[s].ino
    PROVE  /\ Content(m).links = inode[s].links /\ Content(m)'.links = inode'[s].links
           /\ \A n \in Inos : Content(n)'.blk = Content(n).blk
           /\ \A n \in Inos : n # m => Content(n)'.links = Content(n).links
<1>1. /\ Content(m) = Written(s) /\ ~Loading(s)
      /\ \A n \in Inos : n # m => Content(n)' = Content(n)
  BY ContentChanged
<1>2. Content(m)' = Written(s)'
  <2>1. ~Loading(s)' /\ inode'[s].ino = m
    BY <1>1 DEF Loading, OthersCalls, Changes
  <2> QED BY <2>1, ContentBecomes
<1> QED BY <1>1, <1>2 DEF Written

(* wdir() has written the entry of the new inode, which has one link now.   *)
LEMMA WdirFs == ASSUME IndInv, IndInv', FsInv, Steady, NEW p \in Procs, Wdir(p) PROVE FsInv'
<1> USE Given
<1>1. /\ Runs(p) /\ pc[p] = "wdir" /\ call[p].s \in Slots /\ call[p].s # RootSlot
      /\ call[p].n \in Inos \ {ROOT_INODE} /\ HoldsInode(p) /\ inode[RootSlot].ref > 0
  BY RootReferenced DEF Wdir, At, SlotsOk, HoldsInode
<1>2. PICK s \in Slots, m \in Inos \ {ROOT_INODE} : s = call[p].s /\ s # RootSlot /\ m = call[p].n
  BY <1>1
<1>3. inode[s].ino = m /\ inode[s].links = 0 /\ m # 0
  <2>1. Written(s) = Zero /\ inode[s].ino = m
    BY <1>1, <1>2 DEF FsInv, FsOk
  <2> QED BY <1>2, <2>1, InodeAssumption DEF Written, Zero
<1>4. /\ OthersCalls(p) /\ pc'[p] = "access" /\ call'[p] = call[p]
      /\ dinode' = dinode /\ imap' = imap /\ zmap' = zmap /\ dir' = dir \cup {<<call[p].name, m>>}
  BY <1>1, <1>2, CallsAre DEF Wdir, Go, OthersCalls
<1>5. PICK z : z = Link(inode[s])
  OBVIOUS
<1>6. z \in InodeRec /\ z.ino = inode[s].ino /\ z.blk = inode[s].blk /\ z.flags = inode[s].flags /\ z.links = 1
  <2>1. PICK x \in InodeRec : x = inode[s] /\ x.links = 0
    BY <1>2, <1>3
  <2> HIDE Given
  <2>2. z = [x EXCEPT !.links = 1]
    BY <1>5, <2>1 DEF Link, InodeRec
  <2> QED BY <2>1, <2>2 DEF InodeRec
<1>7. inode' = [inode EXCEPT ![s] = Unlock(Dirty(z)), ![RootSlot] = Put(Unlock(inode[RootSlot]))]
  BY <1>2, <1>5 DEF Wdir
<1>8. s \in Locks(p)
  BY <1>1, <1>2 DEF Locks
<1>9. /\ Changes(p, s) /\ inode'[s].links = 1 /\ inode'[s].blk = inode[s].blk /\ "I_DIRTY" \in inode'[s].flags
      /\ OthersKept(s)
  <2>1. \E r : /\ r = Unlock(Dirty(z)) \/ r = Dirty(Lock(z))
               /\ inode' = [inode EXCEPT ![s] = r, ![RootSlot] = Put(Unlock(inode[RootSlot]))]
    BY <1>7
  <2>2. ~FreedByOther(p, s)
    BY <1>1, <1>2, InUse, OwnEntry
  <2> HIDE Given
  <2>3. Relinks(p, s, z)
    BY <1>1, <1>2, <1>3, <1>4, <1>6, <1>8, <2>1, <2>2 DEF Relinks
  <2> QED BY <1>6, <2>3, LinkChanged
<1>10. /\ Content(m).links = 0 /\ Content(m)'.links = 1
       /\ \A n \in Inos : Content(n)'.blk = Content(n).blk
       /\ \A n \in Inos : n # m => Content(n)'.links = Content(n).links
  BY <1>2, <1>3, <1>9, LinkContents
<1>11. inode[s].ino \in imap
  <2>1. inode[s].ref > 0
    BY <1>1, <1>2, InUse
  <2>2. m \notin imap => inode[s].ref = 0
    BY <1>2, <1>3 DEF FsInv, FreeIsEmpty
  <2> QED BY <1>2, <1>3, <2>1, <2>2
<1>12. BlocksAre'
  BY <1>4, <1>10, BlocksSame
<1>13. SameUnlink(p)
  BY <1>1, <1>4 DEF SameUnlink, TakesLink, InIget
<1>14. LinksAre'
  <2>1. IsFiniteSet(dir) /\ IsFiniteSet(dir')
    BY <1>4, FS_AddElement DEF FsInv, LinksAre
  <2>2. ASSUME NEW n \in Inos \ {ROOT_INODE}
        PROVE  Content(n)'.links = Cardinality(Entries(n)') + Cardinality(Unlinking(n)')
    <3>1. Content(n).links = Cardinality(Entries(n)) + Cardinality(Unlinking(n))
      BY DEF FsInv, LinksAre
    <3>2. Unlinking(n)' = Unlinking(n)
      BY <1>4, <1>13, UnlinkingSame
    <3>3. IsFiniteSet(Entries(n)) /\ Cardinality(Entries(n)) \in Nat /\ Cardinality(Unlinking(n)) \in Nat
      <4>1. IsFiniteSet(Entries(n)) /\ IsFiniteSet(Unlinking(n))
        BY <2>1, FS_Subset, InodeAssumption DEF Entries, Unlinking
      <4> QED BY <4>1, FS_CardinalityType
    <3>4. CASE n = m
      <4>1. PICK E, e : E = Entries(n) /\ e = <<call[p].name, m>>
        OBVIOUS
      <4>2. Cardinality(E) = 0 /\ Cardinality(Unlinking(n)) = 0
        BY <1>10, <3>1, <3>3, <3>4, <4>1
      <4>3. E = {}
        BY <3>3, <4>1, <4>2, FS_EmptySet
      <4>4. Entries(n)' = E \cup {e}
        BY <1>4, <3>4, <4>1 DEF Entries
      <4>5. Cardinality(E \cup {e}) = Cardinality(E) + 1
        BY <3>3, <4>1, <4>3, FS_AddElement
      <4> QED BY <1>10, <3>2, <3>4, <4>2, <4>4, <4>5
    <3>5. CASE n # m
      <4>1. Entries(n)' = Entries(n)
        BY <1>4, <3>5 DEF Entries
      <4> QED BY <1>10, <3>1, <3>2, <3>5, <4>1
    <3> QED BY <3>4, <3>5
  <2> QED BY <2>1, <2>2 DEF LinksAre
<1>15. FsOk(p)'
  BY <1>4, Rests DEF Resting
<1> HIDE Given
<1> QED BY <1>1, <1>9, <1>11, <1>12, <1>14, <1>15, ChangeFs DEF OthersKept

(* unlink() has taken the link of the entry it cleared.                     *)
LEMMA UnlinkedFs == ASSUME IndInv, IndInv', FsInv, Steady, NEW p \in Procs, Unlinked(p) PROVE FsInv'
<1> USE Given
<1>1. /\ Runs(p) /\ pc[p] = "unlinked" /\ call[p].s \in Slots /\ call[p].s # RootSlot /\ ~Is(call[p].s, "I_LOCK")
      /\ HoldsInode(p) /\ inode[RootSlot].ref > 0 /\ inode[call[p].s].links # 0 /\ inode[call[p].s].ino # 0
  BY RootReferenced DEF Unlinked, At, Panics, SlotsOk, HoldsInode
<1>2. PICK s \in Slots : s = call[p].s /\ s # RootSlot
  BY <1>1
<1>3. PICK m \in Inos : m = inode[s].ino /\ m = call[p].n
  <2>1. inode[s].ino = call[p].n
    BY <1>1, <1>2 DEF FsInv, FsOk
  <2> QED BY <1>1, <1>2, <2>1 DEF InodeRec
<1>4. PICK k \in Nat : inode[s].links = k + 1
  <2>1. inode[s].links \in Nat /\ inode[s].links # 0
    BY <1>1, <1>2 DEF InodeRec
  <2>2. inode[s].links - 1 \in Nat /\ inode[s].links = (inode[s].links - 1) + 1
    BY <2>1
  <2> QED BY <2>2
<1>5. /\ OthersCalls(p) /\ pc'[p] = "upd_unlink" /\ call'[p].s = s /\ call'[p].n = m
      /\ dinode' = dinode /\ imap' = imap /\ zmap' = zmap /\ dir' = dir
  BY <1>1, <1>2, <1>3, CallsAre DEF Unlinked, Bread, OthersCalls, CallRec, disk
<1>6. PICK z : z = Unlink(inode[s])
  OBVIOUS
<1>7. z \in InodeRec /\ z.ino = inode[s].ino /\ z.blk = inode[s].blk /\ z.flags = inode[s].flags /\ z.links = k
  <2>1. PICK x \in InodeRec : x = inode[s] /\ x.links = k + 1
    BY <1>2, <1>4
  <2> HIDE Given
  <2>2. z = [x EXCEPT !.links = k]
    BY <1>6, <2>1 DEF Unlink, InodeRec
  <2> QED BY <2>1, <2>2 DEF InodeRec
<1>8. inode' = [inode EXCEPT ![s] = Dirty(Lock(z)), ![RootSlot] = Put(Unlock(inode[RootSlot]))]
  BY <1>2, <1>6 DEF Unlinked, ParentPut
<1>9. /\ Changes(p, s) /\ inode'[s].links = k /\ inode'[s].blk = inode[s].blk /\ "I_DIRTY" \in inode'[s].flags
      /\ inode'[s].ino = m
      /\ OthersKept(s)
  <2>1. \E r : /\ r = Unlock(Dirty(z)) \/ r = Dirty(Lock(z))
               /\ inode' = [inode EXCEPT ![s] = r, ![RootSlot] = Put(Unlock(inode[RootSlot]))]
    BY <1>8
  <2>2. ~FreedByOther(p, s)
    BY <1>1, <1>2, InUse, OwnEntry
  <2> HIDE Given
  <2>3. Relinks(p, s, z)
    BY <1>1, <1>2, <1>3, <1>5, <1>7, <2>1, <2>2 DEF Relinks
  <2> QED BY <1>3, <1>7, <2>3, LinkChanged
<1>10. /\ Content(m).links = k + 1 /\ Content(m)'.links = k
       /\ \A n \in Inos : Content(n)'.blk = Content(n).blk
       /\ \A n \in Inos : n # m => Content(n)'.links = Content(n).links
  BY <1>3, <1>4, <1>9, LinkContents
<1>11. inode[s].ino \in imap
  <2>1. inode[s].ref > 0
    BY <1>1, <1>2, InUse
  <2>2. m \notin imap => inode[s].ref = 0
    BY <1>2, <1>3 DEF FsInv, FreeIsEmpty
  <2> QED BY <1>3, <2>1, <2>2
<1>12. BlocksAre'
  BY <1>5, <1>10, BlocksSame
<1>13. LinksAre'
  <2>1. ASSUME NEW n \in Inos \ {ROOT_INODE}
        PROVE  Content(n)'.links = Cardinality(Entries(n)') + Cardinality(Unlinking(n)')
    <3>1. Content(n).links = Cardinality(Entries(n)) + Cardinality(Unlinking(n))
      BY DEF FsInv, LinksAre
    <3>2. Entries(n)' = Entries(n) /\ Cardinality(Entries(n)) \in Nat
      <4>1. IsFiniteSet(Entries(n))
        BY FS_Subset DEF Entries, FsInv, LinksAre
      <4> QED BY <1>5, <4>1, FS_CardinalityType DEF Entries
    <3>3. \A q \in Procs : q # p => (q \in Unlinking(n)' <=> q \in Unlinking(n))
      BY <1>5 DEF OthersCalls, Unlinking, InIget
    <3>4. (p \in Unlinking(n) <=> n = m) /\ p \notin Unlinking(n)'
      BY <1>1, <1>3, <1>5 DEF Unlinking, InIget
    <3>5. /\ Cardinality(Unlinking(n)) \in Nat /\ Cardinality(Unlinking(n)') \in Nat
          /\ Cardinality(Unlinking(n)') = Cardinality(Unlinking(n)) - IF n = m THEN 1 ELSE 0
      <4>1. Unlinking(n) \in SUBSET Procs /\ Unlinking(n)' \in SUBSET Procs
        BY DEF Unlinking
      <4>2. PICK A \in SUBSET Procs, B \in SUBSET Procs : A = Unlinking(n) /\ B = Unlinking(n)'
        BY <4>1
      <4>3. /\ Cardinality(A) \in Nat /\ Cardinality(B) \in Nat
            /\ Cardinality(B) = Cardinality(A) + (IF p \in B THEN 1 ELSE 0) - (IF p \in A THEN 1 ELSE 0)
        BY <3>3, <4>2, OneDiffers
      <4> QED BY <3>4, <4>2, <4>3
    <3> QED BY <1>4, <1>10, <3>1, <3>2, <3>5
  <2> QED BY <1>5, <2>1 DEF LinksAre, FsInv
<1>14. FsOk(p)'
  BY <1>5, <1>9 DEF FsOk, Freeing
<1> HIDE Given
<1> QED BY <1>1, <1>9, <1>11, <1>12, <1>13, <1>14, ChangeFs DEF OthersKept

-----------------------------------------------------------------------------
(* panic(), and steps of nobody.                                            *)
LEMMA UnchangedFs ==
    ASSUME FsInv, UNCHANGED <<inode, disk, pc, call, ofile, busy>>
    PROVE  FsInv'
<1>1. dinode' = dinode /\ imap' = imap /\ zmap' = zmap /\ dir' = dir
  BY DEF disk
<1>2. \A n : Content(n)' = Content(n) /\ Unlinking(n)' = Unlinking(n) /\ Entries(n)' = Entries(n)
  BY <1>1 DEF Content, Valid, Cached, Written, Unlinking, InIget, Entries
<1>3. ASSUME NEW p \in Procs PROVE FsOk(p)'
  <2>1. FsOk(p)
    BY DEF FsInv
  <2>2. Content(call[p].n)' = Content(call[p].n) /\ Written(call[p].s)' = Written(call[p].s)
    BY <1>1 DEF Content, Valid, Cached, Written
  <2>3. Freeing(p)' <=> Freeing(p)
    BY DEF Freeing
  <2> QED BY <1>1, <2>1, <2>2, <2>3 DEF FsOk, Zero, Is
<1>4. CleanOrWorked'
  BY <1>1 DEF FsInv, CleanOrWorked, Is, Worked, Written
<1>5. FreeIsEmpty'
  BY <1>1, <1>2 DEF FsInv, FreeIsEmpty, Zero
<1>6. LinksAre' /\ BlocksAre'
  BY <1>1, <1>2 DEF FsInv, LinksAre, BlocksAre
<1> QED BY <1>3, <1>4, <1>5, <1>6 DEF FsInv

(* The file system as it is mounted: the root directory, and nothing else.  *)
LEMMA InitFs == Init => FsInv
<1> SUFFICES ASSUME Init PROVE FsInv
  OBVIOUS
<1>1. IndInv
  BY InitInv
<1>2. /\ \A p \in Procs : pc[p] = "user"
      /\ imap = {ROOT_INODE} /\ zmap = {} /\ dir = {}
      /\ \A s \in Slots : s # RootSlot => inode[s].ino = 0
      /\ inode[RootSlot].ino = ROOT_INODE /\ inode[RootSlot].links = 2 /\ inode[RootSlot].blk = 0
      /\ RootSlot \in Slots /\ ROOT_INODE # 0
  BY InodeAssumption DEF Init, Slots, RootSlot, ROOT_INODE
<1>3. dinode[ROOT_INODE] = [links |-> 2, blk |-> 0] /\ \A n \in Inos \ {ROOT_INODE} : dinode[n] = Zero
  BY InodeAssumption DEF Init, Zero
<1>4. \A t : ~Loading(t) /\ ~Worked(t)
  BY <1>2 DEF Loading, Worked
<1>5. Content(ROOT_INODE).blk = 0
  <2>1. Content(ROOT_INODE) = Written(RootSlot)
    BY <1>1, <1>2, <1>4, ContentIs, InodeAssumption
  <2> QED BY <1>2, <2>1 DEF Written
<1>6. ASSUME NEW n \in Inos \ {ROOT_INODE} PROVE Content(n) = Zero /\ \A t \in Slots : inode[t].ino # n
  <2>1. \A t \in Slots : inode[t].ino # n
    BY <1>2, InodeAssumption
  <2> QED BY <1>1, <1>3, <2>1, ContentIs
<1>7. \A p \in Procs : FsOk(p)
  BY <1>2 DEF FsOk, Freeing
<1>8. CleanOrWorked
  BY <1>2, <1>3 DEF CleanOrWorked, Written
<1>9. FreeIsEmpty
  BY <1>2, <1>6 DEF FreeIsEmpty
<1>10. LinksAre
  <2>1. IsFiniteSet(dir) /\ Cardinality({}) = 0
    BY <1>2, FS_EmptySet
  <2>2. \A n : Entries(n) = {} /\ Unlinking(n) = {}
    BY <1>2 DEF Entries, Unlinking, InIget
  <2> QED BY <1>6, <2>1, <2>2 DEF LinksAre, Zero
<1>11. BlocksAre
  <2>1. \A n \in Inos : Content(n).blk = 0
    BY <1>5, <1>6 DEF Zero
  <2> QED BY <1>2, <2>1, FS_EmptySet, InodeAssumption DEF BlocksAre
<1> QED BY <1>7, <1>8, <1>9, <1>10, <1>11 DEF FsInv

(* What the kernel does keeps the invariant ...                             *)
LEMMA KernelFs == ASSUME IndInv, IndInv', FsInv, Steady, NEW p \in Procs, ~GivesFreed(p), Kernel(p) PROVE FsInv'
<1>1. CASE IgetSleep(p) \/ IgetHit(p) \/ IgetMiss(p) \/ Load(p)
  BY <1>1, IgetSleepFs, IgetHitFs, IgetMissFs, LoadFs
<1>2. CASE Iput(p) \/ TruncBlock(p) \/ Bfree(p) \/ TruncUpdate(p) \/ TruncReturn(p) \/ Ifree(p) \/ FreeReturn(p)
  BY <1>2, IputFs, TruncBlockFs, BfreeFs, TruncUpdateFs, TruncReturnFs, IfreeFs, FreeReturnFs
<1>3. CASE FileCreat(p) \/ LockDir(p) \/ LookupDenied(p) \/ NotFound(p)
  BY <1>3, FileCreatFs, LockDirFs, LookupDeniedFs, NotFoundFs
<1>4. CASE \E n \in Inos : Found(p, n) \/ UnlinkEntry(p, n)
  BY <1>4, FoundFs, UnlinkEntryFs
<1>5. CASE PutNext(p) \/ NameiReturn(p) \/ OpenDenied(p) \/ OpenGranted(p) \/ ParentDenied(p) \/ ParentGranted(p)
  BY <1>5, PutNextFs, NameiReturnFs, OpenDeniedFs, OpenGrantedFs, ParentDeniedFs, ParentGrantedFs
<1>6. CASE Ialloc(p) \/ NewInode(p) \/ Wdir(p) \/ UnlinkLock(p) \/ UnlinkNoEntry(p) \/ Unlinked(p) \/ UnlinkReturn(p)
  BY <1>6, IallocFs, NewInodeFs, WdirFs, UnlinkLockFs, UnlinkNoEntryFs, UnlinkedFs, UnlinkReturnFs
<1>7. CASE LockRead(p) \/ LockWrite(p) \/ Balloc(p) \/ IoReturn(p)
  BY <1>7, LockReadFs, LockWriteFs, BallocFs, IoReturnFs
<1> QED BY <1>1, <1>2, <1>3, <1>4, <1>5, <1>6, <1>7 DEF Kernel

(* ... and so does every step but a race.                                   *)
LEMMA NextFs == ASSUME IndInv, IndInv', FsInv, ~raced', [Next]_vars PROVE FsInv'
<1>0. raced \in BOOLEAN
  BY DEF IndInv, TypeOK
<1>1. CASE Next
  <2>0. Steady
    BY <1>0, <1>1, Stepped
  <2>1. PICK p \in Procs : (Kernel(p) \/ User(p) \/ Panic(p)) /\ ~GivesFreed(p)
    BY <1>0, <1>1, Stepped
  <2>2. CASE Kernel(p)
    BY <2>0, <2>1, <2>2, KernelFs
  <2>3. CASE User(p)
    BY <2>0, <2>3, BeginFs, BeginFileFs DEF User
  <2>4. CASE Panic(p)
    BY <2>4, UnchangedFs DEF Panic
  <2> QED BY <2>1, <2>2, <2>3, <2>4
<1>2. CASE UNCHANGED vars
  BY <1>2, UnchangedFs DEF vars
<1> QED BY <1>1, <1>2

(* Both invariants hold until the race.                                     *)
RacedFs == raced \in BOOLEAN /\ (~raced => IndInv /\ FsInv)

(* They do in every state.                                                  *)
THEOREM FsInvariance == Spec => []RacedFs
<1>1. Init => RacedFs
  BY InitInv, InitFs DEF RacedFs, IndInv, TypeOK
<1>2. RacedFs /\ [Next]_vars => RacedFs'
  <2> SUFFICES ASSUME RacedFs, [Next]_vars PROVE RacedFs'
    OBVIOUS
  <2>1. raced' \in BOOLEAN /\ (raced => raced')
    <3>1. raced \in BOOLEAN
      BY DEF RacedFs
    <3>2. CASE Next
      BY <3>1, <3>2, Stepped DEF Steady
    <3>3. CASE UNCHANGED vars
      BY <3>1, <3>3 DEF vars
    <3> QED BY <3>2, <3>3
  <2>2. ASSUME ~raced' PROVE (IndInv /\ FsInv)'
    <3>1. IndInv /\ FsInv
      BY <2>1, <2>2 DEF RacedFs
    <3>2. IndInv'
      BY <2>2, <3>1, NextInv
    <3> QED BY <2>2, <3>1, <3>2, NextFs
  <2> QED BY <2>1, <2>2 DEF RacedFs
<1> QED BY <1>1, <1>2, PTL DEF Spec

(* An entry that iget() may take for another inode, as it is not locked and *)
(* not marked I_DIRTY, is on disk as it is in memory: no link and no block  *)
(* is forgotten when the entry is reused, until iget() gives out what       *)
(* iput() is freeing.                                                       *)
THEOREM OnDisk == Spec => []CleanIsOnDisk
<1>1. RacedFs => CleanIsOnDisk
  <2> SUFFICES ASSUME IndInv, FsInv, NEW s \in Slots, inode[s].ino # 0, inode[s].flags = {}
               PROVE  dinode[inode[s].ino] = Written(s)
    BY DEF CleanIsOnDisk, RacedFs
  <2>1. ~Worked(s)
    BY WorkedLocked DEF Is
  <2> QED BY <2>1 DEF FsInv, CleanOrWorked, Is
<1> QED BY <1>1, FsInvariance, PTL

(* i_nlinks is the number of names of the inode, less nothing but what an   *)
(* unlink() under way has still to take away, and an inode with a link is   *)
(* in use: no name leads to a free inode, until iget() gives out what       *)
(* iput() is freeing.                                                       *)
THEOREM LinkCounts == Spec => []LinksCounted
<1>1. RacedFs => LinksCounted
  <2> SUFFICES ASSUME FsInv, NEW n \in Inos \ {ROOT_INODE}
               PROVE  /\ Content(n).links = Cardinality({e \in dir : e[2] = n}) + Cardinality(Unlinking(n))
                      /\ Content(n).links > 0 => n \in imap
    BY DEF LinksCounted, RacedFs
  <2>1. Content(n).links = Cardinality({e \in dir : e[2] = n}) + Cardinality(Unlinking(n))
    BY DEF FsInv, LinksAre, Entries
  <2>2. n \notin imap => Content(n).links = 0
    BY DEF FsInv, FreeIsEmpty, Zero
  <2> QED BY <2>1, <2>2
<1> QED BY <1>1, FsInvariance, PTL

(* A block that is in use is marked in the bitmap and is in one inode, so   *)
(* that balloc() gives it to nobody else, and panic("bfree") is not reached *)
(* for a block that was freed before, until iget() gives out what iput() is *)
(* freeing.                                                                 *)
THEOREM BlockOwners == Spec => []BlocksOwned
<1>1. RacedFs => BlocksOwned
  <2> SUFFICES ASSUME IndInv, FsInv PROVE BlocksOwned
    BY DEF RacedFs, BlocksOwned
  <2> DEFINE owned == {<<n, Content(n).blk>> : n \in Inos}
             used == {o \in owned : o[2] # 0}
             block == [o \in used |-> o[2]]
  <2>1. BlocksAre /\ zmap \subseteq Blocks /\ 0 \notin Blocks
    BY InodeAssumption DEF FsInv, IndInv, TypeOK
  <2>2. \A n \in Inos : Content(n).blk \in Blocks \cup {0}
    <3> SUFFICES ASSUME NEW n \in Inos PROVE Content(n).blk \in Blocks \cup {0}
      OBVIOUS
    <3>1. CASE \A t \in Slots : inode[t].ino = n => Loading(t)
      <4>1. Content(n) = dinode[n]
        BY <3>1, ContentIs
      <4>2. dinode[n].blk \in Blocks \cup {0}
        BY DEF IndInv, TypeOK
      <4> QED BY <4>1, <4>2
    <3>2. CASE \E t \in Slots : inode[t].ino = n /\ ~Loading(t)
      <4>1. PICK t \in Slots : inode[t].ino = n /\ ~Loading(t)
        BY <3>2
      <4>2. Content(n) = Written(t)
        BY <4>1, ContentIs
      <4>3. inode[t].blk \in Blocks \cup {0}
        BY DEF IndInv, TypeOK
      <4> QED BY <4>2, <4>3 DEF Written
    <3> QED BY <3>1, <3>2
  <2>3. \A o \in owned : o[1] \in Inos /\ o[2] = Content(o[1]).blk /\ o = <<o[1], o[2]>>
    OBVIOUS
  <2>4. \A n \in Inos : <<n, Content(n).blk>> \in owned
    OBVIOUS
  <2> HIDE DEF owned
  <2>5. zmap = {o[2] : o \in owned} \ {0}
    <3>1. ASSUME NEW b \in zmap PROVE b \in {o[2] : o \in owned} \ {0}
      <4>1. PICK n \in Inos : Content(n).blk = b
        BY <2>1 DEF BlocksAre
      <4>2. <<n, b>> \in owned /\ b # 0
        BY <2>1, <2>4, <4>1
      <4> QED BY <4>2
    <3>2. ASSUME NEW o \in owned, o[2] # 0 PROVE o[2] \in zmap
      <4>1. o[1] \in Inos /\ Content(o[1]).blk = o[2]
        BY <2>3
      <4>2. o[2] \in Blocks
        BY <2>2, <3>2, <4>1
      <4> QED BY <2>1, <4>1, <4>2 DEF BlocksAre
    <3> QED BY <3>1, <3>2
  <2>6. block \in Bijection(used, zmap)
    <3>1. block \in [used -> zmap]
      BY <2>5
    <3>2. ASSUME NEW o \in used, NEW k \in used, block[o] = block[k] PROVE o = k
      <4>1. o \in owned /\ k \in owned /\ o[2] = k[2] /\ o[2] # 0
        BY <3>2
      <4>2. o[1] = k[1]
        BY <2>1, <2>3, <4>1 DEF BlocksAre
      <4> QED BY <2>3, <4>1, <4>2
    <3>3. \A b \in zmap : \E o \in used : block[o] = b
      BY <2>5
    <3> QED BY <3>1, <3>2, <3>3, Fun_IsBij
  <2>7. IsFiniteSet(zmap)
    BY <2>1 DEF BlocksAre
  <2>8. ExistsBijection(zmap, used)
    <3>1. ExistsBijection(used, zmap)
      BY <2>6 DEF ExistsBijection
    <3> QED BY <3>1, Fun_ExistsBijSymmetric
  <2>9. Cardinality(used) = Cardinality(zmap)
    BY <2>7, <2>8, FS_Bijection
  <2> QED BY <2>5, <2>9 DEF BlocksOwned, owned
<1> QED BY <1>1, FsInvariance, PTL
=============================================================================
