--------------------------- MODULE FileTableProofs ---------------------------
(***************************************************************************)
(* Proof that the counts of open files, inodes and writers are exact: for  *)
(* any number of processes, descriptors, pipes and inodes, as long as no   *)
(* program calls dup2(fd, fd).                                             *)
(***************************************************************************)
EXTENDS FileTable, FiniteSetTheorems, WellFoundedInduction, TLAPS

(* The descriptors and the open()s that the count of a file is of           *)
RefSet(f) == {pd \in Procs \X Fds : Holds(pd[1], pd[2]) /\ ofile[pd[1]][pd[2]] = f}
OpenSet(f) == {p \in Procs : pc[p] = "open" /\ at[p] = f}

(* A file is the end of a pipe exactly when it says so.                     *)
EndsTyped ==
    \A f \in Files : file[f].type = "FT_PIPE" <=> file[f].pipe # Null

(* What is known of a process that is in the middle of a system call: an    *)
(* open() has a file that is nobody else's and no pipe; close() and dup2()  *)
(* have descriptors, and the one to copy is open; iput() sleeps in          *)
(* file_close().                                                            *)
Calls ==
    \A p \in Procs :
        /\ pc[p] = "open" =>
             /\ at[p] \in Files /\ at[p] \notin lost /\ file[at[p]].pipe = Null
             /\ \A q \in Procs : pc[q] = "open" /\ at[q] = at[p] => q = p
        /\ pc[p] = "dup2" =>
             /\ arg[p][1] \in Fds /\ arg[p][2] \in Fds /\ arg[p][1] # arg[p][2]
             /\ ofile[p][arg[p][1]] # Null
        /\ pc[p] = "close" => arg[p][1] \in Fds
        /\ put[p] # Null => pc[p] \in {"close", "dup2", "exit"} /\ at[p] \in Files /\ busy # p

IndInv == TypeOK /\ RefsCounted /\ InodesReferenced /\ WritersCounted /\ EndsTyped /\ Calls

-----------------------------------------------------------------------------
(* The first entry of a table that is in a set: what file_alloc(),          *)
(* file_fd_alloc() and pipe_alloc() find.                                   *)
LEMMA FirstEntry ==
    ASSUME NEW n \in Int, NEW S \in SUBSET (0 .. n), S # {}
    PROVE  First(S) \in S /\ \A y \in S : First(S) =< y
<1>1. S \subseteq Nat
  OBVIOUS
<1> DEFINE Below == {ss \in Nat \X Nat : ss[1] < ss[2]}
<1>2. IsWellFoundedOn(Below, Nat)
  BY NatLessThanWellFounded DEF OpToRel
<1>3. \E x \in S : \A y \in S : ~(<<y, x>> \in Below)
  <2> HIDE DEF Below
  <2> QED BY <1>1, <1>2, WFMin
<1>4. PICK x \in S : \A y \in S : ~(<<y, x>> \in Below)
  BY <1>3
<1>5. ASSUME NEW y \in S PROVE x =< y
  <2>1. x \in Nat /\ y \in Nat
    BY <1>1
  <2>2. ~(y < x)
    BY <1>4, <2>1
  <2> QED BY <2>1, <2>2
<1> QED BY <1>5 DEF First, Min

(* The second entry is another one, if there are two.                       *)
LEMMA SecondEntry ==
    ASSUME NEW n \in Int, NEW S \in SUBSET (0 .. n), Cardinality(S) > 1
    PROVE  First(S) \in S /\ Second(S) \in S /\ First(S) # Second(S)
<1>1. IsFiniteSet(S)
  <2>1. 0 \in Int
    OBVIOUS
  <2>2. IsFiniteSet(0 .. n)
    BY <2>1, FS_Interval
  <2> QED BY <2>2, FS_Subset
<1>2. S # {}
  BY FS_EmptySet
<1>3. First(S) \in S
  BY <1>2, FirstEntry
<1> DEFINE T == S \ {First(S)}
<1>4. Cardinality(T) = Cardinality(S) - 1
  BY <1>1, <1>3, FS_RemoveElement
<1>5. Cardinality(S) \in Nat
  BY <1>1, FS_CardinalityType
<1>6. T # {}
  BY <1>4, <1>5, FS_EmptySet
<1>7. First(T) \in T
  BY <1>6, FirstEntry
<1>8. Second(S) = First(T)
  BY DEF Second, First
<1> QED BY <1>3, <1>7, <1>8

(* All the sets that are counted are finite.                                *)
LEMMA Finite ==
    /\ \A f : IsFiniteSet(RefSet(f)) /\ IsFiniteSet(OpenSet(f))
    /\ \A i : IsFiniteSet(OpenOn(i))
    /\ \A k, rw : IsFiniteSet(OpenEnds(k, rw))
    /\ IsFiniteSet(Live)
<1>1. NFILE - 1 \in Int /\ NOFILE - 1 \in Int /\ 0 \in Int
  BY FileAssumption
<1>2. IsFiniteSet(Fds) /\ IsFiniteSet(Files) /\ IsFiniteSet(Procs)
  BY <1>1, FS_Interval, FileAssumption DEF Fds, Files
<1>3. IsFiniteSet(Procs \X Fds)
  BY <1>2, FS_Product
<1>4. ASSUME NEW f PROVE IsFiniteSet(RefSet(f)) /\ IsFiniteSet(OpenSet(f))
  BY <1>2, <1>3, FS_Subset DEF RefSet, OpenSet
<1>5. ASSUME NEW i PROVE IsFiniteSet(OpenOn(i))
  BY <1>2, FS_Subset DEF OpenOn
<1>6. ASSUME NEW k, NEW rw PROVE IsFiniteSet(OpenEnds(k, rw))
  BY <1>2, FS_Subset DEF OpenEnds
<1>7. IsFiniteSet(Live)
  BY <1>2, FS_Subset DEF Live
<1> QED BY <1>4, <1>5, <1>6, <1>7

(* Counting: one element more, one less, none.                              *)
LEMMA Counting ==
    ASSUME NEW S, IsFiniteSet(S), NEW x
    PROVE  /\ Cardinality(S) \in Nat
           /\ Cardinality(S) = 0 <=> S = {}
           /\ x \notin S => Cardinality(S \cup {x}) = Cardinality(S) + 1
           /\ x \in S => Cardinality(S \ {x}) = Cardinality(S) - 1
BY FS_CardinalityType, FS_EmptySet, FS_AddElement, FS_RemoveElement

(* The references that an inode has for its open files.                     *)
Spare(i) == i_refcount[i] - Owed(i)

(* There is one for each of them.                                           *)
LEMMA SpareIs ==
    ASSUME TypeOK
    PROVE  /\ \A i \in Inodes : i_refcount[i] \in Int /\ Owed(i) \in Int /\ Spare(i) \in Int
           /\ InodesReferenced => \A i \in Inodes : Spare(i) >= Cardinality(OpenOn(i))
<1>1. Cardinality(Live) \in Nat /\ \A i : Cardinality(OpenOn(i)) \in Nat
  BY Finite, FS_CardinalityType
<1>2. \A i \in Inodes : i_refcount[i] \in Int /\ Owed(i) \in Int /\ Spare(i) \in Int
  BY <1>1 DEF TypeOK, Owed, Spare
<1>3. ASSUME InodesReferenced, NEW i \in Inodes PROVE Spare(i) >= Cardinality(OpenOn(i))
  <2>1. i_refcount[i] >= Cardinality(OpenOn(i)) + Owed(i)
    BY <1>3 DEF InodesReferenced
  <2> QED BY <1>1, <1>2, <2>1 DEF Spare
<1> QED BY <1>2, <1>3

(* And after a step.                                                        *)
LEMMA SpareAfter ==
    ASSUME i_refcount' \in [Inodes -> Int], overput' \in Nat,
           \A i \in Inodes : Spare(i)' >= Cardinality(OpenOn(i)')
    PROVE  InodesReferenced'
<1>1. Cardinality(Live') \in Nat /\ \A i : Cardinality(OpenOn(i)') \in Nat
  <2>1. NFILE - 1 \in Int /\ 0 \in Int
    BY FileAssumption
  <2>2. IsFiniteSet(Files) /\ IsFiniteSet(Procs)
    BY <2>1, FS_Interval, FileAssumption DEF Files
  <2>3. Live' \subseteq Procs /\ \A i : OpenOn(i)' \subseteq Files
    BY DEF Live, OpenOn
  <2> QED BY <2>2, <2>3, FS_Subset, FS_CardinalityType
<1>2. \A i \in Inodes : i_refcount'[i] \in Int /\ Owed(i)' \in Int
  BY <1>1 DEF Owed
<1>3. ASSUME NEW i \in Inodes PROVE i_refcount'[i] >= Cardinality(OpenOn(i)') + Owed(i)'
  <2>1. i_refcount'[i] - Owed(i)' >= Cardinality(OpenOn(i)')
    BY DEF Spare
  <2> QED BY <1>1, <1>2, <2>1
<1> QED BY <1>3 DEF InodesReferenced

(* No process begins or ends, and no open() fails.                          *)
LEMMA OwedSame ==
    ASSUME UNCHANGED overput, \A q \in Procs : pc'[q] = "none" <=> pc[q] = "none"
    PROVE  \A i : Owed(i)' = Owed(i)
<1>1. Live' = Live
  BY DEF Live
<1> QED BY <1>1 DEF Owed

(* And no inode is referenced.                                              *)
LEMMA SpareSame ==
    ASSUME UNCHANGED <<i_refcount, overput>>, \A q \in Procs : pc'[q] = "none" <=> pc[q] = "none"
    PROVE  \A i : Spare(i)' = Spare(i)
BY OwedSame DEF Spare

(* What RefsCounted says of one file.                                       *)
LEMMA RefsOf ==
    ASSUME RefsCounted, NEW f \in Files
    PROVE  /\ file[f].ref_count = Cardinality(RefSet(f)) + Cardinality(OpenSet(f)) + (IF f \in lost THEN 1 ELSE 0)
           /\ Cardinality(RefSet(f)) \in Nat /\ Cardinality(OpenSet(f)) \in Nat
           /\ file[f].ref_count = 0 <=> RefSet(f) = {} /\ OpenSet(f) = {} /\ f \notin lost
<1>1. file[f].ref_count = Cardinality(RefSet(f)) + Cardinality(OpenSet(f)) + (IF f \in lost THEN 1 ELSE 0)
  BY DEF RefsCounted, Refs, Opening, RefSet, OpenSet
<1>2. /\ Cardinality(RefSet(f)) \in Nat /\ Cardinality(OpenSet(f)) \in Nat
      /\ Cardinality(RefSet(f)) = 0 <=> RefSet(f) = {}
      /\ Cardinality(OpenSet(f)) = 0 <=> OpenSet(f) = {}
  BY Finite, Counting
<1> QED BY <1>1, <1>2

(* RefsCounted after a step, for each file in turn.                         *)
LEMMA RefsAfter ==
    ASSUME \A f \in Files :
             file'[f].ref_count = Cardinality(RefSet(f)') + Cardinality(OpenSet(f)') + (IF f \in lost' THEN 1 ELSE 0)
    PROVE  RefsCounted'
BY DEF RefsCounted, Refs, Opening, RefSet, OpenSet

(* A file that nothing happens to keeps its count.                          *)
LEMMA RefsSame ==
    ASSUME RefsCounted, NEW f \in Files, RefSet(f)' = RefSet(f), OpenSet(f)' = OpenSet(f),
           f \in lost' <=> f \in lost, file'[f].ref_count = file[f].ref_count
    PROVE  file'[f].ref_count = Cardinality(RefSet(f)') + Cardinality(OpenSet(f)') + (IF f \in lost' THEN 1 ELSE 0)
BY RefsOf

(* The descriptors that refer to a file after a step.                       *)
LEMMA RefSetAfter ==
    ASSUME NEW f, NEW T \in SUBSET (Procs \X Fds),
           \A q \in Procs, e \in Fds : (Holds(q, e)' /\ ofile'[q][e] = f) <=> <<q, e>> \in T
    PROVE  RefSet(f)' = T
BY DEF RefSet

(* A descriptor is counted when it is held.                                 *)
LEMMA RefPair ==
    ASSUME NEW f
    PROVE  /\ RefSet(f) \in SUBSET (Procs \X Fds)
           /\ \A q \in Procs, e \in Fds : <<q, e>> \in RefSet(f) <=> Holds(q, e) /\ ofile[q][e] = f
BY DEF RefSet

-----------------------------------------------------------------------------
(* At the start nothing is open.                                            *)
LEMMA InitInv == Init => IndInv
<1> SUFFICES ASSUME Init PROVE IndInv
  OBVIOUS
<1>0. NOFILE \in Nat /\ 0 \in 0 .. NOFILE
  BY FileAssumption
<1>1. file \in [Files -> {GivenBack}] /\ GivenBack = [ref_count |-> 0, type |-> "FT_INODE", inode |-> Null, pipe |-> Null, flags |-> "rd"]
  BY DEF Init, GivenBack, Allocated
<1>2. TypeOK
  BY <1>0, <1>1 DEF Init, TypeOK
<1>3. \A f \in Files : file[f].ref_count = 0 /\ file[f].pipe = Null /\ file[f].type = "FT_INODE"
  BY <1>1
<1>4. RefsCounted
  <2>1. \A f \in Files : RefSet(f) = {} /\ OpenSet(f) = {}
    BY DEF Init, RefSet, OpenSet, Holds
  <2>2. \A f \in Files : Refs(f) = 0 /\ Opening(f) = 0
    BY <2>1, FS_EmptySet DEF Refs, Opening, RefSet, OpenSet
  <2> QED BY <1>3, <2>2 DEF Init, RefsCounted
<1>5. InodesReferenced
  <2>1. \A i \in Inodes : OpenOn(i) = {}
    BY <1>3 DEF OpenOn
  <2>2. \A i \in Inodes : Cardinality(OpenOn(i)) = 0
    BY <2>1, FS_EmptySet
  <2>3. Cardinality(Live) = 1
    <3>1. PICK p \in Procs : pc = [q \in Procs |-> IF q = p THEN "user" ELSE "none"]
      BY DEF Init
    <3>2. Live = {p}
      BY <3>1 DEF Live
    <3> QED BY <3>2, FS_Singleton
  <2>4. \A i \in Inodes : i_refcount[i] = (IF i = Dir THEN 2 ELSE 0) /\ overput = 0
    BY DEF Init
  <2>5. \A i \in Inodes : Owed(i) = IF i = Dir THEN 2 ELSE 0
    BY <2>3, <2>4 DEF Owed
  <2> QED BY <2>2, <2>4, <2>5 DEF InodesReferenced
<1>6. WritersCounted
  <2>1. \A k \in Pipes : OpenEnds(k, "wr") = {}
    BY <1>3 DEF OpenEnds
  <2> QED BY <2>1, FS_EmptySet DEF Init, WritersCounted
<1>7. EndsTyped /\ Calls
  BY <1>3 DEF Init, EndsTyped, Calls
<1> QED BY <1>2, <1>4, <1>5, <1>6, <1>7 DEF IndInv

(* A struct file.                                                           *)
FileRec ==
    [ref_count : Nat, type : {"FT_INODE", "FT_PIPE"}, inode : Inodes \cup {Null},
     pipe : Pipes \cup {Null}, flags : {"rd", "wr"}]

(* Every entry of the table is one.                                         *)
LEMMA FileTyped == TypeOK => file \in [Files -> FileRec] /\ \A f \in Files : file[f] \in FileRec
BY DEF TypeOK, FileRec

(* Writing to one entry leaves the others alone.                            *)
LEMMA FileUpdated ==
    ASSUME TypeOK, NEW f \in Files, NEW r \in FileRec, file' = [file EXCEPT ![f] = r]
    PROVE  file' \in [Files -> FileRec] /\ file'[f] = r /\ \A g \in Files : g # f => file'[g] = file[g]
<1>1. file \in [Files -> FileRec]
  BY FileTyped
<1> QED BY <1>1

(* file_close() by p of the descriptor d, which refers to f: one reference  *)
(* less, and the inode and the pipe are given up with the last one.         *)
LEMMA FileCloseInv ==
    ASSUME IndInv, NEW p \in Procs, NEW d \in Fds, NEW f \in Files, Holds(p, d), ofile[p][d] = f,
           NEW where \in {"close", "dup2", "exit"}, NEW args \in (0 .. NOFILE) \X (0 .. NOFILE),
           FileClose(p, f, where, args), pc[p] # "open",
           \A e \in Fds : Holds(p, e)' <=> Holds(p, e) /\ e # d,
           where = "close" => args[1] \in Fds,
           where = "dup2" => args[1] \in Fds /\ args[2] \in Fds /\ args[1] # args[2] /\ ofile[p][args[1]] # Null
    PROVE  IndInv'
<1>0. TypeOK /\ RefsCounted /\ EndsTyped /\ Calls
  BY DEF IndInv
<1>1. /\ pc' = [pc EXCEPT ![p] = where] /\ arg' = [arg EXCEPT ![p] = args]
      /\ at' = [at EXCEPT ![p] = IF IputSleeps(f) THEN f ELSE Null]
      /\ put' = [put EXCEPT ![p] = IF IputSleeps(f) THEN file[f].inode ELSE Null]
      /\ busy' = IF IputSleeps(f) THEN NoProc ELSE p
      /\ UNCHANGED <<ofile, readers, linked, lost, overput>>
  BY DEF FileClose
<1>2. \A q \in Procs : q # p => pc'[q] = pc[q] /\ arg'[q] = arg[q] /\ at'[q] = at[q] /\ put'[q] = put[q]
  BY <1>0, <1>1 DEF TypeOK
<1>3. \A q \in Procs, e \in Fds : q # p => (Holds(q, e)' <=> Holds(q, e))
  BY <1>1, <1>2 DEF Holds
<1>4. RefSet(f)' = RefSet(f) \ {<<p, d>>} /\ <<p, d>> \in RefSet(f)
  <2>1. /\ RefSet(f) \in SUBSET (Procs \X Fds)
        /\ \A q \in Procs, e \in Fds : <<q, e>> \in RefSet(f) <=> Holds(q, e) /\ ofile[q][e] = f
    BY RefPair
  <2>2. ASSUME NEW q \in Procs, NEW e \in Fds
        PROVE  (Holds(q, e)' /\ ofile'[q][e] = f) <=> <<q, e>> \in RefSet(f) \ {<<p, d>>}
    <3>1. CASE q = p
      BY <1>1, <2>1, <3>1
    <3>2. CASE q # p
      BY <1>1, <1>3, <2>1, <3>2
    <3> QED BY <3>1, <3>2
  <2>3. RefSet(f) \ {<<p, d>>} \in SUBSET (Procs \X Fds)
    BY <2>1
  <2>4. RefSet(f)' = RefSet(f) \ {<<p, d>>}
    <3> DEFINE T == RefSet(f) \ {<<p, d>>}
    <3>1. T \in SUBSET (Procs \X Fds) /\ \A q \in Procs, e \in Fds : (Holds(q, e)' /\ ofile'[q][e] = f) <=> <<q, e>> \in T
      BY <2>2, <2>3
    <3> HIDE DEF T
    <3>2. RefSet(f)' = T
      BY <3>1, RefSetAfter
    <3> QED BY <3>2 DEF T
  <2> QED BY <2>1, <2>4
<1>5. ASSUME NEW g \in Files, g # f PROVE RefSet(g)' = RefSet(g)
  <2>1. /\ RefSet(g) \in SUBSET (Procs \X Fds)
        /\ \A q \in Procs, e \in Fds : <<q, e>> \in RefSet(g) <=> Holds(q, e) /\ ofile[q][e] = g
    BY RefPair
  <2>2. ASSUME NEW q \in Procs, NEW e \in Fds
        PROVE  (Holds(q, e)' /\ ofile'[q][e] = g) <=> <<q, e>> \in RefSet(g)
    <3>1. CASE q = p
      BY <1>1, <1>5, <2>1, <3>1
    <3>2. CASE q # p
      BY <1>1, <1>3, <2>1, <3>2
    <3> QED BY <3>1, <3>2
  <2> QED BY <2>1, <2>2, RefSetAfter
<1>6. \A g \in Files : OpenSet(g)' = OpenSet(g)
  BY <1>0, <1>1, <1>2 DEF OpenSet, TypeOK
<1>7. file[f].ref_count \in Nat /\ file[f].ref_count >= 1
  BY <1>0, <1>4, RefsOf DEF TypeOK
<1>8. /\ file' = [file EXCEPT ![f].ref_count = @ - 1,
                              ![f].inode = IF PutsInode(f) /\ ~IputSleeps(f) THEN Null ELSE @]
      /\ file' \in [Files -> FileRec]
      /\ file'[f].ref_count = file[f].ref_count - 1 /\ file'[f].inode \in {Null, file[f].inode}
      /\ file'[f].type = file[f].type /\ file'[f].pipe = file[f].pipe /\ file'[f].flags = file[f].flags
      /\ \A g \in Files : g # f => file'[g] = file[g]
  <2>1. file' = [file EXCEPT ![f].ref_count = @ - 1,
                             ![f].inode = IF PutsInode(f) /\ ~IputSleeps(f) THEN Null ELSE @]
    BY DEF FileClose
  <2> DEFINE newinode == IF PutsInode(f) /\ ~IputSleeps(f) THEN Null ELSE file[f].inode
             r == [file[f] EXCEPT !.ref_count = file[f].ref_count - 1, !.inode = newinode]
  <2>2. file[f] \in FileRec
    BY <1>0, FileTyped
  <2>3. file[f].ref_count - 1 \in Nat /\ newinode \in Inodes \cup {Null} /\ newinode \in {Null, file[f].inode}
    BY <1>7, <2>2 DEF FileRec
  <2>4. file' = [file EXCEPT ![f] = r]
    BY <2>1
  <2>5. /\ r \in FileRec /\ r.ref_count = file[f].ref_count - 1 /\ r.inode = newinode
        /\ r.type = file[f].type /\ r.pipe = file[f].pipe /\ r.flags = file[f].flags
    <3> HIDE DEF newinode
    <3> QED BY <2>2, <2>3 DEF FileRec
  <2> HIDE DEF r
  <2>6. file' \in [Files -> FileRec] /\ file'[f] = r /\ \A g \in Files : g # f => file'[g] = file[g]
    BY <1>0, <2>4, <2>5, FileUpdated
  <2> QED BY <2>1, <2>3, <2>5, <2>6
<1>9. RefsCounted'
  <2>1. Cardinality(RefSet(f)') = Cardinality(RefSet(f)) - 1
    BY <1>4, Finite, Counting
  <2>2. file'[f].ref_count = Cardinality(RefSet(f)') + Cardinality(OpenSet(f)') + (IF f \in lost' THEN 1 ELSE 0)
    BY <1>0, <1>1, <1>6, <1>8, <2>1, RefsOf
  <2>3. ASSUME NEW g \in Files
        PROVE  file'[g].ref_count = Cardinality(RefSet(g)') + Cardinality(OpenSet(g)') + (IF g \in lost' THEN 1 ELSE 0)
    <3>1. CASE g # f
      BY <1>0, <1>1, <1>5, <1>6, <1>8, <3>1, RefsSame
    <3> QED BY <2>2, <3>1
  <2> QED BY <2>3, RefsAfter
<1>10. i_refcount' \in [Inodes -> Int] /\ InodesReferenced'
  <2>0. /\ \A i : Owed(i)' = Owed(i)
        /\ \A i \in Inodes : /\ i_refcount[i] \in Int /\ Owed(i) \in Int /\ Spare(i) \in Int
                              /\ Spare(i) >= Cardinality(OpenOn(i))
    <3>1. \A q \in Procs : pc'[q] = "none" <=> pc[q] = "none"
      <4>1. pc'[p] # "none" /\ pc[p] # "none"
        BY <1>0, <1>1 DEF TypeOK, Holds
      <4> QED BY <1>2, <4>1
    <3> QED BY <1>0, <1>1, <3>1, OwedSame, SpareIs DEF IndInv
  <2>1. CASE PutsInode(f)
    <3>0. PICK j \in Inodes : j = file[f].inode
      BY <1>0, <2>1 DEF TypeOK, PutsInode
    <3>1. j \in Inodes /\ file[f].ref_count = 1 /\ file[f].inode = j
      BY <2>1, <3>0 DEF PutsInode, LastClose
    <3>2. i_refcount' = [i_refcount EXCEPT ![j] = @ - 1]
      BY <2>1, <3>0 DEF FileClose
    <3>3. \A i \in Inodes : OpenOn(i)' = OpenOn(i) \ {f}
      BY <1>8, <3>1 DEF OpenOn
    <3>4. f \in OpenOn(j) /\ \A i \in Inodes : i # j => f \notin OpenOn(i)
      BY <3>1 DEF OpenOn
    <3>5. Cardinality(OpenOn(j)') = Cardinality(OpenOn(j)) - 1 /\ Cardinality(OpenOn(j)) \in Nat
      BY <3>1, <3>3, <3>4, Finite, Counting
    <3>6. \A i \in Inodes : i # j => OpenOn(i)' = OpenOn(i)
      BY <3>3, <3>4
    <3>8. i_refcount' \in [Inodes -> Int] /\ i_refcount'[j] = i_refcount[j] - 1
      BY <1>0, <3>1, <3>2 DEF TypeOK
    <3>9. \A i \in Inodes : i # j => i_refcount'[i] = i_refcount[i]
      BY <1>0, <3>2 DEF TypeOK
    <3>10. \A i \in Inodes : i # j => Spare(i)' >= Cardinality(OpenOn(i)')
      BY <2>0, <3>6, <3>9 DEF Spare
    <3>11. Spare(j)' >= Cardinality(OpenOn(j)')
      <4>1. Spare(j)' = Spare(j) - 1 /\ Spare(j) \in Int /\ Spare(j) >= Cardinality(OpenOn(j))
        BY <2>0, <3>1, <3>8 DEF Spare
      <4> QED BY <3>5, <4>1
    <3>12. \A i \in Inodes : Spare(i)' >= Cardinality(OpenOn(i)')
      BY <3>10, <3>11
    <3> QED BY <1>0, <1>1, <3>8, <3>12, SpareAfter DEF TypeOK
  <2>2. CASE ~PutsInode(f)
    <3>1. UNCHANGED i_refcount
      BY <2>2 DEF FileClose
    <3>2. \A i \in Inodes : OpenOn(i)' \subseteq OpenOn(i)
      BY <1>7, <1>8, FileAssumption DEF OpenOn
    <3>3. \A i \in Inodes : Cardinality(OpenOn(i)') <= Cardinality(OpenOn(i)) /\ Cardinality(OpenOn(i)') \in Nat /\ Cardinality(OpenOn(i)) \in Nat
      BY <3>2, Finite, FS_Subset, FS_CardinalityType
    <3>4. \A i \in Inodes : Spare(i)' = Spare(i)
      BY <2>0, <3>1 DEF Spare
    <3>5. \A i \in Inodes : Spare(i)' >= Cardinality(OpenOn(i)')
      BY <2>0, <3>3, <3>4
    <3> QED BY <1>0, <1>1, <3>1, <3>5, SpareAfter DEF TypeOK
  <2> QED BY <2>1, <2>2
<1>11. writers' \in [Pipes -> Int] /\ WritersCounted'
  <2>0. \A k \in Pipes : writers[k] \in Int /\ writers[k] = Cardinality(OpenEnds(k, "wr"))
    BY DEF IndInv, TypeOK, WritersCounted
  <2>1. CASE ClosesWriter(f)
    <3>0. PICK j \in Pipes : j = file[f].pipe
      BY <1>0, <2>1 DEF TypeOK, EndsTyped, ClosesWriter
    <3>1. j \in Pipes /\ file[f].ref_count = 1 /\ file[f].flags = "wr" /\ file[f].pipe = j
      BY <2>1, <3>0 DEF ClosesWriter, LastClose
    <3>2. writers' = [writers EXCEPT ![j] = @ - 1]
      BY <2>1, <3>0 DEF FileClose
    <3>3. \A k \in Pipes : OpenEnds(k, "wr")' = OpenEnds(k, "wr") \ {f}
      BY <1>8, <3>1 DEF OpenEnds
    <3>4. f \in OpenEnds(j, "wr") /\ \A k \in Pipes : k # j => f \notin OpenEnds(k, "wr")
      BY <3>1 DEF OpenEnds
    <3>5. Cardinality(OpenEnds(j, "wr")') = Cardinality(OpenEnds(j, "wr")) - 1
      BY <3>1, <3>3, <3>4, Finite, Counting
    <3>6. \A k \in Pipes : k # j => OpenEnds(k, "wr")' = OpenEnds(k, "wr")
      BY <3>3, <3>4
    <3>7. writers' \in [Pipes -> Int] /\ writers'[j] = writers[j] - 1 /\ \A k \in Pipes : k # j => writers'[k] = writers[k]
      BY <1>0, <3>1, <3>2 DEF TypeOK
    <3>8. \A k \in Pipes : writers'[k] = Cardinality(OpenEnds(k, "wr")')
      BY <2>0, <3>1, <3>5, <3>6, <3>7
    <3> QED BY <3>7, <3>8 DEF WritersCounted
  <2>2. CASE ~ClosesWriter(f)
    <3>1. UNCHANGED writers
      BY <2>2 DEF FileClose
    <3>2. \A k \in Pipes : k # Null
      BY FileAssumption DEF Pipes
    <3>3. \A k \in Pipes : OpenEnds(k, "wr")' = OpenEnds(k, "wr")
      BY <1>0, <1>7, <1>8, <2>2, <3>2 DEF OpenEnds, ClosesWriter, LastClose, EndsTyped
    <3> QED BY <1>0, <2>0, <3>1, <3>3 DEF TypeOK, WritersCounted
  <2> QED BY <2>1, <2>2
<1>12. EndsTyped'
  BY <1>0, <1>8 DEF EndsTyped
<1>13. IputSleeps(f) => file[f].inode \in Inodes
  BY <1>0 DEF TypeOK, IputSleeps, PutsInode
<1>14. TypeOK'
  BY <1>0, <1>1, <1>8, <1>10, <1>11, <1>13 DEF TypeOK, FileRec
<1>15. Calls'
  <2>1. /\ pc'[p] = where /\ arg'[p] = args
        /\ put'[p] # Null => at'[p] \in Files /\ busy' # p
    BY <1>0, <1>1, FileAssumption DEF TypeOK
  <2>2. \A q \in Procs : q # p /\ put[q] # Null => busy' # q
    BY <1>1, FileAssumption
  <2>3. \A g \in Files : file'[g].pipe = file[g].pipe
    BY <1>8
  <2> QED BY <1>0, <1>1, <1>2, <2>1, <2>2, <2>3 DEF Calls
<1> QED BY <1>9, <1>10, <1>11, <1>12, <1>14, <1>15 DEF IndInv

-----------------------------------------------------------------------------
(* The parts of the invariant, after steps that leave their subject alone.  *)

(* The same descriptors refer to the same files.                            *)
LEMMA RefsKept ==
    ASSUME RefsCounted, UNCHANGED lost,
           \A q \in Procs, e \in Fds : (Holds(q, e)' <=> Holds(q, e)) /\ (Holds(q, e) => ofile'[q][e] = ofile[q][e]),
           \A f \in Files : OpenSet(f)' = OpenSet(f) /\ file'[f].ref_count = file[f].ref_count
    PROVE  RefsCounted'
<1>1. ASSUME NEW f \in Files PROVE RefSet(f)' = RefSet(f)
  <2>1. /\ RefSet(f) \in SUBSET (Procs \X Fds)
        /\ \A q \in Procs, e \in Fds : <<q, e>> \in RefSet(f) <=> Holds(q, e) /\ ofile[q][e] = f
    BY RefPair
  <2>2. \A q \in Procs, e \in Fds : (Holds(q, e)' /\ ofile'[q][e] = f) <=> <<q, e>> \in RefSet(f)
    BY <2>1
  <2> QED BY <2>1, <2>2, RefSetAfter
<1>2. ASSUME NEW f \in Files
      PROVE  file'[f].ref_count = Cardinality(RefSet(f)') + Cardinality(OpenSet(f)') + (IF f \in lost' THEN 1 ELSE 0)
  BY <1>1, RefsSame
<1> QED BY <1>2, RefsAfter

(* No inode is opened.                                                      *)
LEMMA InodesKept ==
    ASSUME TypeOK, InodesReferenced, i_refcount' \in [Inodes -> Int], overput' \in Nat,
           \A i \in Inodes : Spare(i)' = Spare(i),
           \A i \in Inodes : OpenOn(i)' \subseteq OpenOn(i)
    PROVE  InodesReferenced'
<1>1. \A i \in Inodes : Cardinality(OpenOn(i)') <= Cardinality(OpenOn(i)) /\ Cardinality(OpenOn(i)') \in Nat /\ Cardinality(OpenOn(i)) \in Nat
  BY Finite, FS_Subset, FS_CardinalityType
<1>2. \A i \in Inodes : Spare(i) \in Int /\ Spare(i) >= Cardinality(OpenOn(i))
  BY SpareIs
<1>3. \A i \in Inodes : Spare(i)' >= Cardinality(OpenOn(i)')
  BY <1>1, <1>2
<1> QED BY <1>3, SpareAfter

(* One file is opened on an inode, or closed, and each inode has a          *)
(* reference more or less for it.                                           *)
LEMMA InodesChanged ==
    ASSUME TypeOK, InodesReferenced, i_refcount' \in [Inodes -> Int], overput' \in Nat, NEW f,
           \A i \in Inodes :
             \/ Spare(i)' = Spare(i) /\ OpenOn(i)' \subseteq OpenOn(i)
             \/ Spare(i)' = Spare(i) + 1 /\ OpenOn(i)' \subseteq OpenOn(i) \cup {f}
             \/ Spare(i)' = Spare(i) - 1 /\ f \in OpenOn(i) /\ OpenOn(i)' \subseteq OpenOn(i) \ {f}
    PROVE  InodesReferenced'
<1>1. ASSUME NEW i \in Inodes PROVE Spare(i)' >= Cardinality(OpenOn(i)')
  <2>1. IsFiniteSet(OpenOn(i)) /\ Cardinality(OpenOn(i)) \in Nat /\ Spare(i) \in Int /\ Spare(i) >= Cardinality(OpenOn(i))
    BY Finite, FS_CardinalityType, SpareIs
  <2>2. ASSUME NEW T, IsFiniteSet(T), OpenOn(i)' \subseteq T
        PROVE  Cardinality(OpenOn(i)') =< Cardinality(T) /\ Cardinality(OpenOn(i)') \in Nat /\ Cardinality(T) \in Nat
    BY <2>2, FS_Subset, FS_CardinalityType
  <2>3. CASE Spare(i)' = Spare(i) /\ OpenOn(i)' \subseteq OpenOn(i)
    BY <2>1, <2>2, <2>3
  <2>4. CASE Spare(i)' = Spare(i) + 1 /\ OpenOn(i)' \subseteq OpenOn(i) \cup {f}
    <3>1. IsFiniteSet(OpenOn(i) \cup {f}) /\ Cardinality(OpenOn(i) \cup {f}) =< Cardinality(OpenOn(i)) + 1
      <4>1. CASE f \in OpenOn(i)
        <5>1. OpenOn(i) \cup {f} = OpenOn(i)
          BY <4>1
        <5>2. Cardinality(OpenOn(i)) =< Cardinality(OpenOn(i)) + 1
          BY <2>1
        <5> QED BY <2>1, <5>1, <5>2
      <4>2. CASE f \notin OpenOn(i)
        BY <2>1, <4>2, FS_AddElement
      <4> QED BY <4>1, <4>2
    <3> QED BY <2>1, <2>2, <2>4, <3>1
  <2>5. CASE Spare(i)' = Spare(i) - 1 /\ f \in OpenOn(i) /\ OpenOn(i)' \subseteq OpenOn(i) \ {f}
    <3>1. IsFiniteSet(OpenOn(i) \ {f}) /\ Cardinality(OpenOn(i) \ {f}) = Cardinality(OpenOn(i)) - 1
      BY <2>1, <2>5, FS_RemoveElement
    <3> QED BY <2>1, <2>2, <2>5, <3>1
  <2> QED BY <2>3, <2>4, <2>5
<1> QED BY <1>1, SpareAfter

(* No write end is opened or closed.                                        *)
LEMMA WritersKept ==
    ASSUME WritersCounted, UNCHANGED writers,
           \A k \in Pipes : OpenEnds(k, "wr")' = OpenEnds(k, "wr")
    PROVE  WritersCounted'
BY DEF WritersCounted

(* The same files are open, on the same pipes and on no other inodes.       *)
LEMMA FilesKept ==
    ASSUME IndInv, i_refcount' \in [Inodes -> Int], overput' \in Nat,
           UNCHANGED writers, \A i \in Inodes : Spare(i)' = Spare(i),
           \A f \in Files : /\ file'[f].ref_count > 0 <=> file[f].ref_count > 0
                            /\ file'[f].inode \in {Null, file[f].inode} /\ file'[f].type = file[f].type
                            /\ file'[f].pipe = file[f].pipe /\ file'[f].flags = file[f].flags
    PROVE  InodesReferenced' /\ WritersCounted' /\ EndsTyped'
<1>1. \A i \in Inodes : OpenOn(i)' \subseteq OpenOn(i)
  BY FileAssumption DEF OpenOn
<1>2. \A k \in Pipes : OpenEnds(k, "wr")' = OpenEnds(k, "wr")
  BY DEF OpenEnds
<1>3. EndsTyped'
  BY DEF IndInv, EndsTyped
<1> QED BY <1>1, <1>2, <1>3, InodesKept, WritersKept DEF IndInv

(* Steps that touch no file: unlink(), the start of exit(), and of dup2()   *)
(* to a descriptor that is free.                                            *)
LEMMA QuietInv ==
    ASSUME IndInv, TypeOK', Calls', UNCHANGED <<ofile, file, i_refcount, writers, lost, overput>>,
           \A q \in Procs : pc'[q] = "none" <=> pc[q] = "none",
           \A q \in Procs, e \in Fds : Holds(q, e)' <=> Holds(q, e),
           \A f \in Files : OpenSet(f)' = OpenSet(f)
    PROVE  IndInv'
<1>1. RefsCounted'
  BY RefsKept DEF IndInv
<1>2. InodesReferenced' /\ WritersCounted' /\ EndsTyped'
  <2>1. i_refcount' \in [Inodes -> Int] /\ overput' \in Nat
    BY DEF TypeOK
  <2> QED BY <2>1, FilesKept, SpareSame
<1> QED BY <1>1, <1>2 DEF IndInv

(* unlink().                                                                *)
LEMMA UnlinkInv ==
    ASSUME IndInv, NEW p \in Procs, NEW i \in Inodes, Unlink(p, i)
    PROVE  IndInv'
<1>1. /\ linked' = [linked EXCEPT ![i] = FALSE]
      /\ UNCHANGED <<ofile, file, readers, writers, i_refcount, pc, arg, at, put, busy, lost, overput>>
  BY DEF Unlink, ends, call
<1>2. TypeOK'
  BY <1>1 DEF IndInv, TypeOK
<1>3. Calls'
  BY <1>1 DEF IndInv, Calls
<1>4. \A q \in Procs, e \in Fds : Holds(q, e)' <=> Holds(q, e)
  BY <1>1 DEF Holds
<1>5. \A f \in Files : OpenSet(f)' = OpenSet(f)
  BY <1>1 DEF OpenSet
<1> QED BY <1>1, <1>2, <1>3, <1>4, <1>5, QuietInv

(* The start of proc_exit().                                                *)
LEMMA ExitInv ==
    ASSUME IndInv, NEW p \in Procs, Exit(p)
    PROVE  IndInv'
<1>1. /\ pc[p] = "user" /\ pc' = [pc EXCEPT ![p] = "exit"] /\ arg' = [arg EXCEPT ![p] = <<0, 0>>] /\ busy' = p
      /\ busy = NoProc
      /\ UNCHANGED <<ofile, file, readers, writers, i_refcount, linked, at, put, lost, overput>>
  BY DEF Exit, User, ends, disk
<1>2. 0 \in 0 .. NOFILE /\ \A e \in Fds : e >= 0
  BY FileAssumption DEF Fds
<1>3. TypeOK'
  BY <1>1, <1>2 DEF IndInv, TypeOK
<1>4. /\ pc'[p] = "exit" /\ arg'[p] = <<0, 0>>
      /\ \A q \in Procs : q # p => pc'[q] = pc[q] /\ arg'[q] = arg[q]
  BY <1>1 DEF IndInv, TypeOK
<1>5. put[p] = Null
  BY <1>1 DEF IndInv, Calls
<1>6. Calls'
  BY <1>1, <1>4, <1>5 DEF IndInv, Calls
<1>7. \A q \in Procs, e \in Fds : Holds(q, e)' <=> Holds(q, e)
  BY <1>1, <1>2, <1>4 DEF Holds
<1>8. \A f \in Files : OpenSet(f)' = OpenSet(f)
  BY <1>1, <1>4 DEF OpenSet
<1>9. \A q \in Procs : pc'[q] = "none" <=> pc[q] = "none"
  BY <1>1, <1>4
<1> QED BY <1>1, <1>3, <1>6, <1>7, <1>8, <1>9, QuietInv

(* iput() comes back to file_close(), whatever the file is now.             *)
LEMMA IputReturnInv ==
    ASSUME IndInv, NEW p \in Procs, IputReturn(p)
    PROVE  IndInv'
<1>1. /\ busy = NoProc /\ put[p] # Null
      /\ file' = [file EXCEPT ![at[p]].inode = Null]
      /\ at' = [at EXCEPT ![p] = Null] /\ put' = [put EXCEPT ![p] = Null] /\ busy' = p
      /\ UNCHANGED <<ofile, readers, writers, i_refcount, linked, pc, arg, lost, overput>>
  BY DEF IputReturn, ends, disk
<1>2. at[p] \in Files /\ pc[p] # "open"
  BY <1>1 DEF IndInv, Calls
<1>3. /\ file' \in [Files -> FileRec]
      /\ \A f \in Files : /\ file'[f].ref_count = file[f].ref_count
                          /\ file'[f].inode \in {Null, file[f].inode} /\ file'[f].type = file[f].type
                          /\ file'[f].pipe = file[f].pipe /\ file'[f].flags = file[f].flags
  <2> DEFINE r == [file[at[p]] EXCEPT !.inode = Null]
  <2>1. file[at[p]] \in FileRec
    BY <1>2, FileTyped DEF IndInv
  <2>2. /\ r \in FileRec /\ r.ref_count = file[at[p]].ref_count /\ r.inode = Null
        /\ r.type = file[at[p]].type /\ r.pipe = file[at[p]].pipe /\ r.flags = file[at[p]].flags
    BY <2>1 DEF FileRec
  <2>3. file' = [file EXCEPT ![at[p]] = r]
    BY <1>1
  <2> HIDE DEF r
  <2>4. file' \in [Files -> FileRec] /\ file'[at[p]] = r /\ \A g \in Files : g # at[p] => file'[g] = file[g]
    BY <1>2, <2>2, <2>3, FileUpdated DEF IndInv
  <2> QED BY <2>2, <2>4
<1>4. TypeOK'
  BY <1>1, <1>3 DEF IndInv, TypeOK, FileRec
<1>5. at'[p] = Null /\ put'[p] = Null /\ \A q \in Procs : q # p => at'[q] = at[q] /\ put'[q] = put[q]
  BY <1>1 DEF IndInv, TypeOK
<1>6. Calls'
  BY <1>1, <1>2, <1>3, <1>5 DEF IndInv, Calls
<1>7. \A q \in Procs, e \in Fds : Holds(q, e)' <=> Holds(q, e)
  BY <1>1 DEF Holds
<1>8. \A f \in Files : OpenSet(f)' = OpenSet(f)
  BY <1>1, <1>2, <1>5 DEF OpenSet
<1>9. RefsCounted'
  BY <1>1, <1>3, <1>7, <1>8, RefsKept DEF IndInv
<1>10. InodesReferenced' /\ WritersCounted' /\ EndsTyped'
  <2>1. i_refcount' \in [Inodes -> Int] /\ overput' \in Nat
    BY <1>4 DEF TypeOK
  <2> QED BY <1>1, <1>3, <2>1, FilesKept, SpareSame
<1> QED BY <1>4, <1>6, <1>9, <1>10 DEF IndInv

(* close() of a descriptor that is open.                                    *)
LEMMA CloseInv ==
    ASSUME IndInv, NEW p \in Procs, NEW d \in Fds, Close(p, d)
    PROVE  IndInv'
<1> DEFINE f == ofile[p][d]
<1>1. pc[p] = "user" /\ f # Null /\ FileClose(p, f, "close", <<d, d>>)
  BY DEF Close, User
<1>2. f \in Files /\ Holds(p, d) /\ pc[p] # "open"
  BY <1>1 DEF IndInv, TypeOK, Holds
<1>3. <<d, d>> \in (0 .. NOFILE) \X (0 .. NOFILE)
  BY FileAssumption DEF Fds
<1>4. pc'[p] = "close" /\ arg'[p] = <<d, d>> /\ UNCHANGED ofile
  BY <1>1 DEF FileClose, IndInv, TypeOK
<1>5. \A e \in Fds : Holds(p, e)' <=> Holds(p, e) /\ e # d
  BY <1>1, <1>4 DEF Holds
<1> HIDE DEF f
<1>6. ofile[p][d] = f
  BY DEF f
<1> QED BY <1>1, <1>2, <1>3, <1>5, <1>6, FileCloseInv

(* dup2(), which closes the descriptor it is to give out.                   *)
LEMMA Dup2CloseInv ==
    ASSUME IndInv, ~SelfDup, NEW p \in Procs, NEW d \in Fds, NEW e \in Fds, Dup2Close(p, d, e)
    PROVE  IndInv'
<1>1. pc[p] = "user" /\ busy = NoProc /\ ofile[p][d] # Null /\ d # e
  BY DEF Dup2Close, User
<1>2. <<d, e>> \in (0 .. NOFILE) \X (0 .. NOFILE)
  BY FileAssumption DEF Fds
<1>3. CASE ofile[p][e] # Null
  <2> DEFINE f == ofile[p][e]
  <2>1. FileClose(p, f, "dup2", <<d, e>>)
    BY <1>3 DEF Dup2Close
  <2>2. f \in Files /\ Holds(p, e) /\ pc[p] # "open"
    BY <1>1, <1>3 DEF IndInv, TypeOK, Holds
  <2>3. pc'[p] = "dup2" /\ arg'[p] = <<d, e>> /\ UNCHANGED ofile
    BY <2>1 DEF FileClose, IndInv, TypeOK
  <2>4. \A x \in Fds : Holds(p, x)' <=> Holds(p, x) /\ x # e
    BY <1>1, <2>3 DEF Holds
  <2> HIDE DEF f
  <2>5. ofile[p][e] = f
    BY DEF f
  <2> QED BY <1>1, <1>2, <2>1, <2>2, <2>4, <2>5, FileCloseInv
<1>4. CASE ofile[p][e] = Null
  <2>1. /\ pc' = [pc EXCEPT ![p] = "dup2"] /\ arg' = [arg EXCEPT ![p] = <<d, e>>] /\ busy' = p
        /\ UNCHANGED <<ofile, file, readers, writers, i_refcount, linked, at, put, lost, overput>>
    BY <1>4 DEF Dup2Close, ends, disk
  <2>2. TypeOK'
    BY <1>2, <2>1 DEF IndInv, TypeOK
  <2>3. pc'[p] = "dup2" /\ arg'[p] = <<d, e>> /\ \A q \in Procs : q # p => pc'[q] = pc[q] /\ arg'[q] = arg[q]
    BY <2>1 DEF IndInv, TypeOK
  <2>4. put[p] = Null
    BY <1>1 DEF IndInv, Calls
  <2>5. Calls'
    BY <1>1, <2>1, <2>3, <2>4 DEF IndInv, Calls
  <2>6. \A q \in Procs, x \in Fds : Holds(q, x)' <=> Holds(q, x)
    BY <1>1, <1>4, <2>1, <2>3 DEF Holds
  <2>7. \A f \in Files : OpenSet(f)' = OpenSet(f)
    BY <1>1, <2>1, <2>3 DEF OpenSet
  <2>8. \A q \in Procs : pc'[q] = "none" <=> pc[q] = "none"
    BY <1>1, <2>3
  <2> QED BY <2>1, <2>2, <2>5, <2>6, <2>7, <2>8, QuietInv
<1> QED BY <1>3, <1>4

(* proc_exit() closes the descriptors in their order.                       *)
LEMMA ExitCloseInv ==
    ASSUME IndInv, NEW p \in Procs, ExitClose(p)
    PROVE  IndInv'
<1>1. ToClose(p) \in SUBSET (0 .. NOFILE - 1) /\ ToClose(p) # {} /\ NOFILE - 1 \in Int
  BY FileAssumption DEF ExitClose, ToClose, Fds
<1>2. First(ToClose(p)) \in ToClose(p) /\ \A y \in ToClose(p) : First(ToClose(p)) =< y
  BY <1>1, FirstEntry
<1>3. PICK d \in Fds : d = First(ToClose(p))
  BY <1>2 DEF ToClose
<1>4. /\ d >= arg[p][1] /\ ofile[p][d] # Null /\ arg[p][1] \in Int /\ d \in Int
      /\ \A y \in Fds : y >= arg[p][1] /\ ofile[p][y] # Null => d =< y
  <2>1. d \in ToClose(p) /\ \A y \in ToClose(p) : d =< y
    BY <1>2, <1>3
  <2>2. arg[p] \in (0 .. NOFILE) \X (0 .. NOFILE)
    BY DEF IndInv, TypeOK
  <2>3. arg[p][1] \in Int /\ d \in Int
    BY <2>2 DEF Fds
  <2> QED BY <2>1, <2>3 DEF ToClose
<1> DEFINE f == ofile[p][d]
<1>5. pc[p] = "exit" /\ FileClose(p, f, "exit", <<d + 1, 0>>)
  BY <1>3 DEF ExitClose, Runs
<1>6. f \in Files /\ Holds(p, d) /\ pc[p] # "open"
  BY <1>4, <1>5 DEF IndInv, TypeOK, Holds
<1>7. <<d + 1, 0>> \in (0 .. NOFILE) \X (0 .. NOFILE)
  BY FileAssumption DEF Fds
<1>8. pc'[p] = "exit" /\ arg'[p] = <<d + 1, 0>> /\ UNCHANGED ofile
  BY <1>5 DEF FileClose, IndInv, TypeOK
<1>9. ASSUME NEW e \in Fds PROVE Holds(p, e)' <=> Holds(p, e) /\ e # d
  <2>1. e \in Int
    BY DEF Fds
  <2>2. Holds(p, e) <=> ofile[p][e] # Null /\ e >= arg[p][1]
    BY <1>5 DEF Holds
  <2>3. Holds(p, e)' <=> ofile[p][e] # Null /\ e >= d + 1
    BY <1>8 DEF Holds
  <2>4. e >= d + 1 <=> e >= d /\ e # d
    BY <1>4, <2>1
  <2> QED BY <1>4, <2>1, <2>2, <2>3, <2>4
<1> HIDE DEF f
<1>10. ofile[p][d] = f
  BY DEF f
<1> QED BY <1>5, <1>6, <1>7, <1>9, <1>10, FileCloseInv

(* The end of a system call.                                                *)
LEMMA ReturnFacts ==
    ASSUME TypeOK, NEW p \in Procs, Return(p)
    PROVE  /\ pc'[p] = "user" /\ busy' = NoProc /\ UNCHANGED put
           /\ pc' \in [Procs -> {"none", "user", "open", "close", "dup2", "exit"}]
           /\ arg' \in [Procs -> (0 .. NOFILE) \X (0 .. NOFILE)]
           /\ at' \in [Procs -> Files \cup {Null}]
           /\ \A q \in Procs : q # p => pc'[q] = pc[q] /\ arg'[q] = arg[q] /\ at'[q] = at[q]
<1>1. 0 \in 0 .. NOFILE
  BY FileAssumption
<1> QED BY <1>1 DEF TypeOK, Return

(* What is known of the others stays true when a system call ends.          *)
LEMMA CallsReturn ==
    ASSUME TypeOK, Calls, NEW p \in Procs, Return(p), put[p] = Null,
           \A q \in Procs : q # p => ofile'[q] = ofile[q],
           \A q \in Procs : q # p /\ pc[q] = "open" => at[q] \notin lost' /\ file'[at[q]].pipe = Null
    PROVE  Calls'
<1>1. /\ pc'[p] = "user" /\ busy' = NoProc /\ UNCHANGED put
      /\ \A q \in Procs : q # p => pc'[q] = pc[q] /\ arg'[q] = arg[q] /\ at'[q] = at[q]
  BY ReturnFacts
<1> SUFFICES ASSUME NEW q \in Procs
             PROVE  /\ pc'[q] = "open" =>
                        /\ at'[q] \in Files /\ at'[q] \notin lost' /\ file'[at'[q]].pipe = Null
                        /\ \A r \in Procs : pc'[r] = "open" /\ at'[r] = at'[q] => r = q
                    /\ pc'[q] = "dup2" =>
                        /\ arg'[q][1] \in Fds /\ arg'[q][2] \in Fds /\ arg'[q][1] # arg'[q][2]
                        /\ ofile'[q][arg'[q][1]] # Null
                    /\ pc'[q] = "close" => arg'[q][1] \in Fds
                    /\ put'[q] # Null => pc'[q] \in {"close", "dup2", "exit"} /\ at'[q] \in Files /\ busy' # q
  BY DEF Calls
<1>2. CASE q = p
  BY <1>1, <1>2
<1>3. CASE q # p
  <2>1. pc'[q] = pc[q] /\ arg'[q] = arg[q] /\ at'[q] = at[q] /\ put'[q] = put[q] /\ ofile'[q] = ofile[q] /\ busy' # q
    BY <1>1, <1>3, FileAssumption
  <2>2. \A r \in Procs : pc'[r] = "open" => pc[r] = "open" /\ at'[r] = at[r]
    BY <1>1
  <2> QED BY <1>3, <2>1, <2>2 DEF Calls
<1> QED BY <1>2, <1>3

(* close() clears the descriptor at the end.                                *)
LEMMA CloseReturnInv ==
    ASSUME IndInv, NEW p \in Procs, CloseReturn(p)
    PROVE  IndInv'
<1>0. TypeOK /\ Calls
  BY DEF IndInv
<1>1. /\ busy = p /\ pc[p] = "close" /\ ofile' = [ofile EXCEPT ![p][arg[p][1]] = Null] /\ Return(p)
      /\ UNCHANGED <<file, readers, writers, i_refcount, linked, lost, overput>>
  BY DEF CloseReturn, Runs, ends, disk
<1>2. arg[p][1] \in Fds /\ put[p] = Null
  BY <1>0, <1>1 DEF Calls
<1>3. /\ ofile' \in [Procs -> [Fds -> Files \cup {Null}]]
      /\ ofile'[p][arg[p][1]] = Null /\ \A e \in Fds : e # arg[p][1] => ofile'[p][e] = ofile[p][e]
      /\ \A q \in Procs : q # p => ofile'[q] = ofile[q]
  BY <1>0, <1>1, <1>2 DEF TypeOK
<1>4. TypeOK'
  BY <1>0, <1>1, <1>3, ReturnFacts DEF TypeOK
<1>5. Calls'
  BY <1>0, <1>1, <1>2, <1>3, CallsReturn DEF Calls
<1>6. ASSUME NEW q \in Procs, NEW e \in Fds
      PROVE  (Holds(q, e)' <=> Holds(q, e)) /\ (Holds(q, e) => ofile'[q][e] = ofile[q][e])
  <2>1. CASE q = p
    BY <1>0, <1>1, <1>3, <2>1, ReturnFacts DEF Holds
  <2>2. CASE q # p
    BY <1>0, <1>1, <1>3, <2>2, ReturnFacts DEF Holds
  <2> QED BY <2>1, <2>2
<1>7. \A f \in Files : OpenSet(f)' = OpenSet(f)
  BY <1>0, <1>1, ReturnFacts DEF OpenSet
<1>8. RefsCounted'
  BY <1>1, <1>6, <1>7, RefsKept DEF IndInv
<1>9. InodesReferenced' /\ WritersCounted' /\ EndsTyped'
  <2>1. \A q \in Procs : pc'[q] = "none" <=> pc[q] = "none"
    BY <1>0, <1>1, ReturnFacts
  <2>2. \A j \in Inodes : Spare(j)' = Spare(j)
    BY <1>1, <2>1, SpareSame
  <2>3. i_refcount' \in [Inodes -> Int] /\ overput' \in Nat
    BY <1>4 DEF TypeOK
  <2>4. \A f \in Files : file'[f] = file[f]
    BY <1>1
  <2> QED BY <1>1, <2>2, <2>3, <2>4, FilesKept
<1> QED BY <1>4, <1>5, <1>8, <1>9 DEF IndInv

(* proc_exit() is through with the descriptors.                             *)
LEMMA ExitReturnInv ==
    ASSUME IndInv, NEW p \in Procs, ExitReturn(p)
    PROVE  IndInv'
<1>0. TypeOK /\ Calls
  BY DEF IndInv
<1>1. /\ busy = p /\ pc[p] = "exit" /\ ToClose(p) = {}
      /\ pc' = [pc EXCEPT ![p] = "none"] /\ arg' = [arg EXCEPT ![p] = <<0, 0>>]
      /\ ofile' = [ofile EXCEPT ![p] = [d \in Fds |-> Null]] /\ busy' = NoProc
      /\ i_refcount' = [i_refcount EXCEPT ![Dir] = @ - 1]
      /\ UNCHANGED <<file, readers, writers, linked, at, put, lost, overput>>
  BY DEF ExitReturn, Runs, ends
<1>2. put[p] = Null
  BY <1>0, <1>1 DEF Calls
<1>3. /\ ofile' \in [Procs -> [Fds -> Files \cup {Null}]] /\ pc'[p] = "none"
      /\ \A q \in Procs : q # p => ofile'[q] = ofile[q] /\ pc'[q] = pc[q] /\ arg'[q] = arg[q]
  BY <1>0, <1>1 DEF TypeOK
<1>4. TypeOK'
  <2>1. 0 \in 0 .. NOFILE
    BY FileAssumption
  <2>2. i_refcount' \in [Inodes -> Int]
    BY <1>0, <1>1, FileAssumption DEF TypeOK
  <2>3. arg' \in [Procs -> (0 .. NOFILE) \X (0 .. NOFILE)]
    BY <1>0, <1>1, <2>1 DEF TypeOK
  <2> QED BY <1>0, <1>1, <1>3, <2>2, <2>3 DEF TypeOK
<1>5. Calls'
  BY <1>0, <1>1, <1>2, <1>3, FileAssumption DEF Calls
<1>6. ASSUME NEW q \in Procs, NEW e \in Fds
      PROVE  (Holds(q, e)' <=> Holds(q, e)) /\ (Holds(q, e) => ofile'[q][e] = ofile[q][e])
  <2>1. CASE q = p
    BY <1>1, <1>3, <2>1 DEF Holds, ToClose
  <2>2. CASE q # p
    BY <1>3, <2>2 DEF Holds
  <2> QED BY <2>1, <2>2
<1>7. \A f \in Files : OpenSet(f)' = OpenSet(f)
  BY <1>1, <1>3 DEF OpenSet
<1>8. RefsCounted'
  BY <1>1, <1>6, <1>7, RefsKept DEF IndInv
<1>9. InodesReferenced' /\ WritersCounted' /\ EndsTyped'
  <2>1. Live' = Live \ {p} /\ p \in Live
    BY <1>1, <1>3 DEF Live
  <2>2. Cardinality(Live') = Cardinality(Live) - 1 /\ Cardinality(Live) \in Nat
    BY <2>1, Finite, Counting
  <2>3. ASSUME NEW j \in Inodes PROVE Spare(j)' = Spare(j)
    <3>1. i_refcount[j] \in Int /\ overput \in Nat
      BY <1>0 DEF TypeOK
    <3>2. CASE j = Dir
      <4>1. i_refcount'[j] = i_refcount[j] - 1 /\ Owed(j)' = Owed(j) - 1 /\ Owed(j) \in Int
        <5>1. i_refcount'[j] = i_refcount[j] - 1
          BY <1>0, <1>1, <3>2 DEF TypeOK
        <5>2. Owed(j) = 1 + Cardinality(Live) - overput /\ Owed(j)' = 1 + Cardinality(Live') - overput
          BY <1>1, <3>2 DEF Owed
        <5> QED BY <2>2, <3>1, <5>1, <5>2
      <4> QED BY <3>1, <4>1 DEF Spare
    <3>3. CASE j # Dir
      BY <1>0, <1>1, <3>3 DEF TypeOK, Owed, Spare
    <3> QED BY <3>2, <3>3
  <2>4. i_refcount' \in [Inodes -> Int] /\ overput' \in Nat
    BY <1>4 DEF TypeOK
  <2>5. \A f \in Files : file'[f] = file[f]
    BY <1>1
  <2> QED BY <1>1, <2>3, <2>4, <2>5, FilesKept
<1> QED BY <1>4, <1>5, <1>8, <1>9 DEF IndInv

-----------------------------------------------------------------------------
(* A descriptor more.                                                       *)
LEMMA OneMore ==
    ASSUME NEW p \in Procs, NEW d \in Fds, NEW f \in Files, ~Holds(p, d), Holds(p, d)', ofile'[p][d] = f,
           \A q \in Procs, e \in Fds : q # p \/ e # d =>
               (Holds(q, e)' <=> Holds(q, e)) /\ (Holds(q, e) => ofile'[q][e] = ofile[q][e])
    PROVE  /\ Cardinality(RefSet(f)') = Cardinality(RefSet(f)) + 1
           /\ \A g \in Files : g # f => RefSet(g)' = RefSet(g)
<1>1. \A g : /\ RefSet(g) \in SUBSET (Procs \X Fds)
             /\ \A q \in Procs, e \in Fds : <<q, e>> \in RefSet(g) <=> Holds(q, e) /\ ofile[q][e] = g
  BY RefPair
<1>2. Cardinality(RefSet(f)') = Cardinality(RefSet(f)) + 1
  <2> DEFINE T == RefSet(f) \cup {<<p, d>>}
  <2>1. T \in SUBSET (Procs \X Fds) /\ <<p, d>> \notin RefSet(f)
    BY <1>1
  <2>2. ASSUME NEW q \in Procs, NEW e \in Fds
        PROVE  (Holds(q, e)' /\ ofile'[q][e] = f) <=> <<q, e>> \in T
    <3>1. CASE q = p /\ e = d
      BY <3>1
    <3>2. CASE q # p \/ e # d
      <4>1. <<q, e>> \in T <=> <<q, e>> \in RefSet(f)
        BY <3>2
      <4>2. (Holds(q, e)' <=> Holds(q, e)) /\ (Holds(q, e) => ofile'[q][e] = ofile[q][e])
        BY <3>2
      <4> HIDE DEF T
      <4> QED BY <1>1, <4>1, <4>2
    <3> QED BY <3>1, <3>2
  <2>3. Cardinality(T) = Cardinality(RefSet(f)) + 1
    BY <2>1, Finite, Counting
  <2> HIDE DEF T
  <2>4. RefSet(f)' = T
    BY <2>1, <2>2, RefSetAfter
  <2> QED BY <2>3, <2>4
<1>3. ASSUME NEW g \in Files, g # f PROVE RefSet(g)' = RefSet(g)
  <2>1. ASSUME NEW q \in Procs, NEW e \in Fds
        PROVE  (Holds(q, e)' /\ ofile'[q][e] = g) <=> <<q, e>> \in RefSet(g)
    <3>1. CASE q = p /\ e = d
      BY <1>1, <1>3, <3>1
    <3>2. CASE q # p \/ e # d
      <4>1. (Holds(q, e)' <=> Holds(q, e)) /\ (Holds(q, e) => ofile'[q][e] = ofile[q][e])
        BY <3>2
      <4> QED BY <1>1, <4>1
    <3> QED BY <3>1, <3>2
  <2> QED BY <1>1, <2>1, RefSetAfter
<1> QED BY <1>2, <1>3

(* The count of one file is changed.                                        *)
LEMMA CountSet ==
    ASSUME TypeOK, NEW f \in Files, NEW n \in Nat, file' = [file EXCEPT ![f].ref_count = n]
    PROVE  /\ file' \in [Files -> FileRec] /\ file'[f].ref_count = n
           /\ \A g \in Files : /\ g # f => file'[g] = file[g]
                               /\ file'[g].inode = file[g].inode /\ file'[g].type = file[g].type
                               /\ file'[g].pipe = file[g].pipe /\ file'[g].flags = file[g].flags
<1> DEFINE r == [file[f] EXCEPT !.ref_count = n]
<1>1. file[f] \in FileRec
  BY FileTyped
<1>2. /\ r \in FileRec /\ r.ref_count = n /\ r.inode = file[f].inode
      /\ r.type = file[f].type /\ r.pipe = file[f].pipe /\ r.flags = file[f].flags
  BY <1>1 DEF FileRec
<1>3. file' = [file EXCEPT ![f] = r]
  OBVIOUS
<1> HIDE DEF r
<1>4. file' \in [Files -> FileRec] /\ file'[f] = r /\ \A g \in Files : g # f => file'[g] = file[g]
  BY <1>2, <1>3, FileUpdated
<1> QED BY <1>2, <1>4

(* A copy of a descriptor that is held: what dup() and dup2() do.           *)
LEMMA CopyInv ==
    ASSUME IndInv, NEW p \in Procs, NEW c \in Fds, NEW d \in Fds, NEW f \in Files,
           Holds(p, c), ofile[p][c] = f, ~Holds(p, d), Holds(p, d)', ofile'[p][d] = f,
           \A q \in Procs, e \in Fds : q # p \/ e # d =>
               (Holds(q, e)' <=> Holds(q, e)) /\ (Holds(q, e) => ofile'[q][e] = ofile[q][e]),
           \A g \in Files : OpenSet(g)' = OpenSet(g),
           file' = [file EXCEPT ![f].ref_count = @ + 1],
           UNCHANGED <<i_refcount, writers, lost, overput>>,
           \A q \in Procs : pc'[q] = "none" <=> pc[q] = "none"
    PROVE  /\ file' \in [Files -> FileRec] /\ \A g \in Files : file'[g].pipe = file[g].pipe
           /\ RefsCounted' /\ InodesReferenced' /\ WritersCounted' /\ EndsTyped'
<1>0. TypeOK /\ RefsCounted
  BY DEF IndInv
<1>1. <<p, c>> \in RefSet(f)
  BY RefPair
<1>2. file[f].ref_count \in Nat /\ file[f].ref_count > 0
  BY <1>0, <1>1, RefsOf DEF TypeOK
<1>3. /\ file' \in [Files -> FileRec] /\ file'[f].ref_count = file[f].ref_count + 1
      /\ \A g \in Files : /\ g # f => file'[g] = file[g]
                          /\ file'[g].inode = file[g].inode /\ file'[g].type = file[g].type
                          /\ file'[g].pipe = file[g].pipe /\ file'[g].flags = file[g].flags
  <2>1. PICK n \in Nat : n = file[f].ref_count + 1
    BY <1>2
  <2>2. file' = [file EXCEPT ![f].ref_count = n]
    BY <2>1
  <2> QED BY <1>0, <2>1, <2>2, CountSet
<1>4. /\ Cardinality(RefSet(f)') = Cardinality(RefSet(f)) + 1
      /\ \A g \in Files : g # f => RefSet(g)' = RefSet(g)
  BY OneMore
<1>5. RefsCounted'
  <2>1. file'[f].ref_count = Cardinality(RefSet(f)') + Cardinality(OpenSet(f)') + (IF f \in lost' THEN 1 ELSE 0)
    BY <1>0, <1>3, <1>4, RefsOf
  <2>2. ASSUME NEW g \in Files
        PROVE  file'[g].ref_count = Cardinality(RefSet(g)') + Cardinality(OpenSet(g)') + (IF g \in lost' THEN 1 ELSE 0)
    <3>1. CASE g # f
      BY <1>0, <1>3, <1>4, <3>1, RefsSame
    <3> QED BY <2>1, <3>1
  <2> QED BY <2>2, RefsAfter
<1>6. \A g \in Files : file'[g].ref_count > 0 <=> file[g].ref_count > 0
  BY <1>2, <1>3
<1>7. InodesReferenced' /\ WritersCounted' /\ EndsTyped'
  <2>1. i_refcount' \in [Inodes -> Int] /\ overput' \in Nat
    BY <1>0 DEF TypeOK
  <2>2. \A i \in Inodes : Spare(i)' = Spare(i)
    BY SpareSame
  <2> QED BY <1>3, <1>6, <2>1, <2>2, FilesKept
<1> QED BY <1>3, <1>5, <1>7

(* What is known of the calls under way, after a call of p that does not    *)
(* sleep.                                                                   *)
LEMMA CallsIdle ==
    ASSUME Calls, NEW p \in Procs, pc[p] = "user", UNCHANGED <<pc, arg, at, put, busy, lost>>,
           \A q \in Procs : q # p => ofile'[q] = ofile[q],
           \A q \in Procs : pc[q] = "open" => file'[at[q]].pipe = Null
    PROVE  Calls'
BY DEF Calls

(* file_fd_alloc().                                                         *)
LEMMA FreeFd ==
    ASSUME NEW p \in Procs, FreeFds(p) # {}
    PROVE  First(FreeFds(p)) \in Fds /\ ofile[p][First(FreeFds(p))] = Null
<1>1. FreeFds(p) \in SUBSET (0 .. NOFILE - 1) /\ NOFILE - 1 \in Int
  BY FileAssumption DEF FreeFds, Fds
<1>2. First(FreeFds(p)) \in FreeFds(p)
  BY <1>1, FirstEntry
<1> QED BY <1>2 DEF FreeFds

(* dup().                                                                   *)
LEMMA DupInv ==
    ASSUME IndInv, NEW p \in Procs, NEW c \in Fds, Dup(p, c)
    PROVE  IndInv'
<1>0. TypeOK /\ Calls
  BY DEF IndInv
<1>1. PICK d \in Fds : d = First(FreeFds(p)) /\ ofile[p][d] = Null
  BY FreeFd DEF Dup
<1>2. PICK f \in Files : f = ofile[p][c]
  BY <1>0 DEF Dup, TypeOK
<1>3. /\ pc[p] = "user" /\ file' = [file EXCEPT ![f].ref_count = @ + 1]
      /\ ofile' = [ofile EXCEPT ![p][d] = f]
      /\ UNCHANGED <<readers, writers, i_refcount, linked, pc, arg, at, put, busy, lost, overput>>
  BY <1>1, <1>2 DEF Dup, User, ends, disk, call
<1>4. f # Null /\ c # d
  BY <1>1, <1>2 DEF Dup
<1>5. /\ ofile' \in [Procs -> [Fds -> Files \cup {Null}]] /\ ofile'[p][d] = f
      /\ \A q \in Procs : q # p => ofile'[q] = ofile[q]
      /\ \A q \in Procs, e \in Fds : q # p \/ e # d => ofile'[q][e] = ofile[q][e]
  BY <1>0, <1>3 DEF TypeOK
<1>6. Holds(p, c) /\ ~Holds(p, d) /\ Holds(p, d)'
  BY <1>1, <1>2, <1>3, <1>4, <1>5 DEF Holds
<1>7. \A q \in Procs, e \in Fds : q # p \/ e # d => (Holds(q, e)' <=> Holds(q, e))
  BY <1>3, <1>5 DEF Holds
<1>8. \A g \in Files : OpenSet(g)' = OpenSet(g)
  BY <1>3 DEF OpenSet
<1>9. /\ file' \in [Files -> FileRec] /\ \A g \in Files : file'[g].pipe = file[g].pipe
      /\ RefsCounted' /\ InodesReferenced' /\ WritersCounted' /\ EndsTyped'
  <2>1. \A q \in Procs, e \in Fds : q # p \/ e # d =>
            (Holds(q, e)' <=> Holds(q, e)) /\ (Holds(q, e) => ofile'[q][e] = ofile[q][e])
    BY <1>5, <1>7
  <2>2. ofile[p][c] = f /\ ofile'[p][d] = f /\ UNCHANGED <<i_refcount, writers, lost, overput>>
    BY <1>2, <1>3, <1>5
  <2>3. file' = [file EXCEPT ![f].ref_count = @ + 1]
    BY <1>3
  <2>4. \A q \in Procs : pc'[q] = "none" <=> pc[q] = "none"
    BY <1>3
  <2> QED BY <1>6, <1>8, <2>1, <2>2, <2>3, <2>4, CopyInv
<1>10. TypeOK'
  BY <1>0, <1>3, <1>5, <1>9 DEF TypeOK, FileRec
<1>11. Calls'
  <2>1. \A q \in Procs : pc[q] = "open" => file'[at[q]].pipe = Null
    BY <1>0, <1>9 DEF Calls
  <2> QED BY <1>0, <1>3, <1>5, <2>1, CallsIdle
<1> QED BY <1>9, <1>10, <1>11 DEF IndInv

(* dup2() gives out the descriptor that it has closed.                      *)
LEMMA Dup2ReturnInv ==
    ASSUME IndInv, NEW p \in Procs, Dup2Return(p)
    PROVE  IndInv'
<1>0. TypeOK /\ Calls /\ pc[p] = "dup2" /\ busy = p /\ Return(p)
  BY DEF IndInv, Dup2Return, Runs
<1>1. arg[p][1] \in Fds /\ arg[p][2] \in Fds /\ arg[p][1] # arg[p][2] /\ ofile[p][arg[p][1]] # Null /\ put[p] = Null
  BY <1>0 DEF Calls
<1>2. PICK c \in Fds, d \in Fds : c = arg[p][1] /\ d = arg[p][2]
  BY <1>1
<1>3. PICK f \in Files : f = ofile[p][c]
  BY <1>0, <1>1, <1>2 DEF TypeOK
<1>4. /\ file' = [file EXCEPT ![f].ref_count = @ + 1]
      /\ ofile' = [ofile EXCEPT ![p][d] = f]
      /\ UNCHANGED <<readers, writers, i_refcount, linked, lost, overput>>
  BY <1>2, <1>3 DEF Dup2Return, ends, disk
<1>5. /\ ofile' \in [Procs -> [Fds -> Files \cup {Null}]] /\ ofile'[p][d] = f
      /\ \A q \in Procs : q # p => ofile'[q] = ofile[q]
      /\ \A q \in Procs, e \in Fds : q # p \/ e # d => ofile'[q][e] = ofile[q][e]
  BY <1>0, <1>4 DEF TypeOK
<1>6. /\ pc'[p] = "user" /\ f # Null
      /\ \A q \in Procs : q # p => pc'[q] = pc[q] /\ arg'[q] = arg[q] /\ at'[q] = at[q]
  BY <1>0, <1>1, <1>2, <1>3, ReturnFacts
<1>7. Holds(p, c) /\ ~Holds(p, d) /\ Holds(p, d)'
  BY <1>0, <1>1, <1>2, <1>3, <1>5, <1>6 DEF Holds
<1>8. ASSUME NEW q \in Procs, NEW e \in Fds, q # p \/ e # d PROVE Holds(q, e)' <=> Holds(q, e)
  <2>1. CASE q = p
    BY <1>0, <1>2, <1>5, <1>6, <1>8, <2>1 DEF Holds
  <2>2. CASE q # p
    BY <1>5, <1>6, <2>2 DEF Holds
  <2> QED BY <2>1, <2>2
<1>9. \A g \in Files : OpenSet(g)' = OpenSet(g)
  BY <1>0, <1>6 DEF OpenSet
<1>10. /\ file' \in [Files -> FileRec] /\ \A g \in Files : file'[g].pipe = file[g].pipe
       /\ RefsCounted' /\ InodesReferenced' /\ WritersCounted' /\ EndsTyped'
  <2>1. \A q \in Procs, e \in Fds : q # p \/ e # d =>
            (Holds(q, e)' <=> Holds(q, e)) /\ (Holds(q, e) => ofile'[q][e] = ofile[q][e])
    BY <1>5, <1>8
  <2>2. ofile[p][c] = f /\ ofile'[p][d] = f /\ UNCHANGED <<i_refcount, writers, lost, overput>>
    BY <1>3, <1>4, <1>5
  <2>3. file' = [file EXCEPT ![f].ref_count = @ + 1]
    BY <1>4
  <2>4. \A q \in Procs : pc'[q] = "none" <=> pc[q] = "none"
    BY <1>0, <1>6
  <2> QED BY <1>7, <1>9, <2>1, <2>2, <2>3, <2>4, CopyInv
<1>11. TypeOK'
  BY <1>0, <1>4, <1>5, <1>10, ReturnFacts DEF TypeOK, FileRec
<1>12. Calls'
  <2>1. \A q \in Procs : pc[q] = "open" => file'[at[q]].pipe = Null /\ at[q] \notin lost'
    BY <1>0, <1>4, <1>10 DEF Calls
  <2> QED BY <1>0, <1>1, <1>5, <2>1, CallsReturn
<1> QED BY <1>10, <1>11, <1>12 DEF IndInv

-----------------------------------------------------------------------------
(* file_alloc(): a file that is free is nobody's.                           *)
LEMMA FreeFile ==
    ASSUME RefsCounted, NEW f \in FreeFiles
    PROVE  f \in Files /\ file[f].ref_count = 0 /\ RefSet(f) = {} /\ OpenSet(f) = {} /\ f \notin lost
<1>1. f \in Files /\ file[f].ref_count = 0
  BY DEF FreeFiles
<1> QED BY <1>1, RefsOf

(* The two files that file_alloc() finds.                                   *)
LEMMA FreeFilesFound ==
    /\ FreeFiles # {} => First(FreeFiles) \in FreeFiles
    /\ Cardinality(FreeFiles) > 1 =>
         First(FreeFiles) \in FreeFiles /\ Second(FreeFiles) \in FreeFiles /\ First(FreeFiles) # Second(FreeFiles)
<1>1. FreeFiles \in SUBSET (0 .. NFILE - 1) /\ NFILE - 1 \in Int
  BY FileAssumption DEF FreeFiles, Files
<1> QED BY <1>1, FirstEntry, SecondEntry

(* A struct file as file_alloc() makes it.                                  *)
LEMMA AllocatedRec ==
    /\ Allocated \in FileRec /\ Allocated.ref_count = 1 /\ Allocated.inode = Null
    /\ Allocated.type = "FT_INODE" /\ Allocated.pipe = Null
    /\ GivenBack \in FileRec /\ GivenBack.ref_count = 0 /\ GivenBack.inode = Null
    /\ GivenBack.type = "FT_INODE" /\ GivenBack.pipe = Null
BY DEF Allocated, GivenBack, FileRec

(* And as namei() finds it.                                                 *)
LEMMA StartedRec ==
    ASSUME NEW r, r = [Allocated EXCEPT !.inode = Dir]
    PROVE  r \in FileRec /\ r.ref_count = 1 /\ r.inode = Dir /\ r.type = "FT_INODE" /\ r.pipe = Null
BY FileAssumption DEF Allocated, FileRec

(* The beginning of open(), up to namei().                                  *)
LEMMA OpenStartInv ==
    ASSUME IndInv, NEW p \in Procs, OpenStart(p)
    PROVE  IndInv'
<1>0. TypeOK /\ RefsCounted /\ EndsTyped /\ Calls
  BY DEF IndInv
<1>1. PICK f \in FreeFiles : f = First(FreeFiles)
  BY FreeFilesFound DEF OpenStart
<1>2. f \in Files /\ file[f].ref_count = 0 /\ RefSet(f) = {} /\ OpenSet(f) = {} /\ f \notin lost
  BY <1>0, FreeFile
<1>3. /\ pc[p] = "user" /\ busy = NoProc /\ file' = [file EXCEPT ![f] = [Allocated EXCEPT !.inode = Dir]]
      /\ i_refcount' = [i_refcount EXCEPT ![Dir] = @ + 1]
      /\ at' = [at EXCEPT ![p] = f] /\ pc' = [pc EXCEPT ![p] = "open"]
      /\ UNCHANGED <<ofile, readers, writers, linked, arg, put, busy, lost, overput>>
  BY <1>1 DEF OpenStart, User, ends
<1>4. PICK r \in FileRec :
        /\ r.ref_count = 1 /\ r.inode = Dir /\ r.type = "FT_INODE" /\ r.pipe = Null
        /\ file' \in [Files -> FileRec] /\ file'[f] = r /\ \A g \in Files : g # f => file'[g] = file[g]
  <2>1. PICK r : r = [Allocated EXCEPT !.inode = Dir]
    OBVIOUS
  <2>2. r \in FileRec /\ r.ref_count = 1 /\ r.inode = Dir /\ r.type = "FT_INODE" /\ r.pipe = Null
    BY <2>1, StartedRec
  <2>3. file' = [file EXCEPT ![f] = r]
    BY <1>3, <2>1
  <2>4. file' \in [Files -> FileRec] /\ file'[f] = r /\ \A g \in Files : g # f => file'[g] = file[g]
    BY <1>0, <1>2, <2>2, <2>3, FileUpdated
  <2> QED BY <2>2, <2>4
<1>5. /\ at'[p] = f /\ pc'[p] = "open" /\ \A q \in Procs : q # p => at'[q] = at[q] /\ pc'[q] = pc[q]
  BY <1>0, <1>3 DEF TypeOK
<1>6. ASSUME NEW g \in Files PROVE RefSet(g)' = RefSet(g)
  <2>1. \A q \in Procs, e \in Fds : Holds(q, e)' <=> Holds(q, e)
    BY <1>3, <1>5 DEF Holds
  <2>2. /\ RefSet(g) \in SUBSET (Procs \X Fds)
        /\ \A q \in Procs, e \in Fds : <<q, e>> \in RefSet(g) <=> Holds(q, e) /\ ofile[q][e] = g
    BY RefPair
  <2>3. \A q \in Procs, e \in Fds : (Holds(q, e)' /\ ofile'[q][e] = g) <=> <<q, e>> \in RefSet(g)
    BY <1>3, <2>1, <2>2
  <2> QED BY <2>2, <2>3, RefSetAfter
<1>7. OpenSet(f)' = {p} /\ \A g \in Files : g # f => OpenSet(g)' = OpenSet(g)
  BY <1>2, <1>3, <1>5 DEF OpenSet
<1>8. RefsCounted'
  <2>1. Cardinality(RefSet(f)') = 0 /\ Cardinality(OpenSet(f)') = 1
    BY <1>2, <1>6, <1>7, FS_EmptySet, FS_Singleton
  <2>2. file'[f].ref_count = Cardinality(RefSet(f)') + Cardinality(OpenSet(f)') + (IF f \in lost' THEN 1 ELSE 0)
    <3>1. file'[f].ref_count = 1 /\ f \notin lost'
      BY <1>2, <1>3, <1>4
    <3> QED BY <2>1, <3>1
  <2>3. ASSUME NEW g \in Files
        PROVE  file'[g].ref_count = Cardinality(RefSet(g)') + Cardinality(OpenSet(g)') + (IF g \in lost' THEN 1 ELSE 0)
    <3>1. CASE g # f
      BY <1>0, <1>3, <1>4, <1>6, <1>7, <3>1, RefsSame
    <3> QED BY <2>2, <3>1
  <2> QED BY <2>3, RefsAfter
<1>9. i_refcount' \in [Inodes -> Int] /\ InodesReferenced'
  <2>1. /\ i_refcount' \in [Inodes -> Int] /\ overput' \in Nat /\ Dir \in Inodes
        /\ i_refcount'[Dir] = i_refcount[Dir] + 1 /\ \A i \in Inodes : i # Dir => i_refcount'[i] = i_refcount[i]
    BY <1>0, <1>3, FileAssumption DEF TypeOK
  <2>2. \A i \in Inodes : Owed(i)' = Owed(i) /\ Owed(i) \in Int /\ i_refcount[i] \in Int
    BY <1>0, <1>3, <1>5, OwedSame, SpareIs
  <2>3. Spare(Dir)' = Spare(Dir) + 1 /\ \A i \in Inodes : i # Dir => Spare(i)' = Spare(i)
    BY <2>1, <2>2 DEF Spare
  <2>4. OpenOn(Dir)' \subseteq OpenOn(Dir) \cup {f} /\ \A i \in Inodes : i # Dir => OpenOn(i)' \subseteq OpenOn(i)
    BY <1>4 DEF OpenOn
  <2>5. \A i \in Inodes :
          \/ Spare(i)' = Spare(i) /\ OpenOn(i)' \subseteq OpenOn(i)
          \/ Spare(i)' = Spare(i) + 1 /\ OpenOn(i)' \subseteq OpenOn(i) \cup {f}
    BY <2>3, <2>4
  <2> QED BY <1>0, <2>1, <2>5, InodesChanged DEF IndInv
<1>10. WritersCounted'
  <2>1. \A k \in Pipes : k # Null
    BY FileAssumption DEF Pipes
  <2>2. \A k \in Pipes : OpenEnds(k, "wr")' = OpenEnds(k, "wr")
    BY <1>2, <1>4, <2>1 DEF OpenEnds
  <2> QED BY <1>3, <2>2, WritersKept DEF IndInv
<1>11. EndsTyped'
  BY <1>0, <1>4 DEF EndsTyped
<1>12. TypeOK'
  BY <1>0, <1>2, <1>3, <1>4, <1>9 DEF TypeOK, FileRec
<1>13. Calls'
  <2>1. \A q \in Procs : pc[q] = "open" => at[q] # f
    BY <1>2 DEF OpenSet
  <2>2. put[p] = Null /\ file'[f].pipe = Null
    BY <1>0, <1>3, <1>4 DEF Calls
  <2> QED BY <1>0, <1>2, <1>3, <1>4, <1>5, <2>1, <2>2 DEF Calls
<1> QED BY <1>8, <1>9, <1>10, <1>11, <1>12, <1>13 DEF IndInv

(* The end of open(), with a descriptor or without one.                     *)
LEMMA OpenLeft ==
    ASSUME TypeOK, NEW p \in Procs, NEW f \in Files, pc[p] = "open", at[p] = f, Return(p)
    PROVE  /\ Cardinality(OpenSet(f)') = Cardinality(OpenSet(f)) - 1
           /\ \A g \in Files : g # f => OpenSet(g)' = OpenSet(g)
<1>1. /\ pc'[p] = "user"
      /\ \A q \in Procs : q # p => pc'[q] = pc[q] /\ at'[q] = at[q]
  BY ReturnFacts
<1>2. OpenSet(f)' = OpenSet(f) \ {p} /\ p \in OpenSet(f) /\ \A g \in Files : g # f => OpenSet(g)' = OpenSet(g)
  BY <1>1 DEF OpenSet
<1> QED BY <1>2, Finite, Counting

(* open() of a file that is not there, or that may not be opened.           *)
LEMMA OpenErrorInv ==
    ASSUME IndInv, NEW p \in Procs, OpenError(p) \/ OpenDenied(p)
    PROVE  IndInv'
<1>0. TypeOK /\ RefsCounted /\ EndsTyped /\ Calls /\ pc[p] = "open" /\ busy = NoProc /\ Return(p)
  BY DEF IndInv, OpenError, OpenDenied, NameiReturns
<1>1. PICK f \in Files : f = at[p]
  BY <1>0 DEF Calls
<1>2. f \notin lost /\ file[f].pipe = Null /\ put[p] = Null
  BY <1>0, <1>1 DEF Calls
<1>3. /\ file[f].inode = Dir /\ file' = [file EXCEPT ![f].ref_count = @ - 1, ![f].inode = Null]
      /\ \/ i_refcount' = [i_refcount EXCEPT ![Dir] = @ - 2] /\ overput' = overput + 1
         \/ i_refcount' = [i_refcount EXCEPT ![Dir] = @ - 1] /\ UNCHANGED overput
      /\ UNCHANGED <<ofile, readers, writers, linked, lost>>
  BY <1>1 DEF OpenError, OpenDenied, NameiReturns, ends
<1>4. p \in OpenSet(f)
  BY <1>0, <1>1 DEF OpenSet
<1>5. file[f].ref_count \in Nat /\ file[f].ref_count > 0
  BY <1>0, <1>4, RefsOf DEF TypeOK
<1>6. /\ file' \in [Files -> FileRec] /\ file'[f].ref_count = file[f].ref_count - 1 /\ file'[f].inode = Null
      /\ \A g \in Files : /\ g # f => file'[g] = file[g]
                          /\ file'[g].type = file[g].type
                          /\ file'[g].pipe = file[g].pipe /\ file'[g].flags = file[g].flags
  <2> DEFINE r == [file[f] EXCEPT !.ref_count = @ - 1, !.inode = Null]
  <2>1. file[f] \in FileRec /\ file[f].ref_count - 1 \in Nat
    BY <1>0, <1>5, FileTyped
  <2>2. /\ r \in FileRec /\ r.ref_count = file[f].ref_count - 1 /\ r.inode = Null
        /\ r.type = file[f].type /\ r.pipe = file[f].pipe /\ r.flags = file[f].flags
    BY <2>1 DEF FileRec
  <2>3. file' = [file EXCEPT ![f] = r]
    BY <1>0, <1>3, FileTyped DEF FileRec
  <2> HIDE DEF r
  <2>4. file' \in [Files -> FileRec] /\ file'[f] = r /\ \A g \in Files : g # f => file'[g] = file[g]
    BY <1>0, <2>2, <2>3, FileUpdated
  <2> QED BY <2>2, <2>4
<1>7. /\ pc'[p] = "user"
      /\ \A q \in Procs : q # p => pc'[q] = pc[q] /\ arg'[q] = arg[q] /\ at'[q] = at[q]
  BY <1>0, ReturnFacts
<1>8. \A q \in Procs, e \in Fds : Holds(q, e)' <=> Holds(q, e)
  BY <1>0, <1>3, <1>7 DEF Holds
<1>9. ASSUME NEW g \in Files PROVE RefSet(g)' = RefSet(g)
  <2>1. /\ RefSet(g) \in SUBSET (Procs \X Fds)
        /\ \A q \in Procs, e \in Fds : <<q, e>> \in RefSet(g) <=> Holds(q, e) /\ ofile[q][e] = g
    BY RefPair
  <2>2. \A q \in Procs, e \in Fds : (Holds(q, e)' /\ ofile'[q][e] = g) <=> <<q, e>> \in RefSet(g)
    BY <1>3, <1>8, <2>1
  <2> QED BY <2>1, <2>2, RefSetAfter
<1>10. /\ Cardinality(OpenSet(f)') = Cardinality(OpenSet(f)) - 1
       /\ \A g \in Files : g # f => OpenSet(g)' = OpenSet(g)
  BY <1>0, <1>1, OpenLeft
<1>11. RefsCounted'
  <2>1. file'[f].ref_count = Cardinality(RefSet(f)') + Cardinality(OpenSet(f)') + (IF f \in lost' THEN 1 ELSE 0)
    BY <1>0, <1>3, <1>6, <1>9, <1>10, RefsOf
  <2>2. ASSUME NEW g \in Files
        PROVE  file'[g].ref_count = Cardinality(RefSet(g)') + Cardinality(OpenSet(g)') + (IF g \in lost' THEN 1 ELSE 0)
    <3>1. CASE g # f
      BY <1>0, <1>3, <1>6, <1>9, <1>10, <3>1, RefsSame
    <3> QED BY <2>1, <3>1
  <2> QED BY <2>2, RefsAfter
<1>12. i_refcount' \in [Inodes -> Int] /\ overput' \in Nat /\ InodesReferenced'
  <2>1. /\ i_refcount \in [Inodes -> Int] /\ overput \in Nat /\ Dir \in Inodes /\ Live' = Live
        /\ Cardinality(Live) \in Nat
    BY <1>0, <1>7, FileAssumption, Finite, FS_CardinalityType DEF TypeOK, Live
  <2>2. i_refcount' \in [Inodes -> Int] /\ overput' \in Nat
    BY <1>3, <2>1
  <2>3. Spare(Dir)' = Spare(Dir) - 1
    BY <1>3, <2>1 DEF Spare, Owed
  <2>4. \A i \in Inodes : i # Dir => Spare(i)' = Spare(i)
    BY <1>3, <2>1 DEF Spare, Owed
  <2>5. /\ f \in OpenOn(Dir) /\ OpenOn(Dir)' \subseteq OpenOn(Dir) \ {f}
        /\ \A i \in Inodes : i # Dir => OpenOn(i)' \subseteq OpenOn(i)
    BY <1>3, <1>5, <1>6, FileAssumption DEF OpenOn
  <2>6. \A i \in Inodes :
          \/ Spare(i)' = Spare(i) /\ OpenOn(i)' \subseteq OpenOn(i)
          \/ Spare(i)' = Spare(i) - 1 /\ f \in OpenOn(i) /\ OpenOn(i)' \subseteq OpenOn(i) \ {f}
    BY <2>3, <2>4, <2>5
  <2> QED BY <1>0, <2>2, <2>6, InodesChanged DEF IndInv
<1>13. WritersCounted'
  <2>1. \A k \in Pipes : k # Null
    BY FileAssumption DEF Pipes
  <2>2. \A k \in Pipes : OpenEnds(k, "wr")' = OpenEnds(k, "wr")
    BY <1>2, <1>6, <2>1 DEF OpenEnds
  <2> QED BY <1>3, <2>2, WritersKept DEF IndInv
<1>14. EndsTyped'
  BY <1>0, <1>6 DEF EndsTyped
<1>15. TypeOK'
  BY <1>0, <1>3, <1>6, <1>12, ReturnFacts DEF TypeOK, FileRec
<1>16. Calls'
  <2>1. \A q \in Procs : pc[q] = "open" => file'[at[q]].pipe = Null /\ at[q] \notin lost'
    BY <1>0, <1>3, <1>6 DEF Calls
  <2> QED BY <1>0, <1>2, <1>3, <2>1, CallsReturn
<1> QED BY <1>11, <1>12, <1>13, <1>14, <1>15, <1>16 DEF IndInv

(* file_fd_alloc() gives out a descriptor for the file, or open() loses it  *)
(* when there is none.                                                      *)
LEMMA FdGiven ==
    ASSUME IndInv, NEW p \in Procs, pc[p] = "open", NEW f \in Files, f = at[p], GivesFd(p), Return(p),
           \A g \in Files : file'[g].ref_count = file[g].ref_count
    PROVE  /\ ofile' \in [Procs -> [Fds -> Files \cup {Null}]] /\ \A q \in Procs : q # p => ofile'[q] = ofile[q]
           /\ lost' \subseteq lost \cup {f}
           /\ RefsCounted'
<1>0. TypeOK /\ RefsCounted /\ EndsTyped /\ Calls
  BY DEF IndInv
<1>1. f \in Files /\ f = at[p]
  OBVIOUS
<1>2. f \notin lost
  BY <1>0 DEF Calls
<1>4. \A g \in Files : file'[g].ref_count = file[g].ref_count
  OBVIOUS
<1>5. /\ pc'[p] = "user"
      /\ \A q \in Procs : q # p => pc'[q] = pc[q] /\ arg'[q] = arg[q] /\ at'[q] = at[q]
  BY <1>0, ReturnFacts
<1>6. /\ Cardinality(OpenSet(f)') = Cardinality(OpenSet(f)) - 1
      /\ \A g \in Files : g # f => OpenSet(g)' = OpenSet(g)
  BY <1>0, <1>1, OpenLeft
<1>11. CASE FreeFds(p) = {}
  <2>1. lost' = lost \cup {f} /\ UNCHANGED ofile
    BY <1>1, <1>11 DEF GivesFd
  <2>2. \A q \in Procs, e \in Fds : Holds(q, e)' <=> Holds(q, e)
    BY <1>0, <1>5, <2>1 DEF Holds
  <2>3. ASSUME NEW g \in Files PROVE RefSet(g)' = RefSet(g)
    <3>1. /\ RefSet(g) \in SUBSET (Procs \X Fds)
          /\ \A q \in Procs, e \in Fds : <<q, e>> \in RefSet(g) <=> Holds(q, e) /\ ofile[q][e] = g
      BY RefPair
    <3>2. \A q \in Procs, e \in Fds : (Holds(q, e)' /\ ofile'[q][e] = g) <=> <<q, e>> \in RefSet(g)
      BY <2>1, <2>2, <3>1
    <3> QED BY <3>1, <3>2, RefSetAfter
  <2>4. file'[f].ref_count = Cardinality(RefSet(f)') + Cardinality(OpenSet(f)') + (IF f \in lost' THEN 1 ELSE 0)
    BY <1>0, <1>2, <1>4, <1>6, <2>1, <2>3, RefsOf
  <2>5. ASSUME NEW g \in Files
        PROVE  file'[g].ref_count = Cardinality(RefSet(g)') + Cardinality(OpenSet(g)') + (IF g \in lost' THEN 1 ELSE 0)
    <3>1. CASE g # f
      BY <1>0, <1>4, <1>6, <2>1, <2>3, <3>1, RefsSame
    <3> QED BY <2>4, <3>1
  <2>6. RefsCounted'
    BY <2>5, RefsAfter
  <2> QED BY <1>0, <2>1, <2>6 DEF TypeOK
<1>12. CASE FreeFds(p) # {}
  <2>1. PICK d \in Fds : d = First(FreeFds(p)) /\ ofile[p][d] = Null
    BY <1>12, FreeFd
  <2>2. ofile' = [ofile EXCEPT ![p][d] = f] /\ UNCHANGED lost
    BY <1>1, <1>12, <2>1 DEF GivesFd
  <2>3. /\ ofile' \in [Procs -> [Fds -> Files \cup {Null}]] /\ ofile'[p][d] = f
        /\ \A q \in Procs : q # p => ofile'[q] = ofile[q]
        /\ \A q \in Procs, e \in Fds : q # p \/ e # d => ofile'[q][e] = ofile[q][e]
    BY <1>0, <2>2 DEF TypeOK
  <2>4. f # Null
    BY FileAssumption DEF Files
  <2>5. ~Holds(p, d) /\ Holds(p, d)'
    BY <1>5, <2>1, <2>3, <2>4 DEF Holds
  <2>6. ASSUME NEW q \in Procs, NEW e \in Fds, q # p \/ e # d
        PROVE  (Holds(q, e)' <=> Holds(q, e)) /\ (Holds(q, e) => ofile'[q][e] = ofile[q][e])
    <3>1. ofile'[q][e] = ofile[q][e]
      BY <2>3, <2>6
    <3>2. CASE q = p
      BY <1>0, <1>5, <3>1, <3>2 DEF Holds
    <3>3. CASE q # p
      BY <1>5, <3>1, <3>3 DEF Holds
    <3> QED BY <3>1, <3>2, <3>3
  <2>7. /\ Cardinality(RefSet(f)') = Cardinality(RefSet(f)) + 1
        /\ \A g \in Files : g # f => RefSet(g)' = RefSet(g)
    <3>1. ofile'[p][d] = f
      BY <2>3
    <3> QED BY <2>5, <2>6, <3>1, OneMore
  <2>8. file'[f].ref_count = Cardinality(RefSet(f)') + Cardinality(OpenSet(f)') + (IF f \in lost' THEN 1 ELSE 0)
    BY <1>0, <1>4, <1>6, <2>2, <2>7, RefsOf
  <2>9. ASSUME NEW g \in Files
        PROVE  file'[g].ref_count = Cardinality(RefSet(g)') + Cardinality(OpenSet(g)') + (IF g \in lost' THEN 1 ELSE 0)
    <3>1. CASE g # f
      BY <1>0, <1>4, <1>6, <2>2, <2>7, <3>1, RefsSame
    <3> QED BY <2>8, <3>1
  <2>10. RefsCounted'
    BY <2>9, RefsAfter
  <2> QED BY <2>2, <2>3, <2>10
<1> QED BY <1>11, <1>12

(* namei() has found the inode: the file is the inode's, no more the        *)
(* directory's.                                                             *)
LEMMA OpenDoneInv ==
    ASSUME IndInv, NEW p \in Procs, NEW i \in Inodes, OpenDone(p, i)
    PROVE  IndInv'
<1>0. TypeOK /\ RefsCounted /\ EndsTyped /\ Calls /\ pc[p] = "open" /\ busy = NoProc /\ Return(p)
  BY DEF IndInv, OpenDone, NameiReturns
<1>1. PICK f \in Files : f = at[p]
  BY <1>0 DEF Calls
<1>2. f \notin lost /\ file[f].pipe = Null /\ put[p] = Null
  BY <1>0, <1>1 DEF Calls
<1>3. /\ file[f].inode = Dir /\ file' = [file EXCEPT ![f].inode = i]
      /\ i_refcount' = [j \in Inodes |-> i_refcount[j] + (IF j = i THEN 1 ELSE 0) - (IF j = Dir THEN 1 ELSE 0)]
      /\ linked' = [linked EXCEPT ![i] = TRUE]
      /\ UNCHANGED <<readers, writers, overput>>
  BY <1>1 DEF OpenDone, NameiReturns, ends
<1>4. /\ file' \in [Files -> FileRec]
      /\ \A g \in Files : /\ g # f => file'[g] = file[g]
                          /\ file'[g].ref_count = file[g].ref_count /\ file'[g].type = file[g].type
                          /\ file'[g].pipe = file[g].pipe /\ file'[g].flags = file[g].flags
  <2> DEFINE r == [file[f] EXCEPT !.inode = i]
  <2>1. file[f] \in FileRec
    BY <1>0, FileTyped
  <2>2. /\ r \in FileRec /\ r.ref_count = file[f].ref_count
        /\ r.type = file[f].type /\ r.pipe = file[f].pipe /\ r.flags = file[f].flags
    BY <2>1 DEF FileRec
  <2>3. file' = [file EXCEPT ![f] = r]
    BY <1>3
  <2> HIDE DEF r
  <2>4. file' \in [Files -> FileRec] /\ file'[f] = r /\ \A g \in Files : g # f => file'[g] = file[g]
    BY <1>0, <2>2, <2>3, FileUpdated
  <2> QED BY <2>2, <2>4
<1>5. /\ pc'[p] = "user"
      /\ \A q \in Procs : q # p => pc'[q] = pc[q] /\ arg'[q] = arg[q] /\ at'[q] = at[q]
  BY <1>0, ReturnFacts
<1>6. file[f].ref_count \in Nat /\ file[f].ref_count > 0
  <2>1. p \in OpenSet(f)
    BY <1>0, <1>1 DEF OpenSet
  <2> QED BY <1>0, <2>1, RefsOf DEF TypeOK
<1>7. /\ ofile' \in [Procs -> [Fds -> Files \cup {Null}]] /\ \A q \in Procs : q # p => ofile'[q] = ofile[q]
      /\ lost' \subseteq lost \cup {f}
      /\ RefsCounted'
  <2>1. GivesFd(p)
    BY DEF OpenDone
  <2>2. \A g \in Files : file'[g].ref_count = file[g].ref_count
    BY <1>4
  <2> QED BY <1>0, <1>1, <2>1, <2>2, FdGiven
<1>8. i_refcount' \in [Inodes -> Int] /\ InodesReferenced'
  <2>1. /\ i_refcount \in [Inodes -> Int] /\ overput' \in Nat /\ Dir \in Inodes
        /\ \A j \in Inodes : Owed(j)' = Owed(j) /\ Owed(j) \in Int
    BY <1>0, <1>3, <1>5, OwedSame, SpareIs, FileAssumption DEF TypeOK
  <2>2. i_refcount' \in [Inodes -> Int]
    BY <1>3, <2>1
  <2>3. file'[f].inode = i
    BY <1>0, <1>3, FileTyped DEF FileRec
  <2>4. ASSUME NEW j \in Inodes
        PROVE  \/ Spare(j)' = Spare(j) /\ OpenOn(j)' \subseteq OpenOn(j)
               \/ Spare(j)' = Spare(j) + 1 /\ OpenOn(j)' \subseteq OpenOn(j) \cup {f}
               \/ Spare(j)' = Spare(j) - 1 /\ f \in OpenOn(j) /\ OpenOn(j)' \subseteq OpenOn(j) \ {f}
    <3>1. CASE j = i /\ j = Dir
      <4>1. Spare(j)' = Spare(j)
        BY <1>3, <2>1, <3>1 DEF Spare
      <4>2. OpenOn(j)' \subseteq OpenOn(j)
        BY <1>3, <1>4, <3>1 DEF OpenOn
      <4> QED BY <4>1, <4>2
    <3>2. CASE j = i /\ j # Dir
      <4>1. Spare(j)' = Spare(j) + 1
        BY <1>3, <2>1, <3>2 DEF Spare
      <4>2. OpenOn(j)' \subseteq OpenOn(j) \cup {f}
        BY <1>4 DEF OpenOn
      <4> QED BY <4>1, <4>2
    <3>3. CASE j # i /\ j = Dir
      <4>1. Spare(j)' = Spare(j) - 1
        BY <1>3, <2>1, <3>3 DEF Spare
      <4>2. f \in OpenOn(j) /\ OpenOn(j)' \subseteq OpenOn(j) \ {f}
        BY <1>3, <1>4, <1>6, <2>3, <3>3 DEF OpenOn
      <4> QED BY <4>1, <4>2
    <3>4. CASE j # i /\ j # Dir
      <4>1. Spare(j)' = Spare(j)
        BY <1>3, <2>1, <3>4 DEF Spare
      <4>2. OpenOn(j)' \subseteq OpenOn(j)
        BY <1>4, <2>3, <3>4 DEF OpenOn
      <4> QED BY <4>1, <4>2
    <3> QED BY <3>1, <3>2, <3>3, <3>4
  <2> QED BY <1>0, <2>1, <2>2, <2>4, InodesChanged DEF IndInv
<1>9. WritersCounted'
  <2>1. \A k \in Pipes : OpenEnds(k, "wr")' = OpenEnds(k, "wr")
    BY <1>4 DEF OpenEnds
  <2> QED BY <1>3, <2>1, WritersKept DEF IndInv
<1>10. EndsTyped'
  BY <1>0, <1>4 DEF EndsTyped
<1>11. TypeOK'
  BY <1>0, <1>3, <1>4, <1>7, <1>8, ReturnFacts DEF TypeOK, FileRec
<1>12. Calls'
  <2>1. \A q \in Procs : pc[q] = "open" => file'[at[q]].pipe = Null
    BY <1>0, <1>4 DEF Calls
  <2>2. \A q \in Procs : q # p /\ pc[q] = "open" => at[q] \notin lost'
    BY <1>0, <1>1, <1>7 DEF Calls
  <2> QED BY <1>0, <1>2, <1>7, <2>1, <2>2, CallsReturn
<1> QED BY <1>7, <1>8, <1>9, <1>10, <1>11, <1>12 DEF IndInv

(* open() with O_CREAT that creates nothing: the file is the directory's,   *)
(* which has a reference less than it should.                               *)
LEMMA OpenUncreatedInv ==
    ASSUME IndInv, NEW p \in Procs, OpenUncreated(p)
    PROVE  IndInv'
<1>0. TypeOK /\ RefsCounted /\ EndsTyped /\ Calls /\ pc[p] = "open" /\ busy = NoProc /\ Return(p)
  BY DEF IndInv, OpenUncreated, NameiReturns
<1>1. PICK f \in Files : f = at[p]
  BY <1>0 DEF Calls
<1>2. put[p] = Null
  BY <1>0 DEF Calls
<1>3. /\ i_refcount' = [i_refcount EXCEPT ![Dir] = @ - 1] /\ overput' = overput + 1
      /\ UNCHANGED <<file, readers, writers, linked>>
  BY DEF OpenUncreated, ends
<1>4. \A q \in Procs : pc'[q] = "none" <=> pc[q] = "none"
  BY <1>0, ReturnFacts
<1>5. \A g \in Files : file'[g] = file[g]
  BY <1>3
<1>6. /\ ofile' \in [Procs -> [Fds -> Files \cup {Null}]] /\ \A q \in Procs : q # p => ofile'[q] = ofile[q]
      /\ lost' \subseteq lost \cup {f}
      /\ RefsCounted'
  <2>1. GivesFd(p)
    BY DEF OpenUncreated
  <2> QED BY <1>0, <1>1, <1>5, <2>1, FdGiven
<1>7. i_refcount' \in [Inodes -> Int] /\ overput' \in Nat
  BY <1>0, <1>3, FileAssumption DEF TypeOK
<1>8. \A i \in Inodes : Spare(i)' = Spare(i)
  <2>1. /\ i_refcount \in [Inodes -> Int] /\ overput \in Nat /\ Live' = Live /\ Cardinality(Live) \in Nat
    BY <1>0, <1>4, Finite, FS_CardinalityType DEF TypeOK, Live
  <2> QED BY <1>3, <2>1 DEF Spare, Owed
<1>9. InodesReferenced' /\ WritersCounted' /\ EndsTyped'
  BY <1>3, <1>5, <1>7, <1>8, FilesKept
<1>10. TypeOK'
  BY <1>0, <1>3, <1>6, <1>7, ReturnFacts DEF TypeOK
<1>11. Calls'
  <2>1. \A q \in Procs : pc[q] = "open" => file'[at[q]].pipe = Null
    BY <1>0, <1>3 DEF Calls
  <2>2. \A q \in Procs : q # p /\ pc[q] = "open" => at[q] \notin lost'
    BY <1>0, <1>1, <1>6 DEF Calls
  <2> QED BY <1>0, <1>2, <1>6, <2>1, <2>2, CallsReturn
<1> QED BY <1>6, <1>9, <1>10, <1>11 DEF IndInv

-----------------------------------------------------------------------------
(* pipe() that fails gives back files that are free.                        *)
LEMMA PipeErrorInv ==
    ASSUME IndInv, NEW p \in Procs, pc[p] = "user", NEW S \in SUBSET FreeFiles, PipeError(S)
    PROVE  IndInv'
<1>0. TypeOK /\ RefsCounted /\ EndsTyped /\ Calls
  BY DEF IndInv
<1>1. /\ file' = [f \in Files |-> IF f \in S THEN GivenBack ELSE file[f]]
      /\ UNCHANGED <<ofile, readers, writers, i_refcount, linked, pc, arg, at, put, busy, lost, overput>>
  BY DEF PipeError, ends, disk, call
<1>2. \A f \in S : file[f].ref_count = 0 /\ OpenSet(f) = {}
  BY <1>0, FreeFile
<1>3. file' \in [Files -> FileRec] /\ \A f \in Files : file'[f] = IF f \in S THEN GivenBack ELSE file[f]
  BY <1>0, <1>1, AllocatedRec, FileTyped
<1>4. RefsCounted'
  <2>1. \A q \in Procs, e \in Fds : (Holds(q, e)' <=> Holds(q, e)) /\ ofile'[q][e] = ofile[q][e]
    BY <1>1 DEF Holds
  <2>2. \A f \in Files : OpenSet(f)' = OpenSet(f)
    BY <1>1 DEF OpenSet
  <2>3. \A f \in Files : file'[f].ref_count = file[f].ref_count
    BY <1>2, <1>3, AllocatedRec
  <2> QED BY <1>0, <1>1, <2>1, <2>2, <2>3, RefsKept
<1>5. InodesReferenced'
  <2>1. \A i \in Inodes : OpenOn(i)' \subseteq OpenOn(i)
    BY <1>3, AllocatedRec, FileAssumption DEF OpenOn
  <2>2. i_refcount' \in [Inodes -> Int] /\ overput' \in Nat /\ \A i \in Inodes : Spare(i)' = Spare(i)
    BY <1>0, <1>1, SpareSame DEF TypeOK
  <2> QED BY <2>1, <2>2, InodesKept DEF IndInv
<1>6. WritersCounted'
  <2>1. \A k \in Pipes : OpenEnds(k, "wr")' = OpenEnds(k, "wr")
    BY <1>2, <1>3, AllocatedRec DEF OpenEnds
  <2> QED BY <1>1, <2>1, WritersKept DEF IndInv
<1>7. EndsTyped'
  BY <1>0, <1>3, AllocatedRec DEF EndsTyped
<1>8. TypeOK'
  BY <1>0, <1>1, <1>3 DEF TypeOK, FileRec
<1>9. Calls'
  <2>1. \A q \in Procs : pc[q] = "open" => file'[at[q]].pipe = Null
    BY <1>0, <1>3, AllocatedRec DEF Calls
  <2> QED BY <1>0, <1>1, <2>1, CallsIdle
<1> QED BY <1>4, <1>5, <1>6, <1>7, <1>8, <1>9 DEF IndInv

(* The three ways pipe() fails.                                             *)
LEMMA PipeFailsInv ==
    ASSUME IndInv, NEW p \in Procs, PipeNoFile(p) \/ PipeNoSlot(p) \/ PipeNoFd(p)
    PROVE  IndInv'
<1>1. CASE PipeNoFile(p)
  <2>1. pc[p] = "user" /\ PipeError(FreeFiles)
    BY <1>1 DEF PipeNoFile, User
  <2> DEFINE S == FreeFiles
  <2>2. S \in SUBSET FreeFiles /\ PipeError(S)
    BY <2>1
  <2> HIDE DEF S
  <2> QED BY <2>1, <2>2, PipeErrorInv
<1>2. CASE PipeNoSlot(p) \/ PipeNoFd(p)
  <2> DEFINE S == {First(FreeFiles), Second(FreeFiles)}
  <2>1. pc[p] = "user" /\ PipeError(S) /\ Cardinality(FreeFiles) > 1
    BY <1>2 DEF PipeNoSlot, PipeNoFd, User
  <2>2. S \in SUBSET FreeFiles
    BY <2>1, FreeFilesFound
  <2> HIDE DEF S
  <2> QED BY <2>1, <2>2, PipeErrorInv
<1> QED BY <1>1, <1>2

(* The two ends of a pipe.                                                  *)
LEMMA EndRec ==
    ASSUME NEW k \in Pipes, NEW rw \in {"rd", "wr"}
    PROVE  /\ End(k, rw) \in FileRec /\ End(k, rw).ref_count = 1 /\ End(k, rw).inode = Null
           /\ End(k, rw).type = "FT_PIPE" /\ End(k, rw).pipe = k /\ End(k, rw).flags = rw
BY DEF End, Allocated, FileRec

(* pipe(): the read end f at the descriptor d, the write end g at e.        *)
LEMMA PipeDoneInv ==
    ASSUME IndInv, NEW p \in Procs, PipeDone(p)
    PROVE  IndInv'
<1>0. TypeOK /\ RefsCounted /\ EndsTyped /\ Calls /\ pc[p] = "user"
  BY DEF IndInv, PipeDone, User
<1>1. PICK f \in FreeFiles, g \in FreeFiles : f = First(FreeFiles) /\ g = Second(FreeFiles) /\ f # g
  BY FreeFilesFound DEF PipeDone
<1>2. PICK k \in Pipes : k = First(FreePipes)
  <2>1. FreePipes \in SUBSET (0 .. NPIPES - 1) /\ NPIPES - 1 \in Int /\ FreePipes # {}
    BY FileAssumption DEF PipeDone, FreePipes, Pipes
  <2>2. First(FreePipes) \in FreePipes
    BY <2>1, FirstEntry
  <2> QED BY <2>2 DEF FreePipes
<1>3. PICK d \in Fds, e \in Fds : /\ d = First(FreeFds(p)) /\ e = Second(FreeFds(p)) /\ d # e
                                  /\ ofile[p][d] = Null /\ ofile[p][e] = Null
  <2>1. FreeFds(p) \in SUBSET (0 .. NOFILE - 1) /\ NOFILE - 1 \in Int /\ Cardinality(FreeFds(p)) > 1
    BY FileAssumption DEF PipeDone, FreeFds, Fds
  <2>2. First(FreeFds(p)) \in FreeFds(p) /\ Second(FreeFds(p)) \in FreeFds(p) /\ First(FreeFds(p)) # Second(FreeFds(p))
    BY <2>1, SecondEntry
  <2> QED BY <2>2 DEF FreeFds
<1>4. /\ file' = [file EXCEPT ![f] = End(k, "rd"), ![g] = End(k, "wr")]
      /\ readers' = [readers EXCEPT ![k] = @ + 1] /\ writers' = [writers EXCEPT ![k] = @ + 1]
      /\ ofile' = [ofile EXCEPT ![p][d] = f, ![p][e] = g]
      /\ UNCHANGED <<i_refcount, linked, pc, arg, at, put, busy, lost, overput>>
  BY <1>1, <1>2, <1>3 DEF PipeDone, disk, call
<1>5. /\ f \in Files /\ file[f].ref_count = 0 /\ RefSet(f) = {} /\ OpenSet(f) = {} /\ f \notin lost
      /\ g \in Files /\ file[g].ref_count = 0 /\ RefSet(g) = {} /\ OpenSet(g) = {} /\ g \notin lost
  BY <1>0, FreeFile
<1>6. /\ file' \in [Files -> FileRec] /\ file'[f] = End(k, "rd") /\ file'[g] = End(k, "wr")
      /\ \A h \in Files : h # f /\ h # g => file'[h] = file[h]
  <2>1. End(k, "rd") \in FileRec /\ End(k, "wr") \in FileRec /\ file \in [Files -> FileRec]
    BY <1>0, EndRec, FileTyped
  <2> QED BY <1>1, <1>4, <1>5, <2>1
<1>7. /\ file'[f].ref_count = 1 /\ file'[f].inode = Null /\ file'[f].type = "FT_PIPE" /\ file'[f].pipe = k /\ file'[f].flags = "rd"
      /\ file'[g].ref_count = 1 /\ file'[g].inode = Null /\ file'[g].type = "FT_PIPE" /\ file'[g].pipe = k /\ file'[g].flags = "wr"
  BY <1>6, EndRec
<1>8. /\ ofile' \in [Procs -> [Fds -> Files \cup {Null}]] /\ ofile'[p][d] = f /\ ofile'[p][e] = g
      /\ \A q \in Procs : q # p => ofile'[q] = ofile[q]
      /\ \A q \in Procs, x \in Fds : q # p \/ (x # d /\ x # e) => ofile'[q][x] = ofile[q][x]
  BY <1>0, <1>3, <1>4, <1>5 DEF TypeOK
<1>9. f # Null /\ g # Null /\ k # Null
  BY <1>5, FileAssumption DEF Files, Pipes
<1>10. /\ ~Holds(p, d) /\ ~Holds(p, e) /\ Holds(p, d)' /\ Holds(p, e)'
       /\ \A q \in Procs, x \in Fds : q # p \/ (x # d /\ x # e) => (Holds(q, x)' <=> Holds(q, x))
  BY <1>0, <1>3, <1>4, <1>8, <1>9 DEF Holds
<1>11. \A h : /\ RefSet(h) \in SUBSET (Procs \X Fds)
              /\ \A q \in Procs, x \in Fds : <<q, x>> \in RefSet(h) <=> Holds(q, x) /\ ofile[q][x] = h
  BY RefPair
<1>12. \A q \in Procs, x \in Fds : Holds(q, x) => ofile[q][x] # f /\ ofile[q][x] # g
  BY <1>5, <1>11
<1>13. RefSet(f)' = {<<p, d>>}
  <2> DEFINE T == {<<p, d>>}
  <2>1. T \in SUBSET (Procs \X Fds)
    OBVIOUS
  <2>2. ASSUME NEW q \in Procs, NEW x \in Fds PROVE (Holds(q, x)' /\ ofile'[q][x] = f) <=> <<q, x>> \in T
    BY <1>1, <1>8, <1>10, <1>12
  <2> HIDE DEF T
  <2>3. RefSet(f)' = T
    BY <2>1, <2>2, RefSetAfter
  <2> QED BY <2>3 DEF T
<1>14. RefSet(g)' = {<<p, e>>}
  <2> DEFINE T == {<<p, e>>}
  <2>1. T \in SUBSET (Procs \X Fds)
    OBVIOUS
  <2>2. ASSUME NEW q \in Procs, NEW x \in Fds PROVE (Holds(q, x)' /\ ofile'[q][x] = g) <=> <<q, x>> \in T
    BY <1>1, <1>8, <1>10, <1>12
  <2> HIDE DEF T
  <2>3. RefSet(g)' = T
    BY <2>1, <2>2, RefSetAfter
  <2> QED BY <2>3 DEF T
<1>15. ASSUME NEW h \in Files, h # f, h # g PROVE RefSet(h)' = RefSet(h)
  <2>1. ASSUME NEW q \in Procs, NEW x \in Fds PROVE (Holds(q, x)' /\ ofile'[q][x] = h) <=> <<q, x>> \in RefSet(h)
    BY <1>8, <1>10, <1>11, <1>15
  <2> QED BY <1>11, <2>1, RefSetAfter
<1>16. \A h \in Files : OpenSet(h)' = OpenSet(h)
  BY <1>4 DEF OpenSet
<1>17. RefsCounted'
  <2>1. Cardinality(RefSet(f)') = 1 /\ Cardinality(OpenSet(f)') = 0
    BY <1>5, <1>13, <1>16, FS_Singleton, FS_EmptySet
  <2>2. Cardinality(RefSet(g)') = 1 /\ Cardinality(OpenSet(g)') = 0
    BY <1>5, <1>14, <1>16, FS_Singleton, FS_EmptySet
  <2>3. file'[f].ref_count = Cardinality(RefSet(f)') + Cardinality(OpenSet(f)') + (IF f \in lost' THEN 1 ELSE 0)
    BY <1>4, <1>5, <1>7, <2>1
  <2>4. file'[g].ref_count = Cardinality(RefSet(g)') + Cardinality(OpenSet(g)') + (IF g \in lost' THEN 1 ELSE 0)
    BY <1>4, <1>5, <1>7, <2>2
  <2>5. ASSUME NEW h \in Files
        PROVE  file'[h].ref_count = Cardinality(RefSet(h)') + Cardinality(OpenSet(h)') + (IF h \in lost' THEN 1 ELSE 0)
    <3>1. CASE h # f /\ h # g
      BY <1>0, <1>4, <1>6, <1>15, <1>16, <3>1, RefsSame
    <3> QED BY <2>3, <2>4, <3>1
  <2> QED BY <2>5, RefsAfter
<1>18. InodesReferenced'
  <2>1. \A i \in Inodes : OpenOn(i)' \subseteq OpenOn(i)
    BY <1>6, <1>7, FileAssumption DEF OpenOn
  <2>2. i_refcount' \in [Inodes -> Int] /\ overput' \in Nat /\ \A i \in Inodes : Spare(i)' = Spare(i)
    BY <1>0, <1>4, SpareSame DEF TypeOK
  <2> QED BY <2>1, <2>2, InodesKept DEF IndInv
<1>19. writers' \in [Pipes -> Int] /\ readers' \in [Pipes -> Int] /\ WritersCounted'
  <2>1. /\ writers' \in [Pipes -> Int] /\ readers' \in [Pipes -> Int] /\ writers'[k] = writers[k] + 1
        /\ \A j \in Pipes : j # k => writers'[j] = writers[j]
    BY <1>0, <1>4 DEF TypeOK
  <2>2. OpenEnds(k, "wr")' = OpenEnds(k, "wr") \cup {g} /\ g \notin OpenEnds(k, "wr")
    BY <1>5, <1>6, <1>7 DEF OpenEnds
  <2>3. \A j \in Pipes : j # k => OpenEnds(j, "wr")' = OpenEnds(j, "wr")
    BY <1>5, <1>6, <1>7 DEF OpenEnds
  <2>4. Cardinality(OpenEnds(k, "wr")') = Cardinality(OpenEnds(k, "wr")) + 1
    BY <2>2, Finite, Counting
  <2>5. \A j \in Pipes : writers[j] = Cardinality(OpenEnds(j, "wr"))
    BY DEF IndInv, WritersCounted
  <2>6. \A j \in Pipes : writers'[j] = Cardinality(OpenEnds(j, "wr")')
    BY <2>1, <2>3, <2>4, <2>5
  <2> QED BY <2>1, <2>6 DEF WritersCounted
<1>20. EndsTyped'
  BY <1>0, <1>6, <1>7, <1>9 DEF EndsTyped
<1>21. TypeOK'
  BY <1>0, <1>4, <1>6, <1>8, <1>19 DEF TypeOK, FileRec
<1>22. Calls'
  <2>1. \A q \in Procs : pc[q] = "open" => at[q] # f /\ at[q] # g
    BY <1>5 DEF OpenSet
  <2>2. \A q \in Procs : pc[q] = "open" => file'[at[q]].pipe = Null
    BY <1>0, <1>6, <2>1 DEF Calls
  <2> QED BY <1>0, <1>4, <1>8, <2>2, CallsIdle
<1> QED BY <1>17, <1>18, <1>19, <1>20, <1>21, <1>22 DEF IndInv

-----------------------------------------------------------------------------
(* fork(): the child has the descriptors of its parent.                     *)
LEMMA ForkInv ==
    ASSUME IndInv, NEW p \in Procs, NEW c \in Procs, Fork(p, c)
    PROVE  IndInv'
<1> DEFINE N(f) == {d \in Fds : ofile[p][d] = f}
<1>0. TypeOK /\ RefsCounted /\ EndsTyped /\ Calls /\ pc[p] = "user" /\ pc[c] = "none" /\ p # c
  BY DEF IndInv, Fork, User
<1>1. /\ ofile' = [ofile EXCEPT ![c] = ofile[p]] /\ pc' = [pc EXCEPT ![c] = "user"]
      /\ file' = [f \in Files |-> [file[f] EXCEPT !.ref_count = @ + Cardinality(N(f))]]
      /\ i_refcount' = [i_refcount EXCEPT ![Dir] = @ + 1]
      /\ UNCHANGED <<readers, writers, linked, arg, at, put, busy, lost, overput>>
  BY DEF Fork, ends
<1>2. \A f \in Files : IsFiniteSet(N(f)) /\ Cardinality(N(f)) \in Nat /\ (Cardinality(N(f)) = 0 <=> N(f) = {})
  <2>1. IsFiniteSet(Fds)
    BY FS_Interval, FileAssumption DEF Fds
  <2> QED BY <2>1, FS_Subset, FS_CardinalityType, FS_EmptySet
<1>3. /\ file' \in [Files -> FileRec]
      /\ \A f \in Files : /\ file'[f].ref_count = file[f].ref_count + Cardinality(N(f))
                          /\ file'[f].inode = file[f].inode /\ file'[f].type = file[f].type
                          /\ file'[f].pipe = file[f].pipe /\ file'[f].flags = file[f].flags
  <2>1. ASSUME NEW f \in Files
        PROVE  /\ file'[f] \in FileRec
               /\ file'[f].ref_count = file[f].ref_count + Cardinality(N(f))
               /\ file'[f].inode = file[f].inode /\ file'[f].type = file[f].type
               /\ file'[f].pipe = file[f].pipe /\ file'[f].flags = file[f].flags
    <3>1. PICK n \in Nat : n = Cardinality(N(f))
      BY <1>2
    <3>2. file'[f] = [file[f] EXCEPT !.ref_count = file[f].ref_count + n]
      BY <1>1, <3>1
    <3>3. file[f] \in FileRec
      BY <1>0, FileTyped
    <3>4. file[f].ref_count + n \in Nat
      BY <3>3 DEF FileRec
    <3>5. /\ file'[f] \in FileRec /\ file'[f].ref_count = file[f].ref_count + n
          /\ file'[f].inode = file[f].inode /\ file'[f].type = file[f].type
          /\ file'[f].pipe = file[f].pipe /\ file'[f].flags = file[f].flags
      BY <3>2, <3>3, <3>4 DEF FileRec
    <3> QED BY <3>1, <3>5
  <2>2. file' = [f \in Files |-> file'[f]]
    BY <1>1
  <2> QED BY <2>1, <2>2
<1>4. /\ ofile' \in [Procs -> [Fds -> Files \cup {Null}]] /\ ofile'[c] = ofile[p] /\ pc'[c] = "user"
      /\ \A q \in Procs : q # c => ofile'[q] = ofile[q] /\ pc'[q] = pc[q]
  BY <1>0, <1>1 DEF TypeOK
<1>5. \A x \in Fds : /\ ~Holds(c, x) /\ (Holds(c, x)' <=> ofile[p][x] # Null) /\ (Holds(p, x) <=> ofile[p][x] # Null)
  BY <1>0, <1>4 DEF Holds
<1>6. \A q \in Procs, x \in Fds : q # c => (Holds(q, x)' <=> Holds(q, x))
  BY <1>1, <1>4 DEF Holds
<1>7. ASSUME NEW f \in Files
      PROVE  /\ Cardinality(RefSet(f)') = Cardinality(RefSet(f)) + Cardinality(N(f))
             /\ N(f) # {} => RefSet(f) # {}
  <2> DEFINE C == {c} \X N(f)
             T == RefSet(f) \cup C
  <2>0. f # Null
    BY FileAssumption DEF Files
  <2>1. /\ RefSet(f) \in SUBSET (Procs \X Fds)
        /\ \A q \in Procs, x \in Fds : <<q, x>> \in RefSet(f) <=> Holds(q, x) /\ ofile[q][x] = f
    BY RefPair
  <2>2. IsFiniteSet(C) /\ Cardinality(C) = Cardinality(N(f))
    <3> DEFINE A == {c}
               B == N(f)
    <3>1. IsFiniteSet(A) /\ Cardinality(A) = 1 /\ IsFiniteSet(B) /\ Cardinality(B) \in Nat
      BY <1>2, FS_Singleton
    <3>2. C = A \X B
      OBVIOUS
    <3> HIDE DEF A, B, C
    <3>3. IsFiniteSet(A \X B) /\ Cardinality(A \X B) = Cardinality(A) * Cardinality(B)
      BY <3>1, FS_Product
    <3>4. 1 * Cardinality(B) = Cardinality(B)
      BY <3>1
    <3>5. IsFiniteSet(C) /\ Cardinality(C) = Cardinality(B)
      BY <3>1, <3>2, <3>3, <3>4
    <3> QED BY <3>5 DEF B
  <2>3. RefSet(f) \cap C = {}
    BY <1>5, <2>1
  <2>4. Cardinality(T) = Cardinality(RefSet(f)) + Cardinality(N(f))
    <3>1. IsFiniteSet(RefSet(f)) /\ Cardinality(RefSet(f)) \in Nat
      BY Finite, FS_CardinalityType
    <3> HIDE DEF C, N
    <3>2. Cardinality(T) = Cardinality(RefSet(f)) + Cardinality(C) - Cardinality(RefSet(f) \cap C)
      BY <2>2, <3>1, FS_Union
    <3>3. Cardinality(RefSet(f) \cap C) = 0
      BY <2>3, FS_EmptySet
    <3> QED BY <1>2, <2>2, <3>1, <3>2, <3>3
  <2>5. T \in SUBSET (Procs \X Fds)
    BY <2>1
  <2>6. ASSUME NEW q \in Procs, NEW x \in Fds
        PROVE  (Holds(q, x)' /\ ofile'[q][x] = f) <=> <<q, x>> \in T
    <3>1. CASE q = c
      <4>1. <<q, x>> \in T <=> ofile[p][x] = f
        BY <1>5, <2>1, <3>1
      <4> QED BY <1>4, <1>5, <2>0, <3>1, <4>1
    <3>2. CASE q # c
      <4>1. <<q, x>> \in T <=> <<q, x>> \in RefSet(f)
        BY <3>2
      <4> HIDE DEF T
      <4> QED BY <1>4, <1>6, <2>1, <3>2, <4>1
    <3> QED BY <3>1, <3>2
  <2>7. ASSUME N(f) # {} PROVE RefSet(f) # {}
    <3>1. PICK x \in Fds : ofile[p][x] = f
      BY <2>7
    <3>2. <<p, x>> \in RefSet(f)
      BY <1>5, <2>0, <2>1, <3>1
    <3> QED BY <3>2
  <2> HIDE DEF T
  <2>8. RefSet(f)' = T
    BY <2>5, <2>6, RefSetAfter
  <2> QED BY <2>4, <2>7, <2>8
<1> HIDE DEF N
<1>8. \A f \in Files : OpenSet(f)' = OpenSet(f)
  BY <1>0, <1>1, <1>4 DEF OpenSet
<1>9. RefsCounted'
  <2>1. ASSUME NEW f \in Files
        PROVE  file'[f].ref_count = Cardinality(RefSet(f)') + Cardinality(OpenSet(f)') + (IF f \in lost' THEN 1 ELSE 0)
    BY <1>0, <1>1, <1>2, <1>3, <1>7, <1>8, RefsOf
  <2> QED BY <2>1, RefsAfter
<1>10. \A f \in Files : file'[f].ref_count > 0 <=> file[f].ref_count > 0
  <2>1. ASSUME NEW f \in Files PROVE file'[f].ref_count > 0 <=> file[f].ref_count > 0
    <3>1. file[f].ref_count \in Nat /\ Cardinality(N(f)) \in Nat
      BY <1>0, <1>2, FileTyped DEF FileRec
    <3>2. file[f].ref_count = 0 => RefSet(f) = {}
      BY <1>0, RefsOf
    <3>3. file[f].ref_count = 0 => Cardinality(N(f)) = 0
      BY <1>2, <1>7, <3>2
    <3> QED BY <1>3, <3>1, <3>3
  <2> QED BY <2>1
<1>11. InodesReferenced' /\ WritersCounted' /\ EndsTyped'
  <2>1. i_refcount \in [Inodes -> Int] /\ i_refcount' \in [Inodes -> Int] /\ overput \in Nat /\ overput' = overput
    BY <1>0, <1>1, FileAssumption DEF TypeOK
  <2>2. Cardinality(Live') = Cardinality(Live) + 1 /\ Cardinality(Live) \in Nat
    <3>1. Live' = Live \cup {c} /\ c \notin Live
      BY <1>0, <1>4 DEF Live
    <3> QED BY <3>1, Finite, Counting
  <2>3. \A i \in Inodes : Spare(i)' = Spare(i)
    BY <1>1, <2>1, <2>2 DEF Spare, Owed
  <2>4. \A f \in Files : file'[f].inode \in {Null, file[f].inode}
    BY <1>3
  <2> QED BY <1>1, <1>3, <1>10, <2>1, <2>3, <2>4, FilesKept
<1>12. TypeOK'
  <2>1. i_refcount' \in [Inodes -> Int]
    BY <1>0, <1>1, FileAssumption DEF TypeOK
  <2> QED BY <1>0, <1>1, <1>3, <1>4, <2>1 DEF TypeOK, FileRec
<1>13. Calls'
  <2>1. put[c] = Null
    BY <1>0 DEF Calls
  <2>2. \A q \in Procs : pc[q] = "open" => file'[at[q]].pipe = Null
    BY <1>0, <1>3 DEF Calls
  <2> QED BY <1>0, <1>1, <1>4, <2>1, <2>2 DEF Calls
<1> QED BY <1>9, <1>11, <1>12, <1>13 DEF IndInv

-----------------------------------------------------------------------------
(* Every step of the kernel keeps the counts.                               *)
LEMMA NextInv == ASSUME ~SelfDup, IndInv, [Next]_vars PROVE IndInv'
<1>1. CASE UNCHANGED vars
  <2>1. UNCHANGED <<ofile, file, readers, writers, i_refcount, linked, pc, arg, at, put, busy, lost, overput>>
    BY <1>1 DEF vars, ends, disk, call
  <2>2. TypeOK'
    BY <2>1 DEF IndInv, TypeOK
  <2>3. Calls'
    BY <2>1 DEF IndInv, Calls
  <2>4. \A q \in Procs, e \in Fds : Holds(q, e)' <=> Holds(q, e)
    BY <2>1 DEF Holds
  <2>5. \A f \in Files : OpenSet(f)' = OpenSet(f)
    BY <2>1 DEF OpenSet
  <2> QED BY <2>1, <2>2, <2>3, <2>4, <2>5, QuietInv
<1>2. CASE Next
  <2>1. PICK p \in Procs :
          \/ OpenStart(p) \/ OpenError(p) \/ OpenDenied(p) \/ OpenUncreated(p)
          \/ (\E i \in Named : OpenDone(p, i) \/ Unlink(p, i))
          \/ (\E d \in Fds : Close(p, d) \/ Dup(p, d) \/ \E e \in Fds : Dup2Close(p, d, e))
          \/ IputReturn(p) \/ CloseReturn(p) \/ Dup2Return(p)
          \/ PipeDone(p) \/ PipeNoSlot(p) \/ PipeNoFile(p) \/ PipeNoFd(p)
          \/ (\E c \in Procs : Fork(p, c)) \/ Exit(p) \/ ExitClose(p) \/ ExitReturn(p)
    BY <1>2 DEF Next
  <2>2. CASE OpenStart(p)
    BY <2>2, OpenStartInv
  <2>3. CASE OpenError(p) \/ OpenDenied(p)
    BY <2>3, OpenErrorInv
  <2>4. CASE \E i \in Named : OpenDone(p, i) \/ Unlink(p, i)
    BY <2>4, OpenDoneInv, UnlinkInv, FileAssumption
  <2>15. CASE OpenUncreated(p)
    BY <2>15, OpenUncreatedInv
  <2>5. CASE \E d \in Fds : Close(p, d) \/ Dup(p, d) \/ \E e \in Fds : Dup2Close(p, d, e)
    BY <2>5, CloseInv, DupInv, Dup2CloseInv
  <2>6. CASE IputReturn(p)
    BY <2>6, IputReturnInv
  <2>7. CASE CloseReturn(p)
    BY <2>7, CloseReturnInv
  <2>8. CASE Dup2Return(p)
    BY <2>8, Dup2ReturnInv
  <2>9. CASE PipeDone(p)
    BY <2>9, PipeDoneInv
  <2>10. CASE PipeNoFile(p) \/ PipeNoSlot(p) \/ PipeNoFd(p)
    BY <2>10, PipeFailsInv
  <2>11. CASE \E c \in Procs : Fork(p, c)
    BY <2>11, ForkInv
  <2>12. CASE Exit(p)
    BY <2>12, ExitInv
  <2>13. CASE ExitClose(p)
    BY <2>13, ExitCloseInv
  <2>14. CASE ExitReturn(p)
    BY <2>14, ExitReturnInv
  <2> QED BY <2>1, <2>2, <2>3, <2>4, <2>5, <2>6, <2>7, <2>8, <2>9, <2>10, <2>11, <2>12, <2>13, <2>14, <2>15
<1> QED BY <1>1, <1>2

(* The inductive invariant holds in every state, unless a program calls     *)
(* dup2(fd, fd).                                                            *)
THEOREM Invariance == ASSUME ~SelfDup PROVE Spec => []IndInv
<1>1. Init => IndInv
  BY InitInv
<1>2. IndInv /\ [Next]_vars => IndInv'
  BY NextInv
<1> QED BY <1>1, <1>2, PTL DEF Spec

(* ref_count is at all times the number of descriptors and open()s that     *)
(* refer to the file, and an inode has a reference for every open file and  *)
(* every process on it, except that a directory is one short for each       *)
(* open() that failed or created nothing in it; whatever the processes      *)
(* open, duplicate, inherit and close, and whoever sleeps in namei() or     *)
(* iput() meanwhile.                                                        *)
THEOREM Counts == ASSUME ~SelfDup PROVE Spec => []CountsExact
<1>1. IndInv => CountsExact
  BY DEF IndInv, CountsExact
<1> QED BY <1>1, Invariance, PTL

(* A pipe counts its write end as long as some process has it open: readers *)
(* see the end of the file when the last of them has closed it, not before. *)
THEOREM Writers == ASSUME ~SelfDup PROVE Spec => []WritersCounted
<1>1. IndInv => WritersCounted
  BY DEF IndInv
<1> QED BY <1>1, Invariance, PTL
=============================================================================
