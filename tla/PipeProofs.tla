----------------------------- MODULE PipeProofs -----------------------------
(***************************************************************************)
(* Proofs about Pipe, for every set of processes and every size of the     *)
(* ring and of the positions.                                              *)
(***************************************************************************)
EXTENDS Pipe, FiniteSetTheorems, SequenceTheorems, TLAPS

(* A step of the positions stays below SizeMod. *)
LEMMA IncrType ==
    ASSUME NEW pos \in 0 .. SizeMod - 1
    PROVE  Incr(pos) \in 0 .. SizeMod - 1
BY PipeAssumption DEF Incr

(* The index of a position is an index of the ring. *)
LEMMA IndexType ==
    ASSUME NEW pos \in 0 .. SizeMod - 1
    PROVE  pos % PIPE_BUF \in 0 .. PIPE_BUF - 1
BY PipeAssumption

(* How many counted files the closing of E drops is a number. *)
LEMMA DroppedType ==
    ASSUME NEW E, NEW bit
    PROVE  Dropped(E, bit) \in Nat
<1>1. IsFiniteSet(Ends)
  <2>1. IsFiniteSet({"rd"})
    BY FS_Singleton
  <2>2. IsFiniteSet({"rd"} \cup {"wr"})
    BY <2>1, FS_AddElement
  <2>3. Ends = {"rd"} \cup {"wr"}
    BY DEF Ends
  <2> QED BY <2>2, <2>3
<1>2. IsFiniteSet({e \in Ends : LastRef(e, E, bit)})
  BY <1>1, FS_Subset
<1> QED BY <1>2, FS_CardinalityType DEF Dropped

(* pipe_close() leaves the variables it changes with their types. *)
LEMMA PipeCloseType ==
    ASSUME TypeOK, NEW p \in Procs, NEW E \in SUBSET Ends, PipeClose(p, E)
    PROVE  /\ buffer' \in [0 .. PIPE_BUF - 1 -> Byte]
           /\ read_pos' \in 0 .. SizeMod - 1
           /\ write_pos' \in 0 .. SizeMod - 1
           /\ readers' \in Int /\ writers' \in Int
           /\ ref_count' \in [Ends -> Int]
           /\ holds' \in [Procs -> SUBSET Ends]
<1>1. Dropped(E, O_RDONLY) \in Nat /\ Dropped(E, O_WRONLY) \in Nat
  BY DroppedType
<1>2. readers' \in Int /\ writers' \in Int
  BY <1>1 DEF PipeClose, TypeOK
<1>3. ref_count' \in [Ends -> Int] /\ holds' \in [Procs -> SUBSET Ends]
  BY DEF PipeClose, TypeOK
<1>4. (CHOOSE b \in Byte : TRUE) \in Byte
  BY PipeAssumption
<1>5. /\ buffer' \in [0 .. PIPE_BUF - 1 -> Byte]
      /\ read_pos' \in 0 .. SizeMod - 1
      /\ write_pos' \in 0 .. SizeMod - 1
  <2>1. CASE read_pos' = 0 /\ write_pos' = 0 /\
             buffer' = [i \in DOMAIN buffer |-> CHOOSE b \in Byte : TRUE]
    BY <2>1, <1>4, PipeAssumption DEF TypeOK
  <2>2. CASE UNCHANGED <<buffer, read_pos, write_pos>>
    BY <2>2 DEF TypeOK
  <2> QED BY <2>1, <2>2 DEF PipeClose
<1> QED BY <1>2, <1>3, <1>5

(* proc_exit() preserves the types. *)
LEMMA ProcExitType ==
    ASSUME TypeOK, NEW p \in Procs, ProcExit(p)
    PROVE  TypeOK'
<1>1. holds[p] \in SUBSET Ends
  BY DEF TypeOK
<1>2. PipeClose(p, holds[p])
  BY DEF ProcExit
<1> QED BY <1>1, <1>2, PipeCloseType DEF ProcExit, TypeOK

-----------------------------------------------------------------------------
(* Type correctness: every step of the pipe code keeps TypeOK. *)
LEMMA TypeStep == TypeOK /\ [Next]_vars => TypeOK'
<1> SUFFICES ASSUME TypeOK, [Next]_vars PROVE TypeOK'
  OBVIOUS
<1>1. CASE UNCHANGED vars
  BY <1>1 DEF TypeOK, vars, pipe, files, call
<1>2. ASSUME NEW p \in Procs, Kernel(p) PROVE TypeOK'
  <2>1. CASE ReadByte(p)
    <3>1. read_pos \in 0 .. SizeMod - 1 BY DEF TypeOK
    <3>2. buffer[read_pos % PIPE_BUF] \in Byte
      BY <3>1, IndexType DEF TypeOK
    <3>3. read_pos' \in 0 .. SizeMod - 1
      BY <2>1, <3>1, IncrType DEF ReadByte
    <3>4. done' \in [Procs -> 0 .. MaxBytes]
      BY <2>1, PipeAssumption DEF ReadByte, TypeOK
    <3> QED BY <2>1, <3>2, <3>3, <3>4 DEF ReadByte, TypeOK, files
  <2>2. CASE ReadBlock(p)
    BY <2>2 DEF ReadBlock, Sleep, TypeOK, pipe, files, call
  <2>3. CASE ReadReturn(p)
    BY <2>3, PipeAssumption DEF ReadReturn, Return, Wakeup, TypeOK, pipe, files
  <2>4. ASSUME NEW b \in Byte, WriteByte(p, b) PROVE TypeOK'
    <3>1. write_pos \in 0 .. SizeMod - 1 BY DEF TypeOK
    <3>2. buffer' \in [0 .. PIPE_BUF - 1 -> Byte]
      BY <2>4 DEF WriteByte, TypeOK
    <3>3. write_pos' \in 0 .. SizeMod - 1
      BY <2>4, <3>1, IncrType DEF WriteByte
    <3>4. done' \in [Procs -> 0 .. MaxBytes]
      BY <2>4, PipeAssumption DEF WriteByte, TypeOK
    <3> QED BY <2>4, <3>2, <3>3, <3>4 DEF WriteByte, TypeOK, files
  <2>5. CASE WriteBlock(p)
    BY <2>5 DEF WriteBlock, Wakeup, Sleep, TypeOK, pipe, files, call
  <2>6. CASE WriteReturn(p)
    BY <2>6, PipeAssumption DEF WriteReturn, Return, Wakeup, TypeOK, pipe, files
  <2>7. CASE Leave(p) \/ PostIgnore(p)
    BY <2>7 DEF Leave, PostIgnore, Resume, TypeOK, pipe, files
  <2>8. CASE PostHandler(p)
    BY <2>8 DEF PostHandler, Resume, TypeOK, pipe, files
  <2>9. CASE PostDefault(p)
    BY <2>9, ProcExitType DEF PostDefault
  <2> QED BY <1>2, <2>1, <2>2, <2>3, <2>4, <2>5, <2>6, <2>7, <2>8, <2>9 DEF Kernel
<1>3. ASSUME NEW p \in Procs, User(p) PROVE TypeOK'
  <2>1. ASSUME NEW n \in 0 .. MaxBytes, Enter(p, "read", n) \/ Enter(p, "write", n)
        PROVE  TypeOK'
    <3>1. PICK where \in {"read", "write"} : Enter(p, where, n)
      BY <2>1
    <3> QED BY <3>1, PipeAssumption DEF Enter, TypeOK, pipe, files
  <2>2. ASSUME NEW e \in Ends, Close(p, e) PROVE TypeOK'
    <3>1. PipeClose(p, {e}) /\ {e} \in SUBSET Ends
      BY <2>2 DEF Close
    <3> QED BY <2>2, <3>1, PipeCloseType DEF Close, TypeOK
  <2>3. CASE Exit(p)
    BY <2>3, ProcExitType DEF Exit
  <2> QED BY <1>3, <2>1, <2>2, <2>3 DEF User
<1>4. ASSUME NEW p \in Procs, Dispatch(p) \/ Preempt(p) \/ Signal(p) PROVE TypeOK'
  BY <1>4 DEF Dispatch, Preempt, Signal, TypeOK, pipe, files, call
<1> QED BY <1>1, <1>2, <1>3, <1>4 DEF Next

(* The initial state has its type. *)
LEMMA InitType == Init => TypeOK
<1> SUFFICES ASSUME Init PROVE TypeOK OBVIOUS
<1>1. (CHOOSE b \in Byte : TRUE) \in Byte
  BY PipeAssumption
<1>2. buffer \in [0 .. PIPE_BUF - 1 -> Byte]
  BY <1>1 DEF Init
<1>3. \A e \in Ends : Cardinality({p \in Procs : e \in holds[p]}) \in Nat
  BY PipeAssumption, FS_Subset, FS_CardinalityType
<1>4. ref_count \in [Ends -> Int]
  BY <1>3 DEF Init
<1> QED BY <1>2, <1>4, PipeAssumption DEF Init, TypeOK

(* The variables keep their types in every behaviour of the pipe code. *)
THEOREM TypeCorrect == Spec => []TypeOK
BY InitType, TypeStep, PTL DEF Spec

-----------------------------------------------------------------------------
(* The read end is never counted out: pipe_close() tests flags & O_RDONLY,  *)
(* and O_RDONLY is 0.  So the pipe is never destroyed under a user.         *)

(* pipe_close() never clears a pipe whose reader has been counted. *)
LEMMA NeverDestroyed ==
    ASSUME readers = 1, NEW p \in Procs, NEW E, PipeClose(p, E)
    PROVE  readers' = 1 /\ UNCHANGED <<buffer, read_pos, write_pos>>
<1>1. {e \in Ends : LastRef(e, E, O_RDONLY)} = {}
  BY DEF LastRef, FlagSet, O_RDONLY
<1>2. Dropped(E, O_RDONLY) = 0
  BY <1>1, FS_EmptySet DEF Dropped
<1> QED BY <1>2 DEF PipeClose

(* Every step keeps the count of the read end. *)
LEMMA ReadersStep == readers = 1 /\ [Next]_vars => readers' = 1
<1> SUFFICES ASSUME readers = 1, [Next]_vars PROVE readers' = 1
  OBVIOUS
<1>1. CASE UNCHANGED vars
  BY <1>1 DEF vars, pipe
<1>2. ASSUME NEW p \in Procs, Kernel(p) PROVE readers' = 1
  BY <1>2, NeverDestroyed
     DEF Kernel, ReadByte, ReadBlock, ReadReturn, WriteByte, WriteBlock, WriteReturn,
         Leave, PostHandler, PostIgnore, PostDefault, ProcExit, Resume, pipe
<1>3. ASSUME NEW p \in Procs, User(p) PROVE readers' = 1
  BY <1>3, NeverDestroyed DEF User, Enter, Close, Exit, ProcExit, pipe
<1>4. ASSUME NEW p \in Procs, Dispatch(p) \/ Preempt(p) \/ Signal(p) PROVE readers' = 1
  BY <1>4 DEF Dispatch, Preempt, Signal, pipe
<1> QED BY <1>1, <1>2, <1>3, <1>4 DEF Next

-----------------------------------------------------------------------------
(* No wakeup is lost.  NoLostWakeup says nothing of the steps inside a call, *)
(* where bytes have moved and wakeup() is still to come; SleepInv does: it  *)
(* names the process that owes the wakeup.                                  *)

SleepInv ==
    \A p \in Procs : state[p] = "SLEEP" /\ p # cur =>
        /\ pc[p] = "read"  => Empty \/ (cur \in Procs /\ pc[cur] = "write")
        /\ pc[p] = "write" => Full \/ (cur \in Procs /\ pc[cur] = "read" /\ done[cur] > 0)

(* Steps that change neither the positions nor who owes a wakeup. *)
LEMMA SleepInvKept ==
    ASSUME TypeOK, SleepInv, NEW p \in Procs,
           UNCHANGED <<read_pos, write_pos>>,
           cur' \in {p, NoProc}, cur \in {p, NoProc},
           cur = p => pc[p] \in {"user", "leave"},
           \A q \in Procs \ {p} : state'[q] = state[q] /\ pc'[q] = pc[q],
           cur' # p /\ state'[p] = "SLEEP" =>
               \/ pc'[p] \notin {"read", "write"}
               \/ cur # p /\ state[p] = "SLEEP" /\ pc'[p] = pc[p]
    PROVE  SleepInv'
BY PipeAssumption DEF SleepInv, TypeOK, Empty, Full, Avail

(* proc_exit() from user mode or from postsig() keeps SleepInv. *)
LEMMA SleepInvExit ==
    ASSUME TypeOK, SleepInv, readers = 1, NEW p \in Procs, ProcExit(p),
           cur = p, pc[p] \in {"user", "leave"}
    PROVE  SleepInv'
<1>1. PipeClose(p, holds[p])
  BY DEF ProcExit
<1>2. UNCHANGED <<read_pos, write_pos>>
  BY <1>1, NeverDestroyed
<1> QED BY <1>2, SleepInvKept DEF ProcExit, TypeOK

(* Every step of the pipe code keeps SleepInv. *)
LEMMA SleepInvStep == TypeOK /\ SleepInv /\ readers = 1 /\ [Next]_vars => SleepInv'
<1> SUFFICES ASSUME TypeOK, SleepInv, readers = 1, [Next]_vars PROVE SleepInv'
  OBVIOUS
<1>1. CASE UNCHANGED vars
  BY <1>1 DEF SleepInv, Empty, Full, Avail, vars, pipe, files, call
<1>2. ASSUME NEW p \in Procs, Kernel(p) PROVE SleepInv'
  <2>1. CASE ReadByte(p)
    <3>1. \A q \in Procs : state[q] = "SLEEP" /\ q # cur => pc[q] # "read"
      BY <2>1 DEF ReadByte, InKernel, SleepInv
    <3>2. cur' = p /\ pc' = pc /\ state' = state /\ pc[p] = "read" /\ done'[p] > 0
      BY <2>1 DEF ReadByte, InKernel, TypeOK
    <3> QED BY <2>1, <3>1, <3>2 DEF ReadByte, InKernel, SleepInv
  <2>2. CASE ReadBlock(p)
    BY <2>2, PipeAssumption
       DEF ReadBlock, InKernel, Sleep, SleepInv, TypeOK, Empty, Full, Avail, pipe, call
  <2>3. CASE ReadReturn(p) \/ WriteReturn(p)
    BY <2>3 DEF ReadReturn, WriteReturn, Wakeup, SleepInv, TypeOK
  <2>4. ASSUME NEW b \in Byte, WriteByte(p, b) PROVE SleepInv'
    <3>1. \A q \in Procs : state[q] = "SLEEP" /\ q # cur => pc[q] # "write"
      BY <2>4 DEF WriteByte, InKernel, SleepInv
    <3>2. cur' = p /\ pc' = pc /\ state' = state /\ pc[p] = "write"
      BY <2>4 DEF WriteByte, InKernel
    <3> QED BY <2>4, <3>1, <3>2 DEF WriteByte, InKernel, SleepInv
  <2>5. CASE WriteBlock(p)
    BY <2>5 DEF WriteBlock, InKernel, Sleep, Wakeup, SleepInv, TypeOK, Full, Avail, pipe, call
  <2>6. CASE Leave(p) \/ PostIgnore(p) \/ PostHandler(p)
    BY <2>6, SleepInvKept
       DEF Leave, PostIgnore, PostHandler, Resume, InKernel, TypeOK, pipe
  <2>7. CASE PostDefault(p)
    BY <2>7, SleepInvExit DEF PostDefault, InKernel
  <2> QED BY <1>2, <2>1, <2>2, <2>3, <2>4, <2>5, <2>6, <2>7 DEF Kernel
<1>3. ASSUME NEW p \in Procs, User(p) PROVE SleepInv'
  <2>1. ASSUME NEW n \in 0 .. MaxBytes, Enter(p, "read", n) \/ Enter(p, "write", n)
        PROVE  SleepInv'
    <3>1. PICK where \in {"read", "write"} : Enter(p, where, n)
      BY <2>1
    <3> QED BY <3>1, SleepInvKept DEF Enter, InKernel, TypeOK, pipe
  <2>2. ASSUME NEW e \in Ends, Close(p, e) PROVE SleepInv'
    <3>1. UNCHANGED <<read_pos, write_pos>>
      BY <2>2, NeverDestroyed DEF Close
    <3> QED BY <2>2, <3>1, SleepInvKept DEF Close, InKernel, TypeOK
  <2>3. CASE Exit(p)
    BY <2>3, SleepInvExit DEF Exit, InKernel
  <2> QED BY <1>3, <2>1, <2>2, <2>3 DEF User
<1>4. ASSUME NEW p \in Procs, Dispatch(p) \/ Preempt(p) PROVE SleepInv'
  <2>1. CASE Dispatch(p)
    BY <2>1, PipeAssumption DEF Dispatch, SleepInv, Empty, Full, Avail, pipe, call, TypeOK
  <2>2. CASE Preempt(p)
    BY <2>2, SleepInvKept DEF Preempt, InKernel, pipe, call
  <2> QED BY <1>4, <2>1, <2>2
<1>5. ASSUME NEW p \in Procs, Signal(p) PROVE SleepInv'
  BY <1>5 DEF Signal, SleepInv, Empty, Full, Avail, pipe, files, call
<1> QED BY <1>1, <1>2, <1>3, <1>4, <1>5 DEF Next

(* Nobody sleeps through a wakeup of pipe_read() or pipe_write(). *)
THEOREM NoWakeupLost == Spec => []NoLostWakeup
<1> DEFINE Inv == TypeOK /\ SleepInv /\ readers = 1
<1>1. Init => Inv
  <2>1. Init => SleepInv
    BY DEF Init, SleepInv
  <2> QED BY <2>1, InitType DEF Init
<1>2. Inv /\ [Next]_vars => Inv'
  BY TypeStep, SleepInvStep, ReadersStep
<1>3. Inv => NoLostWakeup
  BY DEF SleepInv, NoLostWakeup, Quiescent
<1> QED BY <1>1, <1>2, <1>3, PTL DEF Spec

-----------------------------------------------------------------------------
(* The write end is counted exactly.  CountInv ties the three records of it *)
(* together: the descriptors, the ref_count of the file, writers.           *)

Holders == {p \in Procs : "wr" \in holds[p]}

CountInv ==
    /\ ref_count["wr"] = Cardinality(Holders)
    /\ writers = IF ref_count["wr"] = 0 THEN 0 ELSE 1

(* What pipe_close() takes from writers. *)
LEMMA DroppedWriter ==
    ASSUME NEW E \in SUBSET Ends
    PROVE  Dropped(E, O_WRONLY) = IF "wr" \in E /\ ref_count["wr"] = 1 THEN 1 ELSE 0
<1> DEFINE D == {e \in Ends : LastRef(e, E, O_WRONLY)}
<1>1. CASE "wr" \in E /\ ref_count["wr"] = 1
  <2>1. D = {"wr"}
    BY <1>1 DEF LastRef, FlagSet, EndFlags, Ends, O_WRONLY, O_RDONLY
  <2> QED BY <1>1, <2>1, FS_Singleton DEF Dropped
<1>2. CASE ~("wr" \in E /\ ref_count["wr"] = 1)
  <2>1. D = {}
    BY <1>2 DEF LastRef, FlagSet, EndFlags, Ends, O_WRONLY, O_RDONLY
  <2> QED BY <1>2, <2>1, FS_EmptySet DEF Dropped
<1> QED BY <1>1, <1>2

(* pipe_close() of ends that the process holds keeps the counts exact. *)
LEMMA CountClose ==
    ASSUME TypeOK, CountInv, NEW p \in Procs, NEW E \in SUBSET holds[p], PipeClose(p, E)
    PROVE  CountInv'
<1>1. E \in SUBSET Ends /\ "wr" \in Ends
  BY DEF TypeOK, Ends
<1>2. IsFiniteSet(Holders)
  BY PipeAssumption, FS_Subset DEF Holders
<1>3. Cardinality(Holders) \in Nat
  BY <1>2, FS_CardinalityType
<1>4. CASE "wr" \in E
  <2>1. p \in Holders
    BY <1>4 DEF Holders
  <2>2. Holders' = Holders \ {p}
    BY <1>4 DEF PipeClose, Holders, TypeOK
  <2>3. Cardinality(Holders') = Cardinality(Holders) - 1
    BY <1>2, <2>1, <2>2, FS_RemoveElement
  <2>4. Cardinality(Holders) # 0
    BY <1>2, <2>1, FS_EmptySet
  <2>5. ref_count'["wr"] = ref_count["wr"] - 1
    BY <1>1, <1>4 DEF PipeClose
  <2>6. writers' = writers - (IF ref_count["wr"] = 1 THEN 1 ELSE 0)
    BY <1>1, <1>4, DroppedWriter DEF PipeClose
  <2> QED BY <1>3, <2>3, <2>4, <2>5, <2>6 DEF CountInv
<1>5. CASE "wr" \notin E
  <2>1. Holders' = Holders
    BY <1>5 DEF PipeClose, Holders, TypeOK
  <2>2. ref_count'["wr"] = ref_count["wr"]
    BY <1>1, <1>5 DEF PipeClose
  <2>3. writers' = writers
    <3>1. Dropped(E, O_WRONLY) = 0
      BY <1>1, <1>5, DroppedWriter
    <3> QED BY <3>1 DEF PipeClose, TypeOK
  <2> QED BY <2>1, <2>2, <2>3 DEF CountInv
<1> QED BY <1>4, <1>5

(* Every step keeps the counts exact: only the closing of an end changes them. *)
LEMMA CountStep == TypeOK /\ CountInv /\ [Next]_vars => CountInv'
<1> SUFFICES ASSUME TypeOK, CountInv, [Next]_vars PROVE CountInv'
  OBVIOUS
<1>1. CASE UNCHANGED <<ref_count, holds, writers>>
  BY <1>1 DEF CountInv, Holders
<1>2. ASSUME NEW p \in Procs, Kernel(p) PROVE CountInv'
  <2>1. CASE PostDefault(p)
    BY <2>1, CountClose DEF PostDefault, ProcExit
  <2> QED BY <1>1, <1>2, <2>1
          DEF Kernel, ReadByte, ReadBlock, ReadReturn, WriteByte, WriteBlock, WriteReturn,
              Leave, PostHandler, PostIgnore, Resume, pipe, files
<1>3. ASSUME NEW p \in Procs, User(p) PROVE CountInv'
  <2>1. ASSUME NEW e \in Ends, Close(p, e) PROVE CountInv'
    <3>1. {e} \in SUBSET holds[p]
      BY <2>1 DEF Close
    <3> QED BY <2>1, <3>1, CountClose DEF Close
  <2>2. CASE Exit(p)
    BY <2>2, CountClose DEF Exit, ProcExit
  <2> QED BY <1>1, <1>3, <2>1, <2>2 DEF User, Enter, pipe, files
<1>4. ASSUME NEW p \in Procs, Dispatch(p) \/ Preempt(p) \/ Signal(p) PROVE CountInv'
  BY <1>1, <1>4 DEF Dispatch, Preempt, Signal, pipe, files
<1> QED BY <1>1, <1>2, <1>3, <1>4 DEF Next, vars, pipe, files

(* The first state counts the write end once. *)
LEMMA InitCount == Init => CountInv
<1> SUFFICES ASSUME Init PROVE CountInv OBVIOUS
<1>1. "wr" \in Ends
  BY DEF Ends
<1>2. ref_count["wr"] = Cardinality(Holders)
  BY <1>1 DEF Init, Holders
<1>3. Holders # {}
  BY <1>1 DEF Init, Holders
<1>4. Cardinality(Holders) # 0
  BY <1>3, PipeAssumption, FS_Subset, FS_EmptySet DEF Holders
<1> QED BY <1>2, <1>4 DEF CountInv, Init

(* No writer is counted exactly when no process holds the write end. *)
LEMMA CountsAgree == CountInv => WritersCounted
<1> SUFFICES ASSUME CountInv PROVE WritersCounted OBVIOUS
<1>1. IsFiniteSet(Holders)
  BY PipeAssumption, FS_Subset DEF Holders
<1>2. Cardinality(Holders) = 0 <=> Holders = {}
  BY <1>1, FS_EmptySet
<1> QED BY <1>2 DEF CountInv, WritersCounted, Holders

(* pipe_read() learns from writers whether a write end is still open. *)
THEOREM WritersAlwaysCounted == Spec => []WritersCounted
<1>1. TypeOK /\ CountInv /\ [Next]_vars => (TypeOK /\ CountInv)'
  BY TypeStep, CountStep
<1> QED BY <1>1, InitType, InitCount, CountsAgree, PTL DEF Spec

(* A read that returns 0 is at the end of the file. *)
THEOREM ZeroReadIsEof == Spec => ZeroMeansEof
<1> DEFINE A == \A p \in Procs :
                  pc[p] = "read" /\ pc'[p] = "leave" /\ done[p] = 0 /\ nbytes[p] > 0
                      => Empty /\ \A q \in Procs : "wr" \notin holds[q]
<1>1. TypeOK /\ WritersCounted /\ [Next]_vars => [A]_vars
  <2> SUFFICES ASSUME TypeOK, WritersCounted, Next PROVE A
    OBVIOUS
  <2> SUFFICES ASSUME NEW p \in Procs,
                      pc[p] = "read", pc'[p] = "leave", done[p] = 0, nbytes[p] > 0
               PROVE  Empty /\ \A q \in Procs : "wr" \notin holds[q]
    OBVIOUS
  <2>1. ReadReturn(p)
    <3>1. PICK q \in Procs :
              Kernel(q) \/ User(q) \/ Dispatch(q) \/ Preempt(q) \/ Signal(q)
      BY DEF Next
    <3>2. CASE Kernel(q)
      BY <3>2 DEF Kernel, ReadByte, ReadBlock, ReadReturn, WriteByte, WriteBlock,
                  WriteReturn, Leave, PostHandler, PostIgnore, PostDefault, ProcExit,
                  Return, Resume, Sleep, InKernel, TypeOK, call
    <3>3. CASE User(q)
      BY <3>3 DEF User, Enter, Close, Exit, ProcExit, InKernel, TypeOK
    <3>4. CASE Dispatch(q) \/ Preempt(q) \/ Signal(q)
      BY <3>4 DEF Dispatch, Preempt, Signal, call
    <3> QED BY <3>1, <3>2, <3>3, <3>4
  <2> QED BY <2>1 DEF ReadReturn, WritersCounted, TypeOK
<1> QED BY <1>1, TypeCorrect, WritersAlwaysCounted, PTL DEF Spec, ZeroMeansEof

-----------------------------------------------------------------------------
(* The ring is a FIFO channel.  First, the arithmetic of positions modulo   *)
(* SizeMod and of indices modulo PIPE_BUF, which divides it.                *)

(* Quotient and remainder, and that the remainder is unique. *)
LEMMA DivMod ==
    ASSUME NEW n \in Nat \ {0}, NEW a \in Int
    PROVE  a = (a \div n) * n + (a % n) /\ a % n \in 0 .. n - 1 /\ a \div n \in Int
OBVIOUS

LEMMA ModUnique ==
    ASSUME NEW n \in Nat \ {0}, NEW a \in Int, NEW q \in Int, NEW r \in 0 .. n - 1,
           a = q * n + r
    PROVE  a % n = r
OBVIOUS

(* Reducing by SizeMod first does not change the index in the ring. *)
LEMMA IndexOfSum ==
    ASSUME NEW x \in Nat, NEW k \in Nat
    PROVE  ((x % SizeMod) + k) % PIPE_BUF = (x + k) % PIPE_BUF
<1> DEFINE M == SizeMod
           N == PIPE_BUF
           q == x \div M
           K == M \div N
           y == (x % M) + k
<1>1. M \in Nat \ {0} /\ N \in Nat \ {0} /\ M % N = 0
  BY PipeAssumption
<1>2. x = q * M + (x % M) /\ q \in Int /\ x % M \in Nat
  BY <1>1, DivMod
<1>3. M = K * N /\ K \in Int
  BY <1>1, DivMod
<1>4. y \in Int
  BY <1>2
<1>5. y = (y \div N) * N + (y % N) /\ y % N \in 0 .. N - 1 /\ y \div N \in Int
  BY <1>1, <1>4, DivMod
<1> HIDE DEF M, N, q, K, y
<1>6. x + k = q * M + y
  <2>1. q * M \in Int
    BY <1>1, <1>2
  <2> QED BY <1>2, <2>1 DEF y
<1>7. q * M = (q * K) * N
  BY <1>1, <1>2, <1>3
<1>8. x + k = (q * K) * N + (y \div N) * N + (y % N)
  <2>1. (q * K) * N \in Int /\ (y \div N) * N \in Int
    BY <1>1, <1>2, <1>3, <1>5
  <2> QED BY <1>5, <1>6, <1>7, <2>1
<1>9. (q * K) * N + (y \div N) * N = (q * K + (y \div N)) * N
  BY <1>1, <1>2, <1>3, <1>5
<1>10. q * K + (y \div N) \in Int
  BY <1>2, <1>3, <1>5
<1>11. x + k = (q * K + (y \div N)) * N + (y % N)
  BY <1>8, <1>9
<1>12. (x + k) % N = y % N
  <2>1. x + k \in Int
    OBVIOUS
  <2> QED BY <1>1, <1>5, <1>10, <1>11, <2>1, ModUnique, Zenon
<1> QED BY <1>12 DEF y, N, M

(* Fewer than PIPE_BUF positions apart, two positions have different slots. *)
LEMMA SlotsDiffer ==
    ASSUME NEW x \in Nat, NEW i \in Nat, NEW j \in Nat, i < j, j < PIPE_BUF
    PROVE  (x + i) % PIPE_BUF # (x + j) % PIPE_BUF
<1> DEFINE N == PIPE_BUF
           a == (x + i) \div N
           b == (x + j) \div N
<1>1. N \in Nat \ {0}
  BY PipeAssumption
<1> x + i \in Int /\ x + j \in Int
  OBVIOUS
<1>2. x + i = a * N + ((x + i) % N) /\ a \in Int /\ (x + i) % N \in Int
  <2>1. x + i = a * N + ((x + i) % N) /\ a \in Int /\ (x + i) % N \in 0 .. N - 1
    BY <1>1, DivMod, Zenon
  <2> QED BY <1>1, <2>1
<1>3. x + j = b * N + ((x + j) % N) /\ b \in Int /\ (x + j) % N \in Int
  <2>1. x + j = b * N + ((x + j) % N) /\ b \in Int /\ (x + j) % N \in 0 .. N - 1
    BY <1>1, DivMod, Zenon
  <2> QED BY <1>1, <2>1
<1> SUFFICES ASSUME (x + i) % N = (x + j) % N PROVE FALSE
  OBVIOUS
<1> HIDE DEF a, b
<1>4. j - i = b * N - a * N
  BY <1>1, <1>2, <1>3
<1>5. b * N - a * N = (b - a) * N
  BY <1>1, <1>2, <1>3
<1>6. b - a \in Int /\ 0 < (b - a) * N /\ (b - a) * N < N
  BY <1>1, <1>2, <1>3, <1>4, <1>5
<1>7. CASE b - a <= 0
  BY <1>1, <1>6, <1>7
<1>8. CASE b - a >= 1
  BY <1>1, <1>6, <1>8
<1> QED BY <1>6, <1>7, <1>8

(* The number of unread bytes, without the modulus. *)
LEMMA AvailValue ==
    ASSUME TypeOK
    PROVE  Avail = IF write_pos >= read_pos THEN write_pos - read_pos
                                            ELSE write_pos - read_pos + SizeMod
<1>1. SizeMod \in Nat \ {0} /\ read_pos \in 0 .. SizeMod - 1 /\ write_pos \in 0 .. SizeMod - 1
  BY PipeAssumption DEF TypeOK
<1>2. CASE write_pos >= read_pos
  <2>1. write_pos - read_pos \in 0 .. SizeMod - 1
    BY <1>1, <1>2
  <2>2. write_pos - read_pos = 0 * SizeMod + (write_pos - read_pos)
    BY <1>1
  <2> QED BY <1>1, <1>2, <2>1, <2>2, ModUnique DEF Avail
<1>3. CASE ~(write_pos >= read_pos)
  <2>1. write_pos - read_pos + SizeMod \in 0 .. SizeMod - 1
    BY <1>1, <1>3
  <2>2. write_pos - read_pos = (-1) * SizeMod + (write_pos - read_pos + SizeMod)
    BY <1>1
  <2> QED BY <1>1, <1>3, <2>1, <2>2, ModUnique DEF Avail
<1> QED BY <1>2, <1>3

(* The same of the next state. *)
LEMMA AvailNext ==
    TypeOK' => (Avail = IF write_pos >= read_pos THEN write_pos - read_pos
                                                 ELSE write_pos - read_pos + SizeMod)'
<1>1. TypeOK => Avail = IF write_pos >= read_pos THEN write_pos - read_pos
                                                 ELSE write_pos - read_pos + SizeMod
  BY AvailValue
<1> QED BY <1>1, PTL

(* A step of a position, without the modulus. *)
LEMMA IncrValue ==
    ASSUME NEW pos \in 0 .. SizeMod - 1
    PROVE  Incr(pos) = IF pos = SizeMod - 1 THEN 0 ELSE pos + 1
<1>1. SizeMod \in Nat \ {0}
  BY PipeAssumption
<1>2. CASE pos = SizeMod - 1
  <2>1. pos + 1 = 1 * SizeMod + 0 /\ 0 \in 0 .. SizeMod - 1
    BY <1>1, <1>2
  <2> QED BY <1>1, <1>2, <2>1, ModUnique DEF Incr
<1>3. CASE pos # SizeMod - 1
  <2>1. pos + 1 = 0 * SizeMod + (pos + 1) /\ pos + 1 \in 0 .. SizeMod - 1
    BY <1>1, <1>3
  <2> QED BY <1>1, <1>3, <2>1, ModUnique DEF Incr
<1> QED BY <1>2, <1>3

(* The next byte is written Avail positions after the next one to be read. *)
LEMMA WriteSlot ==
    ASSUME TypeOK
    PROVE  /\ Avail \in 0 .. SizeMod - 1
           /\ write_pos % PIPE_BUF = (read_pos + Avail) % PIPE_BUF
<1>1. SizeMod \in Nat \ {0} /\ PIPE_BUF \in Nat \ {0}
      /\ read_pos \in 0 .. SizeMod - 1 /\ write_pos \in 0 .. SizeMod - 1
  BY PipeAssumption DEF TypeOK
<1>2. Avail \in 0 .. SizeMod - 1
  BY <1>1, AvailValue
<1>3. write_pos = (read_pos + Avail) % SizeMod
  <2>1. read_pos + Avail \in Int
    BY <1>1, <1>2
  <2>2. CASE write_pos >= read_pos
    <3>1. read_pos + Avail = 0 * SizeMod + write_pos
      BY <1>1, <2>2, AvailValue
    <3> QED BY <1>1, <2>1, <3>1, ModUnique
  <2>3. CASE ~(write_pos >= read_pos)
    <3>1. read_pos + Avail = 1 * SizeMod + write_pos
      BY <1>1, <2>3, AvailValue
    <3> QED BY <1>1, <2>1, <3>1, ModUnique
  <2> QED BY <2>2, <2>3
<1>4. read_pos + Avail \in Nat
  BY <1>1, <1>2
<1>5. (((read_pos + Avail) % SizeMod) + 0) % PIPE_BUF = (read_pos + Avail + 0) % PIPE_BUF
  BY <1>4, IndexOfSum
<1> QED BY <1>1, <1>2, <1>3, <1>4, <1>5

(* The unread bytes form a sequence, and the slot of each is known. *)
LEMMA ContentsSeq ==
    ASSUME TypeOK
    PROVE  /\ Contents \in Seq(Byte)
           /\ Len(Contents) = Avail
           /\ \A i \in 1 .. Avail : Contents[i] = buffer[(read_pos + (i - 1)) % PIPE_BUF]
<1>1. SizeMod \in Nat \ {0} /\ PIPE_BUF \in Nat \ {0} /\ read_pos \in 0 .. SizeMod - 1
  BY PipeAssumption DEF TypeOK
<1>2. Avail \in 0 .. SizeMod - 1
  BY WriteSlot
<1>3. ASSUME NEW i \in 1 .. Avail
      PROVE  /\ Contents[i] = buffer[(read_pos + (i - 1)) % PIPE_BUF]
             /\ Contents[i] \in Byte
  <2>1. read_pos + i - 1 \in Nat /\ read_pos + i - 1 = read_pos + (i - 1)
    BY <1>1, <1>2
  <2>2. (((read_pos + i - 1) % SizeMod) + 0) % PIPE_BUF = (read_pos + i - 1 + 0) % PIPE_BUF
    BY <2>1, IndexOfSum
  <2>3. (read_pos + i - 1) % SizeMod \in Nat
    BY <1>1, <2>1, DivMod
  <2>4. ((read_pos + i - 1) % SizeMod) % PIPE_BUF = (read_pos + (i - 1)) % PIPE_BUF
    BY <2>1, <2>2, <2>3
  <2>5. (read_pos + (i - 1)) % PIPE_BUF \in 0 .. PIPE_BUF - 1
    BY <1>1, <2>1, DivMod
  <2> QED BY <2>4, <2>5 DEF Contents, TypeOK
<1>4. Contents \in [1 .. Avail -> Byte]
  BY <1>3 DEF Contents
<1>5. Contents \in Seq(Byte) /\ Len(Contents) = Avail
  BY <1>2, <1>4
<1> QED BY <1>3, <1>5

(* The same of the next state. *)
LEMMA ContentsNext ==
    TypeOK' => (/\ Contents \in Seq(Byte)
                /\ Len(Contents) = Avail
                /\ \A i \in 1 .. Avail :
                      Contents[i] = buffer[(read_pos + (i - 1)) % PIPE_BUF])'
<1>1. TypeOK => /\ Contents \in Seq(Byte)
                /\ Len(Contents) = Avail
                /\ \A i \in 1 .. Avail :
                      Contents[i] = buffer[(read_pos + (i - 1)) % PIPE_BUF]
  BY ContentsSeq
<1> QED BY <1>1, PTL

(* pipe_read() of a byte takes the head of the channel. *)
LEMMA ReadIsGet ==
    ASSUME TypeOK, TypeOK', NEW p \in Procs, ReadByte(p)
    PROVE  Channel!Get /\ Avail' = Avail - 1
<1>1. SizeMod \in Nat \ {0} /\ PIPE_BUF \in Nat \ {0}
      /\ read_pos \in 0 .. SizeMod - 1 /\ write_pos \in 0 .. SizeMod - 1
  BY PipeAssumption DEF TypeOK
<1>2. read_pos # write_pos /\ read_pos' = Incr(read_pos) /\ write_pos' = write_pos
      /\ buffer' = buffer /\ delivered' = buffer[read_pos % PIPE_BUF]
  BY DEF ReadByte, Empty
<1>3. Avail \in 0 .. SizeMod - 1 /\ Avail > 0
  BY <1>1, <1>2, AvailValue
<1>4. Avail' = IF write_pos' >= read_pos' THEN write_pos' - read_pos'
                                          ELSE write_pos' - read_pos' + SizeMod
  BY AvailNext
<1>5. Avail' = Avail - 1
  BY <1>1, <1>2, <1>4, AvailValue, IncrValue
<1>6. /\ Contents' \in Seq(Byte)
      /\ Len(Contents') = Avail'
      /\ \A i \in 1 .. Avail' :
            Contents'[i] = buffer'[(read_pos' + (i - 1)) % PIPE_BUF]
  BY ContentsNext
<1>7. Contents \in Seq(Byte) /\ Len(Contents) = Avail /\ Contents # <<>>
  BY <1>3, ContentsSeq
<1>8. Head(Contents) = buffer[read_pos % PIPE_BUF]
  <2>1. Contents[1] = buffer[(read_pos + (1 - 1)) % PIPE_BUF]
    BY <1>3, ContentsSeq
  <2>2. read_pos + (1 - 1) = read_pos
    BY <1>1
  <2> QED BY <1>7, <2>1, <2>2
<1>9. Contents' = Tail(Contents)
  <2>1. /\ Tail(Contents) \in Seq(Byte) /\ Len(Tail(Contents)) = Avail - 1
        /\ \A i \in 1 .. Len(Tail(Contents)) : Tail(Contents)[i] = Contents[i + 1]
    BY <1>7, HeadTailProperties
  <2>2. ASSUME NEW i \in 1 .. Avail - 1 PROVE Contents'[i] = Tail(Contents)[i]
    <3>1. Contents'[i] = buffer[(Incr(read_pos) + (i - 1)) % PIPE_BUF]
      BY <1>2, <1>5, <1>6
    <3>2. (((read_pos + 1) % SizeMod) + (i - 1)) % PIPE_BUF
              = (read_pos + 1 + (i - 1)) % PIPE_BUF
      <4>1. read_pos + 1 \in Nat /\ i - 1 \in Nat
        BY <1>1, <1>3
      <4> QED BY <4>1, IndexOfSum
    <3>3. read_pos + 1 + (i - 1) = read_pos + ((i + 1) - 1) /\ i + 1 \in 1 .. Avail
      BY <1>1, <1>3
    <3>4. Contents[i + 1] = buffer[(read_pos + ((i + 1) - 1)) % PIPE_BUF]
      BY <3>3, ContentsSeq
    <3>5. Tail(Contents)[i] = Contents[i + 1]
      BY <2>1
    <3> QED BY <3>1, <3>2, <3>3, <3>4, <3>5 DEF Incr
  <2>3. Len(Contents') = Avail - 1
    BY <1>5, <1>6
  <2>4. \A i \in 1 .. Len(Contents') : Contents'[i] = Tail(Contents)[i]
    BY <2>2, <2>3
  <2> QED BY <1>6, <2>1, <2>3, <2>4, SeqEqual
<1> QED BY <1>2, <1>5, <1>7, <1>8, <1>9 DEF Channel!Get

(* pipe_write() of a byte appends it to the channel. *)
LEMMA WriteIsPut ==
    ASSUME TypeOK, TypeOK', NeverOverfull, NEW p \in Procs, NEW b \in Byte, WriteByte(p, b)
    PROVE  Channel!Put(b) /\ Avail' = Avail + 1 /\ Avail < PIPE_BUF
<1>1. SizeMod \in Nat \ {0} /\ PIPE_BUF \in Nat \ {0} /\ PIPE_BUF < SizeMod
      /\ read_pos \in 0 .. SizeMod - 1 /\ write_pos \in 0 .. SizeMod - 1
  BY PipeAssumption DEF TypeOK
<1>2. write_pos' = Incr(write_pos) /\ read_pos' = read_pos /\ delivered' = delivered
      /\ buffer' = [buffer EXCEPT ![write_pos % PIPE_BUF] = b]
  BY DEF WriteByte
<1>3. Avail \in 0 .. SizeMod - 1 /\ Avail < PIPE_BUF
  <2>1. Avail # PIPE_BUF /\ Avail <= PIPE_BUF
    BY DEF WriteByte, Full, NeverOverfull
  <2>2. Avail \in 0 .. SizeMod - 1
    BY WriteSlot
  <2> QED BY <1>1, <2>1, <2>2
<1>4. Avail' = IF write_pos' >= read_pos' THEN write_pos' - read_pos'
                                          ELSE write_pos' - read_pos' + SizeMod
  BY AvailNext
<1>5. Avail' = Avail + 1
  BY <1>1, <1>2, <1>3, <1>4, AvailValue, IncrValue
<1>6. /\ Contents' \in Seq(Byte)
      /\ Len(Contents') = Avail + 1
      /\ \A i \in 1 .. Avail + 1 :
            Contents'[i] = buffer'[(read_pos + (i - 1)) % PIPE_BUF]
  <2>1. /\ Contents' \in Seq(Byte)
        /\ Len(Contents') = Avail'
        /\ \A i \in 1 .. Avail' :
              Contents'[i] = buffer'[(read_pos' + (i - 1)) % PIPE_BUF]
    BY ContentsNext
  <2> QED BY <1>2, <1>5, <2>1
<1>7. Contents \in Seq(Byte) /\ Len(Contents) = Avail
  BY ContentsSeq
<1>8. write_pos % PIPE_BUF = (read_pos + Avail) % PIPE_BUF
  BY WriteSlot
<1>9. Contents' = Append(Contents, b)
  <2>1. ASSUME NEW i \in 1 .. Avail PROVE Contents'[i] = Contents[i]
    <3>1. read_pos \in Nat /\ i - 1 \in Nat /\ Avail \in Nat /\ i - 1 < Avail
      BY <1>1, <1>3
    <3>2. (read_pos + (i - 1)) % PIPE_BUF # (read_pos + Avail) % PIPE_BUF
      BY <1>3, <3>1, SlotsDiffer
    <3>3. Contents'[i] = buffer'[(read_pos + (i - 1)) % PIPE_BUF]
      BY <1>3, <1>6
    <3>4. (read_pos + (i - 1)) % PIPE_BUF \in 0 .. PIPE_BUF - 1
      BY <1>1, <3>1, DivMod
    <3>5. buffer'[(read_pos + (i - 1)) % PIPE_BUF] = buffer[(read_pos + (i - 1)) % PIPE_BUF]
      BY <1>2, <1>8, <3>2, <3>4 DEF TypeOK
    <3> QED BY <3>3, <3>5, ContentsSeq
  <2>2. Contents'[Avail + 1] = b
    <3>1. Avail + 1 \in 1 .. Avail + 1 /\ read_pos + ((Avail + 1) - 1) = read_pos + Avail
      BY <1>1, <1>3
    <3>2. Contents'[Avail + 1] = buffer'[(read_pos + Avail) % PIPE_BUF]
      BY <1>6, <3>1
    <3>3. write_pos % PIPE_BUF \in 0 .. PIPE_BUF - 1
      BY <1>1, DivMod
    <3> QED BY <1>2, <1>8, <3>2, <3>3 DEF TypeOK
  <2>3. /\ Append(Contents, b) \in Seq(Byte)
        /\ Len(Append(Contents, b)) = Avail + 1
        /\ \A i \in 1 .. Avail + 1 :
              Append(Contents, b)[i] = IF i = Avail + 1 THEN b ELSE Contents[i]
    BY <1>3, <1>7
  <2>4. \A i \in 1 .. Avail + 1 : Contents'[i] = Append(Contents, b)[i]
    BY <1>3, <2>1, <2>2, <2>3
  <2> QED BY <1>6, <2>3, <2>4, SeqEqual
<1> QED BY <1>2, <1>3, <1>5, <1>7, <1>9 DEF Channel!Put

-----------------------------------------------------------------------------
RingInv == TypeOK /\ NeverOverfull /\ readers = 1

(* Steps that leave the ring alone keep its bound and the channel's bytes. *)
LEMMA RingKept ==
    ASSUME NeverOverfull, UNCHANGED <<buffer, read_pos, write_pos>>
    PROVE  NeverOverfull' /\ Contents' = Contents
BY DEF NeverOverfull, Avail, Contents

(* Every step of the pipe code is a step of the channel or leaves it alone, *)
(* and the ring is never overfull.                                          *)
LEMMA RingStep ==
    ASSUME RingInv, [Next]_vars, TypeOK'
    PROVE  NeverOverfull' /\ [Channel!Next]_<<Contents, delivered>>
<1> USE DEF RingInv
<1>1. ASSUME UNCHANGED <<buffer, read_pos, write_pos>>, delivered' \in {delivered, NoByte}
      PROVE  NeverOverfull' /\ [Channel!Next]_<<Contents, delivered>>
  BY <1>1, RingKept DEF Channel!Next, Channel!Finish
<1>2. CASE UNCHANGED vars
  BY <1>1, <1>2 DEF vars, pipe
<1>3. ASSUME NEW p \in Procs, Kernel(p)
      PROVE  NeverOverfull' /\ [Channel!Next]_<<Contents, delivered>>
  <2>1. CASE ReadByte(p)
    <3>1. Channel!Get /\ Avail' = Avail - 1
      BY <2>1, ReadIsGet
    <3>2. Avail \in Int /\ PIPE_BUF \in Int
      BY WriteSlot, PipeAssumption
    <3>3. NeverOverfull'
      BY <3>1, <3>2 DEF NeverOverfull
    <3> QED BY <3>1, <3>3 DEF Channel!Next
  <2>2. ASSUME NEW b \in Byte, WriteByte(p, b)
        PROVE  NeverOverfull' /\ [Channel!Next]_<<Contents, delivered>>
    <3>1. Channel!Put(b) /\ Avail' = Avail + 1 /\ Avail < PIPE_BUF
      BY <2>2, WriteIsPut
    <3>2. Avail \in Int /\ PIPE_BUF \in Int
      BY WriteSlot, PipeAssumption
    <3>3. NeverOverfull'
      BY <3>1, <3>2 DEF NeverOverfull
    <3> QED BY <3>1, <3>3 DEF Channel!Next
  <2>3. CASE PostDefault(p)
    BY <1>1, <2>3, NeverDestroyed DEF PostDefault, ProcExit
  <2>4. CASE \/ ReadBlock(p) \/ ReadReturn(p) \/ WriteBlock(p) \/ WriteReturn(p)
             \/ Leave(p) \/ PostHandler(p) \/ PostIgnore(p)
    BY <1>1, <2>4 DEF ReadBlock, ReadReturn, WriteBlock, WriteReturn, Return, Sleep,
                      Leave, PostHandler, PostIgnore, Resume, pipe
  <2> QED BY <1>3, <2>1, <2>2, <2>3, <2>4 DEF Kernel
<1>4. ASSUME NEW p \in Procs, User(p)
      PROVE  NeverOverfull' /\ [Channel!Next]_<<Contents, delivered>>
  BY <1>1, <1>4, NeverDestroyed DEF User, Enter, Close, Exit, ProcExit, pipe
<1>5. ASSUME NEW p \in Procs, Dispatch(p) \/ Preempt(p) \/ Signal(p)
      PROVE  NeverOverfull' /\ [Channel!Next]_<<Contents, delivered>>
  BY <1>1, <1>5 DEF Dispatch, Preempt, Signal, pipe
<1> QED BY <1>2, <1>3, <1>4, <1>5 DEF Next

(* The first state is an empty channel. *)
LEMMA InitRing == Init => RingInv /\ Channel!Init
<1> SUFFICES ASSUME Init PROVE RingInv /\ Channel!Init OBVIOUS
<1>1. TypeOK
  BY InitType
<1>2. Avail = 0
  BY <1>1, AvailValue DEF Init
<1>3. Contents = <<>>
  BY <1>1, <1>2, ContentsSeq, EmptySeq
<1> QED BY <1>1, <1>2, <1>3, PipeAssumption DEF Init, RingInv, NeverOverfull, Channel!Init

(* RingInv is inductive. *)
LEMMA RingInvStep == RingInv /\ [Next]_vars => RingInv'
BY RingStep, TypeStep, ReadersStep DEF RingInv

(* No write runs over a byte that has not been read. *)
THEOREM RingNeverOverfull == Spec => []NeverOverfull
<1>1. RingInv => NeverOverfull
  BY DEF RingInv
<1> QED BY <1>1, InitRing, RingInvStep, PTL DEF Spec

(* The pipe implements the FIFO channel: every byte read is the oldest one  *)
(* written and not yet read.                                                *)
THEOREM PipeIsChannel == Spec => IsChannel
<1>1. RingInv /\ [Next]_vars => [Channel!Next]_<<Contents, delivered>>
  BY RingStep, TypeStep DEF RingInv
<1> QED BY <1>1, InitRing, RingInvStep, PTL DEF Spec, IsChannel, Channel!Spec
=============================================================================
