------------------------------ MODULE ProcProofs ------------------------------
(***************************************************************************)
(* Proofs about Proc: the types, that every process has a parent that can  *)
(* collect it, that no parent sleeps through an exit, and that the table   *)
(* implements Lineage.  And about Signals, what one process makes of the   *)
(* signals it gets: main() goes on where a handler interrupted it, and     *)
(* sleep(2) ends in time.                                                  *)
(***************************************************************************)
EXTENDS Proc, ProcSignals, WellFoundedInduction, TLAPS

(* Min of a set of slots that is not empty is one of them: what             *)
(* proc_alloc() and wait() find by walking the table.                       *)
LEMMA MinSlot == ASSUME NEW S \in SUBSET Slots, S # {} PROVE Min(S) \in S
<1>1. S \subseteq Nat
  BY ProcAssumption DEF Slots
<1> DEFINE Less == {ss \in Nat \X Nat : ss[1] < ss[2]}
<1>2. IsWellFoundedOn(Less, Nat)
  BY NatLessThanWellFounded DEF OpToRel
<1>3. \E x \in S : \A y \in S : ~(<<y, x>> \in Less)
  <2> HIDE DEF Less
  <2> QED BY <1>1, <1>2, WFMin
<1>4. PICK x \in S : \A y \in S : ~(<<y, x>> \in Less)
  BY <1>3
<1>5. ASSUME NEW y \in S PROVE x =< y
  <2>1. x \in Nat /\ y \in Nat
    BY <1>1
  <2>2. ~(y < x)
    BY <1>4, <2>1
  <2> QED BY <2>1, <2>2
<1> QED BY <1>5 DEF Min

(* proc_alloc() finds a slot that is free.                                  *)
LEMMA FreeSlot ==
    /\ FreeSlots \subseteq Slots
    /\ FreeSlots # {} => Min(FreeSlots) \in FreeSlots
<1>1. FreeSlots \subseteq Slots
  BY DEF FreeSlots
<1> QED BY <1>1, MinSlot

(* A fork() that fails clears free slots alone.                             *)
LEMMA FailedFork ==
    ASSUME NEW p, ForkFail(p)
    PROVE  \E C \in SUBSET FreeSlots :
             /\ pid' = [i \in Slots |-> IF i \in C THEN 0 ELSE pid[i]]
             /\ pgrp' = [i \in Slots |-> IF i \in C THEN 0 ELSE pgrp[i]]
             /\ parent' = [i \in Slots |-> IF i \in C THEN NoProc ELSE parent[i]]
             /\ wchan' = [i \in Slots |-> IF i \in C THEN NoChan ELSE wchan[i]]
             /\ sig' = [i \in Slots |-> IF i \in C THEN FALSE ELSE sig[i]]
<1> DEFINE C == IF FreeSlots = {} THEN {} ELSE {Min(FreeSlots)}
<1>1. C \in SUBSET FreeSlots
  BY FreeSlot
<1> WITNESS C \in SUBSET FreeSlots
<1> QED BY DEF ForkFail

States == {"NULL", "RUNNING", "SLEEP", "ZOMBIE"}

(* wakeup() moves sleepers to STATE_RUNNING and changes nothing else.       *)
LEMMA WokenFacts ==
    ASSUME TypeOK, NEW c
    PROVE  /\ WokenState(state, wchan, c) \in [Slots -> States]
           /\ WokenChan(state, wchan, c) \in [Slots -> Slots \cup {Disk, NoChan}]
           /\ \A i \in Slots :
                /\ (WokenState(state, wchan, c)[i] = "NULL") <=> (state[i] = "NULL")
                /\ (WokenState(state, wchan, c)[i] = "ZOMBIE") <=> (state[i] = "ZOMBIE")
                /\ WokenState(state, wchan, c)[i] = "SLEEP" =>
                     /\ state[i] = "SLEEP" /\ wchan[i] # c
                     /\ WokenChan(state, wchan, c)[i] = wchan[i]
  BY DEF TypeOK, WokenState, WokenChan, States

(* The first process is in a slot, and the channels are not slots.          *)
LEMMA Constants ==
    /\ InitSlot \in Slots
    /\ Disk \notin Slots /\ NoChan \notin Slots /\ NoProc \notin Slots
    /\ Disk # NoChan
  BY ProcAssumption DEF InitSlot, Slots, Disk, NoChan

(* Every operation of the table keeps the types.                            *)
LEMMA TypeStep == TypeOK /\ [Next]_vars => TypeOK'
<1> SUFFICES ASSUME TypeOK, [Next]_vars PROVE TypeOK'
  OBVIOUS
<1> USE ProcAssumption, Constants DEF TypeOK, ids, run
<1>1. CASE UNCHANGED vars
  BY <1>1 DEF vars
<1>2. ASSUME NEW p \in Slots, Kernel(p) PROVE TypeOK'
  <2>1. CASE ReadSleepOn(p)
    BY <2>1 DEF ReadSleepOn, SleepOn
  <2>2. CASE ReadReturn(p)
    BY <2>2 DEF ReadReturn, Return
  <2>3. CASE ExitSleep(p)
    BY <2>3 DEF ExitSleep, SleepOn
  <2>4. CASE ExitFinish(p)
    BY <2>4, WokenFacts DEF ExitFinish, States
  <2>5. CASE WaitCollect(p)
    <3>1. Min(Zombies(p)) \in Slots
      BY <2>5, MinSlot DEF WaitCollect, Zombies, Children
    <3> QED BY <2>5, <3>1 DEF WaitCollect, Return
  <2>6. CASE WaitError(p)
    BY <2>6 DEF WaitError, Return
  <2>7. CASE WaitSleep(p)
    BY <2>7 DEF WaitSleep, SleepOn
  <2>8. CASE Leave(p) \/ PostHandler(p) \/ PostIgnore(p)
    BY <2>8 DEF Leave, PostHandler, PostIgnore
  <2>9. CASE PostDefault(p)
    BY <2>9, WokenFacts DEF PostDefault, ExitStart, States
  <2> QED BY <1>2, <2>1, <2>2, <2>3, <2>4, <2>5, <2>6, <2>7, <2>8, <2>9 DEF Kernel
<1>3. ASSUME NEW p \in Slots, User(p) PROVE TypeOK'
  <2>1. CASE Fork(p)
    <3>1. Min(FreeSlots) \in FreeSlots /\ FreeSlots \subseteq Slots
      BY <2>1, FreeSlot DEF Fork, CanFork
    <3>2. nextpid \in 0 .. MaxPid /\ nextpid + 1 \in 2 .. MaxPid
      BY <2>1 DEF Fork, CanFork
    <3> QED BY <2>1, <3>1, <3>2 DEF Fork
  <2>2. CASE ForkFail(p)
    <3>1. PICK C \in SUBSET FreeSlots :
             /\ pid' = [i \in Slots |-> IF i \in C THEN 0 ELSE pid[i]]
             /\ pgrp' = [i \in Slots |-> IF i \in C THEN 0 ELSE pgrp[i]]
             /\ parent' = [i \in Slots |-> IF i \in C THEN NoProc ELSE parent[i]]
             /\ wchan' = [i \in Slots |-> IF i \in C THEN NoChan ELSE wchan[i]]
             /\ sig' = [i \in Slots |-> IF i \in C THEN FALSE ELSE sig[i]]
      BY <2>2, FailedFork
    <3>2. /\ pid' \in [Slots -> 0 .. MaxPid]
          /\ pgrp' \in [Slots -> 0 .. MaxPid]
      BY <3>1
    <3>3. parent' \in [Slots -> Slots \cup {NoProc}]
      BY <3>1
    <3>4. wchan' \in [Slots -> Slots \cup {Disk, NoChan}]
      BY <3>1
    <3>5. sig' \in [Slots -> BOOLEAN]
      BY <3>1
    <3> QED BY <2>2, <3>2, <3>3, <3>4, <3>5 DEF ForkFail
  <2>3. CASE Exit(p)
    BY <2>3, WokenFacts DEF Exit, ExitStart, States
  <2>4. CASE Wait(p)
    BY <2>4 DEF Wait
  <2>5. CASE Read(p)
    BY <2>5 DEF Read, SleepOn
  <2>6. CASE \E q \in Slots : Kill(p, q)
    BY <2>6 DEF Kill, Return
  <2>7. CASE \E g \in 2 .. MaxPid : KillGroup(p, g)
    BY <2>7 DEF KillGroup, Return
  <2> QED BY <1>3, <2>1, <2>2, <2>3, <2>4, <2>5, <2>6, <2>7 DEF User
<1>4. ASSUME NEW p \in Slots, Dispatch(p) \/ Preempt(p) PROVE TypeOK'
  BY <1>4 DEF Dispatch, Preempt
<1>5. CASE DiskIntr
  BY <1>5, WokenFacts DEF DiskIntr, States
<1>6. CASE \E g \in 2 .. MaxPid : TtyIntr(g)
  BY <1>6 DEF TtyIntr
<1> QED BY <1>1, <1>2, <1>3, <1>4, <1>5, <1>6 DEF Next

(* Every state of the process table has the types of TypeOK.                *)
THEOREM TypeCorrect == Spec => []TypeOK
<1>1. Init => TypeOK
  BY ProcAssumption, Constants DEF Init, TypeOK, InitPid
<1> QED BY <1>1, TypeStep, PTL DEF Spec

-----------------------------------------------------------------------------
(* init is never signalled, so it never exits *)
InitSafe ==
    /\ Alive(InitSlot)
    /\ pc[InitSlot] \notin {"exit", "exit_io"}
    /\ ~sig[InitSlot]
    /\ pgrp[InitSlot] = 0

CurAlive == cur \in Slots => Alive(cur)

IndInv == TypeOK /\ InitSafe /\ CurAlive /\ ParentAlive /\ NoExitMissed

(* IndInv survives a step that leaves the parents and the group of init     *)
(* alone, frees no slot, makes no zombie, puts nobody to sleep in wait()    *)
(* and sends nobody but the process at work further into proc_exit().       *)
LEMMA QuietStep ==
    ASSUME IndInv, TypeOK', UNCHANGED parent, UNCHANGED pgrp,
           ~sig'[InitSlot],
           cur' \in Slots => Alive(cur'),
           \A i \in Slots :
             /\ (state'[i] = "NULL") <=> (state[i] = "NULL")
             /\ (state'[i] = "ZOMBIE") <=> (state[i] = "ZOMBIE")
             /\ state'[i] = "SLEEP" /\ wchan'[i] = i =>
                  (state[i] = "SLEEP" /\ wchan[i] = i) \/ Zombies(i) = {}
             /\ pc'[i] \in {"exit", "exit_io"} => pc[i] \in {"exit", "exit_io"}
    PROVE  IndInv'
<1> USE Constants DEF IndInv, TypeOK
<1>1. \A i \in Slots : Used(i)' = Used(i) /\ Alive(i)' = Alive(i) /\ Zombies(i)' = Zombies(i)
  BY DEF Used, Alive, Zombies, Children
<1>2. InitSafe'
  BY <1>1 DEF InitSafe
<1>3. CurAlive'
  BY <1>1 DEF CurAlive, Alive
<1>4. ParentAlive'
  BY <1>1 DEF ParentAlive
<1>5. NoExitMissed'
  BY <1>1 DEF NoExitMissed
<1> QED BY <1>2, <1>3, <1>4, <1>5

(* proc_exit() up to the closing of the files: the children go to init.     *)
LEMMA ExitStartStep ==
    ASSUME IndInv, TypeOK', NEW p \in Slots, p # InitSlot, cur = p, ExitStart(p)
    PROVE  IndInv'
<1> USE Constants DEF IndInv, TypeOK, ExitStart, run
<1>1. \A i \in Slots :
        /\ (state'[i] = "NULL") <=> (state[i] = "NULL")
        /\ (state'[i] = "ZOMBIE") <=> (state[i] = "ZOMBIE")
        /\ state'[i] = "SLEEP" => state[i] = "SLEEP" /\ wchan'[i] = wchan[i]
        /\ AdoptsZombie(p) /\ state'[i] = "SLEEP" => wchan[i] # InitSlot
  BY WokenFacts
<1>2. \A i \in Slots : Used(i)' = Used(i) /\ Alive(i)' = Alive(i)
  BY <1>1 DEF Used, Alive
<1>3. InitSafe'
  BY <1>2 DEF InitSafe
<1>4. CurAlive'
  BY <1>2 DEF CurAlive
<1>5. ParentAlive'
  BY <1>2, <1>3 DEF ParentAlive, Orphans, InitSafe
<1>6. \A q \in Slots : q # InitSlot => Zombies(q)' \subseteq Zombies(q)
  BY <1>1 DEF Zombies, Children, Used, Orphans
<1>7. ~AdoptsZombie(p) => Zombies(InitSlot)' \subseteq Zombies(InitSlot)
  BY <1>1 DEF Zombies, Children, Used, Orphans, AdoptsZombie
<1>8. NoExitMissed'
  BY <1>1, <1>6, <1>7 DEF NoExitMissed
<1> QED BY <1>3, <1>4, <1>5, <1>8

(* The end of proc_exit(): the process becomes a zombie.                    *)
LEMMA ExitFinishStep ==
    ASSUME IndInv, TypeOK', NEW p \in Slots, ExitFinish(p)
    PROVE  IndInv'
<1> USE Constants DEF IndInv, TypeOK, ExitFinish, ids
<1>0. pc[p] \in {"exit", "exit_io"} /\ p # InitSlot
  BY DEF In, InitSafe
<1>1. \A i \in Slots \ {p} :
        /\ (state'[i] = "NULL") <=> (state[i] = "NULL")
        /\ (state'[i] = "ZOMBIE") <=> (state[i] = "ZOMBIE")
        /\ state'[i] = "SLEEP" =>
             state[i] = "SLEEP" /\ wchan'[i] = wchan[i] /\ wchan[i] # parent[p]
  BY WokenFacts
<1>2. state'[p] = "ZOMBIE" /\ Alive(p)
  BY WokenFacts DEF In, CurAlive, States
<1>3. \A i \in Slots : Used(i)' = Used(i)
  BY <1>1, <1>2 DEF Used, Alive
<1>4. \A i \in Slots \ {p} : Alive(i)' = Alive(i)
  BY <1>1 DEF Alive
<1>5. InitSafe'
  BY <1>0, <1>4 DEF InitSafe
<1>6. CurAlive'
  BY DEF CurAlive
<1>7. ParentAlive'
  BY <1>0, <1>3, <1>4 DEF ParentAlive
<1>8. \A q \in Slots : q # parent[p] => Zombies(q)' = Zombies(q)
  BY <1>1, <1>2, <1>3 DEF Zombies, Children
<1>9. NoExitMissed'
  BY <1>1, <1>2, <1>8 DEF NoExitMissed
<1> QED BY <1>5, <1>6, <1>7, <1>9

(* wait() frees the slot of a zombie, which is nobody's parent.             *)
LEMMA WaitCollectStep ==
    ASSUME IndInv, TypeOK', NEW p \in Slots, WaitCollect(p)
    PROVE  IndInv'
<1> USE Constants DEF IndInv, TypeOK, WaitCollect, Return, ids
<1> DEFINE z == Min(Zombies(p))
<1>1. z \in Slots /\ state[z] = "ZOMBIE"
  BY MinSlot DEF Zombies, Children
<1> HIDE DEF z
<1>2. state' = [state EXCEPT ![z] = "NULL"]
  BY DEF z
<1>3. \A i \in Slots : Alive(i)' = Alive(i) /\ (Used(i)' => Used(i))
  BY <1>1, <1>2 DEF Alive, Used
<1>4. InitSafe'
  BY <1>3 DEF InitSafe
<1>5. CurAlive'
  BY <1>3 DEF CurAlive
<1>6. ParentAlive'
  BY <1>3 DEF ParentAlive
<1>7. \A q \in Slots : Zombies(q)' \subseteq Zombies(q)
  BY <1>2, <1>3 DEF Zombies, Children
<1>8. NoExitMissed'
  BY <1>1, <1>2, <1>7 DEF NoExitMissed
<1> QED BY <1>4, <1>5, <1>6, <1>8

(* fork() takes a slot that is nobody's parent and makes the caller its     *)
(* parent.                                                                  *)
LEMMA ForkStep ==
    ASSUME IndInv, TypeOK', NEW p \in Slots, Fork(p)
    PROVE  IndInv'
<1> USE Constants DEF IndInv, TypeOK
<1> DEFINE c == Min(FreeSlots)
<1>1. c \in Slots /\ state[c] = "NULL"
  BY FreeSlot DEF Fork, CanFork, FreeSlots
<1>2. /\ state' = [state EXCEPT ![c] = "RUNNING"]
      /\ pgrp' = [pgrp EXCEPT ![c] = IF pgrp[p] = 0 THEN nextpid ELSE pgrp[p]]
      /\ parent' = [parent EXCEPT ![c] = p]
      /\ wchan' = [wchan EXCEPT ![c] = NoChan]
      /\ sig' = [sig EXCEPT ![c] = FALSE]
      /\ pc' = [pc EXCEPT ![c] = "user", ![p] = "leave"]
      /\ cur' = cur /\ cur = p
  BY DEF Fork, In
<1> HIDE DEF c
<1>3. Alive(p) /\ p # c /\ c # InitSlot
  BY <1>1, <1>2 DEF CurAlive, InitSafe, Alive
<1>4. \A i \in Slots : i # c => Alive(i)' = Alive(i) /\ Used(i)' = Used(i)
  BY <1>2 DEF Alive, Used
<1>5. \A i \in Slots \ {InitSlot} : i # c /\ Used(i) => parent[i] # c
  BY <1>1 DEF ParentAlive, Alive
<1>6. InitSafe'
  BY <1>2, <1>3, <1>4 DEF InitSafe
<1>7. CurAlive'
  BY <1>2, <1>3, <1>4 DEF CurAlive
<1>8. ParentAlive'
  BY <1>1, <1>2, <1>3, <1>4, <1>5 DEF ParentAlive
<1>9. \A q \in Slots : Zombies(q)' = Zombies(q)
  BY <1>1, <1>2 DEF Zombies, Children, Used
<1>10. NoExitMissed'
  BY <1>1, <1>2, <1>9 DEF NoExitMissed
<1> QED BY <1>6, <1>7, <1>8, <1>10

(* A fork() that fails touches nothing in use.                              *)
LEMMA ForkFailStep ==
    ASSUME IndInv, TypeOK', NEW p \in Slots, ForkFail(p)
    PROVE  IndInv'
<1> USE Constants DEF IndInv, TypeOK
<1>1. PICK C \in SUBSET FreeSlots :
         /\ pgrp' = [i \in Slots |-> IF i \in C THEN 0 ELSE pgrp[i]]
         /\ parent' = [i \in Slots |-> IF i \in C THEN NoProc ELSE parent[i]]
         /\ wchan' = [i \in Slots |-> IF i \in C THEN NoChan ELSE wchan[i]]
         /\ sig' = [i \in Slots |-> IF i \in C THEN FALSE ELSE sig[i]]
  BY FailedFork
<1>2. /\ state' = state /\ cur' = cur
      /\ pc' = [pc EXCEPT ![p] = "leave"]
  BY DEF ForkFail
<1>3. \A i \in Slots : Alive(i)' = Alive(i) /\ Used(i)' = Used(i)
  BY <1>2 DEF Alive, Used
<1>4. \A i \in Slots : state[i] # "NULL" =>
        pgrp'[i] = pgrp[i] /\ parent'[i] = parent[i] /\ wchan'[i] = wchan[i] /\ sig'[i] = sig[i]
  BY <1>1 DEF FreeSlots
<1>5. InitSafe'
  BY <1>2, <1>3, <1>4 DEF InitSafe, Alive
<1>6. CurAlive'
  BY <1>2, <1>3 DEF CurAlive
<1>7. ParentAlive'
  BY <1>2, <1>3, <1>4 DEF ParentAlive, Used
<1>8. \A q \in Slots : Zombies(q)' = Zombies(q)
  BY <1>2, <1>4 DEF Zombies, Children, Used
<1>9. NoExitMissed'
  BY <1>2, <1>4, <1>8 DEF NoExitMissed
<1> QED BY <1>5, <1>6, <1>7, <1>9

(* Every operation of the table keeps IndInv.                               *)
LEMMA TableStep == IndInv /\ [Next]_vars => IndInv'
<1> SUFFICES ASSUME IndInv, [Next]_vars PROVE IndInv'
  OBVIOUS
<1>0. TypeOK'
  BY TypeStep DEF IndInv
<1>1. CASE UNCHANGED vars
  BY <1>1, <1>0, QuietStep, Constants DEF vars, ids, run, IndInv, CurAlive, InitSafe, Alive
<1> USE <1>0, Constants
<1>2. ASSUME NEW p \in Slots, Kernel(p) PROVE IndInv'
  <2>0. cur = p => Alive(p)
    BY DEF IndInv, CurAlive
  <2> USE <2>0 DEF In, ids, run, Alive
  <2>1. CASE ReadSleepOn(p)
    BY <2>1, QuietStep DEF ReadSleepOn, SleepOn, IndInv, TypeOK, InitSafe
  <2>2. CASE ReadReturn(p)
    BY <2>2, QuietStep DEF ReadReturn, Return, IndInv, TypeOK, InitSafe
  <2>3. CASE ExitSleep(p)
    BY <2>3, QuietStep DEF ExitSleep, SleepOn, IndInv, TypeOK, InitSafe
  <2>4. CASE ExitFinish(p)
    BY <2>4, ExitFinishStep
  <2>5. CASE WaitCollect(p)
    BY <2>5, WaitCollectStep
  <2>6. CASE WaitError(p)
    BY <2>6, QuietStep DEF WaitError, Return, IndInv, TypeOK, InitSafe
  <2>7. CASE WaitSleep(p)
    BY <2>7, QuietStep DEF WaitSleep, SleepOn, IndInv, TypeOK, InitSafe
  <2>8. CASE Leave(p) \/ PostIgnore(p)
    BY <2>8, QuietStep DEF Leave, PostIgnore, IndInv, TypeOK, InitSafe
  <2>9. CASE PostHandler(p)
    BY <2>9, QuietStep DEF PostHandler, IndInv, TypeOK, InitSafe
  <2>10. CASE PostDefault(p)
    BY <2>10, ExitStartStep DEF PostDefault, IndInv, InitSafe
  <2> QED BY <1>2, <2>1, <2>2, <2>3, <2>4, <2>5, <2>6, <2>7, <2>8, <2>9, <2>10 DEF Kernel
<1>3. ASSUME NEW p \in Slots, User(p) PROVE IndInv'
  <2>0. cur = p => Alive(p)
    BY DEF IndInv, CurAlive
  <2> USE <2>0 DEF In, ids, run, Alive
  <2>1. CASE Fork(p)
    BY <2>1, ForkStep
  <2>2. CASE ForkFail(p)
    BY <2>2, ForkFailStep
  <2>3. CASE Exit(p)
    BY <2>3, ExitStartStep DEF Exit
  <2>4. CASE Wait(p)
    BY <2>4, QuietStep DEF Wait, IndInv, TypeOK, InitSafe
  <2>5. CASE Read(p)
    BY <2>5, QuietStep DEF Read, SleepOn, IndInv, TypeOK, InitSafe
  <2>6. CASE \E q \in Slots : Kill(p, q)
    BY <2>6, QuietStep DEF Kill, Return, IndInv, TypeOK, InitSafe
  <2>7. CASE \E g \in 2 .. MaxPid : KillGroup(p, g)
    <3>1. ~sig'[InitSlot]
      BY <2>7 DEF KillGroup, Group, IndInv, TypeOK, InitSafe
    <3> QED BY <2>7, <3>1, QuietStep DEF KillGroup, Return, IndInv, TypeOK
  <2> QED BY <1>3, <2>1, <2>2, <2>3, <2>4, <2>5, <2>6, <2>7 DEF User
<1>4. ASSUME NEW p \in Slots, Dispatch(p) PROVE IndInv'
  BY <1>4, QuietStep DEF Dispatch, Runnable, Alive, ids, run, IndInv, TypeOK, InitSafe
<1>5. ASSUME NEW p \in Slots, Preempt(p) PROVE IndInv'
  BY <1>5, QuietStep DEF Preempt, ids, run, IndInv, TypeOK, InitSafe
<1>6. CASE DiskIntr
  <2>1. CurAlive /\ InitSafe /\ TypeOK
    BY DEF IndInv
  <2>2. \A i \in Slots :
          /\ (state'[i] = "NULL") <=> (state[i] = "NULL")
          /\ (state'[i] = "ZOMBIE") <=> (state[i] = "ZOMBIE")
          /\ state'[i] = "SLEEP" => state[i] = "SLEEP" /\ wchan'[i] = wchan[i]
    BY <1>6, <2>1, WokenFacts DEF DiskIntr
  <2> QED BY <1>6, <2>1, <2>2, QuietStep DEF DiskIntr, ids, InitSafe, CurAlive, Alive
<1>7. CASE \E g \in 2 .. MaxPid : TtyIntr(g)
  <2>1. ~sig'[InitSlot]
    BY <1>7 DEF TtyIntr, Group, IndInv, TypeOK, InitSafe
  <2> QED BY <1>7, <2>1, QuietStep DEF TtyIntr, ids, run, Alive, IndInv, TypeOK, CurAlive
<1> QED BY <1>1, <1>2, <1>3, <1>4, <1>5, <1>6, <1>7 DEF Next

(* IndInv holds of every reachable state of the table.                      *)
LEMMA Inductive == Spec => []IndInv
<1>1. Init => IndInv
  <2> SUFFICES ASSUME Init PROVE IndInv
    OBVIOUS
  <2> USE ProcAssumption, Constants
  <2>1. TypeOK
    BY DEF Init, TypeOK, InitPid
  <2>2. InitSafe /\ CurAlive
    BY DEF Init, InitSafe, CurAlive, Alive
  <2>3. ParentAlive /\ NoExitMissed
    BY DEF Init, ParentAlive, NoExitMissed, Used
  <2> QED BY <2>1, <2>2, <2>3 DEF IndInv
<1> QED BY <1>1, TableStep, PTL DEF Spec

(* proc_exit() and fork() keep every process within reach of a parent that  *)
(* lives and is not exiting itself.                                         *)
THEOREM ParentsLive == Spec => []ParentAlive
<1>1. IndInv => ParentAlive
  BY DEF IndInv
<1> QED BY <1>1, Inductive, PTL

(* wait() never sleeps through the exit, or the adoption, of a child.       *)
THEOREM ExitsNoticed == Spec => []NoExitMissed
<1>1. IndInv => NoExitMissed
  BY DEF IndInv
<1> QED BY <1>1, Inductive, PTL

-----------------------------------------------------------------------------
(* The process table implements Lineage.                                    *)

(* No two processes have the same id, and none has one that proc_alloc() is *)
(* yet to give out.                                                         *)
PidsDiffer ==
    /\ pid[InitSlot] = InitPid
    /\ \A i \in Slots : Used(i) => 0 < pid[i] /\ pid[i] < nextpid
    /\ \A i, j \in Slots : Used(i) /\ Used(j) /\ pid[i] = pid[j] => i = j

(* Ids stay different when no slot comes into use.                          *)
LEMMA PidsKept ==
    ASSUME IndInv, PidsDiffer, UNCHANGED nextpid,
           \A i \in Slots : (Used(i)' => Used(i)) /\ (Used(i) => pid'[i] = pid[i])
    PROVE  PidsDiffer'
<1>1. Used(InitSlot) /\ InitSlot \in Slots
  BY Constants DEF IndInv, InitSafe, Used, Alive
<1> QED BY <1>1 DEF PidsDiffer

(* No operation gives an id to two processes: only fork() gives one out.    *)
LEMMA PidsStep == IndInv /\ PidsDiffer /\ [Next]_vars => PidsDiffer'
<1> SUFFICES ASSUME IndInv, PidsDiffer, [Next]_vars PROVE PidsDiffer'
  OBVIOUS
<1>0. TypeOK /\ CurAlive
  BY DEF IndInv
<1> USE DEF ids, run
<1>1. CASE UNCHANGED vars
  BY <1>1, PidsKept DEF vars, Used
<1>2. ASSUME NEW p \in Slots, Kernel(p) PROVE PidsDiffer'
  <2>0. cur = p => Used(p)
    BY <1>0 DEF CurAlive, Alive, Used
  <2> SUFFICES UNCHANGED <<pid, nextpid>> /\ \A i \in Slots : Used(i)' => Used(i)
    BY PidsKept
  <2>1. CASE ReadSleepOn(p)
    BY <1>0, <2>0, <2>1 DEF ReadSleepOn, SleepOn, In, Used, TypeOK
  <2>2. CASE ReadReturn(p)
    BY <2>2 DEF ReadReturn, Used
  <2>3. CASE ExitSleep(p)
    BY <1>0, <2>0, <2>3 DEF ExitSleep, SleepOn, In, Used, TypeOK
  <2>4. CASE ExitFinish(p)
    BY <1>0, <2>0, <2>4, WokenFacts DEF ExitFinish, In, Used
  <2>5. CASE WaitCollect(p)
    BY <1>0, <2>5 DEF WaitCollect, Used, TypeOK
  <2>6. CASE WaitError(p)
    BY <2>6 DEF WaitError, Used
  <2>7. CASE WaitSleep(p)
    BY <1>0, <2>0, <2>7 DEF WaitSleep, SleepOn, In, Used, TypeOK
  <2>8. CASE Leave(p) \/ PostIgnore(p)
    BY <2>8 DEF Leave, PostIgnore, Used
  <2>9. CASE PostHandler(p)
    BY <1>0, <2>0, <2>9 DEF PostHandler, In, Used, TypeOK
  <2>10. CASE PostDefault(p)
    BY <1>0, <2>10, WokenFacts DEF PostDefault, ExitStart, Used
  <2> QED BY <1>2, <2>1, <2>2, <2>3, <2>4, <2>5, <2>6, <2>7, <2>8, <2>9, <2>10 DEF Kernel
<1>3. ASSUME NEW p \in Slots, User(p) PROVE PidsDiffer'
  <2>0. cur = p => Used(p)
    BY <1>0 DEF CurAlive, Alive, Used
  <2>1. CASE Fork(p)
    <3> DEFINE c == Min(FreeSlots)
    <3>1. c \in Slots /\ ~Used(c)
      BY <2>1, FreeSlot DEF Fork, CanFork, FreeSlots, Used
    <3>2. /\ state' = [state EXCEPT ![c] = "RUNNING"] /\ pid' = [pid EXCEPT ![c] = nextpid]
          /\ nextpid' = nextpid + 1
      BY <2>1 DEF Fork
    <3>3. c # InitSlot
      BY <3>1 DEF IndInv, InitSafe, Alive, Used
    <3> HIDE DEF c
    <3>4. /\ pid'[c] = nextpid
          /\ \A i \in Slots : i # c => pid'[i] = pid[i] /\ (Used(i)' <=> Used(i))
      BY <1>0, <3>1, <3>2 DEF TypeOK, Used
    <3>5. nextpid \in Int /\ nextpid > 1 /\ \A i \in Slots : pid[i] \in Int
      BY <1>0, ProcAssumption DEF TypeOK
    <3> QED BY <3>1, <3>2, <3>3, <3>4, <3>5, Constants DEF PidsDiffer
  <2>2. CASE ForkFail(p)
    <3>1. PICK C \in SUBSET FreeSlots : pid' = [i \in Slots |-> IF i \in C THEN 0 ELSE pid[i]]
      BY <2>2, FailedFork
    <3>2. UNCHANGED <<nextpid, state>>
      BY <2>2 DEF ForkFail
    <3> QED BY <3>1, <3>2, PidsKept DEF FreeSlots, Used
  <2>3. CASE Exit(p)
    BY <1>0, <2>3, WokenFacts, PidsKept DEF Exit, ExitStart, Used
  <2>4. CASE Wait(p)
    BY <2>4, PidsKept DEF Wait, Used
  <2>5. CASE Read(p)
    BY <1>0, <2>0, <2>5, PidsKept DEF Read, SleepOn, In, Used, TypeOK
  <2>6. CASE \E q \in Slots : Kill(p, q)
    BY <2>6, PidsKept DEF Kill, Used
  <2>7. CASE \E g \in 2 .. MaxPid : KillGroup(p, g)
    BY <2>7, PidsKept DEF KillGroup, Used
  <2> QED BY <1>3, <2>1, <2>2, <2>3, <2>4, <2>5, <2>6, <2>7 DEF User
<1>4. ASSUME NEW p \in Slots, Dispatch(p) \/ Preempt(p) PROVE PidsDiffer'
  BY <1>4, PidsKept DEF Dispatch, Preempt, Used
<1>5. CASE DiskIntr
  BY <1>0, <1>5, WokenFacts, PidsKept DEF DiskIntr, Used
<1>6. CASE \E g \in 2 .. MaxPid : TtyIntr(g)
  BY <1>6, PidsKept DEF TtyIntr, Used
<1> QED BY <1>1, <1>2, <1>3, <1>4, <1>5, <1>6 DEF Next

(* The ids of the reachable states differ.                                  *)
LEMMA PidsInductive == Spec => [](IndInv /\ PidsDiffer)
<1>1. Init => PidsDiffer
  BY Constants DEF Init, PidsDiffer, Used, InitPid
<1> QED BY <1>1, Inductive, PidsStep, PTL DEF Spec

(* The values that the variables of Lineage have in the process table.      *)
LivePids == PidsOf({i \in Slots : Alive(i)})
ZombiePids == PidsOf({i \in Slots : state[i] = "ZOMBIE"})
Members == {i \in Slots \ {InitSlot} : Used(i)}
ParentPids == [n \in PidsOf(Members) |-> pid[parent[SlotOf(n)]]]

(* The parent of a process, by id, is the id of its parent, and no other id *)
(* has a parent.                                                            *)
ParentsMapped ==
    /\ \A i \in Members : pid[i] \in DOMAIN ParentPids /\ ParentPids[pid[i]] = pid[parent[i]]
    /\ \A n \in DOMAIN ParentPids : \E i \in Members : pid[i] = n

(* It is so because the ids differ.                                         *)
LEMMA ParentPid == PidsDiffer => ParentsMapped
<1> SUFFICES ASSUME PidsDiffer PROVE ParentsMapped
  OBVIOUS
<1>1. ASSUME NEW i \in Members
      PROVE  pid[i] \in DOMAIN ParentPids /\ ParentPids[pid[i]] = pid[parent[i]]
  <2>1. i \in Slots /\ Used(i)
    BY DEF Members
  <2>2. SlotOf(pid[i]) = i
    BY <2>1 DEF SlotOf, PidsDiffer
  <2>3. pid[i] \in PidsOf(Members)
    BY DEF PidsOf
  <2> QED BY <2>2, <2>3 DEF ParentPids
<1>2. \A n \in DOMAIN ParentPids : \E i \in Members : pid[i] = n
  BY DEF ParentPids, PidsOf
<1> QED BY <1>1, <1>2 DEF ParentsMapped

(* The same after a step.                                                   *)
LEMMA ParentPidNext == PidsDiffer' => ParentsMapped'
BY ParentPid, PTL

(* Two functions with the same values are the same: parents, by id.         *)
LEMMA SameParents ==
    ASSUME NEW f, f = [n \in DOMAIN f |-> f[n]], DOMAIN ParentPids' = DOMAIN f,
           \A n \in DOMAIN f : ParentPids'[n] = f[n]
    PROVE  ParentPids' = f
<1>1. ParentPids' = [n \in DOMAIN ParentPids' |-> ParentPids'[n]]
  BY DEF ParentPids
<1> QED BY <1>1

(* Nothing changes for Lineage when no process starts, exits, is collected  *)
(* or gets another parent.                                                  *)
LEMMA LineageKept ==
    ASSUME IndInv, PidsDiffer, IndInv', PidsDiffer', UNCHANGED nextpid,
           \A i \in Slots : /\ (Used(i)' <=> Used(i)) /\ (Alive(i)' <=> Alive(i))
                            /\ Used(i) => pid'[i] = pid[i] /\ parent'[i] = parent[i]
    PROVE  UNCHANGED <<LivePids, ZombiePids, ParentPids, nextpid>>
<1>1. \A i \in Slots : Alive(i) => Used(i)
  BY DEF Alive, Used
<1>2. LivePids' = LivePids
  BY <1>1 DEF LivePids, PidsOf
<1>3. \A i \in Slots : state[i] = "ZOMBIE" <=> Used(i) /\ ~Alive(i)
  BY DEF Alive, Used
<1>4. \A i \in Slots : state'[i] = "ZOMBIE" <=> Used(i)' /\ ~Alive(i)'
  BY DEF Alive, Used
<1>5. ZombiePids' = ZombiePids
  BY <1>3, <1>4 DEF ZombiePids, PidsOf
<1>6. Members' = Members
  BY DEF Members
<1>7. \A i \in Members : pid'[i] = pid[i] /\ pid'[parent'[i]] = pid[parent[i]]
  BY DEF Members, IndInv, ParentAlive, Alive, Used
<1>8. ParentPids' = ParentPids
  <2>1. DOMAIN ParentPids' = DOMAIN ParentPids
    BY <1>6, <1>7 DEF ParentPids, PidsOf
  <2>2. \A n \in DOMAIN ParentPids : ParentPids'[n] = ParentPids[n]
    BY <1>6, <1>7, ParentPid, ParentPidNext DEF ParentsMapped
  <2>3. ParentPids = [n \in DOMAIN ParentPids |-> ParentPids[n]]
    BY DEF ParentPids
  <2> QED BY <2>1, <2>2, <2>3, SameParents
<1> QED BY <1>2, <1>5, <1>8

(* fork() is Fork of Lineage.                                               *)
LEMMA ForkIsFork ==
    ASSUME IndInv, PidsDiffer, IndInv', PidsDiffer', NEW p \in Slots, Fork(p)
    PROVE  Lin!Next
<1>0. PICK c \in Slots :
        /\ ~Used(c) /\ state' = [state EXCEPT ![c] = "RUNNING"]
        /\ pid' = [pid EXCEPT ![c] = nextpid] /\ parent' = [parent EXCEPT ![c] = p]
  BY FreeSlot DEF Fork, CanFork, FreeSlots, Used
<1>1. ~Used(c)
  BY <1>0
<1>2. /\ state' = [state EXCEPT ![c] = "RUNNING"] /\ pid' = [pid EXCEPT ![c] = nextpid]
      /\ parent' = [parent EXCEPT ![c] = p] /\ nextpid' = nextpid + 1 /\ cur = p
  BY <1>0 DEF Fork, In
<1>3. c # InitSlot /\ Alive(p) /\ p # c
  BY <1>1, <1>2 DEF IndInv, InitSafe, CurAlive, Alive, Used
<1>4. /\ pid'[c] = nextpid /\ parent'[c] = p /\ state'[c] = "RUNNING"
      /\ \A i \in Slots : i # c => pid'[i] = pid[i] /\ parent'[i] = parent[i] /\ state'[i] = state[i]
  BY <1>1, <1>2 DEF IndInv, TypeOK
<1>5. /\ Alive(c)' /\ Used(c)' /\ ~Alive(c)
      /\ \A i \in Slots : i # c => (Used(i)' <=> Used(i)) /\ (Alive(i)' <=> Alive(i))
  BY <1>1, <1>4 DEF Alive, Used
<1>6. LivePids' = LivePids \cup {nextpid}
  BY <1>1, <1>4, <1>5 DEF LivePids, PidsOf
<1>7. ZombiePids' = ZombiePids
  BY <1>1, <1>4 DEF ZombiePids, PidsOf, Used
<1>8. Members' = Members \cup {c} /\ c \notin Members
  BY <1>1, <1>3, <1>5 DEF Members
<1>9. \A i \in Members : pid'[i] = pid[i] /\ pid'[parent'[i]] = pid[parent[i]]
  <2>1. \A i \in Members : i \in Slots /\ parent[i] \in Slots /\ Used(parent[i])
    BY DEF Members, IndInv, ParentAlive, Alive, Used
  <2> QED BY <1>1, <1>4, <1>8, <2>1
<1>10. DOMAIN ParentPids' = DOMAIN ParentPids \cup {nextpid}
  <2>1. PidsOf(Members)' = PidsOf(Members) \cup {nextpid}
    BY <1>4, <1>8, <1>9 DEF PidsOf
  <2> QED BY <2>1 DEF ParentPids
<1>11. nextpid \notin DOMAIN ParentPids
  <2>1. \A i \in Members : pid[i] < nextpid /\ pid[i] \in Int /\ nextpid \in Int
    BY DEF Members, PidsDiffer, IndInv, TypeOK
  <2> QED BY <2>1, ParentPid DEF ParentsMapped
<1>12. ParentPids'[nextpid] = pid[p]
  BY <1>3, <1>4, <1>8, ParentPidNext DEF ParentsMapped
<1>13. \A n \in DOMAIN ParentPids : ParentPids'[n] = ParentPids[n]
  BY <1>8, <1>9, ParentPid, ParentPidNext DEF ParentsMapped
<1>14. ParentPids' = [n \in DOMAIN ParentPids \cup {nextpid} |-> IF n = nextpid THEN pid[p] ELSE ParentPids[n]]
  <2> DEFINE f == [n \in DOMAIN ParentPids \cup {nextpid} |-> IF n = nextpid THEN pid[p] ELSE ParentPids[n]]
  <2>1. f = [n \in DOMAIN f |-> f[n]] /\ DOMAIN f = DOMAIN ParentPids'
    BY <1>10
  <2>2. \A n \in DOMAIN f : ParentPids'[n] = f[n]
    BY <1>11, <1>12, <1>13
  <2> HIDE DEF f
  <2>3. ParentPids' = f
    BY <2>1, <2>2, SameParents
  <2> QED BY <2>3 DEF f
<1>15. pid[p] \in LivePids
  BY <1>3 DEF LivePids, PidsOf
<1>16. nextpid - 1 + 1 = nextpid /\ nextpid' - 1 = nextpid
  BY <1>2 DEF IndInv, TypeOK
<1>17. Lin!Fork(pid[p])
  BY <1>6, <1>7, <1>14, <1>15, <1>16, ZenonT(40) DEF Lin!Fork, LivePids, ZombiePids, ParentPids, Members
<1> QED BY <1>15, <1>17 DEF Lin!Next, LivePids

(* proc_exit() up to the closing of the files is Adopt of Lineage.          *)
LEMMA ExitStartIsAdopt ==
    ASSUME IndInv, PidsDiffer, IndInv', PidsDiffer',
           NEW p \in Slots, p # InitSlot, Alive(p), ExitStart(p)
    PROVE  Lin!Next
<1>1. /\ parent' = [i \in Slots |-> IF parent[i] = p THEN InitSlot ELSE parent[i]]
      /\ UNCHANGED <<pid, nextpid>>
  BY DEF ExitStart, Orphans
<1>2. \A i \in Slots : (state'[i] = "NULL" <=> state[i] = "NULL") /\ (state'[i] = "ZOMBIE" <=> state[i] = "ZOMBIE")
  BY WokenFacts DEF ExitStart, run, IndInv
<1>3. \A i \in Slots : (Used(i)' <=> Used(i)) /\ (Alive(i)' <=> Alive(i))
  BY <1>2 DEF Used, Alive
<1>4. LivePids' = LivePids /\ ZombiePids' = ZombiePids /\ Members' = Members
  BY <1>1, <1>2, <1>3 DEF LivePids, ZombiePids, Members, PidsOf
<1>5. DOMAIN ParentPids' = DOMAIN ParentPids
  BY <1>1, <1>4 DEF ParentPids, PidsOf
<1>6. pid[InitSlot] = InitPid /\ Used(p) /\ pid[p] # InitPid /\ pid[p] \in LivePids
  BY Constants DEF PidsDiffer, IndInv, InitSafe, Alive, Used, LivePids, PidsOf
<1>7. ASSUME NEW i \in Members
      PROVE  /\ ParentPids[pid[i]] = pid[p] <=> parent[i] = p
             /\ ParentPids'[pid[i]] = IF ParentPids[pid[i]] = pid[p] THEN InitPid ELSE ParentPids[pid[i]]
  <2>1. i \in Slots /\ parent[i] \in Slots /\ Used(parent[i])
    BY DEF Members, IndInv, ParentAlive, Alive, Used
  <2>2. ParentPids[pid[i]] = pid[parent[i]] /\ ParentPids'[pid[i]] = pid[parent'[i]]
    BY <1>1, <1>4, ParentPid, ParentPidNext DEF ParentsMapped
  <2>3. pid[parent[i]] = pid[p] <=> parent[i] = p
    BY <1>6, <2>1 DEF PidsDiffer
  <2> QED BY <1>1, <1>6, <2>1, <2>2, <2>3
<1>8. ParentPids' = [n \in DOMAIN ParentPids |-> IF ParentPids[n] = pid[p] THEN InitPid ELSE ParentPids[n]]
  <2> DEFINE f == [n \in DOMAIN ParentPids |-> IF ParentPids[n] = pid[p] THEN InitPid ELSE ParentPids[n]]
  <2>1. f = [n \in DOMAIN f |-> f[n]] /\ DOMAIN f = DOMAIN ParentPids'
    BY <1>5
  <2>2. \A n \in DOMAIN f : ParentPids'[n] = f[n]
    BY <1>7, ParentPid DEF ParentsMapped
  <2> HIDE DEF f
  <2>3. ParentPids' = f
    BY <2>1, <2>2, SameParents
  <2> QED BY <2>3 DEF f
<1>9. Lin!Adopt(pid[p])
  BY <1>1, <1>4, <1>6, <1>8 DEF Lin!Adopt, LivePids, ZombiePids, ParentPids, Members
<1> QED BY <1>6, <1>9 DEF Lin!Next, LivePids

(* The end of proc_exit() is Exit of Lineage.                               *)
LEMMA ExitFinishIsExit ==
    ASSUME IndInv, PidsDiffer, IndInv', PidsDiffer', NEW p \in Slots, ExitFinish(p)
    PROVE  Lin!Next
<1>1. UNCHANGED <<pid, parent, nextpid>> /\ pc[p] \in {"exit", "exit_io"} /\ Alive(p) /\ p # InitSlot
  BY DEF ExitFinish, ids, In, IndInv, CurAlive, InitSafe
<1>2. /\ state'[p] = "ZOMBIE"
      /\ \A i \in Slots : i # p => /\ state'[i] = "NULL" <=> state[i] = "NULL"
                                   /\ state'[i] = "ZOMBIE" <=> state[i] = "ZOMBIE"
  BY WokenFacts DEF ExitFinish, IndInv, States
<1>3. /\ Used(p) /\ ~Alive(p)' /\ Used(p)' /\ state[p] # "ZOMBIE"
      /\ \A i \in Slots : i # p => (Used(i)' <=> Used(i)) /\ (Alive(i)' <=> Alive(i))
  BY <1>1, <1>2 DEF Used, Alive
<1>4. \A i \in Slots : Used(i) /\ pid[i] = pid[p] => i = p
  BY <1>3 DEF PidsDiffer
<1>5. LivePids' = LivePids \ {pid[p]}
  <2>1. \A i \in Slots : Alive(i) => Used(i)
    BY DEF Alive, Used
  <2> QED BY <1>1, <1>3, <1>4, <2>1 DEF LivePids, PidsOf
<1>6. ZombiePids' = ZombiePids \cup {pid[p]}
  BY <1>1, <1>2 DEF ZombiePids, PidsOf
<1>7. Members' = Members
  BY <1>3 DEF Members
<1>8. ParentPids' = ParentPids
  <2>1. DOMAIN ParentPids' = DOMAIN ParentPids
    BY <1>1, <1>7 DEF ParentPids, PidsOf
  <2>2. \A n \in DOMAIN ParentPids : ParentPids'[n] = ParentPids[n]
    BY <1>1, <1>7, ParentPid, ParentPidNext DEF ParentsMapped
  <2>3. ParentPids = [n \in DOMAIN ParentPids |-> ParentPids[n]]
    BY DEF ParentPids
  <2> QED BY <2>1, <2>2, <2>3, SameParents
<1>9. \A n \in DOMAIN ParentPids : ParentPids[n] # pid[p]
  <2>1. \A i \in Members : parent[i] \in Slots /\ Used(parent[i]) /\ parent[i] # p
    BY <1>1 DEF Members, IndInv, ParentAlive, Alive, Used
  <2> QED BY <1>4, <2>1, ParentPid DEF ParentsMapped
<1>10. pid[p] \in LivePids /\ pid[p] # InitPid
  BY <1>1, <1>3, Constants DEF PidsDiffer, IndInv, InitSafe, Alive, Used, LivePids, PidsOf
<1>11. Lin!Exit(pid[p])
  BY <1>1, <1>5, <1>6, <1>8, <1>9, <1>10 DEF Lin!Exit, LivePids, ZombiePids, ParentPids, Members
<1> QED BY <1>10, <1>11 DEF Lin!Next, LivePids

(* wait() that finds a zombie is Collect of Lineage.                        *)
LEMMA WaitIsCollect ==
    ASSUME IndInv, PidsDiffer, IndInv', PidsDiffer', NEW p \in Slots, WaitCollect(p)
    PROVE  Lin!Next
<1>1. PICK z \in Slots : state[z] = "ZOMBIE" /\ parent[z] = p /\ state' = [state EXCEPT ![z] = "NULL"]
  <2>1. Min(Zombies(p)) \in Zombies(p) /\ Zombies(p) \subseteq Slots
    BY MinSlot DEF WaitCollect, Zombies, Children
  <2> QED BY <2>1 DEF WaitCollect, Zombies, Children
<1>2. UNCHANGED <<pid, parent, nextpid>> /\ Alive(p)
  BY DEF WaitCollect, ids, In, IndInv, CurAlive
<1>3. /\ z # InitSlot /\ Used(z) /\ ~Alive(z) /\ ~Used(z)' /\ ~Alive(z)' /\ state'[z] # "ZOMBIE"
      /\ \A i \in Slots : i # z => /\ (Used(i)' <=> Used(i)) /\ (Alive(i)' <=> Alive(i))
                                   /\ state'[i] = state[i]
  BY <1>1 DEF Used, Alive, IndInv, InitSafe, TypeOK
<1>4. \A i \in Slots : Used(i) /\ pid[i] = pid[z] => i = z
  BY <1>3 DEF PidsDiffer
<1>5. LivePids' = LivePids
  BY <1>2, <1>3 DEF LivePids, PidsOf
<1>6. ZombiePids' = ZombiePids \ {pid[z]}
  <2>1. \A i \in Slots : state[i] = "ZOMBIE" => Used(i)
    BY DEF Used
  <2> QED BY <1>1, <1>2, <1>3, <1>4, <2>1 DEF ZombiePids, PidsOf
<1>7. Members' = Members \ {z} /\ z \in Members
  BY <1>3 DEF Members
<1>8. DOMAIN ParentPids' = DOMAIN ParentPids \ {pid[z]}
  <2>1. \A i \in Members : pid[i] = pid[z] => i = z
    BY <1>4 DEF Members
  <2>2. PidsOf(Members)' = PidsOf(Members) \ {pid[z]}
    BY <1>2, <1>7, <2>1 DEF PidsOf
  <2> QED BY <2>2 DEF ParentPids
<1>9. ParentPids' = [n \in DOMAIN ParentPids \ {pid[z]} |-> ParentPids[n]]
  <2> DEFINE f == [n \in DOMAIN ParentPids \ {pid[z]} |-> ParentPids[n]]
  <2>1. f = [n \in DOMAIN f |-> f[n]] /\ DOMAIN f = DOMAIN ParentPids'
    BY <1>8
  <2>2. \A n \in DOMAIN f : ParentPids'[n] = f[n]
    BY <1>2, <1>7, ParentPid, ParentPidNext DEF ParentsMapped
  <2> HIDE DEF f
  <2>3. ParentPids' = f
    BY <2>1, <2>2, SameParents
  <2> QED BY <2>3 DEF f
<1>10. pid[z] \in ZombiePids /\ ParentPids[pid[z]] \in LivePids
  <2>1. ParentPids[pid[z]] = pid[p]
    BY <1>1, <1>7, ParentPid DEF ParentsMapped
  <2> QED BY <1>1, <1>2, <2>1 DEF ZombiePids, LivePids, PidsOf
<1>11. Lin!Collect(pid[z])
  BY <1>2, <1>5, <1>6, <1>9, <1>10 DEF Lin!Collect, LivePids, ZombiePids, ParentPids, Members
<1> QED BY <1>10, <1>11 DEF Lin!Next, ZombiePids

(* The steps that start, end, collect and adopt no process are steps that   *)
(* Lineage does not see.                                                    *)
LEMMA LineageStutters ==
    ASSUME IndInv, PidsDiffer, IndInv', PidsDiffer', UNCHANGED <<pid, parent, nextpid>>,
           \A i \in Slots : (Used(i)' <=> Used(i)) /\ (Alive(i)' <=> Alive(i))
    PROVE  UNCHANGED Lin!lineage
<1>1. UNCHANGED <<LivePids, ZombiePids, ParentPids, nextpid>>
  BY LineageKept
<1> QED BY <1>1 DEF Lin!lineage, LivePids, ZombiePids, ParentPids, Members

(* Every step of the table is a step of Lineage, or one it does not see.    *)
LEMMA LineageStep ==
    IndInv /\ PidsDiffer /\ IndInv' /\ PidsDiffer' /\ [Next]_vars => [Lin!Next]_(Lin!lineage)
<1> SUFFICES ASSUME IndInv, PidsDiffer, IndInv', PidsDiffer', [Next]_vars
             PROVE  Lin!Next \/ UNCHANGED Lin!lineage
  OBVIOUS
<1>0. TypeOK /\ CurAlive /\ InitSafe
  BY DEF IndInv
<1> USE DEF ids, run
<1>1. CASE UNCHANGED vars
  BY <1>1, LineageStutters DEF vars, Used, Alive
<1>2. ASSUME NEW p \in Slots, Kernel(p) PROVE Lin!Next \/ UNCHANGED Lin!lineage
  <2>0. cur = p => Alive(p)
    BY <1>0 DEF CurAlive
  <2>1. CASE ReadSleepOn(p)
    BY <1>0, <2>0, <2>1, LineageStutters DEF ReadSleepOn, SleepOn, In, Used, Alive, TypeOK
  <2>2. CASE ReadReturn(p)
    BY <2>2, LineageStutters DEF ReadReturn, Used, Alive
  <2>3. CASE ExitSleep(p)
    BY <1>0, <2>0, <2>3, LineageStutters DEF ExitSleep, SleepOn, In, Used, Alive, TypeOK
  <2>4. CASE ExitFinish(p)
    BY <2>4, ExitFinishIsExit
  <2>5. CASE WaitCollect(p)
    BY <2>5, WaitIsCollect
  <2>6. CASE WaitError(p)
    BY <2>6, LineageStutters DEF WaitError, Used, Alive
  <2>7. CASE WaitSleep(p)
    BY <1>0, <2>0, <2>7, LineageStutters DEF WaitSleep, SleepOn, In, Used, Alive, TypeOK
  <2>8. CASE Leave(p) \/ PostIgnore(p)
    BY <2>8, LineageStutters DEF Leave, PostIgnore, Used, Alive
  <2>9. CASE PostHandler(p)
    BY <1>0, <2>0, <2>9, LineageStutters DEF PostHandler, In, Used, Alive, TypeOK
  <2>10. CASE PostDefault(p)
    BY <1>0, <2>0, <2>10, ExitStartIsAdopt DEF PostDefault, In, InitSafe
  <2> QED BY <1>2, <2>1, <2>2, <2>3, <2>4, <2>5, <2>6, <2>7, <2>8, <2>9, <2>10 DEF Kernel
<1>3. ASSUME NEW p \in Slots, User(p) PROVE Lin!Next \/ UNCHANGED Lin!lineage
  <2>0. cur = p => Alive(p)
    BY <1>0 DEF CurAlive
  <2>1. CASE Fork(p)
    BY <2>1, ForkIsFork
  <2>2. CASE ForkFail(p)
    <3>1. PICK C \in SUBSET FreeSlots :
            /\ pid' = [i \in Slots |-> IF i \in C THEN 0 ELSE pid[i]]
            /\ parent' = [i \in Slots |-> IF i \in C THEN NoProc ELSE parent[i]]
      BY <2>2, FailedFork
    <3>2. UNCHANGED <<nextpid, state>>
      BY <2>2 DEF ForkFail
    <3>3. \A i \in Slots : /\ (Used(i)' <=> Used(i)) /\ (Alive(i)' <=> Alive(i))
                           /\ Used(i) => pid'[i] = pid[i] /\ parent'[i] = parent[i]
      BY <3>1, <3>2 DEF FreeSlots, Used, Alive
    <3>4. UNCHANGED <<LivePids, ZombiePids, ParentPids, nextpid>>
      BY <3>2, <3>3, LineageKept
    <3> QED BY <3>4 DEF Lin!lineage, LivePids, ZombiePids, ParentPids, Members
  <2>3. CASE Exit(p)
    BY <2>0, <2>3, ExitStartIsAdopt DEF Exit, In
  <2>4. CASE Wait(p)
    BY <2>4, LineageStutters DEF Wait, Used, Alive
  <2>5. CASE Read(p)
    BY <1>0, <2>0, <2>5, LineageStutters DEF Read, SleepOn, In, Used, Alive, TypeOK
  <2>6. CASE \E q \in Slots : Kill(p, q)
    BY <2>6, LineageStutters DEF Kill, Used, Alive
  <2>7. CASE \E g \in 2 .. MaxPid : KillGroup(p, g)
    BY <2>7, LineageStutters DEF KillGroup, Used, Alive
  <2> QED BY <1>3, <2>1, <2>2, <2>3, <2>4, <2>5, <2>6, <2>7 DEF User
<1>4. ASSUME NEW p \in Slots, Dispatch(p) \/ Preempt(p) PROVE UNCHANGED Lin!lineage
  BY <1>4, LineageStutters DEF Dispatch, Preempt, Used, Alive
<1>5. CASE DiskIntr
  BY <1>0, <1>5, WokenFacts, LineageStutters DEF DiskIntr, Used, Alive
<1>6. CASE \E g \in 2 .. MaxPid : TtyIntr(g)
  BY <1>6, LineageStutters DEF TtyIntr, Used, Alive
<1> QED BY <1>1, <1>2, <1>3, <1>4, <1>5, <1>6 DEF Next

(* At the start there is init, which has the id 1 and no parent.            *)
LEMMA LineageInit == Init => Lin!Init
<1> SUFFICES ASSUME Init PROVE Lin!Init
  OBVIOUS
<1>1. LivePids = {InitPid} /\ ZombiePids = {} /\ Members = {}
  BY Constants DEF Init, LivePids, ZombiePids, Members, PidsOf, Used, Alive
<1>2. PidsOf(Members) = {}
  BY <1>1 DEF PidsOf
<1>3. ParentPids = [n \in {} |-> InitPid]
  BY <1>2 DEF ParentPids
<1>4. nextpid - 1 = InitPid
  BY DEF Init, InitPid
<1> QED BY <1>1, <1>3, <1>4 DEF Lin!Init, LivePids, ZombiePids, ParentPids, Members

(* The process table implements Lineage: an id is given out once, a process *)
(* becomes a zombie once and without children, and a zombie is collected    *)
(* once, by the process that is its parent then and lives.                  *)
THEOREM Refinement == Spec => IsLineage
BY LineageInit, LineageStep, PidsInductive, PTL DEF Spec, IsLineage, Lin!Spec

-----------------------------------------------------------------------------
(* Signals, as one process sees them: any set of signals and any width of   *)
(* the clock.                                                               *)

(* The handlers and the mask have their types, and a context is main() or   *)
(* the handler of a signal.                                                 *)
SigTyped ==
    /\ pending \subseteq Sigs /\ mask \subseteq Sigs
    /\ context \in Sigs \cup {Sg!Main} /\ saved \in Sigs \cup {Sg!Main}
    /\ nested \in BOOLEAN

(* What every system call leaves behind.                                    *)
SigInv == SigTyped /\ Sg!HandlersReturn

(* The lowest of the unmasked signals is one of them.                       *)
LEMMA PostedIs ==
    ASSUME Sg!Numbers, NEW pend, pend \subseteq Sigs, NEW m, Sg!Unmasked(pend, m) # {}
    PROVE  Sg!Posted(pend, m) \in Sigs /\ Sg!Posted(pend, m) \notin m
<1> DEFINE S == Sg!Unmasked(pend, m)
<1>1. S \subseteq Sigs /\ \A s \in S : s \notin m
  BY DEF Sg!Unmasked
<1>2. S \subseteq Nat
  BY <1>1 DEF Sg!Numbers
<1> DEFINE Below == {ss \in Nat \X Nat : ss[1] < ss[2]}
<1>3. IsWellFoundedOn(Below, Nat)
  BY NatLessThanWellFounded DEF OpToRel
<1>4. S # {}
  OBVIOUS
<1>5. PICK x \in S : \A y \in S : ~(<<y, x>> \in Below)
  <2> HIDE DEF Below, S
  <2> QED BY <1>2, <1>3, <1>4, WFMin
<1>6. ASSUME NEW y \in S PROVE x =< y
  <2>1. x \in Nat /\ y \in Nat
    BY <1>2
  <2>2. ~(y < x)
    BY <1>5, <2>1
  <2> QED BY <2>1, <2>2
<1>7. Sg!Min(S) \in S
  <2> HIDE DEF S
  <2> QED BY <1>6 DEF Sg!Min
<1> QED BY <1>1, <1>7 DEF Sg!Posted

(* The end of a system call: a handler begins only in main() or is noted as *)
(* nested, and masks its signal.                                            *)
LEMMA LeaveKeeps ==
    ASSUME Sg!Numbers, nested \in BOOLEAN, saved \in Sigs \cup {Sg!Main}, UNCHANGED inherited,
           NEW pend, pend \subseteq Sigs, NEW m, m \subseteq Sigs, NEW c \in Sigs \cup {Sg!Main}, Sg!Leave(pend, m, c),
           ~nested => m \ inherited = {c} \ (inherited \cup {Sg!Main}),
           ~nested /\ c # Sg!Main => saved = Sg!Main
    PROVE  SigInv'
<1> DEFINE s == Sg!Posted(pend, m)
<1>1. CASE /\ pending' = pend /\ mask' = m /\ context' = c
           /\ UNCHANGED <<saved, nested>>
  BY <1>1 DEF SigInv, SigTyped, Sg!HandlersReturn
<1>2. CASE /\ s \in Sigs /\ s \notin m
           /\ saved' = c /\ context' = s /\ mask' = Sg!Masked(m, s) /\ pending' = pend \ {s}
           /\ nested' = (nested \/ c # Sg!Main)
  <2> HIDE DEF s
  <2>1. SigTyped'
    BY <1>2 DEF SigTyped, Sg!Masked
  <2>2. ASSUME ~nested' PROVE /\ mask' \ inherited' = {context'} \ (inherited' \cup {Sg!Main})
                              /\ context' # Sg!Main => saved' = Sg!Main
    <3>1. ~nested /\ c = Sg!Main
      BY <1>2, <2>2
    <3>2. m \ inherited = {}
      BY <3>1
    <3>3. s # Sg!Main
      BY <1>2 DEF Sg!Numbers, Sg!Main
    <3> QED BY <1>2, <3>1, <3>2, <3>3 DEF Sg!Masked
  <2> QED BY <2>1, <2>2 DEF SigInv, Sg!HandlersReturn
<1>3. CASE Sg!Unmasked(pend, m) = {}
  BY <1>1, <1>3 DEF Sg!Leave
<1>4. CASE Sg!Unmasked(pend, m) # {}
  <2>1. s \in Sigs /\ s \notin m
    BY <1>4, PostedIs
  <2>2. Sg!Post(s, pend, m, c)
    BY <1>4 DEF Sg!Leave
  <2> HIDE DEF s
  <2> QED BY <1>1, <1>2, <2>1, <2>2 DEF Sg!Post
<1> QED BY <1>3, <1>4

(* Every step keeps what a handler and main() rely on.                      *)
LEMMA SigStep == ASSUME Sg!Numbers PROVE SigInv /\ [Sg!Next]_(Sg!vars) => SigInv'
<1> SUFFICES ASSUME SigInv, [Sg!Next]_(Sg!vars) PROVE SigInv'
  OBVIOUS
<1> USE DEF SigInv, SigTyped, Sg!HandlersReturn
<1>1. ASSUME NEW s \in Sigs, Sg!Kill(s) PROVE SigInv'
  BY <1>1 DEF Sg!Kill
<1>2. CASE Sg!Tick
  BY <1>2 DEF Sg!Tick, Sg!sigs
<1>3. CASE Sg!Syscall \/ Sg!SleepReturns
  BY <1>3, LeaveKeeps DEF Sg!Syscall, Sg!SleepReturns
<1>4. ASSUME NEW s \in Sigs, NEW h, Sg!Signal(s, h) PROVE SigInv'
  BY <1>4, LeaveKeeps DEF Sg!Signal
<1>5. CASE Sg!Sigreturn
  <2>1. context \in Sigs /\ context # Sg!Main
    BY <1>5 DEF Sg!Sigreturn
  <2>2. ~nested => saved = Sg!Main /\ (mask \ {context}) \ inherited = {}
    BY <2>1
  <2>3. ~nested => (mask \ {context}) \ inherited = {saved} \ (inherited \cup {Sg!Main})
    BY <2>2
  <2>4. UNCHANGED inherited /\ Sg!Leave(pending, mask \ {context}, saved)
    BY <1>5 DEF Sg!Sigreturn
  <2>5. mask \ {context} \subseteq Sigs /\ (~nested /\ saved # Sg!Main => saved = Sg!Main)
    BY <2>2
  <2> QED BY <2>3, <2>4, <2>5, LeaveKeeps
<1>6. CASE Sg!Exec
  BY <1>6 DEF Sg!Exec
<1>7. ASSUME NEW n \in Seconds, Sg!SysSleep(n) PROVE SigInv'
  BY <1>7 DEF Sg!SysSleep, Sg!sigs
<1>8. CASE UNCHANGED Sg!vars
  BY <1>8 DEF Sg!vars, Sg!sigs
<1> QED BY <1>1, <1>2, <1>3, <1>4, <1>5, <1>6, <1>7, <1>8 DEF Sg!Next

(* postsig() and sigreturn(): the context that a handler interrupted comes  *)
(* back, and its signal is masked for as long as it runs.                   *)
THEOREM HandlersAlwaysReturn == ASSUME Sg!Numbers PROVE Sg!Spec => []HandlersReturn
<1>1. Sg!Init => SigInv
  BY DEF Sg!Init, SigInv, SigTyped, Sg!HandlersReturn
<1>2. SigInv => HandlersReturn
  BY DEF SigInv, HandlersReturn
<1>3. SigInv /\ [Sg!Next]_(Sg!vars) => SigInv'
  BY SigStep
<1> QED BY <1>1, <1>2, <1>3, PTL DEF Sg!Spec

-----------------------------------------------------------------------------
(* The clock runs within its width, and a process that sleeps waits for the *)
(* tick that is as far ahead as the time it has left.                       *)
SleepInv ==
    /\ ticks \in 0 .. TICKS - 1 /\ due \in Nat
    /\ runs = "SLEEP" => due > 0 /\ due < TICKS /\ alarm = (ticks + due) % TICKS

(* A sum of the clock and a time less than its width wraps at most once.    *)
LEMMA WrapOnce ==
    ASSUME Sg!Numbers, NEW a \in Nat, a < TICKS, NEW d \in Nat, d < TICKS
    PROVE  (a + d) % TICKS = IF a + d < TICKS THEN a + d ELSE a + d - TICKS
<1>1. TICKS \in Nat \ {0}
  BY DEF Sg!Numbers
<1>2. CASE a + d < TICKS
  BY <1>1, <1>2
<1>3. CASE a + d >= TICKS
  <2>1. PICK b \in Nat : b = a + d - TICKS
    BY <1>1, <1>3
  <2>2. b < TICKS
    BY <1>1, <2>1
  <2>3. (b + TICKS) % TICKS = b
    BY <1>1, <2>2
  <2> QED BY <1>1, <1>3, <2>1, <2>3
<1> QED BY <1>1, <1>2, <1>3

(* No step lets a sleeper miss its tick.                                    *)
LEMMA SleepStep == ASSUME Sg!Numbers PROVE SleepInv /\ [Sg!Next]_(Sg!vars) => SleepInv'
<1> SUFFICES ASSUME SleepInv, [Sg!Next]_(Sg!vars) PROVE SleepInv'
  OBVIOUS
<1>1. TICKS \in Nat \ {0} /\ ticks \in Nat /\ ticks < TICKS /\ due \in Nat
  BY DEF Sg!Numbers, SleepInv
<1>2. CASE Sg!Tick
  <2>1. ticks' = IF ticks + 1 < TICKS THEN ticks + 1 ELSE 0
    BY <1>1, <1>2 DEF Sg!Tick
  <2>2. ticks' \in 0 .. TICKS - 1 /\ due' \in Nat
    BY <1>1, <1>2, <2>1 DEF Sg!Tick
  <2>3. ASSUME runs' = "SLEEP" PROVE due' > 0 /\ due' < TICKS /\ alarm' = (ticks' + due') % TICKS
    <3>1. runs = "SLEEP" /\ alarm # ticks' /\ alarm' = alarm
      BY <1>2, <2>3 DEF Sg!Tick, Sg!WokenNow
    <3>2. due > 0 /\ due < TICKS /\ alarm = (ticks + due) % TICKS
      BY <3>1 DEF SleepInv
    <3>3. alarm = IF ticks + due < TICKS THEN ticks + due ELSE ticks + due - TICKS
      BY <1>1, <3>2, WrapOnce
    <3>4. due # 1
      BY <1>1, <2>1, <3>1, <3>3
    <3>5. due' = due - 1
      BY <1>2, <3>2 DEF Sg!Tick
    <3>6. due' \in Nat /\ due' > 0 /\ due' < TICKS
      BY <1>1, <3>2, <3>4, <3>5
    <3>7. (ticks' + due') % TICKS = IF ticks' + due' < TICKS THEN ticks' + due' ELSE ticks' + due' - TICKS
      <4>1. ticks' \in Nat /\ ticks' < TICKS
        BY <1>1, <2>2
      <4> QED BY <3>6, <4>1, WrapOnce
    <3> QED BY <1>1, <2>1, <3>1, <3>2, <3>3, <3>5, <3>6, <3>7
  <2> QED BY <2>2, <2>3 DEF SleepInv
<1>3. ASSUME NEW n \in Seconds, Sg!SysSleep(n) PROVE SleepInv'
  <2>1. PIT_FREQ * n \in Nat \ {0} /\ PIT_FREQ * n < TICKS
    BY DEF Sg!Numbers
  <2> QED BY <1>3, <2>1 DEF Sg!SysSleep, SleepInv
<1>4. ASSUME NEW s \in Sigs, Sg!Kill(s) PROVE SleepInv'
  BY <1>4 DEF Sg!Kill, Sg!clock, SleepInv
<1>5. CASE Sg!Syscall \/ Sg!Sigreturn \/ Sg!SleepReturns \/ Sg!Exec \/ \E s \in Sigs, h \in {"SIG_DFL", "SIG_IGN", "handler"} : Sg!Signal(s, h)
  <2>1. runs' # "SLEEP" /\ ticks' = ticks /\ due' \in Nat
    BY <1>1, <1>5 DEF Sg!Syscall, Sg!Sigreturn, Sg!SleepReturns, Sg!Exec, Sg!Signal, Sg!Leave, Sg!Post, Sg!clock
  <2> QED BY <2>1 DEF SleepInv
<1>6. CASE UNCHANGED Sg!vars
  BY <1>6 DEF Sg!vars, Sg!clock, SleepInv
<1> QED BY <1>2, <1>3, <1>4, <1>5, <1>6 DEF Sg!Next

(* sys_sleep() and pit_irq(): nobody sleeps longer than was asked for, over *)
(* the wrap-around of pit_ticks.                                            *)
THEOREM SleepsEnd == ASSUME Sg!Numbers PROVE Sg!Spec => []SleepIsTimed
<1>1. Sg!Init => SleepInv
  BY DEF Sg!Numbers, Sg!Init, SleepInv
<1>2. SleepInv => SleepIsTimed
  BY DEF SleepInv, SleepIsTimed, Sg!SleepIsTimed
<1>3. SleepInv /\ [Sg!Next]_(Sg!vars) => SleepInv'
  BY SleepStep
<1> QED BY <1>1, <1>2, <1>3, PTL DEF Sg!Spec
===============================================================================
